------------------------------ MODULE PairLabels ------------------------------
(***************************************************************************)
(* The active-learning loop of one tenant in one API process: pairs of     *)
(* nodes the extraction could not decide on are queued, a reviewer labels  *)
(* them, and a label shifts the match threshold of the pair's entity type, *)
(* which later deduplications of that type read and shift themselves.      *)
(*                                                                         *)
(* A label is committed by one statement of the database and counted in    *)
(* the memory of the process by a hook that runs when its answer arrives.  *)
(* The statement can fail, its answer can be lost after the commit, the    *)
(* hook can raise, and the process can restart; labels of one pair can be  *)
(* submitted again and concurrently.                                       *)
(*                                                                         *)
(* Scores and thresholds are integers, in hundredths.                      *)
(*                                                                         *)
(* EntityLedger is the other half of entity resolution: what both have     *)
(* carries a name of its own here, so that one module can extend both.     *)
(***************************************************************************)
EXTENDS Integers

CONSTANTS
    Pairs,       \* disputed pairs of the tenant, by their canonical key
    EntityTypes, \* entity types
    EntityTypeOf, \* pair -> entity_type
    Requests,    \* label requests under way
    Scores,      \* lowest match score of a deduplication
    One,         \* a score of 1.0
    Floor,       \* MergeLearningService.floor
    Margin,      \* MergeLearningService.margin
    Nudge,       \* label_not_match_nudge, and label_match_nudge with the sign changed
    Default,     \* the threshold the extraction asks for
    Unseen,      \* a type without statistics
    NoPair       \* a request slot that is free

ASSUME EntityTypesAssumption == EntityTypeOf \in [Pairs -> EntityTypes] /\ NoPair \notin Pairs
ASSUME ScoresAssumption ==
    /\ One \in Nat /\ Margin \in Nat /\ Nudge \in Nat
    /\ Scores \subseteq 0..One /\ Floor \in 0..One /\ Default \in Floor..One
    /\ Unseen \notin 0..One

Labels == {"labeled_match", "labeled_not_match", "skipped"}
Statuses == Labels \cup {"absent", "pending"}
LabelPCs == {"free", "waiting", "locked", "committed"}

VARIABLES
    status,    \* pair -> its row in disputed_pairs
    stage,     \* request -> where it stands
    pair,      \* request -> the pair it labels
    label,     \* request -> the status it sets
    old,       \* request -> the status its statement has replaced
    ema,       \* type -> ema_low_score, or Unseen
    nudged,    \* history: pair -> sum of the deltas its labels had applied, in nudges,
               \* while it is not adrift
    adrift     \* history: pairs with a committed label the hook did not count

request == <<stage, pair, label, old>>
labelVars == <<status, request, ema, nudged, adrift>>

LabelsTypeOK ==
    /\ status \in [Pairs -> Statuses]
    /\ stage \in [Requests -> LabelPCs]
    /\ pair \in [Requests -> Pairs \cup {NoPair}]
    /\ \A r \in Requests : stage[r] # "free" => pair[r] \in Pairs
    /\ label \in [Requests -> Statuses]
    /\ old \in [Requests -> Statuses]
    /\ ema \in [EntityTypes -> (Floor..One) \cup {Unseen}]
    /\ nudged \in [Pairs -> Int]
    /\ adrift \subseteq Pairs

LabelsInit ==
    /\ status = [p \in Pairs |-> "absent"]
    /\ stage = [r \in Requests |-> "free"]
    /\ pair = [r \in Requests |-> NoPair]
    /\ label = [r \in Requests |-> "absent"]
    /\ old = [r \in Requests |-> "absent"]
    /\ ema = [t \in EntityTypes |-> Unseen]
    /\ nudged = [p \in Pairs |-> 0]
    /\ adrift = {}

-----------------------------------------------------------------------------
(* The threshold of an entity type *)

\* _status_contribution, in nudges.
Contribution(s) ==
    CASE s = "labeled_match" -> -1
      [] s = "labeled_not_match" -> 1
      [] OTHER -> 0

Delta(from, to) == Contribution(to) - Contribution(from)

Clamped(x) == IF x > One THEN One ELSE IF x < Floor THEN Floor ELSE x

\* apply_pair_label: from a neutral 1.0 when the type has no statistics yet.
Shifted(t, d) == Clamped((IF ema[t] = Unseen THEN One ELSE ema[t]) + d * Nudge)

\* get_threshold: never stricter than the caller's default.
Threshold(t) ==
    IF ema[t] = Unseen \/ ema[t] >= Default - Margin THEN Default
    ELSE Clamped(ema[t] - Margin)

-----------------------------------------------------------------------------
(* The queue *)

\* ON CONFLICT DO NOTHING: a task's retry and a re-extraction find the row there.
Enqueue(p) ==
    /\ status[p] = "absent"
    /\ status' = [status EXCEPT ![p] = "pending"]
    /\ UNCHANGED <<request, ema, nudged, adrift>>

-----------------------------------------------------------------------------
(* One label request *)

Holds(r) == stage[r] \in {"locked", "committed"}

\* The answer is sent and the lock given back.
Answered(r) ==
    /\ stage' = [stage EXCEPT ![r] = "free"]
    /\ pair' = [pair EXCEPT ![r] = NoPair]
    /\ label' = [label EXCEPT ![r] = "absent"]
    /\ old' = [old EXCEPT ![r] = "absent"]

\* A reviewer, or a client that submits a label again.
Submit(r, p, l) ==
    /\ stage[r] = "free"
    /\ stage' = [stage EXCEPT ![r] = "waiting"]
    /\ pair' = [pair EXCEPT ![r] = p]
    /\ label' = [label EXCEPT ![r] = l]
    /\ UNCHANGED <<status, old, ema, nudged, adrift>>

\* MUTATION of Acquire: the statement and the hook are not serialised.
AcquireUnlocked(r) ==
    /\ stage[r] = "waiting"
    /\ stage' = [stage EXCEPT ![r] = "locked"]
    /\ UNCHANGED <<status, pair, label, old, ema, nudged, adrift>>

\* The asyncio lock of this user and this pair.
Acquire(r) ==
    /\ stage[r] = "waiting"
    /\ \A s \in Requests : Holds(s) => pair[s] # pair[r]
    /\ stage' = [stage EXCEPT ![r] = "locked"]
    /\ UNCHANGED <<status, pair, label, old, ema, nudged, adrift>>

\* The row's status is read under its lock and replaced by one statement.
Commit(r) ==
    /\ stage[r] = "locked" /\ status[pair[r]] # "absent"
    /\ old' = [old EXCEPT ![r] = status[pair[r]]]
    /\ status' = [status EXCEPT ![pair[r]] = label[r]]
    /\ stage' = [stage EXCEPT ![r] = "committed"]
    /\ UNCHANGED <<pair, label, ema, nudged, adrift>>

\* MUTATION of NotFound: the early return keeps the lock.
NotFoundHolding(r) ==
    /\ stage[r] = "locked" /\ status[pair[r]] = "absent"
    /\ UNCHANGED labelVars

\* No row of this tenant has the id: the client gets a 404.
NotFound(r) ==
    /\ stage[r] = "locked" /\ status[pair[r]] = "absent"
    /\ Answered(r)
    /\ UNCHANGED <<status, ema, nudged, adrift>>

\* The database fails before the commit: nothing is written, the client gets a 500.
StatementFails(r) ==
    /\ stage[r] = "locked"
    /\ Answered(r)
    /\ UNCHANGED <<status, ema, nudged, adrift>>

\* What the hook would apply for a committed label.
Owed(r) == Delta(old[r], label[r])

\* The answer arrives and the hook runs, with no await in between.
Hook(r) ==
    LET p == pair[r]
        t == EntityTypeOf[p]
    IN  /\ stage[r] = "committed"
        /\ Answered(r)
        /\ ema' = IF Owed(r) = 0 THEN ema ELSE [ema EXCEPT ![t] = Shifted(t, Owed(r))]
        /\ nudged' = [nudged EXCEPT ![p] = IF p \in adrift THEN 0 ELSE @ + Owed(r)]
        /\ UNCHANGED <<status, adrift>>

\* The answer is lost after the commit, or the hook raises and is ignored: the
\* label stands and the threshold never hears of it.
HookMissed(r) ==
    /\ stage[r] = "committed"
    /\ Answered(r)
    /\ IF Owed(r) = 0 THEN UNCHANGED <<nudged, adrift>>
       ELSE /\ adrift' = adrift \cup {pair[r]}
            /\ nudged' = [nudged EXCEPT ![pair[r]] = 0]
    /\ UNCHANGED <<status, ema>>

-----------------------------------------------------------------------------
(* The rest of the process *)

\* record_outcome: alpha is 0.3.
Averaged(t, score) == IF ema[t] = Unseen THEN score ELSE (7 * ema[t] + 3 * score) \div 10

\* deduplicate_entities_with_splink reads the threshold of a type, keeps what scores at
\* least that, and records the lowest score, without an await that yields.
Deduplicate(t, score) ==
    /\ score >= Threshold(t)
    /\ ema' = [ema EXCEPT ![t] = Averaged(t, score)]
    /\ UNCHANGED <<status, request, nudged, adrift>>

\* The statistics live in memory; rows that are labelled stay labelled.
Restart ==
    /\ stage' = [r \in Requests |-> "free"]
    /\ pair' = [r \in Requests |-> NoPair]
    /\ label' = [r \in Requests |-> "absent"]
    /\ old' = [r \in Requests |-> "absent"]
    /\ ema' = [t \in EntityTypes |-> Unseen]
    /\ nudged' = [p \in Pairs |-> 0]
    /\ adrift' = adrift \cup {p \in Pairs : Contribution(status[p]) # 0}
    /\ UNCHANGED status

Proceeds(r) == Commit(r) \/ NotFound(r) \/ Hook(r)

Fails(r) == StatementFails(r) \/ HookMissed(r)

LabelsNext ==
    \/ \E p \in Pairs : Enqueue(p)
    \/ \E r \in Requests :
          \/ \E p \in Pairs, l \in Labels : Submit(r, p, l)
          \/ Acquire(r)
          \/ Proceeds(r)
          \/ Fails(r)
    \/ \E t \in EntityTypes, s \in Scores : Deduplicate(t, s)
    \/ Restart

\* The event loop runs what can run, an asyncio lock serves its waiters in turn,
\* and nothing has to fail.
LabelsFairness == \A r \in Requests : WF_labelVars(Proceeds(r)) /\ SF_labelVars(Acquire(r))

LabelsSpec == LabelsInit /\ [][LabelsNext]_labelVars /\ LabelsFairness

-----------------------------------------------------------------------------
(* Properties *)

\* The label of p is committed and its hook still to come.
InFlight(p) == {r \in Requests : stage[r] = "committed" /\ pair[r] = p}

\* A label counts once, however often and however concurrently it is submitted:
\* what the labels of a pair have moved the threshold by is the contribution of
\* the label it has now, or of the one before while a hook is still to run.  A
\* label whose hook was missed excepts the pair for good: submitting it again
\* replaces a label by itself and owes nothing.
LabelsCountOnce ==
    \A p \in Pairs \ adrift :
        \/ nudged[p] = Contribution(status[p])
        \/ \E r \in InFlight(p) : nudged[p] = Contribution(old[r])

\* Every label request is answered: a failing statement, a missing row and a
\* failing hook all give the pair's lock back.
EveryLabelAnswered == \A r \in Requests : stage[r] = "waiting" ~> stage[r] = "free"
=============================================================================
