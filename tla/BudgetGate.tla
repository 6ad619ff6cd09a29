------------------------------ MODULE BudgetGate ------------------------------
(***************************************************************************)
(* The monthly spending cap of one user and the gate in front of the three *)
(* upload routes.  A request of the gate reads the cap and then, if there  *)
(* is one, the spend of the month: two statements on two connections,      *)
(* between which the user may move the cap, LLM calls that already run may *)
(* add their cost, and the month may end.  Either read can fail.           *)
(*                                                                         *)
(* The spend of a month is the sum of its priced llm_usage rows.  A row    *)
(* without a price, or one the tracker failed to write, adds nothing and   *)
(* is no step here.                                                        *)
(*                                                                         *)
(* The gate stands in front of TransformUpload: its initial state, actions *)
(* and types have names of their own, so that one module can extend both.  *)
(***************************************************************************)
EXTENDS Integers

CONSTANTS
    Requests,    \* upload requests of the user
    Caps,        \* monthly_cap_usd the user sets
    NoCap,       \* the user has no row in user_budgets
    Costs,       \* estimated_cost_usd of one LLM call
    MaxSpend,    \* bound: spend of a month beyond which no call is recorded
    MaxMonths    \* bound: calendar months of a behaviour

ASSUME CapAssumption == Caps \subseteq Nat /\ NoCap \notin Nat
ASSUME CostAssumption == Costs \subseteq Nat /\ MaxSpend \in Nat /\ MaxMonths \in Nat \ {0}

Months == 1..MaxMonths

VARIABLES
    month,      \* the current month, in UTC
    spend,      \* month -> what the llm_usage rows of that month add up to
    cap,        \* the row of user_budgets, or NoCap
    gate,       \* request -> where it stands
    seenCap,    \* request -> the cap check_can_proceed has read
    room,       \* history: at some instant of the check the spend was below the cap
    over,       \* history: at some instant of the check it was not
    capMoved,   \* history: the cap was set or deleted during the check
    rolled      \* history: the month ended during the check

request == <<gate, seenCap>>
checkHistory == <<room, over, capMoved, rolled>>
gateVars == <<month, spend, cap, request, checkHistory>>

PCs == {"idle", "spend", "admitted", "refused", "noBudgetRead", "noSpendRead"}

GateTypeOK ==
    /\ month \in Months
    /\ spend \in [Months -> Nat]
    /\ cap \in Caps \cup {NoCap}
    /\ gate \in [Requests -> PCs]
    /\ seenCap \in [Requests -> Caps \cup {NoCap}]
    /\ room \in [Requests -> BOOLEAN] /\ over \in [Requests -> BOOLEAN]
    /\ capMoved \in [Requests -> BOOLEAN] /\ rolled \in [Requests -> BOOLEAN]

GateInit ==
    /\ month = 1 /\ spend = [m \in Months |-> 0] /\ cap = NoCap
    /\ gate = [r \in Requests |-> "idle"]
    /\ seenCap = [r \in Requests |-> NoCap]
    /\ room = [r \in Requests |-> FALSE] /\ over = [r \in Requests |-> FALSE]
    /\ capMoved = [r \in Requests |-> FALSE] /\ rolled = [r \in Requests |-> FALSE]

-----------------------------------------------------------------------------
(* History: what was true at some instant of a check *)

Checking(r) == gate[r] = "spend"

HasRoom == cap = NoCap \/ spend[month] < cap

Marked(h, b) == [r \in Requests |-> h[r] \/ (Checking(r) /\ b)]

\* The state after the step is an instant of every check under way.
Observe == room' = Marked(room, HasRoom') /\ over' = Marked(over, ~HasRoom')

-----------------------------------------------------------------------------
(* The gate *)

\* MUTATION of Affordable: a budget that is only NEAR its cap blocks already.
AffordableBelowNear(r) == 10 * spend[month] < 8 * seenCap[r]

Affordable(r) == spend[month] < seenCap[r]

\* get_budget: without a cap the request is admitted and the spend never read.
ReadBudget(r) ==
    /\ gate[r] = "idle"
    /\ seenCap' = [seenCap EXCEPT ![r] = cap]
    /\ gate' = [gate EXCEPT ![r] = IF cap = NoCap THEN "admitted" ELSE "spend"]
    /\ room' = [room EXCEPT ![r] = HasRoom]
    /\ over' = [over EXCEPT ![r] = ~HasRoom]
    /\ UNCHANGED <<month, spend, cap, capMoved, rolled>>

\* BudgetReadError becomes a 503: a gate that cannot tell refuses.
ReadBudgetFails(r) ==
    /\ gate[r] = "idle"
    /\ gate' = [gate EXCEPT ![r] = "noBudgetRead"]
    /\ UNCHANGED <<month, spend, cap, seenCap, checkHistory>>

\* get_current_spend: the window is that of the month at the time of this read.
ReadSpend(r) ==
    /\ gate[r] = "spend"
    /\ gate' = [gate EXCEPT ![r] = IF Affordable(r) THEN "admitted" ELSE "refused"]
    /\ UNCHANGED <<month, spend, cap, seenCap, checkHistory>>

\* MUTATION of ReadSpendFails: a failed read counts as a spend of zero.
ReadSpendFailsOpen(r) ==
    /\ gate[r] = "spend"
    /\ gate' = [gate EXCEPT ![r] = "admitted"]
    /\ UNCHANGED <<month, spend, cap, seenCap, checkHistory>>

ReadSpendFails(r) ==
    /\ gate[r] = "spend"
    /\ gate' = [gate EXCEPT ![r] = "noSpendRead"]
    /\ UNCHANGED <<month, spend, cap, seenCap, checkHistory>>

-----------------------------------------------------------------------------
(* The user, the running LLM calls and the calendar *)

CapChanges ==
    /\ capMoved' = Marked(capMoved, TRUE)
    /\ UNCHANGED <<month, spend, request, rolled>>
    /\ Observe

SetBudget(c) == cap' = c /\ CapChanges

\* Deleting a budget that is not there changes nothing.
DeleteBudget == cap # NoCap /\ cap' = NoCap /\ CapChanges

\* An LLM call of an admitted transform, a merge or an inference ends.
RecordCall(cost) ==
    /\ spend[month] + cost <= MaxSpend
    /\ spend' = [spend EXCEPT ![month] = @ + cost]
    /\ UNCHANGED <<month, cap, request, capMoved, rolled>>
    /\ Observe

MonthEnds ==
    /\ month < MaxMonths
    /\ month' = month + 1
    /\ rolled' = Marked(rolled, TRUE)
    /\ UNCHANGED <<spend, cap, request, capMoved>>
    /\ Observe

GateNext ==
    \/ \E r \in Requests :
          ReadBudget(r) \/ ReadBudgetFails(r) \/ ReadSpend(r) \/ ReadSpendFails(r)
    \/ \E c \in Caps : SetBudget(c)
    \/ DeleteBudget
    \/ \E c \in Costs : RecordCall(c)
    \/ MonthEnds

GateSpec == GateInit /\ [][GateNext]_gateVars

-----------------------------------------------------------------------------
(* Properties *)

\* An admitted upload was affordable at some instant of its check, although cap
\* and spend were read apart, unless the month ended AND the cap was moved
\* between the two reads: the cap of one month was then held against the spend
\* of the next.
AdmittedHadRoom ==
    \A r \in Requests :
        gate[r] = "admitted" => room[r] \/ (rolled[r] /\ capMoved[r])

\* A 402 is given for a cap that was reached during the check; only a cap moved
\* between the two reads can refuse an upload that was affordable all along.
RefusedWasOver ==
    \A r \in Requests : gate[r] = "refused" => over[r] \/ capMoved[r]
=============================================================================
