------------------------- MODULE MCTransformUpload -------------------------
(* Two uploads in flight for TLC. *)
EXTENDS TransformUpload, TLC

CONSTANTS t1, t2
MCTransforms == {t1, t2}
MCEndpoint == t1 :> "auto" @@ t2 :> "schemaless"
MCNumDocs == t1 :> 2 @@ t2 :> 1
=============================================================================
