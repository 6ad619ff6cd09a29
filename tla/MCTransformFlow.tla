-------------------------- MODULE MCTransformFlow --------------------------
(* Two text documents and a PDF for TLC. *)
EXTENDS TransformFlow
=============================================================================
