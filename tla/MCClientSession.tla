--------------------------- MODULE MCClientSession ---------------------------
(***************************************************************************)
(* Two edits, so that one is made while the other is under way; one change *)
(* of another client.  No symmetry: the run checks liveness.               *)
(***************************************************************************)
EXTENDS ClientSession

=============================================================================
