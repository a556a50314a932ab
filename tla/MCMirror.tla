------------------------------ MODULE MCMirror ------------------------------
(* Mirror for TLC.                                                         *)
EXTENDS Mirror
=============================================================================
