----------------------------- MODULE MCDatabase -----------------------------
(* Database, and with it Lifecycle, for TLC: no table at first, or one     *)
(* that lacks two columns.                                                 *)
EXTENDS Database

CONSTANTS c1, c2

MCOrder == <<c1, c2>>
=============================================================================
