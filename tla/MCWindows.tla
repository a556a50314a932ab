----------------------------- MODULE MCWindows -----------------------------
(* Windows for TLC.                                                        *)
EXTENDS Windows
=============================================================================
