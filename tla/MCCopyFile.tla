----------------------------- MODULE MCCopyFile -----------------------------
(* CopyFile for TLC: its constants are given in the configuration.         *)
EXTENDS CopyFile
=============================================================================
