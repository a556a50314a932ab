-------------------------- MODULE MCConfiguration ---------------------------
(* Configuration for TLC.  The path bb is b with a blank at its end, and i *)
(* lies in s.                                                              *)
EXTENDS Configuration, TLC

CONSTANTS s, b, bb, t, l, i

MCWithin == {<<p, p>> : p \in Paths} \cup {<<s, i>>}
MCTrimmed == [p \in Paths |-> IF p = bb THEN b ELSE p]
MCFirst == [source |-> s, backup |-> b, restore |-> t, log_file |-> l, threads |-> 1]
MCUpdates ==
    {"source" :> bb, "threads" :> 2, "threads" :> 0, "log_file" :> i}
=============================================================================
