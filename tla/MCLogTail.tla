----------------------------- MODULE MCLogTail ------------------------------
(* LogTail, and with it Log, for TLC.  Lines of one and of three bytes and *)
(* chunks of two, so that lines and chunks begin at every relative place;  *)
(* an older process left a line, an empty one and a torn one.              *)
EXTENDS LogTail, TLC

CONSTANTS p, q, o, nl

MCRecords == p :> 2 @@ q :> 1
MCWidth == p :> 1 @@ q :> 3
MCOlder == {[lines |-> <<<<o, o>>, <<>>>>, torn |-> <<o>>]}
=============================================================================
