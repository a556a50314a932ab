----------------------------- MODULE MCRestore ------------------------------
(* Instance of Restore: two files used by programs, the first of them      *)
(* restored under its name or that of the second, one temporary.           *)
EXTENDS Restore, TLC

CONSTANTS f1, g1, t1, c1, w1, w2

MCPaths == {f1, g1, t1}
MCNames == f1 :> <<g1>>
EitherWorker == Permutations({w1, w2})
MCTemporary == c1 :> t1
=============================================================================
