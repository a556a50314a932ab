------------------------------- MODULE MCWalk -------------------------------
(* Walk and Listing for TLC: two directories, one with a file, and a file  *)
(* and a symbolic link at the top.                                         *)
EXTENDS Listing

CONSTANTS a, b, f, g, s
Tree == a :> Root @@ b :> Root @@ f :> a @@ g :> Root @@ s :> Root
ByName == <<a, b, g, f, s>>
EveryCase ==
    [job : {"scan", "copy_tree", "move_path", "list"}, posix : BOOLEAN]
        \cup [job : {"watch", "snapshot"}, posix : {TRUE}]
PosixCases == [job : {"scan", "list"}, posix : {TRUE}]
=============================================================================
