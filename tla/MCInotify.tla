----------------------------- MODULE MCInotify -----------------------------
(* Inotify for TLC: the source holds the directory h; k may be below it,   *)
(* or be created.                                                          *)
EXTENDS Inotify

CONSTANTS h, k, x, y
Layout(p) == [i \in AllDirs |-> CASE i = Root -> <<>> [] i = h -> <<x>> [] i = k -> p]
OneDirectory == {Layout(Unborn)}
OneOrNested == {Layout(Unborn), Layout(<<x, y>>)}
=============================================================================
