------------------------------ MODULE MCLibrary ------------------------------
(* Two directories of four files: one without tags, one of them retagged     *)
(* between scans; names that differ in case and spaces only.                 *)
EXTENDS Library

abc == <<"a", "b", "c">>
ABC == <<"A", "b", " ", "c">>
abxc == <<"a", "b", " ", " ", "c">>
Song(a, l, t) == [artist |-> a, album |-> l, track |-> t]

MCTree == [top |-> [files |-> <<"f1", "notes">>, dirs |-> <<"sub">>],
           sub |-> [files |-> <<"f2">>, dirs |-> <<>>]]
MCVersions == [f1 |-> {Song(ABC, abc, abc), Song(abc, <<>>, abc)},
               f2 |-> {Song(abxc, abc, abc)},
               notes |-> {}]
MCLower == [c \in {"a", "b", "c", "A", " "} |-> IF c = "A" THEN "a" ELSE c]

=============================================================================
