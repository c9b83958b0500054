------------------------------ MODULE MCAosfs ------------------------------
(***************************************************************************)
(* Instances of Aosfs: two files that grow past each other in a small data *)
(* area, and a directory with a file beside another file.                  *)
(***************************************************************************)
EXTENDS Aosfs

TwoFiles == {<<"f">>, <<"g">>}
SmallTree == {<<"d">>, <<"d", "f">>, <<"g">>}
============================================================================
