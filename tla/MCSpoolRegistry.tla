--------------------------- MODULE MCSpoolRegistry ---------------------------
(* Model-checking instance of SpoolRegistry: logs inside one remote container *)
(* and a log of its own.  Every bound is in the .cfg files.                   *)
EXTENDS SpoolRegistry, TLC

CONSTANTS a1, a2, c

TwoInOne == (a1 :> c) @@ (a2 :> c) @@ (c :> NoKey)
==============================================================================
