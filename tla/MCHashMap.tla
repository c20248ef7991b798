----------------------------- MODULE MCHashMap ------------------------------
(***************************************************************************)
(* Instances of HashMap for TLC: small tables, with keys that collide in   *)
(* the last slot, in the old table or in the new one.                      *)
(***************************************************************************)
EXTENDS HashMap, TLC

CONSTANTS a, b, c, d

FourKeys == {a, b, c, d}
FourHashes == (a :> 3) @@ (b :> 3) @@ (c :> 7) @@ (d :> 0)

ThreeKeys == {a, b, c}
ThreeHashes == (a :> 3) @@ (b :> 3) @@ (c :> 2)
=============================================================================
