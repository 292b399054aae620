---------------------------- MODULE MCHashIndex ----------------------------
(* Small instances of HashIndex: three keys that collide, so that a chain  *)
(* has a head, a middle and a tail, a key in another bucket, and a key too *)
(* long to be set.                                                         *)
EXTENDS HashIndex

CONSTANTS k1, k2, k3, k4, longKey
MCKeys == {k1, k2, k3, k4, longKey}
MCHash == [k \in MCKeys |-> CASE k = k1 -> 0 [] k = k2 -> 2 [] k = k3 -> 4 [] OTHER -> 3]
=============================================================================
