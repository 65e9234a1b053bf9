---------------------------- MODULE MCGpioQueues ----------------------------
(* Interfaces are alike: a state stands for those with their names exchanged. *)
EXTENDS GpioQueues

Alike == Permutations(G)

OneEach == {<<1, 1>>}
OneOrTwo == {<<1, 1>>, <<2, 1>>}
UpToTwo == {<<1, 1>>, <<2, 2>>}
=============================================================================
