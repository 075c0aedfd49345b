--------------------------- MODULE MCAtlasSystem ---------------------------
(* Model-checking instances of AtlasSystem: how many calls the two clients *)
(* make.  With three calls a client opens, closes and uses the closed      *)
(* handle while the other one opens; with two each, operations of both are *)
(* executed in one batch.  Paths are interchangeable.                      *)
EXTENDS AtlasSystem, TLC

ThreeAndOne       == {<<3, 1>>}
TwoAndOne         == {<<2, 1>>}
ThreeAndOneOrTwo  == {<<3, 1>>, <<2, 2>>}

PathSymmetry == Permutations(Paths)
=============================================================================
