---------------------------- MODULE MCIndexWalk -----------------------------
(***************************************************************************)
(* Values of the constants of IndexWalk.                                   *)
(***************************************************************************)
EXTENDS IndexWalk

CONSTANT x

MCUserPairs == {<<"color", x>>}

\* Every list of at most three attributes that share one pair.
MCAttrLists == UNION {[1 .. n -> Attributes] : n \in 0 .. 3}
=============================================================================
