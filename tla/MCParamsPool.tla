---------------------------- MODULE MCParamsPool ----------------------------
(* Instances of ParamsPool for TLC.                                        *)
EXTENDS ParamsPool

SomeSizes == {1, 2, 3, 5}
OfLists   == {3}
===========================================================================
