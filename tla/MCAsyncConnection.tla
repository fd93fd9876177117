------------------------- MODULE MCAsyncConnection -------------------------
(* Instances of AsyncConnection for TLC.                                   *)
EXTENDS AsyncConnection, TLC

(* Every method; a COPY sent with execute() and a listen() without         *)
(* channels are kinds of their own.                                        *)
AllKinds == {"execute", "copy", "script", "listen", "listen none"}
OneOrTwo == {1, 2}
OnlyOne  == {1}

(* The calls are interchangeable; used where only safety is checked.       *)
Symmetry == Permutations(Calls)
===========================================================================
