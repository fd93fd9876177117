-------------------------- MODULE ParamsPoolProofs --------------------------
(***************************************************************************)
(* Proofs about ParamsPool, for any number of parameters, any sizes and    *)
(* any layout of a pool.                                                   *)
(***************************************************************************)
EXTENDS ParamsPool, TLAPS

(* What a pool has given away, and a piece that is part of it.             *)
Sound(pool) == /\ 0 <= pool.remaining /\ pool.remaining <= pool.total
               /\ pool.block = pool.total

Cut(v) == v.pool # 0 => /\ v.pool \in 1..Len(pools)
                        /\ v.at >= 0 /\ v.size > 0
                        /\ v.at + v.size <= Offset(pools[v.pool])

(* The inductive invariant: pieces are cut from the front of their pools,  *)
(* one after the other, and the first of a pool decided how long its block *)
(* is.                                                                     *)
PoolsSound == \A k \in 1..Len(pools) : Sound(pools[k])
PiecesCut  == \A i \in 1..Len(values) : Cut(values[i])

Sized(k)   == \E j \in 1..Len(values) :
                 First(j, k) /\ pools[k].block = values[j].size + Slack
PoolsSized == \A k \in 1..Len(pools) : Sized(k)

PoolInv == TypeOK /\ PoolsSound /\ PiecesCut /\ PoolsSized /\ PiecesDisjoint

---------------------------------------------------------------------------
(* No parameter is bound at first.                                         *)
LEMMA PoolInit == Init => PoolInv
  BY PoolAssumption DEF Init, PoolInv, TypeOK, PoolsSound, PiecesCut,
                        PoolsSized, PiecesDisjoint

(* What a pool has given away is a number of bytes.                        *)
LEMMA OffsetType == \A pool \in Pools : Offset(pool) \in Int
  BY DEF Pools, Offset

(* A pool keeps the first piece that its block was made for.               *)
LEMMA SizedStays ==
  ASSUME NEW k \in 1..Len(pools), Sized(k),
         Len(values) \in Nat, Len(values') \in Nat, Len(values) <= Len(values'),
         \A i \in 1..Len(values) : values'[i] = values[i],
         pools'[k].block = pools[k].block
  PROVE  Sized(k)'
<1>1. PICK j \in 1..Len(values) :
        First(j, k) /\ pools[k].block = values[j].size + Slack
  BY DEF Sized
<1>2. j \in 1..Len(values') /\ values'[j] = values[j]
  OBVIOUS
<1> QED
  BY <1>1, <1>2 DEF Sized, First

(* A value appended to the list is its last, and the others stay.          *)
LEMMA AppendValue ==
  ASSUME NEW v \in Pieces, values \in Seq(Pieces), values' = Append(values, v)
  PROVE  /\ values' \in Seq(Pieces)
         /\ Len(values') = Len(values) + 1
         /\ \A i \in 1..Len(values) : values'[i] = values[i]
         /\ values'[Len(values) + 1] = v
  OBVIOUS

(* Binding a piece cut at the end of a pool keeps the invariant, when the  *)
(* pools before it are unchanged or have given more away.                  *)
LEMMA BindPiece ==
  ASSUME NEW k \in Nat \ {0}, NEW at \in Nat, NEW n \in Nat \ {0},
         NEW x \in Nat,
         PoolInv,
         Len(values) < Count,
         pools' \in Seq(Pools), k <= Len(pools'), Len(pools) <= Len(pools'),
         PoolsSound',
         \A j \in 1..Len(pools) : Offset(pools[j]) <= Offset(pools'[j]),
         \A i \in 1..Len(values) : values[i].pool = k =>
             values[i].at + values[i].size <= at,
         \A j \in 1..Len(pools) : pools'[j].block = pools[j].block,
         \A j \in 1..Len(pools') : j \in 1..Len(pools) \/
             (j = k /\ at = 0 /\ pools'[k].block = n + Slack),
         at + n <= Offset(pools'[k]),
         values' = Append(values, Piece(k, at, n, x)),
         UNCHANGED state
  PROVE  PoolInv'
<1> DEFINE v == Piece(k, at, n, x)
<1>1. v \in Pieces /\ v.pool = k /\ v.at = at /\ v.size = n
  BY DEF Piece, Pieces
<1>2. /\ values' \in Seq(Pieces)
      /\ Len(values') = Len(values) + 1
      /\ \A i \in 1..Len(values) : values'[i] = values[i]
      /\ values'[Len(values) + 1] = v
  BY <1>1, AppendValue DEF PoolInv, TypeOK
<1>3. Len(values) \in Nat /\ Len(pools) \in Nat /\ Len(pools') \in Nat
  BY DEF PoolInv, TypeOK
<1>4. TypeOK'
  BY <1>2, <1>3, PoolAssumption DEF PoolInv, TypeOK
<1>5. PiecesCut'
  <2> SUFFICES ASSUME NEW i \in 1..Len(values')
               PROVE  Cut(values[i])'
    BY DEF PiecesCut
  <2>1. CASE i = Len(values) + 1
    BY <2>1, <1>1, <1>2, <1>3 DEF Cut
  <2>2. CASE i \in 1..Len(values)
    <3>1. values'[i] = values[i] /\ values[i] \in Pieces /\ Cut(values[i])
      BY <2>2, <1>2 DEF PoolInv, TypeOK, PiecesCut
    <3> SUFFICES ASSUME values[i].pool # 0
                 PROVE  Cut(values[i])'
      BY <3>1 DEF Cut
    <3>2. values[i].pool \in 1..Len(pools)
      BY <3>1 DEF Cut
    <3>3. Offset(pools[values[i].pool]) <= Offset(pools'[values[i].pool])
      BY <3>2
    <3>4. pools[values[i].pool] \in Pools /\ pools'[values[i].pool] \in Pools
      <4>1. values[i].pool \in 1..Len(pools')
        BY <3>2, <1>3
      <4> QED
        BY <3>2, <4>1 DEF PoolInv, TypeOK
    <3>5. /\ Offset(pools[values[i].pool]) \in Int
          /\ Offset(pools'[values[i].pool]) \in Int
      BY <3>4, OffsetType
    <3>6. /\ values[i].pool \in 1..Len(pools')
          /\ values[i].at >= 0 /\ values[i].size > 0
          /\ values[i].at + values[i].size <= Offset(pools[values[i].pool])
      BY <3>1, <3>2, <1>3 DEF Cut
    <3>7. values[i].at + values[i].size <= Offset(pools'[values[i].pool])
      BY <3>1, <3>3, <3>5, <3>6 DEF Pieces
    <3> QED
      BY <3>1, <3>6, <3>7 DEF Cut
  <2> QED
    BY <2>1, <2>2, <1>2, <1>3
<1>6. PiecesDisjoint'
  <2> SUFFICES ASSUME NEW i \in 1..Len(values'), NEW j \in 1..Len(values'),
                      i < j, values'[i].pool # 0,
                      values'[i].pool = values'[j].pool
               PROVE  values'[i].at + values'[i].size <= values'[j].at
    BY DEF PiecesDisjoint, InPool
  <2>1. i \in 1..Len(values) /\ values'[i] = values[i]
    BY <1>2, <1>3
  <2>2. CASE j = Len(values) + 1
    BY <2>1, <2>2, <1>1, <1>2
  <2>3. CASE j \in 1..Len(values)
    BY <2>1, <2>3, <1>2 DEF PoolInv, PiecesDisjoint, InPool
  <2>4. j = Len(values) + 1 \/ j \in 1..Len(values)
    BY <1>2, <1>3
  <2> QED
    BY <2>2, <2>3, <2>4
<1>7. PoolsSized'
  <2> SUFFICES ASSUME NEW j \in 1..Len(pools')
               PROVE  Sized(j)'
    BY DEF PoolsSized
  <2>1. CASE j \in 1..Len(pools)
    BY <2>1, <1>2, <1>3, SizedStays DEF PoolInv, PoolsSized
  <2>2. CASE j = k /\ at = 0 /\ pools'[k].block = n + Slack
    <3>1. Len(values) + 1 \in 1..Len(values')
      BY <1>2, <1>3
    <3> QED
      BY <2>2, <3>1, <1>1, <1>2 DEF Sized, First
  <2> QED
    BY <2>1, <2>2
<1> QED
  BY <1>4, <1>5, <1>6, <1>7 DEF PoolInv

(* The pieces already cut from a pool end where its free part begins.      *)
LEMMA CutBefore ==
  ASSUME PoolInv, NEW k \in Nat \ {0}, NEW i \in 1..Len(values),
         values[i].pool = k
  PROVE  /\ k \in 1..Len(pools)
         /\ values[i].at + values[i].size <= Offset(pools[k])
  BY DEF PoolInv, PiecesCut, Cut

(* Every step keeps the invariant.                                         *)
LEMMA PoolStep == PoolInv /\ [Next]_vars => PoolInv'
<1> SUFFICES ASSUME PoolInv, [Next]_vars
             PROVE  PoolInv'
  OBVIOUS
<1>0. /\ Len(values) \in Nat /\ Len(pools) \in Nat
      /\ \A k \in 1..Len(pools) : pools[k] \in Pools
  BY DEF PoolInv, TypeOK
<1>1. ASSUME NEW n \in Sizes, NEW x \in Extra(n), BindInPool(n, x)
      PROVE  PoolInv'
  <2>1. PICK k \in HasRoom(n) :
          /\ values' = Append(values, Piece(k, Offset(pools[k]), n, x))
          /\ pools' = [pools EXCEPT ![k] = Reserve(pools[k], n)]
    BY <1>1 DEF BindInPool
  <2>2. k \in 1..Len(pools) /\ pools[k].remaining >= n /\ n \in Nat \ {0}
    BY PoolAssumption DEF HasRoom, Enough
  <2>x. x \in Nat
    BY PoolAssumption DEF Extra
  <2>3. /\ pools[k].total \in Int /\ pools[k].remaining \in Int
        /\ Sound(pools[k])
    BY <1>0, <2>2 DEF Pools, PoolInv, PoolsSound
  <2>4. /\ Reserve(pools[k], n) \in Pools
        /\ Sound(Reserve(pools[k], n))
        /\ Offset(Reserve(pools[k], n)) = Offset(pools[k]) + n
        /\ Reserve(pools[k], n).block = pools[k].block
    BY <1>0, <2>2, <2>3 DEF Reserve, Pools, Sound, Offset
  <2>5. /\ pools' \in Seq(Pools) /\ Len(pools') = Len(pools)
        /\ pools'[k] = Reserve(pools[k], n)
        /\ \A j \in 1..Len(pools) : j # k => pools'[j] = pools[j]
    BY <2>1, <2>2, <2>4 DEF PoolInv, TypeOK
  <2>6. PoolsSound'
    BY <2>4, <2>5 DEF PoolInv, PoolsSound
  <2>7. Offset(pools[k]) \in Nat
    BY <2>3 DEF Offset, Sound
  <2>8. \A j \in 1..Len(pools) : Offset(pools[j]) <= Offset(pools'[j])
    <3> SUFFICES ASSUME NEW j \in 1..Len(pools)
                 PROVE  Offset(pools[j]) <= Offset(pools'[j])
      OBVIOUS
    <3>1. Offset(pools[j]) \in Int
      BY <1>0 DEF Pools, Offset
    <3>2. CASE j = k
      BY <3>2, <3>1, <2>2, <2>4, <2>5, <2>7
    <3>3. CASE j # k
      <4>1. pools'[j] = pools[j]
        BY <3>3, <2>5
      <4> QED
        BY <3>1, <4>1
    <3> QED
      BY <3>2, <3>3
  <2>9. \A i \in 1..Len(values) : values[i].pool = k =>
            values[i].at + values[i].size <= Offset(pools[k])
    BY <2>2, <1>0, CutBefore
  <2>10. Len(values) < Count /\ UNCHANGED state
    BY <1>1 DEF BindInPool, Binding, More
  <2>11. /\ k \in Nat \ {0} /\ k <= Len(pools') /\ Len(pools) <= Len(pools')
         /\ Offset(pools[k]) + n <= Offset(pools'[k])
    BY <2>2, <2>4, <2>5, <2>7, <1>0
  <2>12. /\ \A j \in 1..Len(pools) : pools'[j].block = pools[j].block
         /\ \A j \in 1..Len(pools') : j \in 1..Len(pools)
    BY <2>4, <2>5
  <2> HIDE DEF PoolInv
  <2> QED
    BY <2>x, <2>12, <2>1, <2>2, <2>5, <2>6, <2>7, <2>8, <2>9, <2>10, <2>11, BindPiece
<1>2. ASSUME NEW n \in Sizes, NEW x \in Extra(n), BindInNewPool(n, x)
      PROVE  PoolInv'
  <2> DEFINE k == Len(pools) + 1
             new == Reserve(NewPool(n), n)
  <2>1. n \in Nat \ {0} /\ Slack \in Nat /\ x \in Nat
    BY PoolAssumption DEF Extra
  <2>2. /\ new \in Pools /\ Sound(new) /\ Offset(new) = n
        /\ Offset(NewPool(n)) = 0 /\ new.block = n + Slack
    BY <2>1 DEF Reserve, NewPool, Pools, Sound, Offset
  <2>3. /\ values' = Append(values, Piece(k, 0, n, x))
        /\ pools' = Append(pools, new)
        /\ Len(values) < Count /\ UNCHANGED state
    BY <1>2, <2>2 DEF BindInNewPool, Binding, More
  <2> HIDE DEF new
  <2>4. /\ pools' \in Seq(Pools) /\ Len(pools') = k
        /\ pools'[k] = new
        /\ \A j \in 1..Len(pools) : pools'[j] = pools[j]
    BY <2>2, <2>3 DEF PoolInv, TypeOK
  <2>5. PoolsSound'
    BY <2>2, <2>4, <1>0 DEF PoolInv, PoolsSound
  <2>6. \A j \in 1..Len(pools) : Offset(pools[j]) <= Offset(pools'[j])
    <3> SUFFICES ASSUME NEW j \in 1..Len(pools)
                 PROVE  Offset(pools[j]) <= Offset(pools[j])
      BY <2>4
    <3> QED
      BY <1>0 DEF Pools, Offset
  <2>7. k \in Nat \ {0} /\ k <= Len(pools') /\ Len(pools) <= Len(pools')
    BY <2>4, <1>0
  <2>8. \A i \in 1..Len(values) : values[i].pool = k =>
            values[i].at + values[i].size <= 0
    BY <2>7, <1>0, CutBefore
  <2>9. 0 + n <= Offset(pools'[k])
    BY <2>1, <2>2, <2>4
  <2>10. /\ \A j \in 1..Len(pools) : pools'[j].block = pools[j].block
         /\ \A j \in 1..Len(pools') : j \in 1..Len(pools) \/
                (j = k /\ 0 = 0 /\ pools'[k].block = n + Slack)
    BY <2>2, <2>4, <1>0
  <2> HIDE DEF PoolInv, k
  <2> QED
    BY <2>10, <2>1, <2>3, <2>4, <2>5, <2>6, <2>7, <2>8, <2>9, BindPiece
<1>3. CASE BindOutside
  <2>1. Outside \in Pieces /\ Outside.pool = 0
    BY DEF Outside, Pieces
  <2>2. /\ values' = Append(values, Outside)
        /\ UNCHANGED <<pools, state>> /\ Len(values) < Count
    BY <1>3 DEF BindOutside, Binding, More
  <2>3. /\ values' \in Seq(Pieces)
        /\ Len(values') = Len(values) + 1
        /\ \A i \in 1..Len(values) : values'[i] = values[i]
        /\ values'[Len(values) + 1] = Outside
    BY <2>1, <2>2, AppendValue DEF PoolInv, TypeOK
  <2>4. TypeOK' /\ PoolsSound'
    BY <2>2, <2>3, <1>0, PoolAssumption DEF PoolInv, TypeOK, PoolsSound
  <2>5. PiecesCut'
    BY <2>1, <2>2, <2>3, <1>0 DEF PoolInv, PiecesCut, Cut
  <2>6. PiecesDisjoint'
    BY <2>1, <2>3, <1>0 DEF PoolInv, PiecesDisjoint, InPool
  <2>7. PoolsSized'
    <3>1. ASSUME NEW k \in 1..Len(pools)
          PROVE  Sized(k)'
      BY <2>2, <2>3, <1>0, SizedStays DEF PoolInv, PoolsSized
    <3> QED
      BY <2>2, <3>1 DEF PoolsSized
  <2> QED
    BY <2>4, <2>5, <2>6, <2>7 DEF PoolInv
<1>4. ASSUME UNCHANGED <<pools, values>>,
             state' \in {"binding", "sent", "failed", "crashed", "freed"}
      PROVE  PoolInv'
  BY <1>4 DEF PoolInv, TypeOK, PoolsSound, PiecesCut, Cut, PoolsSized, Sized,
              First, PiecesDisjoint, InPool
<1>5. CASE Destroy
  BY <1>5, PoolAssumption DEF Destroy, PoolInv, TypeOK, PoolsSound,
                              PiecesCut, PoolsSized, PiecesDisjoint
<1>6. CASE \/ \E n \in Sizes : NoMemory(n)
           \/ Refuse \/ SendValues \/ HeapBreaks \/ Terminating
           \/ UNCHANGED vars
  BY <1>4, <1>6 DEF NoMemory, Refuse, SendValues, HeapBreaks, Terminating,
                    vars, PoolInv, TypeOK
<1> QED
  BY <1>1, <1>2, <1>3, <1>5, <1>6 DEF Next

(* The invariant holds of every query.                                     *)
LEMMA PoolAlways == Spec => []PoolInv
  BY PoolInit, PoolStep, PTL DEF Spec

---------------------------------------------------------------------------
(* No more values are bound than the arrays have room for, and every       *)
(* variable keeps its type.                                                *)
THEOREM PoolTypeCorrect == Spec => []TypeOK
  BY PoolAlways, PTL DEF PoolInv

(* No parameter is ever written over another.                              *)
THEOREM ParametersApart == Spec => []PiecesDisjoint
  BY PoolAlways, PTL DEF PoolInv

(* A piece within its block is written beyond it by the header and extra.  *)
LEMMA ByHeaderAndExtra ==
  ASSUME NEW at \in Int, NEW size \in Nat, NEW x \in Nat, NEW block \in Int,
         at + size <= block, Header \in Nat
  PROVE  /\ Header + at + size + x \in Int
         /\ Header + at + size + x <= block + Header + x
  OBVIOUS

(* What is written for a parameter goes beyond the block of its pool only  *)
(* by the header and the excess of a list, and exactly when the pieces     *)
(* after the first of the pool need more than the slack, header included.  *)
THEOREM ParametersInBlock == Spec => []PiecesInBlock
<1>1. PoolInv => PiecesInBlock
  <2> DEFINE p(i) == values[i].pool
  <2> SUFFICES ASSUME PoolInv, NEW i \in 1..Len(values), InPool(i)
               PROVE  /\ p(i) <= Len(pools) /\ values[i].at >= 0
                      /\ End(i) <= pools[p(i)].block + Header + values[i].extra
                      /\ \E j \in 1..i :
                            /\ First(j, p(i))
                            /\ Overruns(i) <=> End(i) - values[j].size > Slack
    BY DEF PiecesInBlock
  <2>1. /\ values[i] \in Pieces /\ Cut(values[i])
        /\ Len(pools) \in Nat /\ Len(values) \in Nat
    BY DEF PoolInv, TypeOK, PiecesCut
  <2>2. /\ p(i) \in 1..Len(pools) /\ values[i].at >= 0 /\ values[i].size > 0
        /\ values[i].at + values[i].size <= Offset(pools[p(i)])
    BY <2>1 DEF Cut, InPool
  <2>3. pools[p(i)] \in Pools /\ Sound(pools[p(i)])
    BY <2>2 DEF PoolInv, TypeOK, PoolsSound
  <2>4. /\ pools[p(i)].block \in Int /\ Offset(pools[p(i)]) \in Int
        /\ Offset(pools[p(i)]) <= pools[p(i)].block
    BY <2>3 DEF Pools, Sound, Offset
  <2>5. Header \in Nat /\ Slack \in Nat
    BY PoolAssumption
  <2>a. /\ values[i].at \in Int /\ values[i].size \in Nat /\ values[i].extra \in Nat
        /\ values[i].at + values[i].size <= pools[p(i)].block
    BY <2>1, <2>2, <2>4 DEF Pieces
  <2>6. End(i) \in Int /\ End(i) <= pools[p(i)].block + Header + values[i].extra
    BY <2>4, <2>5, <2>a, ByHeaderAndExtra DEF End
  <2>7. PICK j \in 1..Len(values) :
          First(j, p(i)) /\ pools[p(i)].block = values[j].size + Slack
    BY <2>2 DEF PoolInv, PoolsSized, Sized
  <2>8. values[j] \in Pieces
    BY DEF PoolInv, TypeOK
  <2>9. Overruns(i) <=> End(i) - values[j].size > Slack
    BY <2>5, <2>6, <2>7, <2>8 DEF Overruns, Pieces
  <2>10. j <= i
    <3> SUFFICES ASSUME i < j
                 PROVE  FALSE
      BY <2>1
    <3>1. values[i].at + values[i].size <= values[j].at /\ values[j].at = 0
      BY <2>7 DEF PoolInv, PiecesDisjoint, First
    <3> QED
      BY <3>1, <2>1, <2>2 DEF Pieces
  <2> QED
    BY <2>1, <2>2, <2>6, <2>7, <2>9, <2>10
<1> QED
  BY <1>1, PoolAlways, PTL
===========================================================================
