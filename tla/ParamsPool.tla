----------------------------- MODULE ParamsPool -----------------------------
(***************************************************************************)
(* The memory of a query's parameters: struct Params of src/params.cpp,    *)
(* from its constructor to its destructor.                                 *)
(*                                                                         *)
(* Each parameter is bound once, in order.  Its value is either memory of  *)
(* the Python object (str, bytes, bool, ...) or a piece that Allocate cuts *)
(* from a list of pools.  A pool is one block of malloc: a header, which   *)
(* holds the link, total and remaining, and the buffer that pieces are cut *)
(* from.  A piece is known by its pool, its place in the buffer, its size  *)
(* and how much more is written behind it; what is written does not        *)
(* matter.                                                                 *)
(***************************************************************************)
EXTENDS Integers, Sequences

CONSTANTS Count,    \* parameters of the query
          Sizes,    \* what a parameter may ask of Allocate
          Lists,    \* those that a list asks of which no integer fits bigint
          Excess,   \* what BindLongArray may write behind such a piece (8)
          Slack,    \* what a new pool has beyond the first piece (1024)
          Header    \* bytes of struct Pool before its buffer (24)

ASSUME PoolAssumption ==
    /\ Count \in Nat
    /\ Sizes \subseteq Nat \ {0}
    /\ Lists \subseteq Sizes
    /\ Excess \in Nat /\ Slack \in Nat /\ Header \in Nat
    /\ Header + Excess <= Slack

VARIABLES pools,    \* the list of pools: bytes of the block, total, remaining
          values,   \* the values bound so far
          state     \* binding, sent (libpq has read the values), failed (a
                    \* parameter was refused), crashed, freed

vars == <<pools, values, state>>

(* A value that lies in memory of a Python object.                         *)
Outside == [pool |-> 0, at |-> 0, size |-> 0, extra |-> 0]

Piece(k, at, n, x) == [pool |-> k, at |-> at, size |-> n, extra |-> x]

(* BindLongArray counts no bytes for an integer beyond bigint.  When the   *)
(* list has none other it still writes eight for each, all at the place of *)
(* the next element: eight bytes behind its piece, or less when the list   *)
(* ends in None.                                                           *)
Extra(n) == IF n \in Lists THEN 0..Excess ELSE {0}

---------------------------------------------------------------------------
(* Mutant of Enough: any pool that is not full will do.                    *)
EnoughIfAny(pool, n) == pool.remaining > 0
Enough(pool, n) == pool.remaining >= n

HasRoom(n) == {k \in 1..Len(pools) : Enough(pools[k], n)}

(* Mutant of Reserve: nothing is taken from the pool.                      *)
ReserveNothing(pool, n) == pool
Reserve(pool, n) == [pool EXCEPT !.remaining = @ - n]

Offset(pool) == pool.total - pool.remaining

(* Mutant of NewPool: the block has no more than was asked for.            *)
TightPool(n) == [block |-> n, total |-> n + Slack, remaining |-> n + Slack]
(* The whole block counts as capacity, its header included.                *)
NewPool(n) == [block |-> n + Slack, total |-> n + Slack, remaining |-> n + Slack]

(* Mutant of More: one parameter too many is bound.                        *)
OneMore == Len(values) <= Count
More == Len(values) < Count

Binding == state = "binding" /\ More

(* Allocate and Bind: the first pool with enough room gives the piece, ... *)
BindInPool(n, x) ==
    /\ Binding
    /\ \E k \in HasRoom(n) :
          /\ \A j \in HasRoom(n) : k <= j
          /\ values' = Append(values, Piece(k, Offset(pools[k]), n, x))
          /\ pools' = [pools EXCEPT ![k] = Reserve(pools[k], n)]
    /\ UNCHANGED state

(* ... or a new pool at the end of the list, ...                           *)
BindInNewPool(n, x) ==
    /\ Binding
    /\ HasRoom(n) = {}
    /\ values' = Append(values, Piece(Len(pools) + 1, Offset(NewPool(n)), n, x))
    /\ pools' = Append(pools, Reserve(NewPool(n), n))
    /\ UNCHANGED state

(* ... for which there may be no memory.  BindLong writes an 8-byte        *)
(* integer before it looks at what Allocate returned.                      *)
NoMemory(n) ==
    /\ Binding
    /\ HasRoom(n) = {}
    /\ state' \in {"failed", "crashed"}
    /\ UNCHANGED <<pools, values>>

(* None, bool, str, bytes and bytearray need no memory of their own.       *)
BindOutside ==
    /\ Binding
    /\ values' = Append(values, Outside)
    /\ UNCHANGED <<pools, state>>

(* A parameter of an unknown type, or one that cannot be converted; the    *)
(* pieces allocated for the others stay until the destructor.              *)
Refuse ==
    /\ Binding
    /\ state' = "failed"
    /\ UNCHANGED <<pools, values>>

(* Where the value of a piece is in its block, and where what was written  *)
(* for it ends.                                                            *)
InPool(i)   == values[i].pool # 0
End(i)      == Header + values[i].at + values[i].size + values[i].extra
Overruns(i) == InPool(i) /\ End(i) > pools[values[i].pool].block

(* What lies behind a block is the allocator's: once it was written to,    *)
(* any call of malloc or free may end the process.                         *)
HeapBreaks ==
    /\ state \in {"binding", "sent", "failed"}
    /\ \E i \in 1..Len(values) : Overruns(i)
    /\ state' = "crashed"
    /\ UNCHANGED <<pools, values>>

(* PQexecParams or PQsendQueryParams reads the values.                     *)
SendValues ==
    /\ state = "binding" /\ Len(values) = Count
    /\ state' = "sent"
    /\ UNCHANGED <<pools, values>>

(* The destructor, on every way out of the caller.                         *)
Destroy ==
    /\ state \in {"sent", "failed"}
    /\ state' = "freed"
    /\ pools' = <<>> /\ values' = <<>>

Init == pools = <<>> /\ values = <<>> /\ state = "binding"

Terminating == state \in {"freed", "crashed"} /\ UNCHANGED vars

Next ==
    \/ \E n \in Sizes : \/ \E x \in Extra(n) : BindInPool(n, x) \/ BindInNewPool(n, x)
                       \/ NoMemory(n)
    \/ BindOutside \/ Refuse \/ SendValues \/ HeapBreaks \/ Destroy
    \/ Terminating

Spec == Init /\ [][Next]_vars

---------------------------------------------------------------------------
(***************************************************************************)
(* Properties                                                              *)
(***************************************************************************)

Pools  == [block : Int, total : Int, remaining : Int]
Pieces == [pool : Nat, at : Int, size : Nat, extra : Nat]

TypeOK ==
    /\ pools \in Seq(Pools)
    /\ values \in Seq(Pieces)
    /\ Len(values) <= Count
    /\ state \in {"binding", "sent", "failed", "crashed", "freed"}

(* No parameter is written over another: a piece begins where those before *)
(* it in the pool end, and what a list writes behind its piece is in       *)
(* memory that nothing was bound in yet.                                   *)
PiecesDisjoint ==
    \A i, j \in 1..Len(values) :
        (i < j /\ InPool(i) /\ values[i].pool = values[j].pool)
          => values[i].at + values[i].size <= values[j].at

(* Parameters are written within the blocks of their pools, but for this:  *)
(* what is written goes beyond the block exactly when the pieces cut from  *)
(* it after its first one need, with the header, more than the slack; it   *)
(* goes beyond by the header and the excess of a list at most.  So a query *)
(* with one such parameter never writes outside of its block.              *)
First(j, k) == values[j].pool = k /\ values[j].at = 0
PiecesInBlock ==
    \A i \in 1..Len(values) : InPool(i) =>
        /\ values[i].pool <= Len(pools) /\ values[i].at >= 0
        /\ End(i) <= pools[values[i].pool].block + Header + values[i].extra
        /\ \E j \in 1..i : /\ First(j, values[i].pool)
                           /\ Overruns(i) <=> End(i) - values[j].size > Slack
===========================================================================
