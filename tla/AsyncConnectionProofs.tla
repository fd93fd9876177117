----------------------- MODULE AsyncConnectionProofs -----------------------
(***************************************************************************)
(* Proofs about AsyncConnection, for any number of calls of any kind, any  *)
(* speed of the socket, any number of notifications, with cancels and      *)
(* connection loss.                                                        *)
(***************************************************************************)
EXTENDS AsyncConnection, SequenceTheorems, TLAPS

---------------------------------------------------------------------------
(***************************************************************************)
(* Types                                                                   *)
(***************************************************************************)

(* The empty sequence, with which a call's results and the server's queues *)
(* start, is a sequence over any set.                                      *)
LEMMA EmptySeqType == ASSUME NEW S PROVE <<>> \in Seq(S)
  OBVIOUS

(* The counters start at zero and a new query fits its bound.              *)
LEMMA Intervals ==
    /\ 0 \in 0..MaxChunks /\ 0 \in 0..SendRoom /\ 0 \in 0..MaxNotify
    /\ \A n \in 1..MaxChunks : n \in 0..MaxChunks /\ n > 0
  BY BoundsAssumption

(* The sequences a consume builds and takes apart have the right types.    *)
LEMMA BufferTypes ==
    ASSUME PyTypes, PqTypes, BackTypes
    PROVE  /\ Buffered \in Seq(Reply)
           /\ Buffered # <<>> => Tail(Buffered) \in Seq(Reply)
           /\ Fetched \in Seq(Nat)
           /\ queue \o Fetched \in Seq(Nat)
<1>1. Buffered \in Seq(Reply)
  BY DEF PqTypes, BackTypes, Buffered
<1>2. Buffered # <<>> => Tail(Buffered) \in Seq(Reply)
  BY <1>1
<1>3. Fetched \in Seq(Nat)
  BY DEF PqTypes, BackTypes, Fetched
<1>4. queue \o Fetched \in Seq(Nat)
  BY <1>3 DEF PyTypes
<1>q. QED BY <1>1, <1>2, <1>3, <1>4

(* What _on_notify leaves in libpq has the right types.                    *)
LEMMA LookTypes ==
    ASSUME PyTypes, PqTypes, BackTypes, OnNotify, UNCHANGED command
    PROVE  PqTypes'
<1>1. inbuf' \in Seq(Reply)
  BY BufferTypes DEF OnNotify, PqTypes
<1>2. notes' \in Seq(Nat)
  BY BufferTypes, EmptySeqType DEF OnNotify, PqTypes, Fetched
<1>3. link' \in {"up", "lost", "closed"}
  BY DEF OnNotify, PqTypes
<1>q. QED BY <1>1, <1>2, <1>3 DEF PqTypes, command

(* A group of variables that does not change keeps its types.              *)
LEMMA PySame == PyTypes /\ UNCHANGED pyVars => PyTypes'
  BY SMTT(30) DEF PyTypes, pyVars, call, waits

(* A step that leaves libpq alone leaves its types alone.                  *)
LEMMA PqSame == PqTypes /\ UNCHANGED pqVars => PqTypes'
  BY DEF PqTypes, pqVars, command

(* A step that leaves the backend and the wire alone leaves their types    *)
(* alone.                                                                  *)
LEMMA BackSame == BackTypes /\ UNCHANGED srvVars => BackTypes'
  BY DEF BackTypes, srvVars, sock, back

(* What the types rest on: a call counts its commands down only while it   *)
(* has one, and the backend answers only a command that somebody sent.     *)
CommandsLeft ==
    \A t \in Calls : pc[t] \notin Terminal \cup {"subscribe"} => chans[t] > 0
CommandKnown == out > 0 \/ wire > 0 \/ srv # "idle" => cmd \in Calls
TypeInv == PyTypes /\ PqTypes /\ BackTypes /\ CommandsLeft /\ CommandKnown

(* A connection that __init__ made satisfies the type invariant.           *)
LEMMA TypeInit == Init => TypeInv
<1> SUFFICES ASSUME Init PROVE TypeInv
  OBVIOUS
<1>0. chans \in [Calls -> Nat \ {0}]
  <2>1. chans \in [Calls -> ListenCounts \cup {1}]
    BY DEF Init
  <2>2. ListenCounts \cup {1} \subseteq Nat \ {0}
    BY BoundsAssumption
  <2>q. QED BY <2>1, <2>2
<1>1. PyTypes
  <2>1. chans \in [Calls -> Nat]
    BY <1>0
  <2>2. pc \in [Calls -> Locations]
    BY DEF Init, Locations
  <2>q. QED BY <2>1, <2>2, EmptySeqType DEF Init, PyTypes
<1>2. PqTypes
  BY EmptySeqType, Intervals DEF Init, PqTypes
<1>3. BackTypes
  <2>1. produced \in [Calls -> Nat]
    BY DEF Init
  <2>2. net \in Seq(Reply) /\ netNotes \in Seq(Nat)
    BY EmptySeqType DEF Init
  <2>3. wire \in 0..SendRoom /\ sent \in 0..MaxNotify
    BY Intervals DEF Init
  <2>q. QED BY <2>1, <2>2, <2>3 DEF Init, BackTypes
<1>4. CommandsLeft
  BY <1>0 DEF CommandsLeft
<1>5. CommandKnown
  BY DEF Init, CommandKnown
<1>q. QED BY <1>1, <1>2, <1>3, <1>4, <1>5 DEF TypeInv

(* Every step keeps the types.                                             *)
LEMMA TypeStep == TypeInv /\ [Next]_vars => TypeInv'
<1> SUFFICES ASSUME TypeInv, [Next]_vars PROVE TypeInv'
  OBVIOUS
<1>0. PyTypes /\ PqTypes /\ BackTypes /\ CommandsLeft /\ CommandKnown
  BY DEF TypeInv
<1> USE DEF call, waits, command, sock, back, Locations, Talking, Suspended,
        Terminal
<1>1. ASSUME NEW t \in Calls, Enter(t) PROVE TypeInv'
  <2>1. PyTypes'
    BY <1>1, <1>0 DEF Enter, Move, PyTypes
  <2>2. PqTypes'
    BY <1>1, <1>0, PqSame DEF Enter
  <2>3. BackTypes'
    BY <1>1, <1>0, BackSame DEF Enter
  <2>4. CommandsLeft'
    BY <1>1, <1>0 DEF Enter, Move, PyTypes, CommandsLeft
  <2>5. CommandKnown'
    BY <1>1, <1>0 DEF Enter, Move, pqVars, srvVars, PqTypes, BackTypes,
       CommandKnown
  <2>q. QED BY <2>1, <2>2, <2>3, <2>4, <2>5 DEF TypeInv
<1>2. ASSUME NEW t \in Calls, SendQueryParams(t) PROVE TypeInv'
  <2>1. PyTypes'
    BY <1>2, <1>0, BoundsAssumption DEF SendQueryParams, SendFails, Move,
       PyTypes
  <2>2. PqTypes'
    <3>1. CASE UNCHANGED pqVars
      BY <1>0, <3>1, PqSame
    <3>2. CASE /\ async' = "busy"
               /\ cmd' = t
               /\ out' \in 1..MaxChunks
               /\ UNCHANGED <<inbuf, notes, link>>
      BY <1>0, <3>2, Intervals DEF PqTypes
    <3>q. QED BY <1>2, <3>1, <3>2 DEF SendQueryParams
  <2>3. BackTypes'
    BY <1>2, <1>0, BackSame DEF SendQueryParams
  <2>4. CommandsLeft'
    BY <1>2, <1>0 DEF SendQueryParams, SendFails, Move, PyTypes, CommandsLeft
  <2>5. CommandKnown'
    BY <1>2, <1>0 DEF SendQueryParams, SendFails, Move, pqVars, srvVars,
       PqTypes, BackTypes, CommandKnown
  <2>q. QED BY <2>1, <2>2, <2>3, <2>4, <2>5 DEF TypeInv
<1>3. ASSUME NEW t \in Calls, SendQuery(t) PROVE TypeInv'
  <2>1. PyTypes'
    BY <1>3, <1>0, BoundsAssumption DEF SendQuery, SendFails, Move, PyTypes
  <2>2. PqTypes'
    <3>1. CASE UNCHANGED pqVars
      BY <1>0, <3>1, PqSame
    <3>2. CASE /\ async' = "busy"
               /\ cmd' = t
               /\ out' \in 1..MaxChunks
               /\ UNCHANGED <<inbuf, notes, link>>
      BY <1>0, <3>2, Intervals DEF PqTypes
    <3>q. QED BY <1>3, <3>1, <3>2 DEF SendQuery
  <2>3. BackTypes'
    BY <1>3, <1>0, BackSame DEF SendQuery
  <2>4. CommandsLeft'
    BY <1>3, <1>0 DEF SendQuery, SendFails, Move, PyTypes, CommandsLeft
  <2>5. CommandKnown'
    BY <1>3, <1>0 DEF SendQuery, SendFails, Move, pqVars, srvVars, PqTypes,
       BackTypes, CommandKnown
  <2>q. QED BY <2>1, <2>2, <2>3, <2>4, <2>5 DEF TypeInv
<1>4. ASSUME NEW t \in Calls, Flush(t) PROVE TypeInv'
  <2>0. FlushSize \in Nat /\ FlushSize <= out /\ FlushSize <= SendRoom - wire
    BY <1>0, BoundsAssumption DEF FlushSize, PqTypes, BackTypes
  <2>1. PyTypes'
    <3>1. \/ /\ fut' = [fut EXCEPT ![t] = "pending"]
             /\ pc' = [pc EXCEPT ![t] = "flushing"]
             /\ reader' = t /\ writer' = t /\ running' = NoCall
          \/ pc' = [pc EXCEPT ![t] = "read"] /\ UNCHANGED <<running, waits>>
      BY <1>4 DEF Flush, WaitFor, Move
    <3>2. UNCHANGED <<use, kind, chans, got, queue, found>>
      BY <1>4 DEF Flush
    <3>q. QED BY <1>0, <3>1, <3>2 DEF PyTypes
  <2>2. PqTypes'
    <3>1. out' \in 0..MaxChunks
      BY <1>4, <1>0, <2>0, BoundsAssumption DEF Flush, PqTypes
    <3>q. QED BY <1>4, <1>0, <3>1 DEF Flush, PqTypes
  <2>3. BackTypes'
    <3>1. wire' \in 0..SendRoom
      BY <1>4, <1>0, <2>0, BoundsAssumption DEF Flush, BackTypes
    <3>q. QED BY <1>4, <1>0, <3>1 DEF Flush, BackTypes
  <2>4. CommandsLeft'
    BY <1>4, <1>0 DEF Flush, WaitFor, Move, PyTypes, CommandsLeft
  <2>5. CommandKnown'
    <3>1. out' > 0 \/ wire' > 0 => out > 0 \/ wire > 0
      BY <1>4, <1>0, <2>0, BoundsAssumption DEF Flush, PqTypes, BackTypes
    <3>q. QED BY <1>4, <1>0, <3>1 DEF Flush, CommandKnown
  <2>q. QED BY <2>1, <2>2, <2>3, <2>4, <2>5 DEF TypeInv
<1>5. ASSUME NEW t \in Calls, FlushFails(t) PROVE TypeInv'
  <2>1. PyTypes'
    BY <1>5, <1>0 DEF FlushFails, Raise, Move, PyTypes
  <2>2. PqTypes'
    BY <1>5, <1>0, PqSame DEF FlushFails
  <2>3. BackTypes'
    BY <1>5, <1>0, BackSame DEF FlushFails
  <2>4. CommandsLeft'
    BY <1>5, <1>0 DEF FlushFails, Raise, Move, PyTypes, CommandsLeft
  <2>5. CommandKnown'
    BY <1>5, <1>0 DEF FlushFails, Raise, Move, pqVars, srvVars, PqTypes,
       BackTypes, CommandKnown
  <2>q. QED BY <2>1, <2>2, <2>3, <2>4, <2>5 DEF TypeInv
<1>6. ASSUME NEW t \in Calls, ReadFails(t) PROVE TypeInv'
  <2>1. PyTypes'
    BY <1>6, <1>0 DEF ReadFails, ConsumeFails, Raise, Move, PyTypes
  <2>2. PqTypes'
    BY <1>6, <1>0 DEF ReadFails, ConsumeFails, Raise, Move, PqTypes
  <2>3. BackTypes'
    BY <1>6, <1>0 DEF ReadFails, ConsumeFails, Raise, Move, BackTypes
  <2>4. CommandsLeft'
    BY <1>6, <1>0 DEF ReadFails, ConsumeFails, Raise, Move, PyTypes,
       CommandsLeft
  <2>5. CommandKnown'
    BY <1>6, <1>0 DEF ReadFails, ConsumeFails, Raise, Move, pqVars, srvVars,
       PqTypes, BackTypes, CommandKnown
  <2>q. QED BY <2>1, <2>2, <2>3, <2>4, <2>5 DEF TypeInv
<1>7. ASSUME NEW t \in Calls, ReadWaits(t) PROVE TypeInv'
  <2>1. PyTypes'
    BY <1>7, <1>0, BufferTypes DEF ReadWaits, ConsumeInput, Fetched, Drain,
       WaitFor, Move, PyTypes
  <2>2. PqTypes'
    BY <1>7, <1>0, BufferTypes DEF ReadWaits, ConsumeInput, Fetched, Drain,
       WaitFor, Move, PqTypes
  <2>3. BackTypes'
    BY <1>7, <1>0, EmptySeqType DEF ReadWaits, ConsumeInput, Fetched, Drain,
       WaitFor, Move, BackTypes
  <2>4. CommandsLeft'
    BY <1>7, <1>0 DEF ReadWaits, ReadLoop, WaitFor, Move, PyTypes,
       CommandsLeft
  <2>5. CommandKnown'
    BY <1>7, <1>0 DEF ReadWaits, ConsumeInput, Fetched, Drain, WaitFor, Move,
       pqVars, srvVars, PqTypes, BackTypes, CommandKnown
  <2>q. QED BY <2>1, <2>2, <2>3, <2>4, <2>5 DEF TypeInv
<1>8. ASSUME NEW t \in Calls, ReadResult(t) PROVE TypeInv'
  <2>1. PyTypes'
    BY <1>8, <1>0 DEF ReadResult, AfterResult, PyTypes
  <2>2. PqTypes'
    BY <1>8, <1>0, BufferTypes DEF ReadResult, NextReply, TakeReply, Fetched,
       Drain, AfterResult, PqTypes
  <2>3. BackTypes'
    BY <1>8, <1>0, EmptySeqType DEF ReadResult, NextReply, TakeReply, Fetched,
       Drain, AfterResult, BackTypes
  <2>4. CommandsLeft'
    BY <1>8, <1>0 DEF ReadResult, NextReply, TakeReply, Fetched, Drain,
       AfterResult, PyTypes, CommandsLeft
  <2>5. CommandKnown'
    BY <1>8, <1>0 DEF ReadResult, NextReply, TakeReply, Fetched, Drain,
       AfterResult, pqVars, srvVars, PqTypes, BackTypes, CommandKnown
  <2>q. QED BY <2>1, <2>2, <2>3, <2>4, <2>5 DEF TypeInv
<1>8a. ASSUME NEW t \in Calls, ReadCopy(t) PROVE TypeInv'
  <2>1. PyTypes'
    BY <1>8a, <1>0, PySame DEF ReadCopy
  <2>2. PqTypes'
    BY <1>8a, <1>0, BufferTypes DEF ReadCopy, ConsumeInput, Fetched, Drain,
       PqTypes
  <2>3. BackTypes'
    BY <1>8a, <1>0, EmptySeqType DEF ReadCopy, ConsumeInput, Fetched, Drain,
       BackTypes
  <2>4. CommandsLeft'
    BY <1>8a, <1>0 DEF ReadCopy, pyVars, CommandsLeft
  <2>5. CommandKnown'
    BY <1>8a, <1>0 DEF ReadCopy, CommandKnown
  <2>q. QED BY <2>1, <2>2, <2>3, <2>4, <2>5 DEF TypeInv
<1>9. ASSUME NEW t \in Calls, ReadError(t) PROVE TypeInv'
  <2>1. PyTypes'
    BY <1>9, <1>0, BufferTypes DEF ReadError, NextReply, TakeReply, Fetched,
       Drain, Raise, Move, PyTypes
  <2>2. PqTypes'
    BY <1>9, <1>0, BufferTypes DEF ReadError, NextReply, TakeReply, Fetched,
       Drain, Raise, Move, PqTypes
  <2>3. BackTypes'
    BY <1>9, <1>0, EmptySeqType DEF ReadError, NextReply, TakeReply, Fetched,
       Drain, Raise, Move, BackTypes
  <2>4. CommandsLeft'
    BY <1>9, <1>0 DEF ReadError, NextReply, TakeReply, Fetched, Drain, Raise,
       Move, PyTypes, CommandsLeft
  <2>5. CommandKnown'
    BY <1>9, <1>0 DEF ReadError, NextReply, TakeReply, Fetched, Drain, Raise,
       Move, pqVars, srvVars, PqTypes, BackTypes, CommandKnown
  <2>q. QED BY <2>1, <2>2, <2>3, <2>4, <2>5 DEF TypeInv
<1>10. ASSUME NEW t \in Calls, ReadEnds(t) PROVE TypeInv'
  <2>1. PyTypes'
    <3>1. chans[t] \in Nat /\ chans[t] > 0
      BY <1>10, <1>0 DEF ReadEnds, ReadLoop, PyTypes, CommandsLeft
    <3>2. chans' \in [Calls -> Nat]
      BY <1>10, <1>0, <3>1 DEF ReadEnds, PyTypes
    <3>q. QED
      BY <1>10, <1>0, <3>2 DEF ReadEnds, UseAfter, Move, PyTypes
  <2>2. PqTypes'
    BY <1>10, <1>0, BufferTypes DEF ReadEnds, ReadLoop, UseAfter, NextReply,
       TakeReply, Fetched, Drain, Move, PqTypes
  <2>3. BackTypes'
    BY <1>10, <1>0, EmptySeqType DEF ReadEnds, ReadLoop, UseAfter, NextReply,
       TakeReply, Fetched, Drain, Move, BackTypes
  <2>4. CommandsLeft'
    BY <1>10, <1>0 DEF ReadEnds, ReadLoop, UseAfter, NextReply, TakeReply,
       Fetched, Drain, Move, PyTypes, CommandsLeft
  <2>5. CommandKnown'
    BY <1>10, <1>0 DEF ReadEnds, ReadLoop, UseAfter, NextReply, TakeReply,
       Fetched, Drain, Move, pqVars, srvVars, PqTypes, BackTypes,
       CommandKnown
  <2>q. QED BY <2>1, <2>2, <2>3, <2>4, <2>5 DEF TypeInv
<1>11. ASSUME NEW t \in Calls, Subscribe(t) PROVE TypeInv'
  <2>1. PyTypes'
    <3>1. found' \in Calls \cup {NoCall}
      BY <1>11, <1>0 DEF Subscribe, SlotOwner, PqTypes
    <3>q. QED
      BY <1>11, <1>0, <3>1, BufferTypes DEF Subscribe, FirstLook, OnNotify,
         Drain, Move, PyTypes
  <2>2. PqTypes'
    BY <1>11, <1>0, LookTypes DEF Subscribe, FirstLook
  <2>3. BackTypes'
    BY <1>11, <1>0, EmptySeqType DEF Subscribe, FirstLook, OnNotify, Drain,
       Move, BackTypes
  <2>4. CommandsLeft'
    BY <1>11, <1>0 DEF Subscribe, FirstLook, OnNotify, Drain, Move, PyTypes,
       CommandsLeft
  <2>5. CommandKnown'
    BY <1>11, <1>0 DEF Subscribe, FirstLook, OnNotify, Drain, Move, pqVars,
       srvVars, PqTypes, BackTypes, CommandKnown
  <2>q. QED BY <2>1, <2>2, <2>3, <2>4, <2>5 DEF TypeInv
<1>12. ASSUME NEW t \in Calls, WakeRead(t) PROVE TypeInv'
  <2>1. PyTypes'
    BY <1>12, <1>0 DEF WakeRead, Woken, Unregister, Move, PyTypes
  <2>2. PqTypes'
    BY <1>12, <1>0, PqSame DEF WakeRead
  <2>3. BackTypes'
    BY <1>12, <1>0, BackSame DEF WakeRead
  <2>4. CommandsLeft'
    BY <1>12, <1>0 DEF WakeRead, Woken, Unregister, Move, PyTypes,
       CommandsLeft
  <2>5. CommandKnown'
    BY <1>12, <1>0 DEF WakeRead, Woken, Unregister, Move, pqVars, srvVars,
       PqTypes, BackTypes, CommandKnown
  <2>q. QED BY <2>1, <2>2, <2>3, <2>4, <2>5 DEF TypeInv
<1>13. ASSUME NEW t \in Calls, WakeFlush(t) PROVE TypeInv'
  <2>1. PyTypes'
    BY <1>13, <1>0, BufferTypes DEF WakeFlush, Woken, Unregister,
       ConsumeInput, ConsumeFails, Fetched, Drain, Move, PyTypes
  <2>2. PqTypes'
    BY <1>13, <1>0, BufferTypes DEF WakeFlush, Woken, Unregister,
       ConsumeInput, ConsumeFails, Fetched, Drain, Move, PqTypes
  <2>3. BackTypes'
    BY <1>13, <1>0, EmptySeqType DEF WakeFlush, Woken, Unregister,
       ConsumeInput, ConsumeFails, Fetched, Drain, Move, BackTypes
  <2>4. CommandsLeft'
    BY <1>13, <1>0 DEF WakeFlush, Woken, Unregister, ConsumeInput,
       ConsumeFails, Fetched, Drain, Move, PyTypes, CommandsLeft
  <2>5. CommandKnown'
    BY <1>13, <1>0 DEF WakeFlush, Woken, Unregister, ConsumeInput,
       ConsumeFails, Fetched, Drain, Move, pqVars, srvVars, PqTypes,
       BackTypes, CommandKnown
  <2>q. QED BY <2>1, <2>2, <2>3, <2>4, <2>5 DEF TypeInv
<1>14. ASSUME NEW t \in Calls, WakeCancelled(t) PROVE TypeInv'
  <2>1. PyTypes'
    BY <1>14, <1>0 DEF WakeCancelled, Move, PyTypes
  <2>2. PqTypes'
    BY <1>14, <1>0, PqSame DEF WakeCancelled
  <2>3. BackTypes'
    BY <1>14, <1>0, BackSame DEF WakeCancelled
  <2>4. CommandsLeft'
    BY <1>14, <1>0 DEF WakeCancelled, Move, PyTypes, CommandsLeft
  <2>5. CommandKnown'
    BY <1>14, <1>0 DEF WakeCancelled, Move, pqVars, srvVars, PqTypes,
       BackTypes, CommandKnown
  <2>q. QED BY <2>1, <2>2, <2>3, <2>4, <2>5 DEF TypeInv
<1>15. ASSUME NEW t \in Calls, Cancel(t) PROVE TypeInv'
  <2>1. PyTypes'
    BY <1>15, <1>0 DEF Cancel, PyTypes
  <2>2. PqTypes'
    BY <1>15, <1>0, PqSame DEF Cancel
  <2>3. BackTypes'
    BY <1>15, <1>0, BackSame DEF Cancel
  <2>4. CommandsLeft'
    BY <1>15, <1>0 DEF Cancel, PyTypes, CommandsLeft
  <2>5. CommandKnown'
    BY <1>15, <1>0 DEF Cancel, pqVars, srvVars, PqTypes, BackTypes,
       CommandKnown
  <2>q. QED BY <2>1, <2>2, <2>3, <2>4, <2>5 DEF TypeInv
<1>16. CASE PollCall
  <2>1. PyTypes'
    BY <1>16, <1>0 DEF PollCall, PyTypes
  <2>2. PqTypes'
    BY <1>16, <1>0, PqSame DEF PollCall
  <2>3. BackTypes'
    BY <1>16, <1>0, BackSame DEF PollCall
  <2>4. CommandsLeft'
    BY <1>16, <1>0 DEF PollCall, PyTypes, CommandsLeft
  <2>5. CommandKnown'
    BY <1>16, <1>0 DEF PollCall, pqVars, srvVars, PqTypes, BackTypes,
       CommandKnown
  <2>q. QED BY <2>1, <2>2, <2>3, <2>4, <2>5 DEF TypeInv
<1>17. CASE PollNotify
  <2>1. PyTypes'
    BY <1>17, <1>0, BufferTypes DEF PollNotify, OnNotify, Drain, PyTypes
  <2>2. PqTypes'
    BY <1>17, <1>0, LookTypes DEF PollNotify
  <2>3. BackTypes'
    BY <1>17, <1>0, EmptySeqType DEF PollNotify, OnNotify, Drain, BackTypes
  <2>4. CommandsLeft'
    BY <1>17, <1>0 DEF PollNotify, OnNotify, Drain, PyTypes, CommandsLeft
  <2>5. CommandKnown'
    BY <1>17, <1>0 DEF PollNotify, OnNotify, Drain, pqVars, srvVars, PqTypes,
       BackTypes, CommandKnown
  <2>q. QED BY <2>1, <2>2, <2>3, <2>4, <2>5 DEF TypeInv
<1>18. CASE ServerReads
  <2>1. PyTypes'
    BY <1>18, <1>0, PySame DEF ServerReads
  <2>2. PqTypes'
    BY <1>18, <1>0, PqSame DEF ServerReads
  <2>3. BackTypes'
    <3>1. wire' \in 0..SendRoom
      BY <1>18, <1>0, BoundsAssumption DEF ServerReads, BackTypes
    <3>q. QED BY <1>18, <1>0, <3>1 DEF ServerReads, BackTypes
  <2>4. CommandsLeft'
    BY <1>18, <1>0 DEF ServerReads, pyVars, CommandsLeft
  <2>5. CommandKnown'
    BY <1>18, <1>0 DEF ServerReads, pqVars, srvVars, PqTypes, BackTypes,
       CommandKnown
  <2>q. QED BY <2>1, <2>2, <2>3, <2>4, <2>5 DEF TypeInv
<1>19. ASSUME NEW what \in {"ok", "err"}, ServerResult(what)
      PROVE TypeInv'
  <2>1. PyTypes'
    BY <1>19, <1>0, PySame DEF ServerResult
  <2>2. PqTypes'
    BY <1>19, <1>0, PqSame DEF ServerResult
  <2>3. BackTypes'
    <3>1. [kind |-> what, to |-> cmd] \in Reply
      BY <1>19, <1>0 DEF ServerResult, CommandKnown, Reply
    <3>2. net' \in Seq(Reply)
      BY <1>19, <1>0, <3>1 DEF ServerResult, BackTypes
    <3>3. produced' \in [Calls -> Nat]
      <4>1. produced' = [produced EXCEPT ![cmd] = @ + 1]
        BY <1>19 DEF ServerResult
      <4>2. produced \in [Calls -> Nat]
        BY <1>0 DEF BackTypes
      <4>3. cmd \in Calls
        BY <1>19, <1>0 DEF ServerResult, CommandKnown
      <4>q. QED BY <4>1, <4>2, <4>3
    <3>4. srv' \in {"idle", "exec", "ready", "copy"}
      BY <1>19 DEF ServerResult
    <3>5. /\ wire' \in 0..SendRoom
          /\ netNotes' \in Seq(Nat)
          /\ sent' \in 0..MaxNotify
      BY <1>19, <1>0 DEF ServerResult, BackTypes
    <3>6. frag' \in BOOLEAN /\ listening' \in BOOLEAN
      BY <1>19, <1>0 DEF ServerResult, BackTypes
    <3>q. QED BY <3>2, <3>3, <3>4, <3>5, <3>6 DEF BackTypes
  <2>4. CommandsLeft'
    BY <1>19, <1>0 DEF ServerResult, pyVars, CommandsLeft
  <2>5. CommandKnown'
    BY <1>19, <1>0 DEF ServerResult, Reply, pqVars, srvVars, PqTypes,
       BackTypes, CommandKnown
  <2>q. QED BY <2>1, <2>2, <2>3, <2>4, <2>5 DEF TypeInv
<1>19a. CASE ServerCopies
  <2>1. PyTypes'
    BY <1>19a, <1>0, PySame DEF ServerCopies
  <2>2. PqTypes'
    BY <1>19a, <1>0, PqSame DEF ServerCopies
  <2>3. BackTypes'
    <3>0. cmd \in Calls
      BY <1>19a, <1>0 DEF ServerCopies, CommandKnown
    <3>1. [kind |-> "copyin", to |-> cmd] \in Reply
      BY <3>0 DEF Reply
    <3>2. net' \in Seq(Reply)
      BY <1>19a, <1>0, <3>1 DEF ServerCopies, BackTypes
    <3>3. produced' \in [Calls -> Nat]
      <4>1. produced' = [produced EXCEPT ![cmd] = @ + 1]
        BY <1>19a DEF ServerCopies
      <4>2. produced \in [Calls -> Nat]
        BY <1>0 DEF BackTypes
      <4>q. QED BY <4>1, <4>2, <3>0
    <3>q. QED BY <1>19a, <1>0, <3>2, <3>3 DEF ServerCopies, BackTypes
  <2>4. CommandsLeft'
    BY <1>19a, <1>0 DEF ServerCopies, pyVars, CommandsLeft
  <2>5. CommandKnown'
    BY <1>19a, <1>0 DEF ServerCopies, Reply, pqVars, CommandKnown
  <2>q. QED BY <2>1, <2>2, <2>3, <2>4, <2>5 DEF TypeInv
<1>20. CASE ServerReady
  <2>1. PyTypes'
    BY <1>20, <1>0, PySame DEF ServerReady
  <2>2. PqTypes'
    BY <1>20, <1>0, PqSame DEF ServerReady
  <2>3. BackTypes'
    <3>1. [kind |-> "rfq", to |-> cmd] \in Reply
      BY <1>20, <1>0 DEF ServerReady, CommandKnown, Reply
    <3>2. net' \in Seq(Reply)
      BY <1>20, <1>0, <3>1 DEF ServerReady, BackTypes
    <3>q. QED BY <1>20, <1>0, <3>2 DEF ServerReady, BackTypes
  <2>4. CommandsLeft'
    BY <1>20, <1>0 DEF ServerReady, pyVars, CommandsLeft
  <2>5. CommandKnown'
    BY <1>20, <1>0 DEF ServerReady, Reply, pqVars, srvVars, PqTypes,
       BackTypes, CommandKnown
  <2>q. QED BY <2>1, <2>2, <2>3, <2>4, <2>5 DEF TypeInv
<1>21. CASE Fragment
  <2>1. PyTypes'
    BY <1>21, <1>0, PySame DEF Fragment
  <2>2. PqTypes'
    BY <1>21, <1>0, PqSame DEF Fragment
  <2>3. BackTypes'
    BY <1>21, <1>0 DEF Fragment, BackTypes
  <2>4. CommandsLeft'
    BY <1>21, <1>0 DEF Fragment, pyVars, CommandsLeft
  <2>5. CommandKnown'
    BY <1>21, <1>0 DEF Fragment, pqVars, srvVars, PqTypes, BackTypes,
       CommandKnown
  <2>q. QED BY <2>1, <2>2, <2>3, <2>4, <2>5 DEF TypeInv
<1>22. CASE ServerNotifies
  <2>1. PyTypes'
    BY <1>22, <1>0, PySame DEF ServerNotifies
  <2>2. PqTypes'
    BY <1>22, <1>0, PqSame DEF ServerNotifies
  <2>3. BackTypes'
    BY <1>22, <1>0, BoundsAssumption DEF ServerNotifies, BackTypes,
       CommandKnown
  <2>4. CommandsLeft'
    BY <1>22, <1>0 DEF ServerNotifies, pyVars, CommandsLeft
  <2>5. CommandKnown'
    BY <1>22, <1>0 DEF ServerNotifies, pqVars, srvVars, PqTypes, BackTypes,
       CommandKnown
  <2>q. QED BY <2>1, <2>2, <2>3, <2>4, <2>5 DEF TypeInv
<1>23. CASE Lose
  <2>1. PyTypes'
    BY <1>23, <1>0, PySame DEF Lose
  <2>2. PqTypes'
    BY <1>23, <1>0 DEF Lose, PqTypes
  <2>3. BackTypes'
    BY <1>23, <1>0, BackSame DEF Lose
  <2>4. CommandsLeft'
    BY <1>23, <1>0 DEF Lose, pyVars, CommandsLeft
  <2>5. CommandKnown'
    BY <1>23, <1>0 DEF Lose, pqVars, srvVars, PqTypes, BackTypes,
       CommandKnown
  <2>q. QED BY <2>1, <2>2, <2>3, <2>4, <2>5 DEF TypeInv
<1>24. CASE UNCHANGED vars
  <2>1. PyTypes' /\ PqTypes' /\ BackTypes'
    BY <1>0, <1>24, PySame, PqSame, BackSame DEF vars
  <2>2. CommandsLeft' /\ CommandKnown'
    BY <1>0, <1>24 DEF vars, pyVars, pqVars, srvVars, CommandsLeft,
       CommandKnown
  <2>q. QED BY <2>1, <2>2 DEF TypeInv
<1>q. QED
  BY <1>1, <1>2, <1>3, <1>4, <1>5, <1>6, <1>7, <1>8, <1>8a, <1>9, <1>10,
     <1>11, <1>12, <1>13, <1>14, <1>15, <1>16, <1>17, <1>18, <1>19, <1>19a,
     <1>20, <1>21, <1>22, <1>23, <1>24 DEF Next, Step, Wake, Server, Terminating

(* The values the variables of the connection take are those of the type   *)
(* invariant, which the runs check.                                        *)
THEOREM TypeCorrect == Spec => []TypeOK
<1>1. TypeInv /\ [Next]_vars => TypeInv'
  BY TypeStep
<1>2. TypeInv => TypeOK
  BY DEF TypeInv, TypeOK
<1>q. QED BY TypeInit, <1>1, <1>2, PTL DEF Spec

---------------------------------------------------------------------------
(***************************************************************************)
(* One command, no lost wake-up, undisturbed listening                     *)
(***************************************************************************)

(* The loop runs one call at a time, and a call that is not suspended and  *)
(* not over is the one it runs.                                            *)
RunningInv ==
    \A t \in Calls :
        running = t <=> pc[t] \in {"send", "flush", "read", "subscribe"}

(* From its send to its last result a call owns libpq's one command.       *)
TalkingInv ==
    \A t \in Calls : pc[t] \in Talking => cmd = t /\ async = "busy"

(* A pending future belongs to a suspended call that is registered for     *)
(* what it waits for, unless listen() took its reader.                     *)
WaitingInv ==
    \A t \in Calls : fut[t] = "pending" =>
        /\ pc[t] \in Suspended
        /\ reader = t \/ Overtaken(t)
        /\ pc[t] = "flushing" => writer = t

(* listen() subscribes when its commands are over; one without channels    *)
(* has none.                                                               *)
SubscribeInv ==
    \A t \in Calls : pc[t] = "subscribe" =>
        /\ use = "idle"
        /\ kind[t] # "listen none" => async = "idle"

(* Only a script() has a command in progress that self.use does not show.  *)
UsedInv ==
    async = "busy" => cmd \in Calls /\ (kind[cmd] = "script" \/ use = "command")

(* So what listen() can find is a script, and a listen() that finds one    *)
(* has sent nothing itself.                                                *)
FoundInv ==
    found # NoCall =>
        /\ kind[found] = "script"
        /\ \E t \in Calls : kind[t] = "listen none" /\ pc[t] \in Terminal

(* While the connection listens the only command in progress is the one    *)
(* listen() found; its call took the handler off when it last woke up; and *)
(* else only an execute() about to be refused can run.                     *)
ListenInv ==
    use = "listening" =>
        /\ reader = Notify \/ found # NoCall
        /\ SlotOwner \in {NoCall, found}
        /\ \A t \in Calls :
               running = t =>
                   \/ pc[t] = "send" /\ kind[t] \in {"execute", "copy"}
                   \/ t = found /\ pc[t] \in {"flush", "read"} /\ reader # Notify

TalkInv == RunningInv /\ TalkingInv

WaitInv == /\ RunningInv /\ TalkingInv /\ WaitingInv
           /\ SubscribeInv /\ UsedInv /\ FoundInv /\ ListenInv

(* A connection that __init__ made satisfies the waiting invariant.        *)
LEMMA WaitInit == Init => WaitInv
  BY CallsAssumption DEF Init, WaitInv, RunningInv, TalkingInv, WaitingInv,
     SubscribeInv, UsedInv, FoundInv, ListenInv, Talking, Suspended

(* What its parts speak of.                                                *)
waitVars ==
    <<use, kind, pc, fut, running, reader, writer, async, cmd, found>>

(* The waiting invariant looks only at waitVars.                           *)
LEMMA WaitSame == WaitInv /\ UNCHANGED waitVars => WaitInv'
  BY DEF WaitInv, waitVars, RunningInv, TalkingInv, WaitingInv, SubscribeInv,
     UsedInv, FoundInv, ListenInv, Overtaken, SlotOwner

(* What TalkInv speaks of.                                                 *)
talkVars == <<pc, running, async, cmd>>

(* A step that leaves these alone leaves TalkInv alone.                    *)
LEMMA TalkSame == TalkInv /\ UNCHANGED talkVars => TalkInv'
  BY DEF TalkInv, talkVars, RunningInv, TalkingInv

(* A connection that __init__ made satisfies it.                           *)
LEMMA TalkInit == Init => TalkInv
  BY CallsAssumption DEF Init, TalkInv, RunningInv, TalkingInv, Talking,
     Suspended

(* Every step keeps the first two parts: a command is sent only when none  *)
(* is in progress, and ends when the call that sent it has read it all.    *)
LEMMA TalkStep == TypeInv /\ TalkInv /\ [Next]_vars => TalkInv'
<1> SUFFICES ASSUME TypeInv, TalkInv, [Next]_vars PROVE TalkInv'
  OBVIOUS
<1>0. /\ RunningInv /\ TalkingInv
      /\ NoCall \notin Calls /\ Notify \notin Calls
      /\ pc \in [Calls -> Locations]
      /\ fut \in [Calls -> {"none", "pending", "reading", "writing",
                            "cancelled"}]
  BY CallsAssumption DEF TalkInv, TypeInv, PyTypes
<1> USE DEF call, waits, command, Talking, Suspended, Terminal
<1>1. ASSUME NEW t \in Calls, Enter(t) PROVE TalkInv'
  <2>1. RunningInv'
    BY <1>1, <1>0 DEF Enter, Move, RunningInv
  <2>2. TalkingInv'
    <3>1. \A u \in Calls : pc'[u] \in Talking => pc[u] \in Talking
      BY <1>1, <1>0 DEF Enter, Move
    <3>q. QED BY <1>1, <1>0, <3>1 DEF Enter, pqVars, TalkingInv
  <2>q. QED BY <2>1, <2>2 DEF TalkInv
<1>2. ASSUME NEW t \in Calls, SendQueryParams(t) PROVE TalkInv'
  <2>1. RunningInv'
    BY <1>2, <1>0 DEF SendQueryParams, SendFails, SendAccepted,
       ExecuteRefuses, InUse, Move, pqVars, RunningInv
  <2>2. TalkingInv'
    BY <1>2, <1>0 DEF SendQueryParams, SendFails, SendAccepted,
       ExecuteRefuses, InUse, Move, pqVars, RunningInv, TalkingInv
  <2>q. QED BY <2>1, <2>2 DEF TalkInv
<1>3. ASSUME NEW t \in Calls, SendQuery(t) PROVE TalkInv'
  <2>1. RunningInv'
    BY <1>3, <1>0 DEF SendQuery, SendFails, SendAccepted, Move, pqVars,
       RunningInv
  <2>2. TalkingInv'
    BY <1>3, <1>0 DEF SendQuery, SendFails, SendAccepted, Move, pqVars,
       RunningInv, TalkingInv
  <2>q. QED BY <2>1, <2>2 DEF TalkInv
<1>4. ASSUME NEW t \in Calls, Flush(t) PROVE TalkInv'
  <2>1. RunningInv'
    BY <1>4, <1>0 DEF Flush, WaitFor, Move, RunningInv
  <2>2. TalkingInv'
    BY <1>4, <1>0 DEF Flush, WaitFor, Move, RunningInv, TalkingInv
  <2>q. QED BY <2>1, <2>2 DEF TalkInv
<1>5. ASSUME NEW t \in Calls, FlushFails(t) PROVE TalkInv'
  <2>1. RunningInv'
    BY <1>5, <1>0 DEF FlushFails, Raise, Move, pqVars, RunningInv
  <2>2. TalkingInv'
    BY <1>5, <1>0 DEF FlushFails, Raise, Move, pqVars, RunningInv, TalkingInv
  <2>q. QED BY <2>1, <2>2 DEF TalkInv
<1>6. ASSUME NEW t \in Calls, ReadFails(t) PROVE TalkInv'
  <2>1. RunningInv'
    BY <1>6, <1>0 DEF ReadFails, ReadLoop, Raise, Move, RunningInv
  <2>2. TalkingInv'
    BY <1>6, <1>0 DEF ReadFails, ReadLoop, Raise, Move, RunningInv,
       TalkingInv
  <2>q. QED BY <2>1, <2>2 DEF TalkInv
<1>7. ASSUME NEW t \in Calls, ReadWaits(t) PROVE TalkInv'
  <2>1. RunningInv'
    BY <1>7, <1>0 DEF ReadWaits, ReadLoop, WaitFor, Move, RunningInv
  <2>2. TalkingInv'
    BY <1>7, <1>0 DEF ReadWaits, ReadLoop, WaitFor, Move, RunningInv,
       TalkingInv
  <2>q. QED BY <2>1, <2>2 DEF TalkInv
<1>8. ASSUME NEW t \in Calls, ReadResult(t) PROVE TalkInv'
  <2>1. RunningInv'
    BY <1>8, <1>0 DEF ReadResult, ReadLoop, AfterResult, RunningInv
  <2>2. TalkingInv'
    BY <1>8, <1>0 DEF ReadResult, ReadLoop, AfterResult, RunningInv,
       TalkingInv
  <2>q. QED BY <2>1, <2>2 DEF TalkInv
<1>9. ASSUME NEW t \in Calls, ReadError(t) PROVE TalkInv'
  <2>1. RunningInv'
    BY <1>9, <1>0 DEF ReadError, ReadLoop, Raise, Move, RunningInv
  <2>2. TalkingInv'
    BY <1>9, <1>0 DEF ReadError, ReadLoop, Raise, Move, RunningInv,
       TalkingInv
  <2>q. QED BY <2>1, <2>2 DEF TalkInv
<1>10. ASSUME NEW t \in Calls, ReadEnds(t) PROVE TalkInv'
  <2>1. RunningInv'
    BY <1>10, <1>0 DEF ReadEnds, ReadLoop, UseAfter, Move, RunningInv
  <2>2. TalkingInv'
    BY <1>10, <1>0 DEF ReadEnds, ReadLoop, UseAfter, Move, RunningInv,
       TalkingInv
  <2>q. QED BY <2>1, <2>2 DEF TalkInv
<1>11. ASSUME NEW t \in Calls, Subscribe(t) PROVE TalkInv'
  <2>1. RunningInv'
    BY <1>11, <1>0 DEF Subscribe, FirstLook, Move, RunningInv
  <2>2. TalkingInv'
    BY <1>11, <1>0 DEF Subscribe, FirstLook, Move, RunningInv, TalkingInv
  <2>q. QED BY <2>1, <2>2 DEF TalkInv
<1>12. ASSUME NEW t \in Calls, WakeRead(t) PROVE TalkInv'
  <2>1. RunningInv'
    BY <1>12, <1>0 DEF WakeRead, Woken, Unregister, FlagsOf, Move, pqVars,
       RunningInv
  <2>2. TalkingInv'
    BY <1>12, <1>0 DEF WakeRead, Woken, Unregister, FlagsOf, Move, pqVars,
       RunningInv, TalkingInv
  <2>q. QED BY <2>1, <2>2 DEF TalkInv
<1>13. ASSUME NEW t \in Calls, WakeFlush(t) PROVE TalkInv'
  <2>1. RunningInv'
    BY <1>13, <1>0 DEF WakeFlush, Woken, Unregister, FlagsOf, Move,
       RunningInv
  <2>2. TalkingInv'
    BY <1>13, <1>0 DEF WakeFlush, Woken, Unregister, FlagsOf, Move,
       RunningInv, TalkingInv
  <2>q. QED BY <2>1, <2>2 DEF TalkInv
<1>14. ASSUME NEW t \in Calls, WakeCancelled(t) PROVE TalkInv'
  <2>1. RunningInv'
    BY <1>14, <1>0 DEF WakeCancelled, Move, pqVars, RunningInv
  <2>2. TalkingInv'
    BY <1>14, <1>0 DEF WakeCancelled, Move, pqVars, RunningInv, TalkingInv
  <2>q. QED BY <2>1, <2>2 DEF TalkInv
<1>15. ASSUME NEW t \in Calls, Cancel(t) PROVE TalkInv'
  <2>1. RunningInv'
    BY <1>15, <1>0 DEF Cancel, pqVars, RunningInv
  <2>2. TalkingInv'
    BY <1>15, <1>0 DEF Cancel, pqVars, RunningInv, TalkingInv
  <2>q. QED BY <2>1, <2>2 DEF TalkInv
<1>16. CASE PollCall
  <2>1. RunningInv'
    BY <1>16, <1>0 DEF PollCall, pqVars, RunningInv
  <2>2. TalkingInv'
    BY <1>16, <1>0 DEF PollCall, pqVars, RunningInv, TalkingInv
  <2>q. QED BY <2>1, <2>2 DEF TalkInv
<1>17. CASE PollNotify
  <2>1. RunningInv'
    BY <1>17, <1>0 DEF PollNotify, RunningInv
  <2>2. TalkingInv'
    BY <1>17, <1>0 DEF PollNotify, RunningInv, TalkingInv
  <2>q. QED BY <2>1, <2>2 DEF TalkInv
<1>18. ASSUME \/ \E t \in Calls : ReadCopy(t)
             \/ ServerReads \/ ServerCopies \/ ServerReady \/ Fragment
             \/ ServerNotifies \/ Lose \/ UNCHANGED vars
             \/ \E what \in {"ok", "err"} : ServerResult(what)
      PROVE  TalkInv'
  <2>1. UNCHANGED talkVars
    BY <1>18 DEF ReadCopy, ServerReads, ServerCopies, ServerReady, Fragment,
       ServerNotifies, Lose, ServerResult, vars, pyVars, pqVars, talkVars
  <2>q. QED BY <2>1, TalkSame
<1>q. QED
  BY <1>1, <1>2, <1>3, <1>4, <1>5, <1>6, <1>7, <1>8, <1>9, <1>10, <1>11,
     <1>12, <1>13, <1>14, <1>15, <1>16, <1>17, <1>18 DEF Next, Step, Wake,
     Server, Terminating


(* A call that is over stays so, and only listen() finds anything.         *)
LEMMA OverStays ==
    ASSUME TypeInv, [Next]_vars
    PROVE  /\ kind' = kind
           /\ \A u \in Calls : pc[u] \in Terminal => pc'[u] = pc[u]
           /\ found' = found \/ \E t \in Calls : Subscribe(t)
<1>0. pc \in [Calls -> Locations]
  BY DEF TypeInv, PyTypes
<1> USE DEF call, waits, command, Suspended, Terminal, Move
<1>1. ASSUME NEW t \in Calls,
             \/ Enter(t) \/ SendQueryParams(t) \/ SendQuery(t)
             \/ Flush(t) \/ FlushFails(t)
      PROVE  /\ kind' = kind /\ found' = found
             /\ \A u \in Calls : pc[u] \in Terminal => pc'[u] = pc[u]
  BY <1>0, <1>1 DEF Enter, SendQueryParams, SendQuery, SendFails, Flush, WaitFor,
     FlushFails, Raise
<1>2. ASSUME NEW t \in Calls,
             \/ ReadFails(t) \/ ReadWaits(t) \/ ReadResult(t) \/ ReadError(t)
             \/ ReadCopy(t) \/ ReadEnds(t)
      PROVE  /\ kind' = kind /\ found' = found
             /\ \A u \in Calls : pc[u] \in Terminal => pc'[u] = pc[u]
  BY <1>0, <1>2 DEF ReadLoop, ReadFails, ReadWaits, WaitFor, ReadResult,
     AfterResult, ReadError, Raise, ReadCopy, ReadEnds, pyVars
<1>3. ASSUME NEW t \in Calls, Subscribe(t)
      PROVE  /\ kind' = kind
             /\ \A u \in Calls : pc[u] \in Terminal => pc'[u] = pc[u]
  BY <1>0, <1>3 DEF Subscribe, FirstLook
<1>4. ASSUME NEW t \in Calls,
             WakeRead(t) \/ WakeFlush(t) \/ WakeCancelled(t) \/ Cancel(t)
      PROVE  /\ kind' = kind /\ found' = found
             /\ \A u \in Calls : pc[u] \in Terminal => pc'[u] = pc[u]
  BY <1>0, <1>4 DEF WakeRead, WakeFlush, WakeCancelled, Cancel
<1>5. CASE \/ PollCall \/ PollNotify \/ Server \/ Fragment
           \/ ServerNotifies \/ Lose \/ UNCHANGED vars
  <2>1. kind' = kind /\ found' = found /\ pc' = pc
    BY <1>5 DEF PollCall, PollNotify, Server, ServerReads, ServerResult,
       ServerCopies, ServerReady, Fragment, ServerNotifies, Lose, vars, pyVars
  <2> QED
    BY <2>1
<1> QED
  BY <1>1, <1>2, <1>3, <1>4, <1>5 DEF Next, Step, Wake, Terminating

(* Every step keeps what self.use tells of a command, and what listen()    *)
(* can have found.                                                         *)
LEMMA UsedStep ==
    ASSUME TypeInv, WaitInv, [Next]_vars
    PROVE  UsedInv'
<1>0. kind' = kind
  BY OverStays
<1> USE DEF call, waits, command
<1>1. ASSUME NEW t \in Calls, SendQueryParams(t) \/ SendQuery(t) PROVE UsedInv'
  BY <1>0, <1>1 DEF SendQueryParams, SendQuery, pqVars, WaitInv, UsedInv
<1>2. ASSUME NEW t \in Calls, ReadEnds(t) PROVE UsedInv'
  BY <1>2 DEF ReadEnds, UsedInv
<1>3. ASSUME NEW t \in Calls, Subscribe(t) PROVE UsedInv'
  BY <1>0, <1>3 DEF Subscribe, WaitInv, SubscribeInv, UsedInv
<1>4. CASE UNCHANGED <<use, async, cmd>>
  BY <1>0, <1>4 DEF WaitInv, UsedInv
<1>5. ASSUME NEW t \in Calls, Enter(t) \/ Wake(t) \/ Cancel(t)
      PROVE  UNCHANGED <<use, async, cmd>>
  BY <1>5 DEF Enter, Wake, WakeRead, WakeFlush, WakeCancelled, Cancel, pqVars
<1>6. ASSUME NEW t \in Calls, Step(t)
      PROVE  \/ UNCHANGED <<use, async, cmd>>
             \/ SendQueryParams(t) \/ SendQuery(t) \/ ReadEnds(t) \/ Subscribe(t)
  BY <1>6 DEF Step, Flush, FlushFails, ReadFails, ReadWaits, ReadResult,
     AfterResult, ReadError, Raise, ReadCopy, pyVars, pqVars
<1>7. ASSUME \/ PollCall \/ PollNotify \/ Server \/ Fragment
             \/ ServerNotifies \/ Lose \/ UNCHANGED vars
      PROVE  UNCHANGED <<use, async, cmd>>
  BY <1>7 DEF PollCall, PollNotify, Server, ServerReads, ServerResult,
     ServerCopies, ServerReady, Fragment, ServerNotifies, Lose, vars, pyVars, pqVars
<1> QED
  BY <1>1, <1>2, <1>3, <1>4, <1>5, <1>6, <1>7 DEF Next, Terminating

(* Whom listen() finds is a script, and only one without channels finds    *)
(* anybody.                                                                *)
LEMMA FoundStep ==
    ASSUME TypeInv, WaitInv, [Next]_vars
    PROVE  FoundInv'
<1>0. /\ kind' = kind
      /\ \A u \in Calls : pc[u] \in Terminal => pc'[u] = pc[u]
      /\ pc \in [Calls -> Locations]
  BY OverStays DEF TypeInv, PyTypes
<1>1. CASE found' = found
  BY <1>0, <1>1 DEF WaitInv, FoundInv
<1>2. ASSUME NEW t \in Calls, Subscribe(t), found' # NoCall PROVE FoundInv'
  <2>1. async = "busy" /\ found' = cmd
    BY <1>2 DEF Subscribe, SlotOwner
  <2>2. kind[t] = "listen none" /\ use = "idle"
    BY <1>2, <2>1 DEF Subscribe, WaitInv, SubscribeInv
  <2>3. kind[cmd] = "script"
    BY <2>1, <2>2 DEF WaitInv, UsedInv
  <2>4. pc'[t] \in Terminal
    BY <1>0, <1>2 DEF Subscribe, FirstLook, Move, Terminal
  <2> QED
    BY <1>0, <2>1, <2>2, <2>3, <2>4 DEF FoundInv
<1>3. CASE found' = NoCall
  BY <1>3 DEF FoundInv
<1> QED
  BY <1>1, <1>2, <1>3, OverStays

(* Every step keeps all parts.  What carries the proof: a suspended call   *)
(* is talking, so it is the owner of the command, and there is only one;   *)
(* whoever registers a handler is that owner, or subscribes and has found  *)
(* it.                                                                     *)
LEMMA WaitStep == TypeInv /\ WaitInv /\ [Next]_vars => WaitInv'
<1> SUFFICES ASSUME TypeInv, WaitInv, [Next]_vars PROVE WaitInv'
  OBVIOUS
<1>0. /\ RunningInv /\ TalkingInv /\ WaitingInv /\ SubscribeInv
      /\ UsedInv /\ FoundInv /\ ListenInv
      /\ NoCall \notin Calls /\ Notify \notin Calls /\ NoCall # Notify
      /\ pc \in [Calls -> Locations]
      /\ fut \in [Calls -> {"none", "pending", "reading", "writing",
                            "cancelled"}]
      /\ \A t \in Calls : kind[t] \in {"execute", "copy", "script", "listen",
                                       "listen none"}
  BY KindsAssumption, CallsAssumption
  DEF WaitInv, TypeInv, PyTypes, NoCall, Notify
<1>a. RunningInv' /\ TalkingInv' /\ UsedInv' /\ FoundInv' /\ kind' = kind
  BY TalkStep, UsedStep, FoundStep, OverStays DEF WaitInv, TalkInv
<1> USE DEF call, waits, command, Talking, Suspended, Terminal,
        Overtaken, SlotOwner
<1>1. ASSUME NEW t \in Calls, Enter(t) PROVE WaitInv'
  <2>3. WaitingInv'
    BY <1>1, <1>0 DEF Enter, Move, TalkingInv, RunningInv, SubscribeInv,
       WaitingInv
  <2>4. SubscribeInv'
    BY <1>1, <1>0 DEF Enter, ListenRefuses, InUse, Move, pqVars, RunningInv,
       SubscribeInv
  <2>5. ListenInv'
    <3>1. CASE use = "listening"
      <4>1. running = NoCall
        BY <1>1 DEF Enter
      <4>2. running' = t => kind[t] \in {"execute", "copy"} /\ pc'[t] = "send"
        BY <1>1, <1>0, <3>1, <4>1
        DEF Enter, Move, ScriptRefuses, ListenRefuses, InUse
      <4>3. running' \in {NoCall, t}
        BY <1>1, <4>1 DEF Enter
      <4>q. QED
        BY <1>1, <1>0, <3>1, <4>2, <4>3 DEF Enter, pqVars, ListenInv
    <3>2. CASE use # "listening"
      BY <1>1, <3>2 DEF Enter, ListenInv
    <3>q. QED BY <3>1, <3>2
  <2>q. QED BY <1>a, <2>3, <2>4, <2>5 DEF WaitInv
<1>2. ASSUME NEW t \in Calls, SendQueryParams(t) PROVE WaitInv'
  <2>3. WaitingInv'
    BY <1>2, <1>0 DEF SendQueryParams, SendFails, SendAccepted,
       ExecuteRefuses, InUse, Move, pqVars, TalkingInv, RunningInv,
       SubscribeInv, WaitingInv
  <2>4. SubscribeInv'
    BY <1>2, <1>0 DEF SendQueryParams, SendFails, SendAccepted,
       ExecuteRefuses, InUse, Move, pqVars, RunningInv, TalkingInv,
       SubscribeInv
  <2>5. ListenInv'
    BY <1>2, <1>0 DEF SendQueryParams, SendFails, SendAccepted,
       ExecuteRefuses, InUse, Move, pqVars, TalkingInv, RunningInv,
       SubscribeInv, ListenInv
  <2>q. QED BY <1>a, <2>3, <2>4, <2>5 DEF WaitInv
<1>3. ASSUME NEW t \in Calls, SendQuery(t) PROVE WaitInv'
  <2>3. WaitingInv'
    BY <1>3, <1>0 DEF SendQuery, SendFails, SendAccepted, Move, pqVars,
       TalkingInv, RunningInv, SubscribeInv, WaitingInv
  <2>4. SubscribeInv'
    BY <1>3, <1>0 DEF SendQuery, SendFails, SendAccepted, Move, pqVars,
       RunningInv, TalkingInv, SubscribeInv
  <2>5. ListenInv'
    BY <1>3, <1>0 DEF SendQuery, SendFails, SendAccepted, Move, pqVars,
       TalkingInv, RunningInv, SubscribeInv, ListenInv
  <2>q. QED BY <1>a, <2>3, <2>4, <2>5 DEF WaitInv
<1>4. ASSUME NEW t \in Calls, Flush(t) PROVE WaitInv'
  <2>3. WaitingInv'
    <3>1. \A u \in Calls : fut[u] # "pending"
      BY <1>4, <1>0 DEF Flush, TalkingInv, WaitingInv
    <3>2. \/ /\ fut' = [fut EXCEPT ![t] = "pending"]
             /\ pc' = [pc EXCEPT ![t] = "flushing"]
             /\ reader' = t /\ writer' = t
          \/ UNCHANGED fut
      BY <1>4 DEF Flush, WaitFor, Move
    <3>q. QED BY <1>0, <3>1, <3>2 DEF WaitingInv
  <2>4. SubscribeInv'
    BY <1>4, <1>0 DEF Flush, WaitFor, Move, RunningInv, TalkingInv,
       SubscribeInv
  <2>5. ListenInv'
    BY <1>4, <1>0 DEF Flush, WaitFor, Move, TalkingInv, RunningInv,
       SubscribeInv, ListenInv
  <2>q. QED BY <1>a, <2>3, <2>4, <2>5 DEF WaitInv
<1>5. ASSUME NEW t \in Calls, FlushFails(t) PROVE WaitInv'
  <2>3. WaitingInv'
    BY <1>5, <1>0 DEF FlushFails, Raise, Move, pqVars, TalkingInv,
       RunningInv, SubscribeInv, WaitingInv
  <2>4. SubscribeInv'
    BY <1>5, <1>0 DEF FlushFails, Raise, Move, pqVars, RunningInv,
       TalkingInv, SubscribeInv
  <2>5. ListenInv'
    BY <1>5, <1>0 DEF FlushFails, Raise, Move, pqVars, TalkingInv,
       RunningInv, SubscribeInv, ListenInv
  <2>q. QED BY <1>a, <2>3, <2>4, <2>5 DEF WaitInv
<1>6. ASSUME NEW t \in Calls, ReadFails(t) PROVE WaitInv'
  <2>3. WaitingInv'
    BY <1>6, <1>0 DEF ReadFails, ReadLoop, Raise, Move, TalkingInv,
       RunningInv, SubscribeInv, WaitingInv
  <2>4. SubscribeInv'
    BY <1>6, <1>0 DEF ReadFails, ReadLoop, Raise, Move, RunningInv,
       TalkingInv, SubscribeInv
  <2>5. ListenInv'
    BY <1>6, <1>0 DEF ReadFails, ReadLoop, Raise, Move, TalkingInv,
       RunningInv, SubscribeInv, ListenInv
  <2>q. QED BY <1>a, <2>3, <2>4, <2>5 DEF WaitInv
<1>7. ASSUME NEW t \in Calls, ReadWaits(t) PROVE WaitInv'
  <2>3. WaitingInv'
    BY <1>7, <1>0 DEF ReadWaits, ReadLoop, WaitFor, Move, TalkingInv,
       RunningInv, SubscribeInv, WaitingInv
  <2>4. SubscribeInv'
    BY <1>7, <1>0 DEF ReadWaits, ReadLoop, WaitFor, Move, RunningInv,
       TalkingInv, SubscribeInv
  <2>5. ListenInv'
    BY <1>7, <1>0 DEF ReadWaits, ReadLoop, WaitFor, Move, TalkingInv,
       RunningInv, SubscribeInv, ListenInv
  <2>q. QED BY <1>a, <2>3, <2>4, <2>5 DEF WaitInv
<1>8. ASSUME NEW t \in Calls, ReadResult(t) PROVE WaitInv'
  <2>3. WaitingInv'
    BY <1>8, <1>0 DEF ReadResult, ReadLoop, AfterResult, TalkingInv,
       RunningInv, SubscribeInv, WaitingInv
  <2>4. SubscribeInv'
    BY <1>8, <1>0 DEF ReadResult, ReadLoop, AfterResult, RunningInv,
       TalkingInv, SubscribeInv
  <2>5. ListenInv'
    BY <1>8, <1>0 DEF ReadResult, ReadLoop, AfterResult, TalkingInv,
       RunningInv, SubscribeInv, ListenInv
  <2>q. QED BY <1>a, <2>3, <2>4, <2>5 DEF WaitInv
<1>9. ASSUME NEW t \in Calls, ReadError(t) PROVE WaitInv'
  <2>3. WaitingInv'
    BY <1>9, <1>0 DEF ReadError, ReadLoop, Raise, Move, TalkingInv,
       RunningInv, SubscribeInv, WaitingInv
  <2>4. SubscribeInv'
    BY <1>9, <1>0 DEF ReadError, ReadLoop, Raise, Move, RunningInv,
       TalkingInv, SubscribeInv
  <2>5. ListenInv'
    BY <1>9, <1>0 DEF ReadError, ReadLoop, Raise, Move, TalkingInv,
       RunningInv, SubscribeInv, ListenInv
  <2>q. QED BY <1>a, <2>3, <2>4, <2>5 DEF WaitInv
<1>10. ASSUME NEW t \in Calls, ReadEnds(t) PROVE WaitInv'
  <2>3. WaitingInv'
    BY <1>10, <1>0 DEF ReadEnds, ReadLoop, UseAfter, Move, TalkingInv,
       RunningInv, SubscribeInv, WaitingInv
  <2>4. SubscribeInv'
    BY <1>10, <1>0 DEF ReadEnds, ReadLoop, UseAfter, Move, RunningInv,
       TalkingInv, SubscribeInv
  <2>5. ListenInv'
    BY <1>10, <1>0 DEF ReadEnds, ReadLoop, UseAfter, Move, TalkingInv,
       RunningInv, SubscribeInv, ListenInv
  <2>q. QED BY <1>a, <2>3, <2>4, <2>5 DEF WaitInv
<1>11. ASSUME NEW t \in Calls, Subscribe(t) PROVE WaitInv'
  <2>3. WaitingInv'
    BY <1>11, <1>0 DEF Subscribe, FirstLook, Move, TalkingInv, RunningInv,
       SubscribeInv, WaitingInv
  <2>4. SubscribeInv'
    BY <1>11, <1>0 DEF Subscribe, FirstLook, Move, RunningInv, TalkingInv,
       SubscribeInv
  <2>5. ListenInv'
    BY <1>11, <1>0 DEF Subscribe, FirstLook, Move, TalkingInv, RunningInv,
       SubscribeInv, ListenInv
  <2>q. QED BY <1>a, <2>3, <2>4, <2>5 DEF WaitInv
<1>12. ASSUME NEW t \in Calls, WakeRead(t) PROVE WaitInv'
  <2>3. WaitingInv'
    BY <1>12, <1>0 DEF WakeRead, Woken, Unregister, FlagsOf, Move, pqVars,
       TalkingInv, RunningInv, SubscribeInv, WaitingInv
  <2>4. SubscribeInv'
    BY <1>12, <1>0 DEF WakeRead, Woken, Unregister, FlagsOf, Move, pqVars,
       RunningInv, TalkingInv, SubscribeInv
  <2>5. ListenInv'
    <3>1. use = "listening" => found = t
      BY <1>12, <1>0 DEF WakeRead, TalkingInv, ListenInv
    <3>q. QED
      BY <1>12, <1>0, <3>1 DEF WakeRead, Woken, Unregister, Move, pqVars,
         ListenInv
  <2>q. QED BY <1>a, <2>3, <2>4, <2>5 DEF WaitInv
<1>13. ASSUME NEW t \in Calls, WakeFlush(t) PROVE WaitInv'
  <2>3. WaitingInv'
    <3>1. \A u \in Calls : fut[u] # "pending"
      BY <1>13, <1>0 DEF WakeFlush, Woken, TalkingInv, WaitingInv
    <3>q. QED BY <1>13, <1>0, <3>1 DEF WakeFlush, Woken, WaitingInv
  <2>4. SubscribeInv'
    BY <1>13, <1>0 DEF WakeFlush, Woken, Unregister, FlagsOf, Move,
       RunningInv, TalkingInv, SubscribeInv
  <2>5. ListenInv'
    <3>1. use = "listening" => found = t
      BY <1>13, <1>0 DEF WakeFlush, TalkingInv, ListenInv
    <3>2. /\ UNCHANGED <<use, found, async, cmd>>
          /\ reader' = NoCall /\ running' \in {t, NoCall}
          /\ running' = t => pc'[t] = "flush"
      BY <1>13, <1>0 DEF WakeFlush, Woken, Unregister, Move
    <3>q. QED BY <1>0, <3>1, <3>2 DEF ListenInv
  <2>q. QED BY <1>a, <2>3, <2>4, <2>5 DEF WaitInv
<1>14. ASSUME NEW t \in Calls, WakeCancelled(t) PROVE WaitInv'
  <2>3. WaitingInv'
    BY <1>14, <1>0 DEF WakeCancelled, Move, pqVars, TalkingInv, RunningInv,
       SubscribeInv, WaitingInv
  <2>4. SubscribeInv'
    BY <1>14, <1>0 DEF WakeCancelled, Move, pqVars, RunningInv, TalkingInv,
       SubscribeInv
  <2>5. ListenInv'
    BY <1>14, <1>0 DEF WakeCancelled, Move, pqVars, TalkingInv, RunningInv,
       SubscribeInv, ListenInv
  <2>q. QED BY <1>a, <2>3, <2>4, <2>5 DEF WaitInv
<1>15. ASSUME NEW t \in Calls, Cancel(t) PROVE WaitInv'
  <2>3. WaitingInv'
    BY <1>15, <1>0 DEF Cancel, pqVars, TalkingInv, RunningInv, SubscribeInv,
       WaitingInv
  <2>4. SubscribeInv'
    BY <1>15, <1>0 DEF Cancel, pqVars, RunningInv, TalkingInv, SubscribeInv
  <2>5. ListenInv'
    BY <1>15, <1>0 DEF Cancel, pqVars, TalkingInv, RunningInv, SubscribeInv,
       ListenInv
  <2>q. QED BY <1>a, <2>3, <2>4, <2>5 DEF WaitInv
<1>16. CASE PollCall
  <2>3. WaitingInv'
    BY <1>16, <1>0 DEF PollCall, pqVars, TalkingInv, RunningInv,
       SubscribeInv, WaitingInv
  <2>4. SubscribeInv'
    BY <1>16, <1>0 DEF PollCall, pqVars, RunningInv, TalkingInv, SubscribeInv
  <2>5. ListenInv'
    BY <1>16, <1>0 DEF PollCall, pqVars, TalkingInv, RunningInv,
       SubscribeInv, ListenInv
  <2>q. QED BY <1>a, <2>3, <2>4, <2>5 DEF WaitInv
<1>17. CASE PollNotify
  <2>3. WaitingInv'
    BY <1>17, <1>0 DEF PollNotify, TalkingInv, RunningInv, SubscribeInv,
       WaitingInv
  <2>4. SubscribeInv'
    BY <1>17, <1>0 DEF PollNotify, RunningInv, TalkingInv, SubscribeInv
  <2>5. ListenInv'
    BY <1>17, <1>0 DEF PollNotify, TalkingInv, RunningInv, SubscribeInv,
       ListenInv
  <2>q. QED BY <1>a, <2>3, <2>4, <2>5 DEF WaitInv
<1>18. ASSUME \/ \E t \in Calls : ReadCopy(t)
             \/ ServerReads \/ ServerCopies \/ ServerReady \/ Fragment
             \/ ServerNotifies \/ Lose \/ UNCHANGED vars
             \/ \E what \in {"ok", "err"} : ServerResult(what)
      PROVE  WaitInv'
  <2>1. UNCHANGED waitVars
    BY <1>18 DEF ReadCopy, ServerReads, ServerCopies, ServerReady, Fragment,
       ServerNotifies, Lose, ServerResult, vars, pyVars, pqVars, waitVars
  <2>q. QED BY <2>1, WaitSame
<1>q. QED
  BY <1>1, <1>2, <1>3, <1>4, <1>5, <1>6, <1>7, <1>8, <1>9, <1>10, <1>11,
     <1>12, <1>13, <1>14, <1>15, <1>16, <1>17, <1>18 DEF Next, Step, Wake,
     Server, Terminating

(* A suspended call is never forgotten: what it waits for is registered,   *)
(* unless a listen() without channels took the reader of a script().       *)
THEOREM NoLostWakeup == Spec => []WaiterRegistered
<1>1. WaitInv => WaiterRegistered
  BY DEF WaitInv, WaitingInv, FoundInv, WaiterRegistered
<1>q. QED BY TypeInit, WaitInit, TypeStep, WaitStep, <1>1, PTL DEF Spec

(* Two calls never have a command in progress at once.                     *)
THEOREM CommandsExclude == Spec => []OneCommand
<1>1. TalkInv => OneCommand
  BY DEF TalkInv, TalkingInv, OneCommand
<1>q. QED BY TypeInit, TalkInit, TypeStep, TalkStep, <1>1, PTL DEF Spec

(* A listening connection executes nothing but what listen() found.        *)
THEOREM ListeningExcludes == Spec => []ListenExclusive
<1>1. TypeInv /\ WaitInv => ListenExclusive
  BY CallsAssumption
  DEF WaitInv, TalkingInv, ListenInv, SlotOwner, ListenExclusive
<1>q. QED BY TypeInit, WaitInit, TypeStep, WaitStep, <1>1, PTL DEF Spec

(* While the connection listens a call that sends is refused, and one that *)
(* talks is the script that listen() found.                                *)
LEMMA ListenSteps ==
    ASSUME TypeInv, WaitInv, use = "listening", NEW t \in Calls
    PROVE  /\ running = t => pc[t] # "subscribe"
           /\ running = t /\ pc[t] = "send" => kind[t] # "script"
           /\ pc[t] \in Talking => t = found /\ kind[t] = "script"
           /\ running = t /\ pc[t] \in {"flush", "read"} => reader # Notify
BY CallsAssumption
DEF WaitInv, TalkingInv, SubscribeInv, FoundInv, ListenInv, SlotOwner, Talking

(* Nothing a caller or the network does ends listening: self.use stays,    *)
(* and only the call listen() found takes the handler off.                 *)
THEOREM ListeningLasts == Spec => KeepsListening
<1>1. ASSUME TypeInv, WaitInv, [Next]_vars, use = "listening"
      PROVE  /\ use' = "listening"
             /\ reader = Notify =>
                    \/ reader' = Notify
                    \/ \E t \in Calls : found = t /\ pc[t] \in Suspended
                                        /\ pc'[t] # pc[t]
  <2> DEFINE Kept == use' = use /\ reader' = reader
  <2> USE DEF call, waits
  <2>0. InUse /\ pc \in [Calls -> Locations]
    BY <1>1 DEF InUse, TypeInv, PyTypes
  <2>1. ASSUME NEW t \in Calls, Enter(t) PROVE Kept
    BY <2>1 DEF Enter
  <2>2. ASSUME NEW t \in Calls, Step(t)
        PROVE  use' = use /\ (reader = Notify => reader' = reader)
    <3>1. CASE SendQueryParams(t) \/ SendQuery(t) \/ Subscribe(t)
      BY <3>1, <2>0, <1>1, ListenSteps
      DEF SendQueryParams, SendQuery, ExecuteRefuses, Subscribe
    <3>2. CASE Flush(t) \/ FlushFails(t)
      BY <3>2, <1>1, ListenSteps DEF Flush, FlushFails, WaitFor, Raise
    <3>3. CASE \/ ReadFails(t) \/ ReadWaits(t) \/ ReadResult(t)
               \/ ReadError(t) \/ ReadCopy(t)
      BY <3>3, <1>1, ListenSteps DEF ReadLoop, ReadFails, ReadWaits, WaitFor,
         ReadResult, AfterResult, ReadError, Raise, ReadCopy, pyVars
    <3>4. CASE ReadEnds(t)
      <4>1. kind[t] = "script"
        BY <3>4, <1>1, ListenSteps DEF ReadEnds, ReadLoop, Talking
      <4> QED
        BY <3>4, <4>1 DEF ReadEnds, UseAfter
    <3> QED
      BY <2>2, <3>1, <3>2, <3>3, <3>4 DEF Step
  <2>3. ASSUME NEW t \in Calls, WakeRead(t) \/ WakeFlush(t)
        PROVE  use' = use /\ found = t /\ pc[t] \in Suspended /\ pc'[t] # pc[t]
    <3>1. use' = use /\ pc[t] \in Suspended /\ pc'[t] # pc[t]
      BY <2>3, <2>0 DEF WakeRead, WakeFlush, Move, Suspended
    <3> QED
      BY <3>1, <1>1, ListenSteps DEF Talking
  <2>4. ASSUME NEW t \in Calls, WakeCancelled(t) \/ Cancel(t) PROVE Kept
    BY <2>4 DEF WakeCancelled, Cancel
  <2>5. ASSUME \/ PollCall \/ PollNotify \/ Server \/ Fragment
               \/ ServerNotifies \/ Lose \/ UNCHANGED vars
        PROVE  Kept
    BY <2>5 DEF PollCall, PollNotify, Server, ServerReads, ServerResult,
       ServerCopies, ServerReady, Fragment, ServerNotifies, Lose, vars, pyVars
  <2> QED
    BY <1>1, <2>1, <2>2, <2>3, <2>4, <2>5 DEF Next, Wake, Terminating
<1>q. QED
  BY TypeInit, WaitInit, TypeStep, WaitStep, <1>1, PTL DEF Spec, KeepsListening

---------------------------------------------------------------------------
(***************************************************************************)
(* The command slot: whose the replies are, and how many are left          *)
(***************************************************************************)

(* How a call may end that leaves its command in libpq.                    *)
Left == {"failed", "cancelled"}

(* The backend has executed the whole command and said so.                 *)
Served == out = 0 /\ wire = 0 /\ srv = "idle"
Last   == IF Served THEN 1 ELSE 0

(* The command in progress is that of a call that talks, or of one that    *)
(* ended before it had read everything.                                    *)
OwnerInv ==
    \A t \in Calls : async = "busy" /\ cmd = t => pc[t] \in Talking \cup Left

(* Without a command there is nothing under way, and nothing is executed   *)
(* before it has been sent to the end.                                     *)
IdleInv    == async = "idle" => Buffered = <<>> /\ Served
SendingInv == out > 0 \/ wire > 0 => srv = "idle"

(* The replies under way are those of the command; the end is the last.    *)
RepliesInv ==
    \A i \in 1..Len(Buffered) :
        /\ Buffered[i].to = cmd
        /\ Buffered[i].kind = "rfq" => i = Len(Buffered) /\ Served

(* What a call has collected and what is under way, but for the end of the *)
(* command, are all the results it was given.                              *)
CountInv ==
    \A t \in Calls : pc[t] \in Talking =>
        /\ got[t] + Len(Buffered) = produced[t] + Last
        /\ Served => /\ Buffered # <<>>
                     /\ Buffered[Len(Buffered)].kind = "rfq"
SettledInv ==
    \A t \in Calls : pc[t] \notin Talking \cup Left => got[t] = produced[t]

(* A command that is over had a result, and so has a call that is over;    *)
(* a listen() without channels has no command.                             *)
AnsweredInv ==
    srv = "ready" \/ (async = "busy" /\ Served) => produced[cmd] > 0
CollectedInv ==
    \A t \in Calls :
        IF kind[t] = "listen none"
        THEN got[t] = 0 /\ pc[t] \in {"start", "subscribe"} \cup Terminal
        ELSE pc[t] \in {"subscribe", "done"} => got[t] > 0

SlotInv == /\ OwnerInv /\ IdleInv /\ SendingInv /\ RepliesInv
           /\ CountInv /\ SettledInv /\ AnsweredInv /\ CollectedInv

(* What a step makes of the replies under way.                             *)
LEMMA Replies ==
    ASSUME PqTypes, BackTypes
    PROVE  /\ Buffered \in Seq(Reply)
           /\ ConsumeInput \/ OnNotify \/ UNCHANGED <<inbuf, net>>
                => Buffered' = Buffered
           /\ Buffered # <<>> /\ TakeReply => Buffered' = Tail(Buffered)
           /\ \A r \in Reply : net' = Append(net, r) /\ inbuf' = inbuf
                => Buffered' = Append(Buffered, r)
<1>0. inbuf \in Seq(Reply) /\ net \in Seq(Reply)
  BY DEF PqTypes, BackTypes
<1>1. Buffered \in Seq(Reply)
  BY <1>0 DEF Buffered
<1> DEFINE both == inbuf \o net
<1>2. both \in Seq(Reply) /\ both \o <<>> = both
      /\ (both # <<>> => Tail(both) \o <<>> = Tail(both))
  BY <1>0
<1>3. ConsumeInput \/ OnNotify \/ UNCHANGED <<inbuf, net>> => Buffered' = Buffered
  BY <1>2 DEF ConsumeInput, OnNotify, Drain, Buffered, sock
<1>4. Buffered # <<>> /\ TakeReply => Buffered' = Tail(Buffered)
  BY <1>2 DEF TakeReply, Drain, Buffered
<1>5. ASSUME NEW r \in Reply, net' = Append(net, r), inbuf' = inbuf
      PROVE  Buffered' = Append(Buffered, r)
  <2>1. inbuf \o Append(net, r) = Append(inbuf \o net, r)
    BY <1>0
  <2> QED
    BY <1>5, <2>1 DEF Buffered
<1> QED
  BY <1>1, <1>3, <1>4, <1>5

---------------------------------------------------------------------------
(* Steps that change neither the command nor its replies, and the one call *)
(* they may move.                                                          *)
QuietMove(t) ==
    \/ pc'[t] = pc[t]
    \/ pc[t] \in Talking /\ pc'[t] \in Talking \cup Left
    \/ pc[t] \in {"start", "send"} /\ pc'[t] \in {"refused", "failed"}
    \/ pc[t] = "start" /\ kind[t] # "listen none" /\ pc'[t] = "send"
    \/ pc[t] = "start" /\ kind[t] = "listen none" /\ pc'[t] = "subscribe"
    \/ pc[t] = "subscribe" /\ pc'[t] \in {"failed", "done"}
Only(t) == pc' = [pc EXCEPT ![t] = pc'[t]]
Same ==
    /\ UNCHANGED <<async, cmd, out, wire, srv, produced, got, kind>>
    /\ Buffered' = Buffered
QuietStep(t) == Same /\ Only(t) /\ QuietMove(t)

(* A command is given to libpq.                                            *)
Takes(t) ==
    /\ pc[t] = "send" /\ pc' = [pc EXCEPT ![t] = "flush"]
    /\ async = "idle" /\ async' = "busy" /\ cmd' = t /\ out' \in 1..MaxChunks
    /\ UNCHANGED <<wire, srv, produced, got, kind>>
    /\ Buffered' = Buffered

(* What the step of a call is to the command.                              *)
LEMMA CallSteps ==
    ASSUME TypeInv, NEW t \in Calls, Enter(t) \/ Step(t) \/ Wake(t) \/ Cancel(t)
    PROVE  \/ QuietStep(t) \/ Takes(t) \/ Flush(t)
           \/ ReadResult(t) \/ ReadError(t) \/ ReadEnds(t)
<1>0. PqTypes /\ BackTypes /\ pc \in [Calls -> Locations]
  BY DEF TypeInv, PyTypes
<1>a. ConsumeInput \/ OnNotify \/ UNCHANGED <<inbuf, net>> => Buffered' = Buffered
  BY <1>0, Replies
<1>b. \A x : pc' = [pc EXCEPT ![t] = x] => Only(t) /\ pc'[t] = x
  BY <1>0 DEF Only
<1>c. UNCHANGED pc => Only(t) /\ pc'[t] = pc[t]
  BY <1>0 DEF Only
<1> USE DEF call, waits, command, pqVars, srvVars, sock, back, Move, Same,
        QuietStep, QuietMove, Talking, Suspended, Left
<1>1. CASE Enter(t)
  BY <1>1, <1>a, <1>b DEF Enter
<1>2. CASE SendQueryParams(t)
  BY <1>2, <1>a, <1>b DEF SendQueryParams, SendAccepted, SendFails, Takes
<1>3. CASE SendQuery(t)
  BY <1>3, <1>a, <1>b DEF SendQuery, SendAccepted, SendFails, Takes
<1>4. CASE FlushFails(t)
  BY <1>4, <1>a, <1>b DEF FlushFails, Raise
<1>5. CASE ReadFails(t)
  BY <1>5, <1>a, <1>b DEF ReadFails, ReadLoop, ConsumeFails, Raise
<1>6. CASE ReadWaits(t)
  BY <1>6, <1>a, <1>b DEF ReadWaits, ReadLoop, WaitFor
<1>7. CASE ReadCopy(t)
  BY <1>7, <1>a, <1>c DEF ReadCopy, pyVars
<1>8. CASE Subscribe(t)
  BY <1>8, <1>a, <1>b DEF Subscribe, FirstLook
<1>9. CASE WakeRead(t)
  BY <1>9, <1>a, <1>b DEF WakeRead
<1>10. CASE WakeFlush(t)
  BY <1>10, <1>a, <1>b DEF WakeFlush, ConsumeFails
<1>11. CASE WakeCancelled(t)
  BY <1>11, <1>a, <1>b DEF WakeCancelled
<1>12. CASE Cancel(t)
  BY <1>12, <1>a, <1>c DEF Cancel
<1> QED
  BY <1>1, <1>2, <1>3, <1>4, <1>5, <1>6, <1>7, <1>8, <1>9, <1>10, <1>11,
     <1>12 DEF Step, Wake

(* Other steps that are nothing to it.                                     *)
LEMMA OtherSteps ==
    ASSUME TypeInv,
           \/ PollCall \/ PollNotify \/ Fragment \/ ServerNotifies \/ Lose
           \/ UNCHANGED vars
    PROVE  Same /\ UNCHANGED pc
<1>1. PqTypes /\ BackTypes
  BY DEF TypeInv
<1>2. ConsumeInput \/ OnNotify \/ UNCHANGED <<inbuf, net>> => Buffered' = Buffered
  BY <1>1, Replies
<1> QED
  BY <1>2 DEF PollCall, PollNotify, Fragment, ServerNotifies, Lose, vars, pyVars,
     call, waits, command, pqVars, srvVars, sock, back, Same

---------------------------------------------------------------------------
(* Both invariants of the calls, and what the types give.                  *)
LEMMA SlotTypes ==
    ASSUME TypeInv
    PROVE  /\ Buffered \in Seq(Reply) /\ Len(Buffered) \in Nat
           /\ got \in [Calls -> Nat] /\ produced \in [Calls -> Nat]
           /\ pc \in [Calls -> Locations]
           /\ out \in Nat /\ wire \in Nat
<1>1. Buffered \in Seq(Reply)
  BY Replies DEF TypeInv
<1>2. out \in Nat /\ wire \in Nat
  BY BoundsAssumption DEF TypeInv, PqTypes, BackTypes
<1>3. Len(Buffered) \in Nat
  BY <1>1
<1>4. got \in [Calls -> Nat] /\ pc \in [Calls -> Locations]
  BY DEF TypeInv, PyTypes
<1>5. produced \in [Calls -> Nat]
  BY DEF TypeInv, BackTypes
<1> QED
  BY <1>1, <1>2, <1>3, <1>4, <1>5

(* Steps that are nothing to the command keep the invariant.               *)
LEMMA SameKeeps ==
    ASSUME TypeInv, SlotInv, Same,
           UNCHANGED pc \/ \E t \in Calls : Only(t) /\ QuietMove(t)
    PROVE  SlotInv'
<1>0. \A u \in Calls : QuietMove(u)
  BY SlotTypes DEF Only, QuietMove
<1>1. Served' = Served /\ Last' = Last
  BY DEF Same, Served, Last
<1> USE DEF Same, QuietMove
<1>2. OwnerInv'
  BY <1>0 DEF SlotInv, OwnerInv, Talking, Suspended, Left
<1>3. IdleInv' /\ SendingInv' /\ RepliesInv' /\ AnsweredInv'
  BY <1>1 DEF SlotInv, IdleInv, SendingInv, RepliesInv, AnsweredInv
<1>4. CountInv'
  BY <1>0, <1>1 DEF SlotInv, CountInv, Talking, Suspended, Left
<1>5. SettledInv'
  BY <1>0 DEF SlotInv, SettledInv, Talking, Suspended, Left
<1>6. CollectedInv'
  BY <1>0 DEF SlotInv, CollectedInv, Terminal, Talking, Suspended, Left
<1> QED
  BY <1>2, <1>3, <1>4, <1>5, <1>6 DEF SlotInv

(* A command begins with nothing under way.                                *)
LEMMA TakesKeeps ==
    ASSUME TypeInv, TalkInv, SlotInv, NEW t \in Calls, Takes(t)
    PROVE  SlotInv'
<1>0. pc \in [Calls -> Locations] /\ out' # 0 /\ out' > 0
  BY SlotTypes, BoundsAssumption DEF Takes
<1>1. /\ Buffered = <<>> /\ Served /\ Buffered' = <<>> /\ ~Served' /\ Last' = 0
      /\ srv' = "idle" /\ got[t] = produced[t]
      /\ \A u \in Calls : pc[u] \notin Talking
  BY <1>0 DEF Takes, SlotInv, IdleInv, SettledInv, Served, Last, Talking, Suspended,
     Left, TalkInv, TalkingInv
<1>2. OwnerInv'
  BY <1>0 DEF Takes, OwnerInv, Talking
<1>3. IdleInv' /\ SendingInv' /\ AnsweredInv'
  BY <1>1 DEF Takes, IdleInv, SendingInv, AnsweredInv
<1>4. RepliesInv'
  BY <1>1 DEF RepliesInv
<1>5. CountInv'
  BY <1>0, <1>1, SlotTypes DEF Takes, CountInv, Talking, Suspended
<1>6. SettledInv'
  BY <1>0, <1>1 DEF Takes, SlotInv, SettledInv, Talking, Suspended, Left
<1>7. CollectedInv'
  BY <1>0, <1>1 DEF Takes, SlotInv, CollectedInv, Terminal
<1> QED
  BY <1>2, <1>3, <1>4, <1>5, <1>6, <1>7 DEF SlotInv

(* What PQflush writes goes from libpq to the socket.                      *)
LEMMA FlushKeeps ==
    ASSUME TypeInv, TalkInv, SlotInv, NEW t \in Calls, Flush(t)
    PROVE  SlotInv'
<1>0. pc \in [Calls -> Locations] /\ out \in Nat /\ wire \in Nat
  BY SlotTypes
<1>1. FlushSize \in Nat /\ FlushSize <= out
  BY <1>0, BoundsAssumption DEF TypeInv, BackTypes, PqTypes, FlushSize
<1>2. out' = out - FlushSize /\ wire' = wire + FlushSize
  BY DEF Flush
<1>3. (out' = 0 /\ wire' = 0) <=> (out = 0 /\ wire = 0)
  BY <1>0, <1>1, <1>2
<1>4. (out' > 0 \/ wire' > 0) => (out > 0 \/ wire > 0)
  BY <1>0, <1>1, <1>2
<1>5. /\ UNCHANGED <<async, cmd, srv, produced, got, kind, inbuf, net>>
      /\ pc[t] = "flush"
      /\ pc' = [pc EXCEPT ![t] = "flushing"] \/ pc' = [pc EXCEPT ![t] = "read"]
  BY DEF Flush, call, sock, WaitFor, Move
<1>6. Served' = Served /\ Last' = Last
  BY <1>3, <1>5 DEF Served, Last
<1>7. Buffered' = Buffered
  BY <1>5, Replies DEF TypeInv
<1>8. \A u \in Calls : \/ pc'[u] = pc[u]
                       \/ pc[u] \in Talking /\ pc'[u] \in Talking
  BY <1>0, <1>5 DEF Talking, Suspended
<1>9. OwnerInv'
  BY <1>5, <1>8 DEF SlotInv, OwnerInv
<1>10. IdleInv' /\ RepliesInv' /\ AnsweredInv'
  BY <1>5, <1>6, <1>7 DEF SlotInv, IdleInv, RepliesInv, AnsweredInv
<1>11. SendingInv'
  BY <1>4, <1>5 DEF SlotInv, SendingInv
<1>12. CountInv'
  BY <1>5, <1>6, <1>7, <1>8 DEF SlotInv, CountInv
<1>13. SettledInv'
  BY <1>5, <1>8 DEF SlotInv, SettledInv
<1>14. CollectedInv'
  BY <1>5, <1>8 DEF SlotInv, CollectedInv, Terminal, Talking, Suspended
<1> QED
  BY <1>9, <1>10, <1>11, <1>12, <1>13, <1>14 DEF SlotInv

---------------------------------------------------------------------------
(* The backend reads what is sent; with the last of it it has a command.   *)
LEMMA ReadsKeeps ==
    ASSUME TypeInv, TalkInv, SlotInv, ServerReads
    PROVE  SlotInv'
<1>0. wire \in Nat /\ out \in Nat
  BY SlotTypes
<1>1. /\ wire > 0 /\ wire' = wire - 1
      /\ srv' = IF wire = 1 /\ out = 0 THEN "exec" ELSE srv
      /\ UNCHANGED <<pc, kind, got, async, cmd, out, inbuf, net, produced>>
  BY DEF ServerReads, pyVars, call, pqVars, command, sock
<1>2. srv = "idle" /\ ~Served /\ ~Served' /\ Last' = Last
  BY <1>0, <1>1 DEF SlotInv, SendingInv, Served, Last
<1>3. Buffered' = Buffered
  BY <1>1, Replies DEF TypeInv
<1>4. OwnerInv' /\ SettledInv' /\ CollectedInv'
  BY <1>1 DEF SlotInv, OwnerInv, SettledInv, CollectedInv, Terminal
<1>5. IdleInv' /\ RepliesInv' /\ CountInv'
  BY <1>1, <1>2, <1>3 DEF SlotInv, IdleInv, RepliesInv, CountInv
<1>6. SendingInv'
  BY <1>0, <1>1, <1>2 DEF SendingInv
<1>7. AnsweredInv'
  BY <1>1, <1>2 DEF AnsweredInv
<1> QED
  BY <1>4, <1>5, <1>6, <1>7 DEF SlotInv

(* What a backend at work knows of the command.                            *)
LEMMA AtWork ==
    ASSUME TypeInv, SlotInv, srv # "idle"
    PROVE  /\ cmd \in Calls /\ async = "busy" /\ ~Served
           /\ out = 0 /\ wire = 0
           /\ pc[cmd] \in Talking \cup Left
           /\ \A i \in 1..Len(Buffered) : Buffered[i].kind # "rfq"
<1>1. cmd \in Calls /\ async \in {"idle", "busy"}
  BY DEF TypeInv, CommandKnown, PqTypes
<1>2. ~Served
  BY DEF Served
<1>3. async = "busy"
  BY <1>1, <1>2 DEF SlotInv, IdleInv
<1>4. out = 0 /\ wire = 0
  BY SlotTypes DEF SlotInv, SendingInv
<1>5. pc[cmd] \in Talking \cup Left
  BY <1>1, <1>3 DEF SlotInv, OwnerInv
<1>6. \A i \in 1..Len(Buffered) : Buffered[i].kind # "rfq"
  BY <1>2 DEF SlotInv, RepliesInv
<1> QED
  BY <1>1, <1>2, <1>3, <1>4, <1>5, <1>6

(* One more at the end of the replies.                                     *)
LEMMA Appended ==
    ASSUME NEW b \in Seq(Reply), NEW r \in Reply
    PROVE  /\ Len(Append(b, r)) = Len(b) + 1 /\ Append(b, r) # <<>>
           /\ Append(b, r)[Len(b) + 1] = r
           /\ \A i \in 1..(Len(b) + 1) : i \in 1..Len(b) \/ i = Len(b) + 1
           /\ \A i \in 1..Len(b) : Append(b, r)[i] = b[i]
OBVIOUS

(* A result of the command.                                                *)
LEMMA ResultKeeps ==
    ASSUME TypeInv, TalkInv, SlotInv,
           ServerCopies \/ \E what \in {"ok", "err"} : ServerResult(what)
    PROVE  SlotInv'
<1>1. PICK r \in Reply :
        /\ r.to = cmd /\ r.kind # "rfq"
        /\ net' = Append(net, r) /\ inbuf' = inbuf
        /\ srv = "exec" /\ srv' \in {"exec", "ready", "copy"}
        /\ produced' = [produced EXCEPT ![cmd] = @ + 1]
        /\ UNCHANGED <<pc, kind, got, async, cmd, out, wire>>
  <2>1. srv = "exec" /\ cmd \in Calls
    BY AtWork DEF ServerCopies, ServerResult
  <2>2. \A k \in {"ok", "err", "copyin"} : [kind |-> k, to |-> cmd] \in Reply
    BY <2>1 DEF Reply
  <2>3. CASE ServerCopies
    BY <2>1, <2>2, <2>3 DEF ServerCopies, pyVars, call, pqVars, command
  <2>4. CASE \E what \in {"ok", "err"} : ServerResult(what)
    BY <2>1, <2>2, <2>4 DEF ServerResult, pyVars, call, pqVars, command
  <2> QED
    BY <2>3, <2>4
<1>2. /\ cmd \in Calls /\ async = "busy" /\ ~Served /\ out = 0 /\ wire = 0
      /\ pc[cmd] \in Talking \cup Left
      /\ \A i \in 1..Len(Buffered) : Buffered[i].kind # "rfq"
  BY <1>1, AtWork
<1>3. Buffered \in Seq(Reply) /\ Buffered' = Append(Buffered, r)
  BY <1>1, Replies DEF TypeInv
<1>4. ~Served' /\ Last = 0 /\ Last' = 0
  BY <1>1, <1>2 DEF Served, Last
<1>5. OwnerInv' /\ IdleInv' /\ SendingInv'
  BY <1>1, <1>2 DEF SlotInv, OwnerInv, IdleInv, SendingInv
<1>6. RepliesInv'
  BY <1>1, <1>2, <1>3, Appended DEF SlotInv, RepliesInv
<1>7. produced'[cmd] = produced[cmd] + 1 /\ produced[cmd] \in Nat
      /\ \A u \in Calls : u # cmd => produced'[u] = produced[u]
  BY <1>1, <1>2, SlotTypes
<1>8. CountInv'
  <2> SUFFICES ASSUME NEW u \in Calls, pc[u] \in Talking
               PROVE  got[u] + Len(Buffered)' = produced'[u] + 0
    BY <1>1, <1>4 DEF CountInv
  <2>1. u = cmd
    BY DEF TalkInv, TalkingInv
  <2>2. got[u] + Len(Buffered) = produced[u] /\ got[u] \in Nat
        /\ Len(Buffered) \in Nat
    BY <1>4, <1>7, <2>1, SlotTypes DEF SlotInv, CountInv
  <2>3. Len(Buffered)' = Len(Buffered) + 1
    BY <1>3, Appended
  <2> QED
    BY <1>7, <2>1, <2>2, <2>3
<1>9. SettledInv'
  BY <1>1, <1>2, <1>7 DEF SlotInv, SettledInv
<1>10. AnsweredInv'
  BY <1>1, <1>7 DEF AnsweredInv
<1>11. CollectedInv'
  BY <1>1 DEF SlotInv, CollectedInv, Terminal
<1> QED
  BY <1>5, <1>6, <1>8, <1>9, <1>10, <1>11 DEF SlotInv

(* The end of the command.                                                 *)
LEMMA ReadyKeeps ==
    ASSUME TypeInv, TalkInv, SlotInv, ServerReady
    PROVE  SlotInv'
<1> DEFINE r == [kind |-> "rfq", to |-> cmd]
<1>1. /\ srv = "ready" /\ srv' = "idle" /\ net' = Append(net, r)
      /\ UNCHANGED <<pc, kind, got, async, cmd, out, wire, inbuf, produced>>
  BY DEF ServerReady, pyVars, call, pqVars, command
<1>2. /\ cmd \in Calls /\ async = "busy" /\ ~Served /\ out = 0 /\ wire = 0
      /\ \A i \in 1..Len(Buffered) : Buffered[i].kind # "rfq"
  BY <1>1, AtWork
<1>3. r \in Reply /\ r.to = cmd /\ r.kind = "rfq"
  BY <1>2 DEF Reply
<1> HIDE DEF r
<1>4. Buffered \in Seq(Reply) /\ Buffered' = Append(Buffered, r)
  BY <1>1, <1>3, Replies DEF TypeInv
<1>5. Served' /\ Last = 0 /\ Last' = 1
  BY <1>1, <1>2 DEF Served, Last
<1>6. OwnerInv' /\ IdleInv' /\ SendingInv'
  BY <1>1, <1>2 DEF SlotInv, OwnerInv, IdleInv, SendingInv
<1>7. RepliesInv'
  BY <1>1, <1>2, <1>3, <1>4, <1>5, Appended DEF SlotInv, RepliesInv
<1>8. CountInv'
  <2> SUFFICES ASSUME NEW u \in Calls, pc[u] \in Talking
               PROVE  /\ got[u] + Len(Buffered)' = produced[u] + 1
                      /\ Buffered' # <<>>
                      /\ Buffered'[Len(Buffered)'].kind = "rfq"
    BY <1>1, <1>5 DEF CountInv
  <2>1. /\ got[u] + Len(Buffered) = produced[u] + 0
        /\ got[u] \in Nat /\ produced[u] \in Nat /\ Len(Buffered) \in Nat
    BY <1>5, SlotTypes DEF SlotInv, CountInv
  <2>2. /\ Len(Buffered)' = Len(Buffered) + 1 /\ Buffered' # <<>>
        /\ Buffered'[Len(Buffered) + 1] = r
    BY <1>3, <1>4, Appended
  <2> QED
    BY <1>3, <2>1, <2>2
<1>9. SettledInv' /\ CollectedInv'
  BY <1>1 DEF SlotInv, SettledInv, CollectedInv, Terminal
<1>10. AnsweredInv'
  BY <1>1 DEF SlotInv, AnsweredInv
<1> QED
  BY <1>6, <1>7, <1>8, <1>9, <1>10 DEF SlotInv

---------------------------------------------------------------------------
(* The replies after the first.                                            *)
LEMMA Taken ==
    ASSUME NEW b \in Seq(Reply), b # <<>>
    PROVE  /\ Len(b) \in Nat /\ Len(b) > 0 /\ Len(Tail(b)) = Len(b) - 1
           /\ \A i \in 1..Len(Tail(b)) : i + 1 \in 1..Len(b) /\ Tail(b)[i] = b[i + 1]
           /\ Head(b) = b[1] /\ 1 \in 1..Len(b)
           /\ Len(b) = 1 => Tail(b) = <<>>
           /\ Len(b) > 1 => /\ Tail(b) # <<>>
                            /\ Tail(b)[Len(Tail(b))] = b[Len(b)]
<1>1. /\ Len(b) \in Nat /\ Len(b) > 0 /\ Len(Tail(b)) = Len(b) - 1
      /\ Head(b) = b[1] /\ Tail(b) \in Seq(Reply)
  OBVIOUS
<1>0. Len(Tail(b)) = 0 <=> Tail(b) = <<>>
  BY <1>1, EmptySeq
<1>2. \A i \in 1..(Len(b) - 1) : Tail(b)[i] = b[i + 1]
  OBVIOUS
<1>3. \A i \in 1..(Len(b) - 1) : i + 1 \in 1..Len(b)
  BY <1>1
<1>4. Len(b) = 1 => Tail(b) = <<>>
  BY <1>0, <1>1
<1>5. ASSUME Len(b) > 1
      PROVE  Tail(b) # <<>> /\ Tail(b)[Len(Tail(b))] = b[Len(b)]
  <2>1. Len(b) - 1 \in 1..(Len(b) - 1) /\ (Len(b) - 1) + 1 = Len(b)
    BY <1>1, <1>5
  <2>2. Tail(b)[Len(b) - 1] = b[Len(b)]
    BY <1>2, <2>1
  <2>3. Tail(b) # <<>>
    BY <1>0, <1>1, <1>5
  <2> QED
    BY <1>1, <2>2, <2>3
<1> QED
  BY <1>1, <1>2, <1>3, <1>4, <1>5

(* What a read of a reply does to those that stay.                         *)
LEMMA TailKeeps ==
    ASSUME TypeInv, SlotInv, Buffered # <<>>, TakeReply,
           UNCHANGED <<cmd, out, wire, srv>>
    PROVE  /\ Buffered' = Tail(Buffered) /\ RepliesInv'
           /\ Served' = Served /\ Last' = Last
<1>1. Buffered \in Seq(Reply) /\ Buffered' = Tail(Buffered)
  BY Replies DEF TypeInv
<1>2. Served' = Served /\ Last' = Last
  BY DEF Served, Last
<1>3. RepliesInv'
  <2> SUFFICES ASSUME NEW i \in 1..Len(Buffered')
               PROVE  /\ Buffered'[i].to = cmd
                      /\ Buffered'[i].kind = "rfq" => i = Len(Buffered') /\ Served
    BY <1>2 DEF RepliesInv
  <2>1. i + 1 \in 1..Len(Buffered) /\ Buffered'[i] = Buffered[i + 1]
        /\ Len(Buffered') = Len(Buffered) - 1 /\ Len(Buffered) \in Nat
    BY <1>1, Taken
  <2>2. /\ Buffered[i + 1].to = cmd
        /\ Buffered[i + 1].kind = "rfq" => i + 1 = Len(Buffered) /\ Served
    BY <2>1 DEF SlotInv, RepliesInv
  <2> QED
    BY <2>1, <2>2
<1> QED
  BY <1>1, <1>2, <1>3

(* What a call that reads knows of its command.                            *)
LEMMA AtRead ==
    ASSUME TypeInv, TalkInv, SlotInv, NEW t \in Calls, pc[t] = "read",
           Buffered # <<>>
    PROVE  /\ cmd = t /\ async = "busy"
           /\ \A u \in Calls : pc[u] \in Talking => u = t
           /\ got[t] + Len(Buffered) = produced[t] + Last
           /\ got[t] \in Nat /\ produced[t] \in Nat
           /\ Head(Buffered).kind = "rfq" => Len(Buffered) = 1 /\ Served
           /\ Head(Buffered).kind # "rfq" /\ Served =>
                  /\ Len(Buffered) > 1
                  /\ Buffered[Len(Buffered)].kind = "rfq"
<1>1. /\ cmd = t /\ async = "busy"
      /\ \A u \in Calls : pc[u] \in Talking => u = t
  BY DEF TalkInv, TalkingInv, Talking
<1>2. got[t] \in Nat /\ produced[t] \in Nat /\ Buffered \in Seq(Reply)
  BY SlotTypes
<1>3. /\ got[t] + Len(Buffered) = produced[t] + Last
      /\ Served => Buffered[Len(Buffered)].kind = "rfq"
  BY DEF SlotInv, CountInv, Talking
<1>4. Head(Buffered) = Buffered[1] /\ 1 \in 1..Len(Buffered)
      /\ Len(Buffered) \in Nat /\ Len(Buffered) > 0
  BY <1>2, Taken
<1>5. Head(Buffered).kind = "rfq" => Len(Buffered) = 1 /\ Served
  BY <1>4 DEF SlotInv, RepliesInv
<1>6. Head(Buffered).kind # "rfq" /\ Served => Len(Buffered) > 1
  BY <1>3, <1>4
<1> QED
  BY <1>1, <1>2, <1>3, <1>5, <1>6

(* A result goes from libpq to the call, ...                               *)
LEMMA ReadResultKeeps ==
    ASSUME TypeInv, TalkInv, SlotInv, NEW t \in Calls, ReadResult(t)
    PROVE  SlotInv'
<1>1. /\ pc[t] = "read" /\ Buffered # <<>> /\ Head(Buffered).kind = "ok"
      /\ TakeReply /\ got' = [got EXCEPT ![t] = @ + 1]
      /\ UNCHANGED <<pc, kind, async, cmd, out, wire, srv, produced>>
  BY DEF ReadResult, ReadLoop, NextReply, AfterResult, command, back
<1>2. Buffered' = Tail(Buffered) /\ RepliesInv' /\ Served' = Served /\ Last' = Last
  BY <1>1, TailKeeps
<1>3. /\ cmd = t /\ async = "busy"
      /\ \A u \in Calls : pc[u] \in Talking => u = t
      /\ got[t] + Len(Buffered) = produced[t] + Last
      /\ got[t] \in Nat /\ produced[t] \in Nat
      /\ Served => Len(Buffered) > 1 /\ Buffered[Len(Buffered)].kind = "rfq"
  BY <1>1, AtRead
<1>4. /\ got'[t] = got[t] + 1 /\ \A u \in Calls : u # t => got'[u] = got[u]
      /\ Buffered \in Seq(Reply)
  BY <1>1, SlotTypes
<1>5. Len(Buffered') = Len(Buffered) - 1 /\ Len(Buffered) \in Nat
      /\ (Served => Buffered' # <<>> /\ Buffered'[Len(Buffered')].kind = "rfq")
  BY <1>1, <1>2, <1>3, <1>4, Taken
<1>6. OwnerInv' /\ SendingInv' /\ IdleInv'
  BY <1>1, <1>3 DEF SlotInv, OwnerInv, SendingInv, IdleInv
<1>7. CountInv'
  <2>1. got'[t] + Len(Buffered') = produced[t] + Last
    BY <1>3, <1>4, <1>5
  <2> QED
    BY <1>1, <1>2, <1>3, <1>5, <2>1 DEF CountInv
<1>8. SettledInv'
  BY <1>1, <1>4 DEF SlotInv, SettledInv, Talking
<1>9. AnsweredInv'
  BY <1>1, <1>2 DEF SlotInv, AnsweredInv
<1>10. CollectedInv'
  BY <1>1, <1>4 DEF SlotInv, CollectedInv, Terminal
<1> QED
  BY <1>2, <1>6, <1>7, <1>8, <1>9, <1>10 DEF SlotInv

(* ... an error ends the call, whose command stays in libpq, ...           *)
LEMMA ReadErrorKeeps ==
    ASSUME TypeInv, TalkInv, SlotInv, NEW t \in Calls, ReadError(t)
    PROVE  SlotInv'
<1>1. /\ pc[t] = "read" /\ Buffered # <<>>
      /\ TakeReply /\ pc' = [pc EXCEPT ![t] = "failed"]
      /\ UNCHANGED <<got, kind, async, cmd, out, wire, srv, produced>>
  BY DEF ReadError, ReadLoop, NextReply, Raise, Move, command, back, call
<1>2. Buffered' = Tail(Buffered) /\ RepliesInv' /\ Served' = Served /\ Last' = Last
  BY <1>1, TailKeeps
<1>3. /\ async = "busy" /\ \A u \in Calls : pc[u] \in Talking => u = t
  BY <1>1, AtRead
<1>4. pc'[t] = "failed" /\ \A u \in Calls : u # t => pc'[u] = pc[u]
  BY <1>1, SlotTypes
<1>5. OwnerInv' /\ SendingInv' /\ IdleInv'
  BY <1>1, <1>3, <1>4 DEF SlotInv, OwnerInv, SendingInv, IdleInv, Left
<1>6. CountInv'
  BY <1>3, <1>4 DEF CountInv, Talking, Suspended
<1>7. SettledInv' /\ CollectedInv'
  BY <1>1, <1>4 DEF SlotInv, SettledInv, CollectedInv, Terminal, Left
<1>8. AnsweredInv'
  BY <1>1, <1>2 DEF SlotInv, AnsweredInv
<1> QED
  BY <1>2, <1>5, <1>6, <1>7, <1>8 DEF SlotInv

(* ... and the end leaves nothing of it, when the call has everything.     *)
LEMMA AtEnd ==
    ASSUME TypeInv, TalkInv, SlotInv, NEW t \in Calls, ReadEnds(t)
    PROVE  /\ cmd = t /\ async = "busy" /\ async' = "idle" /\ Served
           /\ got[t] = produced[t] /\ produced[t] > 0
           /\ Buffered' = <<>> /\ RepliesInv' /\ Served' = Served
           /\ UNCHANGED <<got, kind, cmd, out, wire, srv, produced>>
           /\ \A u \in Calls : pc[u] \in Talking => u = t
           /\ pc[t] = "read" /\ \A u \in Calls : u # t => pc'[u] = pc[u]
           /\ pc'[t] \in {"send", "subscribe", "done"}
<1>1. /\ pc[t] = "read" /\ Buffered # <<>> /\ Head(Buffered).kind = "rfq"
      /\ TakeReply /\ async' = "idle"
      /\ \E x \in {"send", "subscribe", "done"} : pc' = [pc EXCEPT ![t] = x]
      /\ UNCHANGED <<got, kind, cmd, out, wire, srv, produced>>
  BY DEF ReadEnds, ReadLoop, NextReply, Move, back
<1>2. Buffered' = Tail(Buffered) /\ RepliesInv' /\ Served' = Served
  BY <1>1, TailKeeps
<1>3. /\ cmd = t /\ async = "busy"
      /\ \A u \in Calls : pc[u] \in Talking => u = t
      /\ got[t] + Len(Buffered) = produced[t] + Last
      /\ got[t] \in Nat /\ produced[t] \in Nat
      /\ Len(Buffered) = 1 /\ Served
  BY <1>1, AtRead
<1>4. got[t] = produced[t]
  BY <1>3 DEF Last
<1>5. produced[t] > 0
  BY <1>3 DEF SlotInv, AnsweredInv
<1>6. Buffered' = <<>>
  BY <1>1, <1>2, <1>3, Taken, SlotTypes
<1>7. /\ \A u \in Calls : u # t => pc'[u] = pc[u]
      /\ pc'[t] \in {"send", "subscribe", "done"}
  BY <1>1, SlotTypes
<1> QED
  BY <1>1, <1>2, <1>3, <1>4, <1>5, <1>6, <1>7

(* ... so that nothing is under way when the next command begins.          *)
LEMMA ReadEndsKeeps ==
    ASSUME TypeInv, TalkInv, SlotInv, NEW t \in Calls, ReadEnds(t)
    PROVE  SlotInv'
<1>1. /\ cmd = t /\ async = "busy" /\ async' = "idle" /\ Served
      /\ got[t] = produced[t] /\ produced[t] > 0
      /\ Buffered' = <<>> /\ RepliesInv' /\ Served' = Served
      /\ UNCHANGED <<got, kind, cmd, out, wire, srv, produced>>
      /\ \A u \in Calls : pc[u] \in Talking => u = t
      /\ pc[t] = "read" /\ \A u \in Calls : u # t => pc'[u] = pc[u]
      /\ pc'[t] \in {"send", "subscribe", "done"}
  BY AtEnd
<1>2. OwnerInv' /\ SendingInv' /\ IdleInv' /\ AnsweredInv'
  BY <1>1 DEF SlotInv, OwnerInv, SendingInv, IdleInv, AnsweredInv, Served
<1>3. CountInv'
  BY <1>1 DEF CountInv, Talking, Suspended
<1>4. SettledInv'
  BY <1>1 DEF SlotInv, SettledInv, Talking, Suspended, Left
<1>5. CollectedInv'
  BY <1>1 DEF SlotInv, CollectedInv, Terminal
<1> QED
  BY <1>1, <1>2, <1>3, <1>4, <1>5 DEF SlotInv

(* An idle connection is an empty slot.                                    *)
LEMMA SlotInitInv == Init => SlotInv
<1> SUFFICES ASSUME Init
             PROVE  SlotInv
  OBVIOUS
<1>1. Buffered = <<>> /\ Served /\ async = "idle"
  BY DEF Init, Buffered, Served
<1>2. \A t \in Calls : pc[t] = "start" /\ got[t] = 0 /\ produced[t] = 0
  BY DEF Init
<1>3. OwnerInv /\ IdleInv /\ SendingInv /\ AnsweredInv
  BY <1>1 DEF OwnerInv, IdleInv, SendingInv, AnsweredInv, Served
<1>4. RepliesInv
  BY <1>1 DEF RepliesInv
<1>5. CountInv /\ SettledInv /\ CollectedInv
  BY <1>2 DEF CountInv, SettledInv, CollectedInv, Terminal, Talking, Suspended
<1> QED
  BY <1>3, <1>4, <1>5 DEF SlotInv

(* What a step can be to the command.                                      *)
LEMMA StepKinds ==
    ASSUME TypeInv, [Next]_vars
    PROVE  \/ Same /\ UNCHANGED pc
           \/ \E t \in Calls :
                  \/ QuietStep(t) \/ Takes(t) \/ Flush(t)
                  \/ ReadResult(t) \/ ReadError(t) \/ ReadEnds(t)
           \/ ServerReads \/ ServerReady \/ ServerCopies
           \/ \E what \in {"ok", "err"} : ServerResult(what)
<1>1. CASE \/ PollCall \/ PollNotify \/ Fragment \/ ServerNotifies \/ Lose
           \/ UNCHANGED vars
  BY <1>1, OtherSteps
<1>2. CASE \E t \in Calls : Enter(t) \/ Step(t) \/ Wake(t) \/ Cancel(t)
  BY <1>2, CallSteps
<1>3. CASE Server
  BY <1>3 DEF Server
<1> QED
  BY <1>1, <1>2, <1>3 DEF Next, Terminating

(* Every step keeps it.                                                    *)
LEMMA SlotStep == TypeInv /\ TalkInv /\ SlotInv /\ [Next]_vars => SlotInv'
<1> SUFFICES ASSUME TypeInv, TalkInv, SlotInv, [Next]_vars
             PROVE  SlotInv'
  OBVIOUS
<1>1. CASE Same /\ UNCHANGED pc
  BY <1>1, SameKeeps
<1>2. ASSUME NEW t \in Calls, QuietStep(t) PROVE SlotInv'
  BY <1>2, SameKeeps DEF QuietStep
<1>3. ASSUME NEW t \in Calls, Takes(t) PROVE SlotInv'
  BY <1>3, TakesKeeps
<1>4. ASSUME NEW t \in Calls, Flush(t) PROVE SlotInv'
  BY <1>4, FlushKeeps
<1>5. ASSUME NEW t \in Calls, ReadResult(t) PROVE SlotInv'
  BY <1>5, ReadResultKeeps
<1>6. ASSUME NEW t \in Calls, ReadError(t) PROVE SlotInv'
  BY <1>6, ReadErrorKeeps
<1>7. ASSUME NEW t \in Calls, ReadEnds(t) PROVE SlotInv'
  BY <1>7, ReadEndsKeeps
<1>8. CASE ServerReads
  BY <1>8, ReadsKeeps
<1>9. CASE ServerReady
  BY <1>9, ReadyKeeps
<1>10. CASE ServerCopies \/ \E what \in {"ok", "err"} : ServerResult(what)
  BY <1>10, ResultKeeps
<1> QED
  BY <1>1, <1>2, <1>3, <1>4, <1>5, <1>6, <1>7, <1>8, <1>9, <1>10, StepKinds

---------------------------------------------------------------------------
(***************************************************************************)
(* AsyncConnection implements CommandSlot                                  *)
(***************************************************************************)

Ending == [t \in Calls |-> EndingOf(t)]

(* How calls end, as their callers see it, when one call moves.            *)
LEMMA EndingMoves ==
    ASSUME NEW t \in Calls, \A u \in Calls : u # t => pc'[u] = pc[u]
    PROVE  /\ pc[t] \notin Terminal /\ pc'[t] = "done"
                => Ending[t] = "none" /\ Ending' = [Ending EXCEPT ![t] = "returned"]
           /\ pc[t] \notin Terminal /\ pc'[t] \in Terminal \ {"done"}
                => Ending[t] = "none" /\ Ending' = [Ending EXCEPT ![t] = "raised"]
           /\ (pc[t] \notin Terminal /\ pc'[t] \notin Terminal) \/ pc'[t] = pc[t]
                => Ending' = Ending
           /\ pc[t] \notin Terminal => Ending[t] = "none"
<1>1. \A u \in Calls : u # t => EndingOf(u)' = EndingOf(u)
  BY DEF EndingOf
<1>2. /\ pc[t] \notin Terminal => EndingOf(t) = "none"
      /\ pc'[t] \notin Terminal => EndingOf(t)' = "none"
      /\ pc'[t] = "done" => EndingOf(t)' = "returned"
      /\ pc'[t] \in Terminal \ {"done"} => EndingOf(t)' = "raised"
      /\ pc'[t] = pc[t] => EndingOf(t)' = EndingOf(t)
  BY DEF EndingOf, Terminal
<1>3. Ending' = [u \in Calls |-> EndingOf(u)']
  BY DEF Ending
<1>4. ASSUME NEW x, EndingOf(t)' = x
      PROVE  Ending' = [Ending EXCEPT ![t] = x]
  BY <1>1, <1>3, <1>4 DEF Ending
<1>5. EndingOf(t)' = EndingOf(t) => Ending' = Ending
  BY <1>1, <1>3 DEF Ending
<1>6. Ending[t] = EndingOf(t)
  BY DEF Ending
<1> QED
  BY <1>2, <1>4, <1>5, <1>6

(* The empty slot.                                                         *)
LEMMA SlotBegins == Init => Slot!SlotInit
<1> SUFFICES ASSUME Init
             PROVE  Slot!SlotInit
  OBVIOUS
<1>1. SlotOwner = NoCall
  BY DEF Init, SlotOwner
<1>2. [t \in Calls |-> EndingOf(t)] = [t \in Calls |-> "none"]
  BY DEF Init, EndingOf, Terminal
<1>3. produced = [t \in Calls |-> 0] /\ got = [t \in Calls |-> 0]
  BY DEF Init
<1> QED
  BY <1>1, <1>2, <1>3 DEF Slot!SlotInit

(* Every step of the connection is one of the slot, or nothing to it.      *)
LEMMA SlotImplemented ==
    ASSUME TypeInv, TalkInv, SlotInv, [Next]_vars
    PROVE  [Slot!SlotNext]_(Slot!slotVars)
<1> DEFINE Goal == [Slot!SlotNext]_(Slot!slotVars)
<1> USE DEF Ending
<1>0. NoCall \notin Calls /\ pc \in [Calls -> Locations]
      /\ async \in {"idle", "busy"}
  BY CallsAssumption DEF TypeInv, PyTypes, PqTypes
<1>1. ASSUME UNCHANGED <<async, cmd, produced, got, pc>>
      PROVE  Goal
  <2>1. SlotOwner' = SlotOwner
    BY <1>1 DEF SlotOwner
  <2>2. Ending' = Ending
    BY <1>1 DEF Ending, EndingOf
  <2> QED
    BY <1>1, <2>1, <2>2 DEF Slot!slotVars
<1>2. ASSUME NEW t \in Calls, QuietStep(t) PROVE Goal
  <2>1. \A u \in Calls : u # t => pc'[u] = pc[u]
    BY <1>0, <1>2 DEF QuietStep, Only
  <2>2. SlotOwner' = SlotOwner /\ UNCHANGED <<produced, got>>
    BY <1>2 DEF QuietStep, Same, SlotOwner
  <2>3. CASE pc[t] = "subscribe" /\ pc'[t] = "done"
    <3>1. SlotOwner # t /\ got[t] = produced[t]
      BY <1>0, <2>3 DEF SlotInv, OwnerInv, SettledInv, SlotOwner, Talking, Suspended,
         Left
    <3>2. Ending[t] = "none" /\ Ending' = [Ending EXCEPT ![t] = "returned"]
      BY <2>1, <2>3, EndingMoves DEF Terminal
    <3>3. Slot!Return(t)
      BY <2>2, <3>1, <3>2 DEF Slot!Return, Slot!Open
    <3> QED
      BY <3>3 DEF Slot!SlotNext
  <2>4. CASE pc[t] \notin Terminal /\ pc'[t] \in Terminal \ {"done"}
    <3>1. Ending[t] = "none" /\ Ending' = [Ending EXCEPT ![t] = "raised"]
      BY <2>1, <2>4, EndingMoves
    <3>2. Slot!Raise(t)
      BY <2>2, <3>1 DEF Slot!Raise, Slot!Open
    <3> QED
      BY <3>2 DEF Slot!SlotNext
  <2>5. CASE (pc[t] \notin Terminal /\ pc'[t] \notin Terminal) \/ pc'[t] = pc[t]
    <3>1. Ending' = Ending
      BY <2>1, <2>5, EndingMoves
    <3> QED
      BY <2>2, <3>1 DEF Slot!slotVars
  <2>6. QuietMove(t)
    BY <1>2 DEF QuietStep
  <2> QED
    BY <2>3, <2>4, <2>5, <2>6 DEF QuietMove, Terminal, Talking, Suspended, Left
<1>3. ASSUME NEW t \in Calls, Takes(t) PROVE Goal
  <2>1. SlotOwner = NoCall /\ SlotOwner' = t /\ UNCHANGED <<produced, got>>
    BY <1>3 DEF Takes, SlotOwner
  <2>2. pc[t] = "send" /\ pc'[t] = "flush" /\ \A u \in Calls : u # t => pc'[u] = pc[u]
    BY <1>0, <1>3 DEF Takes
  <2>3. Ending' = Ending /\ Ending[t] = "none"
    BY <2>2, EndingMoves DEF Terminal
  <2>4. Slot!Take(t)
    BY <2>1, <2>3 DEF Slot!Take, Slot!Open
  <2> QED
    BY <2>4 DEF Slot!SlotNext
<1>4. ASSUME NEW t \in Calls, Flush(t) PROVE Goal
  <2>1. /\ UNCHANGED <<async, cmd, produced, got>> /\ pc[t] = "flush"
        /\ pc'[t] \in {"flushing", "read"} /\ \A u \in Calls : u # t => pc'[u] = pc[u]
    BY <1>0, <1>4 DEF Flush, call, WaitFor, Move
  <2>2. SlotOwner' = SlotOwner
    BY <2>1 DEF SlotOwner
  <2>3. Ending' = Ending
    BY <2>1, EndingMoves DEF Terminal
  <2> QED
    BY <2>1, <2>2, <2>3 DEF Slot!slotVars
<1>5. ASSUME NEW t \in Calls, ReadResult(t) PROVE Goal
  <2>1. /\ pc[t] = "read" /\ Buffered # <<>> /\ Head(Buffered).kind = "ok"
        /\ got' = [got EXCEPT ![t] = @ + 1]
        /\ UNCHANGED <<pc, async, cmd, produced>>
    BY <1>5 DEF ReadResult, ReadLoop, NextReply, AfterResult, command, back
  <2>2. /\ cmd = t /\ async = "busy" /\ got[t] \in Nat /\ produced[t] \in Nat
        /\ got[t] + Len(Buffered) = produced[t] + Last
        /\ Served => Len(Buffered) > 1
    BY <2>1, AtRead
  <2>3. Len(Buffered) \in Nat /\ Len(Buffered) > 0
    BY <2>1, Taken, SlotTypes
  <2>4. got[t] < produced[t]
    BY <2>2, <2>3 DEF Last
  <2>5. SlotOwner = t /\ SlotOwner' = t
    BY <2>1, <2>2 DEF SlotOwner
  <2>6. Ending' = Ending /\ Ending[t] = "none"
    BY <2>1, EndingMoves DEF Terminal
  <2>7. Slot!Collect(t)
    BY <2>1, <2>4, <2>5, <2>6 DEF Slot!Collect, Slot!Open
  <2> QED
    BY <2>7 DEF Slot!SlotNext
<1>6. ASSUME NEW t \in Calls, ReadError(t) PROVE Goal
  <2>1. /\ pc[t] = "read" /\ pc'[t] = "failed"
        /\ UNCHANGED <<async, cmd, produced, got>>
        /\ \A u \in Calls : u # t => pc'[u] = pc[u]
    BY <1>0, <1>6 DEF ReadError, ReadLoop, Raise, Move, command, back, call
  <2>2. SlotOwner' = SlotOwner
    BY <2>1 DEF SlotOwner
  <2>3. Ending[t] = "none" /\ Ending' = [Ending EXCEPT ![t] = "raised"]
    BY <2>1, EndingMoves DEF Terminal
  <2>4. Slot!Raise(t)
    BY <2>1, <2>2, <2>3 DEF Slot!Raise, Slot!Open
  <2> QED
    BY <2>4 DEF Slot!SlotNext
<1>7. ASSUME NEW t \in Calls, ReadEnds(t) PROVE Goal
  <2>1. /\ cmd = t /\ async = "busy" /\ async' = "idle"
        /\ got[t] = produced[t] /\ produced[t] > 0
        /\ UNCHANGED <<got, produced>>
        /\ pc[t] = "read" /\ \A u \in Calls : u # t => pc'[u] = pc[u]
        /\ pc'[t] \in {"send", "subscribe", "done"}
    BY <1>7, AtEnd
  <2>2. SlotOwner = t /\ SlotOwner' = NoCall
    BY <2>1 DEF SlotOwner
  <2>3. /\ Ending[t] = "none"
        /\ Ending' \in {Ending, [Ending EXCEPT ![t] = "returned"]}
    BY <2>1, EndingMoves DEF Terminal
  <2>4. Slot!Release(t)
    BY <2>1, <2>2, <2>3 DEF Slot!Release, Slot!Open
  <2> QED
    BY <2>4 DEF Slot!SlotNext
<1>8. CASE ServerReads \/ ServerReady
  BY <1>1, <1>8 DEF ServerReads, ServerReady, pyVars, call, pqVars, command
<1>9. CASE ServerCopies \/ \E what \in {"ok", "err"} : ServerResult(what)
  <2>1. /\ srv = "exec" /\ UNCHANGED <<async, cmd, got, pc>>
        /\ produced' = [produced EXCEPT ![cmd] = @ + 1]
    BY <1>9 DEF ServerCopies, ServerResult, pyVars, call, pqVars, command
  <2>2. cmd \in Calls /\ SlotOwner = cmd /\ SlotOwner' = cmd
    BY <2>1, AtWork DEF SlotOwner
  <2>3. Ending' = Ending
    BY <2>1 DEF Ending, EndingOf
  <2>4. Slot!Answer(cmd)
    BY <2>1, <2>2, <2>3 DEF Slot!Answer
  <2> QED
    BY <2>2, <2>4 DEF Slot!SlotNext
<1>10. CASE Same /\ UNCHANGED pc
  BY <1>1, <1>10 DEF Same
<1> QED
  BY <1>2, <1>3, <1>4, <1>5, <1>6, <1>7, <1>8, <1>9, <1>10, StepKinds

(* The three invariants together.                                          *)
LEMMA SlotInvariant == Spec => [](TypeInv /\ TalkInv /\ SlotInv)
BY TypeInit, TalkInit, SlotInitInv, TypeStep, TalkStep, SlotStep, PTL DEF Spec

(* The connection implements CommandSlot: it keeps the promise of one      *)
(* command at a time, and of its results to its caller, whatever the calls *)
(* are and whatever refusals, errors, cancels and losses come in between.  *)
THEOREM SlotKept == Spec => ImplementsSlot
<1>1. TypeInv /\ TalkInv /\ SlotInv /\ [Next]_vars
      => [Slot!SlotNext]_(Slot!slotVars)
  BY SlotImplemented
<1>2. Spec => Slot!SlotInit
  BY SlotBegins DEF Spec
<1>3. Spec => [][Next]_vars
  BY PTL DEF Spec
<1> QED
  BY <1>1, <1>2, <1>3, SlotInvariant, PTL DEF ImplementsSlot, Slot!SlotSpec

(* No call is ever given what the backend answered to another.             *)
THEOREM RepliesAreOwn == Spec => []OwnReplies
<1>1. TalkInv /\ SlotInv => OwnReplies
  BY DEF TalkInv, TalkingInv, SlotInv, RepliesInv, OwnReplies
<1> QED
  BY <1>1, SlotInvariant, PTL

(* A call that returns has all its results and leaves none behind.         *)
THEOREM ResultsAreComplete == Spec => []ResultsComplete
<1>1. ASSUME TypeInv, SlotInv
      PROVE  ResultsComplete
  <2> SUFFICES ASSUME NEW t \in Calls, pc[t] = "done"
               PROVE  /\ got[t] = produced[t]
                      /\ got[t] = 0 <=> kind[t] = "listen none"
                      /\ \A i \in 1..Len(Buffered) : Buffered[i].to # t
                      /\ cmd = t => async = "idle" /\ srv = "idle" /\ out = 0
    BY DEF ResultsComplete
  <2>1. got[t] = produced[t]
    BY <1>1 DEF SlotInv, SettledInv, Talking, Suspended, Left
  <2>2. got[t] = 0 <=> kind[t] = "listen none"
    <3>1. got[t] \in Nat
      BY <1>1 DEF TypeInv, PyTypes
    <3>2. CASE kind[t] = "listen none"
      BY <1>1, <3>2 DEF SlotInv, CollectedInv
    <3>3. CASE kind[t] # "listen none"
      <4>1. got[t] > 0
        BY <1>1, <3>3 DEF SlotInv, CollectedInv
      <4>2. got[t] # 0
        BY <3>1, <4>1
      <4> QED
        BY <3>3, <4>2, Zenon
    <3> QED
      BY <3>2, <3>3
  <2>3. cmd = t => async = "idle" /\ Buffered = <<>> /\ Served
    BY <1>1 DEF TypeInv, PqTypes, SlotInv, OwnerInv, IdleInv, Talking, Suspended, Left
  <2>4. \A i \in 1..Len(Buffered) : Buffered[i].to = cmd
    BY <1>1 DEF SlotInv, RepliesInv
  <2>5. \A i \in 1..Len(Buffered) : Buffered[i].to # t
    <3>1. CASE cmd = t
      BY <2>3, <3>1
    <3>2. CASE cmd # t
      BY <2>4, <3>2
    <3> QED
      BY <3>1, <3>2
  <2>6. cmd = t => async = "idle" /\ srv = "idle" /\ out = 0
    BY <2>3 DEF Served
  <2> QED
    BY <2>1, <2>2, <2>5, <2>6, Zenon
<1> QED
  BY <1>1, SlotInvariant, PTL

---------------------------------------------------------------------------
(***************************************************************************)
(* Handlers                                                                *)
(***************************************************************************)

(* Who left what on the socket: a call that flushes is there for both      *)
(* directions, one that reads for one.                                     *)
HandlersInv ==
    \A t \in Calls : /\ reader = t => pc[t] \in Suspended \cup {"cancelled"}
                     /\ writer = t => pc[t] \in {"flushing", "cancelled"}

(* A call that is not on the socket may go anywhere.                       *)
LEMMA HandlersFree ==
    ASSUME TypeInv, HandlersInv, NEW t \in Calls,
           \A u \in Calls : u # t => pc'[u] = pc[u],
           reader' \in {reader, NoCall, Notify}, writer' \in {writer, NoCall},
           reader' # t, writer' # t
    PROVE  HandlersInv'
BY CallsAssumption DEF HandlersInv

(* Every step keeps it.                                                    *)
LEMMA HandlersStep == TypeInv /\ HandlersInv /\ [Next]_vars => HandlersInv'
<1> SUFFICES ASSUME TypeInv, HandlersInv, [Next]_vars
             PROVE  HandlersInv'
  OBVIOUS
<1>0. pc \in [Calls -> Locations] /\ NoCall \notin Calls /\ Notify \notin Calls
  BY CallsAssumption DEF TypeInv, PyTypes
<1> USE DEF call, waits, Move
<1>1. ASSUME NEW t \in Calls,
             \/ Enter(t) \/ SendQueryParams(t) \/ SendQuery(t) \/ FlushFails(t)
             \/ ReadFails(t) \/ ReadResult(t) \/ ReadError(t) \/ ReadEnds(t)
             \/ Subscribe(t)
      PROVE  HandlersInv'
  <2>1. reader # t /\ writer # t
    BY <1>1 DEF Enter, SendQueryParams, SendQuery, FlushFails, ReadFails, ReadLoop,
       ReadResult, ReadError, ReadEnds, Subscribe, HandlersInv, Suspended
  <2>2. /\ writer' = writer
        /\ reader' \in {reader, Notify}
        /\ \A u \in Calls : u # t => pc'[u] = pc[u]
    BY <1>0, <1>1 DEF Enter, SendQueryParams, SendQuery, SendFails, FlushFails,
       ReadFails, ReadLoop, ReadResult, AfterResult, ReadError, Raise, ReadEnds,
       Subscribe, FirstLook
  <2> QED
    BY <1>0, <2>1, <2>2, HandlersFree
<1>2. ASSUME NEW t \in Calls, Flush(t) \/ ReadWaits(t)
      PROVE  HandlersInv'
  BY <1>0, <1>2 DEF Flush, ReadWaits, ReadLoop, WaitFor, HandlersInv, Suspended
<1>3. ASSUME NEW t \in Calls, WakeRead(t) \/ WakeFlush(t)
      PROVE  HandlersInv'
  <2>1. reader' = NoCall /\ writer' \in {writer, NoCall} /\ writer' # t
    BY <1>0, <1>3 DEF WakeRead, WakeFlush, Woken, Unregister, FlagsOf, HandlersInv
  <2>2. \A u \in Calls : u # t => pc'[u] = pc[u]
    BY <1>0, <1>3 DEF WakeRead, WakeFlush
  <2> QED
    BY <1>0, <2>1, <2>2, HandlersFree
<1>4. ASSUME NEW t \in Calls, WakeCancelled(t)
      PROVE  HandlersInv'
  BY <1>0, <1>4 DEF WakeCancelled, HandlersInv
<1>5. CASE \/ \E t \in Calls : ReadCopy(t) \/ Cancel(t)
           \/ PollCall \/ PollNotify \/ Server \/ Fragment \/ ServerNotifies
           \/ Lose \/ UNCHANGED vars
  <2>1. UNCHANGED <<pc, reader, writer>>
    BY <1>5 DEF ReadCopy, Cancel, PollCall, PollNotify, Server, ServerReads,
       ServerResult, ServerCopies, ServerReady, Fragment, ServerNotifies, Lose, vars,
       pyVars
  <2> QED
    BY <2>1 DEF HandlersInv
<1> QED
  BY <1>1, <1>2, <1>3, <1>4, <1>5 DEF Next, Step, Wake, Terminating

(* Nothing but a cancel leaves a handler of _wait_for on the socket.       *)
THEOREM OnlyCancelLeaves == Spec => []HandlersLeft
<1>1. Init => HandlersInv
  BY CallsAssumption DEF Init, HandlersInv
<1>2. HandlersInv => HandlersLeft
  BY DEF HandlersInv, HandlersLeft, Suspended
<1> QED
  BY <1>1, <1>2, TypeInit, TypeStep, HandlersStep, PTL DEF Spec

---------------------------------------------------------------------------
(***************************************************************************)
(* Notifications                                                           *)
(***************************************************************************)

(* The way of the notifications, from the queue back to the socket, and    *)
(* what the backend has sent so far.                                       *)
Line(q, a, b)    == q \o a \o b
UpTo(n)          == [i \in 1..n |-> i]
LineInv          == Line(queue, notes, netNotes) = UpTo(sent)
QuietInv         == use = "listening" /\ link # "closed"
                        => notes = <<>> \/ found # NoCall

(* Notifications that move on from the socket to libpq, or from there to   *)
(* the queue, stay in line.                                                *)
LEMMA LineMoves ==
    ASSUME NEW q \in Seq(Nat), NEW a \in Seq(Nat), NEW b \in Seq(Nat)
    PROVE  /\ Line(q, a \o b, <<>>) = Line(q, a, b)
           /\ Line(q \o (a \o b), <<>>, <<>>) = Line(q, a, b)
<1>1. a \o b \in Seq(Nat) /\ q \o (a \o b) \in Seq(Nat)
  BY ConcatProperties
<1>2. (q \o a) \o b = q \o (a \o b)
  BY ConcatAssociative
<1>3. (q \o (a \o b)) \o <<>> = q \o (a \o b)
  BY <1>1, ConcatEmptySeq
<1> QED
  BY <1>2, <1>3 DEF Line

(* A new one goes to the end of the line.                                  *)
LEMMA LineGrows ==
    ASSUME NEW q \in Seq(Nat), NEW a \in Seq(Nat), NEW b \in Seq(Nat),
           NEW n \in Nat, Line(q, a, b) = UpTo(n)
    PROVE  Line(q, a, Append(b, n + 1)) = UpTo(n + 1)
<1> DEFINE qa   == q \o a
           all  == Line(q, a, b)
           more == Append(all, n + 1)
<1>1. qa \in Seq(Nat) /\ all \in Seq(Nat) /\ all = qa \o b
  BY ConcatProperties DEF Line
<1>2. n + 1 \in Nat /\ <<n + 1>> \in Seq(Nat)
  OBVIOUS
<1>3. Line(q, a, Append(b, n + 1)) = qa \o Append(b, n + 1)
  BY DEF Line
<1> HIDE DEF qa
<1>4. Append(b, n + 1) = b \o <<n + 1>>
  BY <1>2, AppendIsConcat
<1>5. qa \o (b \o <<n + 1>>) = (qa \o b) \o <<n + 1>>
  BY <1>1, <1>2, ConcatAssociative
<1>6. all = UpTo(n)
  OBVIOUS
<1> HIDE DEF all
<1>7. (qa \o b) \o <<n + 1>> = more
  BY <1>1, <1>2, AppendIsConcat
<1>8. Len(all) = n /\ \A i \in 1..n : all[i] = i
  BY <1>1, <1>6, LenProperties DEF UpTo
<1>9. /\ more \in Seq(Nat) /\ Len(more) = n + 1
      /\ \A i \in 1..n : more[i] = i
      /\ more[n + 1] = n + 1
  BY <1>1, <1>2, <1>8, AppendProperties
<1> HIDE DEF more
<1>10. more = UpTo(n + 1)
  <2>1. UpTo(n + 1) \in Seq(Nat) /\ Len(UpTo(n + 1)) = n + 1
    BY DEF UpTo
  <2>2. \A i \in 1..(n + 1) : more[i] = UpTo(n + 1)[i]
    BY <1>9 DEF UpTo
  <2> QED
    BY <1>9, <2>1, <2>2, SeqEqual
<1> QED
  BY <1>3, <1>4, <1>5, <1>7, <1>10

(* What libpq had and what it reads stay in libpq; or all goes to the      *)
(* queue.                                                                  *)
NotesRead    == queue' = queue /\ notes' = notes \o netNotes
NotesFetched == queue' = queue \o (notes \o netNotes) /\ notes' = <<>>

(* The kinds of step, for the notifications.                               *)
LEMMA NoteKinds ==
    ASSUME TypeInv, [Next]_vars
    PROVE  \/ UNCHANGED <<queue, notes, netNotes, sent>>
           \/ (NotesRead \/ NotesFetched) /\ netNotes' = <<>> /\ sent' = sent
           \/ ServerNotifies
<1> USE DEF pyVars, pqVars, srvVars, sock, back, command, call, waits
<1>1. ASSUME NEW t \in Calls, Enter(t) \/ SendQueryParams(t) \/ SendQuery(t)
             \/ Flush(t) \/ FlushFails(t) \/ ReadFails(t) \/ WakeRead(t)
             \/ WakeCancelled(t) \/ Cancel(t)
      PROVE  UNCHANGED <<queue, notes, netNotes, sent>>
  BY <1>1 DEF Enter, SendQueryParams, SendQuery, Flush, FlushFails, ReadFails,
     ConsumeFails, WakeRead, WakeCancelled, Cancel, Raise
<1>2. ASSUME NEW t \in Calls, ReadWaits(t) \/ ReadResult(t) \/ ReadError(t)
             \/ ReadCopy(t) \/ ReadEnds(t)
      PROVE  NotesRead /\ netNotes' = <<>> /\ sent' = sent
  BY <1>2 DEF ReadWaits, ReadResult, ReadError, ReadCopy, ReadEnds, ConsumeInput,
     TakeReply, Drain, Raise, NotesRead
<1>3. ASSUME NEW t \in Calls, WakeFlush(t)
      PROVE  \/ UNCHANGED <<queue, notes, netNotes, sent>>
             \/ NotesRead /\ netNotes' = <<>> /\ sent' = sent
  BY <1>3 DEF WakeFlush, ConsumeInput, ConsumeFails, Drain, NotesRead
<1>4. ASSUME \/ PollNotify
             \/ \E t \in Calls : Subscribe(t)
      PROVE  \/ UNCHANGED <<queue, notes, netNotes, sent>>
             \/ (NotesRead \/ NotesFetched) /\ netNotes' = <<>> /\ sent' = sent
  <2>1. OnNotify /\ sent' = sent
    BY <1>4 DEF PollNotify, Subscribe, FirstLook
  <2> QED
    BY <2>1 DEF OnNotify, Fetched, Drain, NotesRead, NotesFetched
<1>5. CASE PollCall \/ Server \/ Fragment \/ Lose \/ UNCHANGED vars
  BY <1>5 DEF PollCall, Server, ServerReads, ServerResult, ServerCopies,
     ServerReady, Fragment, Lose, vars
<1> QED
  BY <1>1, <1>2, <1>3, <1>4, <1>5 DEF Next, Step, Wake, Terminating

(* Every step keeps them in line.                                          *)
LEMMA LineStep == TypeInv /\ LineInv /\ [Next]_vars => LineInv'
<1> SUFFICES ASSUME TypeInv, LineInv, [Next]_vars
             PROVE  LineInv'
  OBVIOUS
<1>0. queue \in Seq(Nat) /\ notes \in Seq(Nat) /\ netNotes \in Seq(Nat)
      /\ sent \in Nat
  BY BoundsAssumption DEF TypeInv, PyTypes, PqTypes, BackTypes
<1>1. CASE UNCHANGED <<queue, notes, netNotes, sent>>
  BY <1>1 DEF LineInv
<1>2. CASE NotesRead /\ netNotes' = <<>> /\ sent' = sent
  <2>1. Line(queue', notes', netNotes') = Line(queue, notes, netNotes)
    BY <1>0, <1>2, LineMoves DEF NotesRead
  <2> QED
    BY <1>2, <2>1 DEF LineInv
<1>3. CASE NotesFetched /\ netNotes' = <<>> /\ sent' = sent
  <2>1. Line(queue', notes', netNotes') = Line(queue, notes, netNotes)
    BY <1>0, <1>3, LineMoves DEF NotesFetched
  <2> QED
    BY <1>3, <2>1 DEF LineInv
<1>4. CASE ServerNotifies
  <2>1. UNCHANGED <<queue, notes>> /\ sent' = sent + 1
        /\ netNotes' = Append(netNotes, sent + 1)
    BY <1>4 DEF ServerNotifies, pyVars, pqVars, call, waits
  <2>2. Line(queue, notes, Append(netNotes, sent + 1)) = UpTo(sent + 1)
    BY <1>0, LineGrows DEF LineInv
  <2> QED
    BY <2>1, <2>2 DEF LineInv
<1> QED
  BY <1>1, <1>2, <1>3, <1>4, NoteKinds

(* While the connection listens no call but the one listen() found reads:  *)
(* libpq is left with no notification each time the loop goes to poll.     *)
LEMMA QuietKept ==
    ASSUME TypeInv, WaitInv, QuietInv, [Next]_vars
    PROVE  QuietInv'
<1> USE DEF pyVars, pqVars, srvVars, sock, back, command, call, waits
<1>1. ASSUME NEW t \in Calls, Enter(t) \/ SendQuery(t) \/ SendQueryParams(t)
             \/ Flush(t) \/ FlushFails(t) \/ WakeRead(t) \/ WakeCancelled(t)
             \/ Cancel(t)
      PROVE  QuietInv'
  BY <1>1 DEF QuietInv, Enter, SendQuery, SendQueryParams, Flush, FlushFails,
     WakeRead, WakeCancelled, Cancel, Raise
<1>2. ASSUME NEW t \in Calls,
             \/ ReadFails(t) \/ ReadWaits(t) \/ ReadResult(t) \/ ReadError(t)
             \/ ReadCopy(t) \/ ReadEnds(t) \/ WakeFlush(t)
      PROVE  QuietInv'
  <2>1. pc[t] \in Talking
    BY <1>2 DEF ReadFails, ReadWaits, ReadResult, ReadError, ReadCopy, ReadEnds,
       ReadLoop, WakeFlush, Talking, Suspended
  <2>2. use = "listening" => found = t
    BY <1>2, <2>1, ListenSteps
  <2>3. use' \in {use, "idle"} /\ found' = found
    BY <1>2 DEF ReadFails, ReadWaits, ReadResult, ReadError, ReadCopy, ReadEnds,
       WakeFlush, Raise, WaitFor, AfterResult, UseAfter
  <2> QED
    BY <2>2, <2>3, CallsAssumption DEF QuietInv
<1>3. CASE PollNotify
  <2>1. OnNotify /\ UNCHANGED <<use, found, async, cmd>>
    BY <1>3 DEF PollNotify
  <2>2. use = "listening" => async = "idle" \/ found # NoCall
    BY CallsAssumption
    DEF WaitInv, UsedInv, ListenInv, SlotOwner, TypeInv, PqTypes
  <2> QED
    BY <2>1, <2>2 DEF OnNotify, OnNotifyRaises, NotBusy, QuietInv
<1>4. ASSUME NEW t \in Calls, Subscribe(t)
      PROVE  QuietInv'
  <2>1. OnNotify /\ (found' = NoCall => async = "idle")
    BY <1>4, CallsAssumption
    DEF Subscribe, FirstLook, SlotOwner, WaitInv, UsedInv, TypeInv, PqTypes
  <2>2. link' # "closed" /\ async = "idle" => notes' = <<>>
    BY <2>1 DEF OnNotify, OnNotifyRaises, NotBusy
  <2> QED
    BY <2>1, <2>2 DEF QuietInv
<1>5. CASE PollCall \/ Server \/ Fragment \/ ServerNotifies \/ Lose
           \/ UNCHANGED vars
  BY <1>5 DEF QuietInv, PollCall, Server, ServerReads, ServerResult, ServerCopies,
     ServerReady, Fragment, ServerNotifies, Lose, vars
<1> QED
  BY <1>1, <1>2, <1>3, <1>4, <1>5 DEF Next, Step, Wake, Terminating

(* No notification is lost, repeated or out of order, and none is left in  *)
(* libpq where the loop would not see it.                                  *)
THEOREM NotificationsArrive == Spec => []NotificationsConserved
<1>1. Init => LineInv /\ QuietInv
  <2> SUFFICES ASSUME Init PROVE LineInv /\ QuietInv
    OBVIOUS
  <2>1. Line(<<>>, <<>>, <<>>) = <<>>
    BY DEF Line
  <2>2. UpTo(0) = <<>>
    BY DEF UpTo
  <2> QED
    BY <2>1, <2>2 DEF Init, LineInv, QuietInv
<1>2. TypeInv /\ WaitInv /\ QuietInv /\ [Next]_vars => QuietInv'
  BY QuietKept
<1>3. LineInv /\ QuietInv => NotificationsConserved
  BY DEF LineInv, QuietInv, Line, UpTo, NotificationsConserved
<1> QED
  BY TypeInit, TypeStep, WaitInit, WaitStep, LineStep, <1>1, <1>2, <1>3, PTL
  DEF Spec
===========================================================================
