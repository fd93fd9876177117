-------------------------- MODULE AsyncConnection --------------------------
(***************************************************************************)
(* The asynchronous half of pglib: the class AsyncConnection of            *)
(* pglib/asyncpglib.py on top of the non-blocking primitives of            *)
(* src/connection.cpp (_sendQuery, _sendQueryParams, _flush,               *)
(* _consumeInput, _getResult, _notifies), one libpq connection and the     *)
(* PostgreSQL backend at its other end.                                    *)
(*                                                                         *)
(* Several coroutine calls share one connection and one event loop.  A     *)
(* call runs without interruption until it suspends in _wait_for; the      *)
(* network and the backend move at any time.  libpq and the backend are    *)
(* external: they are modelled as far as the code under src/ sees them.    *)
(***************************************************************************)
EXTENDS Naturals, Sequences, FiniteSets

CONSTANTS Calls,          \* coroutine calls made on the connection, each once
          Kinds,          \* the methods they may call: "copy" is execute() of a
                          \* COPY, "listen none" a listen() without channels
          ListenCounts,   \* how many channels a listen() call may name
          MaxChunks,      \* writes a query needs, when the socket is slow
          SendRoom,       \* writes the socket's send buffer holds
          MaxStatements,  \* results of one script
          MaxNotify,      \* notifications the backend sends
          AllowCancel,    \* whether a caller may cancel a suspended call
          AllowLoss       \* whether the connection may be lost

NoCall == "no call"            \* no coroutine
Notify == "_on_notify"         \* the handler listen() leaves on the socket

ASSUME CallsAssumption ==
    NoCall \notin Calls /\ Notify \notin Calls
ASSUME KindsAssumption ==
    Kinds \subseteq {"execute", "copy", "script", "listen", "listen none"}
ASSUME BoundsAssumption ==
    /\ ListenCounts \subseteq Nat \ {0}
    /\ MaxChunks \in Nat \ {0}
    /\ SendRoom \in Nat \ {0}
    /\ MaxStatements \in Nat \ {0}
    /\ MaxNotify \in Nat
    /\ AllowCancel \in BOOLEAN
    /\ AllowLoss \in BOOLEAN

VARIABLES
    \* ---- the AsyncConnection object and its coroutines
    use,        \* self.use
    kind,       \* the method a call is of
    pc,         \* where a call is
    chans,      \* commands a call still has to send
    got,        \* results a call's read loops collected
    fut,        \* the future a call waits on
    running,    \* the call the event loop is executing now
    reader,     \* what add_reader registered for the socket
    writer,     \* what add_writer registered for the socket
    queue,      \* what the queue listen() returns was given
    found,      \* history: the call whose command was unfinished when
                \* listen() subscribed (no step depends on it)
    \* ---- libpq
    async,      \* asyncStatus: idle, or a command is in progress
    cmd,        \* the call whose command libpq was given last
    out,        \* writes left in the output buffer
    inbuf,      \* replies read from the socket and not yet returned
    notes,      \* notifications read and not yet fetched by PQnotifies
    link,       \* the connection: up, lost (end of file), closed by libpq
    \* ---- the sockets and the backend
    wire,       \* writes in the send buffer
    net,        \* replies in the receive buffer
    netNotes,   \* notifications in the receive buffer
    frag,       \* part of a message is in the receive buffer
    srv,        \* the backend: idle, exec(uting), ready to end the command,
                \* copy (waiting for the data of a COPY)
    listening,  \* whether a LISTEN was executed
    produced,   \* results the backend sent to each call
    sent        \* notifications the backend sent

call    == <<kind, chans, got, queue, found>>
waits   == <<fut, reader, writer>>
pyVars  == <<call, waits, use, pc, running>>
command == <<async, cmd, out>>
pqVars  == <<command, inbuf, notes, link>>
sock    == <<net, netNotes, frag>>
back    == <<wire, srv, listening, produced, sent>>
srvVars == <<sock, back>>
vars    == <<pyVars, pqVars, srvVars>>

Terminal  == {"done", "failed", "refused", "cancelled"}
Suspended == {"flushing", "reading"}      \* inside _wait_for
(* A call whose command was sent and whose replies were not all read.      *)
Talking   == {"flush", "read"} \cup Suspended
Locations == {"start", "send", "subscribe"} \cup Talking \cup Terminal

Reply == [kind : {"ok", "err", "copyin", "rfq"}, to : Calls]

---------------------------------------------------------------------------
(***************************************************************************)
(* libpq                                                                   *)
(***************************************************************************)

Arrived == net # <<>> \/ netNotes # <<>> \/ frag

(* Whose command is in progress.                                           *)
SlotOwner == IF async = "busy" THEN cmd ELSE NoCall

(* PQconsumeInput reads what has arrived; at end of file it fails, but     *)
(* only once there is nothing left to read.                                *)
ConsumeOK == link = "up" \/ (link = "lost" /\ Arrived)

(* The replies libpq holds once the socket is drained.                     *)
Buffered == inbuf \o net

(* What PQconsumeInput takes from the socket.                              *)
Drain ==
    /\ net' = <<>>
    /\ netNotes' = <<>>
    /\ frag' = FALSE

(* A PQconsumeInput that fails makes libpq close the socket.               *)
ConsumeFails ==
    /\ ~ConsumeOK
    /\ link' = "closed"
    /\ UNCHANGED <<inbuf, notes, sock>>

(* PQconsumeInput without a PQgetResult: replies and notifications stay    *)
(* in libpq.                                                               *)
ConsumeInput ==
    /\ ConsumeOK
    /\ inbuf' = Buffered
    /\ notes' = notes \o netNotes
    /\ Drain
    /\ UNCHANGED link

(* Mutant of Fetched: one notification is taken at a time.                 *)
FetchedFirst == IF notes \o netNotes = <<>> THEN <<>>
                ELSE <<Head(notes \o netNotes)>>

(* What _notifies returns after a consume.                                 *)
Fetched == notes \o netNotes

(* _consumeInput is true: no command is in progress, or one of its replies *)
(* is complete.                                                            *)
NotBusy == async = "idle" \/ Buffered # <<>>

(* _on_notify: consume, and as long as _consumeInput is true fetch and     *)
(* queue until PQnotifies has no more.  After a first round that found     *)
(* notifications it consumes once more, which raises when the connection   *)
(* is lost.                                                                *)
OnNotifyRaises ==
    \/ ~ConsumeOK
    \/ link = "lost" /\ NotBusy /\ Fetched # <<>>

OnNotify ==
    /\ IF ConsumeOK
       THEN /\ inbuf' = Buffered
            /\ notes' = IF NotBusy THEN <<>> ELSE notes \o netNotes
            /\ queue' = IF NotBusy THEN queue \o Fetched ELSE queue
            /\ Drain
       ELSE UNCHANGED <<inbuf, notes, queue, sock>>
    /\ link' = IF OnNotifyRaises THEN "closed" ELSE link

---------------------------------------------------------------------------
(***************************************************************************)
(* The event loop and _wait_for                                            *)
(***************************************************************************)

Readable == link # "closed" /\ (Arrived \/ link = "lost")
Writable == link # "closed" /\ (wire < SendRoom \/ link = "lost")

Move(t, to) == pc' = [pc EXCEPT ![t] = to]

(* An exception leaves the coroutine; nothing on the way out touches the   *)
(* connection object.                                                      *)
Raise(t) ==
    /\ Move(t, "failed")
    /\ running' = NoCall
    /\ UNCHANGED <<use, call, waits>>

(* Mutant of WaitFor: an elif adds the writer only when there is no reader. *)
WaitForEither(t, flags, at) ==
    /\ Move(t, at)
    /\ fut' = [fut EXCEPT ![t] = "pending"]
    /\ reader' = IF "reading" \in flags THEN t ELSE reader
    /\ writer' = IF flags = {"writing"} THEN t ELSE writer
    /\ running' = NoCall

(* The registrations of _wait_for(flags), up to `yield from future'.       *)
WaitFor(t, flags, at) ==
    /\ Move(t, at)
    /\ fut' = [fut EXCEPT ![t] = "pending"]
    /\ reader' = IF "reading" \in flags THEN t ELSE reader
    /\ writer' = IF "writing" \in flags THEN t ELSE writer
    /\ running' = NoCall

FlagsOf(t) == IF pc[t] = "flushing" THEN {"reading", "writing"}
                                    ELSE {"reading"}

(* Mutant of Unregister: the writer stays on the socket.                   *)
UnregisterReader(t) ==
    /\ reader' = NoCall
    /\ UNCHANGED writer

(* The rest of _wait_for, once the future has a result.                    *)
Unregister(t) ==
    /\ reader' = NoCall
    /\ writer' = IF "writing" \in FlagsOf(t) THEN NoCall ELSE writer

(* The loop polls the socket after the callbacks that were ready: a call   *)
(* whose future has a result goes first.                                   *)
Polling == running = NoCall
           /\ \A t \in Calls : pc[t] \in Suspended => fut[t] = "pending"

(* One round of the loop when the handlers on the socket are those of      *)
(* _wait_for.  Both may be ready: the reader's callback comes first and    *)
(* sets the result; the other set_result raises InvalidStateError, which   *)
(* the loop only logs.  So does one on a cancelled future.                 *)
PollCall ==
    LET r == Readable /\ reader \in Calls
        w == Writable /\ writer \in Calls
    IN  /\ Polling
        /\ r \/ w
        /\ fut' = [t \in Calls |->
                      IF fut[t] # "pending" THEN fut[t]
                      ELSE IF r /\ reader = t THEN "reading"
                      ELSE IF w /\ writer = t THEN "writing"
                      ELSE fut[t]]
        /\ UNCHANGED <<use, call, pc, running, reader, writer, pqVars,
                       srvVars>>

(* One round of the loop when the reader is the one listen() left.         *)
PollNotify ==
    /\ Polling
    /\ reader = Notify
    /\ Readable
    /\ OnNotify
    /\ UNCHANGED <<use, kind, pc, chans, got, found, waits, running, command,
                   back>>

Woken(t) == /\ running = NoCall
            /\ pc[t] \in Suspended
            /\ fut[t] \in {"reading", "writing"}
            /\ fut' = [fut EXCEPT ![t] = "none"]
            /\ Unregister(t)

(* A waiting call goes on: back to its read loop, ...                      *)
WakeRead(t) ==
    /\ pc[t] = "reading"
    /\ Woken(t)
    /\ Move(t, "read")
    /\ running' = t
    /\ UNCHANGED <<use, call, pqVars, srvVars>>

(* ... or to its flush loop, which consumes input if there is some.        *)
WakeFlush(t) ==
    /\ pc[t] = "flushing"
    /\ Woken(t)
    /\ \/ /\ fut[t] = "writing"
          /\ Move(t, "flush")
          /\ running' = t
          /\ UNCHANGED <<inbuf, notes, link, sock>>
       \/ /\ fut[t] = "reading"
          /\ ConsumeInput
          /\ Move(t, "flush")
          /\ running' = t
       \/ /\ fut[t] = "reading"
          /\ ConsumeFails
          /\ Move(t, "failed")
          /\ UNCHANGED running
    /\ UNCHANGED <<use, call, command, back>>

(* The caller cancels a suspended call (asyncio.wait_for does at its       *)
(* timeout) ...                                                            *)
Cancel(t) ==
    /\ AllowCancel
    /\ running = NoCall
    /\ pc[t] \in Suspended
    /\ fut[t] # "cancelled"
    /\ fut' = [fut EXCEPT ![t] = "cancelled"]
    /\ UNCHANGED <<use, call, pc, running, reader, writer, pqVars, srvVars>>

(* ... and CancelledError is raised out of `yield from future'.            *)
WakeCancelled(t) ==
    /\ running = NoCall
    /\ pc[t] \in Suspended
    /\ fut[t] = "cancelled"
    /\ Move(t, "cancelled")
    /\ UNCHANGED <<use, call, waits, running, pqVars, srvVars>>

---------------------------------------------------------------------------
(***************************************************************************)
(* execute, script and listen                                              *)
(***************************************************************************)

InUse == use # "idle"

(* Mutant of ExecuteRefuses: only a second command is refused.             *)
ExecuteRefusesCommand == use = "command"
(* Mutant of ScriptRefuses: script() does not look at self.use.            *)
ScriptAccepts == FALSE

(* The checks the three methods make on entry.                             *)
ExecuteRefuses == InUse
ScriptRefuses  == InUse
ListenRefuses  == InUse

(* A call starts.  execute() makes its check with the send, see            *)
(* SendQueryParams; a listen() without channels has nothing to send.       *)
Enter(t) ==
    /\ running = NoCall
    /\ pc[t] = "start"
    /\ IF \/ kind[t] = "script" /\ ScriptRefuses
          \/ kind[t] \in {"listen", "listen none"} /\ ListenRefuses
       THEN Move(t, "refused") /\ UNCHANGED running
       ELSE /\ Move(t, IF kind[t] = "listen none" THEN "subscribe" ELSE "send")
            /\ running' = t
    /\ UNCHANGED <<use, call, waits, pqVars, srvVars>>

(* PQsendQuery and PQsendQueryParams take a command only when the last one *)
(* is over and the connection is good; on a lost one the write may fail.   *)
SendAccepted == async = "idle" /\ link # "closed"

(* Mutant of SendFails: a send that failed is waited for all the same.     *)
SendIgnored(t) == Move(t, "flush") /\ UNCHANGED running

(* _sendQuery or _sendQueryParams raises.                                  *)
SendFails(t) == Move(t, "failed") /\ running' = NoCall

(* execute(), which listen() calls for each channel, up to the send.       *)
SendQueryParams(t) ==
    /\ running = t
    /\ pc[t] = "send"
    /\ kind[t] # "script"
    /\ IF ExecuteRefuses
       THEN /\ Move(t, "refused")
            /\ running' = NoCall
            /\ UNCHANGED <<use, pqVars>>
       ELSE /\ use' = "command"
            /\ \/ /\ SendAccepted
                  /\ async' = "busy"
                  /\ cmd' = t
                  /\ out' \in 1..MaxChunks
                  /\ Move(t, "flush")
                  /\ UNCHANGED <<running, inbuf, notes, link>>
               \* a parameter that cannot be bound, or a send refused
               \/ SendFails(t) /\ UNCHANGED pqVars
    /\ UNCHANGED <<call, waits, srvVars>>

SendQuery(t) ==
    /\ running = t
    /\ pc[t] = "send"
    /\ kind[t] = "script"
    /\ \/ /\ SendAccepted
          /\ async' = "busy"
          /\ cmd' = t
          /\ out' \in 1..MaxChunks
          /\ Move(t, "flush")
          /\ UNCHANGED <<running, inbuf, notes, link>>
       \/ /\ ~SendAccepted \/ link = "lost"
          /\ SendFails(t)
          /\ UNCHANGED pqVars
    /\ UNCHANGED <<use, call, waits, srvVars>>

(* Mutant of FlushSize: the socket is taken to have room for everything.    *)
FlushAll == out

(* What PQflush gets rid of.                                               *)
FlushSize == IF out <= SendRoom - wire THEN out ELSE SendRoom - wire

(* PQflush and the loop around it: wait for both directions while there is *)
(* output left.                                                            *)
Flush(t) ==
    LET n == FlushSize
    IN  /\ running = t
        /\ pc[t] = "flush"
        /\ out' = out - n
        /\ wire' = wire + n
        /\ IF n < out
           THEN WaitFor(t, {"reading", "writing"}, "flushing")
           ELSE /\ Move(t, "read")
                /\ UNCHANGED <<running, waits>>
        /\ UNCHANGED <<use, call, async, cmd, inbuf, notes, link, sock, srv,
                       listening, produced, sent>>

FlushFails(t) ==
    /\ running = t
    /\ pc[t] = "flush"
    /\ link = "lost"
    /\ Raise(t)
    /\ UNCHANGED <<pqVars, srvVars>>

(***************************************************************************)
(* The read loop: consume until a result is complete, fetch it, repeat     *)
(* until _getResult raises StopIteration.  PQisBusy is true when libpq     *)
(* holds no complete reply of the command in progress.                     *)
(***************************************************************************)
ReadLoop(t) == running = t /\ pc[t] = "read"

ReadFails(t) ==
    /\ ReadLoop(t)
    /\ ConsumeFails
    /\ Raise(t)
    /\ UNCHANGED <<command, back>>

ReadWaits(t) ==
    /\ ReadLoop(t)
    /\ Buffered = <<>>
    /\ ConsumeInput
    /\ WaitFor(t, {"reading"}, "reading")
    /\ UNCHANGED <<use, call, command, back>>

(* A reply is complete: take it out of libpq.                              *)
TakeReply ==
    /\ ConsumeOK
    /\ inbuf' = Tail(Buffered)
    /\ notes' = notes \o netNotes
    /\ Drain

NextReply(what) == Buffered # <<>> /\ Head(Buffered).kind = what

(* Mutant of AfterResult: the call returns with its first result.          *)
ReturnFirst(t) ==
    /\ use' = "idle"
    /\ Move(t, "done")
    /\ running' = NoCall
    /\ UNCHANGED <<waits>>

(* Mutant of AfterResult: the call waits for the socket before it looks at *)
(* what libpq already holds.                                               *)
WaitFirst(t) == WaitFor(t, {"reading"}, "reading") /\ UNCHANGED use

(* After a result the loop goes round.                                     *)
AfterResult(t) == UNCHANGED <<use, pc, waits, running>>

ReadResult(t) ==
    /\ ReadLoop(t)
    /\ NextReply("ok")
    /\ TakeReply
    /\ got' = [got EXCEPT ![t] = @ + 1]
    /\ AfterResult(t)
    /\ UNCHANGED <<kind, chans, queue, found, command, link, back>>

(* The result is an error: _getResult raises it.                           *)
ReadError(t) ==
    /\ ReadLoop(t)
    /\ NextReply("err")
    /\ TakeReply
    /\ Raise(t)
    /\ UNCHANGED <<command, link, back>>

(* A COPY wants data, which nobody sends: PQgetResult returns COPY_IN each *)
(* time it is asked, _consumeInput is true, and execute() goes round its   *)
(* loop without giving way to any other call.  (The list of results grows; *)
(* got does not count it.)                                                 *)
ReadCopy(t) ==
    /\ ReadLoop(t)
    /\ NextReply("copyin")
    /\ ConsumeInput
    /\ UNCHANGED <<pyVars, command, back>>

(* What a command that is over leaves in self.use.                         *)
UseAfter(t) == IF kind[t] = "script" THEN use ELSE "idle"

(* PQgetResult returned NULL: the command is over.  listen() goes on with  *)
(* its next channel.                                                       *)
ReadEnds(t) ==
    /\ ReadLoop(t)
    /\ NextReply("rfq")
    /\ TakeReply
    /\ async' = "idle"
    /\ use' = UseAfter(t)
    /\ chans' = [chans EXCEPT ![t] = @ - 1]
    /\ \/ /\ kind[t] = "listen"
          /\ Move(t, IF chans[t] > 1 THEN "send" ELSE "subscribe")
          /\ UNCHANGED running
       \/ /\ kind[t] # "listen"
          /\ Move(t, "done")
          /\ running' = NoCall
    /\ UNCHANGED <<kind, got, waits, queue, found, cmd, out, link, back>>

(* Mutant of FirstLook: the handler alone, no first look.                  *)
NoFirstLook(t) ==
    /\ UNCHANGED <<queue, notes, inbuf, sock, link>>
    /\ Move(t, "done")

(* The end of listen(): a handler for good, and one look at what came in   *)
(* while the LISTEN commands were executed.                                *)
FirstLook(t) ==
    /\ OnNotify
    /\ Move(t, IF OnNotifyRaises THEN "failed" ELSE "done")

Subscribe(t) ==
    /\ running = t
    /\ pc[t] = "subscribe"
    /\ use' = "listening"
    /\ found' = SlotOwner
    /\ reader' = Notify
    /\ FirstLook(t)
    /\ running' = NoCall
    /\ UNCHANGED <<kind, chans, got, fut, writer, command, back>>

---------------------------------------------------------------------------
(***************************************************************************)
(* The network and the backend                                             *)
(***************************************************************************)

(* The backend reads; a complete command is executed.                      *)
ServerReads ==
    /\ link = "up"
    /\ wire > 0
    /\ wire' = wire - 1
    /\ srv' = IF wire = 1 /\ out = 0 THEN "exec" ELSE srv
    /\ UNCHANGED <<pyVars, pqVars, sock, listening, produced, sent>>

(* A statement is executed.  An error ends the command, and so does the    *)
(* only statement of a command that is not a script.  A caller may send a  *)
(* LISTEN of its own with execute() or script().                           *)
ServerResult(what) ==
    /\ link = "up"
    /\ srv = "exec"
    /\ what = "ok" => kind[cmd] # "copy"
    /\ net' = Append(net, [kind |-> what, to |-> cmd])
    /\ produced' = [produced EXCEPT ![cmd] = @ + 1]
    /\ srv' \in IF what = "ok" /\ kind[cmd] = "script"
                    /\ produced[cmd] + 1 < MaxStatements
                 THEN {"exec", "ready"} ELSE {"ready"}
    /\ listening' \in IF what = "err" THEN {listening}
                      ELSE IF kind[cmd] = "listen" THEN {TRUE}
                      ELSE {listening, TRUE}
    /\ frag' = FALSE
    /\ UNCHANGED <<pyVars, pqVars, wire, netNotes, sent>>

(* A COPY ... FROM STDIN is accepted.                                      *)
ServerCopies ==
    /\ link = "up"
    /\ srv = "exec"
    /\ kind[cmd] = "copy"
    /\ net' = Append(net, [kind |-> "copyin", to |-> cmd])
    /\ produced' = [produced EXCEPT ![cmd] = @ + 1]
    /\ srv' = "copy"
    /\ frag' = FALSE
    /\ UNCHANGED <<pyVars, pqVars, wire, netNotes, listening, sent>>

ServerReady ==
    /\ link = "up"
    /\ srv = "ready"
    /\ net' = Append(net, [kind |-> "rfq", to |-> cmd])
    /\ srv' = "idle"
    /\ frag' = FALSE
    /\ UNCHANGED <<pyVars, pqVars, wire, netNotes, listening, produced,
                   sent>>

(* Part of the next reply arrives: there is something to read, but no      *)
(* complete message.                                                       *)
Fragment ==
    /\ link = "up"
    /\ srv \in {"exec", "ready"}
    /\ ~frag
    /\ frag' = TRUE
    /\ UNCHANGED <<pyVars, pqVars, back, net, netNotes>>

(* A backend that listens sends notifications between commands.            *)
ServerNotifies ==
    /\ link = "up"
    /\ listening
    /\ srv \in {"idle", "ready"}
    /\ sent < MaxNotify
    /\ sent' = sent + 1
    /\ netNotes' = Append(netNotes, sent + 1)
    /\ UNCHANGED <<pyVars, pqVars, wire, net, frag, srv, listening,
                   produced>>

Lose ==
    /\ AllowLoss
    /\ link = "up"
    /\ link' = "lost"
    /\ UNCHANGED <<pyVars, command, inbuf, notes, srvVars>>

---------------------------------------------------------------------------
Init ==
    /\ use = "idle"
    /\ kind \in [Calls -> Kinds]
    /\ pc = [t \in Calls |-> "start"]
    /\ chans \in [Calls -> ListenCounts \cup {1}]
    /\ \A t \in Calls : kind[t] # "listen" => chans[t] = 1
    /\ got = [t \in Calls |-> 0]
    /\ fut = [t \in Calls |-> "none"]
    /\ running = NoCall /\ reader = NoCall /\ writer = NoCall
    /\ queue = <<>> /\ found = NoCall
    /\ async = "idle" /\ cmd = NoCall /\ out = 0
    /\ inbuf = <<>> /\ notes = <<>>
    /\ link = "up"
    /\ wire = 0 /\ net = <<>> /\ netNotes = <<>> /\ frag = FALSE
    /\ srv = "idle" /\ listening = FALSE
    /\ produced = [t \in Calls |-> 0]
    /\ sent = 0

(* What a call does from where it is to where it suspends or ends.         *)
Step(t) ==
    \/ SendQueryParams(t) \/ SendQuery(t)
    \/ Flush(t) \/ FlushFails(t)
    \/ ReadFails(t) \/ ReadWaits(t)
    \/ ReadResult(t) \/ ReadError(t) \/ ReadCopy(t) \/ ReadEnds(t)
    \/ Subscribe(t)

Wake(t) == WakeRead(t) \/ WakeFlush(t) \/ WakeCancelled(t)

Server == \/ ServerReads
          \/ \E what \in {"ok", "err"} : ServerResult(what)
          \/ ServerCopies
          \/ ServerReady

AllOver == \A t \in Calls : pc[t] \in Terminal

(* The calls are all over; anything else that cannot go on is a deadlock.  *)
Terminating == AllOver /\ UNCHANGED vars

Next ==
    \/ \E t \in Calls : Enter(t) \/ Step(t) \/ Wake(t) \/ Cancel(t)
    \/ PollCall \/ PollNotify
    \/ Server \/ Fragment \/ ServerNotifies \/ Lose
    \/ Terminating

(* The loop runs what is ready and polls, and a backend finishes what it   *)
(* started; nobody has to make a call, cancel one, notify or disconnect.   *)
Fairness ==
    /\ \A t \in Calls : WF_vars(Step(t)) /\ WF_vars(Wake(t))
    /\ WF_vars(PollCall) /\ WF_vars(PollNotify)
    /\ WF_vars(Server)

Spec == Init /\ [][Next]_vars
FairSpec == Spec /\ Fairness

---------------------------------------------------------------------------
(***************************************************************************)
(* Properties                                                              *)
(***************************************************************************)

PyTypes ==
    /\ use \in {"idle", "command", "listening"}
    /\ kind \in [Calls -> Kinds]
    /\ pc \in [Calls -> Locations]
    /\ chans \in [Calls -> Nat]
    /\ got \in [Calls -> Nat]
    /\ fut \in [Calls -> {"none", "pending", "reading", "writing",
                          "cancelled"}]
    /\ running \in Calls \cup {NoCall}
    /\ reader \in Calls \cup {NoCall, Notify}
    /\ writer \in Calls \cup {NoCall}
    /\ queue \in Seq(Nat)
    /\ found \in Calls \cup {NoCall}

PqTypes ==
    /\ async \in {"idle", "busy"}
    /\ cmd \in Calls \cup {NoCall}
    /\ out \in 0..MaxChunks
    /\ inbuf \in Seq(Reply)
    /\ notes \in Seq(Nat)
    /\ link \in {"up", "lost", "closed"}

BackTypes ==
    /\ wire \in 0..SendRoom
    /\ net \in Seq(Reply)
    /\ netNotes \in Seq(Nat)
    /\ frag \in BOOLEAN
    /\ srv \in {"idle", "exec", "ready", "copy"}
    /\ listening \in BOOLEAN
    /\ produced \in [Calls -> Nat]
    /\ sent \in 0..MaxNotify

TypeOK == PyTypes /\ PqTypes /\ BackTypes

Active(t) == pc[t] \notin Terminal \cup {"start"}

(* listen() took the handler of the call it found waiting.                 *)
Overtaken(t) == found = t /\ fut[t] = "pending" /\ reader = Notify

(* No wake-up is lost: a call that waits for the socket is what add_reader *)
(* registered for it, and what add_writer did if it waits for both.  One   *)
(* socket has one reader, so a second waiter, or listen(), would take its  *)
(* place and leave the first asleep.  One pair of calls can do this: a     *)
(* listen() without channels, which sends nothing that libpq could refuse, *)
(* takes the reader of a script(), which does not set self.use.            *)
WaiterRegistered ==
    /\ \A t \in Calls :
           fut[t] = "pending" => /\ reader = t \/ Overtaken(t)
                                 /\ pc[t] = "flushing" => writer = t
    /\ found # NoCall =>
           /\ kind[found] = "script"
           /\ \E t \in Calls : kind[t] = "listen none" /\ pc[t] \in Terminal

(* At most one call is between its send and its last result, although      *)
(* script() does not mark the connection as used.                          *)
OneCommand ==
    \A t, u \in Calls : pc[t] \in Talking /\ pc[u] \in Talking => t = u

(* The replies that are on their way, or in libpq, while a call talks to   *)
(* the backend are the replies to its own command, also after calls that   *)
(* were refused, failed or cancelled: execute() never returns the result   *)
(* of another call.                                                        *)
OwnReplies ==
    \A t \in Calls : pc[t] \in Talking =>
        \A i \in 1..Len(Buffered) : Buffered[i].to = t

(* A call that returns has collected every result of its commands, and has *)
(* left nothing of them behind for the next one: not in libpq, not on the  *)
(* socket, not in the backend.  Only a listen() without channels, which    *)
(* sends no command, returns without a result.                             *)
ResultsComplete ==
    \A t \in Calls : pc[t] = "done" =>
        /\ got[t] = produced[t]
        /\ got[t] = 0 <=> kind[t] = "listen none"
        /\ \A i \in 1..Len(Buffered) : Buffered[i].to # t
        /\ cmd = t => async = "idle" /\ srv = "idle" /\ out = 0

(* A listening connection has no command in progress but the one listen()  *)
(* found, and no call that talks but the one that sent it: otherwise the   *)
(* handler _on_notify takes the socket from no call that waits.            *)
(* (asyncpglib: "a connection can either be used for executing or          *)
(* listening".)                                                            *)
ListenExclusive ==
    use = "listening" =>
        /\ reader = Notify \/ found # NoCall
        /\ SlotOwner \in {NoCall, found}
        /\ \A t \in Calls : pc[t] \in Talking => t = found

(* Once a connection listens it does so until it is dropped: self.use      *)
(* stays, and the handler stays on the socket.  Only the call listen()     *)
(* found takes it off, when it wakes up and removes what it believes to be *)
(* its own reader: nothing is delivered from then on.                      *)
KeepsListening ==
    [][use = "listening" =>
           /\ use' = "listening"
           /\ reader = Notify =>
                  \/ reader' = Notify
                  \/ \E t \in Calls : found = t /\ pc[t] \in Suspended
                                      /\ pc'[t] # pc[t]]_vars

(* Every notification the backend sent is in the queue, in libpq or in the *)
(* socket: none is lost, repeated or out of order.  And when the loop goes *)
(* to poll, a listening connection has none in libpq, where no socket      *)
(* event would tell of it, unless listen() found a command in progress.    *)
(* (When the connection is lost before the first look of listen(), the     *)
(* look raises: what libpq held is dropped with the call.)                 *)
NotificationsConserved ==
    /\ queue \o notes \o netNotes = [i \in 1..sent |-> i]
    /\ use = "listening" /\ link # "closed" => notes = <<>> \/ found # NoCall

(* How a call ended, as its caller sees it.                                *)
EndingOf(t) == CASE pc[t] = "done" -> "returned"
                 [] pc[t] \in Terminal \ {"done"} -> "raised"
                 [] OTHER -> "none"

Slot == INSTANCE CommandSlot WITH
            Nobody    <- NoCall,
            slot      <- SlotOwner,
            answers   <- produced,
            collected <- got,
            ending    <- [t \in Calls |-> EndingOf(t)]

(* The connection is a command slot: a call takes results only of its own  *)
(* command, returns only with all of them, and whatever refusals, errors,  *)
(* cancels and losses come in between, a command that was not read to its  *)
(* end is never followed by another.                                       *)
ImplementsSlot == Slot!SlotSpec

(* Nothing but a cancel leaves a handler of _wait_for on the socket.       *)
HandlersLeft ==
    \A t \in Calls :
        t \in {reader, writer} => pc[t] \in Suspended \cup {"cancelled"}

(* self.use is "Is the connection in-use and what is it being used for?".  *)
(* A connection in use for a command has a call that uses it.              *)
CommandHasCall ==
    use = "command" => \E t \in Calls : Active(t)

(* A COPY keeps the event loop to itself.                                  *)
Hung == \E t \in Calls : running = t /\ kind[t] = "copy" /\ srv = "copy"

(* A call that starts returns or raises, whether results are complete,     *)
(* partial, errors, or the connection is lost.  It sleeps for good only if *)
(* a listen() without channels took its handler, or the loop itself hangs  *)
(* in the COPY of an execute().                                            *)
CallsEnd ==
    \A t \in Calls : Active(t) ~> (pc[t] \in Terminal \/ []Hung \/ []Overtaken(t))

(* A listening connection delivers every notification it was sent, unless  *)
(* it is lost first, or its handler was taken off (see KeepsListening).    *)
NotificationsDelivered ==
    \A n \in 1..MaxNotify :
        (use = "listening" /\ sent >= n)
            ~> (Len(queue) >= n \/ link = "closed" \/ reader # Notify)
===========================================================================
