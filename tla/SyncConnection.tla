--------------------------- MODULE SyncConnection ---------------------------
(***************************************************************************)
(* The synchronous half of pglib: the methods of Connection in             *)
(* src/connection.cpp (execute, row, scalar, script, copy_from_csv, begin, *)
(* commit, rollback, reset) that one program calls one after the other,    *)
(* the state libpq keeps between them, and the backend's transaction.      *)
(*                                                                         *)
(* A method blocks in PQexec while the backend works; copy_from_csv does   *)
(* not wait for the end of its COPY, which the backend reaches on its own. *)
(* The session may be lost at any time.  libpq and the backend are         *)
(* external.  Each call writes one row, named by the number of the call.   *)
(***************************************************************************)
EXTENDS Naturals, Sequences, FiniteSets

CONSTANTS Methods,      \* the methods the program calls
          MaxCalls,     \* how many calls it makes
          MaxReads,     \* reads a file-like source of copy_from_csv returns
          AllowLoss     \* whether the session may be lost

ASSUME MethodsAssumption ==
    Methods \subseteq {"execute", "row", "script", "copy_from_csv", "begin",
                       "commit", "rollback", "reset"}
ASSUME SyncBoundsAssumption ==
    MaxCalls \in Nat /\ MaxReads \in Nat \ {0} /\ AllowLoss \in BOOLEAN

VARIABLES
    \* ---- the program
    n,          \* the number of the current, or last, call
    method,     \* its method
    stmts,      \* the statements it sends
    phase,      \* ready (between calls), send, wait (in PQexec), copying,
                \* crashed (the process aborted)
    outcome,    \* how the last call ended
    reads,      \* reads left in the source of a copy
    \* ---- libpq
    async,      \* asyncStatus: idle, busy (results to come), copyin
    xact,       \* the transaction status of the last ReadyForQuery
    link,       \* ok, or bad once libpq saw the session's end
    \* ---- the backend
    alive,      \* whether the session lives
    srv,        \* idle, query, copy (wants data), copydone, copyfail
    todo,       \* statements left of the query
    reply,      \* what it answered and libpq has not read
    rfq,        \* the transaction status that came with the answer
    txn,        \* the transaction: idle, intrans, inerror
    work,       \* rows written and not committed
    db,         \* rows committed
    copier,     \* the call whose COPY it executes, or executed last
    rejected,   \* copies that ended with an error
    \* ---- what the program may conclude from the calls it made
    acked,      \* rows of calls that returned in the current transaction
    kept,       \* rows it was told are committed
    undone,     \* rows it was told are not there
    copied      \* copies that returned

prog    == <<n, method, stmts>>
pq      == <<async, xact, link>>
data    == <<txn, work, db>>
backend == <<srv, todo, reply, rfq, copier, rejected, data>>
told    == <<acked, kept, undone, copied>>
vars    == <<prog, phase, outcome, reads, pq, alive, backend, told>>

(* PQtransactionStatus.                                                    *)
TxnStatus == IF link = "bad" THEN "unknown"
             ELSE IF async # "idle" THEN "active" ELSE xact

---------------------------------------------------------------------------
(***************************************************************************)
(* Entry of a method                                                       *)
(***************************************************************************)

(* Mutants: begin() does not look at the status; commit() and rollback()   *)
(* take all but an open transaction for nothing to do.                     *)
BeginAlways == TRUE
CommitNothing == TxnStatus # "intrans"
RollbackNothing == TxnStatus # "intrans"

(* begin() starts only from idle; commit() and rollback() send only in a   *)
(* transaction, return in idle, and raise otherwise.                       *)
BeginSends      == TxnStatus = "idle"
CommitSends     == TxnStatus = "intrans"
CommitReturns   == TxnStatus = "idle"
RollbackSends   == TxnStatus = "intrans"
RollbackReturns == TxnStatus = "idle"

StmtsOf(m) ==
    CASE m \in {"execute", "row"} -> {<<"write">>}
      [] m = "script" -> {<<"write">>, <<"write", "write">>, <<"begin", "write">>}
      [] m = "copy_from_csv" -> {<<"copy">>}
      [] m \in {"begin", "commit", "rollback"} -> {<<m>>}

Sends(m) ==
    CASE m = "begin"    -> BeginSends
      [] m = "commit"   -> CommitSends
      [] m = "rollback" -> RollbackSends
      [] OTHER          -> TRUE

ReturnsAtOnce(m) == \/ m = "commit" /\ CommitReturns
                    \/ m = "rollback" /\ RollbackReturns

(* A call ends without a word from the backend.                            *)
EndCall(how) == phase' = "ready" /\ outcome' = how

(* What a program concludes when its call c of method m returns, and the   *)
(* last transaction status is t.                                           *)
Concludes(c, m, t) ==
    CASE m = "commit" ->
           kept' = kept \cup acked /\ acked' = {} /\ UNCHANGED undone
      [] m = "rollback" ->
           undone' = undone \cup acked /\ acked' = {} /\ UNCHANGED kept
      [] m = "begin" ->
           UNCHANGED <<acked, kept, undone>>
      [] OTHER ->
           IF t = "idle"
           THEN kept' = kept \cup {c} /\ UNCHANGED <<acked, undone>>
           ELSE acked' = acked \cup {c} /\ UNCHANGED <<kept, undone>>

Call(m) ==
    /\ phase = "ready"
    /\ n < MaxCalls
    /\ n' = n + 1
    /\ method' = m
    /\ stmts' \in StmtsOf(m)
    /\ CASE Sends(m) ->
              /\ phase' = "send" /\ outcome' = "none"
              /\ UNCHANGED <<acked, kept, undone>>
         [] ReturnsAtOnce(m) ->
              EndCall("ok") /\ Concludes(n + 1, m, xact)
         [] OTHER ->
              EndCall("raised") /\ UNCHANGED <<acked, kept, undone>>
    /\ UNCHANGED <<reads, pq, alive, backend, copied>>

(* reset(): PQreset gives up the session and connects again, or fails to.  *)
(* The old backend may still finish a COPY whose data it has.              *)
Reset ==
    /\ phase = "ready"
    /\ n < MaxCalls
    /\ n' = n + 1
    /\ method' = "reset"
    /\ outcome' = "ok"
    /\ alive' \in (IF AllowLoss THEN BOOLEAN ELSE {TRUE})
    /\ link' = IF alive' THEN "ok" ELSE "bad"
    /\ async' = "idle" /\ xact' = "idle"
    /\ srv' = "idle" /\ todo' = <<>> /\ reply' = "none"
    /\ rfq' = "idle" /\ txn' = "idle" /\ work' = {}
    /\ \/ UNCHANGED db
       \/ srv = "copydone" /\ txn = "idle" /\ db' = db \cup {copier}
    /\ acked' = {}
    /\ undone' = undone \cup acked
    /\ UNCHANGED <<stmts, phase, reads, copier, rejected, kept, copied>>

---------------------------------------------------------------------------
(***************************************************************************)
(* PQexec                                                                  *)
(***************************************************************************)

(* PQexecStart throws away what an earlier command left: it ends a COPY    *)
(* that still wants data, and reads results up to the last.                *)
DrainCopy ==
    /\ phase = "send" /\ async = "copyin" /\ alive
    /\ async' = "busy"
    /\ srv' = "copyfail"
    /\ UNCHANGED <<prog, phase, outcome, reads, xact, link, alive, todo,
                   reply, rfq, copier, rejected, data, told>>

DrainResults ==
    /\ phase = "send" /\ async = "busy" /\ reply # "none"
    /\ async' = "idle"
    /\ xact' = rfq
    /\ reply' = "none"
    /\ UNCHANGED <<prog, phase, outcome, reads, link, alive, srv, todo, rfq,
                   copier, rejected, data, told>>

DrainFails ==
    /\ phase = "send" /\ async # "idle" /\ reply = "none" /\ ~alive
    /\ async' = "idle"
    /\ link' = "bad"
    /\ UNCHANGED <<prog, phase, outcome, reads, xact, alive, backend, told>>

Send ==
    /\ phase = "send" /\ async = "idle" /\ link = "ok"
    /\ phase' = "wait"
    /\ async' = "busy"
    /\ IF alive THEN srv' = "query" /\ todo' = stmts
                ELSE UNCHANGED <<srv, todo>>
    /\ UNCHANGED <<prog, outcome, reads, xact, link, alive, reply, rfq,
                   copier, rejected, data, told>>

(* PQexec cannot send: it returns no result, for which most methods raise. *)
SendFails ==
    /\ phase = "send" /\ async = "idle" /\ ~alive
    /\ link' = "bad"
    /\ EndCall("raised")
    /\ acked' = {}
    /\ UNCHANGED <<prog, reads, async, xact, alive, backend, kept, undone,
                   copied>>

(* begin(), commit() and rollback() hand an error result to SetResultError *)
(* and keep it: PQclear runs twice on it, which may abort the process or   *)
(* go unnoticed.                                                           *)
ClearsTwice == method \in {"begin", "commit", "rollback"}

ErrorResult ==
    \/ EndCall("raised")
    \/ ClearsTwice /\ phase' = "crashed" /\ UNCHANGED outcome

(* The session ends while PQexec waits: libpq makes an error result.       *)
WaitFails ==
    /\ phase = "wait" /\ reply = "none" /\ ~alive
    /\ link' = "bad"
    /\ async' = "idle"
    /\ ErrorResult
    /\ acked' = {}
    /\ UNCHANGED <<prog, reads, xact, alive, backend, kept, undone, copied>>

---------------------------------------------------------------------------
(***************************************************************************)
(* What the methods make of the result                                     *)
(***************************************************************************)

(* libpq has read up to ReadyForQuery.                                     *)
Answered(what) ==
    /\ phase = "wait"
    /\ reply = what
    /\ reply' = "none"
    /\ async' = "idle"
    /\ xact' = rfq
    /\ UNCHANGED <<prog, reads, link, alive, srv, todo, rfq, copier, rejected,
                   data>>

ReturnsOK ==
    /\ Answered("ok")
    /\ Concludes(n, method, rfq)
    /\ phase' = "ready" /\ outcome' = "ok"
    /\ UNCHANGED copied

(* row() and scalar() raise when the statement was no query or returned    *)
(* more than one row.                                                      *)
RowRaises ==
    /\ method = "row"
    /\ Answered("ok")
    /\ EndCall("raised")
    /\ UNCHANGED <<acked, kept, undone, copied>>

(* The backend reports an error: the call wrote nothing, and an open       *)
(* transaction is lost with it.                                            *)
ReturnsError ==
    /\ Answered("err")
    /\ ErrorResult
    /\ undone' = undone \cup {n} \cup acked
    /\ acked' = {}
    /\ UNCHANGED <<kept, copied>>

(* copy_from_csv goes on when the result is PGRES_COPY_IN.                 *)
CopyStarts ==
    /\ phase = "wait" /\ reply = "copyin"
    /\ phase' = "copying"
    /\ async' = "copyin"
    /\ reply' = "none"
    /\ reads' \in 1..MaxReads
    /\ UNCHANGED <<prog, outcome, xact, link, alive, srv, todo, rfq, copier,
                   rejected, data, told>>

(* Mutant of MoreData: the source is read again after its end.             *)
ReadAgain == TRUE
MoreData == reads > 0

(* A read of the source, and PQputCopyData: it goes into the send buffer,  *)
(* whether or not the backend still reads.                                 *)
CopyData ==
    /\ phase = "copying" /\ MoreData
    /\ reads' = reads - 1
    /\ UNCHANGED <<prog, phase, outcome, pq, alive, backend, told>>

(* Mutant of SourceFails: the COPY is ended as if the source was at its    *)
(* end.                                                                    *)
EndCopyAnyway == async' = "busy" /\ srv' = IF alive THEN "copydone" ELSE srv

(* The source raises, or returns something that is neither str nor bytes:  *)
(* the method returns at once and leaves the COPY open.                    *)
SourceFails == UNCHANGED <<async, srv>>

CopyReadFails ==
    /\ phase = "copying"
    /\ SourceFails
    /\ EndCall("raised")
    /\ undone' = undone \cup {n}
    /\ UNCHANGED <<prog, reads, xact, link, alive, todo, reply, rfq, copier,
                   rejected, data, acked, kept, copied>>

CopyPutFails ==
    /\ phase = "copying" /\ ~alive
    /\ EndCall("raised")
    /\ acked' = {}
    /\ UNCHANGED <<prog, reads, pq, alive, backend, kept, undone, copied>>

(* Mutant of AtEndOfFile: an empty read does not end the loop.             *)
NeverAtEnd == FALSE
AtEndOfFile == reads = 0

(* PQputCopyEnd, and the method returns: nobody asked for the result.      *)
CopyEnds ==
    /\ phase = "copying" /\ AtEndOfFile
    /\ async' = "busy"
    /\ srv' = IF alive THEN "copydone" ELSE srv
    /\ phase' = "ready" /\ outcome' = "ok"
    /\ copied' = copied \cup {n}
    /\ acked' = IF xact = "intrans" THEN acked \cup {n} ELSE acked
    /\ UNCHANGED <<prog, reads, xact, link, alive, todo, reply, rfq, copier,
                   rejected, data, kept, undone>>

---------------------------------------------------------------------------
(***************************************************************************)
(* The backend                                                             *)
(***************************************************************************)

(* The query is over: outside a transaction its work is committed.         *)
EndOfQuery(what, t, w) ==
    /\ srv' = "idle"
    /\ todo' = <<>>
    /\ reply' = what
    /\ rfq' = t
    /\ txn' = t
    /\ work' = IF t = "idle" THEN {} ELSE w
    /\ db' = IF t = "idle" THEN db \cup w ELSE db

(* A statement succeeds.                                                   *)
Succeeds(t, w) ==
    IF Len(todo) = 1
    THEN EndOfQuery("ok", t, w)
    ELSE /\ todo' = Tail(todo) /\ txn' = t /\ work' = w
         /\ UNCHANGED <<srv, reply, rfq, db>>

(* A statement fails: the rest is skipped, the transaction is aborted.     *)
Fails == EndOfQuery("err", IF txn = "idle" THEN "idle" ELSE "inerror", {})

Executes(s) == /\ alive /\ srv = "query" /\ Head(todo) = s
               /\ UNCHANGED <<prog, phase, outcome, reads, pq, alive,
                              rejected, told>>

BackendWrites ==
    /\ Executes("write")
    /\ UNCHANGED copier
    /\ IF txn = "inerror" THEN Fails
       ELSE Succeeds(txn, work \cup {n}) \/ Fails

BackendBegins ==
    /\ Executes("begin")
    /\ UNCHANGED copier
    /\ IF txn = "inerror" THEN Fails ELSE Succeeds("intrans", work)

(* COMMIT of a failed transaction rolls it back and reports no error; a    *)
(* deferred constraint may fail a COMMIT.                                  *)
BackendCommits ==
    /\ Executes("commit")
    /\ UNCHANGED copier
    /\ \/ Succeeds("idle", IF txn = "inerror" THEN {} ELSE work)
       \/ txn = "intrans" /\ EndOfQuery("err", "idle", {})

BackendRollsBack ==
    /\ Executes("rollback")
    /\ UNCHANGED copier
    /\ Succeeds("idle", {})

BackendCopies ==
    /\ Executes("copy")
    /\ IF txn = "inerror" THEN Fails
       ELSE \/ Fails
            \/ /\ srv' = "copy" /\ todo' = <<>> /\ reply' = "copyin"
               /\ UNCHANGED <<rfq, data>>
    /\ copier' = n

(* The end of the data: the rows are good, or the COPY fails.              *)
BackendCopyDone ==
    /\ alive /\ srv = "copydone"
    /\ \/ EndOfQuery("ok", txn, work \cup {copier}) /\ UNCHANGED rejected
       \/ Fails /\ rejected' = rejected \cup {copier}
    /\ UNCHANGED <<prog, phase, outcome, reads, pq, alive, copier, told>>

BackendCopyFails ==
    /\ alive /\ srv = "copyfail"
    /\ Fails
    /\ UNCHANGED <<prog, phase, outcome, reads, pq, alive, copier, rejected,
                   told>>

(* The session ends: the backend gives up its work, and an answer on its   *)
(* way may be lost.  A backend that works on for a while and then ends is  *)
(* one that was lost later.                                                *)
Lose ==
    /\ AllowLoss /\ alive
    /\ alive' = FALSE
    /\ srv' = "idle" /\ todo' = <<>> /\ txn' = "idle" /\ work' = {}
    /\ reply' \in {reply, "none"}
    /\ UNCHANGED <<prog, phase, outcome, reads, pq, rfq, copier, rejected, db,
                   told>>

---------------------------------------------------------------------------
Init ==
    /\ n = 0 /\ method = "reset" /\ stmts = <<>>
    /\ phase = "ready" /\ outcome = "none" /\ reads = 0
    /\ async = "idle" /\ xact = "idle" /\ link = "ok"
    /\ alive = TRUE
    /\ srv = "idle" /\ todo = <<>> /\ reply = "none" /\ rfq = "idle"
    /\ copier = 0 /\ rejected = {}
    /\ txn = "idle" /\ work = {} /\ db = {}
    /\ acked = {} /\ kept = {} /\ undone = {} /\ copied = {}

Client ==
    \/ DrainCopy \/ DrainResults \/ DrainFails \/ Send \/ SendFails \/ WaitFails
    \/ ReturnsOK \/ RowRaises \/ ReturnsError
    \/ CopyStarts \/ CopyData \/ CopyPutFails \/ CopyEnds

Backend ==
    \/ BackendWrites \/ BackendBegins \/ BackendCommits \/ BackendRollsBack
    \/ BackendCopies \/ BackendCopyDone \/ BackendCopyFails

(* The program made its calls, or is gone.                                 *)
Terminating == /\ (phase = "ready" /\ n = MaxCalls) \/ phase = "crashed"
               /\ UNCHANGED vars

Next ==
    \/ \E m \in Methods \ {"reset"} : Call(m)
    \/ "reset" \in Methods /\ Reset
    \/ Client \/ CopyReadFails \/ Backend \/ Lose \/ Terminating

(* A method that started goes on, and so does a backend with work to do;   *)
(* nobody has to make a call, fail a read or lose the session.             *)
Fairness == WF_vars(Client) /\ WF_vars(Backend)

Spec == Init /\ [][Next]_vars
FairSpec == Spec /\ Fairness

---------------------------------------------------------------------------
(***************************************************************************)
(* Properties                                                              *)
(***************************************************************************)

Rows == 1..MaxCalls

ProgTypes ==
    /\ n \in 0..MaxCalls
    /\ method \in Methods \cup {"reset"}
    /\ stmts \in Seq({"write", "begin", "commit", "rollback", "copy"})
    /\ phase \in {"ready", "send", "wait", "copying", "crashed"}
    /\ outcome \in {"none", "ok", "raised"}
    /\ reads \in 0..MaxReads
    /\ async \in {"idle", "busy", "copyin"}
    /\ xact \in {"idle", "intrans", "inerror"}
    /\ link \in {"ok", "bad"}

BackendTypes ==
    /\ alive \in BOOLEAN
    /\ srv \in {"idle", "query", "copy", "copydone", "copyfail"}
    /\ todo \in Seq({"write", "begin", "commit", "rollback", "copy"})
    /\ reply \in {"none", "ok", "err", "copyin"}
    /\ rfq \in {"idle", "intrans", "inerror"}
    /\ txn \in {"idle", "intrans", "inerror"}
    /\ copier \in 0..MaxCalls
    /\ work \subseteq Rows /\ db \subseteq Rows /\ rejected \subseteq Rows

ToldTypes ==
    /\ acked \subseteq Rows /\ kept \subseteq Rows /\ undone \subseteq Rows
    /\ copied \subseteq Rows

TypeOK == ProgTypes /\ BackendTypes /\ ToldTypes

(* What a program was told is committed is in the database: a statement    *)
(* outside a transaction that returned, and everything, copies included,   *)
(* that returned in a transaction whose commit() returned.                 *)
KeptIsDurable == kept \subseteq db

(* What a program was told is undone never gets into the database: a call  *)
(* the backend answered with an error, a copy whose source failed, and     *)
(* what a transaction held that failed, or that rollback() or reset()      *)
(* ended.                                                                  *)
UndoneStaysOut == undone \cap db = {}

JustReturned(ms) == phase = "ready" /\ method \in ms /\ outcome = "ok" /\ alive

(* A transaction that begin() started holds nothing of what was done       *)
(* before, and commit() and rollback() leave none open.                    *)
TransactionsDelimited ==
    /\ JustReturned({"begin"}) => txn = "intrans" /\ work = {}
    /\ JustReturned({"commit", "rollback"}) => txn = "idle"

(* A copy that returned had its rows taken: the backend did not reject it. *)
(* (api.rst: Error is "The error class raised for all errors".)            *)
CopyErrorsRaised == copied \cap rejected = {}

(* rollback() rolls back a transaction that is active.                     *)
RollbackActive ==
    [][n' > n /\ method' = "rollback" /\ alive /\ txn = "inerror"
       => outcome' # "raised"]_vars

(* A call that started returns, raises or ends the process, whatever the   *)
(* backend and the source do.                                              *)
InCall == phase \in {"send", "wait", "copying"}
CallsReturn == InCall ~> ~InCall
===========================================================================
