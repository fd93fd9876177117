---------------------------- MODULE SyncNotifies ----------------------------
(***************************************************************************)
(* Connection.notifies(timeout) of src/connection.cpp: a program waits     *)
(* with select for the next notification of a connection it also executes  *)
(* statements on.  On the socket come notifications, whole or in two       *)
(* parts, and messages that are none (a parameter of the server changed, a *)
(* notice); the connection may end, fall silent, or a signal may come.     *)
(* libpq, the network and the backend are external.                        *)
(***************************************************************************)
EXTENDS Naturals, Sequences

CONSTANTS MaxNotify,     \* notifications the backend sends
          MaxOther,      \* other messages it sends
          MaxSignals,    \* signals that interrupt a select
          Timeouts,      \* what the program passes: forever, finite, bad
                         \* (negative), huge (out of the range of an int, or
                         \* not a number)
          AllowLoss      \* whether the connection may be lost

ASSUME NotifiesAssumption ==
    /\ MaxNotify \in Nat /\ MaxOther \in Nat /\ MaxSignals \in Nat
    /\ Timeouts \subseteq {"forever", "finite", "bad", "huge"}
    /\ AllowLoss \in BOOLEAN

VARIABLES
    \* ---- the program
    pc,         \* ready (between calls), select (about to wait), waiting,
                \* woken (select returned)
    timeout,    \* the timeout of the call, as select gets it
    expired,    \* whether select returned because of it
    outcome,    \* how the last call ended: none yet, a notification, None,
                \* raised
    other,      \* whether the call took something else off the socket
    got,        \* the notifications it was given, in order
    signals,    \* signals that came
    \* ---- libpq
    notes,      \* notifications read and not fetched
    \* ---- the socket and the backend
    net,        \* notifications in the socket's buffer
    noise,      \* whether there are other bytes in it
    half,       \* whether the first part of the next one is on its way
    sent,       \* notifications sent
    others,     \* other messages sent
    link        \* up, lost (end of file), silent, closed by libpq

ended == <<expired, outcome>>
prog  == <<pc, timeout, ended, other, got, signals>>
sock  == <<net, noise>>
peer  == <<half, sent, others>>
vars  == <<prog, notes, sock, peer, link>>

---------------------------------------------------------------------------
(***************************************************************************)
(* notifies(timeout)                                                       *)
(***************************************************************************)

Readable == net # <<>> \/ noise \/ link = "lost"

End(how) == pc' = "ready" /\ outcome' = how

(* PQconsumeInput fails when there is an end of file and nothing before it.*)
ConsumeOK == \/ link \in {"up", "silent"}
             \/ link = "lost" /\ (net # <<>> \/ noise)

(* What libpq holds when PQconsumeInput has read the socket.               *)
All == notes \o net

(* Mutant of Fetched: PQnotifies before PQconsumeInput.                    *)
FetchedBefore == notes
(* What PQnotifies takes the first of.                                     *)
Fetched == All

(* Mutants of Kept: the one given to the program is not taken off; those   *)
(* that came with it are thrown away.                                      *)
KeepsAll == All
KeepsNone == <<>>
Kept == Tail(All)

(* PQconsumeInput and PQnotifies, before the wait and after it: the call   *)
(* raises, returns a notification, or goes on as given.                    *)
Look(goOn) ==
    IF ~ConsumeOK
    THEN /\ End("raised")
         /\ link' = "closed"
         /\ UNCHANGED <<other, got, notes, sock>>
    ELSE /\ net' = <<>> /\ noise' = FALSE
         /\ other' = (other \/ noise)
         /\ IF Fetched # <<>>
            THEN /\ End("notification")
                 /\ got' = Append(got, Head(Fetched))
                 /\ notes' = Kept
            ELSE /\ goOn
                 /\ notes' = All
                 /\ UNCHANGED got
         /\ UNCHANGED link

GoOn(to) == pc' = to /\ UNCHANGED outcome

(* Seconds that no int holds are cast to one all the same, which C++ does  *)
(* not define: on some machines to a negative number, on others not.       *)
Cast(t) == IF t = "huge" THEN {"bad", "finite"} ELSE {t}

Notifies(t) ==
    /\ pc = "ready"
    /\ timeout' \in Cast(t)
    /\ expired' = FALSE
    /\ pc' = "look" /\ outcome' = "none" /\ other' = FALSE
    /\ UNCHANGED <<got, signals, notes, sock, peer, link>>

LookFirst ==
    /\ pc = "look"
    /\ Look(GoOn("waiting"))
    /\ UNCHANGED <<timeout, expired, signals, peer>>

(* select returns: the socket can be read, ...                             *)
SelectReads ==
    /\ pc = "waiting" /\ timeout # "bad"
    /\ Readable
    /\ pc' = "woken"
    /\ UNCHANGED <<timeout, ended, other, got, signals, notes, sock, peer,
                   link>>

(* Mutant of Timed: the timeout is not handed to select.                   *)
NeverTimed == FALSE
Timed == timeout = "finite"

(* ... the timeout is over and there was nothing, ...                      *)
SelectExpires ==
    /\ pc = "waiting" /\ Timed
    /\ ~Readable
    /\ expired' = TRUE
    /\ End("None")
    /\ UNCHANGED <<timeout, other, got, signals, notes, sock, peer, link>>

(* ... or it fails: a timeout it does not take, or a signal.               *)
SelectFails ==
    /\ pc = "waiting"
    /\ \/ timeout = "bad" /\ UNCHANGED signals
       \/ signals < MaxSignals /\ signals' = signals + 1
    /\ End("raised")
    /\ UNCHANGED <<timeout, expired, other, got, notes, sock, peer, link>>

(* Mutant of AfterWait: the code trusts select and looks only at what      *)
(* libpq already has.                                                      *)
ReturnNone == End("None") /\ UNCHANGED <<other, got, notes, sock, link>>

(* One more look; when it was not a notification the call returns None.    *)
AfterWait == Look(End("None"))

LookAgain ==
    /\ pc = "woken"
    /\ AfterWait
    /\ UNCHANGED <<timeout, expired, signals, peer>>

(* Another method reads whatever comes with its answer: notifications stay *)
(* in libpq, the end of the connection makes it fail.                      *)
Executes ==
    /\ pc = "ready" /\ link \in {"up", "lost"}
    /\ IF ConsumeOK
       THEN net' = <<>> /\ noise' = FALSE /\ UNCHANGED link
       ELSE link' = "closed" /\ UNCHANGED sock
    /\ notes' = IF ConsumeOK THEN All ELSE notes
    /\ UNCHANGED <<prog, peer>>

---------------------------------------------------------------------------
(***************************************************************************)
(* The network and the backend                                             *)
(***************************************************************************)

SendHalf ==
    /\ link = "up" /\ sent < MaxNotify /\ ~half
    /\ half' = TRUE /\ noise' = TRUE
    /\ UNCHANGED <<prog, notes, net, sent, others, link>>

Send ==
    /\ link = "up" /\ sent < MaxNotify
    /\ sent' = sent + 1
    /\ net' = Append(net, sent + 1)
    /\ half' = FALSE
    /\ noise' = (noise /\ ~half)
    /\ UNCHANGED <<prog, notes, others, link>>

SendOther ==
    /\ link = "up" /\ others < MaxOther /\ ~half
    /\ others' = others + 1
    /\ noise' = TRUE
    /\ UNCHANGED <<prog, notes, net, half, sent, link>>

Lose(how) ==
    /\ AllowLoss
    /\ link = "up"
    /\ link' = how
    /\ UNCHANGED <<prog, notes, sock, peer>>

---------------------------------------------------------------------------
Init ==
    /\ pc = "ready" /\ timeout = "forever" /\ expired = FALSE
    /\ outcome = "none" /\ other = FALSE /\ got = <<>> /\ signals = 0
    /\ notes = <<>> /\ net = <<>> /\ noise = FALSE /\ half = FALSE
    /\ sent = 0 /\ others = 0 /\ link = "up"

Waits == LookFirst \/ SelectReads \/ SelectExpires \/ SelectFails \/ LookAgain

Calls == \E t \in Timeouts : Notifies(t)

Peer == Send \/ SendHalf \/ SendOther

Next == Calls \/ Waits \/ Executes \/ Peer
        \/ \E how \in {"lost", "silent"} : Lose(how)

(* select returns when it can, a program that waits for notifications      *)
(* calls notifies() again, and what the backend began to send arrives.     *)
Fairness == WF_vars(Waits) /\ SF_vars(Calls) /\ WF_vars(half /\ Send)

Spec == Init /\ [][Next]_vars
FairSpec == Spec /\ Fairness

---------------------------------------------------------------------------
(***************************************************************************)
(* Properties                                                              *)
(***************************************************************************)

TypeOK ==
    /\ pc \in {"ready", "look", "waiting", "woken"}
    /\ timeout \in {"forever", "finite", "bad"} /\ expired \in BOOLEAN
    /\ outcome \in {"none", "notification", "None", "raised"}
    /\ other \in BOOLEAN /\ got \in Seq(1..MaxNotify)
    /\ signals \in 0..MaxSignals
    /\ notes \in Seq(1..MaxNotify) /\ net \in Seq(1..MaxNotify)
    /\ noise \in BOOLEAN /\ half \in BOOLEAN
    /\ sent \in 0..MaxNotify /\ others \in 0..MaxOther
    /\ Len(got) <= sent
    /\ link \in {"up", "lost", "silent", "closed"}

(* Every notification is given to the program once and in order, or is     *)
(* still on its way: none is lost or repeated by a call that returned None *)
(* or raised, or by an execute() that read it.                             *)
NotificationsInOrder ==
    got \o notes \o net = [i \in 1..sent |-> i]

(* None is the answer to an expired timeout, or to a select that something *)
(* else than a whole notification woke; never to one that came.  And a     *)
(* call waits only when libpq holds none: it would wait beside one that no *)
(* select can see.                                                         *)
NoneMeansNone ==
    /\ pc = "ready" /\ outcome = "None" => expired \/ other
    /\ pc = "waiting" => notes = <<>>

(* A call that need not wait for ever ends, a huge timeout included, and   *)
(* so does any call when the connection is lost, by raising; only a        *)
(* connection that falls silent keeps a call without a timeout.            *)
CallEnds ==
    /\ (pc # "ready" /\ timeout # "forever") ~> pc = "ready"
    /\ (pc # "ready" /\ link = "lost") ~> pc = "ready"

(* A program that calls notifies() again and again is given every          *)
(* notification, unless the connection is lost.                            *)
Delivered ==
    \A n \in 1..MaxNotify : sent >= n ~> (Len(got) >= n \/ link = "closed")
=============================================================================
