---------------------------- MODULE AsyncConnect ----------------------------
(***************************************************************************)
(* connect_async(): async_connect() of src/pglib.cpp starts the            *)
(* connection, AsyncConnection.__init__ reads the number of its socket     *)
(* once, and _connectPoll() of asyncpglib.py waits on that number until    *)
(* PQconnectPoll says OK.  libpq goes from one host (or protocol) to the   *)
(* next by closing its socket and then opening another, whose number is    *)
(* the lowest free one.  Other threads of the program open and close files *)
(* at any moment, also between these two: PQconnectPoll holds the GIL, but *)
(* a thread inside open(), accept() or connect() does not need it.  Tasks  *)
(* of the event loop run only while connect_async() waits; they watch      *)
(* files in the same loop.  libpq, the hosts and the kernel's table of     *)
(* open files are external.                                                *)
(***************************************************************************)
EXTENDS Naturals, FiniteSets, FiniteSetsExt

CONSTANTS MaxFd,        \* numbers of the files the process can open
          MaxTries,     \* hosts and protocols that libpq tries
          MaxSteps      \* answers of a host until the connection stands

ASSUME ConnectAssumption ==
    /\ MaxFd \in Nat \ {0} /\ MaxTries \in Nat \ {0} /\ MaxSteps \in Nat

VARIABLES
    \* ---- the coroutine
    pc,         \* start, polling (in PQconnectPoll, with a socket), moving
                \* (in PQconnectPoll, between two sockets), adding (it
                \* returned what to wait for), waiting, connected, raised,
                \* cancelled
    sock,       \* AsyncConnection.sock
    want,       \* what PQconnectPoll asked to wait for
    watched,    \* the file whose readiness ends our wait: libpq's socket,
                \* another task's, one that is closed by now (gone), none
    \* ---- the process
    files,      \* what is open under each number
    theirs,     \* numbers with a reader of another task
    closed,     \* whether another closed a file since we started
    taken,      \* whether another opened one while libpq had no socket
    lost,       \* whether another task's reader is gone without its doing
    \* ---- libpq and the hosts
    tries,      \* connections libpq began
    steps,      \* answers still to come from this host
    host,       \* answers, refuses, silent
    ready       \* whether libpq's socket is ready for what it wants

task == <<pc, sock, want, watched>>
proc == <<files, theirs, closed, taken, lost>>
pq   == <<tries, steps, host, ready>>
vars == <<task, proc, pq>>

Fds == 1..MaxFd

---------------------------------------------------------------------------
(***************************************************************************)
(* Open files                                                              *)
(***************************************************************************)

Free(fs) == {fd \in Fds : fs[fd] = "free"}

(* Mutant of Finish: the connection is forgotten, not closed.              *)
Forget(fs) == fs
(* PQfinish, or libpq before it turns to another host.                     *)
Finish(fs) == [fd \in Fds |-> IF fs[fd] = "libpq" THEN "free" ELSE fs[fd]]

(* libpq opens a socket.                                                   *)
OpenPQ(fs) == [fs EXCEPT ![Min(Free(fs))] = "libpq"]

(* Mutant of SocketOf: some file, not the connection's.                    *)
AnyFile(fs) == Min(Fds)
(* PQsocket.                                                               *)
SocketOf(fs) == CHOOSE fd \in Fds : fs[fd] = "libpq"

(* A connection to a host begins; what the host will do is open.           *)
Begin ==
    /\ tries' = tries + 1
    /\ steps' = MaxSteps
    /\ host' \in {"answers", "refuses", "silent"}
    /\ ready' = FALSE

---------------------------------------------------------------------------
(***************************************************************************)
(* connect_async                                                           *)
(***************************************************************************)

(* PQconnectStart fails: an error, after PQfinish.                         *)
StartFails ==
    /\ pc = "start"
    /\ pc' = "raised"
    /\ UNCHANGED <<sock, want, watched, proc, pq>>

(* async_connect() and AsyncConnection.__init__.                           *)
Start ==
    /\ pc = "start" /\ Free(files) # {}
    /\ files' = OpenPQ(files)
    /\ Begin
    /\ sock' = SocketOf(files')
    /\ want' = "writing"
    /\ closed' = FALSE
    /\ pc' = "polling"
    /\ UNCHANGED <<watched, theirs, taken, lost>>

(* The task ends with an error and the connection with it.                 *)
Raise ==
    /\ pc' = "raised"
    /\ files' = Finish(files)
    /\ UNCHANGED watched

(* Mutant of FileAt: no reader is added.                                   *)
NoFile == "none"
(* The file that add_reader(self.sock) watches.                            *)
FileAt == files[sock]

Wants(flags) == want' = flags /\ pc' = "adding"

(* The connection stands.                                                  *)
PollOK ==
    /\ pc = "polling"
    /\ host = "answers" /\ ready /\ steps = 0
    /\ pc' = "connected"
    /\ UNCHANGED <<sock, want, watched, proc, pq>>

(* libpq goes on with this host, ...                                       *)
PollGoesOn ==
    /\ pc = "polling"
    /\ host = "answers" /\ ready /\ steps > 0
    /\ steps' = steps - 1 /\ ready' = FALSE
    /\ \E flags \in {"reading", "writing"} : Wants(flags)
    /\ UNCHANGED <<sock, watched, proc, tries, host>>

(* ... or has to wait first: it was asked too early, or only just began.   *)
PollTooEarly ==
    /\ pc = "polling" /\ ~ready
    /\ Wants(want)
    /\ UNCHANGED <<sock, watched, proc, pq>>

(* The host fails and libpq closes its socket to try the next one, ...     *)
PollNextHost ==
    /\ pc = "polling" /\ tries < MaxTries
    /\ files' = Finish(files)
    /\ pc' = "moving"
    /\ UNCHANGED <<sock, want, watched, theirs, closed, taken, lost, pq>>

(* ... for which it opens another, still in the same PQconnectPoll.        *)
OpenNextHost ==
    /\ pc = "moving" /\ Free(files) # {}
    /\ files' = OpenPQ(files)
    /\ Begin
    /\ want' = "writing"
    /\ pc' = "polling"
    /\ UNCHANGED <<sock, watched, theirs, closed, taken, lost>>

(* It fails and there is no other, or none can be tried: an error, after   *)
(* PQfinish.                                                               *)
PollFails ==
    /\ pc \in {"polling", "moving"}
    /\ Raise
    /\ UNCHANGED <<sock, want, theirs, closed, taken, lost, pq>>

(* _wait_for(flags): a new reader takes the place of the one that was at   *)
(* that number, ...                                                        *)
AddHandler ==
    /\ pc = "adding" /\ files[sock] # "free"
    /\ watched' = FileAt
    /\ pc' = "waiting"
    /\ theirs' = theirs \ {fd \in {sock} : want = "reading"}
    /\ lost' = (lost \/ theirs' # theirs)
    /\ UNCHANGED <<sock, want, files, closed, taken, pq>>

(* ... and the loop raises for a number that is not open.                  *)
AddFails ==
    /\ pc = "adding" /\ files[sock] = "free"
    /\ Raise
    /\ UNCHANGED <<sock, want, theirs, closed, taken, lost, pq>>

(* Mutant of Removed: the handler stays.                                   *)
Stays == watched
Removed == "none"

(* The future is done, the handler is removed, and libpq is asked again.   *)
Wake ==
    /\ pc = "waiting"
    /\ (watched = "libpq" /\ ready) \/ watched = "other"
    /\ watched' = Removed
    /\ pc' = "polling"
    /\ UNCHANGED <<sock, want, proc, pq>>

(* The program gives up (a timeout of its own): the handler stays, and     *)
(* with it the connection.                                                 *)
Cancel ==
    /\ pc = "waiting"
    /\ pc' = "cancelled"
    /\ UNCHANGED <<sock, want, watched, proc, pq>>

---------------------------------------------------------------------------
(***************************************************************************)
(* The host, and the other tasks and threads: tasks run while this one     *)
(* does not, threads open and close files whoever runs Python code         *)
(***************************************************************************)

HostActs ==
    /\ pc = "waiting" /\ host # "silent" /\ ~ready
    /\ ready' = TRUE
    /\ UNCHANGED <<task, proc, tries, steps, host>>

Done     == pc \in {"connected", "raised", "cancelled"}
TasksRun == pc \in {"start", "waiting"} \/ Done

(* The number we wait on is another's, who closes the file or adds a       *)
(* reader over ours.                                                       *)
Overrun(fd, how) ==
    watched' = IF watched = "other" /\ fd = sock /\ how THEN "gone"
                                                        ELSE watched

OtherOpens ==
    /\ Free(files) # {}
    /\ files' = [files EXCEPT ![Min(Free(files))] = "other"]
    /\ taken' = (taken \/ pc = "moving")
    /\ UNCHANGED <<task, theirs, closed, lost, pq>>

OtherWatches(fd) ==
    /\ TasksRun /\ files[fd] = "other" /\ fd \notin theirs
    /\ theirs' = theirs \cup {fd}
    /\ Overrun(fd, want = "reading")
    /\ UNCHANGED <<pc, sock, want, files, closed, taken, lost, pq>>

OtherCloses(fd) ==
    /\ files[fd] = "other"
    /\ files' = [files EXCEPT ![fd] = "free"]
    /\ theirs' = theirs \ {fd}
    /\ closed' = TRUE
    /\ Overrun(fd, TRUE)
    /\ UNCHANGED <<pc, sock, want, taken, lost, pq>>

---------------------------------------------------------------------------
Init ==
    /\ pc = "start" /\ sock = 0 /\ want = "none" /\ watched = "none"
    /\ files = [fd \in Fds |-> "free"] /\ theirs = {}
    /\ closed = FALSE /\ taken = FALSE /\ lost = FALSE
    /\ tries = 0 /\ steps = 0 /\ host = "none" /\ ready = FALSE

Polls == \/ PollOK \/ PollGoesOn \/ PollTooEarly \/ PollNextHost
         \/ OpenNextHost \/ PollFails \/ AddHandler \/ AddFails

Others == \/ OtherOpens
          \/ \E fd \in Fds : OtherWatches(fd) \/ OtherCloses(fd)

Next == StartFails \/ Start \/ Polls \/ Wake \/ Cancel \/ HostActs \/ Others

Spec == Init /\ [][Next]_vars

(* The event loop runs what is ready, and a host that is not silent comes  *)
(* to an answer.                                                           *)
FairSpec == Spec /\ WF_vars(Polls) /\ WF_vars(Wake) /\ WF_vars(HostActs)

---------------------------------------------------------------------------
(***************************************************************************)
(* Properties                                                              *)
(***************************************************************************)

Types ==
    /\ pc \in {"start", "polling", "moving", "adding", "waiting", "connected",
              "raised", "cancelled"}
    /\ sock \in Fds \cup {0}
    /\ want \in {"none", "reading", "writing"}
    /\ watched \in {"none", "libpq", "other", "gone"}
    /\ files \in [Fds -> {"free", "libpq", "other"}]
    /\ theirs \subseteq {fd \in Fds : files[fd] = "other"}
    /\ closed \in BOOLEAN /\ taken \in BOOLEAN /\ lost \in BOOLEAN
    /\ tries \in 0..MaxTries /\ steps \in 0..MaxSteps
    /\ host \in {"none", "answers", "refuses", "silent"}
    /\ ready \in BOOLEAN

(* libpq has one socket from the start until the connection is given up,   *)
(* but for the moment between two hosts, and our handler is in the loop    *)
(* only while we wait; a connect that was cancelled keeps both.            *)
Sockets == {fd \in Fds : files[fd] = "libpq"}
TypeOK ==
    /\ Types
    /\ Cardinality(Sockets) = IF pc \in {"start", "moving", "raised"} THEN 0 ELSE 1
    /\ watched # "none" => pc \in {"waiting", "cancelled"}

(* The number AsyncConnection keeps is that of libpq's socket, while it    *)
(* connects and afterwards, its wait is for that socket, and no other      *)
(* task's reader is taken away: unless libpq went to another host after    *)
(* somebody closed a file, when its number may become a lower one, or when *)
(* somebody opened a file between its two sockets and took the number.     *)
Moves == tries > 1 /\ (closed \/ taken)
OnlyMovesHurt ==
    \/ Moves
    \/ /\ pc \in {"polling", "adding", "waiting", "connected", "cancelled"}
          => files[sock] = "libpq"
       /\ watched \in {"libpq", "none"}
       /\ ~lost

(* connect_async ends, unless it is with a host that falls silent, or      *)
(* waits on a number that is no longer libpq's.                            *)
OnOther == pc = "waiting" /\ files[sock] # "libpq"
ConnectEnds ==
    pc \in {"polling", "moving", "adding", "waiting"}
        ~> Done \/ host = "silent" \/ OnOther
=============================================================================
