---------------------------- MODULE CommandSlot ----------------------------
(***************************************************************************)
(* What an asynchronous connection promises to the calls that share it:    *)
(* "This is designed for executing a single command at a time"             *)
(* (pglib/asyncpglib.py).  There is one slot for a command.  A call that   *)
(* has the slot is answered, collects its answers, and gives the slot up   *)
(* only when it has them all; one that ends before that keeps the slot, so *)
(* that what is still on its way never comes to another call.              *)
(***************************************************************************)
EXTENDS Naturals

CONSTANTS Calls,    \* the calls
          Nobody    \* no call

VARIABLES slot,       \* the call whose command is in progress
          answers,    \* results the backend gave each call
          collected,  \* results each call has taken
          ending      \* how a call ended: none, returned, raised

slotVars == <<slot, answers, collected, ending>>

SlotInit ==
    /\ slot = Nobody
    /\ answers = [t \in Calls |-> 0]
    /\ collected = [t \in Calls |-> 0]
    /\ ending = [t \in Calls |-> "none"]

Open(t) == ending[t] = "none"

Take(t) ==
    /\ slot = Nobody
    /\ Open(t)
    /\ slot' = t
    /\ UNCHANGED <<answers, collected, ending>>

Answer(t) ==
    /\ slot = t
    /\ answers' = [answers EXCEPT ![t] = @ + 1]
    /\ UNCHANGED <<slot, collected, ending>>

Collect(t) ==
    /\ slot = t
    /\ Open(t)
    /\ collected[t] < answers[t]
    /\ collected' = [collected EXCEPT ![t] = @ + 1]
    /\ UNCHANGED <<slot, answers, ending>>

(* A command is over; a call that has no other returns.                    *)
Release(t) ==
    /\ slot = t
    /\ Open(t)
    /\ collected[t] = answers[t]
    /\ answers[t] > 0
    /\ slot' = Nobody
    /\ ending' \in {ending, [ending EXCEPT ![t] = "returned"]}
    /\ UNCHANGED <<answers, collected>>

(* A call whose commands are over, or that had none, returns.              *)
Return(t) ==
    /\ slot # t
    /\ Open(t)
    /\ collected[t] = answers[t]
    /\ ending' = [ending EXCEPT ![t] = "returned"]
    /\ UNCHANGED <<slot, answers, collected>>

Raise(t) ==
    /\ Open(t)
    /\ ending' = [ending EXCEPT ![t] = "raised"]
    /\ UNCHANGED <<slot, answers, collected>>

SlotNext ==
    \E t \in Calls : \/ Take(t) \/ Answer(t) \/ Collect(t)
                     \/ Release(t) \/ Return(t) \/ Raise(t)

SlotSpec == SlotInit /\ [][SlotNext]_slotVars
===========================================================================
