------------------------------ MODULE FifoQueue ------------------------------
(***************************************************************************)
(* What agent/buffer.go promises its callers, without memory, disk or      *)
(* locks: one queue of accepted events, taken from the head exactly once,  *)
(* handed to the consumer that took it, and never reordered.  A consumer   *)
(* may learn that the event it took is gone (Surrender), but the gap is    *)
(* visible: it gets Nil in the place of the event.                         *)
(***************************************************************************)
EXTENDS Sequences

CONSTANTS Events, Consumers, Nil

VARIABLES queue,      \* accepted events nobody has taken yet, oldest first
          inflight,   \* inflight[c]: the event c took and has not returned
          delivered   \* what Next has returned so far, in order of return

vars == <<queue, inflight, delivered>>

Init ==
    /\ queue = <<>>
    /\ inflight = [c \in Consumers |-> Nil]
    /\ delivered = <<>>

Enqueue ==
    /\ \E e \in Events : queue' = Append(queue, e)
    /\ UNCHANGED <<inflight, delivered>>

\* Taken and returned in one step.
DequeueAndDeliver ==
    /\ queue # <<>>
    /\ queue' = Tail(queue)
    /\ delivered' = Append(delivered, Head(queue))
    /\ UNCHANGED inflight

Dequeue(c) ==
    /\ queue # <<>>
    /\ inflight[c] = Nil
    /\ queue' = Tail(queue)
    /\ inflight' = [inflight EXCEPT ![c] = Head(queue)]
    /\ UNCHANGED delivered

\* The consumer returns the event it took ...
Deliver(c) ==
    /\ inflight[c] # Nil
    /\ delivered' = Append(delivered, inflight[c])
    /\ inflight' = [inflight EXCEPT ![c] = Nil]
    /\ UNCHANGED queue

\* ... or returns Nil in its place.
Surrender(c) ==
    /\ inflight[c] # Nil
    /\ delivered' = Append(delivered, Nil)
    /\ inflight' = [inflight EXCEPT ![c] = Nil]
    /\ UNCHANGED queue

\* The process that owns the queue dies and a new one starts empty.
Restart == queue' = <<>> /\ inflight' = [c \in Consumers |-> Nil] /\ delivered' = <<>>

Next ==
    \/ Enqueue
    \/ DequeueAndDeliver
    \/ \E c \in Consumers : Dequeue(c) \/ Deliver(c) \/ Surrender(c)
    \/ Restart

Spec == Init /\ [][Next]_vars
=============================================================================
