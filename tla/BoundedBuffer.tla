---------------------------- MODULE BoundedBuffer ----------------------------
(***************************************************************************)
(* The agent's buffer between event capture and shipping, agent/buffer.go: *)
(* a memory queue of Capacity events that overflows into one spill file    *)
(* per event.  Push and the queue part of Next each run under one mutex    *)
(* and are single actions; Next reads and removes a spill file AFTER it    *)
(* has released the mutex, so that is an action of its own and everything  *)
(* else may happen in between.  Close broadcasts after it unlocks, again   *)
(* a separate action.                                                      *)
(*                                                                         *)
(* Events are numbered in the order Push is called.  spillHits (the count  *)
(* SpillCount reports) moves with spillSeq in every step, so spillSeq      *)
(* stands for both.                                                        *)
(***************************************************************************)
EXTENDS Naturals, Sequences

CONSTANTS Capacity,     \* in-memory capacity, NewBoundedBuffer's argument
          Consumers,    \* goroutines that call Next in a loop
          MaxPushes,    \* bound: Push calls in one behaviour
          MaxRestarts   \* bound: process restarts in one behaviour

\* NewBoundedBuffer rejects a capacity that is not positive.
ASSUME BufferAssumption ==
    /\ Capacity \in Nat \ {0}
    /\ MaxPushes \in Nat
    /\ MaxRestarts \in Nat

Nil    == 0                 \* the nil event Next returns after a failed read
Events == 1..MaxPushes
Seqs   == 0..MaxPushes      \* spill sequence numbers: at most one per Push
NoFile == 0
Torn   == MaxPushes + 1     \* content a failed write may leave behind

VARIABLES
    memQueue,   \* events in memory, oldest first
    spilling,   \* Push goes to disk
    spillSeq,   \* sequence number (file name) of the next spill file
    spilled,    \* listed spill files, oldest first
    closed,     \* Close has set its flag
    files,      \* the spill directory: it outlives the process
    pc,         \* where each consumer is in Next
    path,       \* the spill file a reading consumer holds
    broadcast,  \* Close has woken the waiters
    pushes,     \* Push calls so far; the number of the last event
    restarts,
    accepted,   \* history: events for which Push returned nil, this lifetime
    taken,      \* history: events removed from the queue, this lifetime
    delivered   \* history: what Next returned, in order, this lifetime

bufferVars == <<memQueue, spilling, spillSeq, spilled>>
history    == <<accepted, taken, delivered>>
vars == <<bufferVars, closed, files, pc, path, broadcast, pushes, restarts, history>>

Waiting == {c \in Consumers : pc[c] = "waiting"}

\* Mutant: Push forgets to wake a consumer.
SignalMutant == UNCHANGED pc

\* cond.Signal: one waiter, if there is one, goes back to the loop in Next.
Signal ==
    \/ /\ Waiting = {}
       /\ UNCHANGED pc
    \/ \E c \in Waiting : pc' = [pc EXCEPT ![c] = "ready"]

\* The events the listed spill files hold, oldest first.
SpilledEvents == [i \in DOMAIN spilled |-> files[spilled[i]]]

Init ==
    /\ memQueue = <<>>
    /\ spilling = FALSE
    /\ spillSeq = 0
    /\ spilled = <<>>
    /\ closed = FALSE
    /\ files = [s \in Seqs |-> NoFile]
    /\ pc = [c \in Consumers |-> "ready"]
    /\ path = [c \in Consumers |-> 0]
    /\ broadcast = FALSE
    /\ pushes = 0
    /\ restarts = 0
    /\ accepted = <<>>
    /\ taken = <<>>
    /\ delivered = <<>>

-----------------------------------------------------------------------------
(* Push.  Callers stop calling it before they call Close.                  *)

\* Mutant: Push goes back to memory as soon as there is room.
ToMemoryMutant == Len(memQueue) < Capacity

ToMemory == ~spilling /\ Len(memQueue) < Capacity

PushEvent ==
    /\ ~closed
    /\ pushes < MaxPushes
    /\ pushes' = pushes + 1
    /\ UNCHANGED <<closed, path, broadcast, restarts, taken, delivered>>

PushToMemory ==
    /\ PushEvent
    /\ ToMemory
    /\ memQueue' = Append(memQueue, pushes + 1)
    /\ accepted' = Append(accepted, pushes + 1)
    /\ Signal
    /\ UNCHANGED <<spilling, spillSeq, spilled, files>>

\* Mutant: the file is named by the length of the backlog, not by spillSeq.
PushToDiskMutantName ==
    /\ PushEvent
    /\ ~ToMemory
    /\ spilling' = TRUE
    /\ spillSeq' = spillSeq + 1
    /\ files' = [files EXCEPT ![Len(spilled)] = pushes + 1]
    /\ spilled' = Append(spilled, Len(spilled))
    /\ accepted' = Append(accepted, pushes + 1)
    /\ Signal
    /\ UNCHANGED memQueue

PushToDisk ==
    /\ PushEvent
    /\ ~ToMemory
    /\ spilling' = TRUE
    /\ spillSeq' = spillSeq + 1
    /\ files' = [files EXCEPT ![spillSeq] = pushes + 1]
    /\ spilled' = Append(spilled, spillSeq)
    /\ accepted' = Append(accepted, pushes + 1)
    /\ Signal
    /\ UNCHANGED memQueue

\* os.WriteFile fails: the caller gets the error, nothing is listed and
\* nobody is woken, but spilling and spillSeq have already moved.
PushWriteFails ==
    /\ PushEvent
    /\ ~ToMemory
    /\ spilling' = TRUE
    /\ spillSeq' = spillSeq + 1
    /\ \E content \in {files[spillSeq], Torn} :
          files' = [files EXCEPT ![spillSeq] = content]
    /\ UNCHANGED <<memQueue, spilled, pc, accepted>>

-----------------------------------------------------------------------------
(* Next, called by consumer c.                                             *)

TakeFromMemory(c) ==
    /\ pc[c] = "ready"
    /\ memQueue # <<>>
    /\ memQueue' = Tail(memQueue)
    /\ taken' = Append(taken, Head(memQueue))
    /\ delivered' = Append(delivered, Head(memQueue))
    /\ UNCHANGED <<spilling, spillSeq, spilled, closed, files, pc, path,
                   broadcast, pushes, restarts, accepted>>

\* Mutant: spilling is cleared with the first file taken off the backlog.
TakeFromDiskMutantEager(c) ==
    /\ pc[c] = "ready"
    /\ memQueue = <<>>
    /\ spilled # <<>>
    /\ spilled' = Tail(spilled)
    /\ spilling' = FALSE
    /\ path' = [path EXCEPT ![c] = Head(spilled)]
    /\ pc' = [pc EXCEPT ![c] = "reading"]
    /\ taken' = Append(taken, files[Head(spilled)])
    /\ UNCHANGED <<memQueue, spillSeq, closed, files, broadcast, pushes,
                   restarts, accepted, delivered>>

\* Mutant: the sequence number starts over once the backlog is listed empty,
\* while the last file is still being read.
TakeFromDiskMutantReset(c) ==
    /\ pc[c] = "ready"
    /\ memQueue = <<>>
    /\ spilled # <<>>
    /\ spilled' = Tail(spilled)
    /\ spilling' = (spilling /\ Tail(spilled) # <<>>)
    /\ spillSeq' = IF Tail(spilled) = <<>> THEN 0 ELSE spillSeq
    /\ path' = [path EXCEPT ![c] = Head(spilled)]
    /\ pc' = [pc EXCEPT ![c] = "reading"]
    /\ taken' = Append(taken, files[Head(spilled)])
    /\ UNCHANGED <<memQueue, closed, files, broadcast, pushes,
                   restarts, accepted, delivered>>

\* Pops the oldest listed file and unlocks; the file is read later.
TakeFromDisk(c) ==
    /\ pc[c] = "ready"
    /\ memQueue = <<>>
    /\ spilled # <<>>
    /\ spilled' = Tail(spilled)
    /\ spilling' = (spilling /\ Tail(spilled) # <<>>)
    /\ path' = [path EXCEPT ![c] = Head(spilled)]
    /\ pc' = [pc EXCEPT ![c] = "reading"]
    /\ taken' = Append(taken, files[Head(spilled)])
    /\ UNCHANGED <<memQueue, spillSeq, closed, files, broadcast, pushes,
                   restarts, accepted, delivered>>

\* os.Remove: its error is ignored, so the file may stay.
RemoveSpillFile(c) ==
    \/ files' = [files EXCEPT ![path[c]] = NoFile]
    \/ UNCHANGED files

FinishRead(c, event) ==
    /\ pc[c] = "reading"
    /\ delivered' = Append(delivered, event)
    /\ RemoveSpillFile(c)
    /\ pc' = [pc EXCEPT ![c] = "ready"]
    /\ UNCHANGED <<bufferVars, closed, path, broadcast, pushes, restarts,
                   accepted, taken>>

ReadSpillFile(c) == FinishRead(c, files[path[c]])

ReadFails(c) == FinishRead(c, Nil)

ReturnDrained(c) ==
    /\ pc[c] = "ready"
    /\ memQueue = <<>>
    /\ spilled = <<>>
    /\ closed
    /\ pc' = [pc EXCEPT ![c] = "stopped"]
    /\ UNCHANGED <<bufferVars, closed, files, path, broadcast, pushes, restarts,
                   history>>

\* cond.Wait: releases the mutex and blocks in one step.
Wait(c) ==
    /\ pc[c] = "ready"
    /\ memQueue = <<>>
    /\ spilled = <<>>
    /\ ~closed
    /\ pc' = [pc EXCEPT ![c] = "waiting"]
    /\ UNCHANGED <<bufferVars, closed, files, path, broadcast, pushes, restarts,
                   history>>

-----------------------------------------------------------------------------
(* Close: the flag under the mutex, then the broadcast without it.         *)

CloseSetFlag ==
    /\ ~closed
    /\ closed' = TRUE
    /\ UNCHANGED <<bufferVars, files, pc, path, broadcast, pushes, restarts, history>>

\* Mutant: Signal where Close needs Broadcast.
CloseBroadcastMutant ==
    /\ closed
    /\ ~broadcast
    /\ broadcast' = TRUE
    /\ Signal
    /\ UNCHANGED <<bufferVars, closed, files, path, pushes, restarts, history>>

CloseBroadcast ==
    /\ closed
    /\ ~broadcast
    /\ broadcast' = TRUE
    /\ pc' = [c \in Consumers |-> IF pc[c] = "waiting" THEN "ready" ELSE pc[c]]
    /\ UNCHANGED <<bufferVars, closed, files, path, pushes, restarts, history>>

\* The process dies; a new one calls NewBoundedBuffer on the same spill
\* directory, which is created only "if it doesn't exist" and never scanned.
Restart ==
    /\ restarts < MaxRestarts
    /\ restarts' = restarts + 1
    /\ memQueue' = <<>>
    /\ spilling' = FALSE
    /\ spillSeq' = 0
    /\ spilled' = <<>>
    /\ closed' = FALSE
    /\ broadcast' = FALSE
    /\ pc' = [c \in Consumers |-> "ready"]
    /\ path' = [c \in Consumers |-> 0]
    /\ accepted' = <<>>
    /\ taken' = <<>>
    /\ delivered' = <<>>
    /\ UNCHANGED <<files, pushes>>

Push == PushToMemory \/ PushToDisk \/ PushWriteFails

NextCall(c) ==
    \/ TakeFromMemory(c)
    \/ TakeFromDisk(c)
    \/ ReadSpillFile(c)
    \/ ReadFails(c)
    \/ ReturnDrained(c)
    \/ Wait(c)

\* Every consumer has seen ok = false: the agent is done.
Terminated ==
    /\ \A c \in Consumers : pc[c] = "stopped"
    /\ broadcast
    /\ UNCHANGED vars

Next ==
    \/ Push
    \/ \E c \in Consumers : NextCall(c)
    \/ CloseSetFlag
    \/ CloseBroadcast
    \/ Restart
    \/ Terminated

Spec == Init /\ [][Next]_vars

\* The Go scheduler runs every runnable goroutine and the mutex has a
\* starvation mode, so a consumer inside Next keeps moving and a Close that
\* has set its flag reaches its Broadcast.  Nothing obliges anybody to push,
\* to close or to crash.
Fairness ==
    /\ \A c \in Consumers : WF_vars(NextCall(c))
    /\ WF_vars(CloseBroadcast)

FairSpec == Spec /\ Fairness

-----------------------------------------------------------------------------
(* Properties.                                                             *)

TypeOK ==
    /\ memQueue \in Seq(Events)
    /\ spilling \in BOOLEAN
    /\ spillSeq \in Seqs
    /\ spilled \in Seq(Seqs)
    /\ closed \in BOOLEAN
    /\ files \in [Seqs -> Events \cup {NoFile, Torn}]
    /\ pc \in [Consumers -> {"ready", "waiting", "reading", "stopped"}]
    /\ path \in [Consumers -> Seqs]
    /\ broadcast \in BOOLEAN
    /\ pushes \in 0..MaxPushes
    /\ restarts \in 0..MaxRestarts
    /\ accepted \in Seq(Events)
    /\ taken \in Seq(Events)
    /\ delivered \in Seq(Events \cup {Nil})

\* "this buffer is what guarantees bounded memory and zero loss" and "Next
\* drains in overall FIFO order": what was taken, then memory, then the spill
\* files in listed order, is exactly what Push accepted, in that order.
ZeroLossInOrder == accepted = (taken \o memQueue) \o SpilledEvents

\* The spilling flag is what keeps the two queues in order: memory is within
\* its capacity, listed files exist under distinct, increasing names older
\* than the next one to be written, and while a file is listed Push does not
\* go back to memory.
SpillDiscipline ==
    /\ Len(memQueue) <= Capacity
    /\ spilled # <<>> => spilling
    /\ \A i \in DOMAIN spilled :
          /\ spilled[i] < spillSeq
          /\ files[spilled[i]] \in Events
          /\ \A j \in DOMAIN spilled : i < j => spilled[i] < spilled[j]

\* A file popped under the lock and read after it (buffer.go:118-135) is not
\* overwritten, removed by another consumer or listed again in the meantime,
\* in this lifetime or after a restart on the same directory.
ReadsOwnFile ==
    \A c \in Consumers : pc[c] = "reading" =>
        /\ path[c] < spillSeq
        /\ files[path[c]] \in Events
        /\ \A i \in DOMAIN spilled : path[c] < spilled[i]
        /\ \A d \in Consumers \ {c} : pc[d] = "reading" => path[d] # path[c]

\* Next returns ok = false only when closed and drained, and from then on
\* nothing is left for anyone: no consumer stops before the backlog is out.
StoppedMeansDrained ==
    (\E c \in Consumers : pc[c] = "stopped")
        => closed /\ memQueue = <<>> /\ spilled = <<>> /\ taken = accepted

\* The buffer implements the abstract queue: taking is the moment the lock is
\* held, and an event read outside the lock is the event that was taken.
Fifo == INSTANCE FifoQueue WITH
            queue     <- memQueue \o SpilledEvents,
            inflight  <- [c \in Consumers |->
                             IF pc[c] = "reading" THEN files[path[c]] ELSE Nil]

ImplementsFifo == Fifo!Spec

\* No lost wake-up: unless the process dies, an event Push accepted (for the
\* n-th time) is followed by an n-th return of Next, even when every consumer
\* is asleep in cond.Wait or another one steals the event it was woken for.
AcceptedIsDelivered ==
    \A n \in 1..MaxPushes, r \in 0..MaxRestarts :
        (restarts = r /\ Len(accepted) >= n)
            ~> (restarts > r \/ Len(delivered) >= n)

\* Close ends every consumer's loop, also those asleep when the flag is set
\* and those that fall asleep or still read a file before the broadcast.
CloseStopsConsumers ==
    \A r \in 0..MaxRestarts :
        (restarts = r /\ closed)
            ~> (restarts > r \/ \A c \in Consumers : pc[c] = "stopped")

=============================================================================
