------------------------- MODULE BoundedBufferProofs -------------------------
(***************************************************************************)
(* Proofs about BoundedBuffer for every capacity, every set of consumers   *)
(* and every bound on pushes and restarts.  The inductive invariant BufInv *)
(* adds to the checked invariants that a lifetime never uses more spill    *)
(* numbers than there were pushes: the names stay within the directory.    *)
(***************************************************************************)
EXTENDS BoundedBuffer, SequenceTheorems, TLAPS

-----------------------------------------------------------------------------
(* Lemmas on sequences.                                                    *)

\* Appending to the second of two queues appends to their concatenation.
LEMMA ConcatAppend ==
    ASSUME NEW S, NEW s \in Seq(S), NEW t \in Seq(S), NEW e \in S
    PROVE  s \o Append(t, e) = Append(s \o t, e)
<1>1. Append(t, e) = t \o <<e>> /\ <<e>> \in Seq(S)
  BY AppendIsConcat
<1>2. s \o t \in Seq(S)
  BY ConcatProperties
<1>3. Append(s \o t, e) = (s \o t) \o <<e>>
  BY <1>2, AppendIsConcat
<1>4. QED
  BY <1>1, <1>3, ConcatAssociative

\* Moving the head of the second queue to the end of the first changes nothing.
LEMMA MoveHead ==
    ASSUME NEW S, NEW s \in Seq(S), NEW t \in Seq(S), t # <<>>
    PROVE  Append(s, Head(t)) \o Tail(t) = s \o t
<1>1. Head(t) \in S /\ Tail(t) \in Seq(S)
  BY HeadTailProperties
<1>2. Append(s, Head(t)) = s \o <<Head(t)>> /\ <<Head(t)>> \in Seq(S)
  BY <1>1, AppendIsConcat
<1>3. <<Head(t)>> \o Tail(t) = t
  <2>1. <<Head(t)>> \o Tail(t) \in Seq(S)
    BY <1>1, <1>2, ConcatProperties
  <2>2. Len(<<Head(t)>> \o Tail(t)) = Len(t)
    BY <1>1, <1>2, ConcatProperties, HeadTailProperties, LenProperties
  <2>3. \A i \in 1..Len(t) : (<<Head(t)>> \o Tail(t))[i] = t[i]
    BY <1>1, <1>2, ConcatProperties, HeadTailProperties, LenProperties
  <2>4. QED
    BY <2>1, <2>2, <2>3, SeqEqual
<1>4. QED
  BY <1>1, <1>2, <1>3, ConcatAssociative

-----------------------------------------------------------------------------
(* The inductive invariant.                                                *)

SeqsWithinPushes == spillSeq <= pushes

BufInv ==
    /\ TypeOK
    /\ SeqsWithinPushes
    /\ SpillDiscipline
    /\ ReadsOwnFile
    /\ ZeroLossInOrder
    /\ StoppedMeansDrained

\* What the definitions of the listed spill files mean for the other lemmas.
LEMMA SpilledEventsType ==
    ASSUME TypeOK, SpillDiscipline
    PROVE  /\ SpilledEvents \in Seq(Events)
           /\ Len(SpilledEvents) = Len(spilled)
           /\ \A i \in 1..Len(spilled) : SpilledEvents[i] = files[spilled[i]]
<1>1. DOMAIN spilled = 1..Len(spilled) /\ Len(spilled) \in Nat
  BY LenProperties DEF TypeOK
<1>2. \A i \in 1..Len(spilled) : files[spilled[i]] \in Events
  BY <1>1 DEF SpillDiscipline
<1>3. SpilledEvents = [i \in 1..Len(spilled) |-> files[spilled[i]]]
  BY <1>1 DEF SpilledEvents
<1>4. SpilledEvents \in Seq(Events)
  BY <1>1, <1>2, <1>3, IsASeq
<1>5. Len(SpilledEvents) = Len(spilled)
  BY <1>1, <1>3, <1>4, LenProperties
<1>6. QED
  BY <1>3, <1>4, <1>5

\* Initially the buffer is empty and consistent.
LEMMA InitInv == Init => BufInv
<1> SUFFICES ASSUME Init PROVE BufInv
  OBVIOUS
<1> USE BufferAssumption DEF BufferAssumption, Init
<1>1. TypeOK
  <2>1. 0 \in Seqs /\ pushes \in 0..MaxPushes /\ restarts \in 0..MaxRestarts
    BY DEF Seqs
  <2>2. /\ memQueue \in Seq(Events) /\ spilled \in Seq(Seqs)
        /\ accepted \in Seq(Events) /\ taken \in Seq(Events)
        /\ delivered \in Seq(Events \cup {Nil})
    BY EmptySeq
  <2>3. files \in [Seqs -> Events \cup {NoFile, Torn}]
    OBVIOUS
  <2>4. QED
    BY <2>1, <2>2, <2>3 DEF TypeOK
<1>2. SeqsWithinPushes
  BY DEF SeqsWithinPushes
<1>3. spilled = <<>> /\ DOMAIN spilled = {} /\ Len(memQueue) = 0
  BY DEF Init
<1>4. SpillDiscipline /\ ReadsOwnFile /\ StoppedMeansDrained
  BY <1>3 DEF SpillDiscipline, ReadsOwnFile, StoppedMeansDrained
<1>5. ZeroLossInOrder
  <2>1. SpilledEvents = <<>>
    BY <1>1, <1>3, <1>4, SpilledEventsType, EmptySeq
  <2>2. <<>> \o <<>> = <<>>
    BY ConcatEmptySeq, EmptySeq
  <2>3. QED
    BY <2>1, <2>2 DEF ZeroLossInOrder
<1>6. QED
  BY <1>1, <1>2, <1>4, <1>5 DEF BufInv

\* Waking a consumer neither starts nor ends a read, and stops nobody.
LEMMA SignalFrame ==
    ASSUME TypeOK, Signal \/ UNCHANGED pc
    PROVE  /\ pc' \in [Consumers -> {"ready", "waiting", "reading", "stopped"}]
           /\ \A c \in Consumers : (pc'[c] = "reading") <=> (pc[c] = "reading")
           /\ \A c \in Consumers : (pc'[c] = "stopped") <=> (pc[c] = "stopped")
BY DEF TypeOK, Signal, Waiting

\* Every step keeps the types, and uses no more spill names than pushes.
LEMMA TypeStep ==
    ASSUME TypeOK, SeqsWithinPushes, SpillDiscipline, ReadsOwnFile, [Next]_vars
    PROVE  TypeOK' /\ SeqsWithinPushes'
<1> USE BufferAssumption DEF BufferAssumption, SeqsWithinPushes
<1>1. CASE PushToMemory
  <2> USE <1>1 DEF PushToMemory, PushEvent
  <2>1. pushes + 1 \in Events /\ pushes' \in 0..MaxPushes
    BY DEF TypeOK, Events
  <2>2. memQueue' \in Seq(Events) /\ accepted' \in Seq(Events)
    BY <2>1, AppendProperties DEF TypeOK
  <2>3. QED
    BY <2>1, <2>2, SignalFrame DEF TypeOK, Seqs
<1>2. CASE PushToDisk
  <2> USE <1>2 DEF PushToDisk, PushEvent
  <2>1. /\ pushes + 1 \in Events /\ pushes' \in 0..MaxPushes
        /\ spillSeq' \in Seqs /\ spillSeq' <= pushes'
    BY DEF TypeOK, Events, Seqs
  <2>2. spilled' \in Seq(Seqs) /\ accepted' \in Seq(Events)
    BY <2>1, AppendProperties DEF TypeOK
  <2>3. files' \in [Seqs -> Events \cup {NoFile, Torn}]
    BY <2>1 DEF TypeOK
  <2>4. QED
    BY <2>1, <2>2, <2>3, SignalFrame DEF TypeOK
<1>3. CASE PushWriteFails
  <2> USE <1>3 DEF PushWriteFails, PushEvent
  <2>1. /\ pushes' \in 0..MaxPushes
        /\ spillSeq' \in Seqs /\ spillSeq' <= pushes'
    BY DEF TypeOK, Seqs
  <2>2. files' \in [Seqs -> Events \cup {NoFile, Torn}]
    BY DEF TypeOK
  <2>3. QED
    BY <2>1, <2>2 DEF TypeOK
<1>4. ASSUME NEW c \in Consumers, TakeFromMemory(c)
      PROVE  TypeOK' /\ SeqsWithinPushes'
  <2> USE <1>4 DEF TakeFromMemory
  <2>1. Head(memQueue) \in Events /\ memQueue' \in Seq(Events)
    BY HeadTailProperties DEF TypeOK
  <2>2. Head(memQueue) \in Events \cup {Nil}
    BY <2>1
  <2>3. taken' \in Seq(Events) /\ delivered' \in Seq(Events \cup {Nil})
    BY <2>1, <2>2, AppendProperties DEF TypeOK
  <2>4. QED
    BY <2>1, <2>3 DEF TypeOK
<1>5. ASSUME NEW c \in Consumers, TakeFromDisk(c)
      PROVE  TypeOK' /\ SeqsWithinPushes'
  <2> USE <1>5 DEF TakeFromDisk
  <2>1. Head(spilled) \in Seqs /\ spilled' \in Seq(Seqs)
    BY HeadTailProperties DEF TypeOK
  <2>2. files[Head(spilled)] \in Events
    BY LenProperties, EmptySeq DEF TypeOK, SpillDiscipline
  <2>3. taken' \in Seq(Events)
    BY <2>2, AppendProperties DEF TypeOK
  <2>4. spilling' \in BOOLEAN
    OBVIOUS
  <2>5. QED
    BY <2>1, <2>3, <2>4 DEF TypeOK
<1>6. ASSUME NEW c \in Consumers, ReadSpillFile(c) \/ ReadFails(c)
      PROVE  TypeOK' /\ SeqsWithinPushes'
  <2>1. PICK event \in Events \cup {Nil} : FinishRead(c, event)
    BY <1>6 DEF ReadSpillFile, ReadFails, FinishRead, ReadsOwnFile
  <2> USE <2>1 DEF FinishRead
  <2>2. delivered' \in Seq(Events \cup {Nil})
    BY AppendProperties DEF TypeOK
  <2>3. files' \in [Seqs -> Events \cup {NoFile, Torn}]
    BY DEF TypeOK, RemoveSpillFile
  <2>4. QED
    BY <2>2, <2>3 DEF TypeOK, bufferVars
<1>7. ASSUME NEW c \in Consumers, ReturnDrained(c) \/ Wait(c)
      PROVE  TypeOK' /\ SeqsWithinPushes'
  BY <1>7 DEF ReturnDrained, Wait, TypeOK, bufferVars, history
<1>8. CASE CloseSetFlag \/ CloseBroadcast
  BY <1>8 DEF CloseSetFlag, CloseBroadcast, TypeOK, bufferVars, history
<1>9. CASE Restart
  <2> USE <1>9 DEF Restart
  <2>1. 0 \in Seqs /\ restarts' \in 0..MaxRestarts /\ spillSeq' <= pushes'
    BY DEF TypeOK, Seqs
  <2>2. /\ memQueue' \in Seq(Events) /\ spilled' \in Seq(Seqs)
        /\ accepted' \in Seq(Events) /\ taken' \in Seq(Events)
        /\ delivered' \in Seq(Events \cup {Nil})
    BY EmptySeq
  <2>3. QED
    BY <2>1, <2>2 DEF TypeOK
<1>10. CASE Terminated \/ UNCHANGED vars
  BY <1>10 DEF Terminated, vars, bufferVars, history, TypeOK
<1>11. QED
  BY <1>1, <1>2, <1>3, <1>4, <1>5, <1>6, <1>7, <1>8, <1>9, <1>10
     DEF Next, Push, NextCall

\* Every step keeps the spill files and the flag in order, and leaves the
\* file of a consumer that is reading outside the lock alone.
LEMMA DisciplineStep ==
    ASSUME TypeOK, TypeOK', SeqsWithinPushes, SpillDiscipline, ReadsOwnFile,
           [Next]_vars
    PROVE  SpillDiscipline' /\ ReadsOwnFile'
<1> USE BufferAssumption DEF BufferAssumption
<1>dom. /\ DOMAIN spilled = 1..Len(spilled) /\ Len(spilled) \in Nat
        /\ DOMAIN spilled' = 1..Len(spilled') /\ Len(spilled') \in Nat
        /\ Len(memQueue) \in Nat
  BY LenProperties DEF TypeOK
<1>emp. spilled = <<>> <=> Len(spilled) = 0
  BY EmptySeq DEF TypeOK
<1>nat. \A i \in 1..Len(spilled) : spilled[i] \in Seqs /\ spilled[i] \in Nat
  <2>1. spilled \in Seq(Seqs)
    BY DEF TypeOK
  <2>2. \A i \in 1..Len(spilled) : spilled[i] \in Seqs
    BY <2>1, ElementOfSeq
  <2>3. QED
    BY <2>2 DEF Seqs
<1>1. CASE PushToMemory
  <2> USE <1>1 DEF PushToMemory, PushEvent
  <2>1. Len(memQueue') <= Capacity
    BY AppendProperties, <1>dom DEF ToMemory, TypeOK
  <2>2. SpillDiscipline'
    BY <2>1 DEF SpillDiscipline
  <2>3. ReadsOwnFile'
    BY SignalFrame DEF ReadsOwnFile
  <2>4. QED
    BY <2>2, <2>3
<1>2. CASE PushToDisk
  <2> USE <1>2 DEF PushToDisk, PushEvent
  <2>1. /\ Len(spilled') = Len(spilled) + 1
        /\ \A i \in 1..Len(spilled) : spilled'[i] = spilled[i]
        /\ spilled'[Len(spilled) + 1] = spillSeq
    BY AppendProperties DEF TypeOK
  <2>2. /\ spillSeq \in Seqs /\ spillSeq \in Nat /\ pushes + 1 \in Events
        /\ files'[spillSeq] = pushes + 1
        /\ \A s \in Seqs : s # spillSeq => files'[s] = files[s]
    BY DEF TypeOK, Seqs, Events
  <2>3. \A i \in 1..Len(spilled) : spilled[i] \in Seqs /\ spilled[i] \in Nat
    BY <1>nat
  <2>4. ASSUME NEW i \in 1..Len(spilled')
        PROVE  /\ spilled'[i] < spillSeq'
               /\ files'[spilled'[i]] \in Events
               /\ \A j \in 1..Len(spilled') : i < j => spilled'[i] < spilled'[j]
    <3>1. CASE i = Len(spilled) + 1
      BY <3>1, <2>1, <2>2, <1>dom
    <3>2. CASE i # Len(spilled) + 1
      <4>1. i \in 1..Len(spilled)
        BY <3>2, <2>1, <1>dom
      <4>2. spilled'[i] = spilled[i] /\ spilled[i] < spillSeq
        BY <4>1, <2>1, <1>dom DEF SpillDiscipline
      <4>3. files'[spilled'[i]] \in Events
        BY <4>1, <4>2, <2>2, <2>3, <1>dom DEF SpillDiscipline
      <4>4. \A j \in 1..Len(spilled') : i < j => spilled'[i] < spilled'[j]
        <5>1. ASSUME NEW j \in 1..Len(spilled'), i < j PROVE spilled'[i] < spilled'[j]
          <6>1. CASE j \in 1..Len(spilled)
            BY <4>1, <4>2, <5>1, <6>1, <2>1, <1>dom DEF SpillDiscipline
          <6>2. CASE j = Len(spilled) + 1
            BY <4>2, <6>2, <2>1
          <6>3. QED
            BY <6>1, <6>2, <2>1, <1>dom
        <5>2. QED
          BY <5>1
      <4>5. spilled'[i] < spillSeq'
        BY <4>1, <4>2, <2>2, <2>3
      <4>6. QED
        BY <4>3, <4>4, <4>5
    <3>3. QED
      BY <3>1, <3>2
  <2>5. SpillDiscipline'
    BY <2>4, <1>dom DEF SpillDiscipline
  <2>6. ReadsOwnFile'
    <3>1. ASSUME NEW c \in Consumers, pc'[c] = "reading"
          PROVE  /\ path'[c] < spillSeq'
                 /\ files'[path'[c]] \in Events
                 /\ \A i \in DOMAIN spilled' : path'[c] < spilled'[i]
                 /\ \A d \in Consumers \ {c} : pc'[d] = "reading" => path'[d] # path'[c]
      <4>1. pc[c] = "reading" /\ path'[c] = path[c] /\ path[c] \in Seqs /\ path[c] \in Nat
        BY <3>1, SignalFrame DEF TypeOK, Seqs
      <4>2. path[c] < spillSeq /\ files[path[c]] \in Events
        BY <4>1 DEF ReadsOwnFile
      <4>3. files'[path'[c]] \in Events
        BY <4>1, <4>2, <2>2
      <4>4. \A i \in DOMAIN spilled' : path'[c] < spilled'[i]
        BY <4>1, <4>2, <2>1, <1>dom DEF ReadsOwnFile
      <4>5. \A d \in Consumers \ {c} : pc'[d] = "reading" => path'[d] # path'[c]
        BY <4>1, SignalFrame DEF ReadsOwnFile
      <4>6. QED
        BY <4>1, <4>2, <4>3, <4>4, <4>5, <2>2
    <3>2. QED
      BY <3>1 DEF ReadsOwnFile
  <2>7. QED
    BY <2>5, <2>6
<1>3. CASE PushWriteFails
  <2> USE <1>3 DEF PushWriteFails, PushEvent
  <2>1. /\ spillSeq \in Nat
        /\ \A s \in Seqs : s # spillSeq => files'[s] = files[s]
    BY DEF TypeOK, Seqs
  <2>2. \A i \in 1..Len(spilled) : spilled[i] \in Seqs /\ spilled[i] \in Nat
    BY <1>nat
  <2>3. SpillDiscipline'
    BY <2>1, <2>2, <1>dom DEF SpillDiscipline
  <2>4. ReadsOwnFile'
    BY <2>1, <2>2, <1>dom DEF ReadsOwnFile, TypeOK, Seqs
  <2>5. QED
    BY <2>3, <2>4
<1>4. ASSUME NEW c \in Consumers, TakeFromMemory(c)
      PROVE  SpillDiscipline' /\ ReadsOwnFile'
  <2> USE <1>4 DEF TakeFromMemory
  <2>1. Len(memQueue') <= Capacity
    BY HeadTailProperties, <1>dom DEF TypeOK, SpillDiscipline
  <2>2. QED
    BY <2>1 DEF SpillDiscipline, ReadsOwnFile
<1>5. ASSUME NEW c \in Consumers, TakeFromDisk(c)
      PROVE  SpillDiscipline' /\ ReadsOwnFile'
  <2> USE <1>5 DEF TakeFromDisk
  <2>1. /\ Len(spilled') = Len(spilled) - 1
        /\ \A i \in 1..Len(spilled') : spilled'[i] = spilled[i + 1]
        /\ Head(spilled) = spilled[1] /\ 1 \in 1..Len(spilled)
    BY HeadTailProperties, <1>dom, <1>emp DEF TypeOK
  <2>2. \A i \in 1..Len(spilled) : spilled[i] \in Nat
    BY <1>nat
  <2>3. SpillDiscipline'
    <3>1. spilled' # <<>> => spilling'
      BY DEF SpillDiscipline
    <3>2. \A i \in 1..Len(spilled') : i + 1 \in 1..Len(spilled)
      BY <2>1, <1>dom
    <3>3. ASSUME NEW i \in 1..Len(spilled')
          PROVE  /\ spilled'[i] < spillSeq'
                 /\ files'[spilled'[i]] \in Events
                 /\ \A j \in 1..Len(spilled') : i < j => spilled'[i] < spilled'[j]
      <4>1. spilled'[i] = spilled[i + 1] /\ i + 1 \in DOMAIN spilled
        BY <3>2, <2>1, <1>dom
      <4>2. spilled[i + 1] < spillSeq /\ files[spilled[i + 1]] \in Events
        BY <4>1 DEF SpillDiscipline
      <4>3. ASSUME NEW j \in 1..Len(spilled'), i < j
            PROVE  spilled'[i] < spilled'[j]
        <5>1. spilled'[j] = spilled[j + 1] /\ j + 1 \in DOMAIN spilled /\ i + 1 < j + 1
          BY <3>2, <2>1, <1>dom, <4>3
        <5>2. QED
          BY <4>1, <5>1 DEF SpillDiscipline
      <4>4. QED
        BY <4>1, <4>2, <4>3
    <3>4. Len(memQueue') <= Capacity
      BY DEF SpillDiscipline
    <3>5. QED
      BY <3>1, <3>3, <3>4, <1>dom DEF SpillDiscipline
  <2>4. ReadsOwnFile'
    <3>0. \A i \in 1..Len(spilled') : i + 1 \in 1..Len(spilled) /\ 1 < i + 1
      BY <2>1, <1>dom
    <3>1. /\ path'[c] = spilled[1] /\ pc'[c] = "reading"
          /\ \A d \in Consumers \ {c} : path'[d] = path[d] /\ pc'[d] = pc[d]
      BY <2>1 DEF TypeOK
    <3>2. /\ path'[c] < spillSeq'
          /\ files'[path'[c]] \in Events
          /\ \A i \in 1..Len(spilled') : path'[c] < spilled'[i]
      <4>1. spilled[1] < spillSeq /\ files[spilled[1]] \in Events
        BY <2>1, <1>dom DEF SpillDiscipline
      <4>2. \A i \in 1..Len(spilled') : spilled[1] < spilled[i + 1]
        BY <3>0, <2>1, <1>dom DEF SpillDiscipline
      <4>3. QED
        BY <4>1, <4>2, <3>1, <2>1
    <3>3. ASSUME NEW d \in Consumers \ {c}, pc'[d] = "reading"
          PROVE  /\ path'[d] < spillSeq'
                 /\ files'[path'[d]] \in Events
                 /\ \A i \in 1..Len(spilled') : path'[d] < spilled'[i]
                 /\ path'[d] # path'[c]
      <4>1. pc[d] = "reading" /\ path'[d] = path[d] /\ path[d] \in Nat
        BY <3>1, <3>3 DEF TypeOK, Seqs
      <4>2. /\ path[d] < spillSeq /\ files[path[d]] \in Events
            /\ \A i \in 1..Len(spilled) : path[d] < spilled[i]
        BY <4>1, <1>dom DEF ReadsOwnFile
      <4>3. QED
        BY <4>1, <4>2, <3>0, <3>1, <2>1, <2>2
    <3>4. ASSUME NEW d \in Consumers \ {c}, pc'[d] = "reading",
                 NEW e \in Consumers \ {d}, pc'[e] = "reading"
          PROVE  path'[e] # path'[d]
      <4>1. CASE e = c
        BY <4>1, <3>3, <3>4
      <4>2. CASE e # c
        BY <4>2, <3>1, <3>4 DEF ReadsOwnFile
      <4>3. QED
        BY <4>1, <4>2
    <3>5. QED
      BY <3>1, <3>2, <3>3, <3>4, <1>dom DEF ReadsOwnFile
  <2>5. QED
    BY <2>3, <2>4
<1>6. ASSUME NEW c \in Consumers, ReadSpillFile(c) \/ ReadFails(c)
      PROVE  SpillDiscipline' /\ ReadsOwnFile'
  <2>1. PICK event : FinishRead(c, event)
    BY <1>6 DEF ReadSpillFile, ReadFails
  <2> USE <2>1 DEF FinishRead, bufferVars
  <2>2. /\ path[c] \in Seqs /\ path[c] \in Nat
        /\ \A s \in Seqs : s # path[c] => files'[s] = files[s]
    BY DEF RemoveSpillFile, TypeOK, Seqs
  <2>3. \A i \in 1..Len(spilled) :
           spilled[i] \in Seqs /\ spilled[i] \in Nat /\ path[c] < spilled[i]
    <3>1. \A i \in 1..Len(spilled) : spilled[i] \in Seqs /\ spilled[i] \in Nat
      BY <1>nat
    <3>2. \A i \in 1..Len(spilled) : path[c] < spilled[i]
      BY <1>dom DEF ReadsOwnFile
    <3>3. QED
      BY <3>1, <3>2
  <2>4. SpillDiscipline'
    BY <2>2, <2>3, <1>dom DEF SpillDiscipline
  <2>5. /\ pc'[c] = "ready"
        /\ \A d \in Consumers \ {c} : pc'[d] = pc[d] /\ path[d] \in Seqs
    BY DEF TypeOK
  <2>6. ReadsOwnFile'
    BY <2>2, <2>3, <2>5, <1>dom DEF ReadsOwnFile
  <2>7. QED
    BY <2>4, <2>6
<1>7. ASSUME NEW c \in Consumers, ReturnDrained(c) \/ Wait(c)
      PROVE  SpillDiscipline' /\ ReadsOwnFile'
  <2>1. /\ UNCHANGED <<bufferVars, files, path>>
        /\ \A d \in Consumers : pc'[d] = "reading" => pc[d] = "reading"
    BY <1>7 DEF ReturnDrained, Wait, TypeOK
  <2>2. QED
    BY <2>1 DEF bufferVars, SpillDiscipline, ReadsOwnFile
<1>8. CASE CloseSetFlag \/ CloseBroadcast
  <2>1. /\ UNCHANGED <<bufferVars, files, path>>
        /\ \A d \in Consumers : pc'[d] = "reading" => pc[d] = "reading"
    BY <1>8 DEF CloseSetFlag, CloseBroadcast, TypeOK
  <2>2. QED
    BY <2>1 DEF bufferVars, SpillDiscipline, ReadsOwnFile
<1>9. CASE Restart
  <2>1. DOMAIN spilled' = {} /\ Len(memQueue') = 0
    BY <1>9, <1>dom, EmptySeq DEF Restart
  <2>2. QED
    BY <1>9, <2>1 DEF Restart, SpillDiscipline, ReadsOwnFile
<1>10. CASE Terminated \/ UNCHANGED vars
  BY <1>10 DEF Terminated, vars, bufferVars, SpillDiscipline, ReadsOwnFile
<1>11. QED
  BY <1>1, <1>2, <1>3, <1>4, <1>5, <1>6, <1>7, <1>8, <1>9, <1>10
     DEF Next, Push, NextCall

\* What each kind of step does to the events the spill files hold.
LEMMA SpilledEventsStep ==
    ASSUME TypeOK, TypeOK', SeqsWithinPushes, SpillDiscipline, SpillDiscipline',
           ReadsOwnFile
    PROVE  /\ PushToDisk => SpilledEvents' = Append(SpilledEvents, pushes + 1)
           /\ \A c \in Consumers : TakeFromDisk(c) =>
                 /\ SpilledEvents # <<>>
                 /\ SpilledEvents' = Tail(SpilledEvents)
                 /\ files[Head(spilled)] = Head(SpilledEvents)
           /\ PushWriteFails => SpilledEvents' = SpilledEvents
           /\ \A c \in Consumers : \A event :
                 FinishRead(c, event) => SpilledEvents' = SpilledEvents
<1> USE BufferAssumption DEF BufferAssumption
<1>1. /\ SpilledEvents \in Seq(Events) /\ Len(SpilledEvents) = Len(spilled)
      /\ \A i \in 1..Len(spilled) : SpilledEvents[i] = files[spilled[i]]
  BY SpilledEventsType
<1>2. /\ SpilledEvents' \in Seq(Events) /\ Len(SpilledEvents') = Len(spilled')
      /\ \A i \in 1..Len(spilled') : SpilledEvents'[i] = files'[spilled'[i]]
  <2>1. DOMAIN spilled' = 1..Len(spilled') /\ Len(spilled') \in Nat
    BY LenProperties DEF TypeOK
  <2>2. \A i \in 1..Len(spilled') : files'[spilled'[i]] \in Events
    BY <2>1 DEF SpillDiscipline
  <2>3. SpilledEvents' = [i \in 1..Len(spilled') |-> files'[spilled'[i]]]
    BY <2>1 DEF SpilledEvents
  <2>4. SpilledEvents' \in Seq(Events)
    BY <2>1, <2>2, <2>3, IsASeq
  <2>5. QED
    BY <2>1, <2>3, <2>4, LenProperties
<1>dom. /\ DOMAIN spilled = 1..Len(spilled) /\ Len(spilled) \in Nat
        /\ \A i \in 1..Len(spilled) : spilled[i] \in Seqs /\ spilled[i] \in Nat
        /\ \A i \in 1..Len(spilled) : spilled[i] < spillSeq
        /\ spillSeq \in Seqs /\ spillSeq \in Nat
  <2>1. DOMAIN spilled = 1..Len(spilled) /\ Len(spilled) \in Nat
    BY LenProperties DEF TypeOK
  <2>2. \A i \in 1..Len(spilled) : spilled[i] \in Seqs /\ spilled[i] \in Nat
    <3>1. \A i \in 1..Len(spilled) : spilled[i] \in Seqs
      BY ElementOfSeq DEF TypeOK
    <3>2. QED
      BY <3>1 DEF Seqs
  <2>3. \A i \in 1..Len(spilled) : spilled[i] < spillSeq
    BY <2>1 DEF SpillDiscipline
  <2>4. spillSeq \in Seqs /\ spillSeq \in Nat
    BY DEF TypeOK, Seqs
  <2>5. QED
    BY <2>1, <2>2, <2>3, <2>4
<1>3. ASSUME PushToDisk PROVE SpilledEvents' = Append(SpilledEvents, pushes + 1)
  <2> USE <1>3 DEF PushToDisk, PushEvent
  <2>1. /\ Len(spilled') = Len(spilled) + 1
        /\ \A i \in 1..Len(spilled) : spilled'[i] = spilled[i]
        /\ spilled'[Len(spilled) + 1] = spillSeq
    BY AppendProperties DEF TypeOK
  <2>2. /\ files'[spillSeq] = pushes + 1 /\ pushes + 1 \in Events
        /\ \A s \in Seqs : s # spillSeq => files'[s] = files[s]
    BY <1>dom DEF TypeOK, Seqs, Events
  <2>3. /\ Append(SpilledEvents, pushes + 1) \in Seq(Events)
        /\ Len(Append(SpilledEvents, pushes + 1)) = Len(spilled) + 1
        /\ \A i \in 1..Len(spilled) :
              Append(SpilledEvents, pushes + 1)[i] = SpilledEvents[i]
        /\ Append(SpilledEvents, pushes + 1)[Len(spilled) + 1] = pushes + 1
    BY <1>1, <2>2, AppendProperties
  <2>4. \A i \in 1..Len(spilled) + 1 :
           SpilledEvents'[i] = Append(SpilledEvents, pushes + 1)[i]
    <3>1. ASSUME NEW i \in 1..Len(spilled)
          PROVE  SpilledEvents'[i] = Append(SpilledEvents, pushes + 1)[i]
      <4>1. spilled[i] \in Seqs /\ spilled[i] # spillSeq
        BY <1>dom
      <4>2. files'[spilled'[i]] = files[spilled[i]]
        BY <4>1, <2>1, <2>2
      <4>3. i \in 1..Len(spilled')
        BY <2>1, <1>dom
      <4>4. QED
        BY <1>1, <1>2, <2>3, <4>2, <4>3
    <3>2. SpilledEvents'[Len(spilled) + 1] = pushes + 1
      BY <1>2, <2>1, <2>2, <1>dom
    <3>3. QED
      BY <3>1, <3>2, <2>3, <1>dom
  <2>5. QED
    BY <1>2, <2>1, <2>3, <2>4, SeqEqual
<1>4. ASSUME NEW c \in Consumers, TakeFromDisk(c)
      PROVE  /\ SpilledEvents # <<>>
             /\ SpilledEvents' = Tail(SpilledEvents)
             /\ files[Head(spilled)] = Head(SpilledEvents)
  <2> USE <1>4 DEF TakeFromDisk
  <2>1. Len(spilled) > 0
    BY EmptySeq DEF TypeOK
  <2>2. SpilledEvents # <<>>
    BY <2>1, <1>1, EmptySeq
  <2>3. /\ Len(spilled') = Len(spilled) - 1
        /\ \A i \in 1..Len(spilled') : spilled'[i] = spilled[i + 1]
    BY HeadTailProperties DEF TypeOK
  <2>4. /\ Tail(SpilledEvents) \in Seq(Events)
        /\ Len(Tail(SpilledEvents)) = Len(spilled) - 1
        /\ \A i \in 1..Len(spilled) - 1 : Tail(SpilledEvents)[i] = SpilledEvents[i + 1]
    BY <1>1, <2>2, HeadTailProperties
  <2>5. \A i \in 1..Len(spilled) - 1 : SpilledEvents'[i] = Tail(SpilledEvents)[i]
    <3>1. ASSUME NEW i \in 1..Len(spilled) - 1
          PROVE  SpilledEvents'[i] = Tail(SpilledEvents)[i]
      <4>1. i \in 1..Len(spilled') /\ i + 1 \in 1..Len(spilled)
        BY <2>3, <1>dom
      <4>2. SpilledEvents'[i] = files'[spilled'[i]] /\ spilled'[i] = spilled[i + 1]
        BY <4>1, <1>2, <2>3
      <4>3. SpilledEvents[i + 1] = files[spilled[i + 1]]
        BY <4>1, <1>1
      <4>4. QED
        BY <4>2, <4>3, <2>4
    <3>2. QED
      BY <3>1
  <2>6. SpilledEvents' = Tail(SpilledEvents)
    BY <1>2, <2>3, <2>4, <2>5, SeqEqual
  <2>7. files[Head(spilled)] = Head(SpilledEvents)
    BY <2>1, <2>2, <1>1, <1>dom DEF TypeOK
  <2>8. QED
    BY <2>2, <2>6, <2>7
<1>5. ASSUME UNCHANGED spilled,
             \A i \in 1..Len(spilled) : files'[spilled[i]] = files[spilled[i]]
      PROVE  SpilledEvents' = SpilledEvents
  BY <1>5, <1>1, <1>2, SeqEqual
<1>6. ASSUME PushWriteFails PROVE SpilledEvents' = SpilledEvents
  <2>1. \A i \in 1..Len(spilled) : files'[spilled[i]] = files[spilled[i]]
    BY <1>6, <1>dom DEF PushWriteFails, TypeOK
  <2>2. QED
    BY <1>5, <1>6, <2>1 DEF PushWriteFails
<1>7. ASSUME NEW c \in Consumers, NEW event, FinishRead(c, event)
      PROVE  SpilledEvents' = SpilledEvents
  <2>1. \A i \in 1..Len(spilled) : path[c] < spilled[i]
    BY <1>7, <1>dom DEF FinishRead, ReadsOwnFile
  <2>2. path[c] \in Nat
    BY DEF TypeOK, Seqs
  <2>3. \A i \in 1..Len(spilled) : files'[spilled[i]] = files[spilled[i]]
    BY <1>7, <2>1, <2>2, <1>dom DEF FinishRead, RemoveSpillFile, TypeOK
  <2>4. QED
    BY <1>5, <1>7, <2>3 DEF FinishRead, bufferVars
<1>8. QED
  BY <1>3, <1>4, <1>6, <1>7

\* Every step keeps the accepted events in order across the two queues.
LEMMA OrderStep ==
    ASSUME BufInv, [Next]_vars, TypeOK', SpillDiscipline'
    PROVE  ZeroLossInOrder'
<1> USE DEF BufInv
<1>seq. /\ taken \in Seq(Events) /\ memQueue \in Seq(Events)
        /\ SpilledEvents \in Seq(Events) /\ taken \o memQueue \in Seq(Events)
  BY SpilledEventsType, ConcatProperties DEF TypeOK
<1>push. \A e \in Events : (taken \o memQueue) \o Append(SpilledEvents, e)
                             = Append((taken \o memQueue) \o SpilledEvents, e)
  BY <1>seq, ConcatAppend
<1>same. ASSUME UNCHANGED <<accepted, taken, memQueue>>, SpilledEvents' = SpilledEvents
         PROVE  ZeroLossInOrder'
  BY <1>same DEF ZeroLossInOrder
<1>files. ASSUME UNCHANGED <<accepted, taken, bufferVars, files>>
          PROVE  ZeroLossInOrder'
  BY <1>files DEF ZeroLossInOrder, SpilledEvents, bufferVars
<1>1. CASE PushToMemory
  <2> USE <1>1 DEF PushToMemory, PushEvent
  <2>1. spilled = <<>>
    BY DEF ToMemory, SpillDiscipline
  <2>2. SpilledEvents = <<>> /\ SpilledEvents' = <<>>
    <3>1. SpilledEvents = <<>>
      BY <2>1, SpilledEventsType, EmptySeq
    <3>2. QED
      BY <3>1 DEF SpilledEvents
  <2>3. pushes + 1 \in Events
    BY BufferAssumption DEF BufferAssumption, TypeOK, Events
  <2>4. accepted = taken \o memQueue
    BY <1>seq, <2>2, ConcatEmptySeq DEF ZeroLossInOrder
  <2>5. accepted' = taken \o memQueue' /\ taken \o memQueue' \in Seq(Events)
    <3>1. taken \o Append(memQueue, pushes + 1) = Append(taken \o memQueue, pushes + 1)
      BY <1>seq, <2>3, ConcatAppend
    <3>2. Append(taken \o memQueue, pushes + 1) \in Seq(Events)
      BY <1>seq, <2>3, AppendProperties
    <3>3. QED
      BY <2>4, <3>1, <3>2
  <2>6. QED
    BY <2>2, <2>5, ConcatEmptySeq DEF ZeroLossInOrder
<1>2. CASE PushToDisk
  <2> USE <1>2 DEF PushToDisk, PushEvent
  <2>1. SpilledEvents' = Append(SpilledEvents, pushes + 1)
    BY SpilledEventsStep
  <2>2. pushes + 1 \in Events
    BY BufferAssumption DEF BufferAssumption, TypeOK, Events
  <2>3. (taken \o memQueue) \o Append(SpilledEvents, pushes + 1)
          = Append((taken \o memQueue) \o SpilledEvents, pushes + 1)
    BY <2>2, <1>push
  <2>4. QED
    BY <2>1, <2>3 DEF ZeroLossInOrder
<1>3. CASE PushWriteFails
  BY <1>3, <1>same, SpilledEventsStep DEF PushWriteFails, PushEvent
<1>4. ASSUME NEW c \in Consumers, TakeFromMemory(c)
      PROVE  ZeroLossInOrder'
  <2> USE <1>4 DEF TakeFromMemory
  <2>1. taken' \o memQueue' = taken \o memQueue
    BY <1>seq, MoveHead
  <2>2. SpilledEvents' = SpilledEvents
    BY DEF SpilledEvents
  <2>3. QED
    BY <2>1, <2>2 DEF ZeroLossInOrder
<1>5. ASSUME NEW c \in Consumers, TakeFromDisk(c)
      PROVE  ZeroLossInOrder'
  <2> USE <1>5 DEF TakeFromDisk
  <2>1. /\ SpilledEvents # <<>> /\ SpilledEvents' = Tail(SpilledEvents)
        /\ taken' = Append(taken, Head(SpilledEvents))
    BY SpilledEventsStep
  <2>2. taken \o memQueue = taken /\ taken' \in Seq(Events) /\ taken' \o memQueue' = taken'
    BY <1>seq, ConcatEmptySeq DEF TypeOK
  <2>3. taken' \o SpilledEvents' = taken \o SpilledEvents
    BY <1>seq, <2>1, MoveHead
  <2>4. QED
    BY <2>2, <2>3 DEF ZeroLossInOrder
<1>6. ASSUME NEW c \in Consumers, ReadSpillFile(c) \/ ReadFails(c)
      PROVE  ZeroLossInOrder'
  <2>1. PICK event : FinishRead(c, event)
    BY <1>6 DEF ReadSpillFile, ReadFails
  <2>2. SpilledEvents' = SpilledEvents
    BY <2>1, SpilledEventsStep
  <2>3. QED
    BY <2>1, <2>2, <1>same DEF FinishRead, bufferVars
<1>7. ASSUME NEW c \in Consumers, ReturnDrained(c) \/ Wait(c)
      PROVE  ZeroLossInOrder'
  BY <1>7, <1>files DEF ReturnDrained, Wait, history
<1>8. CASE CloseSetFlag \/ CloseBroadcast
  BY <1>8, <1>files DEF CloseSetFlag, CloseBroadcast, history
<1>9. CASE Restart
  <2> USE <1>9 DEF Restart
  <2>1. SpilledEvents' = <<>>
    BY DEF SpilledEvents
  <2>2. <<>> \o <<>> = <<>>
    BY ConcatEmptySeq, EmptySeq
  <2>3. QED
    BY <2>1, <2>2 DEF ZeroLossInOrder
<1>10. CASE Terminated \/ UNCHANGED vars
  BY <1>10, <1>files DEF Terminated, vars, bufferVars, history
<1>11. QED
  BY <1>1, <1>2, <1>3, <1>4, <1>5, <1>6, <1>7, <1>8, <1>9, <1>10
     DEF Next, Push, NextCall

\* Once a consumer has stopped, nothing fills the buffer again.
LEMMA StoppedStep ==
    ASSUME BufInv, [Next]_vars, TypeOK', SpillDiscipline', ZeroLossInOrder'
    PROVE  StoppedMeansDrained'
<1> USE DEF BufInv
<1>1. (closed' /\ memQueue' = <<>> /\ spilled' = <<>>) => taken' = accepted'
  <2> SUFFICES ASSUME memQueue' = <<>>, spilled' = <<>> PROVE taken' = accepted'
    OBVIOUS
  <2>1. SpilledEvents' = <<>>
    BY DEF SpilledEvents
  <2>2. taken' \in Seq(Events)
    BY DEF TypeOK
  <2>3. QED
    BY <2>1, <2>2, ConcatEmptySeq DEF ZeroLossInOrder
<1>2. SUFFICES ASSUME NEW c \in Consumers, pc'[c] = "stopped"
               PROVE  closed' /\ memQueue' = <<>> /\ spilled' = <<>>
  BY <1>1 DEF StoppedMeansDrained
<1>3. CASE pc[c] = "stopped"
  <2>1. closed /\ memQueue = <<>> /\ spilled = <<>>
    BY <1>3 DEF StoppedMeansDrained
  <2>2. CASE UNCHANGED vars
    BY <2>1, <2>2 DEF vars, bufferVars
  <2>3. CASE Next
    BY <1>2, <2>1, <2>3 DEF Next, Push, PushToMemory, PushToDisk, PushWriteFails,
       PushEvent, NextCall, TakeFromMemory, TakeFromDisk, ReadSpillFile,
       ReadFails, FinishRead, ReturnDrained, Wait, CloseSetFlag, CloseBroadcast,
       Restart, Terminated, vars, bufferVars
  <2>4. QED
    BY <2>2, <2>3
<1>4. CASE pc[c] # "stopped"
  <2>1. ~(Push \/ UNCHANGED vars \/ Terminated \/ CloseSetFlag \/ Restart)
    <3>1. ~Push
      BY <1>2, <1>4, SignalFrame DEF Push, PushToMemory, PushToDisk, PushWriteFails
    <3>2. QED
      BY <1>2, <1>4, <3>1 DEF vars, Terminated, CloseSetFlag, Restart
  <2>2. ~CloseBroadcast
    BY <1>2, <1>4 DEF CloseBroadcast, TypeOK
  <2>3. PICK d \in Consumers : NextCall(d)
    BY <2>1, <2>2 DEF Next
  <2>4. ReturnDrained(d)
    BY <1>2, <1>4, <2>3 DEF NextCall, TakeFromMemory, TakeFromDisk, ReadSpillFile,
       ReadFails, FinishRead, Wait, TypeOK
  <2>5. QED
    BY <2>4 DEF ReturnDrained, bufferVars
<1>5. QED
  BY <1>3, <1>4

\* BufInv is inductive.
LEMMA StepInv == BufInv /\ [Next]_vars => BufInv'
<1> SUFFICES ASSUME BufInv, [Next]_vars PROVE BufInv'
  OBVIOUS
<1>1. TypeOK' /\ SeqsWithinPushes'
  BY TypeStep DEF BufInv
<1>2. SpillDiscipline' /\ ReadsOwnFile'
  BY <1>1, DisciplineStep DEF BufInv
<1>3. ZeroLossInOrder'
  BY <1>1, <1>2, OrderStep
<1>4. StoppedMeansDrained'
  BY <1>1, <1>2, <1>3, StoppedStep
<1>5. QED
  BY <1>1, <1>2, <1>3, <1>4 DEF BufInv

\* The inductive invariant holds in every behaviour of the buffer.
THEOREM BufferInvariant == Spec => []BufInv
<1>1. QED
  BY InitInv, StepInv, PTL DEF Spec

\* Type correctness of the buffer (agent/buffer.go) in every behaviour.
THEOREM TypeCorrect == Spec => []TypeOK
<1>1. BufInv => TypeOK
  BY DEF BufInv
<1>2. QED
  BY <1>1, BufferInvariant, PTL

\* Zero loss in FIFO order, for every capacity and any number of consumers:
\* what was taken, then memory, then the spill files, is what Push accepted.
THEOREM ZeroLoss == Spec => []ZeroLossInOrder
<1>1. BufInv => ZeroLossInOrder
  BY DEF BufInv
<1>2. QED
  BY <1>1, BufferInvariant, PTL

\* A spill file read after the mutex is released is still the file that was
\* popped: no write, no other consumer and no restart reaches it first.
THEOREM OwnFile == Spec => []ReadsOwnFile
<1>1. BufInv => ReadsOwnFile
  BY DEF BufInv
<1>2. QED
  BY <1>1, BufferInvariant, PTL

\* Memory stays within its capacity and listed files stay in order.
THEOREM Discipline == Spec => []SpillDiscipline
<1>1. BufInv => SpillDiscipline
  BY DEF BufInv
<1>2. QED
  BY <1>1, BufferInvariant, PTL

\* Next reports the end only when everything accepted has been taken.
THEOREM Drained == Spec => []StoppedMeansDrained
<1>1. BufInv => StoppedMeansDrained
  BY DEF BufInv
<1>2. QED
  BY <1>1, BufferInvariant, PTL

-----------------------------------------------------------------------------
(* The buffer implements the abstract FIFO queue.                          *)

Queue == memQueue \o SpilledEvents

Inflight == [c \in Consumers |-> IF pc[c] = "reading" THEN files[path[c]] ELSE Nil]

\* Taking from the front of a concatenation takes from its first part.
LEMMA HeadTailConcat ==
    ASSUME NEW S, NEW s \in Seq(S), NEW t \in Seq(S), s # <<>>
    PROVE  /\ s \o t # <<>>
           /\ Head(s \o t) = Head(s)
           /\ Tail(s \o t) = Tail(s) \o t
<1>1. /\ s \o t \in Seq(S) /\ Len(s \o t) = Len(s) + Len(t)
      /\ \A i \in 1..Len(s) + Len(t) :
            (s \o t)[i] = IF i <= Len(s) THEN s[i] ELSE t[i - Len(s)]
  BY ConcatProperties
<1>2. Len(s) \in Nat \ {0} /\ Len(t) \in Nat
  BY EmptySeq, LenProperties
<1>3. s \o t # <<>>
  BY <1>1, <1>2, EmptySeq
<1>4. Head(s \o t) = Head(s)
  BY <1>1, <1>2, <1>3
<1>5. /\ Tail(s) \in Seq(S) /\ Len(Tail(s)) = Len(s) - 1
      /\ \A i \in 1..Len(s) - 1 : Tail(s)[i] = s[i + 1]
  BY HeadTailProperties
<1>6. /\ Tail(s \o t) \in Seq(S) /\ Len(Tail(s \o t)) = Len(s) + Len(t) - 1
      /\ \A i \in 1..Len(s) + Len(t) - 1 : Tail(s \o t)[i] = (s \o t)[i + 1]
  BY <1>1, <1>3, HeadTailProperties
<1>7. /\ Tail(s) \o t \in Seq(S) /\ Len(Tail(s) \o t) = Len(s) - 1 + Len(t)
      /\ \A i \in 1..Len(s) - 1 + Len(t) :
            (Tail(s) \o t)[i] = IF i <= Len(s) - 1 THEN Tail(s)[i] ELSE t[i - (Len(s) - 1)]
  BY <1>5, ConcatProperties
<1>8. \A i \in 1..Len(s) + Len(t) - 1 : Tail(s \o t)[i] = (Tail(s) \o t)[i]
  BY <1>1, <1>2, <1>5, <1>6, <1>7
<1>9. Tail(s \o t) = Tail(s) \o t
  BY <1>2, <1>6, <1>7, <1>8, SeqEqual
<1>10. QED
  BY <1>3, <1>4, <1>9

\* Steps that neither start nor finish a read leave the events in flight alone.
LEMMA InflightFrame ==
    ASSUME BufInv, UNCHANGED path,
           \A c \in Consumers : (pc'[c] = "reading") <=> (pc[c] = "reading"),
           \A c \in Consumers : pc[c] = "reading" => files'[path[c]] = files[path[c]]
    PROVE  Inflight' = Inflight
BY DEF Inflight

\* One step of the buffer is one step of the queue, or leaves it alone.
LEMMA FifoStep == BufInv /\ BufInv' /\ [Next]_vars => [Fifo!Next]_Fifo!vars
<1> SUFFICES ASSUME BufInv, BufInv', [Next]_vars
             PROVE  [Fifo!Next]_<<Queue, Inflight, delivered>>
  BY DEF Fifo!vars, Queue, Inflight
<1> USE DEF BufInv
<1>seq. /\ memQueue \in Seq(Events) /\ SpilledEvents \in Seq(Events)
        /\ Queue \in Seq(Events)
  BY SpilledEventsType, ConcatProperties DEF TypeOK, Queue
<1>nil. Nil \notin Events
  BY BufferAssumption DEF BufferAssumption, Nil, Events
<1>enq. ASSUME NEW e \in Events, Queue' = Append(Queue, e),
               Inflight' = Inflight, UNCHANGED delivered
        PROVE  Fifo!Next
  BY <1>enq DEF Fifo!Next, Fifo!Enqueue, Queue, Inflight
<1>stut. ASSUME Queue' = Queue, Inflight' = Inflight, UNCHANGED delivered
         PROVE  [Fifo!Next]_<<Queue, Inflight, delivered>>
  BY <1>stut
<1>wr. ASSUME PushToDisk \/ PushWriteFails
       PROVE  \A c \in Consumers : pc[c] = "reading" => files'[path[c]] = files[path[c]]
  <2>1. \A s \in Seqs : s # spillSeq => files'[s] = files[s]
    BY <1>wr DEF PushToDisk, PushWriteFails, TypeOK
  <2>2. ASSUME NEW c \in Consumers, pc[c] = "reading"
        PROVE  path[c] \in Seqs /\ path[c] # spillSeq
    <3>1. path[c] \in Seqs /\ spillSeq \in Nat /\ path[c] < spillSeq
      BY <2>2 DEF ReadsOwnFile, TypeOK, Seqs
    <3>2. QED
      BY <3>1 DEF Seqs
  <2>3. QED
    BY <2>1, <2>2
<1>ev. Push => pushes + 1 \in Events
  BY BufferAssumption DEF BufferAssumption, TypeOK, Events, Push, PushToMemory,
     PushToDisk, PushWriteFails, PushEvent
<1>1. CASE PushToMemory
  <2> USE <1>1 DEF PushToMemory, PushEvent
  <2>1. SpilledEvents = <<>> /\ SpilledEvents' = <<>>
    <3>1. spilled = <<>>
      BY DEF ToMemory, SpillDiscipline
    <3>2. SpilledEvents = <<>>
      BY <3>1, SpilledEventsType, EmptySeq
    <3>3. QED
      BY <3>2 DEF SpilledEvents
  <2>2. memQueue' \in Seq(Events) /\ Queue = memQueue /\ Queue' = memQueue'
    BY <1>seq, <2>1, ConcatEmptySeq DEF Queue, TypeOK
  <2>3. Inflight' = Inflight
    BY SignalFrame, InflightFrame
  <2>4. QED
    BY <1>enq, <1>ev, <2>2, <2>3 DEF Push
<1>2. CASE PushToDisk
  <2> USE <1>2 DEF PushToDisk, PushEvent
  <2>1. SpilledEvents' = Append(SpilledEvents, pushes + 1)
    BY SpilledEventsStep
  <2>2. pushes + 1 \in Events
    BY <1>ev DEF Push
  <2>3. Queue' = Append(Queue, pushes + 1)
    BY <1>seq, <2>1, <2>2, ConcatAppend DEF Queue
  <2>4. Inflight' = Inflight
    BY <1>wr, SignalFrame, InflightFrame
  <2>5. QED
    BY <1>enq, <2>2, <2>3, <2>4
<1>3. CASE PushWriteFails
  <2> USE <1>3 DEF PushWriteFails, PushEvent
  <2>1. SpilledEvents' = SpilledEvents
    BY SpilledEventsStep
  <2>2. Inflight' = Inflight
    BY <1>wr, InflightFrame
  <2>3. QED
    BY <1>stut, <2>1, <2>2 DEF Queue
<1>4. ASSUME NEW c \in Consumers, TakeFromMemory(c)
      PROVE  Fifo!Next
  <2> USE <1>4 DEF TakeFromMemory
  <2>1. SpilledEvents' = SpilledEvents
    BY DEF SpilledEvents
  <2>2. Queue # <<>> /\ Head(Queue) = Head(memQueue) /\ Queue' = Tail(Queue)
    BY <1>seq, <2>1, HeadTailConcat DEF Queue
  <2>3. Inflight' = Inflight
    BY InflightFrame
  <2>4. QED
    BY <2>2, <2>3 DEF Fifo!Next, Fifo!DequeueAndDeliver, Queue, Inflight
<1>5. ASSUME NEW c \in Consumers, TakeFromDisk(c)
      PROVE  Fifo!Next
  <2> USE <1>5 DEF TakeFromDisk
  <2>1. /\ SpilledEvents # <<>> /\ SpilledEvents' = Tail(SpilledEvents)
        /\ files[Head(spilled)] = Head(SpilledEvents)
    BY SpilledEventsStep
  <2>2. Queue = SpilledEvents /\ Queue' = SpilledEvents'
    <3>1. SpilledEvents' \in Seq(Events)
      BY <1>seq, <2>1, HeadTailProperties
    <3>2. QED
      BY <1>seq, <3>1, ConcatEmptySeq DEF Queue
  <2>3. Inflight[c] = Nil
    BY DEF Inflight
  <2>4. Inflight' = [Inflight EXCEPT ![c] = Head(Queue)]
    BY <2>1, <2>2 DEF Inflight, TypeOK
  <2>5. Fifo!Dequeue(c)
    BY <2>1, <2>2, <2>3, <2>4 DEF Fifo!Dequeue, Queue, Inflight
  <2>6. QED
    BY <2>5 DEF Fifo!Next
<1>6. ASSUME NEW c \in Consumers, NEW event, FinishRead(c, event)
      PROVE  /\ Queue' = Queue
             /\ Inflight[c] = files[path[c]] /\ Inflight[c] # Nil
             /\ Inflight' = [Inflight EXCEPT ![c] = Nil]
  <2> USE <1>6 DEF FinishRead
  <2>1. Queue' = Queue
    BY SpilledEventsStep DEF Queue, bufferVars
  <2>2. Inflight[c] = files[path[c]] /\ Inflight[c] # Nil
    BY <1>nil DEF Inflight, ReadsOwnFile
  <2>3. \A d \in Consumers \ {c} : pc[d] = "reading" => files'[path[d]] = files[path[d]]
    BY DEF RemoveSpillFile, ReadsOwnFile, TypeOK
  <2>4. Inflight' = [Inflight EXCEPT ![c] = Nil]
    BY <2>3 DEF Inflight, TypeOK
  <2>5. QED
    BY <2>1, <2>2, <2>4
<1>7. ASSUME NEW c \in Consumers, ReadSpillFile(c)
      PROVE  Fifo!Next
  <2>1. Fifo!Deliver(c)
    BY <1>6, <1>7 DEF ReadSpillFile, FinishRead, Fifo!Deliver, Queue, Inflight
  <2>2. QED
    BY <2>1 DEF Fifo!Next
<1>8. ASSUME NEW c \in Consumers, ReadFails(c)
      PROVE  Fifo!Next
  <2>1. Fifo!Surrender(c)
    BY <1>6, <1>8 DEF ReadFails, FinishRead, Fifo!Surrender, Queue, Inflight
  <2>2. QED
    BY <2>1 DEF Fifo!Next
<1>9. ASSUME (\E c \in Consumers : ReturnDrained(c) \/ Wait(c))
             \/ CloseSetFlag \/ CloseBroadcast \/ Terminated \/ UNCHANGED vars
      PROVE  [Fifo!Next]_<<Queue, Inflight, delivered>>
  <2>1. UNCHANGED <<memQueue, spilled, files, path, delivered>>
    BY <1>9 DEF ReturnDrained, Wait, CloseSetFlag, CloseBroadcast, Terminated,
       vars, bufferVars, history
  <2>2. \A d \in Consumers : (pc'[d] = "reading") <=> (pc[d] = "reading")
    BY <1>9 DEF ReturnDrained, Wait, CloseSetFlag, CloseBroadcast, Terminated,
       vars, TypeOK
  <2>3. Inflight' = Inflight /\ Queue' = Queue
    BY <2>1, <2>2, InflightFrame DEF Queue, SpilledEvents
  <2>4. QED
    BY <1>stut, <2>1, <2>3
<1>10. CASE Restart
  <2> USE <1>10 DEF Restart
  <2>1. Queue' = <<>>
    <3>1. SpilledEvents' = <<>>
      BY DEF SpilledEvents
    <3>2. QED
      BY <3>1, ConcatEmptySeq, EmptySeq DEF Queue
  <2>2. Inflight' = [c \in Consumers |-> Nil]
    BY DEF Inflight
  <2>3. QED
    BY <2>1, <2>2 DEF Fifo!Next, Fifo!Restart, Queue, Inflight
<1>11. QED
  BY <1>1, <1>2, <1>3, <1>4, <1>5, <1>7, <1>8, <1>9, <1>10
     DEF Next, Push, NextCall

\* The buffer implements FifoQueue: memory, spill files, the read outside the
\* lock, failures and restarts are invisible to a user of the abstract queue.
THEOREM Refinement == Spec => ImplementsFifo
<1>1. Init => Fifo!Init
  <2> SUFFICES ASSUME Init PROVE Fifo!Init
    OBVIOUS
  <2>1. SpilledEvents = <<>>
    BY DEF Init, SpilledEvents
  <2>2. memQueue \o SpilledEvents = <<>>
    BY <2>1, ConcatEmptySeq, EmptySeq DEF Init
  <2>3. QED
    BY <2>2 DEF Init, Fifo!Init
<1>2. QED
  BY <1>1, FifoStep, BufferInvariant, PTL DEF Spec, ImplementsFifo, Fifo!Spec
=============================================================================
