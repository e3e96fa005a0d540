-------------------------- MODULE BatchWriterProofs --------------------------
(***************************************************************************)
(* Machine-checked facts about the batch writer, for any events, rows and  *)
(* sizes.  The proofs about its users, Tracer and Outbox, rest on them:    *)
(* what each step of the writer does with the events it holds.             *)
(***************************************************************************)
EXTENDS BatchWriter, Integers, SequenceTheorems, FiniteSetTheorems, TLAPS

\* An event the writer has taken and not forgotten: in its table, in its hands,
\* or known to be lost.
Kept(e) == Recorded(e) \/ e \in InMemory \cup lost

LEMMA WriterInitInv == ASSUME NEW Events, WriterInit PROVE WriterInv(Events)
<1>1. queue \in Seq(Events) /\ Len(queue) = 0
  BY EmptySeq DEF WriterInit
<1>2. IsFiniteSet(batch) /\ Cardinality(batch) = 0
  BY FS_EmptySet DEF WriterInit
<1> QED
  BY <1>1, <1>2, WriterAssumption
  DEF WriterInit, WriterInv, WriterTypeOK, EachOnce, Queued

\* try_send of an event that is new to the writer.
LEMMA PushStep ==
    ASSUME NEW Events, WriterInv(Events), NEW e \in Events, e \notin InMemory, Push(e)
    PROVE  /\ WriterInv(Events)'
           /\ InMemory' = InMemory \cup {e}
           /\ lost' = lost /\ table' = table
<1> USE WriterAssumption
<1>1. /\ queue \in Seq(Events) /\ Len(queue) \in Nat
      /\ queue' = Append(queue, e) /\ UNCHANGED <<batch, writer, table, lost>>
      /\ Len(queue) < BufferSize
  BY LenProperties DEF WriterInv, WriterTypeOK, Push, Full
<1>2. /\ queue' \in Seq(Events) /\ Len(queue') = Len(queue) + 1
      /\ \A i \in 1..Len(queue) : queue'[i] = queue[i]
      /\ queue'[Len(queue) + 1] = e
  BY <1>1, AppendProperties
<1>3. Queued' = Queued \cup {e}
  BY <1>1, <1>2 DEF Queued
<1>4. \A i, j \in 1..Len(queue') : queue'[i] = queue'[j] => i = j
  BY <1>1, <1>2 DEF WriterInv, EachOnce, InMemory, Queued
<1>5. EachOnce'
  BY <1>1, <1>3, <1>4 DEF WriterInv, EachOnce, InMemory
<1> QED
  BY <1>1, <1>2, <1>3, <1>5 DEF WriterInv, WriterTypeOK, InMemory

\* The head of the channel moves to the batch.
LEMMA RecvStep ==
    ASSUME NEW Events, WriterInv(Events), WriterRecv
    PROVE  /\ WriterInv(Events)'
           /\ InMemory' = InMemory
           /\ lost' = lost /\ table' = table
<1> USE WriterAssumption
<1>1. /\ queue \in Seq(Events) /\ queue # <<>> /\ writer = "receiving"
      /\ queue' = Tail(queue) /\ batch' = batch \cup {Head(queue)}
      /\ writer' = IF Cardinality(batch') >= FlushSize THEN "flushing" ELSE writer
      /\ UNCHANGED <<table, lost>>
  BY DEF WriterInv, WriterTypeOK, WriterRecv
<1>2. /\ Len(queue) \in Nat \ {0} /\ Head(queue) = queue[1]
      /\ Head(queue) \in Events
      /\ queue' \in Seq(Events) /\ Len(queue') = Len(queue) - 1
      /\ \A i \in 1..Len(queue') : queue'[i] = queue[i + 1]
  BY <1>1, EmptySeq, HeadTailProperties
<1>3. /\ IsFiniteSet(batch') /\ Cardinality(batch') <= Cardinality(batch) + 1
      /\ Cardinality(batch) \in Nat /\ Cardinality(batch') \in Nat
      /\ Cardinality(batch) < FlushSize
  <2>1. IsFiniteSet(batch) /\ Cardinality(batch) \in Nat
    BY FS_CardinalityType DEF WriterInv
  <2>2. /\ IsFiniteSet(batch')
        /\ Cardinality(batch') = IF Head(queue) \in batch THEN Cardinality(batch)
                                 ELSE Cardinality(batch) + 1
    BY <1>1, <2>1, FS_AddElement
  <2>3. Cardinality(batch) < FlushSize
    BY <1>1 DEF WriterInv
  <2> QED
    BY <2>1, <2>2, <2>3
<1>4. Queued = Queued' \cup {queue[1]} /\ queue[1] \notin Queued'
  <2>1. ASSUME NEW i \in 1..Len(queue)
        PROVE  queue[i] \in Queued' \cup {queue[1]}
    <3>1. CASE i # 1
      <4>1. i - 1 \in 1..Len(queue') /\ queue'[i - 1] = queue[i]
        BY <1>2, <3>1
      <4> QED
        BY <4>1 DEF Queued
    <3> QED
      BY <3>1
  <2>2. ASSUME NEW i \in 1..Len(queue')
        PROVE  queue'[i] \in Queued /\ queue'[i] # queue[1]
    BY <1>2 DEF Queued, WriterInv, EachOnce
  <2>3. queue[1] \in Queued
    BY <1>2 DEF Queued
  <2> QED
    BY <2>1, <2>2, <2>3 DEF Queued
<1>5. \A i, j \in 1..Len(queue') : queue'[i] = queue'[j] => i = j
  <2> SUFFICES ASSUME NEW i \in 1..Len(queue'), NEW j \in 1..Len(queue'),
                      queue'[i] = queue'[j]
               PROVE  i = j
    OBVIOUS
  <2>1. i + 1 \in 1..Len(queue) /\ j + 1 \in 1..Len(queue)
        /\ queue[i + 1] = queue[j + 1]
    BY <1>2
  <2>2. i + 1 = j + 1
    BY <2>1 DEF WriterInv, EachOnce
  <2> QED
    BY <2>2
<1>6. EachOnce'
  BY <1>1, <1>2, <1>4, <1>5 DEF WriterInv, EachOnce
<1> QED
  BY <1>1, <1>2, <1>3, <1>4, <1>6 DEF WriterInv, WriterTypeOK, InMemory

\* The batch leaves the writer's hands for the table, or, when the INSERT fails,
\* for nowhere.
LEMMA FlushStep ==
    ASSUME NEW Events, WriterInv(Events), FlushDone \/ FlushFails
    PROVE  /\ WriterInv(Events)'
           /\ InMemory' = Queued
           /\ FlushDone => table' = table \cup {RowOf[e] : e \in batch} /\ lost' = lost
           /\ FlushFails => table' = table /\ lost' = lost \cup batch
<1>1. queue' = queue /\ batch' = {} /\ writer' = "receiving"
  BY DEF FlushDone, FlushFails
<1>2. IsFiniteSet({}) /\ Cardinality({}) = 0
  BY FS_EmptySet
<1>3. Queued' = Queued
  BY <1>1 DEF Queued
<1>4. /\ FlushDone => table' = table \cup {RowOf[e] : e \in batch} /\ lost' = lost
      /\ FlushFails => table' = table /\ lost' = lost \cup batch
  BY DEF FlushDone, FlushFails
<1>5. WriterTypeOK(Events)'
  BY <1>1, <1>2, <1>4, WriterAssumption DEF WriterInv, WriterTypeOK
<1>6. EachOnce'
  BY <1>1, <1>3 DEF WriterInv, EachOnce
<1> QED
  BY <1>1, <1>2, <1>3, <1>4, <1>5, <1>6, WriterAssumption DEF WriterInv, InMemory

\* The process ends with all it held.
LEMMA DiesStep ==
    ASSUME NEW Events, WriterInv(Events), WriterDies
    PROVE  /\ WriterInv(Events)'
           /\ InMemory' = {}
           /\ lost' = lost \cup InMemory /\ table' = table
<1>1. /\ queue' = <<>> /\ batch' = {} /\ writer' = "receiving"
      /\ lost' = lost \cup InMemory /\ table' = table
  BY DEF WriterDies
<1>2. queue' \in Seq(Events) /\ Len(queue') = 0
  BY <1>1, EmptySeq
<1>3. IsFiniteSet({}) /\ Cardinality({}) = 0
  BY FS_EmptySet
<1>4. Queued' = {}
  BY <1>2 DEF Queued
<1>5. InMemory \subseteq Events
  BY ElementOfSeq DEF WriterInv, WriterTypeOK, InMemory, Queued
<1> QED
  BY <1>1, <1>2, <1>3, <1>4, <1>5, WriterAssumption
  DEF WriterInv, WriterTypeOK, EachOnce, InMemory

\* No step of the writer by itself takes anything new, or forgets what it has:
\* what leaves its hands is in the table or known to be lost.
LEMMA WriterKeeps ==
    ASSUME NEW Events, WriterInv(Events),
           WriterStep \/ FlushFails \/ WriterDies \/ UNCHANGED writerVars
    PROVE  /\ WriterInv(Events)'
           /\ InMemory' \cup lost' \subseteq InMemory \cup lost
           /\ \A e : Kept(e) => Kept(e)'
           /\ \A k \in table' \ table : \E e \in InMemory : k = RowOf[e]
<1>1. CASE WriterRecv
  BY <1>1, RecvStep DEF Kept, Recorded
<1>2. CASE FlushTick
  <2>1. UNCHANGED <<queue, batch, table, lost>> /\ writer' = "flushing"
    BY <1>2 DEF FlushTick
  <2>2. Queued' = Queued
    BY <2>1 DEF Queued
  <2> QED
    BY <2>1, <2>2 DEF WriterInv, WriterTypeOK, EachOnce, InMemory, Kept, Recorded
<1>3. CASE FlushDone
  BY <1>3, FlushStep DEF Kept, Recorded, InMemory
<1>4. CASE FlushFails
  BY <1>4, FlushStep DEF Kept, Recorded, InMemory
<1>5. CASE WriterDies
  BY <1>5, DiesStep DEF Kept, Recorded
<1>6. CASE UNCHANGED writerVars
  BY <1>6 DEF writerVars, WriterInv, WriterTypeOK, EachOnce, InMemory, Queued, Kept,
     Recorded
<1> QED
  BY <1>1, <1>2, <1>3, <1>4, <1>5, <1>6 DEF WriterStep

\* What a push takes it keeps.
LEMMA PushKeeps ==
    ASSUME NEW Events, WriterInv(Events), NEW e \in Events, e \notin InMemory, Push(e)
    PROVE  /\ Kept(e)'
           /\ \A f : Kept(f) => Kept(f)'
  BY PushStep DEF Kept, Recorded

=============================================================================
