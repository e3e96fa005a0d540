---------------------------- MODULE TracerProofs ----------------------------
(***************************************************************************)
(* Machine-checked proofs about Tracer: for any agents and streams, any    *)
(* number of entries, page, channel and batch sizes, any assignment of     *)
(* entries to rows, and any number of failures and restarts.               *)
(***************************************************************************)
EXTENDS Tracer, BatchWriterProofs

\* Where a read stops on a stream that the loop knows, and what it returns
\* (consumer.rs, XREADGROUP ">").
LEMMA ReadBounds ==
    ASSUME TypeOK, LoopInv, NEW s \in Streams
    PROVE  /\ LastRead(s) \in 0..Limit
           /\ cursor[s] <= LastRead(s) /\ LastRead(s) <= len[s]
<1>1. /\ cursor[s] \in 0..Limit /\ len[s] \in 0..Limit /\ cursor[s] <= len[s]
      /\ ReadCount \in Nat /\ Limit \in Nat
  BY TracerBounds DEF TypeOK, LoopInv
<1> QED
  BY <1>1 DEF LastRead

\* A read is delivered exactly once: what the cursor passes is in the answer,
\* and nothing in the answer had been delivered.
LEMMA ReadDelivers ==
    ASSUME TypeOK, LoopInv, cursor' = [s \in Streams |-> LastRead(s)], NEW e \in Entries
    PROVE  /\ Delivered(e)' <=> Delivered(e) \/ e \in Unread
           /\ e \in Unread => ~Delivered(e)
<1>1. e[1] \in Streams /\ e[2] \in 1..Limit
  BY DEF Entries
<1>2. /\ cursor[e[1]] \in 0..Limit /\ len[e[1]] \in 0..Limit /\ cursor[e[1]] <= len[e[1]]
      /\ ReadCount \in Nat /\ Limit \in Nat
  BY <1>1, TracerBounds DEF TypeOK, LoopInv
<1>3. cursor'[e[1]] = LastRead(e[1])
  BY <1>1
<1> QED
  BY <1>1, <1>2, <1>3 DEF Delivered, Unread, LastRead

LEMMA UnreadIsEntries == Unread \subseteq Entries
  BY DEF Unread

----------------------------------------------------------------------------
(* Type correctness                                                        *)

LEMMA InitInv == Init => TracerInv
<1> SUFFICES ASSUME Init PROVE TracerInv
  OBVIOUS
<1>1. WriterInv(Entries)
  BY WriterInitInv DEF Init
<1>2. InMemory = {} /\ lost = {}
  BY DEF Init, WriterInit, InMemory, Queued
<1>3. TypeOK
  BY <1>1, TracerBounds DEF Init, TypeOK, WriterInv
<1>4. LoopInv /\ GroupsInv
  BY TracerBounds DEF Init, LoopInv, GroupsInv
<1>5. \A e \in Entries : ~Delivered(e)
  BY TracerBounds DEF Init, Delivered, Entries
<1> QED
  BY <1>1, <1>2, <1>3, <1>4, <1>5 DEF Init, TracerInv, CustodyInv, AckedIsKept

\* The steps of the loop and of its surroundings that leave the writer alone.
LEMMA LoopTypeStep ==
    ASSUME TypeOK, LoopInv, WriterTypeOK(Entries)', [Next]_vars
    PROVE  TypeOK'
<1> USE TracerBounds
<1>1. ASSUME NEW s \in Streams, Publish(s) PROVE TypeOK'
  BY <1>1 DEF Publish, TypeOK, consumer, counters
<1>2. ASSUME NEW a \in Agents, Join(a) PROVE TypeOK'
  BY <1>2 DEF Join, TypeOK, consumer, counters
<1>3. ASSUME NEW a \in Agents, Leave(a) PROVE TypeOK'
  BY <1>3 DEF Leave, TypeOK, consumer
<1>4. CASE IntervalElapses
  BY <1>4 DEF IntervalElapses, TypeOK, redis, counters
<1>5. CASE Discover
  <2>1. found' \subseteq Streams
    BY <1>5 DEF Discover, Streams, TypeOK
  <2> QED
    BY <1>5, <2>1 DEF Discover, Added, TypeOK, redis, counters
<1>6. CASE DiscoverFails
  <2>1. due' \in BOOLEAN /\ loop' = "reading"
    BY <1>6 DEF DiscoverFails
  <2>2. faults' \in 0..MaxFaults
    BY <1>6 DEF DiscoverFails, Fault, TypeOK
  <2> QED
    BY <1>6, <2>1, <2>2 DEF DiscoverFails, Fault, TypeOK, redis
<1>19. CASE CreateGroupFails
  BY <1>19 DEF CreateGroupFails, TypeOK, redis
<1>7. ASSUME NEW s \in Streams, CreateGroup(s) PROVE TypeOK'
  BY <1>7 DEF CreateGroup, TypeOK, counters
<1>8. CASE Adopt
  BY <1>8 DEF Adopt, TypeOK, redis, counters
<1>9. ASSUME cursor' = [s \in Streams |-> LastRead(s)], pel' = pel \cup Unread
      PROVE  cursor' \in [Streams -> 0..Limit] /\ pel' \subseteq Entries
  BY <1>9, ReadBounds, UnreadIsEntries DEF TypeOK
<1>10. CASE Read
  BY <1>9, <1>10 DEF Read, TypeOK, counters
<1>11. CASE ReadLost
  BY <1>9, <1>11 DEF ReadLost, Fault, TypeOK
<1>12. ASSUME NEW e \in todo, Accept(e) \/ Skip(e) PROVE TypeOK'
  <2>1. e \in Entries /\ e[1] \in Streams
    BY DEF TypeOK, Entries
  <2> QED
    BY <1>12, <2>1 DEF Accept, Skip, TypeOK, redis, counters
<1>13. CASE Ack
  BY <1>13 DEF Ack, TypeOK, LoopInv, counters
<1>14. CASE AckFails
  BY <1>14 DEF AckFails, Fault, TypeOK
<1>15. CASE ReadEnds
  BY <1>15 DEF ReadEnds, TypeOK, redis, counters
<1>16. CASE InsertFails
  BY <1>16 DEF InsertFails, Fault, TypeOK, redis, consumer
<1>17. CASE Crash
  BY <1>17 DEF Crash, Fault, TypeOK
<1>18. CASE UNCHANGED <<redis, consumer, counters>>
  BY <1>18 DEF redis, consumer, counters, TypeOK
<1> QED
  BY <1>1, <1>2, <1>3, <1>4, <1>5, <1>6, <1>7, <1>8, <1>10, <1>11, <1>12, <1>13,
     <1>14, <1>15, <1>16, <1>17, <1>18, <1>19
  DEF Next, LoopStep, FaultStep, vars

----------------------------------------------------------------------------
(* The loop's own bookkeeping                                              *)

LEMMA LoopInvStep ==
    ASSUME TypeOK, LoopInv, [Next]_vars
    PROVE  LoopInv'
<1> USE DEF LoopInv
<1>1. ASSUME NEW s \in Streams, Publish(s) PROVE LoopInv'
  <2>1. \A x \in Streams : len[x] \in Nat /\ len[x] <= len'[x]
    BY <1>1, TracerBounds DEF Publish, TypeOK
  <2>2. \A x \in Streams : cursor[x] \in Nat /\ len'[x] \in Nat /\ cursor'[x] = cursor[x]
    BY <1>1, TracerBounds DEF Publish, TypeOK
  <2> QED
    BY <1>1, <2>1, <2>2 DEF Publish, consumer, Delivered
<1>2. ASSUME UNCHANGED <<len, cursor, pel, todo, current, loop>> PROVE LoopInv'
  BY <1>2 DEF Delivered
<1>3. ASSUME UNCHANGED <<len, cursor, pel, todo, current>>,
             loop \notin {"handling", "acking"}
      PROVE  LoopInv'
  BY <1>3 DEF Delivered
<1>4. ASSUME UNCHANGED <<len, cursor>>, pel' \subseteq pel, current' = {},
             loop' \in {"handling", "acking"} \/ todo' = {}
      PROVE  LoopInv'
  BY <1>4 DEF Delivered
<1>5. ASSUME cursor' = [s \in Streams |-> LastRead(s)], pel' = pel \cup Unread,
             len' = len
      PROVE  /\ \A s \in Streams : cursor'[s] <= len'[s]
             /\ \A e \in pel' : Delivered(e)'
  BY <1>5, ReadBounds, ReadDelivers, UnreadIsEntries DEF TypeOK
<1>6. CASE Read
  <2>1. todo = {} /\ current = {}
    BY <1>6 DEF Read, MayRead
  <2>2. CASE UNCHANGED <<cursor, pel, todo>>
    BY <1>6, <2>1, <2>2 DEF Read, Delivered
  <2> QED
    BY <1>5, <1>6, <2>1, <2>2 DEF Read
<1>7. CASE ReadLost
  <2>1. todo = {} /\ current = {}
    BY <1>7 DEF ReadLost, MayRead
  <2> QED
    BY <1>5, <1>7, <2>1 DEF ReadLost
<1>8. ASSUME NEW e \in todo, Accept(e) PROVE LoopInv'
  <2>1. /\ todo' = todo \ {e} /\ current' = {e} /\ loop' = "acking"
        /\ UNCHANGED <<len, cursor, pel>>
    BY <1>8 DEF Accept, redis
  <2> QED
    BY <2>1 DEF Delivered
<1>9. ASSUME NEW e \in todo, Skip(e) PROVE LoopInv'
  <2>1. /\ todo' = todo \ {e} /\ loop = "handling"
        /\ UNCHANGED <<len, cursor, pel, current, loop>>
    BY <1>9 DEF Skip, redis
  <2> QED
    BY <2>1 DEF Delivered
<1>10. CASE Ack
  BY <1>4, <1>10 DEF Ack
<1>11. CASE AckFails \/ Crash
  BY <1>4, <1>11 DEF AckFails, Crash
<1>12. CASE ReadEnds
  BY <1>4, <1>12 DEF ReadEnds, redis
<1>13. CASE Discover \/ DiscoverFails \/ Adopt
  BY <1>3, <1>13 DEF Discover, DiscoverFails, Adopt, redis
<1>14. ASSUME NEW s \in Streams, CreateGroup(s) PROVE LoopInv'
  BY <1>2, <1>14 DEF CreateGroup
<1>15. CASE CreateGroupFails \/ IntervalElapses
  BY <1>2, <1>15 DEF CreateGroupFails, IntervalElapses, redis
<1>16. ASSUME NEW a \in Agents, Join(a) \/ Leave(a) PROVE LoopInv'
  BY <1>2, <1>16 DEF Join, Leave, consumer
<1>17. CASE InsertFails
  BY <1>2, <1>17 DEF InsertFails, redis, consumer
<1>18. CASE UNCHANGED <<redis, consumer, counters>>
  BY <1>2, <1>18 DEF redis, consumer
<1> QED
  BY <1>1, <1>6, <1>7, <1>8, <1>9, <1>10, <1>11, <1>12, <1>13, <1>14, <1>15, <1>16,
     <1>17, <1>18
  DEF Next, LoopStep, FaultStep, vars

\* A stream becomes known only with its group, or after a creation has failed.
LEMMA GroupsInvStep ==
    ASSUME TypeOK, GroupsInv, [Next]_vars
    PROVE  GroupsInv'
<1> USE DEF GroupsInv
<1>1. CASE UNCHANGED <<grouped, known, found, adding, groupFaults>>
  BY <1>1
<1>2. CASE Discover
  BY <1>2 DEF Discover, Added, redis, counters
<1>3. ASSUME NEW s \in Streams, CreateGroup(s) PROVE GroupsInv'
  BY <1>3 DEF CreateGroup, counters
<1>4. CASE CreateGroupFails
  <2>1. groupFaults \in Nat /\ groupFaults' = groupFaults + 1
    BY <1>4, TracerBounds DEF CreateGroupFails, TypeOK
  <2> QED
    BY <2>1
<1>5. CASE Adopt
  BY <1>5 DEF Adopt, redis, counters
<1>6. CASE Crash
  BY <1>6 DEF Crash, Fault
<1> QED
  BY <1>1, <1>2, <1>3, <1>4, <1>5, <1>6
  DEF Next, LoopStep, FaultStep, vars, redis, consumer, counters, Publish, Join, Leave,
      IntervalElapses, DiscoverFails, Read, ReadLost, Accept, Skip, Ack, AckFails,
      ReadEnds, InsertFails, Fault

----------------------------------------------------------------------------
(* What becomes of an entry                                                *)

\* The steps that leave the writer alone, or let it go on by itself: what is
\* acknowledged had been taken, and what the writer has was looked at.
LEMMA QuietStep ==
    ASSUME TypeOK, LoopInv, CustodyInv,
           WriterStep \/ FlushFails \/ WriterDies \/ UNCHANGED writerVars,
           \A e \in Entries : Delivered(e) => Delivered(e)',
           \A e \in Entries : Delivered(e)' => Delivered(e) \/ e \in pel',
           todo' \subseteq todo, current' \subseteq current,
           pel \ current \subseteq pel'
    PROVE  CustodyInv'
<1>1. /\ WriterInv(Entries)'
      /\ InMemory' \cup lost' \subseteq InMemory \cup lost
      /\ \A e : Kept(e) => Kept(e)'
  BY WriterKeeps DEF CustodyInv
<1>2. InMemory \cup lost \subseteq Entries
  BY ElementOfSeq DEF CustodyInv, WriterInv, WriterTypeOK, InMemory, Queued
<1>3. \A e \in InMemory' \cup lost' : Delivered(e)' /\ e \notin todo'
  BY <1>1, <1>2 DEF CustodyInv
<1>4. \A e \in current' \ NoMsg : Kept(e)'
  BY <1>1 DEF CustodyInv, Kept
<1>5. ASSUME NEW e \in Entries \ NoMsg, Delivered(e)', e \notin pel'
      PROVE  Kept(e)'
  BY <1>1, <1>5 DEF CustodyInv, AckedIsKept, Kept
<1> QED
  BY <1>1, <1>3, <1>4, <1>5 DEF CustodyInv, AckedIsKept, Kept

\* A read puts into the answer only what the writer has never had.
LEMMA ReadStep ==
    ASSUME TypeOK, LoopInv, CustodyInv, UNCHANGED writerVars,
           cursor' = [s \in Streams |-> LastRead(s)], pel' = pel \cup Unread,
           todo' \subseteq Unread, current' = {}
    PROVE  CustodyInv'
<1>1. /\ WriterInv(Entries)'
      /\ InMemory' \cup lost' \subseteq InMemory \cup lost
      /\ \A e : Kept(e) => Kept(e)'
  BY WriterKeeps DEF CustodyInv
<1>2. InMemory \cup lost \subseteq Entries
  BY ElementOfSeq DEF CustodyInv, WriterInv, WriterTypeOK, InMemory, Queued
<1>3. \A e \in InMemory' \cup lost' : Delivered(e)' /\ e \notin todo'
  BY <1>1, <1>2, ReadDelivers DEF CustodyInv
<1>4. ASSUME NEW e \in Entries \ NoMsg, Delivered(e)', e \notin pel'
      PROVE  Kept(e)'
  BY <1>1, <1>4, ReadDelivers DEF CustodyInv, AckedIsKept, Kept
<1> QED
  BY <1>1, <1>3, <1>4 DEF CustodyInv, AckedIsKept, Kept

\* An entry is handed over before it can be acknowledged.
LEMMA AcceptStep ==
    ASSUME TypeOK, LoopInv, CustodyInv, NEW e \in todo, Accept(e)
    PROVE  CustodyInv'
<1>1. /\ e \in Entries /\ Delivered(e) /\ e \notin InMemory \cup lost
      /\ todo' = todo \ {e} /\ current' = {e} /\ UNCHANGED <<pel, cursor>>
  BY DEF Accept, redis, TypeOK, LoopInv, CustodyInv
<1>2. /\ WriterInv(Entries)'
      /\ InMemory' \cup lost' \subseteq InMemory \cup lost \cup {e}
      /\ \A f : Kept(f) => Kept(f)'
      /\ e \notin NoMsg => Kept(e)'
  <2>1. CASE e \in NoMsg
    BY <2>1, WriterKeeps DEF Accept, CustodyInv
  <2>2. CASE e \notin NoMsg
    BY <1>1, <2>2, PushStep, PushKeeps DEF Accept, CustodyInv
  <2> QED
    BY <2>1, <2>2
<1>3. \A f \in InMemory' \cup lost' : Delivered(f)' /\ f \notin todo'
  BY <1>1, <1>2 DEF CustodyInv, Delivered
<1>4. ASSUME NEW f \in Entries \ NoMsg, Delivered(f)', f \notin pel'
      PROVE  Kept(f)'
  BY <1>1, <1>2, <1>4 DEF CustodyInv, AckedIsKept, Kept, Delivered
<1> QED
  BY <1>1, <1>2, <1>3, <1>4 DEF CustodyInv, AckedIsKept, Kept

LEMMA CustodyStep ==
    ASSUME TypeOK, LoopInv, CustodyInv, [Next]_vars
    PROVE  CustodyInv'
<1>1. CASE Read
  <2>1. todo = {} /\ current = {} /\ UNCHANGED writerVars /\ current' = current
    BY <1>1 DEF Read, MayRead, LoopInv
  <2>2. CASE UNCHANGED <<cursor, pel, todo>>
    BY <2>1, <2>2, QuietStep DEF Delivered
  <2> QED
    BY <1>1, <2>1, <2>2, ReadStep DEF Read
<1>2. CASE ReadLost
  BY <1>2, ReadStep DEF ReadLost, MayRead, LoopInv
<1>3. ASSUME NEW e \in todo, Accept(e) PROVE CustodyInv'
  BY <1>3, AcceptStep
<1>4. CASE Ack \/ AckFails
  <2>1. /\ cursor' = cursor /\ todo' \subseteq todo /\ current' = {} /\ UNCHANGED writerVars
        /\ pel \ current \subseteq pel'
    BY <1>4 DEF Ack, AckFails
  <2>2. \A e \in current \ NoMsg : Kept(e)
    BY DEF CustodyInv, Kept
  <2> QED
    BY <2>1, <2>2, QuietStep DEF Delivered
<1>5. ASSUME UNCHANGED <<cursor, pel>>, todo' \subseteq todo,
             current' \subseteq current,
             WriterStep \/ FlushFails \/ WriterDies \/ UNCHANGED writerVars
      PROVE  CustodyInv'
  BY <1>5, QuietStep DEF Delivered
<1>6. ASSUME NEW e \in todo, Skip(e) PROVE CustodyInv'
  BY <1>5, <1>6 DEF Skip, redis
<1>7. ASSUME NEW s \in Streams, Publish(s) \/ CreateGroup(s) PROVE CustodyInv'
  BY <1>5, <1>7 DEF Publish, CreateGroup, consumer
<1>8. ASSUME NEW a \in Agents, Join(a) \/ Leave(a) PROVE CustodyInv'
  BY <1>5, <1>8 DEF Join, Leave, consumer
<1>9. CASE Discover \/ DiscoverFails \/ CreateGroupFails \/ Adopt
  BY <1>5, <1>9 DEF Discover, DiscoverFails, CreateGroupFails, Adopt, redis
<1>10. CASE ReadEnds \/ IntervalElapses
  BY <1>5, <1>10 DEF ReadEnds, IntervalElapses, redis
<1>11. CASE InsertFails
  BY <1>5, <1>11 DEF InsertFails, redis, consumer
<1>12. CASE WriterStep /\ UNCHANGED <<redis, consumer, counters>>
  BY <1>5, <1>12 DEF redis, consumer
<1>13. CASE Crash
  BY <1>13, QuietStep DEF Crash, Delivered
<1>14. CASE UNCHANGED vars
  BY <1>5, <1>14 DEF vars, redis, consumer
<1> QED
  BY <1>1, <1>2, <1>3, <1>4, <1>6, <1>7, <1>8, <1>9, <1>10, <1>11, <1>12, <1>13, <1>14
  DEF Next, LoopStep, FaultStep

----------------------------------------------------------------------------
(* Theorems                                                                *)

\* The chain of custody of an entry, from its stream over the answer of a read
\* to the writer, holds at every step of every execution (consumer.rs, writer.rs).
THEOREM TracerInvariant == Spec => []TracerInv
<1>1. Init => TracerInv
  BY InitInv
<1>2. TracerInv /\ [Next]_vars => TracerInv'
  <2> SUFFICES ASSUME TracerInv, [Next]_vars PROVE TracerInv'
    OBVIOUS
  <2>1. TypeOK /\ LoopInv /\ CustodyInv /\ GroupsInv
    BY DEF TracerInv
  <2>2. LoopInv' /\ GroupsInv' /\ CustodyInv'
    BY <2>1, LoopInvStep, GroupsInvStep, CustodyStep
  <2>3. TypeOK'
    BY <2>1, <2>2, LoopTypeStep DEF CustodyInv, WriterInv
  <2> QED
    BY <2>2, <2>3 DEF TracerInv
<1> QED
  BY <1>1, <1>2, PTL DEF Spec

\* Every variable keeps to its values: the loop works only on pending entries,
\* the writer's channel and batch keep to their sizes (consumer.rs, writer.rs).
THEOREM TracerTypeCorrect == Spec => []TypeOK
<1>1. TracerInv => TypeOK
  BY DEF TracerInv
<1> QED
  BY <1>1, TracerInvariant, PTL

\* An entry that the tracer has acknowledged is recorded, in the writer's hands,
\* or was taken from there by a failed INSERT or a crash (consumer.rs).
THEOREM AcknowledgedIsKept == Spec => []AckedIsKept
<1>1. TracerInv => AckedIsKept
  BY DEF TracerInv, CustodyInv
<1> QED
  BY <1>1, TracerInvariant, PTL

\* No entry goes through the writer twice (consumer.rs, XREADGROUP ">").
THEOREM WrittenOnce == Spec => []NoEventTwice
<1>1. TracerInv => NoEventTwice
  <2> SUFFICES ASSUME TracerInv PROVE NoEventTwice
    OBVIOUS
  <2>1. EachOnce /\ \A e \in InMemory \cup lost : e \notin todo
    BY DEF TracerInv, CustodyInv, WriterInv
  <2> QED
    BY <2>1 DEF EachOnce, NoEventTwice
<1> QED
  BY <1>1, TracerInvariant, PTL

\* A stream is read only once it has the group, unless a creation of a group has
\* failed (discovery.rs, consumer.rs).
THEOREM ReadStreamsHaveGroups == Spec => []GroupsBeforeReads
<1>1. TracerInv => GroupsBeforeReads
  <2> SUFFICES ASSUME TracerInv PROVE GroupsBeforeReads
    OBVIOUS
  <2>1. groupFaults \in Nat /\ GroupsInv
    BY TracerBounds DEF TracerInv, TypeOK
  <2> QED
    BY <2>1 DEF GroupsInv, GroupsBeforeReads
<1> QED
  BY <1>1, TracerInvariant, PTL

=============================================================================
