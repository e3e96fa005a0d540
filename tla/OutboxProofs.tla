---------------------------- MODULE OutboxProofs ----------------------------
(***************************************************************************)
(* Machine-checked proofs about Outbox: for any finite set of agents, any  *)
(* number of entries, page, channel and batch sizes, any choice of what is *)
(* worth persisting, and any number of failures and restarts.              *)
(***************************************************************************)
EXTENDS Outbox, BatchWriterProofs, FunctionTheorems

\* What a read returns of one outbox: the next entries, up to a page.
LEMMA PageSize ==
    ASSUME TypeOK, PassInv, NEW a \in Agents
    PROVE  Cardinality({e \in NewEntries : e[1] = a}) =
              IF a \notin members THEN 0
              ELSE IF len[a] - cursor[a] <= ReadCount THEN len[a] - cursor[a]
              ELSE ReadCount
<1> DEFINE page == {e \in NewEntries : e[1] = a}
           last == IF len[a] - cursor[a] <= ReadCount THEN len[a]
                   ELSE cursor[a] + ReadCount
<1>1. /\ cursor[a] \in 0..Limit /\ len[a] \in 0..Limit /\ cursor[a] <= len[a]
      /\ ReadCount \in Nat \ {0} /\ Limit \in Nat
  BY OutboxBounds DEF TypeOK, PassInv
<1>2. CASE a \notin members
  <2>1. page = {}
    BY <1>2 DEF NewEntries
  <2> QED
    BY <1>2, <2>1, FS_EmptySet
<1>3. CASE a \in members
  <2>1. last \in Int /\ cursor[a] + 1 \in Int /\ last <= Limit
    BY <1>1
  <2>2. page = {a} \X ((cursor[a] + 1)..last)
    <3>1. ASSUME NEW e \in page PROVE e \in {a} \X ((cursor[a] + 1)..last)
      <4>1. /\ e \in Agents \X (1..Limit) /\ e[1] = a
            /\ cursor[a] < e[2] /\ e[2] <= len[a] /\ e[2] <= cursor[a] + ReadCount
        BY <3>1 DEF NewEntries, Entries
      <4>2. e = <<a, e[2]>> /\ e[2] \in (cursor[a] + 1)..last
        BY <1>1, <4>1
      <4> QED
        BY <4>2
    <3>2. ASSUME NEW n \in (cursor[a] + 1)..last PROVE <<a, n>> \in page
      <4>1. /\ n \in 1..Limit /\ cursor[a] < n /\ n <= len[a]
            /\ n <= cursor[a] + ReadCount
        BY <1>1, <2>1
      <4> QED
        BY <1>3, <4>1 DEF NewEntries, Entries
    <3> QED
      BY <3>1, <3>2
  <2>3. /\ IsFiniteSet((cursor[a] + 1)..last)
        /\ Cardinality((cursor[a] + 1)..last) = last - cursor[a]
    <3> HIDE DEF last
    <3>1. Cardinality((cursor[a] + 1)..last) =
             IF cursor[a] + 1 > last THEN 0 ELSE last - (cursor[a] + 1) + 1
      BY <2>1, FS_Interval
    <3>2. IsFiniteSet((cursor[a] + 1)..last)
      BY <2>1, FS_Interval
    <3>3. last >= cursor[a]
      BY <1>1 DEF last
    <3> QED
      BY <1>1, <2>1, <3>1, <3>2, <3>3
  <2>4. Cardinality(page) = last - cursor[a]
    <3> HIDE DEF last, page
    <3>1. IsFiniteSet({a}) /\ Cardinality({a}) = 1
      BY FS_Singleton
    <3>2. Cardinality(page) = 1 * Cardinality((cursor[a] + 1)..last)
      BY <2>2, <2>3, <3>1, FS_Product
    <3> QED
      BY <1>1, <2>1, <2>3, <3>2
  <2> QED
    BY <1>1, <1>3, <2>1, <2>4
<1> QED
  BY <1>2, <1>3

\* The group's position moves past what is returned and past nothing else, and
\* nothing is returned a second time.
LEMMA ReadDelivers ==
    ASSUME TypeOK, PassInv, Served
    PROVE  /\ \A a \in Agents : cursor'[a] \in 0..Limit /\ cursor'[a] <= len'[a]
           /\ \A e \in Entries : Delivered(e)' <=> Delivered(e) \/ e \in Unread
           /\ \A e \in Unread : ~Delivered(e)
           /\ \A a \in Agents \ grouped : cursor'[a] = cursor[a]
<1>1. ASSUME NEW a \in Agents
      PROVE  /\ cursor[a] \in 0..Limit /\ len[a] \in 0..Limit /\ cursor[a] <= len[a]
             /\ len'[a] = len[a]
             /\ cursor'[a] = IF a \notin members THEN cursor[a]
                             ELSE IF len[a] - cursor[a] <= ReadCount THEN len[a]
                             ELSE cursor[a] + ReadCount
  <2>1. cursor[a] \in 0..Limit /\ len[a] \in 0..Limit /\ cursor[a] <= len[a]
    BY DEF TypeOK, PassInv
  <2>2. cursor'[a] = cursor[a] + Cardinality({e \in NewEntries : e[1] = a})
        /\ len'[a] = len[a]
    BY DEF Served
  <2> QED
    BY <2>1, <2>2, PageSize, OutboxBounds
<1>2. ReadCount \in Nat \ {0} /\ Limit \in Nat
  BY OutboxBounds
<1>3. ASSUME NEW e \in Entries
      PROVE  /\ Delivered(e)' <=> Delivered(e) \/ e \in Unread
             /\ e \in Unread => ~Delivered(e)
  <2>1. e[1] \in Agents /\ e[2] \in 1..Limit
    BY DEF Entries
  <2> QED
    BY <1>1, <1>2, <2>1 DEF Delivered, Unread, NewEntries
<1>4. Unread \subseteq Entries
  BY DEF Unread, NewEntries
<1>5. \A a \in Agents \ grouped : a \notin members
  BY DEF Served, TypeOK
<1> QED
  BY <1>1, <1>2, <1>3, <1>4, <1>5

----------------------------------------------------------------------------
(* Initial states and types                                                *)

LEMMA InitInv == Init => OutboxInv
<1> SUFFICES ASSUME Init PROVE OutboxInv
  OBVIOUS
<1>1. WriterInv(Entries)
  BY WriterInitInv DEF Init
<1>2. Taken = {}
  BY DEF Init, WriterInit, Taken, InMemory, Queued
<1>3. TypeOK
  BY <1>1, OutboxBounds DEF Init, TypeOK, WriterInv
<1>4. PassInv
  BY OutboxBounds DEF Init, PassInv, Delivered, Entries
<1>5. HandoverInv
  BY <1>1, <1>2 DEF Init, WriterInit, HandoverInv, AckedIsAccountedFor
<1> QED
  BY <1>3, <1>4, <1>5 DEF Init, OutboxInv, PendingInv, DropsNeedOverload

\* The group of an outbox is made at its beginning, where no entry has been read:
\* making it, or making it again, moves no position.
LEMMA EnsureMovesNothing ==
    ASSUME TypeOK, PassInv, NEW a \in Agents,
           cursor' = IF a \in grouped THEN cursor
                     ELSE [cursor EXCEPT ![a] = GroupStart(a)]
    PROVE  cursor' = cursor
  BY DEF TypeOK, PassInv, GroupStart

LEMMA TypeStep ==
    ASSUME TypeOK, PassInv, WriterTypeOK(Entries)', [Next]_vars
    PROVE  TypeOK'
<1> USE OutboxBounds
<1>1. ASSUME NEW a \in Agents, Publish(a) PROVE TypeOK'
  BY <1>1 DEF Publish, TypeOK, pass, history, counters
<1>2. ASSUME NEW a \in Agents, Join(a) PROVE TypeOK'
  BY <1>2 DEF Join, TypeOK, pass, history, counters
<1>3. ASSUME NEW a \in Agents, Leave(a) PROVE TypeOK'
  BY <1>3 DEF Leave, TypeOK, pass, history
<1>4. CASE Wake
  BY <1>4 DEF Wake, TypeOK, redis, history, counters
<1>5. CASE TakeRoster
  <2>1. CASE PassOver
    BY <1>5, <2>1 DEF TakeRoster, PassOver, TypeOK, redis, history, counters
  <2>2. CASE /\ members' = roster /\ loop' = "ensuring"
             /\ UNCHANGED <<ensured, todo, serving, current>>
    <3>1. ensured = {}
      BY <1>5 DEF TakeRoster, PassInv
    <3> QED
      BY <1>5, <2>2, <3>1 DEF TakeRoster, TypeOK, redis, history, counters
  <2> QED
    BY <1>5, <2>1, <2>2 DEF TakeRoster
<1>6. ASSUME NEW a \in Agents, EnsureGroup(a) PROVE TypeOK'
  <2>1. cursor' = cursor
    BY <1>6, EnsureMovesNothing DEF EnsureGroup
  <2> QED
    BY <1>6, <2>1 DEF EnsureGroup, TypeOK, history, counters
<1>7. CASE RosterFails
  BY <1>7 DEF RosterFails, PassOver, Fault, TypeOK, redis, history
<1>8. CASE EnsureFails
  <2>1. cursor' = cursor /\ grouped' \subseteq Agents
    BY <1>8, EnsureMovesNothing DEF EnsureFails, TypeOK, PassInv, GroupStart
  <2> QED
    BY <1>8, <2>1 DEF EnsureFails, PassOver, Fault, TypeOK, history
<1>9. ASSUME Served
      PROVE  /\ cursor' \in [Agents -> 0..Limit]
             /\ pel' \subseteq answered' /\ answered' \subseteq Entries
             /\ Unread \subseteq Entries
  <2>1. Unread \subseteq Entries
    BY DEF Unread, NewEntries
  <2>2. cursor' \in [Agents -> 0..Limit]
    BY <1>9, ReadDelivers DEF Served
  <2> QED
    BY <1>9, <2>1, <2>2 DEF Served, TypeOK
<1>10. CASE Read
  BY <1>9, <1>10 DEF Read, Served, TypeOK, counters
<1>11. CASE ReadLost
  BY <1>9, <1>11 DEF ReadLost, Served, Fault, PassOver, TypeOK
<1>12. ASSUME NEW e \in todo, Handle(e) PROVE TypeOK'
  <2>1. e \in Entries /\ e[1] \in Agents
    BY DEF TypeOK, Entries
  <2>2. dropped' \subseteq Persisted
    BY <1>12 DEF Handle, TypeOK
  <2> QED
    BY <1>12, <2>1, <2>2 DEF Handle, TypeOK, redis, counters
<1>13. CASE Ack
  BY <1>13 DEF Ack, Acked, TypeOK, history, counters
<1>14. CASE AckFails
  BY <1>14 DEF AckFails, PassOver, Fault, TypeOK, history
<1>15. CASE PassEnds
  BY <1>15 DEF PassEnds, PassOver, TypeOK, redis, history, counters
<1>16. CASE InsertFails
  BY <1>16 DEF InsertFails, Fault, TypeOK, redis, pass, history
<1>17. CASE Crash
  BY <1>17 DEF Crash, Fault, TypeOK, history
<1>18. CASE UNCHANGED <<redis, pass, history, counters>>
  BY <1>18 DEF redis, pass, history, counters, TypeOK
<1> QED
  BY <1>1, <1>2, <1>3, <1>4, <1>5, <1>6, <1>7, <1>8, <1>10, <1>11, <1>12, <1>13,
     <1>14, <1>15, <1>16, <1>17, <1>18
  DEF Next, PassStep, WriterGoesOn, vars

----------------------------------------------------------------------------
(* The bookkeeping of a pass                                               *)

LEMMA PassInvStep ==
    ASSUME TypeOK, PassInv, [Next]_vars
    PROVE  PassInv'
<1> USE DEF PassInv
<1>1. ASSUME NEW a \in Agents, Publish(a) PROVE PassInv'
  <2>1. /\ \A x \in Agents : /\ cursor[x] \in Nat /\ cursor'[x] = cursor[x]
                              /\ len[x] \in Nat /\ len'[x] \in Nat
                              /\ len[x] <= len'[x]
        /\ UNCHANGED <<grouped, cursor, loop, ensured, todo, current, answered>>
    BY <1>1, OutboxBounds DEF Publish, TypeOK, pass, history
  <2>2. \A x \in Agents : cursor'[x] <= len'[x]
    BY <2>1
  <2> QED
    BY <2>1, <2>2 DEF Delivered
\* The steps that move no position.
<1>2. ASSUME UNCHANGED <<len, cursor, answered>>, grouped \subseteq grouped',
             loop' \in {"sleeping", "starting"} => ensured' = {},
             loop' \notin {"handling", "acking"} => todo' = {},
             loop' # "acking" => current' = {},
             todo' \cap current' = {}
      PROVE  PassInv'
  BY <1>2 DEF Delivered
<1>3. ASSUME Served, loop' \in {"sleeping", "starting"} => ensured' = {},
             loop' \notin {"handling", "acking"} => todo' = {},
             loop' # "acking", current' = {}
      PROVE  PassInv'
  <2>1. /\ \A a \in Agents : cursor'[a] <= len'[a]
        /\ \A a \in Agents \ grouped' : cursor'[a] = 0
    BY <1>3, ReadDelivers DEF Served
  <2>2. \A e \in Entries : e \in answered' <=> Delivered(e)'
    BY <1>3, ReadDelivers DEF Served
  <2> QED
    BY <1>3, <2>1, <2>2
<1>4. ASSUME NEW a \in Agents, EnsureGroup(a) PROVE PassInv'
  <2>1. cursor' = cursor
    BY <1>4, EnsureMovesNothing DEF EnsureGroup
  <2> QED
    BY <1>2, <1>4, <2>1 DEF EnsureGroup, history
<1>5. CASE EnsureFails
  <2>1. cursor' = cursor /\ grouped \subseteq grouped'
    BY <1>5, EnsureMovesNothing DEF EnsureFails, TypeOK, GroupStart
  <2> QED
    BY <1>2, <1>5, <2>1 DEF EnsureFails, PassOver, history
<1>6. CASE TakeRoster
  BY <1>2, <1>6 DEF TakeRoster, PassOver, redis, history
<1>7. CASE Wake
  BY <1>2, <1>7 DEF Wake, redis, history
<1>8. CASE RosterFails \/ PassEnds
  BY <1>2, <1>8 DEF RosterFails, PassEnds, PassOver, redis, history
<1>9. CASE AckFails \/ Crash
  BY <1>2, <1>9 DEF AckFails, Crash, PassOver, history
<1>10. CASE Read
  BY <1>3, <1>10 DEF Read, Served
<1>11. CASE ReadLost
  BY <1>3, <1>11 DEF ReadLost, PassOver
<1>12. ASSUME NEW e \in todo, Handle(e) PROVE PassInv'
  <2>1. todo' = todo \ {e} /\ current' = {e} /\ loop' = "acking"
        /\ UNCHANGED <<len, cursor, answered, grouped>>
    BY <1>12 DEF Handle, redis
  <2> QED
    BY <1>2, <2>1
<1>13. CASE Ack
  BY <1>2, <1>13 DEF Ack, history
<1>14. ASSUME NEW a \in Agents, Join(a) \/ Leave(a) PROVE PassInv'
  BY <1>2, <1>14 DEF Join, Leave, pass, history
<1>15. CASE InsertFails \/ UNCHANGED <<redis, pass, history>>
  BY <1>2, <1>15 DEF InsertFails, redis, pass, history
<1> QED
  BY <1>1, <1>4, <1>5, <1>6, <1>7, <1>8, <1>9, <1>10, <1>11, <1>12, <1>13, <1>14,
     <1>15
  DEF Next, PassStep, WriterGoesOn, vars

\* Only a fault leaves an entry pending that no pass has in hand.
LEMMA PendingStep ==
    ASSUME TypeOK, PassInv, PendingInv, [Next]_vars
    PROVE  PendingInv'
<1> USE DEF PendingInv
<1>1. ASSUME Fault PROVE PendingInv'
  <2>1. faults \in Nat /\ faults' = faults + 1
    BY <1>1, OutboxBounds DEF Fault, TypeOK
  <2> QED
    BY <2>1
<1>2. ASSUME UNCHANGED <<pel, todo, current, faults>> PROVE PendingInv'
  BY <1>2
<1>3. CASE TakeRoster \/ PassEnds
  <2>1. todo = {} /\ current = {} /\ UNCHANGED <<pel, faults>>
    BY <1>3 DEF TakeRoster, PassEnds, PassInv, redis, counters
  <2> QED
    BY <2>1
<1>4. CASE Read
  <2>1. todo = {} /\ current = {}
    BY <1>4 DEF Read, Served, PassInv
  <2> QED
    BY <1>4, <2>1 DEF Read, Served, counters
<1>5. ASSUME NEW e \in todo, Handle(e) PROVE PendingInv'
  <2>1. current = {} /\ todo' = todo \ {e} /\ current' = {e}
        /\ UNCHANGED <<pel, faults>>
    BY <1>5 DEF Handle, PassInv, redis, counters
  <2> QED
    BY <2>1
<1>6. CASE Ack
  BY <1>6 DEF Ack, Acked, counters
<1>7. CASE Wake
  BY <1>2, <1>7 DEF Wake, redis, counters
<1>8. ASSUME NEW a \in Agents, Publish(a) \/ Join(a) \/ Leave(a) \/ EnsureGroup(a)
      PROVE  PendingInv'
  BY <1>2, <1>8 DEF Publish, Join, Leave, EnsureGroup, pass, counters
<1>9. CASE WriterGoesOn \/ UNCHANGED vars
  BY <1>2, <1>9 DEF WriterGoesOn, vars, redis, pass, counters
<1> QED
  BY <1>1, <1>3, <1>4, <1>5, <1>6, <1>7, <1>8, <1>9
  DEF Next, PassStep, RosterFails, EnsureFails, ReadLost, AckFails, InsertFails, Crash

----------------------------------------------------------------------------
(* What becomes of an event                                                *)

LEMMA TakenIsEntries ==
    ASSUME HandoverInv, TypeOK
    PROVE  Taken \subseteq Entries /\ Queued \cup batch \cup lost \subseteq Taken
  BY DEF HandoverInv, TypeOK, Taken, InMemory

\* The steps in which nothing is handed over: what the writer does by itself, and
\* what the pass does besides.
LEMMA QuietStep ==
    ASSUME TypeOK, PassInv, HandoverInv,
           WriterStep \/ FlushFails \/ WriterDies \/ UNCHANGED writerVars,
           dropped' = dropped,
           answered \subseteq answered', answered \ todo \subseteq answered' \ todo',
           todo' \cup current' \subseteq answered',
           current' \subseteq current,
           pel \ current \subseteq pel', answered' \ answered \subseteq pel'
    PROVE  HandoverInv'
<1>1. /\ WriterInv(Entries)'
      /\ InMemory' \cup lost' \subseteq InMemory \cup lost
      /\ \A e : Kept(e) => Kept(e)'
      /\ \A k \in table' \ table : \E e \in InMemory : k = RowOf[e]
  BY WriterKeeps DEF HandoverInv
<1>2. Taken' \subseteq Taken
  BY <1>1 DEF Taken
<1>3. Taken' \subseteq (answered' \cap Persisted) \ todo'
  BY <1>2 DEF HandoverInv
<1>4. table' \subseteq {RowOf[e] : e \in (answered' \cap Persisted) \ todo'}
  <2> SUFFICES ASSUME NEW k \in table'
               PROVE  \E e \in (answered' \cap Persisted) \ todo' : k = RowOf[e]
    OBVIOUS
  <2>1. CASE k \in table
    <3>1. PICK e \in (answered \cap Persisted) \ todo : k = RowOf[e]
      BY <2>1 DEF HandoverInv
    <3> QED
      BY <3>1
  <2>2. CASE k \notin table
    <3>1. PICK e \in InMemory : k = RowOf[e]
      BY <1>1, <2>2
    <3>2. e \in (answered \cap Persisted) \ todo
      BY <3>1 DEF HandoverInv, Taken
    <3> QED
      BY <3>1, <3>2
  <2> QED
    BY <2>1, <2>2
<1>5. ASSUME NEW e, Recorded(e) \/ e \in Taken PROVE Recorded(e)' \/ e \in Taken'
  BY <1>1, <1>5 DEF Kept, Taken
<1>6. \A e \in current' \cap Persisted : Recorded(e)' \/ e \in Taken'
  BY <1>5 DEF HandoverInv
<1>7. ASSUME NEW e \in answered' \cap Persisted, e \notin pel'
      PROVE  Recorded(e)' \/ e \in Taken'
  BY <1>5, <1>7 DEF HandoverInv, AckedIsAccountedFor, Taken
<1> QED
  BY <1>1, <1>3, <1>4, <1>6, <1>7 DEF HandoverInv, AckedIsAccountedFor, Taken

\* An event is handed over, or dropped, before its entry can be acknowledged.
LEMMA HandleStep ==
    ASSUME TypeOK, PassInv, HandoverInv, NEW e \in todo, Handle(e)
    PROVE  HandoverInv'
<1>1. /\ e \in Entries /\ e \in answered /\ e \notin Taken
      /\ todo' = todo \ {e} /\ current' = {e} /\ UNCHANGED <<pel, answered>>
  BY DEF Handle, redis, TypeOK, HandoverInv
<1>2. /\ WriterInv(Entries)'
      /\ table' = table
      /\ Taken' \subseteq Taken \cup ({e} \cap Persisted)
      /\ \A f : Recorded(f) \/ f \in Taken => Recorded(f)' \/ f \in Taken'
      /\ e \in Persisted => e \in Taken'
  <2>1. CASE UNCHANGED <<writerVars, dropped>> /\ e \notin Persisted
    BY <2>1, WriterKeeps DEF HandoverInv, writerVars, Taken, InMemory, Queued, Recorded
  <2>2. CASE e \in Persisted /\ Push(e) /\ UNCHANGED dropped
    <3>1. e \notin InMemory
      BY <1>1 DEF Taken
    <3>2. /\ WriterInv(Entries)' /\ InMemory' = InMemory \cup {e}
          /\ lost' = lost /\ table' = table
      BY <1>1, <2>2, <3>1, PushStep DEF HandoverInv
    <3> QED
      BY <2>2, <3>2 DEF Taken, Recorded
  <2>3. CASE e \in Persisted /\ dropped' = dropped \cup {e} /\ UNCHANGED writerVars
    <3>1. WriterInv(Entries)'
      BY <2>3, WriterKeeps DEF HandoverInv
    <3> QED
      BY <2>3, <3>1 DEF writerVars, Taken, InMemory, Queued, Recorded
  <2> QED
    BY <2>1, <2>2, <2>3 DEF Handle
<1>3. Taken' \subseteq (answered' \cap Persisted) \ todo'
  BY <1>1, <1>2 DEF HandoverInv
<1>4. table' \subseteq {RowOf[f] : f \in (answered' \cap Persisted) \ todo'}
  BY <1>1, <1>2 DEF HandoverInv
<1>5. todo' \cup current' \subseteq answered'
  BY <1>1 DEF HandoverInv
<1>6. ASSUME NEW f \in answered' \cap Persisted, f \notin pel'
      PROVE  Recorded(f)' \/ f \in Taken'
  BY <1>1, <1>2, <1>6 DEF HandoverInv, AckedIsAccountedFor, Taken
<1>7. \A f \in current' \cap Persisted : Recorded(f)' \/ f \in Taken'
  BY <1>1, <1>2
<1> QED
  BY <1>2, <1>3, <1>4, <1>5, <1>6, <1>7 DEF HandoverInv, AckedIsAccountedFor, Taken

LEMMA HandoverStep ==
    ASSUME TypeOK, PassInv, HandoverInv, [Next]_vars
    PROVE  HandoverInv'
<1>1. ASSUME NEW e \in todo, Handle(e) PROVE HandoverInv'
  BY <1>1, HandleStep
<1>2. ASSUME UNCHANGED <<pel, history>>, todo' \subseteq todo,
             current' \subseteq current,
             WriterStep \/ FlushFails \/ WriterDies \/ UNCHANGED writerVars
      PROVE  HandoverInv'
  BY <1>2, QuietStep DEF history, HandoverInv
<1>3. ASSUME Served, todo' \subseteq Unread, current' = {} PROVE HandoverInv'
  <2>1. todo = {} /\ current = {}
    BY <1>3 DEF Served, PassInv
  <2>2. Unread \cap answered = {}
    BY <1>3, ReadDelivers DEF PassInv, Unread, NewEntries
  <2> QED
    BY <1>3, <2>1, <2>2, QuietStep DEF Served
<1>4. CASE Read
  BY <1>3, <1>4 DEF Read, Served, PassInv
<1>5. CASE ReadLost
  BY <1>3, <1>5 DEF ReadLost, PassOver
<1>6. CASE Ack \/ AckFails \/ Crash
  <2>1. /\ todo' \subseteq todo /\ current' = {} /\ UNCHANGED history
        /\ pel \ current \subseteq pel'
        /\ WriterDies \/ UNCHANGED writerVars
    BY <1>6 DEF Ack, AckFails, Crash, Acked, PassOver
  <2> QED
    BY <2>1, QuietStep DEF history, HandoverInv
<1>7. CASE Wake \/ TakeRoster \/ PassEnds \/ RosterFails
  BY <1>2, <1>7 DEF Wake, TakeRoster, PassEnds, RosterFails, PassOver, redis
<1>8. CASE EnsureFails
  BY <1>2, <1>8 DEF EnsureFails, PassOver
<1>9. ASSUME NEW a \in Agents, Publish(a) \/ Join(a) \/ Leave(a) \/ EnsureGroup(a)
      PROVE  HandoverInv'
  BY <1>2, <1>9 DEF Publish, Join, Leave, EnsureGroup, pass
<1>10. CASE WriterGoesOn \/ InsertFails \/ UNCHANGED vars
  BY <1>2, <1>10 DEF WriterGoesOn, InsertFails, vars, redis, pass
<1> QED
  BY <1>1, <1>4, <1>5, <1>6, <1>7, <1>8, <1>9, <1>10 DEF Next, PassStep

\* A full channel holds as many events of their own as it has places.
LEMMA QueueCounts ==
    ASSUME HandoverInv, TypeOK
    PROVE  /\ IsFiniteSet(Queued) /\ Cardinality(Queued) = Len(queue)
           /\ Len(queue) \in Nat
<1>1. queue \in Seq(Entries) /\ Len(queue) \in Nat
  BY LenProperties DEF TypeOK, WriterTypeOK
<1>2. \A i, j \in 1..Len(queue) : queue[i] = queue[j] => i = j
  BY DEF HandoverInv, WriterInv, EachOnce
<1> DEFINE place == [i \in 1..Len(queue) |-> queue[i]]
<1>3. place \in Bijection(1..Len(queue), Queued)
  <2>1. place \in [1..Len(queue) -> Queued]
    BY DEF Queued
  <2>2. \A i, j \in 1..Len(queue) : place[i] = place[j] => i = j
    BY <1>2
  <2>3. \A e \in Queued : \E i \in 1..Len(queue) : place[i] = e
    BY DEF Queued
  <2> HIDE DEF place
  <2> QED
    BY <2>1, <2>2, <2>3, Fun_IsBij
<1>4. IsFiniteSet(1..Len(queue)) /\ Cardinality(1..Len(queue)) = Len(queue)
  BY <1>1, FS_Interval
<1>5. ExistsBijection(1..Len(queue), Queued)
  BY <1>3 DEF ExistsBijection
<1> QED
  BY <1>1, <1>4, <1>5, FS_Bijection

LEMMA DropsStep ==
    ASSUME TypeOK, PassInv, HandoverInv, DropsNeedOverload, TypeOK', [Next]_vars
    PROVE  DropsNeedOverload'
<1> DEFINE come == answered \cap Persisted
<1>1. IsFiniteSet(Entries)
  <2>1. IsFiniteSet(1..Limit)
    BY OutboxBounds, FS_Interval
  <2> QED
    BY <2>1, AgentsAssumption, FS_Product DEF Entries
<1>2. /\ IsFiniteSet(come) /\ Cardinality(come) \in Nat
      /\ IsFiniteSet(come') /\ Cardinality(come') \in Nat
  <2>1. come \in SUBSET Entries /\ come' \in SUBSET Entries
    BY DEF TypeOK
  <2> HIDE DEF come
  <2> QED
    BY <1>1, <2>1, FS_Subset, FS_CardinalityType
<1>3. answered \subseteq answered'
  BY DEF Next, PassStep, vars, history, Publish, Join, Leave, Wake, TakeRoster, Read,
     ReadLost, Served, Ack, PassEnds, EnsureGroup, Handle, WriterGoesOn, RosterFails,
     EnsureFails, AckFails, InsertFails, Crash
<1>4. Cardinality(come) <= Cardinality(come')
  BY <1>2, <1>3, FS_Subset
<1>5. CASE dropped' = dropped
  BY <1>2, <1>4, <1>5, WriterAssumption DEF DropsNeedOverload
<1>6. ASSUME NEW e \in todo, e \in Persisted, Full, answered' = answered
      PROVE  Cardinality(come') > BufferSize
  <2>1. Queued \cup {e} \subseteq come /\ e \notin Queued
    BY <1>6 DEF HandoverInv, Taken, InMemory
  <2>2. /\ IsFiniteSet(Queued) /\ Cardinality(Queued) = Len(queue)
        /\ Len(queue) \in Nat /\ Len(queue) >= BufferSize
    BY <1>6, QueueCounts DEF Full
  <2>3. Cardinality(Queued \cup {e}) = Len(queue) + 1
    BY <2>1, <2>2, FS_AddElement
  <2>4. Cardinality(Queued \cup {e}) <= Cardinality(come)
    BY <1>2, <2>1, FS_Subset
  <2> QED
    BY <1>2, <1>4, <2>2, <2>3, <2>4, WriterAssumption
<1>7. ASSUME NEW e \in todo, Handle(e) PROVE DropsNeedOverload'
  BY <1>5, <1>6, <1>7 DEF Handle, DropsNeedOverload
<1> QED
  BY <1>5, <1>7
  DEF Next, PassStep, vars, history, Publish, Join, Leave, Wake, TakeRoster, Read,
      ReadLost, Served, Ack, PassEnds, EnsureGroup, WriterGoesOn, RosterFails,
      EnsureFails, AckFails, InsertFails, Crash

----------------------------------------------------------------------------
(* Theorems                                                                *)

\* The chain of custody of an event, from the outbox over the answer of a read to
\* the writer or to those dropped, holds at every step of every execution
\* (outbox_consumer.rs, writer.rs).
THEOREM OutboxInvariant == Spec => []OutboxInv
<1>1. Init => OutboxInv
  BY InitInv
<1>2. OutboxInv /\ [Next]_vars => OutboxInv'
  <2> SUFFICES ASSUME OutboxInv, [Next]_vars PROVE OutboxInv'
    OBVIOUS
  <2>1. TypeOK /\ PassInv /\ HandoverInv /\ PendingInv /\ DropsNeedOverload
    BY DEF OutboxInv
  <2>2. PassInv' /\ HandoverInv' /\ PendingInv'
    BY <2>1, PassInvStep, HandoverStep, PendingStep
  <2>3. TypeOK'
    BY <2>1, <2>2, TypeStep DEF HandoverInv, WriterInv
  <2>4. DropsNeedOverload'
    BY <2>1, <2>3, DropsStep
  <2> QED
    BY <2>2, <2>3, <2>4 DEF OutboxInv
<1> QED
  BY <1>1, <1>2, PTL DEF Spec

\* Every variable keeps to its values; in particular a pass reads only outboxes
\* that have the group (outbox_consumer.rs).
THEOREM OutboxTypeCorrect == Spec => []TypeOK
<1>1. OutboxInv => TypeOK
  BY DEF OutboxInv
<1> QED
  BY <1>1, OutboxInvariant, PTL

\* Every acknowledged event is recorded, in the writer's hands, dropped, or lost
\* with the writer (outbox_consumer.rs).
THEOREM AcknowledgedIsAccountedFor == Spec => []AckedIsAccountedFor
<1>1. OutboxInv => AckedIsAccountedFor
  BY DEF OutboxInv, HandoverInv
<1> QED
  BY <1>1, OutboxInvariant, PTL

\* No event is handed over twice, so none has two rows (outbox_consumer.rs).
THEOREM HandedOverOnce == Spec => []NoEventTwice
<1>1. OutboxInv => NoEventTwice
  <2> SUFFICES ASSUME OutboxInv PROVE NoEventTwice
    OBVIOUS
  <2>1. EachOnce /\ HandoverInv
    BY DEF OutboxInv, HandoverInv, WriterInv
  <2>2. ASSUME NEW e \in todo \cap Persisted
        PROVE  e \notin Taken /\ ~Recorded(e)
    <3>1. e \notin Taken
      BY <2>1 DEF HandoverInv
    <3>2. ASSUME Recorded(e) PROVE FALSE
      <4>1. PICK f \in (answered \cap Persisted) \ todo : RowOf[e] = RowOf[f]
        BY <2>1, <3>2 DEF HandoverInv, Recorded
      <4> QED
        BY <4>1, OwnRowAssumption
    <3> QED
      BY <3>1, <3>2
  <2> QED
    BY <2>1, <2>2 DEF NoEventTwice, EachOnce, Taken
<1> QED
  BY <1>1, OutboxInvariant, PTL

\* Between two passes nothing is pending unless a call has failed or the process
\* was restarted (outbox_consumer.rs).
THEOREM NothingPendingWithoutFault == Spec => []OnlyFaultsLeavePending
<1>1. OutboxInv => OnlyFaultsLeavePending
  <2> SUFFICES ASSUME OutboxInv PROVE OnlyFaultsLeavePending
    OBVIOUS
  <2>1. faults \in Nat /\ PassInv /\ PendingInv
    BY OutboxBounds DEF OutboxInv, TypeOK
  <2> QED
    BY <2>1 DEF PassInv, PendingInv, OnlyFaultsLeavePending
<1> QED
  BY <1>1, OutboxInvariant, PTL

\* No event is dropped before more have come than the channel can hold
\* (outbox_consumer.rs, writer.rs).
THEOREM OnlyOverloadDrops == Spec => []DropsNeedOverload
<1>1. OutboxInv => DropsNeedOverload
  BY DEF OutboxInv
<1> QED
  BY <1>1, OutboxInvariant, PTL

=============================================================================
