----------------------- MODULE InboxRefinementProofs -----------------------
(***************************************************************************)
(* The detailed delivery path keeps the promise of the abstract mailbox:   *)
(* every step of InboxDelivery is a step of Mailbox or a stutter.          *)
(***************************************************************************)
EXTENDS InboxDeliveryProofs

\* What a delivered entry looks like from outside.
LEMMA StatusOfDelivered ==
    ASSUME TypeOK, StreamsInv, NEW e \in Entries, deliveries[e] > 0
    PROVE  /\ Status[e] = IF e \in pel THEN "pending" ELSE "closed"
           /\ Status[e] \in {"pending", "closed"}
<1>1. e[1] \in Streams /\ e[2] \in Nat
  BY DEF Entries, Ids
<1>2. /\ e[2] <= cursor[e[1]] /\ cursor[e[1]] <= len[e[1]]
      /\ cursor[e[1]] \in Nat /\ len[e[1]] \in Nat
  BY <1>1 DEF StreamsInv, TypeOK
<1>3. ~(e[2] > len[e[1]])
  BY <1>1, <1>2
<1> QED
  BY <1>3 DEF Status

\* Entries leave the pending list for a reason the mailbox accepts.
LEMMA CloseStep ==
    ASSUME TypeOK, StreamsInv, NEW C \in SUBSET pel,
           \A e \in C : e \in handled \/ dlq[e] > 0 \/ ~InLog(e),
           pel' = pel \ C,
           UNCHANGED <<len, trimmed, deliveries, started, handled, dlq>>
    PROVE  M!Next
<1>1. C \subseteq Entries
  BY DEF TypeOK
<1>2. \A e \in C : Status[e] = "pending"
  BY <1>1, StatusOfDelivered DEF StreamsInv
<1>3. Status' = [e \in Entries |-> IF e \in C THEN "closed" ELSE Status[e]]
  <2>1. \A e \in C : deliveries[e] > 0 /\ ~(e[2] > len[e[1]])
    BY <1>1, <1>2 DEF StreamsInv, Status
  <2> QED
    BY <1>1, <2>1 DEF Status
<1>4. \A e \in C : e \in handled \/ dlq[e] > 0 \/ e \notin Kept
  BY DEF Kept
<1>5. Kept' = Kept
  BY DEF Kept, InLog
<1>6. M!Close(C)
  BY <1>2, <1>3, <1>4, <1>5 DEF M!Close
<1> QED
  BY <1>1, <1>6 DEF M!Next

\* XADD is Send: the new entry has never been seen, what is trimmed has.
LEMMA PublishStep ==
    ASSUME DeliveryInv, NEW s \in Streams, Publish(s)
    PROVE  M!Next
<1> USE BoundsAssumption DEF DeliveryInv
<1> DEFINE e == <<s, len[s] + 1>>
<1>1. len[s] \in Nat /\ len[s] < MaxEntries
  <2>1. Limit[s] \in 0..MaxEntries /\ len[s] \in Nat /\ MaxEntries \in Nat
    BY DEF TypeOK
  <2>2. len[s] < Limit[s]
    BY DEF Publish
  <2> QED
    BY <2>1, <2>2
<1>2. e \in Entries
  BY <1>1 DEF Entries, Ids
<1>3. /\ \A r \in Streams \ {s} : len'[r] = len[r] /\ trimmed'[r] = trimmed[r]
      /\ len'[s] = len[s] + 1 /\ trimmed'[s] \in Nat
      /\ trimmed[s] <= trimmed'[s] /\ trimmed'[s] <= len[s]
  BY DEF Publish, TypeOK
<1>4. UNCHANGED <<pel, deliveries, started, handled, dlq>>
  BY DEF Publish, history
<1>5. ASSUME NEW f \in Entries
      PROVE  /\ f[1] \in Streams /\ f[2] \in Nat /\ f = <<f[1], f[2]>>
             /\ len[f[1]] \in Nat /\ trimmed[f[1]] \in Nat
  BY DEF Entries, Ids, TypeOK
<1>6. deliveries[e] = 0 /\ e \notin pel
  <2>1. ~(e[2] <= cursor[e[1]])
    BY <1>1 DEF StreamsInv, TypeOK
  <2> QED
    BY <1>2, <2>1 DEF StreamsInv, TypeOK
<1>7. Status[e] = "absent"
  BY <1>1, <1>2 DEF Status
<1>8. Status' = [Status EXCEPT ![e] = "queued"]
  <2>1. ASSUME NEW f \in Entries, f # e
        PROVE  f[2] > len'[f[1]] <=> f[2] > len[f[1]]
    BY <1>1, <1>3, <1>5, <2>1
  <2>2. ~(e[2] > len'[e[1]])
    BY <1>1, <1>3
  <2>3. \A f \in Entries : Status'[f] = IF f = e THEN "queued" ELSE Status[f]
    BY <1>2, <1>4, <1>6, <2>1, <2>2 DEF Status
  <2> QED
    BY <1>2, <2>3 DEF Status
<1>9. e \in Kept' /\ Kept' \subseteq Kept
  BY <1>1, <1>2, <1>3, <1>5 DEF Kept, InLog
<1>10. \A f \in Kept \ Kept' : Status[f] # "absent"
  <2> SUFFICES ASSUME NEW f \in Entries, InLog(f), ~InLog(f)'
               PROVE  Status[f] # "absent"
    BY DEF Kept
  <2>1. f[1] = s
    BY <1>3, <1>5 DEF InLog
  <2>2. ~(f[2] > len[f[1]])
    BY <1>1, <1>3, <1>5, <2>1 DEF InLog
  <2> QED
    BY <2>2 DEF Status
<1>11. M!Send(e)
  BY <1>4, <1>7, <1>8, <1>9, <1>10 DEF M!Send
<1> QED
  BY <1>2, <1>11 DEF M!Next

\* XREADGROUP is Deliver: it returns queued entries the stream still holds.
LEMMA ReadStep ==
    ASSUME DeliveryInv, ReadGroup,
           UNCHANGED <<len, trimmed, started, handled, dlq>>
    PROVE  M!Next
<1> USE DEF DeliveryInv
<1>1. /\ Unread \subseteq Entries /\ pel' = pel \cup Unread
      /\ \A e \in Unread : deliveries[e] = 0
      /\ \A e \in Entries \ Unread : deliveries'[e] = deliveries[e]
  BY ReadGroupFacts
<1>2. \A e \in Unread : e \notin pel
  BY <1>1 DEF StreamsInv, TypeOK
<1>3. ASSUME NEW e \in Unread PROVE ~(e[2] > len[e[1]]) /\ e \in Kept
  <2>1. e[1] \in Streams /\ e[2] \in Nat
    BY <1>1 DEF Entries, Ids
  <2>2. LastRead(e[1]) <= len[e[1]] /\ LastRead(e[1]) \in Nat
    BY <2>1, LastReadBounds DEF StreamsInv
  <2>3. trimmed[e[1]] <= NextId(e[1]) /\ NextId(e[1]) \in Nat
    BY <2>1 DEF NextId, TypeOK
  <2>4. NextId(e[1]) < e[2] /\ e[2] <= LastRead(e[1])
    BY DEF Unread
  <2>5. len[e[1]] \in Nat /\ trimmed[e[1]] \in Nat
    BY <2>1 DEF TypeOK
  <2>6. ~(e[2] > len[e[1]])
    BY <2>1, <2>2, <2>4, <2>5
  <2>7. e[2] > trimmed[e[1]]
    BY <2>1, <2>3, <2>4, <2>5
  <2> QED
    BY <1>1, <2>6, <2>7 DEF Kept, InLog
<1>4. \A e \in Unread : Status[e] = "queued"
  BY <1>1, <1>2, <1>3 DEF Status
<1>5. Status' = [e \in Entries |-> IF e \in Unread THEN "pending" ELSE Status[e]]
  BY <1>1, <1>3 DEF Status
<1>6. Kept' = Kept
  BY DEF Kept, InLog
<1>7. M!Deliver(Unread)
  BY <1>3, <1>4, <1>5, <1>6 DEF M!Deliver
<1> QED
  BY <1>1, <1>7 DEF M!Next

\* Spawning the tasks of an answer is Begin.
LEMMA ReceiveStep ==
    ASSUME DeliveryInv, Receive
    PROVE  M!Next
<1> USE DEF DeliveryInv
<1> DEFINE B == batch \ Foreign
<1>1. \A e \in B : e \in Entries /\ deliveries[e] > 0 /\ started[e] = 0
  BY DEF AgentInv, TypeOK
<1>2. \A e \in B : Status[e] \in {"pending", "closed"}
  BY <1>1, StatusOfDelivered
<1>3. started' = [e \in Entries |-> IF e \in B THEN 1 ELSE started[e]]
  BY <1>1 DEF Receive
<1>4. UNCHANGED <<Status, Kept, handled, dlq>>
  BY DEF Receive, redis, Status, Kept, InLog
<1>5. M!Begin(B)
  BY <1>1, <1>2, <1>3, <1>4 DEF M!Begin
<1> QED
  BY <1>1, <1>5 DEF M!Next

\* Every step of the delivery path is a step of the mailbox or a stutter.
LEMMA StepRefines ==
    ASSUME DeliveryInv, [Next]_vars
    PROVE  [M!Next]_(M!mvars)
<1> USE DEF DeliveryInv
<1>1. ASSUME UNCHANGED <<len, trimmed, pel, deliveries, started, handled, dlq>>
      PROVE  UNCHANGED M!mvars
  BY <1>1 DEF M!mvars, Status, Kept, InLog
<1>2. ASSUME NEW s \in Streams, Publish(s) PROVE M!Next
  BY <1>2, PublishStep
<1>3. CASE GatewayPoll \/ StrayPoll
  BY <1>3, ReadStep DEF GatewayPoll, StrayPoll, history
<1>4. CASE Receive
  BY <1>4, ReceiveStep
<1>5. ASSUME NEW e \in Entries, HandlerReturns(e) PROVE M!Next
  <2>1. UNCHANGED <<Status, Kept, started, dlq>>
    BY <1>5 DEF HandlerReturns, redis, Status, Kept, InLog
  <2>2. started[e] = 1 /\ handled' = handled \cup {e}
    BY <1>5 DEF HandlerReturns, AgentInv
  <2>3. M!Finish(e)
    BY <2>1, <2>2 DEF M!Finish
  <2> QED
    BY <2>3 DEF M!Next
<1>6. ASSUME NEW e \in Entries, GatewayAck(e) PROVE M!Next
  <2> DEFINE C == {e} \cap pel
  <2>1. \A f \in C : f \in handled
    BY <1>6 DEF GatewayAck, AgentInv
  <2>2. pel' = pel \ C
    BY <1>6 DEF GatewayAck
  <2>3. UNCHANGED <<len, trimmed, deliveries, started, handled, dlq>>
    BY <1>6 DEF GatewayAck, history
  <2> QED
    BY <2>1, <2>2, <2>3, CloseStep
<1>7. CASE SweepAck
  <2> DEFINE C == current \cap pel
  <2>1. \A f \in C : dlq[f] > 0
    BY DEF SweepInv
  <2>2. pel' = pel \ C
    BY <1>7 DEF SweepAck
  <2>3. UNCHANGED <<len, trimmed, deliveries, started, handled, dlq>>
    BY <1>7 DEF SweepAck, history
  <2> QED
    BY <2>1, <2>2, <2>3, CloseStep
<1>8. ASSUME NEW row \in todo, SweepReclaim(row) PROVE [M!Next]_(M!mvars)
  <2> DEFINE e == row.entry
  <2>1. e \in Entries
    BY DEF TypeOK, Rows
  <2>2. UNCHANGED <<len, trimmed, started, handled, dlq>>
    BY <1>8 DEF SweepReclaim, history
  <2>3. CASE /\ e \in ripe /\ pel' = pel
             /\ deliveries' = [deliveries EXCEPT ![e] = @ + 1]
    <3>1. e \in pel /\ deliveries[e] \in Nat
      BY <2>1, <2>3 DEF TypeOK
    <3>2. \A f \in Entries \ {e} : deliveries'[f] = deliveries[f]
      BY <2>3 DEF TypeOK
    <3>3. Status' = Status
      BY <2>2, <2>3, <3>1, <3>2 DEF Status
    <3>4. Kept' = Kept
      BY <2>2 DEF Kept, InLog
    <3> QED
      BY <2>2, <3>3, <3>4 DEF M!mvars
  <2>4. CASE e \in pel /\ ~InLog(e) /\ pel' = pel \ {e} /\ deliveries' = deliveries
    <3>1. {e} \in SUBSET pel
      BY <2>4
    <3> QED
      BY <2>2, <2>4, <3>1, CloseStep
  <2>5. CASE UNCHANGED <<pel, deliveries>>
    BY <1>1, <2>2, <2>5
  <2> QED
    BY <1>8, <2>3, <2>4, <2>5 DEF SweepReclaim, Claimed
<1>9. ASSUME NEW row \in todo, SweepCopy(row) PROVE M!Next
  <2> DEFINE e == row.entry
  <2>1. e \in Entries /\ deliveries[e] > 0
    BY DEF TypeOK, Rows, SweepInv
  <2>2. Status[e] \in {"pending", "closed"}
    BY <2>1, StatusOfDelivered
  <2>3. UNCHANGED <<Status, Kept, started, handled>>
    BY <1>9 DEF SweepCopy, history, Status, Kept, InLog
  <2>4. dlq' = [dlq EXCEPT ![e] = @ + 1]
    BY <1>9 DEF SweepCopy
  <2>5. M!Bury(e)
    BY <2>2, <2>3, <2>4 DEF M!Bury
  <2> QED
    BY <2>1, <2>5 DEF M!Next
<1>10. ASSUME NEW e \in Entries, Ripen(e) \/ AckFails(e) PROVE UNCHANGED M!mvars
  BY <1>1, <1>10 DEF Ripen, AckFails, redis, history
<1>11. CASE \/ AgentStart \/ AskPoll \/ PollFails \/ AgentCrash \/ LeaveRoster
            \/ SweepRoster \/ SweepPending \/ SweepEnds \/ SweepAborts
            \/ UNCHANGED vars
  BY <1>1, <1>11 DEF AgentStart, AskPoll, PollFails, AgentCrash, LeaveRoster,
     SweepRoster, SweepPending, SweepEnds, SweepAborts, redis, history, vars
<1> QED
  BY <1>2, <1>3, <1>4, <1>5, <1>6, <1>7, <1>8, <1>9, <1>10, <1>11
  DEF Next, AgentStep, SweepStep, FaultStep

LEMMA InitRefines == Init => M!Init
<1> SUFFICES ASSUME Init PROVE M!Init
  OBVIOUS
<1>1. Status = [e \in Entries |-> "absent"]
  BY DEF Init, Status, Entries, Ids
<1>2. Kept = Entries
  BY DEF Init, Kept, InLog, Entries, Ids
<1> QED
  BY <1>1, <1>2 DEF Init, M!Init

\* The delivery path implements the mailbox (inbox.rs, routes.rs, dlq.rs
\* against the promise a sender may rely on).
THEOREM DeliveryImplementsMailbox == Spec => ImplementsMailbox
<1>1. Init => M!Init
  BY InitRefines
<1>2. DeliveryInv /\ [Next]_vars => [M!Next]_(M!mvars)
  BY StepRefines
<1> QED
  BY <1>1, <1>2, DeliveryInvariant, PTL DEF Spec, M!Spec, ImplementsMailbox

=============================================================================
