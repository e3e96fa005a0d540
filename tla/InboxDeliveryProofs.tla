------------------------ MODULE InboxDeliveryProofs ------------------------
(***************************************************************************)
(* Machine-checked proofs about InboxDelivery, for any number of entries,  *)
(* any bounds on retries, pages and trimming, and any number of faults.    *)
(***************************************************************************)
EXTENDS InboxDelivery, TLAPS

\* Where a read stops: not behind the cursor, not past the stream's end
\* (routes.rs, poll: the ids XREADGROUP ">" can return).
LEMMA LastReadBounds ==
    ASSUME NEW s \in Streams, TypeOK, trimmed[s] <= len[s], cursor[s] <= len[s]
    PROVE  /\ LastRead(s) \in Nat
           /\ cursor[s] <= LastRead(s)
           /\ LastRead(s) <= len[s]
  BY BoundsAssumption DEF LastRead, NextId, TypeOK

----------------------------------------------------------------------------
(* Type correctness                                                        *)

LEMMA InitTypeOK == Init => TypeOK
<1> SUFFICES ASSUME Init PROVE TypeOK
  OBVIOUS
<1>1. rostered \in BOOLEAN /\ stray \in BOOLEAN
  BY Zenon DEF Init
<1>2. agentFaults \in 0..MaxAgentFaults /\ sweepFaults \in 0..MaxSweepFaults
  BY BoundsAssumption DEF Init
<1> QED
  BY <1>1, <1>2 DEF Init, TypeOK

\* Every action keeps the types.
LEMMA NextTypeOK == TypeOK /\ [Next]_vars => TypeOK'
<1> SUFFICES ASSUME TypeOK, [Next]_vars PROVE TypeOK'
  OBVIOUS
<1> USE BoundsAssumption
<1>1. ASSUME NEW s \in Streams, Publish(s) PROVE TypeOK'
  BY <1>1 DEF Publish, TypeOK, agent, orch, history, faults
<1>2. ASSUME NEW e \in Entries, Ripen(e) PROVE TypeOK'
  BY <1>2 DEF Ripen, TypeOK, agent, orch, history, faults
<1>3. CASE AgentStart
  BY <1>3 DEF AgentStart, TypeOK, orch, history, faults
<1>4. CASE AskPoll
  BY <1>4 DEF AskPoll, TypeOK, redis, orch, history, faults
<1>5. ASSUME ReadGroup, ripe' = ripe
      PROVE  /\ cursor' \in [Streams -> Nat]
             /\ pel' \subseteq Entries
             /\ deliveries' \in [Entries -> Nat]
             /\ ripe' \subseteq pel'
  <2>1. ASSUME NEW s \in Streams PROVE LastRead(s) \in Nat
    BY DEF LastRead, NextId, TypeOK
  <2>2. cursor' \in [Streams -> Nat]
    BY <1>5, <2>1 DEF ReadGroup
  <2>3. Unread \subseteq Entries
    BY DEF Unread
  <2>4. deliveries' \in [Entries -> Nat]
    BY <1>5 DEF ReadGroup, TypeOK
  <2> QED
    BY <1>5, <2>2, <2>3, <2>4 DEF ReadGroup, TypeOK
<1>6. CASE GatewayPoll
  <2>1. Unread \subseteq Entries
    BY DEF Unread
  <2> QED
    BY <1>5, <1>6, <2>1 DEF GatewayPoll, TypeOK, orch, history, faults
<1>7. CASE StrayPoll
  BY <1>5, <1>7 DEF StrayPoll, TypeOK, orch, history, faults
<1>8. CASE Receive
  BY <1>8 DEF Receive, TypeOK, redis, orch, faults
<1>9. ASSUME NEW e \in Entries, HandlerReturns(e) PROVE TypeOK'
  BY <1>9 DEF HandlerReturns, TypeOK, redis, orch, faults
<1>10. ASSUME NEW e \in Entries, GatewayAck(e) PROVE TypeOK'
  BY <1>10 DEF GatewayAck, TypeOK, orch, history, faults
<1>11. ASSUME NEW e \in Entries, AckFails(e) PROVE TypeOK'
  BY <1>11 DEF AckFails, TypeOK, redis, orch, history
<1>12. CASE PollFails
  <2>1. stray' \in BOOLEAN
    BY <1>12, Zenon DEF PollFails, TypeOK
  <2>2. agentFaults' \in 0..MaxAgentFaults
    BY <1>12 DEF PollFails, TypeOK
  <2> QED
    BY <1>12, <2>1, <2>2 DEF PollFails, TypeOK, redis, orch, history
<1>13. CASE AgentCrash
  <2>1. stray' \in BOOLEAN
    BY <1>13, Zenon DEF AgentCrash, TypeOK
  <2>2. agentFaults' \in 0..MaxAgentFaults
    BY <1>13 DEF AgentCrash, TypeOK
  <2> QED
    BY <1>13, <2>1, <2>2 DEF AgentCrash, TypeOK, redis, orch, history
<1>14. CASE LeaveRoster
  <2>1. rostered' \in BOOLEAN
    BY <1>14, Zenon DEF LeaveRoster
  <2>2. agentFaults' \in 0..MaxAgentFaults
    BY <1>14 DEF LeaveRoster, TypeOK
  <2> QED
    BY <1>14, <2>1, <2>2 DEF LeaveRoster, TypeOK, agent, orch, history
<1>15. CASE SweepRoster
  BY <1>15 DEF SweepRoster, TypeOK, redis, agent, history, faults
<1>16. CASE SweepPending
  <2>1. todo' \subseteq Rows
    <3>1. Page \cap ripe \subseteq Entries
      BY DEF TypeOK
    <3>2. \A e \in Page \cap ripe :
             [entry |-> e, deliveries |-> deliveries[e]] \in Rows
      BY <3>1 DEF TypeOK, Rows
    <3> QED
      BY <1>16, <3>2 DEF SweepPending
  <2> QED
    BY <1>16, <2>1 DEF SweepPending, TypeOK, redis, agent, history, faults
<1>17. ASSUME NEW row \in todo, SweepReclaim(row) PROVE TypeOK'
  <2>1. row.entry \in Entries
    BY DEF TypeOK, Rows
  <2> QED
    BY <1>17, <2>1 DEF SweepReclaim, Claimed, TypeOK, agent, history, faults
<1>18. ASSUME NEW row \in todo, SweepCopy(row) PROVE TypeOK'
  <2>1. row.entry \in Entries
    BY DEF TypeOK, Rows
  <2> QED
    BY <1>18, <2>1 DEF SweepCopy, TypeOK, agent, history, faults
<1>19. CASE SweepAck
  BY <1>19 DEF SweepAck, TypeOK, agent, history, faults
<1>20. CASE SweepEnds
  BY <1>20 DEF SweepEnds, TypeOK, redis, agent, history, faults
<1>21. CASE SweepAborts
  BY <1>21 DEF SweepAborts, TypeOK, redis, agent, history
<1>22. CASE UNCHANGED vars
  BY <1>22 DEF vars, redis, agent, orch, history, faults, TypeOK
<1> QED
  BY <1>1, <1>2, <1>3, <1>4, <1>6, <1>7, <1>8, <1>9, <1>10, <1>11, <1>12,
     <1>13, <1>14, <1>15, <1>16, <1>17, <1>18, <1>19, <1>20, <1>21, <1>22
  DEF Next, AgentStep, SweepStep, FaultStep

\* Every variable keeps its type in every execution, whatever the bounds.
THEOREM TypeCorrect == Spec => []TypeOK
<1>1. Init => TypeOK
  BY InitTypeOK
<1>2. TypeOK /\ [Next]_vars => TypeOK'
  BY NextTypeOK
<1> QED
  BY <1>1, <1>2, PTL DEF Spec

----------------------------------------------------------------------------
(* The inductive invariant: one lemma per part                             *)

\* What one XREADGROUP ">" does to the group: it marks exactly the entries it
\* returns, none of which was ever returned before.
LEMMA ReadGroupFacts ==
    ASSUME TypeOK, StreamsInv, ReadGroup
    PROVE  /\ \A s \in Streams : cursor[s] <= cursor'[s] /\ cursor'[s] <= len[s]
           /\ Unread \subseteq Entries
           /\ pel' = pel \cup Unread
           /\ \A e \in Unread : /\ deliveries[e] = 0 /\ deliveries'[e] = 1
                                /\ e[2] <= cursor'[e[1]]
           /\ \A e \in Entries \ Unread : deliveries'[e] = deliveries[e]
<1>1. \A s \in Streams : /\ cursor'[s] = LastRead(s) /\ LastRead(s) \in Nat
                         /\ cursor[s] <= LastRead(s) /\ LastRead(s) <= len[s]
  BY LastReadBounds DEF ReadGroup, StreamsInv
<1>2. Unread \subseteq Entries
  BY DEF Unread
<1>3. ASSUME NEW e \in Unread PROVE deliveries[e] = 0
  <2>1. e \in Entries /\ e[1] \in Streams /\ e[2] \in Nat
    BY <1>2 DEF Entries, Ids
  <2>2. cursor[e[1]] < e[2]
    BY <2>1 DEF Unread, NextId, TypeOK
  <2> QED
    BY <2>1, <2>2 DEF StreamsInv, TypeOK
<1>4. ASSUME NEW e \in Unread PROVE e[2] <= cursor'[e[1]]
  <2>1. e[1] \in Streams
    BY <1>2 DEF Entries
  <2> QED
    BY <1>1, <2>1 DEF Unread
<1>5. \A e \in Entries : deliveries'[e] = IF e \in Unread THEN 1 ELSE deliveries[e]
  BY DEF ReadGroup
<1> QED
  BY <1>1, <1>2, <1>3, <1>4, <1>5 DEF ReadGroup

\* Redis: cursors stay behind their streams and counters behind cursors.
LEMMA StreamsStep ==
    ASSUME DeliveryInv, TypeOK', [Next]_vars
    PROVE  StreamsInv'
<1> USE DEF DeliveryInv
<1>1. ASSUME UNCHANGED <<len, trimmed, cursor, deliveries>>, pel' \subseteq pel
      PROVE  StreamsInv'
  BY <1>1 DEF StreamsInv
<1>2. ASSUME NEW s \in Streams, Publish(s) PROVE StreamsInv'
  <2>1. \A r \in Streams : trimmed'[r] <= len'[r] /\ cursor[r] <= len'[r]
    BY <1>2 DEF Publish, StreamsInv, TypeOK
  <2> QED
    BY <1>2, <2>1 DEF Publish, StreamsInv
<1>3. ASSUME ReadGroup, UNCHANGED <<len, trimmed>> PROVE StreamsInv'
  <2>1. \A e \in Entries : deliveries'[e] > 0 => e[2] <= cursor'[e[1]]
    <3> SUFFICES ASSUME NEW e \in Entries, deliveries'[e] > 0
                 PROVE  e[2] <= cursor'[e[1]]
      OBVIOUS
    <3>1. CASE e \in Unread
      BY <1>3, <3>1, ReadGroupFacts
    <3>2. CASE e \notin Unread
      <4>1. deliveries[e] > 0
        BY <1>3, <3>2, ReadGroupFacts
      <4>2. e[1] \in Streams /\ e[2] \in Nat
        BY DEF Entries, Ids
      <4>3. e[2] <= cursor[e[1]] /\ cursor[e[1]] <= cursor'[e[1]]
        BY <1>3, <4>1, <4>2, ReadGroupFacts DEF StreamsInv
      <4>4. cursor[e[1]] \in Nat /\ cursor'[e[1]] \in Nat
        BY <4>2 DEF TypeOK
      <4> QED
        BY <4>2, <4>3, <4>4
    <3> QED
      BY <3>1, <3>2
  <2>2. \A e \in pel' : deliveries'[e] > 0
    BY <1>3, ReadGroupFacts DEF StreamsInv, TypeOK
  <2> QED
    BY <1>3, <2>1, <2>2, ReadGroupFacts DEF StreamsInv
<1>4. ASSUME NEW row \in todo, SweepReclaim(row) PROVE StreamsInv'
  <2> DEFINE e == row.entry
  <2>1. e \in Entries
    BY DEF TypeOK, Rows
  <2>2. CASE e \in ripe /\ deliveries' = [deliveries EXCEPT ![e] = @ + 1] /\ pel' = pel
    <3>1. deliveries[e] > 0
      BY <2>2 DEF StreamsInv, TypeOK
    <3>2. \A f \in Entries : deliveries'[f] > 0 <=> deliveries[f] > 0
      BY <2>1, <2>2, <3>1 DEF TypeOK
    <3>3. UNCHANGED <<len, trimmed, cursor>>
      BY <1>4 DEF SweepReclaim
    <3> QED
      BY <2>2, <3>2, <3>3 DEF StreamsInv, TypeOK
  <2>3. CASE deliveries' = deliveries /\ pel' \subseteq pel
    BY <1>1, <1>4, <2>3 DEF SweepReclaim
  <2> QED
    BY <1>4, <2>2, <2>3 DEF SweepReclaim, Claimed
<1>5. ASSUME NEW e \in Entries,
             Ripen(e) \/ HandlerReturns(e) \/ GatewayAck(e) \/ AckFails(e)
      PROVE  StreamsInv'
  BY <1>1, <1>5 DEF Ripen, HandlerReturns, GatewayAck, AckFails, redis
<1>6. ASSUME NEW row \in todo, SweepCopy(row) PROVE StreamsInv'
  BY <1>1, <1>6 DEF SweepCopy
<1>7. CASE \/ AgentStart \/ AskPoll \/ Receive \/ PollFails \/ AgentCrash
           \/ LeaveRoster \/ SweepRoster \/ SweepPending \/ SweepAck
           \/ SweepEnds \/ SweepAborts \/ UNCHANGED vars
  BY <1>1, <1>7 DEF AgentStart, AskPoll, Receive, PollFails, AgentCrash,
     LeaveRoster, SweepRoster, SweepPending, SweepAck, SweepEnds, SweepAborts,
     redis, vars
<1>8. CASE GatewayPoll \/ StrayPoll
  BY <1>3, <1>8 DEF GatewayPoll, StrayPoll
<1> QED
  BY <1>2, <1>4, <1>5, <1>6, <1>7, <1>8
  DEF Next, AgentStep, SweepStep, FaultStep

\* The agent: an entry is started once, and only after it was delivered.
LEMMA AgentStepInv ==
    ASSUME DeliveryInv, TypeOK', [Next]_vars
    PROVE  AgentInv' /\ HandledAtMostOnce'
<1> USE DEF DeliveryInv
<1>1. ASSUME UNCHANGED <<started, handled>>,
             batch' \subseteq batch, handling' \subseteq handling,
             acking' \subseteq acking,
             \A e \in Entries : deliveries[e] > 0 => deliveries'[e] > 0
      PROVE  AgentInv' /\ HandledAtMostOnce'
  BY <1>1 DEF AgentInv, HandledAtMostOnce, TypeOK
<1>2. ASSUME ReadGroup
      PROVE  \A e \in Entries : deliveries[e] > 0 => deliveries'[e] > 0
  BY <1>2, ReadGroupFacts DEF TypeOK
<1>3. CASE GatewayPoll
  <2>1. \A e \in batch' : deliveries'[e] > 0 /\ started[e] = 0
    <3> SUFFICES ASSUME NEW e \in Unread PROVE deliveries'[e] > 0 /\ started[e] = 0
      BY <1>3 DEF GatewayPoll
    <3>1. deliveries[e] = 0 /\ deliveries'[e] = 1 /\ e \in Entries
      BY <1>3, ReadGroupFacts DEF GatewayPoll
    <3> QED
      BY <3>1 DEF AgentInv, TypeOK
  <2>2. UNCHANGED <<started, handled, handling, acking>>
    BY <1>3 DEF GatewayPoll, history
  <2>3. \A e \in Entries : deliveries[e] > 0 => deliveries'[e] > 0
    BY <1>2, <1>3 DEF GatewayPoll
  <2> QED
    BY <2>1, <2>2, <2>3 DEF AgentInv, HandledAtMostOnce
<1>4. CASE StrayPoll
  BY <1>1, <1>2, <1>4 DEF StrayPoll, history
<1>5. CASE Receive
  <2>1. \A e \in Entries : started'[e] = IF e \in batch \ Foreign
                                         THEN started[e] + 1 ELSE started[e]
    BY <1>5 DEF Receive
  <2>2. \A e \in batch \ Foreign : /\ e \in Entries /\ started'[e] = 1
                                   /\ deliveries[e] > 0
    BY <2>1 DEF AgentInv, TypeOK
  <2>3. UNCHANGED <<deliveries, acking, handled>>
    BY <1>5 DEF Receive, redis
  <2>4. \A e \in handling' : started'[e] = 1
    BY <1>5, <2>1, <2>2 DEF Receive, AgentInv, TypeOK
  <2>5. \A e \in handled' : started'[e] = 1
    BY <2>1, <2>2, <2>3 DEF AgentInv, TypeOK
  <2>6. \A e \in Entries : /\ started'[e] > 0 => deliveries[e] > 0
                           /\ started'[e] <= 1
    BY <2>1, <2>2 DEF AgentInv, HandledAtMostOnce
  <2>7. batch' = {}
    BY <1>5 DEF Receive
  <2> QED
    BY <2>3, <2>4, <2>5, <2>6, <2>7 DEF AgentInv, HandledAtMostOnce
<1>6. ASSUME NEW e \in Entries, HandlerReturns(e)
      PROVE  AgentInv' /\ HandledAtMostOnce'
  BY <1>6 DEF HandlerReturns, redis, AgentInv, HandledAtMostOnce
<1>7. ASSUME NEW row \in todo, SweepReclaim(row)
      PROVE  AgentInv' /\ HandledAtMostOnce'
  <2>1. row.entry \in Entries
    BY DEF TypeOK, Rows
  <2>2. \A e \in Entries : deliveries[e] > 0 => deliveries'[e] > 0
    BY <1>7, <2>1 DEF SweepReclaim, Claimed, TypeOK
  <2> QED
    BY <1>1, <1>7, <2>2 DEF SweepReclaim, Claimed, agent, history
<1>8. ASSUME NEW e \in Entries, Ripen(e) \/ GatewayAck(e) \/ AckFails(e)
      PROVE  AgentInv' /\ HandledAtMostOnce'
  BY <1>1, <1>8 DEF Ripen, GatewayAck, AckFails, redis, agent, history
<1>9. ASSUME NEW s \in Streams, Publish(s)
      PROVE  AgentInv' /\ HandledAtMostOnce'
  BY <1>1, <1>9 DEF Publish, agent, history
<1>10. ASSUME NEW row \in todo, SweepCopy(row)
       PROVE  AgentInv' /\ HandledAtMostOnce'
  BY <1>1, <1>10 DEF SweepCopy, agent, history
<1>11. CASE \/ AgentStart \/ AskPoll \/ PollFails \/ AgentCrash \/ LeaveRoster
            \/ SweepRoster \/ SweepPending \/ SweepAck \/ SweepEnds
            \/ SweepAborts \/ UNCHANGED vars
  BY <1>1, <1>11 DEF AgentStart, AskPoll, PollFails, AgentCrash, LeaveRoster,
     SweepRoster, SweepPending, SweepAck, SweepEnds, SweepAborts, redis, agent,
     history, vars
<1> QED
  BY <1>3, <1>4, <1>5, <1>6, <1>7, <1>8, <1>9, <1>10, <1>11
  DEF Next, AgentStep, SweepStep, FaultStep

\* The sweep: its snapshot's counters are the current ones, and an entry
\* whose move to the DLQ is under way is at most one copy ahead.
LEMMA SweepStepInv ==
    ASSUME DeliveryInv, TypeOK', [Next]_vars
    PROVE  SweepInv' /\ RetryBudget' /\ CopiesBoundedByFaults'
<1> USE BoundsAssumption DEF DeliveryInv
<1>0. \A row \in todo : /\ row.entry \in Entries /\ row.deliveries \in Nat
                        /\ row = [entry |-> row.entry, deliveries |-> row.deliveries]
  BY DEF TypeOK, Rows
<1>1. ASSUME UNCHANGED <<deliveries, dlq, todo, sweep, current>>,
             pel' \subseteq pel, sweepFaults' >= sweepFaults
      PROVE  SweepInv' /\ RetryBudget' /\ CopiesBoundedByFaults'
  <2>1. CopiesBoundedByFaults'
    BY <1>1 DEF CopiesBoundedByFaults, TypeOK
  <2>2. \A e \in Entries : dlq[e] <= sweepFaults => dlq'[e] <= sweepFaults'
    BY <1>1 DEF TypeOK
  <2> QED
    BY <1>0, <1>1, <2>1, <2>2 DEF SweepInv, RetryBudget, TypeOK
<1>2. ASSUME ReadGroup, UNCHANGED <<dlq, todo, sweep, current, sweepFaults>>
      PROVE  SweepInv' /\ RetryBudget' /\ CopiesBoundedByFaults'
  <2>1. \A e \in Unread : e \in Entries /\ dlq[e] = 0
    BY <1>2, ReadGroupFacts DEF RetryBudget, TypeOK
  <2>2. RetryBudget'
    <3> SUFFICES ASSUME NEW e \in Entries
                 PROVE  /\ deliveries'[e] <= MaxRetries + 1
                        /\ dlq'[e] > 0 => deliveries'[e] = MaxRetries + 1
      BY DEF RetryBudget
    <3> QED
      BY <1>2, <2>1, ReadGroupFacts DEF RetryBudget, TypeOK
  <2>3. \A row \in todo : row.deliveries = deliveries'[row.entry]
    BY <1>0, <1>2, ReadGroupFacts DEF SweepInv
  <2>4. \A e \in pel' \ current : dlq[e] <= sweepFaults
    BY <1>2, <2>1, ReadGroupFacts DEF SweepInv, TypeOK
  <2>5. CopiesBoundedByFaults'
    BY <1>2 DEF CopiesBoundedByFaults
  <2> QED
    BY <1>2, <2>2, <2>3, <2>4, <2>5 DEF SweepInv
<1>3. CASE SweepPending
  <2>1. UNCHANGED <<pel, deliveries, dlq, current, sweepFaults>>
    BY <1>3 DEF SweepPending, redis, faults
  <2>2. current = {}
    BY <1>3 DEF SweepPending, SweepInv
  <2>3. ASSUME NEW row \in todo'
        PROVE  /\ row.deliveries = deliveries[row.entry]
               /\ row.deliveries > 0
               /\ dlq[row.entry] <= sweepFaults
    <3>1. PICK e \in Page \cap ripe :
             row = [entry |-> e, deliveries |-> deliveries[e]]
      BY <1>3, <2>3 DEF SweepPending
    <3>2. e \in pel
      BY DEF TypeOK
    <3> QED
      BY <2>2, <3>1, <3>2 DEF SweepInv, StreamsInv
  <2>4. sweep' = "scan"
    BY <1>3 DEF SweepPending
  <2>5. RetryBudget' /\ CopiesBoundedByFaults'
    BY <2>1 DEF RetryBudget, CopiesBoundedByFaults
  <2> QED
    BY <2>1, <2>2, <2>3, <2>4, <2>5 DEF SweepInv
<1>4. ASSUME NEW row \in todo, SweepReclaim(row)
      PROVE  SweepInv' /\ RetryBudget' /\ CopiesBoundedByFaults'
  <2> DEFINE e == row.entry
  <2>1. UNCHANGED <<dlq, current, sweep, sweepFaults>> /\ pel' \subseteq pel
    BY <1>4 DEF SweepReclaim, Claimed, faults
  <2>2. /\ todo' = todo \ {row} /\ sweep = "scan" /\ current = {}
        /\ row.deliveries <= MaxRetries
    BY <1>0, <1>4 DEF SweepReclaim, GivesUp, SweepInv
  <2>3. e \in Entries /\ deliveries[e] <= MaxRetries
    BY <1>0, <2>2 DEF SweepInv
  <2>4. dlq[e] = 0
    BY <2>3 DEF RetryBudget, TypeOK
  <2>5. \A f \in Entries \ {e} : deliveries'[f] = deliveries[f]
    BY <1>4, <2>3 DEF SweepReclaim, Claimed, TypeOK
  <2>6. deliveries'[e] \in {deliveries[e], deliveries[e] + 1}
    BY <1>4, <2>3 DEF SweepReclaim, Claimed, TypeOK
  <2>7. RetryBudget'
    BY <2>1, <2>3, <2>4, <2>5, <2>6 DEF RetryBudget, TypeOK
  <2>8. \A other \in todo' : other.entry # e
    BY <1>0, <2>2 DEF SweepInv
  <2>9. \A other \in todo' : other.deliveries = deliveries'[other.entry]
    BY <1>0, <2>2, <2>5, <2>8 DEF SweepInv
  <2>10. CopiesBoundedByFaults'
    BY <2>1 DEF CopiesBoundedByFaults
  <2> QED
    BY <2>1, <2>2, <2>7, <2>9, <2>10 DEF SweepInv
<1>5. ASSUME NEW row \in todo, SweepCopy(row)
      PROVE  SweepInv' /\ RetryBudget' /\ CopiesBoundedByFaults'
  <2> DEFINE e == row.entry
  <2>1. UNCHANGED <<pel, deliveries, sweepFaults>>
    BY <1>5 DEF SweepCopy, faults
  <2>2. /\ todo' = todo \ {row} /\ current' = {e} /\ sweep' = "copied"
        /\ sweep = "scan" /\ row.deliveries > MaxRetries
    BY <1>5 DEF SweepCopy, GivesUp
  <2>3. current = {}
    BY <2>2 DEF SweepInv
  <2>4. e \in Entries /\ deliveries[e] = MaxRetries + 1 /\ dlq[e] <= sweepFaults
    BY <1>0, <2>2 DEF SweepInv, RetryBudget, TypeOK
  <2>5. dlq'[e] = dlq[e] + 1 /\ \A f \in Entries \ {e} : dlq'[f] = dlq[f]
    BY <1>5, <2>4 DEF SweepCopy, TypeOK
  <2>6. RetryBudget'
    BY <2>1, <2>4, <2>5 DEF RetryBudget
  <2>7. CopiesBoundedByFaults'
    BY <2>1, <2>4, <2>5 DEF CopiesBoundedByFaults, TypeOK
  <2>8. \A other \in todo' : other.entry # e
    BY <1>0, <2>2 DEF SweepInv
  <2>9. \A other \in todo' : dlq'[other.entry] <= sweepFaults
    BY <1>0, <2>2, <2>5, <2>8 DEF SweepInv
  <2>10. \A f \in pel' \ current' : dlq'[f] <= sweepFaults
    BY <2>1, <2>2, <2>3, <2>5 DEF SweepInv, TypeOK
  <2>11. dlq'[e] > 0
    BY <2>4, <2>5 DEF TypeOK
  <2> QED
    BY <2>1, <2>2, <2>6, <2>7, <2>9, <2>10, <2>11 DEF SweepInv
<1>6. CASE SweepAck
  <2>1. UNCHANGED <<deliveries, dlq, todo, sweepFaults>>
    BY <1>6 DEF SweepAck, faults
  <2>2. pel' = pel \ current /\ current' = {} /\ sweep' = "scan"
    BY <1>6 DEF SweepAck
  <2> QED
    BY <2>1, <2>2 DEF SweepInv, RetryBudget, CopiesBoundedByFaults
<1>7. CASE SweepAborts
  <2>1. UNCHANGED <<deliveries, dlq, pel>> /\ todo' = {} /\ current' = {}
    BY <1>7 DEF SweepAborts, redis
  <2>2. sweepFaults' = sweepFaults + 1
    BY <1>7 DEF SweepAborts
  <2>3. \A e \in Entries : dlq[e] <= sweepFaults'
    BY <2>2 DEF CopiesBoundedByFaults, TypeOK
  <2>4. CopiesBoundedByFaults' /\ RetryBudget'
    BY <2>1, <2>2, <2>3 DEF CopiesBoundedByFaults, RetryBudget, TypeOK
  <2> QED
    BY <2>1, <2>3, <2>4 DEF SweepInv, TypeOK
<1>8. CASE SweepRoster \/ SweepEnds
  BY <1>8 DEF SweepRoster, SweepEnds, redis, faults, SweepInv, RetryBudget,
     CopiesBoundedByFaults
<1>9. ASSUME NEW e \in Entries,
             Ripen(e) \/ HandlerReturns(e) \/ GatewayAck(e) \/ AckFails(e)
      PROVE  SweepInv' /\ RetryBudget' /\ CopiesBoundedByFaults'
  BY <1>1, <1>9 DEF Ripen, HandlerReturns, GatewayAck, AckFails, redis, orch,
     faults, TypeOK
<1>10. ASSUME NEW s \in Streams, Publish(s)
       PROVE  SweepInv' /\ RetryBudget' /\ CopiesBoundedByFaults'
  BY <1>1, <1>10 DEF Publish, orch, faults, TypeOK
<1>11. CASE \/ AgentStart \/ AskPoll \/ Receive \/ PollFails \/ AgentCrash
            \/ LeaveRoster \/ UNCHANGED vars
  BY <1>1, <1>11 DEF AgentStart, AskPoll, Receive, PollFails, AgentCrash,
     LeaveRoster, redis, orch, faults, vars, TypeOK
<1>12. CASE GatewayPoll \/ StrayPoll
  BY <1>2, <1>12 DEF GatewayPoll, StrayPoll, orch, faults
<1> QED
  BY <1>3, <1>4, <1>5, <1>6, <1>7, <1>8, <1>9, <1>10, <1>11, <1>12
  DEF Next, AgentStep, SweepStep, FaultStep

\* Nothing that was delivered vanishes: only an ack of a handled entry, the ack
\* after a copy, or a claim of a trimmed entry shrinks the pending list.
LEMMA SettledStep ==
    ASSUME DeliveryInv, TypeOK', [Next]_vars
    PROVE  PendingUntilSettled'
<1> USE DEF DeliveryInv
<1>1. ASSUME \A e \in Entries :
                deliveries'[e] > 0 /\ e \notin pel' =>
                    \/ deliveries[e] > 0 /\ e \notin pel
                    \/ e \in handled \/ dlq[e] > 0 \/ ~InLog(e),
             handled \subseteq handled',
             \A e \in Entries : dlq'[e] >= dlq[e],
             \A s \in Streams : trimmed'[s] >= trimmed[s]
      PROVE  PendingUntilSettled'
  <2>1. \A e \in Entries : ~InLog(e) => ~InLog(e)'
    BY <1>1 DEF InLog, Entries, Ids, TypeOK
  <2>2. \A e \in Entries : dlq[e] > 0 => dlq'[e] > 0
    BY <1>1 DEF TypeOK
  <2> QED
    BY <1>1, <2>1, <2>2 DEF PendingUntilSettled
<1>2. \A e \in Entries : dlq[e] >= dlq[e]
  BY DEF TypeOK
<1>3. \A s \in Streams : trimmed[s] >= trimmed[s]
  BY DEF TypeOK
<1>4. ASSUME NEW s \in Streams, Publish(s) PROVE PendingUntilSettled'
  <2>1. \A r \in Streams : trimmed'[r] >= trimmed[r]
    BY <1>4 DEF Publish, TypeOK
  <2> QED
    BY <1>1, <1>2, <1>4, <2>1 DEF Publish, history
<1>5. CASE GatewayPoll \/ StrayPoll
  <2>1. ReadGroup /\ UNCHANGED <<handled, dlq, trimmed>>
    BY <1>5 DEF GatewayPoll, StrayPoll, history
  <2>2. \A e \in Entries : deliveries'[e] > 0 /\ e \notin pel' =>
                              deliveries[e] > 0 /\ e \notin pel
    BY <2>1, ReadGroupFacts
  <2> QED
    BY <1>1, <1>2, <1>3, <2>1, <2>2
<1>6. ASSUME NEW e \in Entries, HandlerReturns(e) PROVE PendingUntilSettled'
  BY <1>1, <1>2, <1>3, <1>6 DEF HandlerReturns, redis
<1>7. ASSUME NEW e \in Entries, GatewayAck(e) PROVE PendingUntilSettled'
  BY <1>1, <1>2, <1>3, <1>7 DEF GatewayAck, history, AgentInv
<1>8. ASSUME NEW row \in todo, SweepReclaim(row) PROVE PendingUntilSettled'
  <2>1. row.entry \in Entries
    BY DEF TypeOK, Rows
  <2>2. UNCHANGED <<handled, dlq, trimmed>>
    BY <1>8 DEF SweepReclaim, Claimed, history
  <2>3. ripe \subseteq pel
    BY DEF TypeOK
  <2>4. \A e \in Entries : deliveries'[e] > 0 /\ e \notin pel' =>
              (deliveries[e] > 0 /\ e \notin pel) \/ ~InLog(e)
    BY <1>8, <2>1, <2>3 DEF SweepReclaim, Claimed, TypeOK, StreamsInv
  <2> QED
    BY <1>1, <1>2, <1>3, <2>2, <2>4
<1>9. ASSUME NEW row \in todo, SweepCopy(row) PROVE PendingUntilSettled'
  <2>1. row.entry \in Entries
    BY DEF TypeOK, Rows
  <2>2. \A e \in Entries : dlq'[e] >= dlq[e]
    BY <1>9, <2>1 DEF SweepCopy, TypeOK
  <2> QED
    BY <1>1, <1>3, <1>9, <2>2 DEF SweepCopy, history
<1>10. CASE SweepAck
  BY <1>1, <1>2, <1>3, <1>10 DEF SweepAck, history, SweepInv
<1>11. ASSUME NEW e \in Entries, Ripen(e) \/ AckFails(e)
       PROVE  PendingUntilSettled'
  BY <1>1, <1>2, <1>3, <1>11 DEF Ripen, AckFails, redis, history
<1>12. CASE \/ AgentStart \/ AskPoll \/ Receive \/ PollFails \/ AgentCrash
            \/ LeaveRoster \/ SweepRoster \/ SweepPending \/ SweepEnds
            \/ SweepAborts \/ UNCHANGED vars
  BY <1>1, <1>2, <1>3, <1>12 DEF AgentStart, AskPoll, Receive, PollFails,
     AgentCrash, LeaveRoster, SweepRoster, SweepPending, SweepEnds,
     SweepAborts, redis, history, vars
<1> QED
  BY <1>4, <1>5, <1>6, <1>7, <1>8, <1>9, <1>10, <1>11, <1>12
  DEF Next, AgentStep, SweepStep, FaultStep

LEMMA InitDeliveryInv == Init => DeliveryInv
<1> SUFFICES ASSUME Init PROVE DeliveryInv
  OBVIOUS
<1>1. TypeOK
  BY InitTypeOK
<1>2. StreamsInv /\ AgentInv
  BY DEF Init, StreamsInv, AgentInv, Entries
<1>3. SweepInv
  BY DEF Init, SweepInv
<1>4. HandledAtMostOnce /\ PendingUntilSettled
  BY DEF Init, HandledAtMostOnce, PendingUntilSettled
<1>5. RetryBudget /\ CopiesBoundedByFaults
  BY BoundsAssumption DEF Init, RetryBudget, CopiesBoundedByFaults
<1> QED
  BY <1>1, <1>2, <1>3, <1>4, <1>5 DEF DeliveryInv

\* The inductive invariant holds in every execution.
THEOREM DeliveryInvariant == Spec => []DeliveryInv
<1>1. Init => DeliveryInv
  BY InitDeliveryInv
<1>2. DeliveryInv /\ [Next]_vars => DeliveryInv'
  <2> SUFFICES ASSUME DeliveryInv, [Next]_vars PROVE DeliveryInv'
    OBVIOUS
  <2>1. TypeOK'
    BY NextTypeOK DEF DeliveryInv
  <2> QED
    BY <2>1, StreamsStep, AgentStepInv, SweepStepInv, SettledStep
    DEF DeliveryInv
<1> QED
  BY <1>1, <1>2, PTL DEF Spec

\* No entry is handed to a handler twice (inbox.rs, routes.rs poll, dlq.rs).
THEOREM NeverHandledTwice == Spec => []HandledAtMostOnce
<1>1. DeliveryInv => HandledAtMostOnce
  BY DEF DeliveryInv
<1> QED
  BY <1>1, DeliveryInvariant, PTL

\* A delivered entry leaves the pending list handled, copied to the dead letter
\* stream or trimmed, never silently (inbox.rs, dlq.rs).
THEOREM NothingVanishes == Spec => []PendingUntilSettled
<1>1. DeliveryInv => PendingUntilSettled
  BY DEF DeliveryInv
<1> QED
  BY <1>1, DeliveryInvariant, PTL

\* The stale snapshot never costs an entry one of its retries, nor gives it one
\* too many (dlq.rs).
THEOREM BudgetKept == Spec => []RetryBudget
<1>1. DeliveryInv => RetryBudget
  BY DEF DeliveryInv
<1> QED
  BY <1>1, DeliveryInvariant, PTL

\* A second dead letter copy takes an interrupted move_to_dlq (dlq.rs).
THEOREM CopiesBounded == Spec => []CopiesBoundedByFaults
<1>1. DeliveryInv => CopiesBoundedByFaults
  BY DEF DeliveryInv
<1> QED
  BY <1>1, DeliveryInvariant, PTL

=============================================================================
