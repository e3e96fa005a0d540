------------------------- MODULE ConversationsProofs -------------------------
(***************************************************************************)
(* Machine-checked proofs about Conversations and the two modules it is    *)
(* made of, Correlation and GroupBroadcast: for any agents, any updates,   *)
(* commands, posts and requests, and any number of failures and crashes.   *)
(***************************************************************************)
EXTENDS Conversations, Integers, TLAPS

----------------------------------------------------------------------------
(* Requests and replies                                                    *)

CorrStep ==
    \/ \E i \in Requests :
          \/ Register(i) \/ RequestRouted(i) \/ StartWaiting(i) \/ SendFailed(i)
          \/ ReplyTaken(i) \/ TimerFires(i) \/ TimesOut(i)
          \/ \E reply \in Causes : Resolve(i, reply)
    \/ \E a \in Agents : AskerDies(a)
    \/ UNCHANGED corrVars

\* What a waiter does by itself, from one stage to a later one.
LEMMA WaiterMoves ==
    ASSUME CorrTypeOK(Causes), CorrInv, NEW i \in Requests,
           \/ Register(i) \/ RequestRouted(i) \/ StartWaiting(i) \/ SendFailed(i)
           \/ ReplyTaken(i) \/ TimerFires(i) \/ TimesOut(i)
    PROVE  /\ CorrTypeOK(Causes)' /\ CorrInv'
           /\ \A j \in Requests : waiter[j] # "idle" => waiter'[j] # "idle"
           /\ \A j \in Requests : Settled(j) => Settled(j)'
<1> USE DEF Over, Stages
<1>1. PICK stage \in Stages :
         /\ Goes(i, stage) /\ UNCHANGED <<answer, swallowed>>
         /\ stage # "idle" /\ waiter[i] \notin Over
         /\ stage = "registered" <=> waiter[i] = "idle"
         /\ stage = "replied" => answer[i] # {}
  BY DEF Register, RequestRouted, StartWaiting, SendFailed, ReplyTaken, TimerFires, TimesOut
<1>2. /\ waiter' = [waiter EXCEPT ![i] = stage]
      /\ registry' = IF waiter[i] = "idle" THEN registry \cup {i} ELSE registry
  BY <1>1 DEF Goes, EntryStage
<1>3. CorrTypeOK(Causes)'
  BY <1>1, <1>2 DEF CorrTypeOK
<1>4. /\ waiter \in [Requests -> Stages] /\ swallowed \subseteq Requests \X Causes
      /\ registry \subseteq Requests
  BY DEF CorrTypeOK
<1>5. /\ \A j \in Requests : waiter'[j] = IF j = i THEN stage ELSE waiter[j]
      /\ \A s \in swallowed : s[1] # i
  BY <1>1, <1>2, <1>4 DEF CorrInv, OneSwallowedPerRequest
<1>6. \A j \in Requests : Settled(j) => Settled(j)'
  BY <1>1, <1>5 DEF Settled
<1>7. /\ \A j \in registry' : waiter'[j] # "idle" /\ answer'[j] = {}
      /\ \A j \in Requests : waiter'[j] = "idle" => answer'[j] = {}
      /\ \A j \in Requests \ registry' : waiter'[j] = "idle" \/ Settled(j)'
      /\ \A s \in swallowed' : s[1] \notin registry'
  BY <1>1, <1>2, <1>4, <1>5, <1>6 DEF CorrInv
<1>8. \A j \in Requests : waiter'[j] = "replied" => answer'[j] # {}
  BY <1>1, <1>5 DEF CorrInv
<1>9. OneSwallowedPerRequest'
  BY <1>1, <1>4, <1>5 DEF CorrInv, OneSwallowedPerRequest
<1> QED
  BY <1>1, <1>3, <1>5, <1>6, <1>7, <1>8, <1>9 DEF CorrInv

\* A reply takes the entry, and with it the place of any later reply.
LEMMA ResolveMoves ==
    ASSUME CorrTypeOK(Causes), CorrInv, NEW i \in Requests, NEW reply \in Causes,
           Resolve(i, reply)
    PROVE  /\ CorrTypeOK(Causes)' /\ CorrInv' /\ waiter' = waiter
           /\ \A j \in Requests : Settled(j) => Settled(j)'
<1> USE DEF Over
<1>1. /\ i \in registry /\ registry' = registry \ {i} /\ waiter' = waiter
      /\ answer[i] = {} /\ waiter[i] # "idle"
      /\ \A s \in swallowed : s[1] # i
  BY DEF Resolve, EntryTaken, CorrInv
<1>2. /\ waiter \in [Requests -> Stages] /\ swallowed \subseteq Requests \X Causes
      /\ registry \subseteq Requests /\ answer \in [Requests -> SUBSET Causes]
  BY DEF CorrTypeOK
<1>3. CASE waiter[i] \notin Over
  <2>1. answer' = [answer EXCEPT ![i] = {reply}] /\ swallowed' = swallowed
    BY <1>3 DEF Resolve
  <2>2. \A j \in Requests : answer'[j] = IF j = i THEN {reply} ELSE answer[j]
    BY <1>2, <2>1
  <2>3. CorrTypeOK(Causes)'
    BY <1>1, <1>2, <2>1 DEF CorrTypeOK
  <2>4. \A j \in Requests : Settled(j) \/ j = i => Settled(j)'
    BY <1>1, <2>1, <2>2 DEF Settled
  <2>5. /\ \A j \in Requests : waiter'[j] = "replied" => answer'[j] # {}
        /\ OneSwallowedPerRequest'
    BY <1>1, <1>2, <1>3, <2>1, <2>2 DEF CorrInv, OneSwallowedPerRequest
  <2> QED
    BY <1>1, <1>2, <2>1, <2>2, <2>3, <2>4, <2>5 DEF CorrInv
<1>4. CASE waiter[i] \in Over
  <2>1. answer' = answer /\ swallowed' = swallowed \cup {<<i, reply>>}
    BY <1>4 DEF Resolve
  <2>2. waiter[i] # "replied"
    BY <1>1, <1>2 DEF CorrInv
  <2>3. CorrTypeOK(Causes)'
    BY <1>1, <1>2, <2>1 DEF CorrTypeOK
  <2>4. \A j \in Requests : Settled(j) \/ j = i => Settled(j)'
    <3>1. <<i, reply>> \in swallowed' /\ <<i, reply>>[1] = i
      BY <2>1
    <3> QED
      BY <1>1, <2>1, <3>1 DEF Settled
  <2>5. OneSwallowedPerRequest'
    BY <1>1, <1>2, <1>4, <2>1, <2>2 DEF CorrInv, OneSwallowedPerRequest
  <2>6. \A j \in Requests : waiter'[j] = "replied" => answer'[j] # {}
    BY <1>1, <2>1 DEF CorrInv
  <2> QED
    BY <1>1, <1>2, <2>1, <2>3, <2>4, <2>5, <2>6 DEF CorrInv
<1> QED
  BY <1>1, <1>3, <1>4

\* The registry and the waiters of a process end with it.
LEMMA DeathMoves ==
    ASSUME CorrTypeOK(Causes), CorrInv, NEW a, AskerDies(a)
    PROVE  /\ CorrTypeOK(Causes)' /\ CorrInv'
           /\ \A j \in Requests : waiter[j] # "idle" => waiter'[j] # "idle"
           /\ \A j \in Requests : Settled(j) => Settled(j)'
<1> USE DEF Over, Stages
<1>1. /\ registry' = {i \in registry : Asker[i] # a}
      /\ UNCHANGED <<answer, swallowed>>
      /\ \A j \in Requests :
            waiter'[j] = IF Asker[j] = a /\ waiter[j] # "idle" THEN "dead" ELSE waiter[j]
  BY DEF AskerDies
<1>2. /\ waiter \in [Requests -> Stages] /\ swallowed \subseteq Requests \X Causes
      /\ registry \subseteq Requests
  BY DEF CorrTypeOK
<1>3. CorrTypeOK(Causes)'
  BY <1>1, <1>2 DEF CorrTypeOK, AskerDies
<1>4. \A j \in Requests : Settled(j) => Settled(j)'
  BY <1>1 DEF Settled
<1>5. \A j \in Requests \ registry' : waiter'[j] = "idle" \/ Settled(j)'
  BY <1>1, <1>4 DEF CorrInv, Settled
<1>6. \A j \in Requests : waiter'[j] = "replied" => answer'[j] # {}
  BY <1>1 DEF CorrInv
<1>7. OneSwallowedPerRequest'
  BY <1>1, <1>2 DEF CorrInv, OneSwallowedPerRequest
<1> QED
  BY <1>1, <1>2, <1>3, <1>4, <1>5, <1>6, <1>7 DEF CorrInv

\* Whatever happens at the asking agent: a request that has begun has begun, and
\* one that has had its reply has had it.
LEMMA CorrKeeps ==
    ASSUME CorrTypeOK(Causes), CorrInv, CorrStep
    PROVE  /\ CorrTypeOK(Causes)' /\ CorrInv'
           /\ \A j \in Requests : waiter[j] # "idle" => waiter'[j] # "idle"
           /\ \A j \in Requests : Settled(j) => Settled(j)'
<1>1. CASE UNCHANGED corrVars
  BY <1>1 DEF corrVars, CorrTypeOK, CorrInv, OneSwallowedPerRequest, Settled
<1> QED
  BY <1>1, WaiterMoves, ResolveMoves, DeathMoves DEF CorrStep

----------------------------------------------------------------------------
(* The group broadcast                                                     *)

MemberStep(a) == Enrol(a) \/ JoinGroup(a) \/ QuitGroup(a) \/ Strike(a)

AttemptStep ==
    \/ \E a \in Agents : Match(a) \/ SendOne(a) \/ SendOneLost(a)
    \/ BroadcastEnds \/ BroadcastFails

\* Joining and leaving: steady members are those who do neither.
LEMMA MembersMove ==
    ASSUME NEW N \in Nat, GroupTypeOK(N), GroupInv, NEW a \in Agents, MemberStep(a),
           JoinGroup(a) => state = "busy"
    PROVE  GroupTypeOK(N)' /\ GroupInv' /\ attempt' = attempt
<1>1. /\ UNCHANGED attemptVars
      /\ roster' \subseteq roster \cup {a} /\ ingroup' \subseteq ingroup \cup {a}
      /\ wasIn \subseteq wasIn' /\ wasIn' \subseteq wasIn \cup {a}
      /\ steady' \subseteq steady /\ steady' \subseteq ingroup'
      /\ state # "idle" => ingroup' \subseteq wasIn'
  BY DEF MemberStep, Enrol, JoinGroup, QuitGroup, Strike, membership, GroupInv, attemptVars
<1> QED
  BY <1>1 DEF attemptVars, GroupTypeOK, GroupInv

LEMMA BroadcastBegins ==
    ASSUME NEW N \in Nat, GroupTypeOK(N), GroupInv, BroadcastStarts, attempt + 1 <= N
    PROVE  GroupTypeOK(N)' /\ GroupInv' /\ attempt' = attempt + 1
<1>1. attempt' = attempt + 1 /\ attempt' \in 0..N /\ attempt' # 0 /\ state' = "busy"
  BY DEF BroadcastStarts, GroupTypeOK
<1>2. GroupTypeOK(N)'
  BY <1>1 DEF BroadcastStarts, GroupTypeOK, membership
<1>3. \A a \in Agents : copies'[a] = 0
  BY DEF BroadcastStarts
<1>4. GroupInv'
  BY <1>1, <1>3 DEF BroadcastStarts, GroupInv, membership
<1> QED
  BY <1>1, <1>2, <1>4

\* Matching, sending, and the two ways to end.
LEMMA AttemptMoves ==
    ASSUME NEW N \in Nat, GroupTypeOK(N), GroupInv, AttemptStep
    PROVE  GroupTypeOK(N)' /\ GroupInv' /\ attempt' = attempt
<1> USE DEF membership
<1>0. /\ \A a \in Agents : copies[a] \in 0..1
      /\ copies \in [Agents -> 0..1] /\ state = "busy" /\ attempt # 0
  BY DEF GroupTypeOK, GroupInv, AttemptStep, Match, SendOne, SendOneLost, BroadcastEnds,
     BroadcastFails
<1>1. ASSUME NEW a \in Agents, Match(a)
      PROVE  GroupTypeOK(N)' /\ GroupInv' /\ attempt' = attempt
  <2>1. GroupTypeOK(N)'
    BY <1>1 DEF Match, GroupTypeOK
  <2>2. GroupInv'
    BY <1>0, <1>1 DEF Match, IsInGroup, GroupInv, GroupTypeOK
  <2> QED
    BY <1>1, <2>1, <2>2 DEF Match
<1>2. ASSUME NEW a \in Agents, SendOne(a) \/ SendOneLost(a)
      PROVE  GroupTypeOK(N)' /\ GroupInv' /\ attempt' = attempt
  <2>1. a \in unsent /\ copies[a] = 0 /\ copies' = [copies EXCEPT ![a] = @ + 1]
    BY <1>0, <1>2 DEF SendOne, SendOneLost, GroupInv, GroupTypeOK
  <2>2. copies' = [copies EXCEPT ![a] = 1]
    BY <1>0, <2>1
  <2>3. /\ copies' \in [Agents -> 0..1]
        /\ \A b \in Agents : copies'[b] = IF b = a THEN 1 ELSE copies[b]
    BY <1>0, <2>2
  <2>4. GroupTypeOK(N)'
    BY <1>2, <2>1, <2>3 DEF SendOne, SendOneLost, Stop, Failure, GroupTypeOK
  <2>5. GroupInv'
    BY <1>0, <1>2, <2>1, <2>3 DEF SendOne, SendOneLost, Stop, Failure, GroupInv, GroupTypeOK
  <2> QED
    BY <1>2, <2>4, <2>5 DEF SendOne, SendOneLost, Stop
<1>3. CASE BroadcastEnds \/ BroadcastFails
  <2>1. GroupTypeOK(N)'
    BY <1>3 DEF BroadcastEnds, BroadcastFails, Stop, Failure, GroupTypeOK
  <2>2. GroupInv'
    BY <1>0, <1>3 DEF BroadcastEnds, BroadcastFails, Stop, Failure, GroupInv, GroupTypeOK
  <2> QED
    BY <1>3, <2>1, <2>2 DEF BroadcastEnds, BroadcastFails, Stop
<1> QED
  BY <1>1, <1>2, <1>3 DEF AttemptStep

\* The invariant says what a success means, and whom a copy can have reached.
LEMMA GroupPromises ==
    ASSUME NEW N \in Nat, GroupTypeOK(N), GroupInv
    PROVE  SteadyMembersReached /\ OnlyMembersReached
<1>1. \A a \in Agents : copies[a] \in 0..1
  BY DEF GroupTypeOK
<1>2. matched \subseteq Agents /\ matched \subseteq snapshot \cap wasIn
  BY DEF GroupTypeOK, GroupInv
<1>3. SteadyMembersReached
  BY <1>1, <1>2 DEF SteadyMembersReached, GroupInv
<1> QED
  BY <1>2, <1>3 DEF OnlyMembersReached, GroupInv

----------------------------------------------------------------------------
(* Messages                                                                *)

BusTypeOK == inboxes \subseteq Names \X Messages /\ outboxes \subseteq Names \X Messages

Identities == Agents \cup {Orchestrator}

LEMMA StampedIs ==
    ASSUME NEW identity \in Identities, NEW m \in Messages
    PROVE  LET n == Stamped(identity, m) IN
           /\ n \in Messages /\ n.from = identity
           /\ n.id = m.id /\ n.to = m.to /\ n.type = m.type /\ n.corr = m.corr
           /\ n.session = m.session /\ n.cause = m.cause
  BY DEF Stamped, Messages, Identities, Names

\* What a send leaves on the bus, whether or not it is accepted: the message, in
\* the sender's own name, in one inbox unless it is a broadcast.
Sends(identity, m) == Routed(identity, m) \/ UNCHANGED bus

LEMMA SendsOne ==
    ASSUME BusTypeOK, NEW identity \in Identities, NEW m \in Messages,
           Sends(identity, m)
    PROVE  /\ BusTypeOK'
           /\ inboxes \subseteq inboxes'
           /\ \A e \in inboxes' : e \in inboxes \/ e[2] = Stamped(identity, m)
           /\ m.to \in Identities \/ identity # Orchestrator =>
                 inboxes' \subseteq inboxes \cup {<<m.to, Stamped(identity, m)>>}
<1> DEFINE n == Stamped(identity, m)
<1>1. n \in Messages /\ n.to = m.to /\ n.from \in Names
      /\ n.to \in Names \cup {ToAll, ToOrch} /\ Agents \subseteq Names
  BY StampedIs DEF Messages, Names, Identities
<1>2. \A name \in Identities : name \notin {ToAll, ToOrch}
  BY ConversationTypes DEF Identities, Orchestrator, ToAll, ToOrch
<1>3. CASE UNCHANGED bus
  BY <1>3 DEF bus, BusTypeOK
<1> HIDE DEF n
<1>4. CASE /\ n.to = ToAll /\ identity = Orchestrator
           /\ inboxes' = inboxes \cup (Agents \X {n}) /\ UNCHANGED outboxes
  BY <1>1, <1>2, <1>4 DEF BusTypeOK, n
<1>5. CASE n.to = ToOrch /\ outboxes' = outboxes \cup {<<n.from, n>>} /\ UNCHANGED inboxes
  BY <1>1, <1>2, <1>5 DEF BusTypeOK, n
<1>6. CASE /\ n.to \notin {ToAll, ToOrch} /\ inboxes' = inboxes \cup {<<n.to, n>>}
           /\ UNCHANGED outboxes
  BY <1>1, <1>2, <1>6 DEF BusTypeOK, n
<1> QED
  BY <1>3, <1>4, <1>5, <1>6 DEF Sends, Routed, n

LEMMA SendsEither ==
    ASSUME NEW a, NEW m, SendOk(a, m) \/ SendErr(a, m)
    PROVE  /\ Sends(a, m)
           /\ harmed' \subseteq harmed \cup {m.cause}
           /\ faults \in 0..MaxFaults => faults' \in 0..MaxFaults
<1>1. MaxFaults \in Nat
  BY ConversationBounds
<1>2. Sends(a, m)
  BY DEF SendOk, SendErr, Sends, Refused
<1>3. harmed' \subseteq harmed \cup {m.cause}
  BY DEF SendOk, SendErr, Harm
<1>4. faults \in 0..MaxFaults => faults' \in 0..MaxFaults
  BY <1>1 DEF SendOk, SendErr, Fault
<1> QED
  BY <1>2, <1>3, <1>4

LEMMA MadeOfUpdates ==
    ASSUME NEW u \in Updates, NEW n \in 1..(MaxFaults + 1)
    PROVE  LET m == ChannelMessage(u, n) IN
           /\ m \in Messages /\ m.id = <<u, n>> /\ m.cause = <<u, n>>
           /\ <<u, n>> \in Attempts /\ m.to = BotOf[u] /\ m.to \in Identities
           /\ m.type = "channel_message" /\ m.corr = None /\ m.session = SessionOf[u]
<1>1. <<u, n>> \in Attempts /\ SessionOf[u] \in Sessions /\ BotOf[u] \in Agents
  BY ConversationTypes DEF Attempts
<1>2. <<u, n>> \in Ids /\ <<u, n>> \in Causes /\ SessionOf[u] \in Names
      /\ BotOf[u] \in Names
  BY <1>1 DEF Ids, Causes, Names
<1> QED
  BY <1>1, <1>2 DEF ChannelMessage, Message, Messages, Identities, ChatTypes

LEMMA MadeOfPosts ==
    ASSUME NEW p \in Posts, NEW n \in 1..MaxPosted
    PROVE  LET m == Posted(p, n) IN
           /\ m \in Messages /\ p.at \in Agents
           /\ m.id = p.id /\ m.type = p.type /\ m.corr = p.corr
           /\ m.session = p.session /\ m.cause = <<"post", p, n>>
           /\ <<"post", p, n>> \in PostCauses
  BY ConversationTypes DEF Posted, Message, PostCauses

LEMMA MadeOfRequests ==
    ASSUME NEW i \in Requests
    PROVE  LET m == RequestMessage(i) IN
           /\ m \in Messages /\ m.id = i /\ m.cause = i /\ m.type = "p2p"
           /\ m.corr = None
<1>1. i \in Causes /\ i \in Ids /\ Asker[i] \in Names /\ Target[i] \in Names
  BY ConversationTypes DEF Causes, Ids, Names
<1> QED
  BY <1>1 DEF RequestMessage, Message, Messages

LEMMA MadeOfGroups ==
    ASSUME GroupTypeOK(MaxStarted), GroupInv, state = "busy"
    PROVE  LET m == GroupMessage IN
           /\ m \in Messages /\ m.id \in GroupIds /\ m.cause = m.id
           /\ m.from = Orchestrator /\ m.type = "system" /\ m.corr = None
<1>1. attempt \in 1..MaxStarted
  BY ConversationBounds DEF GroupTypeOK, GroupInv
<1>2. <<"group", attempt>> \in GroupIds
  BY <1>1 DEF GroupIds
<1>3. /\ <<"group", attempt>> \in Ids /\ <<"group", attempt>> \in Causes
      /\ Orchestrator \in Names
  BY <1>2 DEF Ids, Causes, Names
<1> QED
  BY <1>2, <1>3 DEF GroupMessage, Message, Messages, Privileged

\* A reply has a new id, and all the rest from the message.
LEMMA MadeOfMessages ==
    ASSUME NEW m \in Messages, Genuine(m), NEW a \in Agents,
           NEW type \in {"task_result", "channel_response"}
    PROVE  LET r == Reply(m, a, type) IN
           /\ r \in Messages /\ r.id \in ReplyIds /\ r.cause = m.cause
           /\ r.to = m.from /\ r.to \in Identities
           /\ r.type = type /\ r.corr \in {m.id, m.corr} /\ r.corr # None
           /\ r.session = m.session
<1>1. m.from \in Identities /\ m.from \in Names /\ a \in Names
  BY DEF Genuine, Identities, Names
<1>2. Origin(m) \in {m.id, m.corr} /\ Origin(m) \in Ids /\ Origin(m) # None
  BY FreshIds DEF Origin, Messages
<1>3. <<"re", m.cause, a>> \in ReplyIds /\ <<"re", m.cause, a>> \in Ids
      /\ m.cause \in Causes /\ m.session \in Sessions \cup {None}
  BY DEF ReplyIds, Ids, Messages
<1> QED
  BY <1>1, <1>2, <1>3 DEF Reply, ReplyTo, Message, Messages, ChatTypes

----------------------------------------------------------------------------
(* The steps                                                               *)

\* Of the handlers only the four below do more than to end, and of the other
\* steps only those listed touch an inbox.
Quiet == /\ UNCHANGED <<bus, worked, toCore, shown, tried, accepted, used, posted>>
         /\ running' \subseteq running /\ harmed \subseteq harmed'

GroupSends(a) ==
    /\ state = "busy"
    /\ SendOne(a) \/ SendOneLost(a)
    /\ inboxes' = inboxes \cup {<<a, GroupMessage>>}
    /\ UNCHANGED <<outboxes, conv, effects, harmed, posted>>

LEMMA StepKinds ==
    ASSUME TypeOK, [Next]_vars
    PROVE  \/ \E u \in Updates : Webhook(u)
           \/ \E m \in Commands : Command(m)
           \/ \E p \in Posts : Post(p)
           \/ \E i \in Requests : RequestSent(i) \/ RequestFails(i)
           \/ \E a \in Agents, m \in Messages :
                 \/ Deliver(a, m) \/ LoseEntry(a, m)
                 \/ HandleWork(a, m) \/ HandleChannelMessage(a, m)
                 \/ HandleChannelResponse(a, m) \/ HandleP2P(a, m)
           \/ \E a \in Agents : GroupSends(a)
           \/ Quiet
<1>1. /\ \A e \in inboxes : e[2] \in Messages
      /\ \A r \in running : r[1] \in Agents /\ r[2] \in Messages
  BY DEF TypeOK
<1>2. ASSUME NEW i \in Requests,
             RequestBegins(i) \/ RequestAccepted(i) \/ RequestAwaits(i)
      PROVE  Quiet
  BY <1>2 DEF RequestBegins, RequestAccepted, RequestAwaits, Quiet, conv, effects, budget
<1>3. ASSUME NEW e \in inboxes, Deliver(e[1], e[2]) \/ LoseEntry(e[1], e[2])
      PROVE  \E a \in Agents, m \in Messages : Deliver(a, m) \/ LoseEntry(a, m)
  BY <1>1, <1>3 DEF Deliver, LoseEntry
<1>4. ASSUME NEW a, NEW m, HandleShutdown(a, m) \/ HandleNothing(a, m) PROVE Quiet
  BY <1>4 DEF HandleShutdown, HandleNothing, Handles, HandlerEnds, Quiet, effects, budget
<1>5. ASSUME NEW a, ShutdownGoesOn(a) \/ Crash(a) PROVE Quiet
  BY <1>5 DEF ShutdownGoesOn, Crash, Harm, Quiet, effects, budget
<1>6. CASE GroupBegins \/ Move
  BY <1>6 DEF GroupBegins, Move, Quiet, conv, effects
<1>7. CASE GroupStep \/ GroupFails
  <2>1. CASE UNCHANGED bus
    BY <1>7, <2>1 DEF GroupStep, GroupFails, Quiet, conv, effects, budget
  <2>2. ASSUME NEW a \in Agents, SendOne(a) \/ SendOneLost(a),
               inboxes' = inboxes \cup {<<a, GroupMessage>>}, UNCHANGED outboxes
        PROVE  GroupSends(a)
    BY <1>7, <2>2 DEF GroupStep, GroupFails, GroupSends, SendOne, SendOneLost, budget
  <2> QED
    BY <1>7, <2>1, <2>2 DEF GroupStep, GroupGoesOn, GroupFails
<1>8. CASE UNCHANGED vars
  BY <1>8 DEF vars, Quiet, conv, effects, budget
<1> QED
  BY <1>1, <1>2, <1>3, <1>4, <1>5, <1>6, <1>7, <1>8
  DEF Next, Stimulus, AgentStep, Handle

\* The requests take part in a step as Correlation says, or not at all.
LEMMA StepsOfRequests ==
    ASSUME TypeOK, [Next]_vars
    PROVE  CorrStep
<1>1. /\ \A r \in running : r[2] \in Messages
      /\ registry \subseteq Requests
  BY DEF TypeOK, CorrTypeOK
<1>2. CASE UNCHANGED corrVars
  BY <1>2 DEF CorrStep
<1>3. ASSUME NEW i \in Requests,
             RequestBegins(i) \/ RequestAccepted(i) \/ RequestAwaits(i) \/ RequestSent(i)
             \/ RequestFails(i)
      PROVE  CorrStep
  BY <1>3 DEF CorrStep, RequestBegins, RequestAccepted, RequestAwaits, RequestSent,
     RequestFails
<1>4. ASSUME NEW r \in running, HandleP2P(r[1], r[2]) PROVE CorrStep
  <2>1. r[2].cause \in Causes
    BY <1>1 DEF Messages
  <2>2. CASE \E i \in registry : Resolve(i, r[2].cause)
    BY <1>1, <2>1, <2>2 DEF CorrStep
  <2> QED
    BY <1>2, <1>4, <2>2 DEF HandleP2P
<1>5. ASSUME NEW a \in Agents, Crash(a) PROVE CorrStep
  BY <1>5 DEF Crash, CorrStep
<1> QED
  BY <1>2, <1>3, <1>4, <1>5
  DEF Next, Stimulus, AgentStep, Handle, vars, Webhook, Command, Post, GroupBegins, Deliver,
      HandleWork, HandleChannelMessage, HandleChannelResponse, HandleShutdown,
      HandleNothing, ShutdownGoesOn, GroupStep, GroupFails, Move, LoseEntry

\* So do the members and the attempts of the group broadcast.
LEMMA StepsOfGroup ==
    ASSUME TypeOK, GroupInv, attempt <= started, [Next]_vars
    PROVE  /\ GroupTypeOK(MaxStarted)' /\ GroupInv'
           /\ attempt' <= started' /\ started' \in 0..MaxStarted
<1>1. /\ MaxStarted \in Nat /\ started \in 0..MaxStarted /\ GroupTypeOK(MaxStarted)
      /\ attempt \in 0..MaxStarted
  BY ConversationBounds DEF TypeOK, GroupTypeOK
<1>2. ASSUME UNCHANGED groupVars, UNCHANGED started \/ Starts
      PROVE  /\ GroupTypeOK(MaxStarted)' /\ GroupInv'
             /\ attempt' <= started' /\ started' \in 0..MaxStarted
  <2>1. attempt' = attempt /\ started \in Nat /\ started' \in 0..MaxStarted
        /\ started <= started'
    BY <1>1, <1>2 DEF groupVars, attemptVars, Starts
  <2> QED
    BY <1>1, <1>2, <2>1
    DEF groupVars, membership, attemptVars, GroupTypeOK, GroupInv
<1>3. ASSUME AttemptStep
             \/ \E a \in Agents : MemberStep(a) /\ (JoinGroup(a) => state = "busy"),
             UNCHANGED started
      PROVE  /\ GroupTypeOK(MaxStarted)' /\ GroupInv'
             /\ attempt' <= started' /\ started' \in 0..MaxStarted
  <2>1. GroupTypeOK(MaxStarted)' /\ GroupInv' /\ attempt' = attempt
    BY <1>1, <1>3, AttemptMoves, MembersMove
  <2> QED
    BY <1>1, <1>3, <2>1
<1>4. CASE GroupBegins
  <2>1. started < MaxStarted /\ started' = started + 1
    BY <1>4 DEF GroupBegins, Starts
  <2>2. attempt + 1 <= MaxStarted
    BY <1>1, <2>1
  <2>3. GroupTypeOK(MaxStarted)' /\ GroupInv' /\ attempt' = attempt + 1
    BY <1>1, <1>4, <2>2, BroadcastBegins DEF GroupBegins
  <2> QED
    BY <1>1, <2>1, <2>3
<1>5. CASE GroupStep \/ GroupFails
  BY <1>3, <1>5 DEF GroupStep, GroupGoesOn, GroupFails, AttemptStep, budget
<1>6. CASE Move
  BY <1>3, <1>6 DEF Move, MemberStep
<1>7. ASSUME NEW a \in Agents, ShutdownGoesOn(a) PROVE MemberStep(a) /\ UNCHANGED started
  BY <1>7 DEF ShutdownGoesOn, MemberStep, budget
<1>8. ASSUME NEW r \in running, HandleShutdown(r[1], r[2])
      PROVE  MemberStep(r[1]) /\ r[1] \in Agents /\ UNCHANGED started
  BY <1>8 DEF HandleShutdown, Handles, MemberStep, TypeOK
<1>9. ASSUME NEW a \in Agents, ShutdownGoesOn(a) \/ Strike(a)
      PROVE  JoinGroup(a) => state = "busy"
  <2>1. wasIn' = wasIn /\ ingroup' \subseteq ingroup
    BY <1>9 DEF ShutdownGoesOn, QuitGroup, Strike
  <2> QED
    BY <2>1 DEF JoinGroup
<1>10. ASSUME NEW r \in running, HandleShutdown(r[1], r[2])
       PROVE  JoinGroup(r[1]) => state = "busy"
  BY <1>8, <1>9, <1>10 DEF HandleShutdown
<1>11. ASSUME NEW u \in Updates, Webhook(u)
       PROVE  UNCHANGED groupVars /\ (UNCHANGED started \/ Starts)
  BY <1>11 DEF Webhook
<1>12. ASSUME NEW p \in Posts, Post(p)
       PROVE  UNCHANGED groupVars /\ (UNCHANGED started \/ Starts)
  BY <1>12 DEF Post
<1>13. ASSUME NEW i \in Requests,
              \/ RequestBegins(i) \/ RequestSent(i) \/ RequestFails(i)
              \/ RequestAccepted(i) \/ RequestAwaits(i)
       PROVE  UNCHANGED groupVars /\ (UNCHANGED started \/ Starts)
  BY <1>13 DEF RequestBegins, RequestSent, RequestFails, RequestAccepted, RequestAwaits,
     budget
<1>14. ASSUME NEW a, NEW m,
              \/ Deliver(a, m) \/ LoseEntry(a, m) \/ HandleWork(a, m)
              \/ HandleChannelMessage(a, m) \/ HandleChannelResponse(a, m)
              \/ HandleP2P(a, m) \/ HandleNothing(a, m) \/ Command(m) \/ Crash(a)
       PROVE  UNCHANGED groupVars /\ (UNCHANGED started \/ Starts)
  BY <1>14 DEF Deliver, LoseEntry, HandleWork, HandleChannelMessage, HandleChannelResponse,
     HandleP2P, HandleNothing, Handles, Command, Crash, budget
<1>15. CASE UNCHANGED vars
  BY <1>2, <1>15 DEF vars, budget
<1>16. ASSUME NEW r \in running, Handle(r[1], r[2])
       PROVE  \/ HandleShutdown(r[1], r[2])
              \/ UNCHANGED groupVars /\ (UNCHANGED started \/ Starts)
  BY <1>14, <1>16 DEF Handle
<1> QED
  BY <1>2, <1>3, <1>4, <1>5, <1>6, <1>7, <1>8, <1>9, <1>10, <1>11, <1>12, <1>13,
     <1>14, <1>15, <1>16
  DEF Next, Stimulus, AgentStep

----------------------------------------------------------------------------
(* Type correctness                                                        *)

\* The part of TypeOK that is about Conversations' own variables and the bus.
ConvTypeOK ==
    /\ BusTypeOK
    /\ tried \in [Updates -> 0..(MaxFaults + 1)]
    /\ accepted \subseteq Attempts
    /\ used \subseteq Commands
    /\ running \subseteq Agents \X Messages
    /\ leaving \subseteq Agents
    /\ worked \subseteq Agents \X Messages /\ toCore \subseteq Agents \X Messages
    /\ DOMAIN shown = Causes \X Sessions
    /\ \A k \in DOMAIN shown : shown[k] \in Nat
    /\ harmed \subseteq Causes
    /\ posted \in 0..MaxPosted /\ faults \in 0..MaxFaults /\ moves \in 0..MaxMoves

LEMMA TypeParts ==
    TypeOK <=> /\ ConvTypeOK /\ CorrTypeOK(Causes) /\ GroupTypeOK(MaxStarted)
               /\ started \in 0..MaxStarted
  BY DEF TypeOK, ConvTypeOK, BusTypeOK

\* Steps that send.
LEMMA SendTypes ==
    ASSUME ConvTypeOK, NEW a \in Identities, NEW m \in Messages,
           SendOk(a, m) \/ SendErr(a, m)
    PROVE  BusTypeOK' /\ harmed' \subseteq Causes /\ faults' \in 0..MaxFaults
<1>1. /\ Sends(a, m)
      /\ harmed' \subseteq harmed \cup {m.cause}
      /\ faults' \in 0..MaxFaults
  BY SendsEither DEF ConvTypeOK
<1>2. BusTypeOK'
  BY <1>1, SendsOne DEF ConvTypeOK
<1>3. m.cause \in Causes
  BY DEF Messages
<1> QED
  BY <1>1, <1>2, <1>3 DEF ConvTypeOK

LEMMA FaultTypes ==
    ASSUME ConvTypeOK, Fault
    PROVE  faults' \in 0..MaxFaults
  BY ConversationBounds DEF ConvTypeOK, Fault

LEMMA StimulusTypes ==
    ASSUME TypeOK, ConvTypeOK, Stimulus
    PROVE  ConvTypeOK'
<1>1. ASSUME NEW u \in Updates, Webhook(u) PROVE ConvTypeOK'
  <2> DEFINE n == tried[u] + 1
             m == ChannelMessage(u, n)
  <2>1. n \in 1..(MaxFaults + 1)
    BY <1>1, ConversationBounds DEF Webhook, ConvTypeOK
  <2>2. m \in Messages /\ <<u, n>> \in Attempts /\ BotOf[u] \in Identities
    BY <2>1, MadeOfUpdates
  <2>3. SendOk(BotOf[u], m) \/ SendErr(BotOf[u], m)
    BY <1>1 DEF Webhook
  <2>4. BusTypeOK' /\ harmed' \subseteq Causes /\ faults' \in 0..MaxFaults
    <3> HIDE DEF m, n
    <3> QED
      BY <2>2, <2>3, SendTypes
  <2>5. accepted' \subseteq Attempts /\ tried' = [tried EXCEPT ![u] = n]
    BY <1>1, <2>2 DEF Webhook, Answers200, ConvTypeOK
  <2>6. UNCHANGED <<used, running, leaving, effects, posted, moves>>
    BY <1>1 DEF Webhook
  <2> QED
    BY <2>1, <2>4, <2>5, <2>6 DEF ConvTypeOK, effects
<1>2. ASSUME NEW m \in Commands, Command(m) PROVE ConvTypeOK'
  <2>1. m \in Messages /\ Orchestrator \in Identities
    BY ConversationTypes DEF Identities
  <2>2. BusTypeOK'
    BY <1>2, <2>1, SendsOne DEF Command, Sends, ConvTypeOK
  <2> QED
    BY <1>2, <2>2 DEF Command, ConvTypeOK, effects
<1>3. ASSUME NEW p \in Posts, Post(p) PROVE ConvTypeOK'
  <2> DEFINE n == posted + 1
             m == Posted(p, n)
  <2>1. n \in 1..MaxPosted /\ posted' = n /\ posted' \in 0..MaxPosted
    BY <1>3, ConversationBounds DEF Post, ConvTypeOK
  <2>2. m \in Messages /\ p.at \in Identities
    BY <2>1, MadeOfPosts DEF Identities
  <2>3. SendOk(p.at, m) \/ SendErr(p.at, m)
    BY <1>3 DEF Post
  <2>4. BusTypeOK' /\ harmed' \subseteq Causes /\ faults' \in 0..MaxFaults
    <3> HIDE DEF m, n
    <3> QED
      BY <2>2, <2>3, SendTypes
  <2>5. UNCHANGED <<conv, effects, moves>>
    BY <1>3 DEF Post
  <2> QED
    BY <2>1, <2>4, <2>5 DEF ConvTypeOK, conv, effects
<1>4. ASSUME NEW i \in Requests, RequestBegins(i) PROVE ConvTypeOK'
  BY <1>4 DEF RequestBegins, ConvTypeOK, BusTypeOK, bus, conv, effects
<1>5. CASE GroupBegins
  BY <1>5 DEF GroupBegins, ConvTypeOK, BusTypeOK, bus, conv, effects
<1> QED
  BY <1>1, <1>2, <1>3, <1>4, <1>5 DEF Stimulus

LEMMA HandlerTypes ==
    ASSUME ConvTypeOK, GenuineInv, NEW a \in Agents, NEW m \in Messages, Handle(a, m)
    PROVE  ConvTypeOK'
<1>1. /\ <<a, m>> \in running /\ running' \subseteq running
      /\ UNCHANGED <<tried, accepted, used, posted, moves>>
  BY DEF Handle, HandleWork, HandleChannelMessage, HandleChannelResponse, HandleP2P,
     HandleShutdown, HandleNothing, Handles, Answers, ShowFails, HandlerEnds, budget
<1>2. Genuine(m) /\ m.cause \in Causes
  BY <1>1 DEF GenuineInv, Messages
<1>3. ASSUME NEW type \in {"task_result", "channel_response"}, Answers(a, m, type)
      PROVE  BusTypeOK' /\ harmed' \subseteq Causes /\ faults' \in 0..MaxFaults
  <2> DEFINE r == Reply(m, a, type)
  <2>1. r \in Messages /\ a \in Identities
    BY <1>2, MadeOfMessages DEF Identities
  <2>2. SendOk(a, r) \/ SendErr(a, r)
    BY <1>3 DEF Answers
  <2> HIDE DEF r
  <2> QED
    BY <2>1, <2>2, SendTypes
<1>4. CASE HandleWork(a, m)
  <2>1. BusTypeOK' /\ harmed' \subseteq Causes /\ faults' \in 0..MaxFaults
    BY <1>3, <1>4 DEF HandleWork
  <2> QED
    BY <1>1, <1>4, <2>1 DEF HandleWork, ConvTypeOK
<1>5. CASE HandleChannelMessage(a, m)
  <2>1. BusTypeOK' /\ harmed' \subseteq Causes /\ faults' \in 0..MaxFaults
    BY <1>3, <1>5 DEF HandleChannelMessage
  <2> QED
    BY <1>1, <1>5, <2>1 DEF HandleChannelMessage, ConvTypeOK, effects
<1>6. CASE HandleChannelResponse(a, m)
  <2>1. DOMAIN shown' = DOMAIN shown /\ \A k \in DOMAIN shown' : shown'[k] \in Nat
    BY <1>6 DEF HandleChannelResponse, ShowFails, ShownOnce, ConvTypeOK
  <2>2. harmed' \subseteq Causes
    BY <1>2, <1>6 DEF HandleChannelResponse, ShowFails, Harm, ConvTypeOK
  <2>3. faults' \in 0..MaxFaults
    BY <1>6, FaultTypes DEF HandleChannelResponse, ShowFails, ConvTypeOK
  <2> QED
    BY <1>1, <1>6, <2>1, <2>2, <2>3
    DEF HandleChannelResponse, ConvTypeOK, BusTypeOK, bus
<1>7. CASE HandleP2P(a, m)
  BY <1>1, <1>7 DEF HandleP2P, ConvTypeOK, BusTypeOK, bus
<1>8. CASE HandleShutdown(a, m)
  BY <1>1, <1>8 DEF HandleShutdown, ConvTypeOK, BusTypeOK, bus, effects
<1>9. CASE HandleNothing(a, m)
  BY <1>1, <1>9 DEF HandleNothing, ConvTypeOK, BusTypeOK, bus, effects, budget
<1> QED
  BY <1>4, <1>5, <1>6, <1>7, <1>8, <1>9 DEF Handle

LEMMA TypeStep ==
    ASSUME TypeOK, GroupInv, GenuineInv, attempt <= started, CorrInv, [Next]_vars
    PROVE  TypeOK'
<1>1. CorrTypeOK(Causes)' /\ GroupTypeOK(MaxStarted)' /\ started' \in 0..MaxStarted
  BY StepsOfRequests, CorrKeeps, StepsOfGroup, TypeParts
<1> SUFFICES ConvTypeOK'
  BY <1>1 DEF TypeOK, ConvTypeOK, BusTypeOK
<1>2. ConvTypeOK
  BY TypeParts
<1>3. ASSUME NEW a, NEW m, <<a, m>> \in inboxes, a \in Agents
      PROVE  m \in Messages /\ m.cause \in Causes
  BY <1>2, <1>3 DEF ConvTypeOK, BusTypeOK, Messages
<1>4. ASSUME NEW a, NEW m, Deliver(a, m) PROVE ConvTypeOK'
  BY <1>2, <1>3, <1>4 DEF Deliver, ConvTypeOK, BusTypeOK, effects, budget
<1>5. ASSUME NEW a, NEW m, LoseEntry(a, m) PROVE ConvTypeOK'
  <2>1. faults' \in 0..MaxFaults
    BY <1>2, <1>5, FaultTypes DEF LoseEntry
  <2> QED
    BY <1>2, <1>3, <1>5, <2>1 DEF LoseEntry, Harm, ConvTypeOK, BusTypeOK, conv, effects
<1>6. ASSUME NEW r \in running, Handle(r[1], r[2]) PROVE ConvTypeOK'
  BY <1>2, <1>6, HandlerTypes DEF ConvTypeOK
<1>7. ASSUME NEW a, ShutdownGoesOn(a) PROVE ConvTypeOK'
  BY <1>2, <1>7 DEF ShutdownGoesOn, ConvTypeOK, BusTypeOK, bus, effects, budget
<1>8. ASSUME NEW i \in Requests, RequestSent(i) PROVE ConvTypeOK'
  <2>1. RequestMessage(i) \in Messages /\ Asker[i] \in Identities
    BY MadeOfRequests, ConversationTypes DEF Identities
  <2>2. BusTypeOK'
    BY <1>2, <1>8, <2>1, SendsOne DEF RequestSent, Sends, ConvTypeOK
  <2> QED
    BY <1>2, <1>8, <2>2 DEF RequestSent, ConvTypeOK, conv, effects, budget
<1>9. ASSUME NEW i \in Requests, RequestFails(i) PROVE ConvTypeOK'
  <2>1. RequestMessage(i) \in Messages /\ Asker[i] \in Identities
    BY MadeOfRequests, ConversationTypes DEF Identities
  <2>2. CASE SendErr(Asker[i], RequestMessage(i))
    <3>1. BusTypeOK' /\ harmed' \subseteq Causes /\ faults' \in 0..MaxFaults
      BY <1>2, <2>1, <2>2, SendTypes
    <3> QED
      BY <1>2, <1>9, <3>1 DEF RequestFails, ConvTypeOK, conv, effects
  <2>3. CASE Fault /\ UNCHANGED <<bus, harmed>>
    <3>1. faults' \in 0..MaxFaults
      BY <1>2, <2>3, FaultTypes
    <3> QED
      BY <1>2, <1>9, <2>3, <3>1 DEF RequestFails, ConvTypeOK, BusTypeOK, bus, conv, effects
  <2> QED
    BY <1>9, <2>2, <2>3 DEF RequestFails
<1>10. ASSUME NEW i \in Requests, RequestAccepted(i) \/ RequestAwaits(i) PROVE ConvTypeOK'
  BY <1>2, <1>10
  DEF RequestAccepted, RequestAwaits, ConvTypeOK, BusTypeOK, bus, conv, effects, budget
<1>11. CASE GroupStep \/ GroupFails
  <2>1. UNCHANGED <<conv, effects, harmed, posted, moves>> /\ faults' \in 0..MaxFaults
    BY <1>2, <1>11, FaultTypes DEF GroupStep, GroupFails, budget, ConvTypeOK
  <2>2. BusTypeOK'
    <3>1. CASE UNCHANGED bus
      BY <1>2, <3>1 DEF ConvTypeOK, BusTypeOK, bus
    <3>2. CASE state = "busy" /\ UNCHANGED outboxes
               /\ \E a \in Agents : inboxes' = inboxes \cup {<<a, GroupMessage>>}
      <4>1. GroupMessage \in Messages /\ Agents \subseteq Names
        BY <3>2, MadeOfGroups, TypeParts DEF Names
      <4> QED
        BY <1>2, <3>2, <4>1 DEF ConvTypeOK, BusTypeOK
    <3> QED
      BY <1>11, <3>1, <3>2 DEF GroupStep, GroupGoesOn, GroupFails, SendOne, SendOneLost
  <2> QED
    BY <1>2, <2>1, <2>2 DEF ConvTypeOK, conv, effects
<1>12. CASE Move
  BY <1>2, <1>12, ConversationBounds
  DEF Move, ConvTypeOK, BusTypeOK, bus, conv, effects
<1>13. ASSUME NEW a \in Agents, Crash(a) PROVE ConvTypeOK'
  <2>1. \A r \in running : r[2].cause \in Causes
    BY <1>2 DEF ConvTypeOK, Messages
  <2>2. faults' \in 0..MaxFaults
    BY <1>2, <1>13, FaultTypes DEF Crash
  <2>3. harmed' \subseteq Causes
    BY <1>2, <1>13, <2>1 DEF Crash, Harm, ConvTypeOK
  <2> QED
    BY <1>2, <1>13, <2>2, <2>3 DEF Crash, ConvTypeOK, BusTypeOK, bus, effects
<1>14. CASE Stimulus
  BY <1>2, <1>14, StimulusTypes
<1>15. CASE UNCHANGED vars
  BY <1>2, <1>15 DEF vars, ConvTypeOK, BusTypeOK, bus, conv, effects, budget
<1> QED
  BY <1>4, <1>5, <1>6, <1>7, <1>8, <1>9, <1>10, <1>11, <1>12, <1>13, <1>14, <1>15
  DEF Next, AgentStep

----------------------------------------------------------------------------
(* What a message says of itself is true                                   *)

\* Ids and causes of different kinds do not meet.
LEMMA KindsDiffer ==
    /\ None \notin Requests
    /\ \A k \in Attempts : k \notin PostCauses \cup Requests
    /\ \A k \in PostCauses : k \notin Attempts
    /\ \A k \in CommandIds \cup GroupIds \cup Requests :
          k \notin Attempts \cup PostCauses
    /\ \A k \in CommandIds \cup GroupIds \cup ReplyIds : k \notin Requests
  BY FreshIds DEF Ids

\* A step takes back nothing of what a message relies on.
LEMMA StepsGoForward ==
    ASSUME TypeOK, CorrInv, [Next]_vars
    PROVE  /\ used \subseteq used' /\ accepted \subseteq accepted'
           /\ harmed \subseteq harmed'
           /\ posted \in Nat /\ posted' \in Nat /\ posted <= posted'
           /\ \A u \in Updates :
                 tried[u] \in Nat /\ tried'[u] \in Nat /\ tried[u] <= tried'[u]
           /\ \A i \in Requests : waiter[i] # "idle" => waiter'[i] # "idle"
           /\ \A i \in Requests : Settled(i) => Settled(i)'
<1>1. /\ \A i \in Requests : waiter[i] # "idle" => waiter'[i] # "idle"
      /\ \A i \in Requests : Settled(i) => Settled(i)'
  BY StepsOfRequests, CorrKeeps, TypeParts
<1>2. /\ used \subseteq used' /\ accepted \subseteq accepted'
      /\ UNCHANGED posted \/ \E p \in Posts : Post(p)
      /\ UNCHANGED tried \/ \E u \in Updates : Webhook(u)
  BY StepKinds
  DEF Webhook, Answers200, Command, Post, RequestSent, RequestFails, Deliver, LoseEntry,
      HandleWork, HandleChannelMessage, HandleChannelResponse, HandleP2P, Handles,
      GroupSends, Quiet, conv, budget
<1>3. harmed \subseteq harmed'
  <2>1. ASSUME NEW a, NEW m, SendOk(a, m) \/ SendErr(a, m) PROVE harmed \subseteq harmed'
    BY <2>1 DEF SendOk, SendErr, Harm
  <2>2. ASSUME NEW a, NEW m,
               \/ Deliver(a, m) \/ LoseEntry(a, m) \/ HandleWork(a, m)
               \/ HandleChannelMessage(a, m) \/ HandleChannelResponse(a, m)
               \/ HandleP2P(a, m) \/ Command(m)
        PROVE  harmed \subseteq harmed'
    BY <2>1, <2>2
    DEF Deliver, LoseEntry, HandleWork, HandleChannelMessage, HandleChannelResponse,
        HandleP2P, Answers, ShowFails, Command, Harm
  <2>3. ASSUME NEW u \in Updates, Webhook(u) PROVE harmed \subseteq harmed'
    BY <2>1, <2>3 DEF Webhook
  <2>4. ASSUME NEW p \in Posts, Post(p) PROVE harmed \subseteq harmed'
    BY <2>1, <2>4 DEF Post
  <2>5. ASSUME NEW i \in Requests, RequestSent(i) \/ RequestFails(i)
        PROVE  harmed \subseteq harmed'
    BY <2>1, <2>5 DEF RequestSent, RequestFails
  <2> QED
    BY <2>2, <2>3, <2>4, <2>5, StepKinds DEF GroupSends, Quiet
<1>4. posted \in Nat /\ \A u \in Updates : tried[u] \in Nat
  BY ConversationBounds DEF TypeOK
<1>5. ASSUME NEW u \in Updates, Webhook(u)
      PROVE  /\ tried' = [tried EXCEPT ![u] = tried[u] + 1]
             /\ tried \in [Updates -> 0..(MaxFaults + 1)]
  BY <1>5 DEF Webhook, TypeOK
<1>6. ASSUME NEW p \in Posts, Post(p) PROVE posted' = posted + 1
  BY <1>6 DEF Post
<1>7. \A u \in Updates : tried'[u] \in Nat /\ tried[u] <= tried'[u]
  BY <1>2, <1>4, <1>5
<1>8. posted' \in Nat /\ posted <= posted'
  BY <1>2, <1>4, <1>6
<1> QED
  BY <1>1, <1>2, <1>3, <1>4, <1>7, <1>8

LEMMA BelongsStays ==
    ASSUME TypeOK, CorrInv, [Next]_vars, NEW k, NEW s, BelongsIn(k, s)
    PROVE  BelongsIn(k, s)'
<1>1. /\ posted \in Nat /\ posted' \in Nat /\ posted <= posted'
      /\ \A u \in Updates : tried[u] \in Nat /\ tried'[u] \in Nat /\ tried[u] <= tried'[u]
  BY StepsGoForward
<1>2. /\ k \in Attempts => k[1] \in Updates /\ k[2] \in Nat
      /\ k \in PostCauses => k[3] \in Nat
  BY DEF Attempts, PostCauses
<1>3. CASE k \in Attempts /\ k[2] <= tried[k[1]] /\ s = SessionOf[k[1]]
  <2>1. k[2] <= tried'[k[1]]
    BY <1>1, <1>2, <1>3
  <2> QED
    BY <1>3, <2>1 DEF BelongsIn
<1>4. CASE /\ k \in PostCauses /\ k[3] <= posted
           /\ k[2].type \in ChatTypes /\ s = k[2].session
  <2>1. k[3] <= posted'
    BY <1>1, <1>2, <1>4
  <2> QED
    BY <1>4, <2>1 DEF BelongsIn
<1> QED
  BY <1>3, <1>4 DEF BelongsIn

LEMMA GenuineStays ==
    ASSUME TypeOK, CorrInv, [Next]_vars, NEW m \in Messages, Genuine(m)
    PROVE  Genuine(m)'
<1>1. /\ used \subseteq used'
      /\ posted \in Nat /\ posted' \in Nat /\ posted <= posted'
      /\ \A i \in Requests : waiter[i] # "idle" => waiter'[i] # "idle"
  BY StepsGoForward
<1>2. m.type \in ChatTypes => BelongsIn(m.cause, m.session)'
  BY BelongsStays DEF Genuine
<1>3. m.cause \in PostCauses => m.cause[3] <= posted'
  <2>1. \A k \in PostCauses : k[3] \in Nat
    BY DEF PostCauses
  <2> QED
    BY <1>1, <2>1 DEF Genuine
<1> QED
  BY <1>1, <1>2, <1>3 DEF Genuine

\* The messages that enter the system.
LEMMA GenuineUpdate ==
    ASSUME TypeOK, NEW u \in Updates, Webhook(u),
           NEW m, m = ChannelMessage(u, tried[u] + 1), NEW n, n = Stamped(BotOf[u], m)
    PROVE  /\ m \in Messages /\ m.cause = <<u, tried[u] + 1>> /\ m.cause \in Attempts
           /\ BotOf[u] \in Agents /\ Sends(BotOf[u], m)
           /\ n \in Messages /\ Genuine(n)'
<1>1. tried[u] + 1 \in 1..(MaxFaults + 1) /\ tried'[u] = tried[u] + 1
  BY ConversationBounds DEF Webhook, TypeOK
<1>2. /\ m \in Messages /\ m.id = <<u, tried[u] + 1>> /\ m.cause = <<u, tried[u] + 1>>
      /\ m.cause \in Attempts /\ BotOf[u] \in Agents /\ BotOf[u] \in Identities
      /\ m.type = "channel_message" /\ m.corr = None /\ m.session = SessionOf[u]
  BY <1>1, MadeOfUpdates, ConversationTypes DEF Identities
<1>3. Sends(BotOf[u], m)
  BY SendsEither DEF Webhook
<1>4. /\ n \in Messages /\ n.from = BotOf[u] /\ n.id = m.id /\ n.type = m.type
      /\ n.corr = None /\ n.session = SessionOf[u] /\ n.cause = m.cause
  BY <1>2, StampedIs
<1>5. /\ n.from \in Agents /\ n.from # Orchestrator
      /\ n.cause \notin PostCauses /\ Requests \cap {n.id, n.corr} = {}
  BY <1>2, <1>4, KindsDiffer, ConversationTypes
<1>6. BelongsIn(n.cause, n.session)'
  <2>1. n.cause[1] = u /\ n.cause[2] = tried[u] + 1
    BY <1>2, <1>4
  <2>2. n.cause \in Attempts /\ n.cause[2] <= tried'[n.cause[1]]
        /\ n.session = SessionOf[n.cause[1]]
    BY <1>1, <1>2, <1>4, <2>1
  <2> QED
    BY <2>2 DEF BelongsIn
<1>7. Genuine(n)'
  BY <1>2, <1>4, <1>5, <1>6 DEF Genuine, ChatTypes
<1> QED
  BY <1>2, <1>3, <1>4, <1>7

LEMMA GenuineCommand ==
    ASSUME TypeOK, NEW m \in Commands, Command(m), NEW n, n = Stamped(Orchestrator, m)
    PROVE  /\ m \in Messages /\ Sends(Orchestrator, m) /\ Orchestrator \in Identities
           /\ m.cause \notin Attempts \cup PostCauses
           /\ n \in Messages /\ Genuine(n)'
<1>1. /\ m \in Messages /\ m.id \in CommandIds /\ m.cause = m.id /\ m.corr = None
      /\ m.from = Orchestrator /\ m.type \in Privileged /\ m \in used'
      /\ Orchestrator \in Identities /\ Sends(Orchestrator, m)
  BY ConversationTypes DEF Identities, CommandIds, Command, Sends
<1>2. n = m
  BY <1>1 DEF Stamped, Messages
<1>3. m.cause \notin Attempts \cup PostCauses /\ Requests \cap {m.id, m.corr} = {}
  BY <1>1, KindsDiffer
<1>4. m.type \notin ChatTypes
  BY <1>1 DEF Privileged, ChatTypes
<1>5. Genuine(n)'
  BY <1>1, <1>2, <1>3, <1>4 DEF Genuine
<1> QED
  BY <1>1, <1>2, <1>3, <1>5

LEMMA GenuinePost ==
    ASSUME TypeOK, NEW p \in Posts, Post(p),
           NEW m, m = Posted(p, posted + 1), NEW n, n = Stamped(p.at, m)
    PROVE  /\ m \in Messages /\ m.cause = <<"post", p, posted + 1>>
           /\ m.cause \in PostCauses /\ p.at \in Agents /\ Sends(p.at, m)
           /\ n \in Messages /\ Genuine(n)'
<1>1. posted + 1 \in 1..MaxPosted /\ posted' = posted + 1
  BY ConversationBounds DEF Post, TypeOK
<1>2. /\ m \in Messages /\ p.at \in Agents /\ p.at \in Identities
      /\ m.id = p.id /\ m.type = p.type /\ m.corr = p.corr /\ m.session = p.session
      /\ m.cause = <<"post", p, posted + 1>> /\ m.cause \in PostCauses
  BY <1>1, MadeOfPosts DEF Identities
<1>3. Sends(p.at, m)
  BY SendsEither DEF Post
<1>4. /\ n \in Messages /\ n.from = p.at /\ n.id = m.id /\ n.type = m.type
      /\ n.corr = m.corr /\ n.session = m.session /\ n.cause = m.cause
  BY <1>2, StampedIs
<1>5. n.cause \notin Attempts /\ n.from # Orchestrator
  BY <1>2, <1>4, KindsDiffer, ConversationTypes
<1>6. \A i \in Requests \cap {n.id, n.corr} : waiter'[i] # "idle"
  BY <1>2, <1>4 DEF Post, corrVars
<1>7. /\ n.cause[2] = p /\ n.cause[3] = posted + 1 /\ n.cause[3] <= posted'
  BY <1>1, <1>2, <1>4, ConversationBounds DEF TypeOK
<1>8. n.type \in ChatTypes => BelongsIn(n.cause, n.session)'
  BY <1>2, <1>4, <1>7 DEF BelongsIn
<1>9. Genuine(n)'
  BY <1>2, <1>4, <1>5, <1>6, <1>7, <1>8 DEF Genuine
<1> QED
  BY <1>2, <1>3, <1>4, <1>9

LEMMA GenuineRequest ==
    ASSUME TypeOK, NEW i \in Requests, RequestSent(i) \/ RequestFails(i),
           NEW m, m = RequestMessage(i), NEW n, n = Stamped(Asker[i], m)
    PROVE  /\ m \in Messages /\ Sends(Asker[i], m) /\ Asker[i] \in Agents
           /\ m.cause \notin Attempts \cup PostCauses
           /\ n \in Messages /\ Genuine(n)'
<1>1. /\ m \in Messages /\ m.id = i /\ m.cause = i /\ m.type = "p2p" /\ m.corr = None
      /\ Asker[i] \in Agents /\ Asker[i] \in Identities
  BY MadeOfRequests, ConversationTypes DEF Identities
<1>2. Sends(Asker[i], m)
  BY SendsEither DEF RequestSent, RequestFails, Sends
<1>3. /\ n \in Messages /\ n.from = Asker[i] /\ n.id = i /\ n.type = "p2p"
      /\ n.corr = None /\ n.cause = i
  BY <1>1, StampedIs
<1>4. waiter'[i] # "idle"
  BY DEF RequestSent, RequestFails, RequestRouted, SendFailed, Goes, TypeOK, CorrTypeOK
<1>5. i \notin Attempts \cup PostCauses /\ None \notin Requests
  BY KindsDiffer
<1>6. Genuine(n)'
  BY <1>1, <1>3, <1>4, <1>5 DEF Genuine, ChatTypes
<1> QED
  BY <1>1, <1>2, <1>3, <1>5, <1>6

LEMMA GenuineGroup ==
    ASSUME TypeOK, GroupInv, NEW a \in Agents, GroupSends(a), NEW n, n = GroupMessage
    PROVE  /\ n.cause \notin Attempts \cup PostCauses
           /\ n \in Messages /\ Genuine(n)'
<1>1. /\ n \in Messages /\ n.id \in GroupIds /\ n.cause = n.id
      /\ n.from = Orchestrator /\ n.type = "system" /\ n.corr = None
  BY MadeOfGroups, TypeParts DEF GroupSends
<1>2. n.cause \notin Attempts \cup PostCauses /\ Requests \cap {n.id, n.corr} = {}
  BY <1>1, KindsDiffer
<1>3. Genuine(n)'
  BY <1>1, <1>2 DEF Genuine, ChatTypes
<1> QED
  BY <1>1, <1>2, <1>3

\* An answer is as genuine as what it answers.
LEMMA GenuineReply ==
    ASSUME TypeOK, CorrInv, [Next]_vars, NEW a \in Agents, NEW m \in Messages, Genuine(m),
           NEW type,
           \/ HandleWork(a, m) /\ type = "task_result"
           \/ HandleChannelMessage(a, m) /\ type = "channel_response",
           NEW r, r = Reply(m, a, type), NEW n, n = Stamped(a, r)
    PROVE  /\ r \in Messages /\ Sends(a, r) /\ r.cause = m.cause
           /\ n \in Messages /\ Genuine(n)'
<1>1. /\ type \in {"task_result", "channel_response"} /\ a \in Identities
      /\ Answers(a, m, type)
      /\ type = "task_result" => m.type \in {"task", "skill"}
      /\ type = "channel_response" => m.type = "channel_message"
  BY DEF HandleWork, HandleChannelMessage, Handles, Identities
<1>2. Sends(a, r)
  BY <1>1, SendsEither DEF Answers
<1>3. /\ r \in Messages /\ r.id \in ReplyIds /\ r.cause = m.cause /\ r.type = type
      /\ r.corr \in {m.id, m.corr} /\ r.session = m.session
  BY <1>1, MadeOfMessages
<1>4. /\ n \in Messages /\ n.from = a /\ n.id = r.id /\ n.type = type
      /\ n.corr = r.corr /\ n.session = m.session /\ n.cause = m.cause
  BY <1>1, <1>3, StampedIs
<1>5. n.id \notin Requests /\ a # Orchestrator
  BY <1>3, <1>4, KindsDiffer, ConversationTypes
<1>6. \A i \in Requests \cap {n.id, n.corr} : waiter'[i] # "idle"
  <2> SUFFICES ASSUME NEW i \in Requests, i \in {n.id, n.corr} PROVE waiter'[i] # "idle"
    OBVIOUS
  <2>1. i \in {m.id, m.corr}
    BY <1>3, <1>4, <1>5
  <2>2. waiter[i] # "idle"
    BY <2>1 DEF Genuine
  <2> QED
    BY <2>2, StepsGoForward
<1>7. Genuine(m)'
  BY GenuineStays
<1>8. n.type \in ChatTypes => BelongsIn(n.cause, n.session)'
  BY <1>1, <1>4, <1>7 DEF Genuine, ChatTypes
<1>9. n.cause \in Attempts => n.type \in ChatTypes
  BY <1>1, <1>4 DEF Genuine, ChatTypes
<1>10. Genuine(n)'
  BY <1>4, <1>5, <1>6, <1>7, <1>8, <1>9 DEF Genuine
<1> QED
  BY <1>2, <1>3, <1>4, <1>10

LEMMA GenuineInvStep ==
    ASSUME TypeOK, CorrInv, GroupInv, GenuineInv, [Next]_vars
    PROVE  GenuineInv'
<1>1. BusTypeOK /\ running \subseteq Agents \X Messages
  BY DEF TypeOK, BusTypeOK
\* What was there stays true; of what is new only a sent message is.
<1>2. ASSUME NEW n,
             \/ Genuine(n)' /\ \A e \in inboxes' : e \in inboxes \/ e[2] = n
             \/ inboxes' \subseteq inboxes,
             running' \subseteq running \cup inboxes
      PROVE  GenuineInv'
  <2>1. \A e \in inboxes \cup running : e[2] \in Messages /\ Genuine(e[2])
    BY <1>1 DEF BusTypeOK, GenuineInv
  <2>2. \A e \in inboxes \cup running : Genuine(e[2])'
    BY <2>1, GenuineStays
  <2> QED
    BY <1>2, <2>2 DEF GenuineInv
<1>3. ASSUME NEW u \in Updates, Webhook(u) PROVE GenuineInv'
  <2> DEFINE m == ChannelMessage(u, tried[u] + 1)
             n == Stamped(BotOf[u], m)
  <2>1. m \in Messages /\ BotOf[u] \in Identities /\ Sends(BotOf[u], m)
    BY <1>3, GenuineUpdate DEF Identities
  <2>2. \E x : x = n /\ Genuine(x)'
    BY <1>3, GenuineUpdate
  <2>3. \A e \in inboxes' : e \in inboxes \/ e[2] = n
    BY <1>1, <2>1, SendsOne
  <2> QED
    BY <1>2, <1>3, <2>2, <2>3 DEF Webhook
<1>4. ASSUME NEW m \in Commands, Command(m) PROVE GenuineInv'
  <2>1. \E n : /\ n = Stamped(Orchestrator, m) /\ Genuine(n)'
               /\ \A e \in inboxes' : e \in inboxes \/ e[2] = n
    BY <1>1, <1>4, GenuineCommand, SendsOne
  <2> QED
    BY <1>2, <1>4, <2>1 DEF Command
<1>5. ASSUME NEW p \in Posts, Post(p) PROVE GenuineInv'
  <2> DEFINE m == Posted(p, posted + 1)
             n == Stamped(p.at, m)
  <2>1. m \in Messages /\ p.at \in Identities /\ Sends(p.at, m)
    BY <1>5, GenuinePost DEF Identities
  <2>2. \E x : x = n /\ Genuine(x)'
    BY <1>5, GenuinePost
  <2>3. \A e \in inboxes' : e \in inboxes \/ e[2] = n
    BY <1>1, <2>1, SendsOne
  <2> QED
    BY <1>2, <1>5, <2>2, <2>3 DEF Post, conv
<1>6. ASSUME NEW i \in Requests, RequestSent(i) \/ RequestFails(i) PROVE GenuineInv'
  <2>1. \E n : /\ n = Stamped(Asker[i], RequestMessage(i)) /\ Genuine(n)'
               /\ \A e \in inboxes' : e \in inboxes \/ e[2] = n
    BY <1>1, <1>6, GenuineRequest, SendsOne DEF Identities
  <2> QED
    BY <1>2, <1>6, <2>1 DEF RequestSent, RequestFails, conv
<1>7. ASSUME NEW a \in Agents, NEW m \in Messages,
             HandleWork(a, m) \/ HandleChannelMessage(a, m)
      PROVE  GenuineInv'
  <2>1. Genuine(m) /\ running' \subseteq running /\ a \in Identities
    BY <1>7 DEF HandleWork, HandleChannelMessage, Handles, Answers, HandlerEnds, GenuineInv,
       Identities
  <2>2. \E type : \/ HandleWork(a, m) /\ type = "task_result"
                  \/ HandleChannelMessage(a, m) /\ type = "channel_response"
    BY <1>7
  <2>3. PICK type : \/ HandleWork(a, m) /\ type = "task_result"
                    \/ HandleChannelMessage(a, m) /\ type = "channel_response"
    BY <2>2
  <2>4. \E n : /\ n = Stamped(a, Reply(m, a, type)) /\ Genuine(n)'
               /\ \A e \in inboxes' : e \in inboxes \/ e[2] = n
    BY <1>1, <2>1, <2>3, GenuineReply, SendsOne
  <2> QED
    BY <1>2, <2>1, <2>4
<1>8. ASSUME NEW a \in Agents, NEW m \in Messages,
             \/ Deliver(a, m) \/ LoseEntry(a, m)
             \/ HandleChannelResponse(a, m) \/ HandleP2P(a, m)
      PROVE  GenuineInv'
  <2>1. inboxes' \subseteq inboxes /\ running' \subseteq running \cup inboxes
    BY <1>8 DEF Deliver, LoseEntry, HandleChannelResponse, HandleP2P, Handles, HandlerEnds,
       ShowFails, bus, conv
  <2> QED
    BY <1>2, <2>1
<1>9. ASSUME NEW a \in Agents, GroupSends(a) PROVE GenuineInv'
  <2>1. \E n : /\ n = GroupMessage /\ Genuine(n)'
               /\ \A e \in inboxes' : e \in inboxes \/ e[2] = n
    BY <1>9, GenuineGroup DEF GroupSends
  <2> QED
    BY <1>2, <1>9, <2>1 DEF GroupSends, conv
<1>10. CASE Quiet
  BY <1>2, <1>10 DEF Quiet, bus
<1> QED
  BY <1>3, <1>4, <1>5, <1>6, <1>7, <1>8, <1>9, <1>10, StepKinds

----------------------------------------------------------------------------
(* What comes of an update or of a post is in one place at a time          *)

\* Nothing new about it: it stays where it is, or it is gone.
LEMMA PlaceKept ==
    ASSUME NEW k, OnePlace(k), shown' = shown, running' \subseteq running,
           \A e \in inboxes' : e[2].cause = k => e \in inboxes
    PROVE  OnePlace(k)'
  BY DEF OnePlace

\* An agent sends something that comes of it: then that is all there is.
LEMMA PlaceTaken ==
    ASSUME BusTypeOK, NEW k, OnePlace(k), shown' = shown, running' \subseteq running,
           NEW a \in Agents, NEW m \in Messages, Sends(a, m),
           m.cause = k => /\ \A e \in inboxes \cup running' : e[2].cause # k
                          /\ \A s \in Sessions : ~(shown[<<k, s>>] > 0)
    PROVE  OnePlace(k)'
<1> DEFINE n == Stamped(a, m)
<1>1. n.cause = m.cause /\ inboxes' \subseteq inboxes \cup {<<m.to, n>>}
  BY StampedIs, SendsOne, ConversationTypes DEF Identities
<1> HIDE DEF n
<1>2. CASE m.cause = k
  BY <1>1, <1>2 DEF OnePlace
<1>3. CASE m.cause # k
  BY <1>1, <1>3, PlaceKept
<1> QED
  BY <1>2, <1>3

LEMMA OnePlaceStep ==
    ASSUME TypeOK, CorrInv, GroupInv, GenuineInv, AnsweredInPlace, [Next]_vars,
           NEW k \in Attempts \cup PostCauses, OnePlace(k)
    PROVE  OnePlace(k)'
<1>1. /\ BusTypeOK /\ running \subseteq Agents \X Messages
      /\ DOMAIN shown = Causes \X Sessions /\ k \in Causes
  BY DEF TypeOK, BusTypeOK, Causes
\* A cause that no chat belongs to yet is new.
<1>2. ASSUME \A s : ~BelongsIn(k, s), k \in PostCauses => ~(k[3] <= posted)
      PROVE  /\ \A e \in inboxes \cup running : e[2].cause # k
             /\ \A s \in Sessions : ~(shown[<<k, s>>] > 0)
  <2>1. \A e \in inboxes \cup running : Genuine(e[2])
    BY DEF GenuineInv
  <2>2. \A e \in inboxes \cup running : e[2].cause # k
    BY <1>2, <2>1 DEF Genuine
  <2>3. \A s \in Sessions : <<k, s>> \in DOMAIN shown
    BY <1>1
  <2>4. \A s \in Sessions : shown[<<k, s>>] > 0 => BelongsIn(<<k, s>>[1], <<k, s>>[2])
    BY <2>3 DEF AnsweredInPlace
  <2> QED
    BY <1>2, <2>2, <2>4
<1>3. ASSUME NEW u \in Updates, Webhook(u) PROVE OnePlace(k)'
  <2> DEFINE m == ChannelMessage(u, tried[u] + 1)
  <2>1. /\ m \in Messages /\ m.cause = <<u, tried[u] + 1>> /\ m.cause \in Attempts
        /\ BotOf[u] \in Agents /\ Sends(BotOf[u], m)
    BY <1>3, GenuineUpdate
  <2>2. running' = running /\ shown' = shown
    BY <1>3 DEF Webhook, effects
  <2> HIDE DEF m
  <2>3. ASSUME k = m.cause
        PROVE  (\A s : ~BelongsIn(k, s)) /\ (k \in PostCauses => ~(k[3] <= posted))
    <3>1. tried[u] \in Nat /\ k[1] = u /\ k[2] = tried[u] + 1
      BY <2>1, <2>3, ConversationBounds DEF TypeOK
    <3>2. k \notin PostCauses
      BY <2>1, <2>3, KindsDiffer
    <3> QED
      BY <3>1, <3>2 DEF BelongsIn
  <2> QED
    BY <1>1, <1>2, <2>1, <2>2, <2>3, PlaceTaken
<1>4. ASSUME NEW m \in Commands, Command(m) PROVE OnePlace(k)'
  <2>1. /\ m \in Messages /\ Sends(Orchestrator, m) /\ Orchestrator \in Identities
        /\ m.cause # k
    BY <1>4, GenuineCommand
  <2>2. /\ Stamped(Orchestrator, m).cause # k
        /\ \A e \in inboxes' : e \in inboxes \/ e[2] = Stamped(Orchestrator, m)
    BY <1>1, <2>1, SendsOne, StampedIs
  <2> QED
    BY <1>4, <2>2, PlaceKept DEF Command, effects
<1>5. ASSUME NEW p \in Posts, Post(p) PROVE OnePlace(k)'
  <2> DEFINE m == Posted(p, posted + 1)
  <2>1. /\ m \in Messages /\ m.cause = <<"post", p, posted + 1>>
        /\ m.cause \in PostCauses /\ p.at \in Agents /\ Sends(p.at, m)
    BY <1>5, GenuinePost
  <2>2. running' = running /\ shown' = shown
    BY <1>5 DEF Post, conv, effects
  <2> HIDE DEF m
  <2>3. ASSUME k = m.cause
        PROVE  (\A s : ~BelongsIn(k, s)) /\ (k \in PostCauses => ~(k[3] <= posted))
    <3>1. posted \in Nat /\ k[3] = posted + 1
      BY <2>1, <2>3, ConversationBounds DEF TypeOK
    <3>2. k \notin Attempts
      BY <2>1, <2>3, KindsDiffer
    <3> QED
      BY <3>1, <3>2 DEF BelongsIn
  <2> QED
    BY <1>1, <1>2, <2>1, <2>2, <2>3, PlaceTaken
<1>6. ASSUME NEW i \in Requests, RequestSent(i) \/ RequestFails(i) PROVE OnePlace(k)'
  <2>1. /\ RequestMessage(i) \in Messages /\ Sends(Asker[i], RequestMessage(i))
        /\ Asker[i] \in Agents /\ RequestMessage(i).cause # k
    BY <1>6, GenuineRequest
  <2>2. running' = running /\ shown' = shown
    BY <1>6 DEF RequestSent, RequestFails, conv, effects
  <2> QED
    BY <1>1, <2>1, <2>2, PlaceTaken
\* The answer takes the place of what it answers.
<1>7. ASSUME NEW a \in Agents, NEW m \in Messages,
             HandleWork(a, m) \/ HandleChannelMessage(a, m)
      PROVE  OnePlace(k)'
  <2>1. /\ Genuine(m) /\ <<a, m>> \in running /\ running' = running \ {<<a, m>>}
        /\ shown' = shown
    BY <1>7 DEF HandleWork, HandleChannelMessage, Handles, Answers, HandlerEnds, effects,
       GenuineInv
  <2>2. \E type : \/ HandleWork(a, m) /\ type = "task_result"
                  \/ HandleChannelMessage(a, m) /\ type = "channel_response"
    BY <1>7
  <2>3. PICK type : \/ HandleWork(a, m) /\ type = "task_result"
                    \/ HandleChannelMessage(a, m) /\ type = "channel_response"
    BY <2>2
  <2>4. \E r : r \in Messages /\ Sends(a, r) /\ r.cause = m.cause
    BY <2>1, <2>3, GenuineReply
  <2>5. PICK r : r \in Messages /\ Sends(a, r) /\ r.cause = m.cause
    BY <2>4
  <2>6. ASSUME r.cause = k
        PROVE  /\ \A e \in inboxes \cup running' : e[2].cause # k
               /\ \A s \in Sessions : ~(shown[<<k, s>>] > 0)
    <3>1. <<a, m>>[2].cause = k
      BY <2>5, <2>6
    <3> QED
      BY <2>1, <3>1 DEF OnePlace
  <2> QED
    BY <1>1, <2>1, <2>5, <2>6, PlaceTaken
<1>8. ASSUME NEW a \in Agents, NEW m \in Messages, Deliver(a, m) PROVE OnePlace(k)'
  <2>1. /\ <<a, m>> \in inboxes /\ inboxes' = inboxes \ {<<a, m>>}
        /\ running' = running \cup {<<a, m>>} /\ shown' = shown
    BY <1>8 DEF Deliver, effects
  <2> QED
    BY <2>1 DEF OnePlace
<1>9. ASSUME NEW a \in Agents, NEW m \in Messages, LoseEntry(a, m) \/ HandleP2P(a, m)
      PROVE  OnePlace(k)'
  BY <1>9, PlaceKept DEF LoseEntry, HandleP2P, HandlerEnds, bus, conv, effects
<1>10. ASSUME NEW a \in Agents, NEW m \in Messages, HandleChannelResponse(a, m)
       PROVE  OnePlace(k)'
  <2>1. /\ <<a, m>> \in running /\ running' = running \ {<<a, m>>}
        /\ inboxes' = inboxes
        /\ shown' = shown \/ ShownOnce(m)
    BY <1>10 DEF HandleChannelResponse, ShowFails, HandlerEnds, Handles, bus
  <2>2. CASE shown' = shown \/ k # m.cause
    <3>1. \A s \in Sessions : shown'[<<k, s>>] = shown[<<k, s>>]
      BY <1>1, <2>1, <2>2 DEF ShownOnce
    <3> QED
      BY <2>1, <3>1 DEF OnePlace
  <2>3. CASE k = m.cause
    <3>1. <<a, m>>[2].cause = k
      BY <2>3
    <3>2. \A e \in inboxes \cup running' : e[2].cause # k
      BY <2>1, <3>1 DEF OnePlace
    <3> QED
      BY <2>1, <3>2 DEF OnePlace
  <2> QED
    BY <2>2, <2>3
<1>11. ASSUME NEW a \in Agents, GroupSends(a) PROVE OnePlace(k)'
  <2>1. GroupMessage.cause # k
    BY <1>11, GenuineGroup
  <2> QED
    BY <1>11, <2>1, PlaceKept DEF GroupSends, conv, effects
<1>12. CASE Quiet
  BY <1>12, PlaceKept DEF Quiet, bus
<1> QED
  BY <1>3, <1>4, <1>5, <1>6, <1>7, <1>8, <1>9, <1>10, <1>11, <1>12, StepKinds

----------------------------------------------------------------------------
(* Effects                                                                 *)

\* An answer is posted while what it comes of is in no other place, so for the
\* first time, and where its message says.
LEMMA AnsweredStep ==
    ASSUME TypeOK, CorrInv, GenuineInv, AnsweredInPlace, [Next]_vars,
           \A k \in Attempts \cup PostCauses : OnePlace(k)
    PROVE  AnsweredInPlace'
<1>1. /\ DOMAIN shown = Causes \X Sessions
      /\ \A c \in DOMAIN shown : shown[c] \in Nat
      /\ running \subseteq Agents \X Messages
  BY DEF TypeOK
<1>2. CASE shown' = shown
  <2> SUFFICES ASSUME NEW c \in DOMAIN shown, shown[c] > 0
               PROVE  shown[c] = 1 /\ BelongsIn(c[1], c[2])'
    BY <1>2 DEF AnsweredInPlace
  <2>1. shown[c] = 1 /\ BelongsIn(c[1], c[2])
    BY DEF AnsweredInPlace
  <2> QED
    BY <2>1, BelongsStays
<1>3. ASSUME NEW a \in Agents, NEW m \in Messages, HandleChannelResponse(a, m)
      PROVE  AnsweredInPlace'
  <2>1. /\ <<a, m>> \in running /\ Genuine(m) /\ m.type = "channel_response"
        /\ shown' = shown \/ ShownOnce(m)
    BY <1>3 DEF HandleChannelResponse, ShowFails, Handles, GenuineInv
  <2>2. CASE ShownOnce(m)
    <3> DEFINE c == <<m.cause, m.session>>
    <3>1. shown' = [shown EXCEPT ![c] = @ + 1]
      BY <2>2 DEF ShownOnce
    <3>2. c[1] = m.cause /\ c[2] = m.session /\ BelongsIn(m.cause, m.session)
      BY <2>1 DEF Genuine, ChatTypes
    <3>3. m.cause \in Attempts \cup PostCauses
      BY <3>2 DEF BelongsIn
    <3>4. ASSUME c \in DOMAIN shown PROVE shown[c] = 0
      <4>1. m.session \in Sessions
        BY <1>1, <3>4
      <4>2. <<a, m>>[2].cause = m.cause
        OBVIOUS
      <4>3. ~(shown[c] > 0)
        BY <2>1, <3>3, <4>1, <4>2 DEF OnePlace
      <4> QED
        BY <1>1, <3>4, <4>3
    <3> HIDE DEF c
    <3>5. /\ DOMAIN shown' = DOMAIN shown
          /\ \A k \in DOMAIN shown : shown'[k] = IF k = c THEN shown[c] + 1 ELSE shown[k]
      BY <3>1
    <3> SUFFICES ASSUME NEW k \in DOMAIN shown, shown'[k] > 0
                 PROVE  shown'[k] = 1 /\ BelongsIn(k[1], k[2])'
      BY <3>5 DEF AnsweredInPlace
    <3>6. CASE k = c
      <4>1. BelongsIn(k[1], k[2])
        BY <3>2, <3>6
      <4> QED
        BY <3>4, <3>5, <3>6, <4>1, BelongsStays
    <3>7. CASE k # c
      <4>1. shown[k] = 1 /\ BelongsIn(k[1], k[2])
        BY <3>5, <3>7 DEF AnsweredInPlace
      <4> QED
        BY <3>5, <3>7, <4>1, BelongsStays
    <3> QED
      BY <3>6, <3>7
  <2> QED
    BY <1>2, <2>1, <2>2
<1> QED
  BY <1>2, <1>3, StepKinds
  DEF Webhook, Command, Post, RequestSent, RequestFails, Deliver, LoseEntry, HandleWork,
      HandleChannelMessage, HandleP2P, GroupSends, Quiet, conv, effects

\* The gateway does not refuse a message of the webhook: the answer is a success,
\* or a fault has hit it.
LEMMA AttemptsStep ==
    ASSUME TypeOK, CorrInv, AttemptsInv, [Next]_vars
    PROVE  AttemptsInv'
<1>1. harmed \subseteq harmed' /\ accepted \subseteq accepted'
  BY StepsGoForward
<1>2. CASE tried' = tried
  BY <1>1, <1>2 DEF AttemptsInv
<1>3. ASSUME NEW u \in Updates, Webhook(u) PROVE AttemptsInv'
  <2> DEFINE m == ChannelMessage(u, tried[u] + 1)
  <2>1. /\ tried[u] \in Nat /\ tried[u] + 1 \in 1..(MaxFaults + 1)
        /\ \A v \in Updates : tried'[v] = IF v = u THEN tried[u] + 1 ELSE tried[v]
    BY <1>3, ConversationBounds DEF Webhook, TypeOK
  <2>2. m.to = BotOf[u] /\ m.type = "channel_message" /\ m.cause = <<u, tried[u] + 1>>
    BY <2>1, MadeOfUpdates
  <2>3. m.to # ToAll
    BY <2>2, ConversationTypes
  <2>4. \/ SendOk(BotOf[u], m) /\ <<u, tried[u] + 1>> \in accepted'
        \/ SendErr(BotOf[u], m)
    BY <1>3 DEF Webhook, Answers200
  <2>5. <<u, tried[u] + 1>> \in accepted' \cup harmed'
    <3> HIDE DEF m
    <3> QED
      BY <2>2, <2>3, <2>4 DEF SendErr, Refused, Harm
  <2>6. \A n \in 1..tried[u] : <<u, n>> \in harmed
    BY <1>3 DEF Webhook, AttemptsInv
  <2> SUFFICES ASSUME NEW v \in Updates, NEW n \in 1..tried'[v]
               PROVE  <<v, n>> \in harmed' \/ (n = tried'[v] /\ <<v, n>> \in accepted')
    BY DEF AttemptsInv
  <2>7. CASE v = u
    <3>1. n = tried[u] + 1 \/ n \in 1..tried[u]
      BY <2>1, <2>7
    <3> QED
      BY <1>1, <2>1, <2>5, <2>6, <2>7, <3>1
  <2>8. CASE v # u
    BY <1>1, <2>1, <2>8 DEF AttemptsInv
  <2> QED
    BY <2>7, <2>8
<1> QED
  BY <1>2, <1>3, StepKinds
  DEF Command, Post, RequestSent, RequestFails, Deliver, LoseEntry, HandleWork,
      HandleChannelMessage, HandleChannelResponse, HandleP2P, Handles, GroupSends, Quiet, conv

\* Only what the orchestrator has sent gets past the handler.
LEMMA WorkedStep ==
    ASSUME TypeOK, CorrInv, GenuineInv, OnlyCommandsAreWorked, [Next]_vars
    PROVE  OnlyCommandsAreWorked'
<1>1. used \subseteq used'
  BY StepsGoForward
<1>2. CASE worked' = worked
  BY <1>1, <1>2 DEF OnlyCommandsAreWorked
<1>3. ASSUME NEW a \in Agents, NEW m \in Messages, HandleWork(a, m)
      PROVE  OnlyCommandsAreWorked'
  <2>1. /\ worked' = worked \cup {<<a, m>>} /\ Genuine(m) /\ ~Rejected(m)
        /\ m.type \in {"task", "skill"}
    BY <1>3 DEF HandleWork, Handles, GenuineInv
  <2>2. <<a, m>>[2] \in used
    BY <2>1 DEF Rejected, Privileged, Genuine
  <2> QED
    BY <1>1, <2>1, <2>2 DEF OnlyCommandsAreWorked
<1> QED
  BY <1>2, <1>3, StepKinds
  DEF Webhook, Command, Post, RequestSent, RequestFails, Deliver, LoseEntry,
      HandleChannelMessage, HandleChannelResponse, HandleP2P, GroupSends, Quiet, conv, effects

\* A reply that finds no entry comes after the one that took it.
LEMMA FirstReplyStep ==
    ASSUME TypeOK, CorrInv, GenuineInv, FirstReplyIsNotUnsolicited, [Next]_vars
    PROVE  FirstReplyIsNotUnsolicited'
<1>1. \A i \in Requests : Settled(i) => Settled(i)'
  BY StepsGoForward
<1>2. \A r \in toCore, i \in Requests : r[1] = Asker[i] /\ r[2].corr = i => Settled(i)
  BY DEF FirstReplyIsNotUnsolicited, Settled
<1>3. CASE toCore' = toCore
  BY <1>1, <1>2, <1>3 DEF FirstReplyIsNotUnsolicited, Settled
<1>4. ASSUME NEW a \in Agents, NEW m \in Messages, HandleP2P(a, m)
      PROVE  FirstReplyIsNotUnsolicited'
  <2>1. Genuine(m)
    BY <1>4 DEF HandleP2P, Handles, GenuineInv
  <2>2. CASE /\ {i \in registry : Asker[i] = a /\ i = m.corr} = {}
             /\ toCore' = toCore \cup {<<a, m>>}
    <3>1. ASSUME NEW i \in Requests, a = Asker[i], m.corr = i PROVE Settled(i)
      <4>1. i \notin registry
        BY <2>2, <3>1
      <4>2. waiter[i] # "idle"
        BY <2>1, <3>1 DEF Genuine
      <4> QED
        BY <4>1, <4>2 DEF CorrInv
    <3>2. \A r \in toCore', i \in Requests : r[1] = Asker[i] /\ r[2].corr = i => Settled(i)'
      BY <1>1, <1>2, <2>2, <3>1
    <3> QED
      BY <3>2 DEF FirstReplyIsNotUnsolicited, Settled
  <2> QED
    BY <1>3, <1>4, <2>2 DEF HandleP2P
<1> QED
  BY <1>3, <1>4, StepKinds
  DEF Webhook, Command, Post, RequestSent, RequestFails, Deliver, LoseEntry, HandleWork,
      HandleChannelMessage, HandleChannelResponse, GroupSends, Quiet, conv, effects

----------------------------------------------------------------------------
(* Theorems                                                                *)

LEMMA InitInv == Init => ConvInv
<1> SUFFICES ASSUME Init PROVE ConvInv
  OBVIOUS
<1> USE DEF Init, RoutingInit, CorrInit, GroupInit
<1>1. CorrTypeOK(Causes)
  BY DEF CorrTypeOK, Stages
<1>2. GroupTypeOK(MaxStarted)
  BY ConversationBounds DEF GroupTypeOK
<1>3. ConvTypeOK
  BY ConversationBounds DEF ConvTypeOK, BusTypeOK
<1>4. TypeOK
  BY <1>1, <1>2, <1>3, TypeParts, ConversationBounds
<1>5. CorrInv
  BY DEF CorrInv, OneSwallowedPerRequest
<1>6. GroupInv /\ attempt <= started
  BY DEF GroupInv
<1>7. GenuineInv /\ AttemptsInv /\ AnsweredInPlace
  BY DEF GenuineInv, AttemptsInv, AnsweredInPlace
<1>8. \A k \in Attempts \cup PostCauses : OnePlace(k)
  BY DEF OnePlace, Causes
<1> QED
  BY <1>4, <1>5, <1>6, <1>7, <1>8
  DEF ConvInv, OnlyCommandsAreWorked, FirstReplyIsNotUnsolicited

\* Messages stay genuine, what comes of an update or a post is in one place, and
\* registries and waiters are in step, at every step of every execution, whatever
\* is posted to the agents (handler.rs, inbox.rs, correlation.rs, routes.rs, a2a.rs).
THEOREM ConversationsInvariant == Spec => []ConvInv
<1>1. Init => ConvInv
  BY InitInv
<1>2. ConvInv /\ [Next]_vars => ConvInv'
  <2> SUFFICES ASSUME ConvInv, [Next]_vars PROVE ConvInv'
    OBVIOUS
  <2>1. /\ TypeOK /\ CorrInv /\ GroupInv /\ attempt <= started
        /\ GenuineInv /\ AttemptsInv /\ AnsweredInPlace /\ OnlyCommandsAreWorked
        /\ FirstReplyIsNotUnsolicited
        /\ \A k \in Attempts \cup PostCauses : OnePlace(k)
    BY DEF ConvInv
  <2>2. TypeOK'
    BY <2>1, TypeStep
  <2>3. CorrInv'
    BY <2>1, StepsOfRequests, CorrKeeps, TypeParts
  <2>4. GroupInv' /\ attempt' <= started'
    BY <2>1, StepsOfGroup
  <2>5. GenuineInv'
    BY <2>1, GenuineInvStep
  <2>6. \A k \in Attempts \cup PostCauses : OnePlace(k)'
    BY <2>1, OnePlaceStep
  <2>7. /\ AttemptsInv' /\ AnsweredInPlace' /\ OnlyCommandsAreWorked'
        /\ FirstReplyIsNotUnsolicited'
    BY <2>1, AttemptsStep, AnsweredStep, WorkedStep, FirstReplyStep
  <2> QED
    BY <2>2, <2>3, <2>4, <2>5, <2>6, <2>7 DEF ConvInv
<1> QED
  BY <1>1, <1>2, PTL DEF Spec

\* Every variable keeps to its values; in particular one attempt of a broadcast
\* writes to no inbox twice (transport.rs, broadcast_to_group).
THEOREM ConversationsTypeCorrect == Spec => []TypeOK
<1>1. ConvInv => TypeOK
  BY DEF ConvInv
<1> QED
  BY <1>1, ConversationsInvariant, PTL

\* An answer is posted where its update came from, and once for each message made
\* of the update; what else is in a chat comes of a chat message posted to
\* /a2a/messages that names the chat, once for each (dispatcher.rs, types.rs, a2a.rs).
THEOREM AnswersFindTheirPlace == Spec => []AnsweredInPlace
<1>1. ConvInv => AnsweredInPlace
  BY DEF ConvInv
<1> QED
  BY <1>1, ConversationsInvariant, PTL

\* An update that is answered twice was hit by a fault (telegram.rs).
THEOREM SecondAnswersComeOfFaults == Spec => []TwiceOnlyAfterFault
<1>1. ConvInv => TwiceOnlyAfterFault
  <2> SUFFICES ASSUME ConvInv, NEW u \in Updates, NEW i \in 1..(MaxFaults + 1),
                      NEW j \in 1..(MaxFaults + 1), NEW t \in Sessions,
                      i < j, shown[<<<<u, j>>, t>>] > 0
               PROVE  <<u, i>> \in harmed
    BY DEF TwiceOnlyAfterFault
  <2>1. <<u, j>> \in Attempts /\ <<u, j>> \in Causes
    BY DEF Attempts, Causes
  <2>2. /\ <<<<u, j>>, t>> \in DOMAIN shown
        /\ tried[u] \in Nat
    BY <2>1, ConversationBounds DEF ConvInv, TypeOK
  <2>3. BelongsIn(<<u, j>>, t)
    BY <2>2 DEF ConvInv, AnsweredInPlace
  <2>4. j <= tried[u]
    BY <2>1, <2>3, KindsDiffer DEF BelongsIn
  <2>5. i \in 1..tried[u] /\ i # tried[u]
    BY <2>2, <2>4, ConversationBounds
  <2> QED
    BY <2>5 DEF ConvInv, AttemptsInv
<1> QED
  BY <1>1, ConversationsInvariant, PTL

\* A core works for the orchestrator only (routes.rs, handler.rs).
THEOREM OnlyTheOrchestratorCommands == Spec => []OnlyCommandsAreWorked
<1>1. ConvInv => OnlyCommandsAreWorked
  BY DEF ConvInv
<1> QED
  BY <1>1, ConversationsInvariant, PTL

\* The first reply to a request finds its entry (p2p.rs, correlation.rs).
THEOREM FirstReplyFindsItsRequest == Spec => []FirstReplyIsNotUnsolicited
<1>1. ConvInv => FirstReplyIsNotUnsolicited
  BY DEF ConvInv
<1> QED
  BY <1>1, ConversationsInvariant, PTL

\* Only a request that is over swallows a reply, and only one (correlation.rs).
THEOREM OneReplyIsSwallowed == Spec => []OneSwallowedPerRequest
<1>1. ConvInv => OneSwallowedPerRequest
  BY DEF ConvInv, CorrInv
<1> QED
  BY <1>1, ConversationsInvariant, PTL

\* A broadcast that reports success has reached every steady member (routes.rs,
\* broadcast_group; transport.rs).
THEOREM BroadcastReachesMembers == Spec => []SteadyMembersReached
<1>1. ConvInv => SteadyMembersReached
  BY GroupPromises, TypeParts, ConversationBounds DEF ConvInv
<1> QED
  BY <1>1, ConversationsInvariant, PTL

\* A broadcast reaches members only (routes.rs, broadcast_group; acl.rs).
THEOREM BroadcastReachesOnlyMembers == Spec => []OnlyMembersReached
<1>1. ConvInv => OnlyMembersReached
  BY GroupPromises, TypeParts, ConversationBounds DEF ConvInv
<1> QED
  BY <1>1, ConversationsInvariant, PTL

=============================================================================
