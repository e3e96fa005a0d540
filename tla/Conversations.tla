--------------------------- MODULE Conversations ---------------------------
(***************************************************************************)
(* What happens to a message from one end to the other: the ways into the  *)
(* system (channels/telegram.rs, webchat.rs, a2a.rs, task_router.rs,       *)
(* p2p.rs, the group broadcast), the gateway's routing, the handler tasks  *)
(* of the agents (inbox.rs, handler.rs) and the answers they send, back    *)
(* into a chat (dispatcher.rs), to a waiting request (correlation.rs) or   *)
(* to the orchestrator.                                                    *)
(*                                                                         *)
(* A handler that talks to the core and then to the gateway does both in   *)
(* one step, which may never come: neither call has a timeout.  Payloads   *)
(* are left out: a core that answers with an error is answered for alike.  *)
(* A session stands for a channel and an id within it.                     *)
(***************************************************************************)
EXTENDS Correlation, GroupBroadcast

CONSTANTS
    Sessions,
    Telegram,       \* sessions whose answers are posted; others are pulled
    Bots,           \* agents with a Telegram token
    Updates,        \* what people write: webhook updates, webchat requests
    SessionOf,      \* the session, also the sender's name, of each update
    BotOf,          \* the agent that serves each update
    Commands,       \* messages of the orchestrator
    Posts,          \* messages for /a2a/messages, and the agent they go to
    Target,         \* the agent each request is for
    MaxStarted,     \* bound: stimuli of all kinds but posts
    MaxPosted,      \* bound: posts
    MaxTogether,    \* bound: stimuli and posts together
    MaxFaults,      \* bound: failed calls, lost entries, crashes
    MaxMoves        \* bound: changes of membership

Attempts   == Updates \X (1..(MaxFaults + 1))
Privileged == {"task", "skill", "system"}
ChatTypes  == {"channel_message", "channel_response"}

\* What a body becomes that is the n-th to be posted to /a2a/messages: any type and
\* any ids, those of other messages and its own once more.
Posted(p, n) ==
    [Message(p.id, p.from, p.to, p.type, p.corr, p.session)
     EXCEPT !.cause = <<"post", p, n>>]

Names      == Agents \cup Sessions \cup {Orchestrator}
CommandIds == {m.id : m \in Commands}
GroupIds   == {"group"} \X (1..MaxStarted)
PostCauses == {"post"} \X Posts \X (1..MaxPosted)
Causes     == Attempts \cup CommandIds \cup GroupIds \cup Requests \cup PostCauses
ReplyIds   == {"re"} \X Causes \X Agents
Ids        == Attempts \cup CommandIds \cup GroupIds \cup Requests \cup ReplyIds
              \cup {p.id : p \in Posts}
Messages == [id : Ids, from : Names, to : Names \cup {ToAll, ToOrch},
             type : Privileged \cup ChatTypes
                    \cup {"task_result", "p2p", "heartbeat"},
             corr : Ids \cup {None}, session : Sessions \cup {None}, cause : Causes]

ASSUME ConversationBounds ==
    /\ MaxStarted \in Nat /\ MaxPosted \in Nat /\ MaxTogether \in Nat
    /\ MaxFaults \in Nat /\ MaxMoves \in Nat

\* No agent has a name that the gateway gives a meaning of its own.
ASSUME ConversationTypes ==
    /\ \A name \in {Orchestrator, ToAll, ToOrch} : name \notin Agents
    /\ \A u \in Updates : BotOf[u] \in Agents /\ SessionOf[u] \in Sessions
    /\ \A i \in Requests : Asker[i] \in Agents /\ Target[i] \in Names
    /\ \A m \in Commands :
          /\ m \in Messages /\ m.type \in Privileged
          /\ m.from = Orchestrator /\ m.corr = None /\ m.cause = m.id
    /\ \A p \in Posts, n \in 1..MaxPosted :
          p.at \in Agents /\ Posted(p, n) \in Messages

\* Every message the code makes gets a new Uuid for its id.
ASSUME FreshIds ==
    /\ None \notin Ids
    /\ Attempts \cap (CommandIds \cup GroupIds \cup Requests) = {}
    /\ Requests \cap (CommandIds \cup GroupIds \cup ReplyIds) = {}
    /\ PostCauses \cap (Attempts \cup CommandIds \cup GroupIds \cup Requests) = {}

VARIABLES
    tried,      \* messages made of each update
    accepted,   \* attempts that were answered with success
    used,       \* commands that have been sent
    running,    \* <<agent, message>>: handler tasks
    leaving,    \* agents whose handler is in the middle of deregistering
    \* --- effects ---
    worked,     \* <<agent, message>>: tasks and skills given to a core
    toCore,     \* <<agent, message>>: P2P messages given to a core
    shown,      \* answers posted to each session, for each cause
    \* --- history and counters ---
    harmed,     \* causes of messages that a fault has hit
    started, posted, faults, moves

conv    == <<tried, accepted, used, running, leaving>>
effects == <<worked, toCore, shown>>
budget  == <<started, posted, faults, moves>>
vars    == <<bus, corrVars, groupVars, conv, effects, harmed, budget>>

Init ==
    /\ RoutingInit /\ CorrInit /\ GroupInit
    /\ tried = [u \in Updates |-> 0] /\ accepted = {} /\ used = {}
    /\ running = {} /\ leaving = {}
    /\ worked = {} /\ toCore = {}
    /\ shown = [c \in Causes \X Sessions |-> 0]
    /\ harmed = {} /\ started = 0 /\ posted = 0 /\ faults = 0 /\ moves = 0

\* The bounds on what happens together: a request alone may have all posts.
Room  == started + posted < MaxTogether
Asked == started = 1 /\ \E i \in Requests : waiter[i] # "idle"

Starts == Room /\ started < MaxStarted /\ started' = started + 1
Fault  == faults < MaxFaults /\ faults' = faults + 1
Harm(H) == harmed' = harmed \cup {m.cause : m \in H}

\* gateway_client.rs send_message by an agent returns Ok or an error; an error
\* may hide a success.
SendOk(a, m) == Routed(a, m) /\ UNCHANGED <<faults, harmed>>
SendErr(a, m) ==
    \/ Refused(a, m) /\ UNCHANGED <<faults, harmed>>
    \/ Fault /\ Harm({m}) /\ (Routed(a, m) \/ UNCHANGED bus)

----------------------------------------------------------------------------
(* Ways in                                                                 *)

ChannelMessage(u, n) ==
    Message(<<u, n>>, SessionOf[u], BotOf[u], "channel_message", None,
            SessionOf[u])

Answers500(k) == UNCHANGED accepted     \* mutant: an error after the send
Answers200(k) == accepted' = accepted \cup {k}

\* The webhook is called for an update, or again after an answer of 500.
Webhook(u) ==
    LET n == tried[u] + 1
        m == ChannelMessage(u, n) IN
    /\ n <= MaxFaults + 1
    /\ \A k \in 1..tried[u] : <<u, k>> \notin accepted
    /\ IF n = 1 THEN Starts ELSE UNCHANGED started
    /\ tried' = [tried EXCEPT ![u] = n]
    /\ \/ SendOk(BotOf[u], m) /\ Answers200(<<u, n>>)
       \/ SendErr(BotOf[u], m) /\ UNCHANGED accepted
    /\ UNCHANGED <<corrVars, groupVars, used, running, leaving, effects, posted, moves>>

\* assign_task, invoke_skill, broadcast_system.
Command(m) ==
    /\ m \notin used /\ used' = used \cup {m}
    /\ Starts
    /\ Routed(Orchestrator, m)
    /\ UNCHANGED <<corrVars, groupVars, tried, accepted, running, leaving,
                   effects, harmed, posted, faults, moves>>

\* /a2a/messages forwards any message, whatever it says.  The one thing a poster
\* cannot do is to name a request before its Uuid has been made.
Post(p) ==
    LET m == Posted(p, posted + 1) IN
    /\ Room \/ Asked
    /\ posted < MaxPosted /\ posted' = posted + 1
    /\ \A i \in Requests \cap {p.id, p.corr} : waiter[i] # "idle"
    /\ SendOk(p.at, m) \/ SendErr(p.at, m)
    /\ UNCHANGED <<corrVars, groupVars, conv, effects, started, moves>>

RequestMessage(i) ==
    Message(i, Asker[i], Target[i], "p2p", None, None)

RequestBegins(i) ==
    /\ Starts
    /\ Register(i)
    /\ UNCHANGED <<bus, groupVars, conv, effects, harmed, posted, faults, moves>>

RequestSent(i) ==
    /\ RequestRouted(i)
    /\ Routed(Asker[i], RequestMessage(i))
    /\ UNCHANGED <<groupVars, conv, effects, harmed, budget>>

\* The request is refused or lost, or only its answer is.
RequestFails(i) ==
    /\ SendFailed(i)
    /\ \/ waiter[i] = "registered" /\ SendErr(Asker[i], RequestMessage(i))
       \/ waiter[i] = "sent" /\ Fault /\ UNCHANGED <<bus, harmed>>
    /\ UNCHANGED <<groupVars, conv, effects, started, posted, moves>>

RequestAccepted(i) ==
    /\ StartWaiting(i)
    /\ UNCHANGED <<bus, groupVars, conv, effects, harmed, budget>>

RequestAwaits(i) ==
    /\ ReplyTaken(i) \/ TimerFires(i) \/ TimesOut(i)
    /\ UNCHANGED <<bus, groupVars, conv, effects, harmed, budget>>

----------------------------------------------------------------------------
(* Delivery                                                                *)

\* The inbox loop of an agent gets an entry and spawns a handler.
Deliver(a, m) ==
    /\ a \in Agents /\ <<a, m>> \in inboxes
    /\ inboxes' = inboxes \ {<<a, m>>}
    /\ running' = running \cup {<<a, m>>}
    /\ UNCHANGED <<outboxes, corrVars, groupVars, tried, accepted, used, leaving,
                   effects, harmed, budget>>

\* The entry is trimmed, dead-lettered, or taken by a poll nobody waits for.
LoseEntry(a, m) ==
    /\ a \in Agents /\ <<a, m>> \in inboxes
    /\ Fault /\ Harm({m})
    /\ inboxes' = inboxes \ {<<a, m>>}
    /\ UNCHANGED <<outboxes, corrVars, groupVars, conv, effects, started, posted, moves>>

\* The process of an agent ends; it starts again with empty hands.
Crash(a) ==
    /\ Fault
    /\ Harm({r[2] : r \in {q \in running : q[1] = a}})
    /\ running' = {r \in running : r[1] # a}
    /\ leaving' = leaving \ {a}
    /\ AskerDies(a)
    /\ UNCHANGED <<bus, groupVars, tried, accepted, used, effects, started, posted, moves>>

----------------------------------------------------------------------------
(* Handlers                                                                *)

HandlerEnds(a, m) == running' = running \ {<<a, m>>}

\* Defense in depth: commands come from the orchestrator.
Rejected(m) == m.type \in Privileged /\ m.from # Orchestrator

Handles(a, m, types) ==
    /\ <<a, m>> \in running
    /\ m.type \in types /\ ~Rejected(m)
    /\ UNCHANGED <<tried, accepted, used, started, posted, moves>>

\* The handler answers; a failed send is only logged.
Answers(a, m, type) ==
    LET reply == Reply(m, a, type) IN
    /\ SendOk(a, reply) \/ SendErr(a, reply)
    /\ HandlerEnds(a, m)

\* handle_task, handle_skill.
HandleWork(a, m) ==
    /\ Handles(a, m, {"task", "skill"})
    /\ worked' = worked \cup {<<a, m>>}
    /\ Answers(a, m, "task_result")
    /\ UNCHANGED <<corrVars, groupVars, leaving, toCore, shown>>

\* handle_channel_message.
HandleChannelMessage(a, m) ==
    /\ Handles(a, m, {"channel_message"})
    /\ Answers(a, m, "channel_response")
    /\ UNCHANGED <<corrVars, groupVars, leaving, effects>>

ShownOnce(m) == shown' = [shown EXCEPT ![<<m.cause, m.session>>] = @ + 1]

\* mutant: a failed call is made again
ShowFailsAndRetries(a, m) ==
    /\ Fault /\ Harm({m})
    /\ ShownOnce(m) \/ UNCHANGED shown
    /\ UNCHANGED running
\* The call fails, and that is logged; it may have been a success all the same.
ShowFails(a, m) ==
    /\ Fault /\ Harm({m})
    /\ ShownOnce(m) \/ UNCHANGED shown
    /\ HandlerEnds(a, m)

\* dispatch_channel_response: sendMessage to the chat the message names, or only a
\* line in the log: no Telegram chat, or no token.
HandleChannelResponse(a, m) ==
    /\ Handles(a, m, {"channel_response"})
    /\ \/ /\ m.session \in Telegram /\ a \in Bots
          /\ \/ ShownOnce(m) /\ HandlerEnds(a, m) /\ UNCHANGED <<faults, harmed>>
             \/ ShowFails(a, m)
       \/ /\ m.session \notin Telegram \/ a \notin Bots
          /\ HandlerEnds(a, m) /\ UNCHANGED <<shown, faults, harmed>>
    /\ UNCHANGED <<bus, corrVars, groupVars, leaving, worked, toCore>>

\* handle_p2p: to whoever waits for it, or else to the core.
HandleP2P(a, m) ==
    LET mine == {i \in registry : Asker[i] = a /\ i = m.corr} IN
    /\ Handles(a, m, {"p2p"})
    /\ HandlerEnds(a, m)
    /\ \/ /\ \E i \in mine : Resolve(i, m.cause)
          /\ UNCHANGED toCore
       \/ /\ mine = {}
          /\ toCore' = toCore \cup {<<a, m>>}
          /\ UNCHANGED corrVars
    /\ UNCHANGED <<bus, groupVars, leaving, worked, shown, harmed, faults>>

\* handle_system "shutdown": deregister, SREM first, then DEL of the metadata.
\* The process goes on.
HandleShutdown(a, m) ==
    /\ Handles(a, m, {"system"})
    /\ a \notin leaving
    /\ Strike(a)
    /\ leaving' = leaving \cup {a}
    /\ HandlerEnds(a, m)
    /\ UNCHANGED <<bus, corrVars, effects, harmed, faults>>

ShutdownGoesOn(a) ==
    /\ a \in leaving
    /\ QuitGroup(a)
    /\ leaving' = leaving \ {a}
    /\ UNCHANGED <<bus, corrVars, tried, accepted, used, running, effects,
                   harmed, budget>>

\* A rejected message, a type or a system command without a handler, or a
\* deregistration that fails before its first command.
HandleNothing(a, m) ==
    /\ <<a, m>> \in running
    /\ Rejected(m) \/ m.type \in {"task_result", "heartbeat", "system"}
    /\ HandlerEnds(a, m)
    /\ UNCHANGED <<bus, corrVars, groupVars, tried, accepted, used, leaving,
                   effects, harmed, budget>>

----------------------------------------------------------------------------
(* The group broadcast, of a shutdown command                              *)

GroupMessage ==
    Message(<<"group", attempt>>, Orchestrator, ToAll, "system", None, None)

GroupBegins ==
    /\ Starts
    /\ BroadcastStarts
    /\ UNCHANGED <<bus, corrVars, conv, effects, harmed, posted, faults, moves>>

GroupGoesOn ==
    \/ /\ (\E a \in Agents : Match(a)) \/ BroadcastEnds
       /\ UNCHANGED bus
    \/ \E a \in Agents : /\ SendOne(a)
                         /\ inboxes' = inboxes \cup {<<a, GroupMessage>>}
                         /\ UNCHANGED outboxes
GroupStep == GroupGoesOn /\ UNCHANGED <<corrVars, conv, effects, harmed, budget>>

GroupFails ==
    /\ Fault
    /\ \/ BroadcastFails /\ UNCHANGED bus
       \/ \E a \in Agents : /\ SendOneLost(a)
                            /\ inboxes' = inboxes \cup {<<a, GroupMessage>>}
                            /\ UNCHANGED outboxes
    /\ UNCHANGED <<corrVars, conv, effects, harmed, started, posted, moves>>

\* Registration, rule commands, the health check.  Between broadcasts it makes no
\* difference who is a member.
Move ==
    /\ state = "busy"
    /\ moves < MaxMoves /\ moves' = moves + 1
    /\ \E a \in Agents :
          \/ Enrol(a)
          \/ JoinGroup(a)
          \/ a \in ingroup /\ QuitGroup(a)
          \/ a \in roster /\ Strike(a)
    /\ UNCHANGED <<bus, corrVars, conv, effects, harmed, started, posted, faults>>

----------------------------------------------------------------------------
Handle(a, m) ==
    \/ HandleWork(a, m) \/ HandleChannelMessage(a, m)
    \/ HandleChannelResponse(a, m) \/ HandleP2P(a, m)
    \/ HandleShutdown(a, m) \/ HandleNothing(a, m)

AgentStep ==
    \/ \E e \in inboxes : Deliver(e[1], e[2])
    \/ \E r \in running : Handle(r[1], r[2])
    \/ \E a \in Agents : ShutdownGoesOn(a)

Stimulus ==
    \/ \E u \in Updates : Webhook(u)
    \/ \E m \in Commands : Command(m)
    \/ \E p \in Posts : Post(p)
    \/ \E i \in Requests : RequestBegins(i)
    \/ GroupBegins

Next ==
    \/ Stimulus
    \/ AgentStep
    \/ \E i \in Requests : \/ RequestSent(i) \/ RequestFails(i)
                           \/ RequestAccepted(i) \/ RequestAwaits(i)
    \/ GroupStep \/ GroupFails \/ Move
    \/ \E e \in inboxes : LoseEntry(e[1], e[2])
    \/ \E a \in Agents : Crash(a)

Spec == Init /\ [][Next]_vars

\* The loops and the handlers go on, the core answers, and timers fire.
FairSpec ==
    /\ Spec /\ WF_vars(AgentStep)
    /\ \A i \in Requests : WF_vars(RequestAwaits(i))

----------------------------------------------------------------------------
(* Properties                                                              *)

TypeOK ==
    /\ inboxes \subseteq Names \X Messages
    /\ outboxes \subseteq Names \X Messages
    /\ CorrTypeOK(Causes) /\ GroupTypeOK(MaxStarted)
    /\ tried \in [Updates -> 0..(MaxFaults + 1)]
    /\ accepted \subseteq Attempts
    /\ used \subseteq Commands
    /\ running \subseteq Agents \X Messages
    /\ leaving \subseteq Agents
    /\ worked \subseteq Agents \X Messages /\ toCore \subseteq Agents \X Messages
    /\ DOMAIN shown = Causes \X Sessions
    /\ \A k \in DOMAIN shown : shown[k] \in Nat
    /\ harmed \subseteq Causes
    /\ started \in 0..MaxStarted /\ posted \in 0..MaxPosted
    /\ faults \in 0..MaxFaults /\ moves \in 0..MaxMoves

\* The chats a message may be answered in: that of the update it was made of, or
\* the one that a message posted to /a2a/messages names.
BelongsIn(k, s) ==
    \/ k \in Attempts /\ k[2] <= tried[k[1]] /\ s = SessionOf[k[1]]
    \/ k \in PostCauses /\ k[3] <= posted
       /\ k[2].type \in ChatTypes /\ s = k[2].session

\* What the webhook has made of an update is answered in the chat of the update
\* and in no other, and once at most, whoever else talks to the agents, whatever
\* ids they use and whatever was sent twice.  A chat message posted to
\* /a2a/messages puts one further answer, its own, into the chat it names; no
\* other message puts anything into a chat (dispatcher.rs, types.rs reply, a2a.rs).
AnsweredInPlace ==
    \A c \in DOMAIN shown : shown[c] > 0 =>
        shown[c] = 1 /\ BelongsIn(c[1], c[2])

\* An update gets two answers only if a fault hit the first message made of it:
\* the webhook is not called again once the message has been accepted
\* (telegram.rs answers 500 for an error only).
TwiceOnlyAfterFault ==
    \A u \in Updates, i, j \in 1..(MaxFaults + 1), s, t \in Sessions :
        i < j /\ shown[<<<<u, i>>, s>>] > 0 /\ shown[<<<<u, j>>, t>>] > 0 =>
            <<u, i>> \in harmed

\* A core is given work only by the messages the orchestrator has sent, although
\* anybody's message is forwarded under the name and with the id that its sender
\* chose (routes.rs stamps it, handler.rs rejects it).
OnlyCommandsAreWorked == \A w \in worked : w[2] \in used

\* A reply goes to the core as an unsolicited message only if its request has had
\* a reply or has died with its process: as long as nobody has answered, the
\* entry is there, even if the reply overtakes the answer to the send (p2p.rs
\* registers before it sends).
FirstReplyIsNotUnsolicited ==
    \A r \in toCore, i \in Requests :
        r[1] = Asker[i] /\ r[2].corr = i =>
            \/ answer[i] # {} \/ waiter[i] = "dead"
            \/ \E s \in swallowed : s[1] = i

\* The inductive invariant.  What a message says of itself is true: a chat message
\* and the answer to it name the chat of what they come of, no message names a
\* request that has not begun, and work in the orchestrator's name is a command;
\* what comes of an update or of a post is in one place at a time; and all
\* messages made of an update but the last were hit by a fault.
Genuine(m) ==
    /\ m.from \in Agents \cup {Orchestrator}
    /\ m.type \in ChatTypes => BelongsIn(m.cause, m.session)
    /\ m.cause \in Attempts => m.type \in ChatTypes
    /\ m.cause \in PostCauses => m.cause[3] <= posted
    /\ \A i \in Requests \cap {m.id, m.corr} : waiter[i] # "idle"
    /\ m.from = Orchestrator /\ m.type \in {"task", "skill"} => m \in used

GenuineInv == \A e \in inboxes \cup running : Genuine(e[2])

OnePlace(k) ==
    /\ \A e, f \in inboxes : e[2].cause = k /\ f[2].cause = k => e = f
    /\ \A e, f \in running : e[2].cause = k /\ f[2].cause = k => e = f
    /\ \A e \in inboxes, f \in running : ~(e[2].cause = k /\ f[2].cause = k)
    /\ (\E s \in Sessions : shown[<<k, s>>] > 0) =>
          \A e \in inboxes \cup running : e[2].cause # k

AttemptsInv ==
    \A u \in Updates : \A n \in 1..tried[u] :
        <<u, n>> \in harmed \/ (n = tried[u] /\ <<u, n>> \in accepted)

ConvInv ==
    /\ TypeOK /\ CorrInv /\ GroupInv /\ attempt <= started
    /\ GenuineInv /\ (\A k \in Attempts \cup PostCauses : OnePlace(k))
    /\ AttemptsInv /\ AnsweredInPlace
    /\ OnlyCommandsAreWorked /\ FirstReplyIsNotUnsolicited

\* An update that the webhook has accepted is answered in its Telegram chat, if its
\* agent has a token, unless a fault hits the message or its answer (telegram.rs,
\* handler.rs).
ChatsAreAnswered ==
    \A u \in {v \in Updates : SessionOf[v] \in Telegram /\ BotOf[v] \in Bots},
       n \in 1..(MaxFaults + 1) :
        <<u, n>> \in accepted ~>
            shown[<<u, n>>, SessionOf[u]] > 0 \/ <<u, n>> \in harmed

----------------------------------------------------------------------------
(* What the documentation says and the code does not do                    *)

\* src/README.md:214 "`openclaw:agent:{id}:outbox` | Stream | Agent responses
\* back to orchestrator": the result of a task gets into the agent's outbox.
ResultsReachOutbox ==
    \A c \in Commands, a \in Agents :
        <<a, c>> \in worked ~> \E o \in outboxes : o[1] = a /\ o[2].cause = c.cause

=============================================================================
