# TLA+ models of PheroClaw's messaging system

PheroClaw lets a fleet of agents exchange messages through Redis streams. These
modules model the parts of it that run concurrently and fail independently, check
them with TLC on small instances, and prove the most important results with TLAPS
for every size. Paths below are relative to `src/crates/` unless they say otherwise.

    cd tla
    tlc -workers 2 -config InboxSafety.cfg MCInboxDelivery    # a run; PROJECT.json lists all
    tlapm InboxDeliveryProofs.tla                             # the proofs of a module

## 1. The system

### Components, state and operations

| Component | Source | State | Operations |
| --- | --- | --- | --- |
| Message bus | `messaging/src/transport.rs`, `keys.rs` | Redis streams: inbox and outbox of each agent, broadcast, dead letters, P2P channels; per consumer group a cursor and a pending list (PEL) | `send_to_agent`, `broadcast`, `send_to_orchestrator` (XADD with MAXLEN ~), `broadcast_to_group`, `ensure_consumer_group`, XREADGROUP and XACK |
| Membership | `messaging/src/transport.rs` | roster set, heartbeat keys (60 s), metadata hashes | `register_agent`, `register_agent_with_meta`, `refresh_heartbeat`, `deregister_agent`, `set_agent_groups`, `discover_all_agents` |
| Access rules | `messaging/src/acl.rs` | rule set and group fields in Redis, an in-process cache | `check_p2p`, `get_rules`, `get_agent_groups`, adding and removing rules |
| Gateway | `gateway/src/routes.rs`, `auth.rs` | the cache above; an immutable map of keys | HTTP relay: register, deregister, heartbeat, send, poll, ack, roster, broadcast-group |
| Agent | `agent/src/inbox.rs`, `handler.rs`, `heartbeat.rs`, `p2p.rs`, `correlation.rs`, `dispatcher.rs`, `channels/` | tasks in flight, pending replies | inbox loop, a handler task per message, heartbeat loop, shutdown, request and reply, channel adapters |
| Orchestrator | `orchestrator/src/dlq.rs`, `health.rs`, `outbox_consumer.rs`, `writer.rs`, `acl.rs`, `watch.rs` | snapshots inside a pass, the writer's channel and batch | dead letter sweep (60 s), health check (30 s), outbox consumer, task lifecycle writer, rule commands |
| Tracer | `tracer/src/consumer.rs`, `discovery.rs`, `writer.rs` | known streams, the writer's channel and batch | discovery, reading every stream, hand-over, bulk insert into PostgreSQL |

### How they interact

Nothing is shared in memory between processes; everything goes through Redis.

* An agent talks HTTP to the gateway only, and the gateway turns a request into one
  or several Redis commands. A request can be lost before, between or after its
  commands, and a command can take effect for a client that has died.
* Every message enters through the gateway's `send`, except the orchestrator's commands,
  which go straight into Redis. The gateway stamps the sender's identity on it. An answer
  is a new message to the sender of the first: for a chat that is the agent itself, whose
  handler then calls Telegram; for a P2P request the asking agent, whose handler resolves
  the waiting call.
* Messages for an agent are in its inbox and on the broadcast stream. The gateway's
  `poll` reads both for the agent's group `cg-{id}` with `>`, which returns only what
  the group has never been given. The agent acknowledges after its handler returned.
* The orchestrator works on the same pending lists: what stays unacknowledged for the
  pending timeout is re-claimed, and after `max_retries` copied to `openclaw:dlq`.
* The health check and the agents write the same roster, keys and hashes.
* The tracer reads the same streams through a group of its own, `cg-tracer`, and finds
  them through the roster.

### What is hard here

* No operation on Redis is a transaction. Register is two or three commands,
  deregister three, moving to the dead letters two; each can be cut in between.
* The sweep, the health check and the tracer's discovery decide from snapshots.
* A read is an effect: XREADGROUP moves the cursor even if its answer is lost.
* There are no timeouts on HTTP calls, so a handler may never return.
* Timing matters in two places: sleep against time to live, and the cache's stamps.
* Channels are bounded, and `try_send` drops or skips.
* Handlers run as tasks of their own: a reply may be handled before the request that
  caused it has come back from its send, or when its timeout has just fired.

The list of hazards with their lines, and the properties that cover each, is
`hazards` in `PROJECT.json`.

### What makes each component correct

* Delivery: each entry is handled at most once and stays pending until it is handled,
  dead-lettered or trimmed; the retry budget is exact; everything settles in the end.
* Membership: an agent that beats in time is never considered dead or removed; an
  agent that stays down is removed.
* Access: rules are symmetric; a verdict never rests on data older than a known bound.
* Tracer: what it acknowledged is recorded, or lost only to a crash or a failed INSERT;
  nothing is written twice; streams of members are read.
* Outbox consumer: what it acknowledged is recorded, or lost in one of the ways the code
  accepts; nothing is recorded twice; outboxes of members are read.
* Messages: an answer goes to the session or the request it belongs to, and only there;
  work is done for the orchestrator only; a group broadcast that reports success has
  reached every agent that was a member throughout.

## 2. The modules

| Module | Models | Runs |
| --- | --- | --- |
| `Mailbox` | abstract: what the bus promises to a sender | (property of `InboxSafety`) |
| `InboxDelivery` | one agent's group: producers, gateway `poll` and `ack`, inbox loop, handler tasks, sweep | `InboxSafety`, `ReclaimReprocess` |
| `Fleet` | roster, keys, metadata; register, heartbeat, deregister, health check; time | `Fleet*` |
| `AclCache` | P2P check and its cache, shared by concurrent requests; time | `Acl*` |
| `BatchWriter` | bounded channel, batch, flush (`writer.rs`) | through `Tracer` and `Outbox` |
| `Tracer` | discovery, group creation, reading, hand-over to `BatchWriter`, crashes | `Tracer*` |
| `Outbox` | the orchestrator's outbox loop over `BatchWriter`, crashes | `OutboxDelivery` |
| `Routing` | messages, replies, the gateway's stamp and routing (`types.rs`, `send_message`) | through `Conversations` |
| `Correlation` | registry and waiters of request and reply | through `Conversations` |
| `GroupBroadcast` | roster, groups and the commands of a broadcast to a group | through `Conversations` |
| `Conversations` | the three above composed with the ways in, the handlers and the dispatcher | `Conversations`, `ResultsReachOutbox` |
| `MC...` | instances for TLC | |
| `InboxDeliveryProofs`, `InboxRefinementProofs`, `FleetProofs`, `AclCacheProofs`, `TracerProofs`, `OutboxProofs`, `ConversationsProofs` | theorems | |
| `BatchWriterProofs` | lemmas about `BatchWriter` that `TracerProofs` and `OutboxProofs` share | |

Definitions marked `mutant` are plausible mistakes in the code. `PROJECT.json` pairs
each property with one of them: put in the place of the definition it changes, it makes
TLC report the property as violated.

### InboxDelivery

| Model | Code |
| --- | --- |
| `len`, `trimmed`, `cursor`, `pel`, `deliveries` | the streams and the group `cg-{id}` |
| `ripe` | idle time of a pending entry has reached `--pending-timeout-secs` |
| `Publish` | `transport.rs`, `send_to_agent` and `broadcast` with MAXLEN ~: whole blocks of old entries may go as long as `MaxLen` stay |
| `AskPoll`, `GatewayPoll`, `Receive`, `PollFails` | `inbox.rs` loop, `routes.rs` `poll`; a failed or lost answer is an empty answer |
| `StrayPoll` | a blocking read whose client has gone |
| `HandlerReturns`, `GatewayAck`, `AckFails`, `AgentCrash`, `AgentStart` | handler task and its `ack` request; the process |
| `SweepRoster` to `SweepEnds`, `SweepAborts` | `dlq.rs`, one action per Redis command |

One agent is modelled because inboxes and groups are per agent; the error of another
agent's sweep that ends the pass for this one is `SweepAborts`. `SweepReclaim` leaves
open whether XCLAIM drops an entry that the stream has trimmed, since server versions
differ. Entries that do not decode (`Foreign`) are logged and stay pending, as in the
code.

`Mailbox` says the same without cursors, polls or processes: an entry is absent, queued,
pending or closed, is begun at most once, and is closed only if done, buried or
overwritten. `ImplementsMailbox` is its specification under the refinement mapping
`Status`, `Kept`, `started`, `handled`, `dlq`.

### Fleet

One action per Redis command of each handler and of the health check. `hb` is the
remaining life of a key and `timer` the sleep left or the age of a request, so that
`Tick` makes them all older together. `missed`, `cut` and `steady` are history: beats
missed since the key was last set, whether someone deleted it, and the agents that were
fine when the pass began. Ticks pass freely; a request takes at most `MaxDelay` ticks
each way, which is an assumption about the network (the code sets no timeout).

### AclCache

A check is a process in three reads (sender's groups, target's groups, rules), each
`Hit`, or `Miss`, `Load`, `Store`: the lock is not held across the await, so other
requests interleave there. Both caches carry a stamp; the rule cache's is new with each
store, the group map's is set when the map is created. `rulesPast` and `groupsPast`
record until when a former value held. Groups are numbers in the order of their names.

### BatchWriter and Tracer

`Push` is `try_send`, `WriterRecv`, `FlushTick`, `FlushDone`, `FlushFails` the two
branches of the select loop, `WriterDies` the process. `Tracer` adds the consumer loop:
a discovery that replaces `known_streams` whether or not the groups could be created,
the read of all known streams at once (an error is taken for an empty answer), and the
hand-over entry by entry, stream by stream in any order. Streams are never trimmed in
this module; trimming before reading is a property of `InboxDelivery`.

### Outbox

| Model | Code (`outbox_consumer.rs`) |
| --- | --- |
| `Wake`, `TakeRoster`, `EnsureGroup` | the sleep, `get_roster`, one XGROUP CREATE per member, from `"0"` |
| `Read`, `ReadLost` | one XREADGROUP over all outboxes; an error is taken for an empty answer |
| `Handle` | decode, `should_persist`, `try_send`; a refused event is only logged (`dropped`) |
| `Ack`, `AckFails` | XACK of each entry, whatever became of it; an error ends the pass |
| `RosterFails`, `EnsureFails` | the calls followed by `?` |
| `Crash` | the process, with the writer's channel and batch |

It has the same shape as the tracer's loop and the opposite policy: what finds no room is
acknowledged and dropped here, and skipped and left pending there. Where the tracer forgets a
group that could not be created, this loop tries again in each pass, which is why
`ResultsAreRecorded` needs no exception for it.

### Routing, Correlation, GroupBroadcast and Conversations

`Conversations` puts `Mailbox`'s promise to use: an inbox is a set of messages, each of which
is delivered at most once (what `InboxDelivery` implements) or lost (`LoseEntry`), and the
broadcast stream is a copy in each inbox.

| Model | Code |
| --- | --- |
| `Message`, `Reply`, `Origin` | `types.rs`: `new`, `from_channel`, `reply`; the `cause` of a message is history, see below |
| `Stamped`, `Routed`, `Refused` | `routes.rs` `send_message`; whether the rules allow a P2P message is left open (`AclCache` says when) |
| `registry`, `waiter`, `answer` | `CorrelationRegistry`, a running `send_and_wait`, its one-shot channel |
| `Register` to `StartWaiting`, `SendFailed` | `p2p.rs` up to the answer to the send |
| `ReplyTaken`, `TimerFires`, `TimesOut` | the timeout's poll of the channel and then of the timer, and later the drop of the receiver; a reply may get into the channel in between |
| `Resolve` | `correlation.rs` `resolve` |
| `BroadcastStarts`, `Match`, `SendOne`, `BroadcastEnds`, `BroadcastFails`, `SendOneLost` | SMEMBERS, HGET per agent, XADD per match, and the `?` after each |
| `Webhook`, `Command`, `Post`, `RequestBegins`, `GroupBegins` | `telegram.rs` and `webchat.rs`, `task_router.rs`, `a2a.rs`, `p2p.rs`, `task_router.rs` `broadcast_to_group` |
| `Deliver`, `Handle...` | `inbox.rs` spawning `handle_message`, and each handler with the answer it sends |
| `Posted` | the body given to `/a2a/messages`: any type, sender, session, id and correlation |
| `HandleChannelResponse`, `ShownOnce`, `ShowFails` | `dispatch_channel_response`, `dispatch_telegram`; `Bots` are the agents with a token |
| `HandleShutdown`, `ShutdownGoesOn` | deregistration on command: two of its three commands (the heartbeat key is in `Fleet`); the process goes on |
| `SendErr` | `gateway_client.rs` `send_message` returns an error; a fault may hide that the message was routed |

A webhook that was answered with 500 is called again and makes a new message of the same
update (`<<u, n>>` is the n-th); `Answers200` and `Answers500` are its answers. A session
stands for a channel and an id within it. A handler's call to the core and its answer are one
step.

`/a2a/messages` forwards what it is given, so `Post` has no condition on what a message says:
it may be an answer to a chat nobody asked for, carry the id that `webchat.rs` has returned to
its caller, or repeat one. It may not name a request before the Uuid of that request has been
made, which is the only thing a poster cannot do. Since ids do not tell messages apart then,
each message has a `cause`, which is history and read by no guard: the update, command,
broadcast, request or post that it comes of, answers included. `shown` counts the answers
posted to each session for each cause, and `harmed` are the causes that a fault has hit.

The composition matters in three places: the group broadcast races registrations and the
shutdowns that it causes itself; replies race the request's own answer, and its timeout,
through inbox and handler tasks; and what comes of a post runs next to what comes of the chats,
under the same ids.

## 3. What the runs check

Runs that pass:

| Run | Shows | Instance and why it is enough |
| --- | --- | --- |
| `InboxSafety` | `HandledAtMostOnce`, `PendingUntilSettled`, `RetryBudget`, `CopiesBoundedByFaults`, `DeliveryInv`, `ImplementsMailbox`, `InboxSettles`, `EventuallyDelivered` | two inbox entries, the second not decodable, and a broadcast with pages of one, so that polls and sweeps come in several pages; `MaxLen` 1 so that trimming happens; one retry, so an entry goes through delivery, re-claim and dead letter; an agent fault (a loss or a crash) and a failed pass; handlers may hang |
| `FleetSafety` | `BeatKeepsKey`, `NoSteadyEviction`, `DownLeavesRoster` | one agent, the code's proportions (ticks of 10 s: TTL 6, period 3, delay 1), two shutdowns, three faults, so that a registration, a removal and a pass may all be cut. A pass that stops at another agent is `HealthAborts`; safety of any number of agents is proved |
| `AclSafety` | `RulesRecent`, `GroupsRecent`, `RulesAreUnordered` | two agents in different groups with a rule between them or none, two concurrent checks in both directions, one change (a rule named either way round, or groups), a clock past two cache lives |
| `TracerDelivery` | `AckedIsKept`, `NoEventTwice`, `GroupsBeforeReads`, `PublishedIsRead`, `AcceptedIsFlushed` | a common stream and an agent's stream with two entries each, a channel of one, so that it fills in the middle of an answer; a departure, a failed group creation, another failure. `PublishedIsRead` holds if no group creation fails; `TracerNewAgent` shows why |
| `OutboxDelivery` | `AckedIsAccountedFor`, `NoEventTwice`, `OnlyFaultsLeavePending`, `DropsNeedOverload`, `ResultsAreRecorded` | two agents with two entries each, one of them of a type that is not recorded; pages of one, a channel of one, batches of two; a departure (the agent may come back) and two failed calls or crashes |
| `Conversations` | `AnsweredInPlace`, `TwiceOnlyAfterFault`, `OnlyCommandsAreWorked`, `FirstReplyIsNotUnsolicited`, `OneSwallowedPerRequest`, `SteadyMembersReached`, `OnlyMembersReached`, `ChatsAreAnswered`, `WaitsEnd` | two agents; any two (`MaxTogether`) of: a Telegram update, a webchat request, a task, a broadcast shutdown, a request, a group broadcast (twice: the second as a retry) and posts; or the request with two posts, so that it may get two replies. A post is an answer to the Telegram update or a question in its chat, each under the id of the webchat request, a skill in the orchestrator's name under the id of its task, a reply to the request, a result for the outbox or a broadcast that is refused. One fault, so that an update may be sent twice, and one change of membership. Two activities are enough for each pair of them to interfere; the properties relate at most two, but for the two replies |

The properties are stated and explained in the modules. `MaxEntries`, `Limit`, the fault
and change budgets and `MaxTime` are bounds of the model, not of the code; the modules
mark them as such. The proofs of section 4 do not depend on them.

Runs that are expected to end in a violation: statements of the documentation or of a
comment that the code does not keep.

| Run | Statement | What happens |
| --- | --- | --- |
| `ReclaimReprocess` | `dlq.rs:52` "Re-claim for reprocessing" | XCLAIM's reply is dropped and polls read `>` only, so a re-claimed entry is never handled again; the sweep spends its retries by itself |
| `FleetForgotten` | `heartbeat.rs:7` keeps the agent in the roster | the beat sets the key only; an agent evicted while it registered beats on outside the roster |
| `AclGroupsCache` | `acl.rs:139` avoids Redis on every message | after its first five seconds the group map is never fresh again |
| `TracerBacklog` | `consumer.rs:123` stays in PEL for retry | nothing reads the pending list again |
| `ResultsReachOutbox` | `README.md:214` the outbox has "Agent responses back to orchestrator" | a result is addressed to the sender of its task, so it goes to the inbox of an agent called `orchestrator`, which nobody reads; nothing in the code sends to the target `Orchestrator` |
| `TracerNewAgent` | PRD `messaging:2688` new agents picked up, no restart | after a failed group creation the stream counts as known; reads of all streams fail until a restart |

More differences follow from the models and have no run of their own: an entry that is
acknowledged after the sweep's snapshot is dead-lettered although it was handled
(`SweepCopy` does not look again); pending broadcasts are never swept (`InboxPending`),
although PRD `messaging:2309` says so; one missed beat lets a key expire, because two
periods are its time to live exactly (`BeatKeepsKey` needs `missed[a] = 0`; `README.md:96`
says two); and what is written to the streams of an agent that leaves before the next
discovery is not recorded (`PublishedIsRead` needs `a \in roster`; `README.md:3` says all
messages are). A request that failed or timed out leaves its entry in the registry for ever
(only `Resolve` removes one), although PRD `messaging:2526` cancels it; a reply that is put
into the channel after the timer was polled and before the receiver is dropped is lost, and
its handler is told that it was delivered. A message posted to `/a2a/messages` keeps the
channel of its body, so an answer posted there may go to a Telegram chat (`BelongsIn` has a
case for it), although PRD `messaging:1640` says "Re-tag the channel as A2A (the sender
might have set it differently)". And `handle_p2p` sends no reply itself and gives the core
the payload without its id, so the replies of `Correlation` come from `Post`, by a core that
has learned the id some other way.

(PRD `messaging` is `src/PRDs/pheroclaw-messaging.md`, `README.md` is `src/README.md`.)

### Fairness

* Loops (`AskPoll`, `Receive`, sweep steps, health steps, the tracer's loop and writer)
  are weakly fair: they are endless loops that log errors and go on.
* Requests in flight are served (`GatewayPoll`, `GatewayAck`, `RequestStep`): they are
  served or fail, and failures are bounded by the fault budgets. A system in which Redis
  fails for ever promises nothing.
* `AgentStart` is weakly fair in `InboxDelivery`, because systemd restarts the services
  (`Restart=always`, `src/deploy.sh:347`, 404, 459 and 525). `Start` in `Fleet` is not:
  there the question is what happens to a machine that does not come back.
* Time passes: `Ripen`, `Tick`, `IntervalElapses`.
* `Outbox` is weakly fair in its loop and its writer; nothing makes an agent stay, so
  `ResultsAreRecorded` is about those that do.
* In `Conversations` deliveries and handlers are fair (`AgentStep`), jointly: it is enough for
  `ChatsAreAnswered`, since every stimulus is bounded. There the core is taken to answer. Each
  request that waits is fair too (`RequestAwaits`): tokio's timers fire and its woken tasks
  are polled. Before it waits it may stop at any step, as no HTTP call has a timeout, and so
  may a broadcast.
* Nothing is assumed of `HandlerReturns`, since calls to the core have no timeout. Only
  `ReclaimReprocess` assumes it, so that its counterexample does not depend on a handler
  that hangs.
* `InboxSettles` assumes that the agent stays in the roster from some time on. Without
  that it is false: the sweep walks through the roster only.

Deadlock is checked except in the `Acl*` runs, which stop when the clock has reached
`MaxTime` and the changes are used up, and in the two runs of `MCConversations`, which stop
when all messages are handled and nobody sends another.

## 4. What is proved

All safety properties of the passing runs, for every value of the constants that
satisfies the assumptions named in the modules:

| Module | Theorem | Says |
| --- | --- | --- |
| `InboxDeliveryProofs` | `TypeCorrect`, `DeliveryInvariant` | `TypeOK` and the inductive `DeliveryInv` are invariant |
| | `NeverHandledTwice`, `NothingVanishes`, `BudgetKept`, `CopiesBounded` | four safety properties of `InboxSafety`, for any number of entries, retries, page sizes and faults |
| `InboxRefinementProofs` | `DeliveryImplementsMailbox` | `Spec => M!Spec` |
| `FleetProofs` | `FleetTypeCorrect`, `FleetInvariant` | `TypeOK` and the inductive `FleetInv` |
| | `KeyOutlivesGap`, `SteadyAgentSurvives` | `BeatKeepsKey` and `NoSteadyEviction`, for any number of agents, period, delay and time to live within the assumption |
| `AclCacheProofs` | `AclTypeCorrect`, `AclInvariant` | `TypeOK` and the inductive `CacheInv` |
| | `RulesStayUnordered`, `DecidesByRecentRules`, `DecidesByRecentGroups` | `RulesAreUnordered`, `RulesRecent` and `GroupsRecent`, for any number of agents, groups, concurrent checks and changes, any cache life and delay |
| `TracerProofs` | `TracerTypeCorrect`, `TracerInvariant` | `TypeOK` and the inductive `TracerInv` |
| | `AcknowledgedIsKept`, `WrittenOnce`, `ReadStreamsHaveGroups` | `AckedIsKept`, `NoEventTwice` and `GroupsBeforeReads`, for any streams, sizes of channel and batch, and number of faults |
| `OutboxProofs` | `OutboxTypeCorrect`, `OutboxInvariant` | `TypeOK` and the inductive `OutboxInv` |
| | `AcknowledgedIsAccountedFor`, `HandedOverOnce`, `NothingPendingWithoutFault`, `OnlyOverloadDrops` | `AckedIsAccountedFor`, `NoEventTwice`, `OnlyFaultsLeavePending` and `DropsNeedOverload`, for any number of agents and entries and any sizes |
| `ConversationsProofs` | `ConversationsTypeCorrect`, `ConversationsInvariant` | `TypeOK` and the inductive `ConvInv` |
| | `AnswersFindTheirPlace`, `SecondAnswersComeOfFaults`, `OnlyTheOrchestratorCommands` | `AnsweredInPlace`, `TwiceOnlyAfterFault` and `OnlyCommandsAreWorked` |
| | `FirstReplyFindsItsRequest`, `OneReplyIsSwallowed` | `FirstReplyIsNotUnsolicited` and `OneSwallowedPerRequest` |
| | `BroadcastReachesMembers`, `BroadcastReachesOnlyMembers` | `SteadyMembersReached` and `OnlyMembersReached`; all seven for any agents, sessions, updates, commands, posts and requests |

Hardly any of the properties is inductive as it stands. Each inductive
invariant was first checked by TLC as an invariant of the component's run.

**Delivery.** That no entry starts twice needs
that an entry in an answer on its way has never started, and that in turn that what a
group has not read has no delivery count (`StreamsInv`, `AgentInv`). That the budget is
exact, although the sweep decides from a snapshot, needs that the counts in the snapshot
are still true when it acts; only the sweep moves a counter beyond one, and the cursor
keeps polls from resetting it (`SweepInv`). Copies are bounded because an entry pending
outside the hand of the sweep has at most one copy per failed pass.

**Refinement.** Each action is mapped to one step of `Mailbox` or to a stutter; the
invariant supplies the guards, e.g. `Close` needs the reason that `PendingUntilSettled`
gives.

**Fleet.** `BeatKeepsKey` needs an account of the key's life since its last SET, which is
different while the answer is on its way, while the loop sleeps and while the next
request is under way (`GapInv`): what has passed plus what can still pass is below TTL.
`NoSteadyEviction` then follows, as a pass finds no key missing of an agent that is alive,
and no pass takes over a verdict of an earlier one (`EvictionInv`).

**Access rules.** The bounds on age say nothing of how a value got into the hands of a
check, so the invariant follows it there: a loaded value is as old as its answer, a
cache entry as old as its stamp says and one answer more (`CachedRulesInv`,
`CachedGroupsInv`), since a slow load gets the stamp of its store, and a check ages what it
holds by the reads that are still to come (`CheckedRulesInv`, `CheckedGroupsInv`, `Reach`). A
former value is recent by the time it was replaced; a change in Redis adds the value it
replaces, which was current until now, and so keeps everything recent that was. `TypeOK` is not
inductive by itself: the age of a request stays within `MaxDelay` only because a
request that is not in flight has age 0 (`ChecksInv`).

**Batch writer, tracer, outbox consumer.** The invariants are about custody: each
delivered entry is in the answer, or in the hands of the writer, recorded, lost or
dropped, and in one of them only (`LoopInv` and `CustodyInv`; `PassInv` and `HandoverInv`).
What the writer itself does with the events it holds, in the channel, the batch and the table,
is proved once in `BatchWriterProofs`, as one lemma per step, for whatever its user takes
for events; both users cite these. The other half is that a group's cursor is
never behind what it has delivered, so that a read adds new entries only. Nothing
stays pending without a fault because a pass acknowledges all that it was given, and
nothing is dropped without overload because what is in the channel, and the event that
finds no room there, are different events that have been answered (a count of finite
sets; it needs that agents are finitely many).

**Conversations.** `AnsweredInPlace` needs two facts about messages at large. What a message
says of itself is true, as far as the gateway and the handlers see to it: whatever comes of an
update is a chat message and names the chat of the update, what comes of a post names the chat
that the post named and is a chat message only if the post was one, a message that names a
request comes after the request has begun, and work in the orchestrator's name is one of its
commands (`GenuineInv`, with `BelongsIn`). And a conversation is in one place at a time: of
each message made of an update, and of each post, there is one inbox entry, or one handler
task, or an answer posted (`OnePlace`). A post may be an answer itself and put its text into
any chat it names; that is one answer of the post and none of an update, which is what the
theorem says. `TwiceOnlyAfterFault` needs that all messages made of an update but the last
have been hit by a fault, and the last too unless it was accepted (`AttemptsInv`). The request side has its own invariant (`CorrInv`): as long as an
entry is in the registry its request has had no reply, and a request without an entry has
not begun or has had its reply or its end (`Settled`); `Settled` lasts, which is what
`FirstReplyIsNotUnsolicited` remembers of the past. The broadcast has `GroupInv`: a steady
member is matched or still to be, and what is matched has the message or is still to get
it. The proofs for `Correlation` and `GroupBroadcast` see the rest of the system only
through lemmas that say which of their steps each step of the composition is.

### Assumptions

| Assumption | Why it may be made |
| --- | --- |
| streams are distinct, bounds are natural numbers, sizes are positive | keys are made of distinct prefixes and ids; the code's constants |
| `Period + 2 * MaxDelay < TTL` (`Fleet`) | about the network and the load; the code has 30 s and 60 s and no timeout, see section 5 |
| `GroupsAssumption`, `PairsAssumption` (`AclCache`) | groups stand for names in order; checks are between agents |
| `AgentsAssumption` (`Outbox`) | the roster is a set in Redis, thus finite |
| `OwnRowAssumption` (`Outbox`) | `outbox_consumer.rs:105` gives each event it hands over a new UUID; that no event is handed over twice is proved, so a row id for each event is enough |
| `ConversationTypes` | no agent is named like the orchestrator or the gateway's special targets; senders and recipients are those the configuration names |
| `FreshIds` (`Conversations`) | only of messages the code makes: `types.rs` gives each a new UUID. Nothing is assumed of the ids in posts, which may be any of those or none; that different posts differ is by their `cause`, which is history |

### Model-checked only

* Liveness: `InboxSettles`, `EventuallyDelivered`, `DownLeavesRoster`, `PublishedIsRead`,
  `AcceptedIsFlushed`, `ResultsAreRecorded`, `ChatsAreAnswered` and `WaitsEnd`; the prover has no
  rules for fairness here.
* The violations: a counterexample needs no proof.

## 5. What is not modelled, and why

* Payloads and their serialisation; `retry_count` is declared and never used.
* `send_a2a` (`agent/src/channels/a2a.rs`): a call without state that has no caller.
* `record_outbound` (`orchestrator/src/task_router.rs`): the outbound rows of commands; the
  functions that call it have no caller.
* The roster request and `discover_all_agents`, which only read.
* `gateway/src/auth.rs`: lookup in a map that never changes.
* `orchestrator/src/watch.rs`: display through a group of its own.
* `src/deploy.sh`: installation; its rule commands are those of `AclCache`, its units
  justify the restart assumption.
* Redis itself and PostgreSQL: external, modelled by what the code relies on (stream ids
  that grow, the cursor and PEL of a group, SET with EX, ON CONFLICT DO NOTHING). Redis
  does not lose data in the models.

Abstractions: a payload is whether it decodes; idle time is whether it reached the
timeout; group names are numbers (joining with `:` and `,` is left out); what is posted to
`/a2a/messages` is what `Posts` lists, any list in the
proofs and a few bodies in the runs. All commands of the gateway share one connection,
which a poll can hold for up to five seconds: in `Fleet` that wait is part of `MaxDelay`,
and how it grows with the number of agents is not modelled, so the assumption
`Period + 2 * MaxDelay < TTL` is also one about the size of the fleet.

## 6. Plan

Done: `Mailbox` and `InboxDelivery` with proofs and refinement; `Fleet`, `AclCache`,
`BatchWriter`, `Tracer`, `Outbox`, `Routing`, `Correlation`, `GroupBroadcast` and
`Conversations`, with the safety properties of all of them proved.

To do, in this order:

1. An abstract specification of the two consumers' custody, with the proof that `Tracer`
   and `Outbox` implement it, as `Mailbox` is for delivery.
2. Action properties worth having beside the invariants: what is acknowledged, lost or
   recorded stays so; a registry entry is made once and removed once.
3. `Fleet` composed with `AclCache`: an evicted agent loses its groups, and neither its
   beats nor a new registration bring them back.
4. The gateway's one connection to Redis, with the polls that block it.
5. The encoding of rules and groups as strings, checked over bounded inputs.
