--------------------------- MODULE InboxDelivery ---------------------------
(***************************************************************************)
(* How one agent's messages travel from its Redis streams to its handlers, *)
(* and what the orchestrator's pending sweep does to them meanwhile.       *)
(*                                                                         *)
(* Three processes share the agent's consumer group "cg-{id}":             *)
(*   - producers XADD to the agent's inbox and to the broadcast stream;    *)
(*   - the agent's inbox loop (inbox.rs) polls through the gateway         *)
(*     (routes.rs, poll), spawns one handler task per entry, and each      *)
(*     task acknowledges its entry when the handler has returned;          *)
(*   - the orchestrator's sweep (dlq.rs) snapshots the pending list of the *)
(*     inbox, and re-claims or dead-letters what it finds in the snapshot. *)
(*                                                                         *)
(* Agents do not share inboxes or groups, so one agent is modelled; that   *)
(* the sweep of another agent can fail first and end the pass is the       *)
(* sweep's fault action.  A payload is abstracted to whether it decodes    *)
(* (Foreign); an idle time to whether it has reached the pending timeout   *)
(* (ripe).                                                                 *)
(***************************************************************************)
EXTENDS Naturals, FiniteSets

CONSTANTS
    Inbox, Broadcast, \* the two streams an agent polls
    MaxEntries,       \* bound: entry ids of a stream are 1..MaxEntries
    Limit,            \* bound: entries ever added to each stream
    MaxLen,           \* MAX_STREAM_LEN, the MAXLEN ~ of every XADD
    ReadCount,        \* COUNT of XREADGROUP (10)
    PageSize,         \* entries XPENDING returns to the sweep (50)
    MaxRetries,       \* --max-retries of the orchestrator (3)
    MaxAgentFaults,   \* bound: crashes, lost answers and lost acks
    MaxSweepFaults,   \* bound: sweeps ended by an error or a crash
    Foreign           \* entries whose "msg" field is no ClawMessage

Streams == {Inbox, Broadcast}
Ids     == 1..MaxEntries
Entries == Streams \X Ids

ASSUME StreamsAssumption == Inbox # Broadcast
ASSUME BoundsAssumption ==
    /\ MaxEntries \in Nat
    /\ Limit \in [Streams -> 0..MaxEntries]
    /\ MaxLen \in Nat \ {0}
    /\ ReadCount \in Nat \ {0}
    /\ PageSize \in Nat \ {0}
    /\ MaxRetries \in Nat
    /\ MaxAgentFaults \in Nat
    /\ MaxSweepFaults \in Nat
    /\ Foreign \subseteq Entries

VARIABLES
    \* --- Redis: streams and the agent's consumer group ---
    len,         \* entries added to each stream so far: ids 1..len[s]
    trimmed,     \* ids 1..trimmed[s] have been trimmed by MAXLEN
    cursor,      \* last-delivered-id of the group on each stream
    pel,         \* the group's pending entries list, both streams
    deliveries,  \* delivery counter of an entry, kept after it left the PEL
    ripe,        \* pending entries idle for at least the pending timeout
    dlq,         \* copies of an entry on the dead letter stream
    rostered,    \* the agent is in openclaw:agent:roster
    \* --- agent process and gateway requests in flight ---
    poll,        \* the inbox loop: down, ready, asked or answered
    batch,       \* entries in the poll answer on its way to the agent
    stray,       \* a poll whose client is gone may still reach Redis
    handling,    \* entries whose handler task runs
    acking,      \* entries whose ack request is in flight
    \* --- orchestrator sweep ---
    sweep,       \* idle, listed, scan or copied
    todo,        \* snapshot rows [entry, deliveries] still to be processed
    current,     \* the row being moved to the DLQ
    \* --- history and fault counters ---
    started,     \* handler tasks ever spawned for an entry
    handled,     \* entries whose handler has returned
    agentFaults, sweepFaults

redis   == <<len, trimmed, cursor, pel, deliveries, ripe, dlq, rostered>>
agent   == <<poll, batch, stray, handling, acking>>
orch    == <<sweep, todo, current>>
history == <<started, handled>>
faults  == <<agentFaults, sweepFaults>>
vars    == <<redis, agent, orch, history, faults>>

Rows   == [entry : Entries, deliveries : Nat]
InLog(e) == e[2] > trimmed[e[1]]        \* the stream still holds the entry

Init ==
    /\ len = [s \in Streams |-> 0]
    /\ trimmed = [s \in Streams |-> 0]
    /\ cursor = [s \in Streams |-> 0]
    /\ pel = {}
    /\ deliveries = [e \in Entries |-> 0]
    /\ ripe = {}
    /\ dlq = [e \in Entries |-> 0]
    /\ rostered = TRUE
    /\ poll = "ready"
    /\ batch = {}
    /\ stray = FALSE
    /\ handling = {}
    /\ acking = {}
    /\ sweep = "idle"
    /\ todo = {}
    /\ current = {}
    /\ started = [e \in Entries |-> 0]
    /\ handled = {}
    /\ agentFaults = 0
    /\ sweepFaults = 0

----------------------------------------------------------------------------
(* Producers and time                                                      *)

\* XADD key MAXLEN ~ n *: the new entry gets the next id, and whole blocks of
\* the oldest entries may go as long as MaxLen entries stay.
Publish(s) ==
    /\ len[s] < Limit[s]
    /\ len' = [len EXCEPT ![s] = @ + 1]
    /\ \E t \in trimmed[s]..len[s] :
          /\ t = trimmed[s] \/ len[s] + 1 - t >= MaxLen
          /\ trimmed' = [trimmed EXCEPT ![s] = t]
    /\ UNCHANGED <<cursor, pel, deliveries, ripe, dlq, rostered,
                   agent, orch, history, faults>>

\* A pending entry's idle time reaches the sweep's --pending-timeout-secs.
Ripen(e) ==
    /\ e \in pel \ ripe
    /\ ripe' = ripe \cup {e}
    /\ UNCHANGED <<len, trimmed, cursor, pel, deliveries, dlq, rostered,
                   agent, orch, history, faults>>

\* The agent leaves the roster: a shutdown command, a graceful stop, or the
\* orchestrator's health check.  Its loops go on unless it also stops.
LeaveRoster ==
    /\ rostered
    /\ agentFaults < MaxAgentFaults
    /\ rostered' = FALSE
    /\ agentFaults' = agentFaults + 1
    /\ UNCHANGED <<len, trimmed, cursor, pel, deliveries, ripe, dlq,
                   agent, orch, history, sweepFaults>>

----------------------------------------------------------------------------
(* The agent's inbox loop and the gateway's poll and ack handlers          *)

\* main: register with the gateway, then start the inbox loop.
AgentStart ==
    /\ poll = "down"
    /\ poll' = "ready"
    /\ rostered' = TRUE
    /\ UNCHANGED <<len, trimmed, cursor, pel, deliveries, ripe, dlq,
                   batch, stray, handling, acking, orch, history, faults>>

\* poll_inbox: send the poll request.  One request at a time.
AskPoll ==
    /\ poll = "ready"
    /\ poll' = "asked"
    /\ UNCHANGED <<redis, batch, stray, handling, acking, orch, history,
                   faults>>

\* XREADGROUP ... COUNT n STREAMS s >: the entries after the group's cursor
\* that the stream still holds, at most ReadCount of each stream.  What is
\* still held and not yet delivered is a run of consecutive ids.
NextIdFromZero(s) == trimmed[s]                     \* mutant: reads "0"
NextId(s)   == IF cursor[s] < trimmed[s] THEN trimmed[s] ELSE cursor[s]
LastRead(s) == IF len[s] - NextId(s) <= ReadCount
               THEN len[s] ELSE NextId(s) + ReadCount
Unread      == {e \in Entries : NextId(e[1]) < e[2] /\ e[2] <= LastRead(e[1])}

\* mutant: the group jumps to the end of the stream with every read
ReadGroupToEnd ==
    /\ cursor' = len
    /\ pel' = pel \cup Unread
    /\ deliveries' = [e \in Entries |->
                        IF e \in Unread THEN 1 ELSE deliveries[e]]

ReadGroup ==
    /\ cursor' = [s \in Streams |-> LastRead(s)]
    /\ pel' = pel \cup Unread
    /\ deliveries' = [e \in Entries |->
                        IF e \in Unread THEN 1 ELSE deliveries[e]]

\* poll: both groups exist ("0"), read both streams, answer the agent.
\* With nothing new the block times out and the answer is empty.
GatewayPoll ==
    /\ poll = "asked"
    /\ ReadGroup
    /\ batch' = Unread
    /\ poll' = "answered"
    /\ UNCHANGED <<len, trimmed, ripe, dlq, rostered, stray, handling, acking,
                   orch, history, faults>>

\* The agent's side of a poll is gone but its blocking read still ran.
StrayPoll ==
    /\ stray
    /\ ReadGroup
    /\ stray' = FALSE
    /\ UNCHANGED <<len, trimmed, ripe, dlq, rostered, poll, batch, handling,
                   acking, orch, history, faults>>

\* mutant: entries are acknowledged on receipt, before their handlers ran
ReceiveAckingFirst ==
    /\ poll = "answered"
    /\ poll' = "ready"
    /\ batch' = {}
    /\ handling' = handling \cup (batch \ Foreign)
    /\ acking' = acking \cup (batch \ Foreign)
    /\ started' = [e \in Entries |-> IF e \in batch \ Foreign
                                     THEN started[e] + 1 ELSE started[e]]
    /\ UNCHANGED <<redis, stray, orch, handled, faults>>

\* mutant: an entry that does not decode is acknowledged instead of kept
ReceiveDroppingForeign ==
    /\ poll = "answered"
    /\ poll' = "ready"
    /\ batch' = {}
    /\ handling' = handling \cup (batch \ Foreign)
    /\ acking' = acking \cup (batch \cap Foreign)
    /\ started' = [e \in Entries |-> IF e \in batch \ Foreign
                                     THEN started[e] + 1 ELSE started[e]]
    /\ UNCHANGED <<redis, stray, orch, handled, faults>>

\* The answer reaches the loop: one task per entry that decodes.  An entry
\* that does not decode is only logged, and stays pending.
Receive ==
    /\ poll = "answered"
    /\ poll' = "ready"
    /\ batch' = {}
    /\ handling' = handling \cup (batch \ Foreign)
    /\ started' = [e \in Entries |-> IF e \in batch \ Foreign
                                     THEN started[e] + 1 ELSE started[e]]
    /\ UNCHANGED <<redis, stray, acking, orch, handled, faults>>

\* The poll fails: refused, cut before Redis was reached (the request may
\* still get there), read but answered with an empty default, or its answer
\* lost on the way.  The loop backs off and asks again.
PollFails ==
    /\ poll \in {"asked", "answered"}
    /\ agentFaults < MaxAgentFaults
    /\ poll' = "ready"
    /\ batch' = {}
    /\ stray' \in {stray, stray \/ poll = "asked"}
    /\ agentFaults' = agentFaults + 1
    /\ UNCHANGED <<redis, handling, acking, orch, history, sweepFaults>>

\* handle_message returns; the task sends its ack.
HandlerReturns(e) ==
    /\ e \in handling
    /\ handling' = handling \ {e}
    /\ handled' = handled \cup {e}
    /\ acking' = acking \cup {e}
    /\ UNCHANGED <<redis, poll, batch, stray, orch, started, faults>>

\* mutant: the idle clock outlives the pending entry
GatewayAckKeepingIdle(e) ==
    /\ e \in acking
    /\ acking' = acking \ {e}
    /\ pel' = pel \ {e}
    /\ UNCHANGED <<len, trimmed, cursor, deliveries, ripe, dlq, rostered,
                   poll, batch, stray, handling, orch, history, faults>>

\* ack at the gateway: XACK.
GatewayAck(e) ==
    /\ e \in acking
    /\ acking' = acking \ {e}
    /\ pel' = pel \ {e}
    /\ ripe' = ripe \ {e}
    /\ UNCHANGED <<len, trimmed, cursor, deliveries, dlq, rostered,
                   poll, batch, stray, handling, orch, history, faults>>

\* The ack never takes effect; the task only logs that.
AckFails(e) ==
    /\ e \in acking
    /\ agentFaults < MaxAgentFaults
    /\ acking' = acking \ {e}
    /\ agentFaults' = agentFaults + 1
    /\ UNCHANGED <<redis, poll, batch, stray, handling, orch, history,
                   sweepFaults>>

\* The process dies with its tasks.  Requests already sent may still land.
AgentCrash ==
    /\ poll # "down"
    /\ agentFaults < MaxAgentFaults
    /\ poll' = "down"
    /\ batch' = {}
    /\ handling' = {}
    /\ stray' \in {stray, stray \/ poll = "asked"}
    /\ agentFaults' = agentFaults + 1
    /\ UNCHANGED <<redis, acking, orch, history, sweepFaults>>

----------------------------------------------------------------------------
(* The orchestrator's sweep of the inbox PEL (the broadcast PEL is never   *)
(* read)                                                                   *)

\* sweep_pending: the roster snapshot has the agent.
SweepRoster ==
    /\ sweep = "idle"
    /\ rostered
    /\ sweep' = "listed"
    /\ UNCHANGED <<redis, agent, todo, current, history, faults>>

\* XPENDING inbox group - + n: the first PageSize entries; rows that have
\* not been idle long enough are skipped.
InboxPending == {e \in pel : e[1] = Inbox}
Page == {e \in InboxPending :
            Cardinality({f \in InboxPending : f[2] < e[2]}) < PageSize}

SweepPending ==
    /\ sweep = "listed"
    /\ sweep' = "scan"
    /\ todo' = {[entry |-> e, deliveries |-> deliveries[e]] : e \in Page \cap ripe}
    /\ UNCHANGED <<redis, agent, current, history, faults>>

\* Rows are processed in the order XPENDING returned them.
IsNext(row) == /\ row \in todo
               /\ \A other \in todo : row.entry[2] <= other.entry[2]

\* deliveries > max_retries: the entry has used up its retries.
GivesUpEarly(row) == row.deliveries >= MaxRetries   \* mutant
GivesUp(row) == row.deliveries > MaxRetries

\* XCLAIM counts one more delivery, unless it were called with JUSTID.
ClaimedJustId(e) == deliveries                      \* mutant
Claimed(e) == [deliveries EXCEPT ![e] = @ + 1]

\* XCLAIM without FORCE, with min-idle-time: an entry that is still pending
\* and idle is delivered again on paper (counter, idle time); its reply, the
\* entry itself, is dropped.  One that the stream has trimmed is removed from
\* the PEL by Redis 7 and claimed like any other by older servers.
SweepReclaim(row) ==
    LET e == row.entry IN
    /\ sweep = "scan"
    /\ IsNext(row)
    /\ ~GivesUp(row)
    /\ todo' = todo \ {row}
    /\ \/ /\ e \in ripe
          /\ deliveries' = Claimed(e)
          /\ ripe' = ripe \ {e}
          /\ pel' = pel
       \/ /\ e \in pel /\ ~InLog(e)
          /\ pel' = pel \ {e}
          /\ ripe' = ripe \ {e}
          /\ UNCHANGED deliveries
       \/ /\ e \notin ripe
          /\ UNCHANGED <<pel, ripe, deliveries>>
    /\ UNCHANGED <<len, trimmed, cursor, dlq, rostered, agent, sweep, current,
                   history, faults>>

\* move_to_dlq, first half: XRANGE and XADD openclaw:dlq.
SweepCopy(row) ==
    /\ sweep = "scan"
    /\ IsNext(row)
    /\ GivesUp(row)
    /\ todo' = todo \ {row}
    /\ current' = {row.entry}
    /\ dlq' = [dlq EXCEPT ![row.entry] = @ + 1]
    /\ sweep' = "copied"
    /\ UNCHANGED <<len, trimmed, cursor, pel, deliveries, ripe, rostered,
                   agent, history, faults>>

\* mutant: the copied entry is not acknowledged
SweepAckForgotten ==
    /\ sweep = "copied"
    /\ current' = {}
    /\ sweep' = "scan"
    /\ UNCHANGED <<redis, agent, todo, history, faults>>

\* move_to_dlq, second half: XACK.
SweepAck ==
    /\ sweep = "copied"
    /\ pel' = pel \ current
    /\ ripe' = ripe \ current
    /\ current' = {}
    /\ sweep' = "scan"
    /\ UNCHANGED <<len, trimmed, cursor, deliveries, dlq, rostered, agent,
                   todo, history, faults>>

\* The rows are done; the loop sleeps until its next pass.
SweepEnds ==
    /\ sweep = "scan"
    /\ todo = {}
    /\ sweep' = "idle"
    /\ UNCHANGED <<redis, agent, todo, current, history, faults>>

\* mutant: an error keeps the snapshot for the next pass
SweepAbortsKeepingRows ==
    /\ sweep # "idle"
    /\ sweepFaults < MaxSweepFaults
    /\ sweep' = "idle"
    /\ current' = {}
    /\ sweepFaults' = sweepFaults + 1
    /\ UNCHANGED <<redis, agent, todo, history, agentFaults>>

\* A Redis error leaves sweep_pending through "?", or the orchestrator dies.
\* Either way the pass is over and its snapshot forgotten.
SweepAborts ==
    /\ sweep # "idle"
    /\ sweepFaults < MaxSweepFaults
    /\ sweep' = "idle"
    /\ todo' = {}
    /\ current' = {}
    /\ sweepFaults' = sweepFaults + 1
    /\ UNCHANGED <<redis, agent, history, agentFaults>>

----------------------------------------------------------------------------
AgentStep ==
    \/ AskPoll \/ GatewayPoll \/ StrayPoll \/ Receive
    \/ \E e \in Entries : HandlerReturns(e) \/ GatewayAck(e)

SweepStep ==
    \/ SweepRoster \/ SweepPending \/ SweepAck \/ SweepEnds
    \/ \E row \in todo : SweepReclaim(row) \/ SweepCopy(row)

FaultStep ==
    \/ LeaveRoster \/ PollFails \/ AgentCrash \/ SweepAborts
    \/ \E e \in Entries : AckFails(e)

Next ==
    \/ \E s \in Streams : Publish(s)
    \/ \E e \in Entries : Ripen(e)
    \/ AgentStart
    \/ AgentStep
    \/ SweepStep
    \/ FaultStep

Spec == Init /\ [][Next]_vars

----------------------------------------------------------------------------
(* Safety                                                                  *)

TypeOK ==
    /\ len \in [Streams -> Nat]
    /\ trimmed \in [Streams -> Nat]
    /\ cursor \in [Streams -> Nat]
    /\ pel \subseteq Entries
    /\ deliveries \in [Entries -> Nat]
    /\ ripe \subseteq pel
    /\ dlq \in [Entries -> Nat]
    /\ rostered \in BOOLEAN
    /\ poll \in {"down", "ready", "asked", "answered"}
    /\ batch \subseteq Entries
    /\ stray \in BOOLEAN
    /\ handling \subseteq Entries
    /\ acking \subseteq Entries
    /\ sweep \in {"idle", "listed", "scan", "copied"}
    /\ todo \subseteq Rows
    /\ current \subseteq Entries
    /\ started \in [Entries -> Nat]
    /\ handled \subseteq Entries
    /\ agentFaults \in 0..MaxAgentFaults
    /\ sweepFaults \in 0..MaxSweepFaults

\* No entry is handed to a handler twice, whatever crashes, repeated polls,
\* stray reads and re-claims happen: the poll reads ">" only (routes.rs, poll)
\* and the sweep drops what XCLAIM returns (dlq.rs).
HandledAtMostOnce == \A e \in Entries : started[e] <= 1

\* An entry that was delivered to the agent's group stays pending until its
\* handler has returned or a copy of it is on the dead letter stream; only an
\* entry the stream itself has trimmed may vanish otherwise.  (inbox.rs acks
\* after the handler; move_to_dlq adds before it acks.)
PendingUntilSettled ==
    \A e \in Entries :
        deliveries[e] > 0 /\ e \notin pel =>
            e \in handled \/ dlq[e] > 0 \/ ~InLog(e)

\* The sweep never gives up early and never counts past its budget: a
\* dead-lettered entry has been delivered once and re-claimed MaxRetries times,
\* although the sweep decides from a snapshot (dlq.rs, sweep_pending).
RetryBudget ==
    \A e \in Entries :
        /\ deliveries[e] <= MaxRetries + 1
        /\ dlq[e] > 0 => deliveries[e] = MaxRetries + 1

\* The dead letter stream gets a second copy of an entry only when a pass ended
\* between the XADD and the XACK of move_to_dlq.
CopiesBoundedByFaults == \A e \in Entries : dlq[e] <= 1 + sweepFaults

----------------------------------------------------------------------------
(* The inductive invariant behind the four properties above                *)

\* Redis: the group reads behind the stream; what it has not read has no
\* delivery count, and what is pending has one.
StreamsInv ==
    /\ \A s \in Streams : trimmed[s] <= len[s] /\ cursor[s] <= len[s]
    /\ \A e \in Entries : deliveries[e] > 0 => e[2] <= cursor[e[1]]
    /\ \A e \in pel : deliveries[e] > 0

\* Agent: an answer holds entries no handler has seen; tasks run on entries
\* started once; only handled entries are acknowledged.
AgentInv ==
    /\ \A e \in batch : deliveries[e] > 0 /\ started[e] = 0
    /\ \A e \in handling : started[e] = 1
    /\ acking \subseteq handled
    /\ \A e \in handled : started[e] = 1
    /\ \A e \in Entries : started[e] > 0 => deliveries[e] > 0

\* Sweep: only the sweep moves delivery counters on, so the counts of its
\* snapshot stay true although its idle times and memberships do not; an
\* entry between its copy and its ack is one copy ahead of the others.
SweepInv ==
    /\ todo # {} => sweep \in {"scan", "copied"}
    /\ current # {} => sweep = "copied"
    /\ \A row \in todo :
          /\ row.deliveries = deliveries[row.entry]
          /\ row.deliveries > 0
          /\ dlq[row.entry] <= sweepFaults
    /\ \A e \in current : dlq[e] > 0
    /\ \A e \in pel \ current : dlq[e] <= sweepFaults

DeliveryInv ==
    /\ TypeOK
    /\ StreamsInv /\ AgentInv /\ SweepInv
    /\ HandledAtMostOnce
    /\ PendingUntilSettled
    /\ RetryBudget
    /\ CopiesBoundedByFaults

----------------------------------------------------------------------------
(* Refinement                                                              *)

\* Where the abstract mailbox sees an entry.
Status == [e \in Entries |->
             IF e[2] > len[e[1]]        THEN "absent"
             ELSE IF e \in pel         THEN "pending"
             ELSE IF deliveries[e] > 0 THEN "closed"
             ELSE                           "queued"]
Kept == {e \in Entries : InLog(e)}

M == INSTANCE Mailbox WITH status <- Status, kept <- Kept, begun <- started,
                           done <- handled, buried <- dlq

\* The bus keeps the mailbox's promise in every step.
ImplementsMailbox == M!Spec

----------------------------------------------------------------------------
(* Liveness                                                                *)

\* The services are restarted by systemd (Restart=always), loops keep turning,
\* requests in flight are served, and time passes.  Nothing is assumed of
\* handlers: their HTTP calls to the core have no timeout.
Fairness ==
    /\ WF_vars(AgentStart) /\ WF_vars(AskPoll)
    /\ WF_vars(GatewayPoll) /\ WF_vars(Receive)
    /\ \A e \in Entries : WF_vars(GatewayAck(e)) /\ WF_vars(Ripen(e))
    /\ WF_vars(SweepRoster) /\ WF_vars(SweepPending)
    /\ WF_vars(\E row \in todo : SweepReclaim(row) \/ SweepCopy(row))
    /\ WF_vars(SweepAck) /\ WF_vars(SweepEnds)

FairSpec == Spec /\ Fairness

\* The strongest reading of the system: handlers always return as well.
HandlersReturn == \A e \in Entries : WF_vars(HandlerReturns(e))
FairHandlersSpec == FairSpec /\ HandlersReturn

\* Every pending inbox entry leaves the pending list, handled or
\* dead-lettered, even when its handler hangs or its agent lost it, as long as
\* the agent stays in the roster the sweep goes through (dlq.rs).
InboxSettles ==
    <>[]rostered =>
        \A n \in Ids : <<Inbox, n>> \in pel ~> <<Inbox, n>> \notin pel

\* Every entry added to a stream is eventually delivered to the agent's group,
\* unless the stream trims it first: polls resume after errors and restarts
\* (inbox.rs), in pages of ReadCount.
EventuallyDelivered ==
    \A e \in Entries :
        e[2] <= len[e[1]] ~> deliveries[e] > 0 \/ ~InLog(e)

----------------------------------------------------------------------------
(* What the documentation says and the code does not do                    *)

\* dlq.rs:52 "Re-claim for reprocessing", README "re-queue": a re-claimed entry
\* is handled in the end, if handlers return.
ReclaimedIsReprocessed ==
    \A e \in Entries : deliveries[e] > 1 ~> e \in handled

=============================================================================
