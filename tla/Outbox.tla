------------------------------- MODULE Outbox -------------------------------
(***************************************************************************)
(* The orchestrator's outbox consumer (outbox_consumer.rs): every five     *)
(* seconds a pass that takes the roster, makes sure that the outbox of     *)
(* each member has the group "cg-orchestrator", reads all of them once,    *)
(* hands the task lifecycle events to the batch writer and acknowledges    *)
(* every entry, whatever became of it.                                     *)
(*                                                                         *)
(* Without a database there is no writer: Persisted is then empty.  The    *)
(* outboxes are never trimmed here.                                        *)
(***************************************************************************)
EXTENDS BatchWriter

CONSTANTS
    Agents,
    Limit,          \* bound: entries ever added to an outbox
    ReadCount,      \* COUNT of XREADGROUP (50)
    Persisted,      \* entries that decode and are of a type worth persisting
    MaxLeaves,      \* bound: departures from the roster
    MaxFaults       \* bound: failed calls, crashes

Entries == Agents \X (1..Limit)

ASSUME OutboxBounds ==
    /\ Limit \in Nat /\ ReadCount \in Nat \ {0}
    /\ Persisted \subseteq Entries
    /\ MaxLeaves \in Nat /\ MaxFaults \in Nat

\* The roster is a set in Redis, and every event that is handed over gets a new
\* row id.
ASSUME AgentsAssumption == IsFiniteSet(Agents)
ASSUME OwnRowAssumption ==
    \A e, f \in Persisted : RowOf[e] = RowOf[f] => e = f

VARIABLES
    \* --- Redis ---
    roster,
    len,        \* entries added to each outbox: ids 1..len[a]
    grouped,    \* agents whose outbox has the group cg-orchestrator
    cursor,     \* the group's last-delivered-id on each outbox
    pel,        \* entries delivered to the group and not acknowledged
    \* --- one pass of the loop ---
    loop,       \* sleeping, starting, ensuring, handling or acking
    members,    \* the roster of this pass
    ensured,    \* members whose outbox has been given its group
    todo,       \* entries of the answer still to be handled
    serving,    \* the agent whose entries are handled
    current,    \* the entry to acknowledge
    \* --- history and counters ---
    answered,   \* entries that Redis has delivered
    dropped,    \* events that the full channel refused
    leaves, faults

redis    == <<roster, len, grouped, cursor, pel>>
pass     == <<loop, members, ensured, todo, serving, current>>
history  == <<answered, dropped>>
counters == <<leaves, faults>>
vars     == <<redis, pass, writerVars, history, counters>>

Init ==
    /\ WriterInit
    /\ roster = {} /\ grouped = {} /\ pel = {}
    /\ len = [a \in Agents |-> 0] /\ cursor = [a \in Agents |-> 0]
    /\ loop = "starting"
    /\ members = {} /\ ensured = {}
    /\ todo = {} /\ serving = {} /\ current = {}
    /\ answered = {} /\ dropped = {}
    /\ leaves = 0 /\ faults = 0

Fault == faults < MaxFaults /\ faults' = faults + 1 /\ UNCHANGED leaves

----------------------------------------------------------------------------
(* The agents                                                              *)

\* send_to_orchestrator: an entry in the sender's own outbox.
Publish(a) ==
    /\ len[a] < Limit
    /\ len' = [len EXCEPT ![a] = @ + 1]
    /\ UNCHANGED <<roster, grouped, cursor, pel, pass, writerVars, history,
                   counters>>

Join(a) ==
    /\ a \notin roster
    /\ roster' = roster \cup {a}
    /\ UNCHANGED <<len, grouped, cursor, pel, pass, writerVars, history, counters>>

Leave(a) ==
    /\ a \in roster
    /\ leaves < MaxLeaves /\ leaves' = leaves + 1
    /\ roster' = roster \ {a}
    /\ UNCHANGED <<len, grouped, cursor, pel, pass, writerVars, history, faults>>

----------------------------------------------------------------------------
(* One pass                                                                *)

\* Everything a pass has in hand is gone when it returns, early or not.
PassOver ==
    /\ loop' = "sleeping"
    /\ members' = {} /\ ensured' = {}
    /\ todo' = {} /\ serving' = {} /\ current' = {}

\* The sleep of five seconds is over.
Wake ==
    /\ loop = "sleeping"
    /\ loop' = "starting"
    /\ UNCHANGED <<redis, members, ensured, todo, serving, current, writerVars,
                   history, counters>>

\* get_roster; nothing to do for an empty one.
TakeRoster ==
    /\ loop = "starting"
    /\ \/ roster = {} /\ PassOver
       \/ /\ roster # {}
          /\ members' = roster
          /\ loop' = "ensuring"
          /\ UNCHANGED <<ensured, todo, serving, current>>
    /\ UNCHANGED <<redis, writerVars, history, counters>>

GroupStartNewest(a) == len[a]       \* mutant: the group is created at "$"
\* A new group starts at "0".
GroupStart(a) == 0

\* ensure_consumer_group; a group that exists stays as it is.
EnsureGroup(a) ==
    /\ loop = "ensuring" /\ a \in members \ ensured
    /\ grouped' = grouped \cup {a}
    /\ cursor' = IF a \in grouped THEN cursor
                 ELSE [cursor EXCEPT ![a] = GroupStart(a)]
    /\ ensured' = ensured \cup {a}
    /\ UNCHANGED <<roster, len, pel, loop, members, todo, serving, current,
                   writerVars, history, counters>>

\* Any call that is followed by `?` fails: the pass is over.  An XGROUP CREATE
\* may have taken effect all the same.
RosterFails ==
    /\ loop = "starting"
    /\ Fault /\ PassOver
    /\ UNCHANGED <<redis, writerVars, history>>

EnsureFails ==
    /\ loop = "ensuring"
    /\ Fault /\ PassOver
    /\ \E a \in members \ ensured :
          /\ grouped' \in {grouped, grouped \cup {a}}
          /\ cursor' = IF grouped' = grouped THEN cursor
                       ELSE [cursor EXCEPT ![a] = GroupStart(a)]
    /\ UNCHANGED <<roster, len, pel, writerVars, history>>

\* XREADGROUP ... COUNT n ... >: at most ReadCount new entries of each outbox.
NewEntries ==
    {e \in Entries : /\ e[1] \in members
                     /\ cursor[e[1]] < e[2] /\ e[2] <= len[e[1]]
                     /\ e[2] <= cursor[e[1]] + ReadCount}

UnreadAndPending == NewEntries \cup pel     \* mutant: what is pending comes again
Unread == NewEntries

\* Redis has served the read.
Served ==
    /\ loop = "ensuring" /\ ensured = members
    /\ cursor' = [a \in Agents |->
                    cursor[a] + Cardinality({e \in NewEntries : e[1] = a})]
    /\ pel' = pel \cup Unread
    /\ answered' = answered \cup Unread
    /\ UNCHANGED <<roster, len, grouped, writerVars, dropped>>

Read ==
    /\ Served
    /\ todo' = Unread
    /\ loop' = "handling"
    /\ UNCHANGED <<members, ensured, serving, current, counters>>

\* The answer is lost after the read: unwrap_or_default takes it for empty.
ReadLost == Served /\ Fault /\ PassOver

\* Outbox after outbox in the order of a hash map, each in the order of ids.
IsNext(e) ==
    /\ e \in todo
    /\ \A f \in todo : f[1] = e[1] => e[2] <= f[2]
    /\ \A f \in todo : f[1] \in serving => e[1] \in serving

\* mutant: as in the tracer, an entry the channel refuses is not acknowledged
HandleOrSkip(e) ==
    /\ loop = "handling" /\ IsNext(e)
    /\ todo' = todo \ {e}
    /\ serving' = {e[1]}
    /\ \/ /\ e \notin Persisted \/ Push(e)
          /\ e \in Persisted \/ UNCHANGED writerVars
          /\ current' = {e} /\ loop' = "acking"
       \/ /\ e \in Persisted /\ Full
          /\ UNCHANGED <<current, loop, writerVars>>
    /\ UNCHANGED <<redis, members, ensured, answered, dropped, counters>>

\* Decode, should_persist, try_send: whatever the outcome, the XACK is next.
Handle(e) ==
    /\ loop = "handling" /\ IsNext(e)
    /\ todo' = todo \ {e}
    /\ serving' = {e[1]}
    /\ current' = {e}
    /\ loop' = "acking"
    /\ \/ e \notin Persisted /\ UNCHANGED <<writerVars, dropped>>
       \/ e \in Persisted /\ Push(e) /\ UNCHANGED dropped
       \/ /\ e \in Persisted /\ Full
          /\ dropped' = dropped \cup {e}
          /\ UNCHANGED writerVars
    /\ UNCHANGED <<redis, members, ensured, answered, counters>>

AckWholeAnswer == current \cup todo      \* mutant: one XACK for all of them
Acked == current
\* XACK.
Ack ==
    /\ loop = "acking"
    /\ pel' = pel \ Acked
    /\ current' = {}
    /\ loop' = "handling"
    /\ UNCHANGED <<roster, len, grouped, cursor, members, ensured, todo, serving,
                   writerVars, history, counters>>

\* XACK fails, done or not: the rest of the answer is given up, still pending.
AckFails ==
    /\ loop = "acking"
    /\ Fault /\ PassOver
    /\ pel' \in {pel, pel \ current}
    /\ UNCHANGED <<roster, len, grouped, cursor, writerVars, history>>

PassEnds ==
    /\ loop = "handling" /\ todo = {}
    /\ PassOver
    /\ UNCHANGED <<redis, writerVars, history, counters>>

InsertFails == /\ FlushFails
               /\ Fault
               /\ UNCHANGED <<redis, pass, history>>

\* The orchestrator ends and is started again; an XACK in flight may still land.
Crash ==
    /\ Fault
    /\ WriterDies
    /\ pel' \in {pel, pel \ current}
    /\ loop' = "starting"
    /\ members' = {} /\ ensured' = {}
    /\ todo' = {} /\ serving' = {} /\ current' = {}
    /\ UNCHANGED <<roster, len, grouped, cursor, history>>

----------------------------------------------------------------------------
PassStep ==
    \/ Wake \/ TakeRoster \/ Read \/ Ack \/ PassEnds
    \/ \E a \in Agents : EnsureGroup(a)
    \/ \E e \in todo : Handle(e)

WriterGoesOn == WriterStep /\ UNCHANGED <<redis, pass, history, counters>>

Next ==
    \/ \E a \in Agents : Publish(a) \/ Join(a) \/ Leave(a)
    \/ PassStep
    \/ WriterGoesOn
    \/ RosterFails \/ EnsureFails \/ ReadLost \/ AckFails
    \/ InsertFails \/ Crash

Spec == Init /\ [][Next]_vars

\* The loop and the writer go on.
FairSpec == Spec /\ WF_vars(PassStep) /\ WF_vars(WriterGoesOn)

----------------------------------------------------------------------------
(* Properties                                                              *)

TypeOK ==
    /\ WriterTypeOK(Entries)
    /\ roster \subseteq Agents /\ grouped \subseteq Agents
    /\ len \in [Agents -> 0..Limit] /\ cursor \in [Agents -> 0..Limit]
    /\ pel \subseteq answered /\ answered \subseteq Entries
    /\ loop \in {"sleeping", "starting", "ensuring", "handling", "acking"}
    /\ members \subseteq Agents /\ ensured \subseteq members \cap grouped
    /\ todo \subseteq Entries
    /\ serving \subseteq Agents
    /\ current \subseteq Entries
    /\ dropped \subseteq Persisted
    /\ leaves \in 0..MaxLeaves /\ faults \in 0..MaxFaults

\* An entry is acknowledged whether or not its event found room, but never
\* before it was looked at: it is then recorded, in the writer's hands, dropped
\* for want of room, or lost with the writer (outbox_consumer.rs).
AckedIsAccountedFor ==
    \A e \in answered \cap Persisted :
        e \notin pel => Recorded(e) \/ e \in InMemory \cup lost \cup dropped

\* An event gets a new row id whenever it is handed over, so a second hand-over
\* would be a second row: there is none, whichever answer or acknowledgement is
\* lost (outbox_consumer.rs).
NoEventTwice ==
    /\ \A i, j \in 1..Len(queue) : queue[i] = queue[j] => i = j
    /\ Queued \cap batch = {}
    /\ \A e \in todo \cap Persisted :
          e \notin InMemory \cup lost \cup dropped /\ ~Recorded(e)

\* Between two passes nothing is pending unless a call has failed or the process
\* was restarted: a full channel costs the event, not the acknowledgement.
OnlyFaultsLeavePending == loop = "sleeping" /\ pel # {} => faults > 0

\* No event is dropped before more events have come than the channel can hold.
DropsNeedOverload ==
    dropped # {} => Cardinality(answered \cap Persisted) > BufferSize

\* The inductive invariant.  An entry passes from the outbox to the answer, from
\* there to the writer or to those dropped, and is acknowledged; without a fault
\* what is pending is in the hands of the pass.
Delivered(e) == e[2] <= cursor[e[1]]

PassInv ==
    /\ \A a \in Agents : cursor[a] <= len[a]
    /\ \A a \in Agents \ grouped : cursor[a] = 0
    /\ loop \in {"sleeping", "starting"} => ensured = {}
    /\ loop \notin {"handling", "acking"} => todo = {}
    /\ loop # "acking" => current = {}
    /\ todo \cap current = {}
    /\ \A e \in Entries : e \in answered <=> Delivered(e)

Taken == InMemory \cup lost \cup dropped

HandoverInv ==
    /\ WriterInv(Entries)
    /\ todo \cup current \subseteq answered
    /\ Taken \subseteq (answered \cap Persisted) \ todo
    /\ table \subseteq {RowOf[e] : e \in (answered \cap Persisted) \ todo}
    /\ \A e \in current \cap Persisted : Recorded(e) \/ e \in Taken
    /\ AckedIsAccountedFor

PendingInv == faults = 0 => pel \subseteq todo \cup current

OutboxInv == TypeOK /\ PassInv /\ HandoverInv /\ PendingInv /\ DropsNeedOverload

\* A result in the outbox of an agent that stays in the roster, or comes back to
\* it, is recorded, however often its group could not be created, unless it is
\* dropped, lost with the writer, or left pending by a failure.
ResultsAreRecorded ==
    \A a \in Agents : <>[](a \in roster) =>
        \A e \in Persisted :
            e[1] = a /\ e[2] <= len[a] ~>
                \/ Recorded(e) \/ e \in lost \cup dropped
                \/ e \in pel /\ faults > 0

=============================================================================
