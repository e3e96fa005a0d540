------------------------------- MODULE Tracer -------------------------------
(***************************************************************************)
(* The tracer: one loop that discovers the streams of the agents in the    *)
(* roster (discovery.rs), reads all of them through the group "cg-tracer"  *)
(* (consumer.rs) and hands every entry to the batch writer.                *)
(*                                                                         *)
(* Agents join and leave the roster and messages are added to streams at   *)
(* any time.  The streams are never trimmed here.                          *)
(***************************************************************************)
EXTENDS BatchWriter

CONSTANTS
    Fixed,          \* the broadcast and the dead letter stream
    Agents,
    StreamsOf,      \* inbox, outbox and channel streams of each agent
    Limit,          \* bound: entries ever added to a stream
    ReadCount,      \* COUNT of XREADGROUP (100)
    NoMsg,          \* entries without a "msg" field
    MaxLeaves,      \* bound: departures from the roster
    MaxGroupFaults, \* bound: failed creations of a consumer group
    MaxFaults       \* bound: other failed calls, crashes

Streams == Fixed \cup UNION {StreamsOf[a] : a \in Agents}
Entries == Streams \X (1..Limit)

ASSUME StreamsOfAssumption == \A a \in Agents : StreamsOf[a] \cap Fixed = {}
ASSUME TracerBounds ==
    /\ Limit \in Nat /\ ReadCount \in Nat \ {0}
    /\ NoMsg \subseteq Entries
    /\ MaxLeaves \in Nat /\ MaxGroupFaults \in Nat /\ MaxFaults \in Nat

VARIABLES
    \* --- Redis ---
    roster,
    len,        \* entries added to each stream: ids 1..len[s]
    grouped,    \* streams that have the group cg-tracer
    cursor,     \* the group's last-delivered-id on each stream
    pel,        \* entries delivered to the group and not acknowledged
    \* --- the consumer loop ---
    loop,       \* top, adding, reading, handling or acking
    due,        \* the discovery interval has elapsed
    known,      \* known_streams
    found,      \* new_streams, while groups are created
    adding,     \* added streams still without a group
    todo,       \* entries of the last answer still to be handled
    serving,    \* the stream whose entries are handled
    current,    \* the entry to acknowledge
    \* --- fault counters ---
    leaves, groupFaults, faults

redis    == <<roster, len, grouped, cursor, pel>>
consumer == <<loop, due, known, found, adding, todo, serving, current>>
counters == <<leaves, groupFaults, faults>>
vars     == <<redis, consumer, writerVars, counters>>

Init ==
    /\ WriterInit
    /\ roster = {} /\ grouped = {} /\ pel = {}
    /\ len = [s \in Streams |-> 0] /\ cursor = [s \in Streams |-> 0]
    /\ loop = "top" /\ due = TRUE
    /\ known = {} /\ found = {} /\ adding = {}
    /\ todo = {} /\ serving = {} /\ current = {}
    /\ leaves = 0 /\ groupFaults = 0 /\ faults = 0

Fault == /\ faults < MaxFaults
         /\ faults' = faults + 1
         /\ UNCHANGED <<leaves, groupFaults>>

----------------------------------------------------------------------------
(* The rest of the system                                                  *)

Publish(s) ==
    /\ len[s] < Limit
    /\ len' = [len EXCEPT ![s] = @ + 1]
    /\ UNCHANGED <<roster, grouped, cursor, pel, consumer, writerVars, counters>>

Join(a) ==
    /\ a \notin roster
    /\ roster' = roster \cup {a}
    /\ UNCHANGED <<len, grouped, cursor, pel, consumer, writerVars, counters>>

Leave(a) ==
    /\ a \in roster
    /\ leaves < MaxLeaves /\ leaves' = leaves + 1
    /\ roster' = roster \ {a}
    /\ UNCHANGED <<len, grouped, cursor, pel, consumer, writerVars,
                   groupFaults, faults>>

\* last_discovery.elapsed() reaches the interval.
IntervalElapses ==
    /\ ~due
    /\ due' = TRUE
    /\ UNCHANGED <<redis, loop, known, found, adding, todo, serving, current,
                   writerVars, counters>>

----------------------------------------------------------------------------
(* Discovery                                                               *)

AddedAgentsOnly(streams) == (streams \ known) \ Fixed       \* mutant
\* diff_streams: what is new.
Added(streams) == streams \ known

\* discover_streams: SMEMBERS roster, and the streams of each member.
Discover ==
    /\ loop = "top" /\ due
    /\ found' = Fixed \cup UNION {StreamsOf[a] : a \in roster}
    /\ adding' = Added(found')
    /\ loop' = "adding"
    /\ UNCHANGED <<redis, due, known, todo, serving, current, writerVars,
                   counters>>

DiscoverFails ==
    /\ loop = "top" /\ due
    /\ Fault
    /\ due' = FALSE
    /\ loop' = "reading"
    /\ UNCHANGED <<redis, known, found, adding, todo, serving, current,
                   writerVars>>

\* ensure_consumer_group from "0"; a group that exists stays as it is.
CreateGroup(s) ==
    /\ loop = "adding" /\ s \in adding
    /\ grouped' = grouped \cup {s}
    /\ adding' = adding \ {s}
    /\ UNCHANGED <<roster, len, cursor, pel, loop, due, known, found, todo,
                   serving, current, writerVars, counters>>

\* The first failure ends ensure_tracer_groups: the rest gets no group either.
CreateGroupFails ==
    /\ loop = "adding" /\ adding # {}
    /\ groupFaults < MaxGroupFaults /\ groupFaults' = groupFaults + 1
    /\ adding' = {}
    /\ UNCHANGED <<redis, loop, due, known, found, todo, serving, current,
                   writerVars, leaves, faults>>

\* mutant: last_discovery is not set
AdoptStillDue ==
    /\ loop = "adding" /\ adding = {}
    /\ known' = found
    /\ found' = {}
    /\ loop' = "top"
    /\ UNCHANGED <<redis, due, adding, todo, serving, current, writerVars,
                   counters>>

\* known_streams = new_streams, with or without groups.
Adopt ==
    /\ loop = "adding" /\ adding = {}
    /\ known' = found
    /\ found' = {}
    /\ due' = FALSE
    /\ loop' = "reading"
    /\ UNCHANGED <<redis, adding, todo, serving, current, writerVars, counters>>

----------------------------------------------------------------------------
(* Reading                                                                 *)

LastReadAgain(s) == cursor[s]   \* mutant: the group's position stays
\* XREADGROUP ... COUNT n ... >: at most ReadCount new entries of each stream.
LastRead(s) == IF s \notin known THEN cursor[s]
               ELSE IF len[s] - cursor[s] <= ReadCount THEN len[s]
               ELSE cursor[s] + ReadCount
Unread == {e \in Entries : /\ e[1] \in known
                           /\ cursor[e[1]] < e[2] /\ e[2] <= len[e[1]]
                           /\ e[2] <= cursor[e[1]] + ReadCount}

MayRead == loop = "reading" \/ (loop = "top" /\ ~due)

\* NOGROUP fails the whole read as soon as one stream has no group; an empty
\* result is used instead.  With no streams known the loop starts over.
Read ==
    /\ MayRead
    /\ \/ /\ known \subseteq grouped /\ Unread # {}
          /\ cursor' = [s \in Streams |-> LastRead(s)]
          /\ pel' = pel \cup Unread
          /\ todo' = Unread
          /\ loop' = "handling"
       \/ /\ ~(known \subseteq grouped) \/ Unread = {}
          /\ loop' = "top"
          /\ UNCHANGED <<cursor, pel, todo>>
    /\ UNCHANGED <<roster, len, grouped, due, known, found, adding, serving,
                   current, writerVars, counters>>

\* The answer is lost after Redis has delivered: an empty default again.
ReadLost ==
    /\ MayRead
    /\ Fault
    /\ known \subseteq grouped
    /\ cursor' = [s \in Streams |-> LastRead(s)]
    /\ pel' = pel \cup Unread
    /\ loop' = "top"
    /\ UNCHANGED <<roster, len, grouped, due, known, found, adding, todo,
                   serving, current, writerVars>>

\* Stream after stream in the order of a hash map, each in the order of ids.
IsNext(e) ==
    /\ e \in todo
    /\ \A f \in todo : f[1] = e[1] => e[2] <= f[2]
    /\ \A f \in todo : f[1] \in serving => e[1] \in serving

\* try_send, or nothing to send.
Accept(e) ==
    /\ loop = "handling" /\ IsNext(e)
    /\ \/ e \in NoMsg /\ UNCHANGED writerVars
       \/ e \notin NoMsg /\ Push(e)
    /\ todo' = todo \ {e}
    /\ serving' = {e[1]}
    /\ current' = {e}
    /\ loop' = "acking"
    /\ UNCHANGED <<redis, due, known, found, adding, counters>>

\* mutant: an entry is acknowledged although the buffer is full
SkipAcking(e) ==
    /\ loop = "handling" /\ IsNext(e)
    /\ e \notin NoMsg /\ Full
    /\ todo' = todo \ {e}
    /\ serving' = {e[1]}
    /\ current' = {e}
    /\ loop' = "acking"
    /\ UNCHANGED <<redis, due, known, found, adding, writerVars, counters>>

\* The writer's buffer is full: the entry stays in the PEL.
Skip(e) ==
    /\ loop = "handling" /\ IsNext(e)
    /\ e \notin NoMsg /\ Full
    /\ todo' = todo \ {e}
    /\ serving' = {e[1]}
    /\ UNCHANGED <<redis, loop, due, known, found, adding, current, writerVars,
                   counters>>

\* XACK.
Ack ==
    /\ loop = "acking"
    /\ pel' = pel \ current
    /\ current' = {}
    /\ loop' = "handling"
    /\ UNCHANGED <<roster, len, grouped, cursor, due, known, found, adding,
                   todo, serving, writerVars, counters>>

\* XACK fails, done or not: consume_streams returns, the rest of the answer is
\* dropped and stays in the PEL.
AckFails ==
    /\ loop = "acking"
    /\ Fault
    /\ pel' \in {pel, pel \ current}
    /\ current' = {} /\ todo' = {} /\ serving' = {}
    /\ loop' = "top"
    /\ UNCHANGED <<roster, len, grouped, cursor, due, known, found, adding,
                   writerVars>>

ReadEnds ==
    /\ loop = "handling" /\ todo = {}
    /\ serving' = {}
    /\ loop' = "top"
    /\ UNCHANGED <<redis, due, known, found, adding, todo, current, writerVars,
                   counters>>

InsertFails == /\ FlushFails
               /\ Fault
               /\ UNCHANGED <<redis, consumer>>

\* The process ends and is started again; an XACK in flight may still land.
Crash ==
    /\ Fault
    /\ WriterDies
    /\ pel' \in {pel, pel \ current}
    /\ loop' = "top" /\ due' = TRUE
    /\ known' = {} /\ found' = {} /\ adding' = {}
    /\ todo' = {} /\ serving' = {} /\ current' = {}
    /\ UNCHANGED <<roster, len, grouped, cursor>>

----------------------------------------------------------------------------
LoopStep ==
    \/ Discover \/ Adopt \/ Read \/ Ack \/ ReadEnds
    \/ \E s \in Streams : CreateGroup(s)
    \/ \E e \in todo : Accept(e) \/ Skip(e)

FaultStep ==
    \/ DiscoverFails \/ CreateGroupFails \/ ReadLost \/ AckFails \/ InsertFails
    \/ Crash

Next ==
    \/ \E s \in Streams : Publish(s)
    \/ \E a \in Agents : Join(a) \/ Leave(a)
    \/ IntervalElapses
    \/ LoopStep
    \/ WriterStep /\ UNCHANGED <<redis, consumer, counters>>
    \/ FaultStep

Spec == Init /\ [][Next]_vars

\* The loop and the writer go on and time passes.
FairSpec ==
    /\ Spec
    /\ WF_vars(IntervalElapses) /\ WF_vars(LoopStep)
    /\ WF_vars(WriterStep /\ UNCHANGED <<redis, consumer, counters>>)

----------------------------------------------------------------------------
(* Properties                                                              *)

TypeOK ==
    /\ WriterTypeOK(Entries)
    /\ roster \subseteq Agents
    /\ len \in [Streams -> 0..Limit]
    /\ grouped \subseteq Streams
    /\ cursor \in [Streams -> 0..Limit]
    /\ pel \subseteq Entries
    /\ loop \in {"top", "adding", "reading", "handling", "acking"}
    /\ due \in BOOLEAN
    /\ known \subseteq Streams /\ found \subseteq Streams
    /\ adding \subseteq found
    /\ todo \subseteq pel
    /\ serving \subseteq Streams
    /\ current \subseteq Entries
    /\ leaves \in 0..MaxLeaves
    /\ groupFaults \in 0..MaxGroupFaults /\ faults \in 0..MaxFaults

Delivered(e) == e[2] <= cursor[e[1]]

\* An entry leaves the pending list only when it is on its way to the database:
\* recorded, in the writer's hands, or among those a failed INSERT or a crash
\* of the process took from there (consumer.rs acks after try_send).
AckedIsKept ==
    \A e \in Entries \ NoMsg :
        Delivered(e) /\ e \notin pel => Recorded(e) \/ e \in InMemory \cup lost

\* No entry goes through the writer twice, whatever is re-discovered, whichever
\* acknowledgement or answer is lost: ">" never delivers again (consumer.rs).
NoEventTwice ==
    /\ \A i, j \in 1..Len(queue) : queue[i] = queue[j] => i = j
    /\ Queued \cap batch = {}
    /\ \A e \in todo : e \notin InMemory \cup lost

\* Every stream the loop reads has the group, so that no read fails for the
\* want of one, unless the creation of a group has failed (consumer.rs).
GroupsBeforeReads == known \subseteq grouped \/ groupFaults > 0

\* The inductive invariant.  An entry passes from the stream to the answer, from
\* there to the writer, and is acknowledged: the loop has in hand only what is
\* delivered, and the writer only what the loop has looked at.
LoopInv ==
    /\ \A s \in Streams : cursor[s] <= len[s]
    /\ loop \notin {"handling", "acking"} => todo = {}
    /\ loop # "acking" => current = {}
    /\ todo \cap current = {}
    /\ \A e \in pel : Delivered(e)

CustodyInv ==
    /\ WriterInv(Entries)
    /\ \A e \in InMemory \cup lost : Delivered(e) /\ e \notin todo
    /\ \A e \in current \ NoMsg : Recorded(e) \/ e \in InMemory \cup lost
    /\ AckedIsKept

GroupsInv ==
    groupFaults = 0 => known \subseteq grouped /\ found \subseteq grouped \cup adding

TracerInv == TypeOK /\ LoopInv /\ CustodyInv /\ GroupsInv

\* Unless the creation of a group fails, every entry on a common stream, and on
\* a stream of an agent that stays in the roster, is delivered to the tracer,
\* across failures and restarts (discovery.rs, consumer.rs).
PublishedIsRead ==
    [](groupFaults = 0) =>
       /\ \A e \in Entries :
             e[1] \in Fixed => (e[2] <= len[e[1]] ~> Delivered(e))
       /\ \A a \in Agents : <>[](a \in roster) =>
             \A e \in Entries :
                e[1] \in StreamsOf[a] => (e[2] <= len[e[1]] ~> Delivered(e))

\* What the writer has accepted reaches the table, or is lost to a failed INSERT
\* or a crash (writer.rs).
AcceptedIsFlushed ==
    \A e \in Entries : e \in InMemory ~> Recorded(e) \/ e \in lost

----------------------------------------------------------------------------
(* What the documentation says and the code does not do                    *)

\* consumer.rs:123 "if channel is full, message stays in PEL for retry": a
\* pending entry is tried again.
StaysForRetry == \A e \in Entries : e \in pel ~> e \notin pel

\* PRDs/pheroclaw-messaging.md: "When new agents register, the tracer picks up
\* their inbox/outbox streams automatically - no restart needed."
NewAgentsPickedUp ==
    \A a \in Agents : <>[](a \in roster) =>
        \A e \in Entries :
            e[1] \in StreamsOf[a] => (e[2] <= len[e[1]] ~> Delivered(e))

=============================================================================
