---------------------------- MODULE BatchWriter ----------------------------
(***************************************************************************)
(* The database writer of the tracer and of the orchestrator (writer.rs in *)
(* both crates, the same code on different tables): a bounded channel, a   *)
(* task that moves events from it into a batch, and a bulk INSERT when the *)
(* batch is full or the two-second timer ticks.                            *)
(*                                                                         *)
(* An event is any value; RowOf gives the primary key of its row.  The     *)
(* table is the set of the keys it has rows for.  The channel never closes *)
(* before the process ends, because the consumer task that holds its       *)
(* sender never returns: the branch that flushes on a closed channel does  *)
(* not occur.                                                              *)
(***************************************************************************)
EXTENDS Naturals, Sequences, FiniteSets

CONSTANTS
    BufferSize,     \* capacity of the channel (--buffer-size)
    FlushSize,      \* events that make a batch full (500)
    RowOf           \* primary key of an event's row

ASSUME WriterAssumption == BufferSize \in Nat \ {0} /\ FlushSize \in Nat \ {0}

VARIABLES
    queue,      \* the mpsc channel
    batch,      \* events received and not yet flushed
    writer,     \* receiving or flushing
    table,      \* keys of the rows in PostgreSQL
    lost        \* history: events dropped by a failed INSERT or a crash

writerVars == <<queue, batch, writer, table, lost>>

WriterInit ==
    /\ queue = <<>> /\ batch = {} /\ writer = "receiving"
    /\ table = {} /\ lost = {}

Queued     == {queue[i] : i \in 1..Len(queue)}
InMemory   == Queued \cup batch
Recorded(e) == RowOf[e] \in table

FullTooLate  == Len(queue) > BufferSize         \* mutant
FullTooEarly == Len(queue) >= BufferSize - 1    \* mutant
\* try_send: at once, or not at all.
Full    == Len(queue) >= BufferSize
Push(e) == /\ ~Full
           /\ queue' = Append(queue, e)
           /\ UNCHANGED <<batch, writer, table, lost>>

\* rx.recv(); a full batch is flushed before anything else is received.
WriterRecv ==
    /\ writer = "receiving"
    /\ queue # <<>>
    /\ queue' = Tail(queue)
    /\ batch' = batch \cup {Head(queue)}
    /\ writer' = IF Cardinality(batch') >= FlushSize THEN "flushing" ELSE writer
    /\ UNCHANGED <<table, lost>>

\* mutant: only a full batch is flushed
FlushTickFullOnly ==
    /\ writer = "receiving" /\ Cardinality(batch) >= FlushSize
    /\ writer' = "flushing"
    /\ UNCHANGED <<queue, batch, table, lost>>

\* flush_interval.tick().
FlushTick ==
    /\ writer = "receiving" /\ batch # {}
    /\ writer' = "flushing"
    /\ UNCHANGED <<queue, batch, table, lost>>

\* INSERT ... ON CONFLICT (id) DO NOTHING.
FlushDone ==
    /\ writer = "flushing"
    /\ table' = table \cup {RowOf[e] : e \in batch}
    /\ batch' = {}
    /\ writer' = "receiving"
    /\ UNCHANGED <<queue, lost>>

\* The INSERT fails: logged, and the batch is cleared all the same.
FlushFails ==
    /\ writer = "flushing"
    /\ lost' = lost \cup batch
    /\ batch' = {}
    /\ writer' = "receiving"
    /\ UNCHANGED <<queue, table>>

\* The process ends, by a crash or by Ctrl+C: nothing is flushed.
WriterDies ==
    /\ lost' = lost \cup InMemory
    /\ queue' = <<>> /\ batch' = {} /\ writer' = "receiving"
    /\ UNCHANGED table

WriterStep == WriterRecv \/ FlushTick \/ FlushDone

WriterTypeOK(Events) ==
    /\ queue \in Seq(Events) /\ Len(queue) <= BufferSize
    /\ batch \subseteq Events /\ Cardinality(batch) <= FlushSize
    /\ writer \in {"receiving", "flushing"}
    /\ table \subseteq {RowOf[e] : e \in Events}
    /\ lost \subseteq Events

\* The inductive invariant of the writer, as long as its user hands no event
\* over twice.
EachOnce ==
    /\ \A i, j \in 1..Len(queue) : queue[i] = queue[j] => i = j
    /\ Queued \cap batch = {}

WriterInv(Events) ==
    /\ WriterTypeOK(Events)
    /\ EachOnce
    /\ IsFiniteSet(batch)
    /\ writer = "receiving" => Cardinality(batch) < FlushSize

=============================================================================
