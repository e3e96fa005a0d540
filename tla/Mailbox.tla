------------------------------ MODULE Mailbox ------------------------------
(***************************************************************************)
(* What the message bus promises to whoever sends to one agent, without    *)
(* cursors, polls, sweeps or processes: an entry is queued, is delivered   *)
(* at most once to a handler, and leaves the pending list only when it was *)
(* handled, buried (copied to the dead letter stream) or overwritten       *)
(* (trimmed from its stream).  InboxDelivery implements this module.       *)
(***************************************************************************)
EXTENDS Naturals

CONSTANT Entries        \* everything that can be sent to the agent

VARIABLES
    status,     \* absent, queued, pending or closed
    kept,       \* entries their stream still holds or will hold
    begun,      \* handler tasks started for an entry
    done,       \* entries whose handler has returned
    buried      \* copies on the dead letter stream

mvars == <<status, kept, begun, done, buried>>

Init ==
    /\ status = [e \in Entries |-> "absent"]
    /\ kept = Entries
    /\ begun = [e \in Entries |-> 0]
    /\ done = {}
    /\ buried = [e \in Entries |-> 0]

\* An entry is sent; older ones, not the entry itself, may be overwritten.
Send(e) ==
    /\ status[e] = "absent"
    /\ status' = [status EXCEPT ![e] = "queued"]
    /\ e \in kept' /\ kept' \subseteq kept
    /\ \A f \in kept \ kept' : status[f] # "absent"
    /\ UNCHANGED <<begun, done, buried>>

\* Some of the queued entries that are still held become pending.
Deliver(D) ==
    /\ \A e \in D : status[e] = "queued" /\ e \in kept
    /\ status' = [e \in Entries |-> IF e \in D THEN "pending" ELSE status[e]]
    /\ UNCHANGED <<kept, begun, done, buried>>

\* Handlers start on delivered entries, each for the first time.
Begin(B) ==
    /\ \A e \in B : status[e] \in {"pending", "closed"} /\ begun[e] = 0
    /\ begun' = [e \in Entries |-> IF e \in B THEN 1 ELSE begun[e]]
    /\ UNCHANGED <<status, kept, done, buried>>

Finish(e) ==
    /\ begun[e] = 1
    /\ done' = done \cup {e}
    /\ UNCHANGED <<status, kept, begun, buried>>

\* A copy of a delivered entry goes to the dead letter stream.
Bury(e) ==
    /\ status[e] \in {"pending", "closed"}
    /\ buried' = [buried EXCEPT ![e] = @ + 1]
    /\ UNCHANGED <<status, kept, begun, done>>

\* Entries leave the pending list, each for one of the three good reasons.
Close(C) ==
    /\ \A e \in C : /\ status[e] = "pending"
                    /\ e \in done \/ buried[e] > 0 \/ e \notin kept
    /\ status' = [e \in Entries |-> IF e \in C THEN "closed" ELSE status[e]]
    /\ UNCHANGED <<kept, begun, done, buried>>

Next ==
    \/ \E e \in Entries : Send(e) \/ Finish(e) \/ Bury(e)
    \/ \E S \in SUBSET Entries : Deliver(S) \/ Begin(S) \/ Close(S)

Spec == Init /\ [][Next]_mvars

=============================================================================
