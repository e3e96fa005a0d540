------------------------------ MODULE Routing ------------------------------
(***************************************************************************)
(* Messages (types.rs) and the way the gateway routes them (routes.rs      *)
(* send_message).  An inbox stands for everything its agent is to be       *)
(* given, the broadcast stream included: the bus below it is the one that  *)
(* Mailbox specifies, so an entry is delivered at most once, and may be    *)
(* lost.  An inbox has the name of its reader; there are names, such as    *)
(* "orchestrator", whose inbox nobody reads.                               *)
(***************************************************************************)
EXTENDS Naturals, FiniteSets

CONSTANTS
    Agents,
    None            \* no correlation id, no session

Orchestrator == "orchestrator"      \* the identity
ToAll        == "broadcast"         \* MessageTarget::Broadcast
ToOrch       == "outbox"            \* MessageTarget::Orchestrator

VARIABLES
    inboxes,    \* <<name, message>>: what has been sent and not yet delivered
    outboxes    \* <<agent, message>>

bus == <<inboxes, outboxes>>

RoutingInit == inboxes = {} /\ outboxes = {}

----------------------------------------------------------------------------
(* Messages                                                                *)

\* ClawMessage::new and from_channel.  The cause is history, read by no guard: it
\* tells messages apart that the code may give the same id, and says what a reply
\* comes of.  A message that is made with a new Uuid comes of itself.
Message(id, from, to, type, corr, session) ==
    [id |-> id, from |-> from, to |-> to, type |-> type, corr |-> corr,
     session |-> session, cause |-> id]

\* The request a message belongs to: its correlation id, or else its own id.
Origin(m) == IF m.corr = None THEN m.id ELSE m.corr

ReplyTo(m, from, to, type) ==
    [Message(<<"re", m.cause, from>>, from, to, type, Origin(m), m.session)
     EXCEPT !.cause = m.cause]

\* mutant: every answer goes to the orchestrator
ReplyToOutbox(m, from, type) == ReplyTo(m, from, ToOrch, type)
\* ClawMessage::reply: back to the sender, same correlation and session.
Reply(m, from, type) == ReplyTo(m, from, m.from, type)

----------------------------------------------------------------------------
(* The gateway                                                             *)

StampedAsGiven(identity, m) == m    \* mutant: the sender's word is taken for it
\* The sender is whoever the key belongs to, whatever the message says.
Stamped(identity, m) == [m EXCEPT !.from = identity]

\* What send_message writes, for a message it does not refuse.
Routed(identity, m) ==
    LET n == Stamped(identity, m) IN
    \/ /\ n.to = ToAll /\ identity = Orchestrator
       /\ inboxes' = inboxes \cup (Agents \X {n})
       /\ UNCHANGED outboxes
    \/ /\ n.to = ToOrch
       /\ outboxes' = outboxes \cup {<<n.from, n>>}
       /\ UNCHANGED inboxes
    \/ /\ n.to \notin {ToAll, ToOrch}
       /\ inboxes' = inboxes \cup {<<n.to, n>>}
       /\ UNCHANGED outboxes

\* 403: a broadcast by anyone but the orchestrator, always; a P2P message, when
\* the rules say so (AclCache).
Refused(identity, m) ==
    /\ \/ m.to = ToAll /\ identity # Orchestrator
       \/ m.to \in Agents /\ m.type = "p2p"
    /\ UNCHANGED bus

=============================================================================
