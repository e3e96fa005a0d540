--------------------------- MODULE GroupBroadcast ---------------------------
(***************************************************************************)
(* A broadcast to one group (gateway broadcast_group, transport.rs         *)
(* broadcast_to_group, acl.rs agents_in_group): SMEMBERS of the roster,    *)
(* HGET of the groups of each agent, XADD to the inbox of each match.      *)
(* Agents register, are given groups and deregister in between; the first  *)
(* command that fails ends the attempt, and whoever asked for it may ask   *)
(* again.                                                                  *)
(***************************************************************************)
EXTENDS Routing

VARIABLES
    \* --- Redis ---
    roster,
    ingroup,    \* agents whose metadata name the group
    \* --- the attempt ---
    attempt,    \* number of the attempt
    state,      \* idle, busy, ok or failed
    unmatched,  \* the roster as it was read, without those looked at
    matched,    \* matches: the answer of the request
    unsent,     \* matches still without the message
    \* --- history of the attempt ---
    copies,     \* messages written to each inbox
    snapshot,   \* the roster as it was read
    wasIn,      \* agents in the group at some time
    steady      \* agents in the roster and in the group all the time

membership == <<roster, ingroup>>
attemptVars == <<attempt, state, unmatched, matched, unsent, copies, snapshot>>
groupVars  == <<membership, attemptVars, wasIn, steady>>

GroupInit ==
    /\ roster = Agents /\ ingroup \in SUBSET Agents
    /\ attempt = 0 /\ state = "idle"
    /\ unmatched = {} /\ matched = {} /\ unsent = {}
    /\ copies = [a \in Agents |-> 0]
    /\ snapshot = {} /\ wasIn = {} /\ steady = {}

----------------------------------------------------------------------------
(* Membership                                                              *)

\* SADD (register_agent).
Enrol(a) ==
    /\ a \notin roster
    /\ roster' = roster \cup {a}
    /\ UNCHANGED <<ingroup, attemptVars, wasIn, steady>>

\* HSET groups (set_agent_groups), with the group or without it.
JoinGroup(a) ==
    /\ a \notin ingroup
    /\ ingroup' = ingroup \cup {a}
    /\ wasIn' = wasIn \cup {a}
    /\ UNCHANGED <<roster, attemptVars, steady>>

\* HSET groups without the group, or DEL of the metadata (deregister_agent).
QuitGroup(a) ==
    /\ ingroup' = ingroup \ {a}
    /\ steady' = steady \ {a}
    /\ UNCHANGED <<roster, attemptVars, wasIn>>

\* SREM (deregister_agent).
Strike(a) ==
    /\ roster' = roster \ {a}
    /\ steady' = steady \ {a}
    /\ UNCHANGED <<ingroup, attemptVars, wasIn>>

----------------------------------------------------------------------------
(* One attempt                                                             *)

\* SMEMBERS.
BroadcastStarts ==
    /\ state # "busy"
    /\ state' = "busy" /\ attempt' = attempt + 1
    /\ unmatched' = roster /\ snapshot' = roster
    /\ matched' = {} /\ unsent' = {}
    /\ copies' = [a \in Agents |-> 0]
    /\ wasIn' = ingroup /\ steady' = roster \cap ingroup
    /\ UNCHANGED membership

IsInAnyGroup(a) == TRUE         \* mutant: the roster is all that is looked at
IsInGroup(a) == a \in ingroup

\* HGET groups of one agent.
Match(a) ==
    /\ state = "busy" /\ a \in unmatched
    /\ unmatched' = unmatched \ {a}
    /\ matched' = IF IsInGroup(a) THEN matched \cup {a} ELSE matched
    /\ unsent' = IF IsInGroup(a) THEN unsent \cup {a} ELSE unsent
    /\ UNCHANGED <<membership, attempt, state, copies, snapshot, wasIn, steady>>

\* mutant: an inbox that has the message stays on the list
SendOneAgain(a) ==
    /\ state = "busy" /\ unmatched = {} /\ a \in unsent
    /\ copies' = [copies EXCEPT ![a] = @ + 1]
    /\ UNCHANGED <<membership, attempt, state, unmatched, matched, unsent,
                   snapshot, wasIn, steady>>
\* XADD to the inbox of one agent, once all agents have been matched.
SendOne(a) ==
    /\ state = "busy" /\ unmatched = {} /\ a \in unsent
    /\ unsent' = unsent \ {a}
    /\ copies' = [copies EXCEPT ![a] = @ + 1]
    /\ UNCHANGED <<membership, attempt, state, unmatched, matched, snapshot,
                   wasIn, steady>>

BroadcastEnds ==
    /\ state = "busy" /\ unmatched = {} /\ unsent = {}
    /\ state' = "ok"
    /\ UNCHANGED <<membership, attempt, unmatched, matched, unsent, copies,
                   snapshot, wasIn, steady>>

\* A command fails: the request is answered with an error, the rest is not done.
Stop(result) ==
    /\ state' = result
    /\ unmatched' = {} /\ unsent' = {}
    /\ UNCHANGED <<membership, attempt, matched, snapshot, wasIn, steady>>

FailureIgnored == "ok"          \* mutant: errors of a send are ignored
Failure == "failed"
BroadcastFails ==
    /\ state = "busy"
    /\ Stop(Failure)
    /\ UNCHANGED copies

\* An XADD took effect, and its answer is lost.
SendOneLost(a) ==
    /\ state = "busy" /\ unmatched = {} /\ a \in unsent
    /\ Stop(Failure)
    /\ copies' = [copies EXCEPT ![a] = @ + 1]

GroupTypeOK(MaxAttempts) ==
    /\ roster \subseteq Agents /\ ingroup \subseteq Agents
    /\ attempt \in 0..MaxAttempts
    /\ state \in {"idle", "busy", "ok", "failed"}
    /\ unmatched \subseteq snapshot /\ matched \subseteq snapshot
    /\ unsent \subseteq matched
    /\ copies \in [Agents -> 0..1]
    /\ snapshot \subseteq Agents /\ wasIn \subseteq Agents
    /\ steady \subseteq snapshot \cap wasIn

----------------------------------------------------------------------------
(* Properties                                                              *)

\* A broadcast that reports success has written once to each inbox it lists and
\* to no other, and lists every agent that was in the roster and in the group all
\* along, whatever others joined or left meanwhile (routes.rs, broadcast_group).
SteadyMembersReached ==
    state = "ok" => /\ matched = {a \in Agents : copies[a] = 1}
                    /\ steady \subseteq matched

\* Only agents that were in the roster when it was read, and in the group at some
\* time since, get the message, in attempts that fail half-way too.
OnlyMembersReached ==
    \A a \in Agents : copies[a] > 0 => a \in snapshot \cap wasIn

\* The inductive invariant.  Whoever is a steady member is found among those who
\* have been matched or are still to be, and a match has the message or is still
\* to get it.
GroupInv ==
    /\ state = "idle" <=> attempt = 0
    /\ state # "busy" => unmatched = {} /\ unsent = {}
    /\ state # "idle" => ingroup \subseteq wasIn
    /\ matched \cap unmatched = {} /\ matched \subseteq wasIn
    /\ steady \subseteq ingroup
    /\ state \in {"busy", "ok"} =>
          /\ steady \subseteq matched \cup unmatched
          /\ \A a \in Agents : copies[a] > 0 <=> a \in matched \ unsent
    /\ \A a \in Agents : copies[a] > 0 => a \in matched

=============================================================================
