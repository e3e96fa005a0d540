---------------------------- MODULE Correlation ----------------------------
(***************************************************************************)
(* Request and reply over the bus, at the asking agent (correlation.rs,    *)
(* p2p.rs): a registry from the id of a request to the sending half of a   *)
(* one-shot channel, and one waiter per request, which registers, sends    *)
(* the request and awaits the channel with a timeout.                      *)
(*                                                                         *)
(* Replies are resolved by handler tasks, concurrently with the waiter.    *)
(* Nothing but a resolved reply takes an entry out of the registry: the    *)
(* entry of a request that failed or timed out stays.                      *)
(***************************************************************************)
EXTENDS Naturals, FiniteSets

CONSTANTS
    Requests,
    Asker           \* the agent that makes each request

VARIABLES
    registry,   \* requests with an entry in their asker's registry
    waiter,     \* one of Stages
    answer,     \* the reply that was put into the channel while it was open
    swallowed   \* history: <<request, reply>> resolved for nobody

corrVars == <<registry, waiter, answer, swallowed>>

Over   == {"replied", "failed", "timedout", "dead"}
Stages == {"idle", "registered", "sent", "waiting", "expiring"} \cup Over

CorrInit ==
    /\ registry = {}
    /\ waiter = [i \in Requests |-> "idle"]
    /\ answer = [i \in Requests |-> {}]
    /\ swallowed = {}

EntryStageAfterSend == "waiting"    \* mutant: send first, register then
\* The entry is made before anything is sent.
EntryStage == "registered"

Goes(i, stage) ==
    /\ waiter' = [waiter EXCEPT ![i] = stage]
    /\ registry' = IF stage = EntryStage THEN registry \cup {i} ELSE registry

\* send_and_wait: a request with a fresh id.
Register(i) ==
    /\ waiter[i] = "idle"
    /\ Goes(i, "registered")
    /\ UNCHANGED <<answer, swallowed>>

\* The gateway has routed the request; its answer is under way.
RequestRouted(i) ==
    /\ waiter[i] = "registered"
    /\ Goes(i, "sent")
    /\ UNCHANGED <<answer, swallowed>>

\* send_message returned Ok.
StartWaiting(i) ==
    /\ waiter[i] = "sent"
    /\ Goes(i, "waiting")
    /\ UNCHANGED <<answer, swallowed>>

\* send_message returned an error, and so does send_and_wait: the receiving half
\* of the channel is dropped with whatever is in it.
SendFailed(i) ==
    /\ waiter[i] \in {"registered", "sent"}
    /\ Goes(i, "failed")
    /\ UNCHANGED <<answer, swallowed>>

\* tokio's timeout polls the channel, and if that is empty the timer.
ReplyTaken(i) ==
    /\ waiter[i] = "waiting" /\ answer[i] # {}
    /\ Goes(i, "replied")
    /\ UNCHANGED <<answer, swallowed>>

TimerFiresFirst(i) ==       \* mutant: the timer is polled first
    /\ waiter[i] = "waiting"
    /\ Goes(i, "expiring")
    /\ UNCHANGED <<answer, swallowed>>
TimerFires(i) ==
    /\ waiter[i] = "waiting" /\ answer[i] = {}
    /\ Goes(i, "expiring")
    /\ UNCHANGED <<answer, swallowed>>

\* Only now does the receiving half go.  A reply that a handler has put into the
\* channel since the poll goes with it, and nobody is told.
TimesOut(i) ==
    /\ waiter[i] = "expiring"
    /\ Goes(i, "timedout")
    /\ UNCHANGED <<answer, swallowed>>

EntryStays(i) == registry           \* mutant: the entry is only looked up
EntryTaken(i) == registry \ {i}

\* resolve: the entry goes, and the reply into the channel, if anybody holds the
\* other half; the caller is told TRUE in both cases.
Resolve(i, reply) ==
    /\ i \in registry
    /\ registry' = EntryTaken(i)
    /\ \/ /\ waiter[i] \notin Over
          /\ answer' = [answer EXCEPT ![i] = {reply}]
          /\ UNCHANGED swallowed
       \/ /\ waiter[i] \in Over
          /\ swallowed' = swallowed \cup {<<i, reply>>}
          /\ UNCHANGED answer
    /\ UNCHANGED waiter

\* The process of agent a ends, with its registry and its waiters.
AskerDies(a) ==
    /\ registry' = {i \in registry : Asker[i] # a}
    /\ waiter' = [i \in Requests |->
                    IF Asker[i] = a /\ waiter[i] # "idle"
                    THEN "dead" ELSE waiter[i]]
    /\ UNCHANGED <<answer, swallowed>>

CorrTypeOK(Replies) ==
    /\ registry \subseteq Requests
    /\ waiter \in [Requests -> Stages]
    /\ answer \in [Requests -> SUBSET Replies]
    /\ swallowed \subseteq Requests \X Replies

----------------------------------------------------------------------------
(* Properties                                                              *)

\* send_and_wait comes back, whatever becomes of the reply, and with the reply if
\* that is in the channel before the timer has fired (p2p.rs).
WaitsEnd ==
    \A i \in Requests :
        /\ waiter[i] = "waiting" ~> waiter[i] \in Over
        /\ waiter[i] = "waiting" /\ answer[i] # {} ~>
              waiter[i] \in {"replied", "dead"}

\* A reply is resolved for nobody only if its request was over and no reply had
\* been put into its channel, and only one per request: the next one finds no
\* entry (correlation.rs, resolve).
OneSwallowedPerRequest ==
    \A s \in swallowed :
        /\ waiter[s[1]] \in Over \ {"replied"}
        /\ answer[s[1]] = {}
        /\ \A t \in swallowed : t[1] = s[1] => t = s

\* The inductive invariant.  A request that has begun has its entry, or it has
\* had its reply; while the entry is there it has had none.
Settled(i) == \/ answer[i] # {} \/ waiter[i] = "dead"
              \/ \E s \in swallowed : s[1] = i

CorrInv ==
    /\ \A i \in registry : waiter[i] # "idle" /\ answer[i] = {}
    /\ \A i \in Requests : waiter[i] = "idle" => answer[i] = {}
    /\ \A i \in Requests \ registry : waiter[i] = "idle" \/ Settled(i)
    /\ \A s \in swallowed : s[1] \notin registry
    /\ \A i \in Requests : waiter[i] = "replied" => answer[i] # {}
    /\ OneSwallowedPerRequest

=============================================================================
