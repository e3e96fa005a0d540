------------------------------- MODULE Fleet -------------------------------
(***************************************************************************)
(* Membership of the fleet: the roster set, the heartbeat keys with their  *)
(* time to live and the metadata hashes in Redis (transport.rs), written   *)
(* one command at a time by the gateway's register, heartbeat and          *)
(* deregister handlers (routes.rs) and by the orchestrator's health check  *)
(* (health.rs).  Agents register once, when they start (agent main.rs),    *)
(* and then only refresh their heartbeat (heartbeat.rs).                   *)
(*                                                                         *)
(* Time is counted in ticks.  A key with time to live n is absent when n   *)
(* reaches 0.  Requests take at most MaxDelay ticks each way: the code     *)
(* sets no timeout, so this is an assumption about the network, not about  *)
(* the code.  Health passes may begin at any time, which includes every    *)
(* thirty seconds.                                                         *)
(***************************************************************************)
EXTENDS Integers

CONSTANTS
    Agents,
    TTL,          \* ticks a heartbeat key lives (60 s)
    Period,       \* ticks the heartbeat loop sleeps (30 s)
    MaxDelay,     \* bound: ticks a request or its answer takes
    MaxShutdowns, \* bound: deregistrations an agent asks for
    MaxFaults     \* bound: crashes, failed calls, aborted health passes

ASSUME TimingAssumption ==
    /\ TTL \in Nat /\ Period \in Nat /\ MaxDelay \in Nat
    /\ Period + 2 * MaxDelay < TTL

ASSUME BoundsAssumption == MaxShutdowns \in Nat /\ MaxFaults \in Nat

VARIABLES
    \* --- Redis ---
    roster,     \* openclaw:agent:roster
    hb,         \* remaining life of each heartbeat key, 0 when absent
    meta,       \* agents with a metadata hash
    \* --- agents and gateway requests ---
    proc,       \* down, registering or up
    reg,        \* next command of the register request in flight
    beat,       \* the heartbeat loop: none, requesting, answered, sleeping
    timer,      \* ticks left to sleep, or age of the request in flight
    dereg,      \* next command of the deregister request in flight
    \* --- orchestrator health check ---
    health,     \* idle, checking or removing
    toCheck,    \* roster snapshot still to be checked
    dead,       \* agents found without a heartbeat key
    victim,     \* agents between their SREM and their last DEL
    \* --- history and fault counter ---
    missed,     \* heartbeats missed since the key was last set
    cut,        \* agents whose key was deleted since it was last set
    steady,     \* agents up, uncut and without a miss since the pass began
    shutdowns, faults

redis   == <<roster, hb, meta>>
agents  == <<proc, reg, beat, timer, dereg>>
check   == <<health, toCheck, dead, victim>>
history == <<missed, cut, steady>>
budget  == <<shutdowns, faults>>
vars    == <<redis, agents, check, history, budget>>

Init ==
    /\ roster = {} /\ meta = {} /\ hb = [a \in Agents |-> 0]
    /\ proc = [a \in Agents |-> "down"]
    /\ reg = [a \in Agents |-> "none"]
    /\ beat = [a \in Agents |-> "none"]
    /\ timer = [a \in Agents |-> 0]
    /\ dereg = [a \in Agents |-> "none"]
    /\ health = "idle" /\ toCheck = {} /\ dead = {} /\ victim = {}
    /\ missed = [a \in Agents |-> 0] /\ cut = {} /\ steady = {}
    /\ shutdowns = 0 /\ faults = 0

\* SET key alive EX 60.
SetKey(a) == /\ hb' = [hb EXCEPT ![a] = TTL]
             /\ missed' = [missed EXCEPT ![a] = 0]
             /\ cut' = cut \ {a}
\* DEL key.
DelKey(a) == /\ hb' = [hb EXCEPT ![a] = 0]
             /\ cut' = cut \cup {a}
             /\ steady' = steady \ {a}

Fault == /\ faults < MaxFaults
         /\ faults' = faults + 1
         /\ UNCHANGED shutdowns

----------------------------------------------------------------------------
(* Registration: at most one request of an agent in flight                 *)

\* main sends the register request.  What an earlier life left in flight has
\* landed or been lost by then.
Start(a) ==
    /\ proc[a] = "down" /\ reg[a] = "none" /\ beat[a] = "none"
    /\ proc' = [proc EXCEPT ![a] = "registering"]
    /\ reg' = [reg EXCEPT ![a] = "sadd"]
    /\ UNCHANGED <<redis, beat, timer, dereg, check, history, budget>>

\* register_agent, or register_agent_with_meta when the request has metadata.
RegSadd(a) ==
    /\ reg[a] = "sadd"
    /\ roster' = roster \cup {a}
    /\ \E next \in {"hset", "set"} : reg' = [reg EXCEPT ![a] = next]
    /\ UNCHANGED <<hb, meta, proc, beat, timer, dereg, check, history, budget>>

RegHset(a) ==
    /\ reg[a] = "hset"
    /\ meta' = meta \cup {a}
    /\ reg' = [reg EXCEPT ![a] = "setmeta"]
    /\ UNCHANGED <<roster, hb, proc, beat, timer, dereg, check, history, budget>>

RegSet(a) ==
    /\ SetKey(a)
    /\ \/ reg[a] = "setmeta" /\ reg' = [reg EXCEPT ![a] = "answer"]
       \/ /\ reg[a] = "set"
          /\ \E next \in {"groups", "answer"} : reg' = [reg EXCEPT ![a] = next]
    /\ timer' = [timer EXCEPT ![a] = 0]
    /\ UNCHANGED <<roster, meta, proc, beat, dereg, check, steady, budget>>

\* set_agent_groups, for a request with groups and no metadata.
RegGroups(a) ==
    /\ reg[a] = "groups"
    /\ meta' = meta \cup {a}
    /\ reg' = [reg EXCEPT ![a] = "answer"]
    /\ UNCHANGED <<roster, hb, proc, beat, timer, dereg, check, history, budget>>

\* The answer arrives: main spawns the loops, and the first heartbeat goes out
\* at once.  Nobody waits for the answer if the agent has died meanwhile.
RegAnswer(a) ==
    /\ reg[a] = "answer"
    /\ reg' = [reg EXCEPT ![a] = "none"]
    /\ timer' = [timer EXCEPT ![a] = 0]
    /\ \/ /\ proc[a] = "registering"
          /\ proc' = [proc EXCEPT ![a] = "up"]
          /\ beat' = [beat EXCEPT ![a] = "requesting"]
       \/ /\ proc[a] = "down"
          /\ UNCHANGED <<proc, beat>>
    /\ UNCHANGED <<redis, dereg, check, history, budget>>

\* The request fails anywhere on its way; the agent exits with an error.
RegFails(a) ==
    /\ reg[a] # "none"
    /\ Fault
    /\ reg' = [reg EXCEPT ![a] = "none"]
    /\ proc' = [proc EXCEPT ![a] = "down"]
    /\ UNCHANGED <<redis, beat, timer, dereg, check, history>>

----------------------------------------------------------------------------
(* Heartbeats                                                              *)

BeatSend(a) ==
    /\ proc[a] = "up" /\ beat[a] = "sleeping" /\ timer[a] = 0
    /\ beat' = [beat EXCEPT ![a] = "requesting"]
    /\ UNCHANGED <<redis, proc, reg, timer, dereg, check, history, budget>>

\* heartbeat at the gateway: refresh_heartbeat, and nothing else.
BeatSet(a) ==
    /\ beat[a] = "requesting"
    /\ SetKey(a)
    /\ beat' = [beat EXCEPT ![a] = "answered"]
    /\ timer' = [timer EXCEPT ![a] = 0]
    /\ UNCHANGED <<roster, meta, proc, reg, dereg, check, steady, budget>>

\* sleep(Duration::from_secs(30)) after every answer.
SleepTimeTtl == TTL                 \* mutant
SleepTime == Period

\* The answer arrives and the loop goes to sleep.
BeatAnswer(a) ==
    /\ beat[a] = "answered"
    /\ IF proc[a] = "up"
       THEN /\ beat' = [beat EXCEPT ![a] = "sleeping"]
            /\ timer' = [timer EXCEPT ![a] = SleepTime]
       ELSE /\ beat' = [beat EXCEPT ![a] = "none"]
            /\ UNCHANGED timer
    /\ UNCHANGED <<redis, proc, reg, dereg, check, history, budget>>

\* The request fails before the key is set; the loop logs it and sleeps.
BeatFails(a) ==
    /\ beat[a] = "requesting"
    /\ Fault
    /\ missed' = [missed EXCEPT ![a] = @ + 1]
    /\ steady' = steady \ {a}
    /\ IF proc[a] = "up"
       THEN /\ beat' = [beat EXCEPT ![a] = "sleeping"]
            /\ timer' = [timer EXCEPT ![a] = SleepTime]
       ELSE /\ beat' = [beat EXCEPT ![a] = "none"]
            /\ UNCHANGED timer
    /\ UNCHANGED <<redis, proc, reg, dereg, check, cut>>

\* The process dies.  A request it has sent may still land.
Crash(a) ==
    /\ proc[a] # "down"
    /\ Fault
    /\ proc' = [proc EXCEPT ![a] = "down"]
    /\ beat' = [beat EXCEPT ![a] = IF @ = "sleeping" THEN "none" ELSE @]
    /\ steady' = steady \ {a}
    /\ UNCHANGED <<redis, reg, timer, dereg, check, missed, cut>>

----------------------------------------------------------------------------
(* Deregistration: a System("shutdown") message or a graceful stop.  After *)
(* the former the agent's loops go on; the latter ends in Crash.           *)

Deregister(a) ==
    /\ proc[a] = "up" /\ dereg[a] = "none"
    /\ shutdowns < MaxShutdowns
    /\ shutdowns' = shutdowns + 1
    /\ dereg' = [dereg EXCEPT ![a] = "srem"]
    /\ UNCHANGED <<redis, proc, reg, beat, timer, check, history, faults>>

\* deregister_agent: SREM roster, DEL heartbeat, DEL meta.
DeregSrem(a) ==
    /\ dereg[a] = "srem"
    /\ roster' = roster \ {a}
    /\ dereg' = [dereg EXCEPT ![a] = "del"]
    /\ UNCHANGED <<hb, meta, proc, reg, beat, timer, check, history, budget>>

DeregDel(a) ==
    /\ dereg[a] = "del"
    /\ DelKey(a)
    /\ dereg' = [dereg EXCEPT ![a] = "delmeta"]
    /\ UNCHANGED <<roster, meta, proc, reg, beat, timer, check, missed, budget>>

DeregDelMeta(a) ==
    /\ dereg[a] = "delmeta"
    /\ meta' = meta \ {a}
    /\ dereg' = [dereg EXCEPT ![a] = "none"]
    /\ UNCHANGED <<roster, hb, proc, reg, beat, timer, check, history, budget>>

\* The request dies on its way, some of its commands done.
DeregFails(a) ==
    /\ dereg[a] # "none"
    /\ Fault
    /\ dereg' = [dereg EXCEPT ![a] = "none"]
    /\ UNCHANGED <<redis, proc, reg, beat, timer, check, history>>

----------------------------------------------------------------------------
(* The health check                                                        *)

\* check_health: SMEMBERS roster.
HealthStart ==
    /\ health = "idle"
    /\ health' = "checking"
    /\ toCheck' = roster
    /\ dead' = {}
    /\ steady' = {a \in Agents : proc[a] = "up" /\ missed[a] = 0 /\ a \notin cut}
    /\ UNCHANGED <<redis, agents, victim, missed, cut, budget>>

\* redis.exists(agent_heartbeat(id)) says no.
AbsentMeta(a) == a \notin meta      \* mutant: the wrong key
Absent(a) == hb[a] = 0

\* EXISTS heartbeat, for each agent of the snapshot.
HealthCheck(a) ==
    /\ health = "checking"
    /\ a \in toCheck
    /\ toCheck' = toCheck \ {a}
    /\ dead' = IF Absent(a) THEN dead \cup {a} ELSE dead
    /\ UNCHANGED <<redis, agents, health, victim, history, budget>>

HealthChecked ==
    /\ health = "checking" /\ toCheck = {}
    /\ health' = "removing"
    /\ UNCHANGED <<redis, agents, toCheck, dead, victim, history, budget>>

\* deregister_agent for each dead agent: SREM, DEL heartbeat, DEL meta.
HealthSrem(a) ==
    /\ health = "removing" /\ victim = {}
    /\ a \in dead
    /\ roster' = roster \ {a}
    /\ victim' = {a}
    /\ UNCHANGED <<hb, meta, agents, health, toCheck, dead, history, budget>>

HealthDel(a) ==
    /\ health = "removing"
    /\ a \in victim \cap dead
    /\ DelKey(a)
    /\ dead' = dead \ {a}
    /\ UNCHANGED <<roster, meta, agents, health, toCheck, victim, missed, budget>>

HealthDelMeta(a) ==
    /\ health = "removing"
    /\ a \in victim \ dead
    /\ meta' = meta \ {a}
    /\ victim' = {}
    /\ UNCHANGED <<roster, hb, agents, health, toCheck, dead, history, budget>>

HealthEnds ==
    /\ health = "removing" /\ dead = {} /\ victim = {}
    /\ health' = "idle"
    /\ UNCHANGED <<redis, agents, toCheck, dead, victim, history, budget>>

\* A Redis error leaves check_health through "?", or the orchestrator dies.
HealthAborts ==
    /\ health # "idle"
    /\ Fault
    /\ health' = "idle"
    /\ toCheck' = {} /\ dead' = {} /\ victim' = {}
    /\ UNCHANGED <<redis, agents, history>>

----------------------------------------------------------------------------
(* Time                                                                    *)

\* What is due before time passes: the loop's next request, and requests and
\* answers that have been under way for MaxDelay ticks.
InFlight(a) == \/ reg[a] \in {"groups", "answer"}
               \/ beat[a] \in {"requesting", "answered"}
Due(a) == \/ beat[a] = "sleeping" /\ timer[a] = 0
          \/ InFlight(a) /\ timer[a] >= MaxDelay

\* A key's remaining life after one more tick.
DecayPastZero(n) == n - 1           \* mutant
DecayNever(n) == n                  \* mutant: SET without EX
Decay(n) == IF n > 0 THEN n - 1 ELSE 0

Tick ==
    /\ \A a \in Agents : ~Due(a)
    /\ hb' = [a \in Agents |-> Decay(hb[a])]
    /\ timer' = [a \in Agents |->
                   IF beat[a] = "sleeping" THEN timer[a] - 1
                   ELSE IF InFlight(a) THEN timer[a] + 1 ELSE timer[a]]
    /\ UNCHANGED <<roster, meta, proc, reg, beat, dereg, check, history, budget>>

RequestStep(a) ==
    \/ RegSadd(a) \/ RegHset(a) \/ RegSet(a) \/ RegGroups(a) \/ RegAnswer(a)
    \/ BeatSend(a) \/ BeatSet(a) \/ BeatAnswer(a)
    \/ DeregSrem(a) \/ DeregDel(a) \/ DeregDelMeta(a)

HealthStep ==
    \/ HealthStart \/ HealthChecked \/ HealthEnds
    \/ \E a \in Agents : \/ HealthCheck(a) \/ HealthSrem(a)
                         \/ HealthDel(a) \/ HealthDelMeta(a)

FaultStep ==
    \/ HealthAborts
    \/ \E a \in Agents : \/ RegFails(a) \/ BeatFails(a) \/ Crash(a)
                         \/ DeregFails(a)

Next ==
    \/ Tick
    \/ \E a \in Agents : Start(a) \/ RequestStep(a) \/ Deregister(a)
    \/ HealthStep
    \/ FaultStep

Spec == Init /\ [][Next]_vars

\* Requests are served, health passes go on and time passes.  Nothing is
\* assumed of Start: a machine may be gone for good.
FairSpec ==
    /\ Spec
    /\ WF_vars(Tick) /\ WF_vars(HealthStep)
    /\ \A a \in Agents : WF_vars(RequestStep(a))

----------------------------------------------------------------------------
(* Properties                                                              *)

TypeOK ==
    /\ roster \subseteq Agents /\ meta \subseteq Agents
    /\ hb \in [Agents -> 0..TTL]
    /\ proc \in [Agents -> {"down", "registering", "up"}]
    /\ reg \in [Agents -> {"none", "sadd", "hset", "setmeta", "set", "groups",
                          "answer"}]
    /\ beat \in [Agents -> {"none", "requesting", "answered", "sleeping"}]
    /\ timer \in [Agents -> Nat]
    /\ dereg \in [Agents -> {"none", "srem", "del", "delmeta"}]
    /\ health \in {"idle", "checking", "removing"}
    /\ toCheck \subseteq Agents /\ dead \subseteq Agents
    /\ victim \subseteq Agents
    /\ missed \in [Agents -> Nat]
    /\ cut \subseteq Agents /\ steady \subseteq Agents
    /\ shutdowns \in 0..MaxShutdowns /\ faults \in 0..MaxFaults

\* A running agent that has missed no beat has a live heartbeat key, unless a
\* deregistration deleted it: sleeping after the answer (heartbeat.rs) keeps
\* the gap between two refreshes below the key's 60 s (transport.rs).
BeatKeepsKey ==
    \A a \in Agents :
        proc[a] = "up" /\ missed[a] = 0 /\ a \notin cut => hb[a] > 0

\* The health check never removes an agent that was up with a live key when
\* the pass began and has missed no beat since (health.rs).
NoSteadyEviction ==
    \A a \in Agents : a \in dead \cup victim => a \notin steady

\* Why the key outlives the gap: its remaining life, accounted from the moment
\* of the last SET through the answer, the sleep and the next request.
Alive(a) == missed[a] = 0 /\ a \notin cut

GapInv(a) ==
    /\ reg[a] # "none" => proc[a] # "up" /\ beat[a] = "none"
    /\ proc[a] = "up" => beat[a] # "none"
    /\ proc[a] = "registering" => reg[a] # "none"
    /\ beat[a] = "sleeping" => proc[a] = "up" /\ timer[a] <= Period
    /\ InFlight(a) => timer[a] <= MaxDelay
    /\ Alive(a) =>
         /\ reg[a] \in {"groups", "answer"} => hb[a] + timer[a] >= TTL
         /\ proc[a] = "up" =>
              /\ beat[a] = "answered" => hb[a] + timer[a] >= TTL
              /\ beat[a] = "sleeping" =>
                    hb[a] + MaxDelay + Period >= TTL + timer[a]
              /\ beat[a] = "requesting" =>
                    hb[a] + MaxDelay + Period + timer[a] >= TTL

\* Why the health check spares a steady agent: it is up, alive by the above,
\* and no pass carries a verdict over from an earlier one.
EvictionInv ==
    /\ \A a \in steady : proc[a] = "up" /\ Alive(a)
    /\ health = "idle" => victim = {}
    /\ NoSteadyEviction

FleetInv == TypeOK /\ (\A a \in Agents : GapInv(a)) /\ EvictionInv

\* An agent that stays down leaves the roster for good (health.rs).
DownLeavesRoster ==
    \A a \in Agents : <>[](proc[a] = "down") => <>[](a \notin roster)

----------------------------------------------------------------------------
(* What the documentation says and the code does not do                    *)

\* heartbeat.rs:7 the loop "keeps the agent registered in the roster": an agent
\* that runs on is, or comes back, in the roster.
BeatKeepsRostered ==
    \A a \in Agents : proc[a] = "up" ~> proc[a] # "up" \/ a \in roster

=============================================================================
