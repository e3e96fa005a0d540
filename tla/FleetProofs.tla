---------------------------- MODULE FleetProofs ----------------------------
(***************************************************************************)
(* Machine-checked proofs about Fleet: for any set of agents and any       *)
(* TTL, Period and MaxDelay with Period + 2 * MaxDelay < TTL.              *)
(***************************************************************************)
EXTENDS Fleet, TLAPS

\* The helpers stay inside the types.
LEMMA DecayLemma ==
    ASSUME NEW n \in 0..TTL
    PROVE  Decay(n) \in 0..TTL /\ Decay(n) + 1 >= n
  BY TimingAssumption DEF Decay

LEMMA InitTypeOK == Init => TypeOK
  BY TimingAssumption, BoundsAssumption DEF Init, TypeOK

LEMMA NextTypeOK == TypeOK /\ [Next]_vars => TypeOK'
<1> SUFFICES ASSUME TypeOK, [Next]_vars PROVE TypeOK'
  OBVIOUS
<1> USE TimingAssumption, BoundsAssumption
<1>1. CASE Tick
  <2>1. hb' \in [Agents -> 0..TTL]
    BY <1>1, DecayLemma DEF Tick, TypeOK
  <2>2. timer' \in [Agents -> Nat]
    BY <1>1 DEF Tick, Due, TypeOK
  <2> QED
    BY <1>1, <2>1, <2>2 DEF Tick, TypeOK, check, history, budget
<1>2. ASSUME NEW a \in Agents,
             \/ Start(a) \/ RegSadd(a) \/ RegHset(a) \/ RegGroups(a)
             \/ RegAnswer(a) \/ RegFails(a)
      PROVE  TypeOK'
  BY <1>2 DEF Start, RegSadd, RegHset, RegGroups, RegAnswer, RegFails, Fault, TypeOK,
     redis, check, history, budget
<1>3. ASSUME NEW a \in Agents, RegSet(a) \/ BeatSet(a)
      PROVE  TypeOK'
  BY <1>3 DEF RegSet, BeatSet, SetKey, TypeOK, check, budget
<1>4. ASSUME NEW a \in Agents,
             BeatSend(a) \/ BeatAnswer(a) \/ BeatFails(a) \/ Crash(a)
      PROVE  TypeOK'
  BY <1>4 DEF BeatSend, BeatAnswer, BeatFails, Crash, SleepTime, Fault, TypeOK,
     redis, check, history, budget
<1>5. ASSUME NEW a \in Agents, Deregister(a) \/ DeregSrem(a) \/ DeregDel(a)
                               \/ DeregDelMeta(a) \/ DeregFails(a)
      PROVE  TypeOK'
  BY <1>5 DEF Deregister, DeregSrem, DeregDel, DeregDelMeta, DeregFails, DelKey,
     Fault, TypeOK, redis, check, history, budget
<1>6. CASE HealthStart \/ HealthChecked \/ HealthEnds \/ HealthAborts
  BY <1>6 DEF HealthStart, HealthChecked, HealthEnds, HealthAborts, Fault,
     TypeOK, redis, agents, history, budget
<1>7. ASSUME NEW a \in Agents, HealthCheck(a) \/ HealthSrem(a) \/ HealthDel(a)
                               \/ HealthDelMeta(a)
      PROVE  TypeOK'
  BY <1>7 DEF HealthCheck, HealthSrem, HealthDel, HealthDelMeta, DelKey, TypeOK,
     redis, agents, history, budget
<1>8. CASE UNCHANGED vars
  BY <1>8 DEF vars, redis, agents, check, history, budget, TypeOK
<1> QED
  BY <1>1, <1>2, <1>3, <1>4, <1>5, <1>6, <1>7, <1>8
  DEF Next, RequestStep, HealthStep, FaultStep

\* Every variable keeps its type; in particular keys never live past their TTL.
THEOREM FleetTypeCorrect == Spec => []TypeOK
  BY InitTypeOK, NextTypeOK, PTL DEF Spec

----------------------------------------------------------------------------
(* The heartbeat key outlives the gap between two beats                    *)

LEMMA GapKeepsKey ==
    ASSUME TypeOK, NEW a \in Agents, GapInv(a), proc[a] = "up", Alive(a)
    PROVE  hb[a] > 0
<1> USE TimingAssumption DEF TypeOK, GapInv, InFlight
<1>1. hb[a] \in Nat /\ timer[a] \in Nat
  OBVIOUS
<1>2. CASE beat[a] = "answered"
  BY <1>1, <1>2
<1>3. CASE beat[a] = "sleeping"
  BY <1>1, <1>3
<1>4. CASE beat[a] = "requesting"
  BY <1>1, <1>4
<1> QED
  BY <1>2, <1>3, <1>4

\* Every step keeps the account of every agent's key.
LEMMA GapStep ==
    ASSUME TypeOK, TypeOK', NEW b \in Agents, GapInv(b), [Next]_vars
    PROVE  GapInv(b)'
<1> USE TimingAssumption
<1>0. /\ hb[b] \in 0..TTL /\ timer[b] \in Nat /\ hb'[b] \in 0..TTL
      /\ timer'[b] \in Nat /\ missed[b] \in Nat
  BY DEF TypeOK
<1>1. ASSUME proc'[b] = proc[b], reg'[b] = reg[b], beat'[b] = beat[b],
             timer'[b] = timer[b], hb'[b] >= hb[b] \/ ~Alive(b)',
             Alive(b)' => Alive(b)
      PROVE  GapInv(b)'
  BY <1>0, <1>1 DEF GapInv, InFlight
<1>2. CASE Tick
  <2>1. hb'[b] + 1 >= hb[b]
    BY <1>2, DecayLemma DEF Tick, TypeOK
  <2>2. UNCHANGED <<proc, reg, beat, missed, cut>>
    BY <1>2 DEF Tick, history
  <2>3. timer'[b] = IF beat[b] = "sleeping" THEN timer[b] - 1
                    ELSE IF InFlight(b) THEN timer[b] + 1 ELSE timer[b]
    BY <1>2 DEF Tick
  <2>4. ~Due(b)
    BY <1>2 DEF Tick
  <2>5. CASE beat[b] = "sleeping"
    BY <1>0, <2>1, <2>2, <2>3, <2>5 DEF GapInv, InFlight, Alive
  <2>6. CASE beat[b] # "sleeping" /\ InFlight(b)
    BY <1>0, <2>1, <2>2, <2>3, <2>4, <2>6 DEF GapInv, InFlight, Alive, Due
  <2>7. CASE beat[b] # "sleeping" /\ ~InFlight(b)
    BY <1>0, <2>1, <2>2, <2>3, <2>7, TypeOK DEF GapInv, InFlight, Alive, TypeOK
  <2> QED
    BY <2>5, <2>6, <2>7
<1>3. ASSUME NEW a \in Agents, a # b,
             \/ Start(a) \/ RequestStep(a) \/ Deregister(a) \/ RegFails(a)
             \/ BeatFails(a) \/ Crash(a) \/ DeregFails(a)
      PROVE  GapInv(b)'
  <2>1. /\ proc'[b] = proc[b] /\ reg'[b] = reg[b] /\ beat'[b] = beat[b]
        /\ timer'[b] = timer[b] /\ hb'[b] = hb[b] /\ missed'[b] = missed[b]
        /\ b \in cut' <=> b \in cut
    BY <1>3 DEF Start, RequestStep, RegSadd, RegHset, RegSet, RegGroups, RegAnswer,
       BeatSend, BeatSet, BeatAnswer, Deregister, DeregSrem, DeregDel,
       DeregDelMeta, RegFails, BeatFails, Crash, DeregFails, SetKey, DelKey,
       TypeOK, redis, check, history, budget
  <2> QED
    BY <1>0, <1>1, <2>1 DEF Alive
<1>4. CASE Start(b) \/ RegSadd(b) \/ RegHset(b) \/ RegGroups(b) \/ RegFails(b)
  BY <1>0, <1>4 DEF Start, RegSadd, RegHset, RegGroups, RegFails, redis, history, GapInv,
     InFlight, Alive, TypeOK
<1>5. CASE RegSet(b)
  BY <1>0, <1>5 DEF RegSet, SetKey, GapInv, InFlight, Alive, TypeOK
<1>6. CASE RegAnswer(b)
  BY <1>0, <1>6 DEF RegAnswer, redis, history, GapInv, InFlight, Alive, TypeOK
<1>7. CASE BeatSend(b)
  BY <1>0, <1>7 DEF BeatSend, redis, history, GapInv, InFlight, Alive, TypeOK
<1>8. CASE BeatSet(b)
  BY <1>0, <1>8 DEF BeatSet, SetKey, GapInv, InFlight, Alive, TypeOK
<1>9. CASE BeatAnswer(b)
  BY <1>0, <1>9 DEF BeatAnswer, SleepTime, redis, history, GapInv, InFlight,
     Alive, TypeOK
<1>10. CASE BeatFails(b)
  BY <1>0, <1>10 DEF BeatFails, SleepTime, redis, GapInv, InFlight, Alive, TypeOK
<1>11. CASE Crash(b)
  BY <1>0, <1>11 DEF Crash, redis, GapInv, InFlight, Alive, TypeOK
<1>12. CASE Deregister(b) \/ DeregSrem(b) \/ DeregDelMeta(b) \/ DeregFails(b)
  BY <1>0, <1>1, <1>12 DEF Deregister, DeregSrem, DeregDelMeta, DeregFails,
     redis, history, Alive
<1>13. ASSUME NEW a \in Agents, DeregDel(a) \/ HealthDel(a) PROVE GapInv(b)'
  BY <1>0, <1>1, <1>13 DEF DeregDel, HealthDel, DelKey, agents, Alive, TypeOK
<1>14. CASE HealthStart \/ HealthChecked \/ HealthEnds \/ HealthAborts
  BY <1>0, <1>1, <1>14 DEF HealthStart, HealthChecked, HealthEnds, HealthAborts,
     redis, agents, history, Alive
<1>15. ASSUME NEW a \in Agents, HealthCheck(a) \/ HealthSrem(a) \/ HealthDelMeta(a)
       PROVE  GapInv(b)'
  BY <1>0, <1>1, <1>15 DEF HealthCheck, HealthSrem, HealthDelMeta, redis,
     agents, history, Alive
<1>16. CASE UNCHANGED vars
  BY <1>0, <1>1, <1>16 DEF vars, redis, agents, history, Alive
<1> QED
  BY <1>2, <1>3, <1>4, <1>5, <1>6, <1>7, <1>8, <1>9, <1>10, <1>11, <1>12,
     <1>13, <1>14, <1>15, <1>16
  DEF Next, RequestStep, HealthStep, FaultStep

----------------------------------------------------------------------------
(* A steady agent is never evicted                                         *)

LEMMA EvictionStep ==
    ASSUME FleetInv, TypeOK', [Next]_vars
    PROVE  EvictionInv'
<1> USE DEF FleetInv
<1>1. ASSUME proc' = proc, steady' \subseteq steady, dead' \subseteq dead,
             victim' \subseteq victim \cup dead,
             health' = "idle" => victim' = {},
             \A a \in steady' : Alive(a)'
      PROVE  EvictionInv'
  BY <1>1 DEF EvictionInv, NoSteadyEviction
<1>2. \A a \in steady : proc[a] = "up" /\ Alive(a) /\ a \in Agents
  BY DEF EvictionInv, TypeOK
<1>3. health = "idle" => victim = {}
  BY DEF EvictionInv
<1>4. CASE HealthStart
  <2>1. \A a \in steady' : proc[a] = "up" /\ Alive(a) /\ a \in Agents
    BY <1>4 DEF HealthStart, Alive
  <2>2. dead' = {} /\ victim' = {} /\ health' = "checking"
    BY <1>3, <1>4 DEF HealthStart
  <2>3. UNCHANGED <<proc, missed, cut>>
    BY <1>4 DEF HealthStart, agents
  <2> QED
    BY <2>1, <2>2, <2>3 DEF EvictionInv, NoSteadyEviction, Alive
<1>5. ASSUME NEW a \in Agents, HealthCheck(a) PROVE EvictionInv'
  <2>1. UNCHANGED <<proc, missed, cut, steady, victim, health>>
    BY <1>5 DEF HealthCheck, agents, history
  <2>2. a \in steady => hb[a] > 0
    BY <1>2, GapKeepsKey
  <2>3. hb[a] \in Nat
    BY TimingAssumption DEF TypeOK
  <2>4. dead' = IF hb[a] = 0 THEN dead \cup {a} ELSE dead
    BY <1>5 DEF HealthCheck, Absent
  <2>5. a \in dead' /\ a \notin dead => a \notin steady
    BY <2>2, <2>3, <2>4
  <2>6. dead' \subseteq dead \cup {a}
    BY <2>4
  <2> QED
    BY <2>1, <2>5, <2>6 DEF EvictionInv, NoSteadyEviction, Alive
<1>6. ASSUME NEW a \in Agents, HealthSrem(a) \/ HealthDelMeta(a)
      PROVE  EvictionInv'
  BY <1>1, <1>2, <1>3, <1>6 DEF HealthSrem, HealthDelMeta, agents, history, Alive
<1>7. ASSUME NEW a \in Agents, DeregDel(a) \/ HealthDel(a) PROVE EvictionInv'
  <2>1. steady' = steady \ {a} /\ cut' = cut \cup {a} /\ missed' = missed
    BY <1>7 DEF DeregDel, HealthDel, DelKey
  <2>2. /\ proc' = proc /\ dead' \subseteq dead /\ victim' = victim
        /\ health' = health
    BY <1>7 DEF DeregDel, HealthDel, agents, check
  <2>3. \A b \in steady' : Alive(b)'
    BY <1>2, <2>1 DEF Alive
  <2> QED
    BY <1>1, <1>3, <2>1, <2>2, <2>3
<1>8. ASSUME NEW a \in Agents, RegSet(a) \/ BeatSet(a) PROVE EvictionInv'
  <2>1. /\ missed' = [missed EXCEPT ![a] = 0] /\ cut' = cut \ {a}
        /\ steady' = steady
    BY <1>8 DEF RegSet, BeatSet, SetKey
  <2>2. UNCHANGED <<proc, dead, victim, health>>
    BY <1>8 DEF RegSet, BeatSet, check
  <2>3. \A b \in steady' : Alive(b)'
    BY <1>2, <2>1 DEF Alive, TypeOK
  <2> QED
    BY <1>1, <1>3, <2>1, <2>2, <2>3
<1>9. ASSUME NEW a \in Agents, BeatFails(a) PROVE EvictionInv'
  <2>1. /\ missed' = [missed EXCEPT ![a] = @ + 1] /\ cut' = cut
        /\ steady' = steady \ {a}
    BY <1>9 DEF BeatFails
  <2>2. UNCHANGED <<proc, dead, victim, health>>
    BY <1>9 DEF BeatFails, check
  <2>3. \A b \in steady' : Alive(b)'
    BY <1>2, <2>1 DEF Alive, TypeOK
  <2> QED
    BY <1>1, <1>3, <2>1, <2>2, <2>3
<1>10. ASSUME NEW a \in Agents, Start(a) \/ RegAnswer(a) \/ RegFails(a) \/ Crash(a)
       PROVE  EvictionInv'
  <2>1. /\ UNCHANGED <<missed, cut, dead, victim, health>>
        /\ steady' \subseteq steady
    BY <1>10 DEF Start, RegAnswer, RegFails, Crash, check, history
  <2>2. \A b \in steady' : proc'[b] = "up"
    BY <1>2, <1>10 DEF Start, RegAnswer, RegFails, Crash, TypeOK, GapInv, history
  <2> QED
    BY <1>2, <1>3, <2>1, <2>2 DEF EvictionInv, NoSteadyEviction, Alive
<1>11. ASSUME NEW a \in Agents, RegSadd(a) \/ RegHset(a) \/ RegGroups(a) \/ BeatSend(a)
              \/ BeatAnswer(a) \/ Deregister(a) \/ DeregSrem(a)
              \/ DeregDelMeta(a) \/ DeregFails(a)
       PROVE  EvictionInv'
  BY <1>1, <1>2, <1>3, <1>11 DEF RegSadd, RegHset, RegGroups, BeatSend, BeatAnswer,
     Deregister, DeregSrem, DeregDelMeta, DeregFails, check, history, Alive
<1>12. CASE Tick \/ HealthChecked \/ HealthEnds \/ HealthAborts \/ UNCHANGED vars
  BY <1>1, <1>2, <1>3, <1>12 DEF Tick, HealthChecked, HealthEnds, HealthAborts,
     agents, check, history, vars, Alive
<1> QED
  BY <1>4, <1>5, <1>6, <1>7, <1>8, <1>9, <1>10, <1>11, <1>12
  DEF Next, RequestStep, HealthStep, FaultStep

THEOREM FleetInvariant == Spec => []FleetInv
<1>1. Init => FleetInv
  BY InitTypeOK DEF Init, FleetInv, GapInv, InFlight, Alive, EvictionInv,
     NoSteadyEviction
<1>2. FleetInv /\ [Next]_vars => FleetInv'
  <2> SUFFICES ASSUME FleetInv, [Next]_vars PROVE FleetInv'
    OBVIOUS
  <2>1. TypeOK'
    BY NextTypeOK DEF FleetInv
  <2>2. \A a \in Agents : GapInv(a)'
    BY <2>1, GapStep DEF FleetInv
  <2>3. EvictionInv'
    BY <2>1, EvictionStep
  <2> QED
    BY <2>1, <2>2, <2>3 DEF FleetInv
<1> QED
  BY <1>1, <1>2, PTL DEF Spec

\* A running agent that misses no beat keeps its heartbeat key alive, for every
\* TTL, period and delay with Period + 2 * MaxDelay < TTL (heartbeat.rs,
\* transport.rs refresh_heartbeat).
THEOREM KeyOutlivesGap == Spec => []BeatKeepsKey
<1>1. FleetInv => BeatKeepsKey
  BY GapKeepsKey DEF FleetInv, BeatKeepsKey, Alive
<1> QED
  BY <1>1, FleetInvariant, PTL

\* The health check never evicts an agent that was up when its pass began and
\* has missed no beat since (health.rs).
THEOREM SteadyAgentSurvives == Spec => []NoSteadyEviction
<1>1. FleetInv => NoSteadyEviction
  BY DEF FleetInv, EvictionInv
<1> QED
  BY <1>1, FleetInvariant, PTL

=============================================================================
