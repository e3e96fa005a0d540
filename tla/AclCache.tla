------------------------------ MODULE AclCache ------------------------------
(***************************************************************************)
(* The gateway's P2P access check (messaging acl.rs): group membership in  *)
(* the agents' metadata hashes and allowed group pairs in Redis, read      *)
(* through an in-process cache that many requests share.                   *)
(*                                                                         *)
(* A check reads the sender's groups, the target's groups and the rules,   *)
(* one after the other; each read looks into the cache under a read lock,  *)
(* awaits Redis on a miss, and stores what it got under a write lock.      *)
(* Between the read in Redis and the store the value can grow old, rules   *)
(* and groups can change, and other checks can store newer values.         *)
(*                                                                         *)
(* Group names are numbers in the order of the strings; names with ":" or  *)
(* "," in them, which would run together when joined, are left out.        *)
(***************************************************************************)
EXTENDS Naturals, FiniteSets

CONSTANTS
    Agents, Groups,
    Requests,       \* bound: P2P messages the gateway checks concurrently
    Pairs,          \* bound: <<sender, target>> of those messages
    CacheTTL,       \* CACHE_TTL in ticks (5 s)
    MaxDelay,       \* bound: ticks between a cache miss and its store
    MaxTime,        \* bound: the clock stops there
    MaxChanges      \* bound: changes of rules and groups

ASSUME GroupsAssumption == Groups \subseteq Nat
ASSUME PairsAssumption == Pairs \subseteq Agents \X Agents /\ Pairs # {}
ASSUME BoundsAssumption ==
    /\ CacheTTL \in Nat \ {0} /\ MaxDelay \in Nat
    /\ MaxTime \in Nat /\ MaxChanges \in Nat

NormalizeRuleAsGiven(a, b) == <<a, b>>              \* mutant
\* normalize_rule: the smaller name first.
NormalizeRule(a, b) == IF a <= b THEN <<a, b>> ELSE <<b, a>>
Rules == {NormalizeRule(a, b) : a \in Groups, b \in Groups}

VARIABLES
    now,
    \* --- Redis ---
    rules,          \* openclaw:acl:p2p-rules
    groups,         \* the groups field of each agent's hash
    \* --- the shared cache ---
    rulesCache,     \* [full, value, at]: CacheEntry or none
    groupsCache,    \* [full, known, value, at]: one stamp for the whole map
    \* --- requests ---
    stage,          \* idle, sender, target, rules or decide
    phase,          \* look, load or store
    pair,           \* <<sender, target>>
    gotGroups, gotRules,    \* what Redis answered, on its way to the cache
    age,            \* ticks since the miss
    senderGroups, targetGroups, ruleSet,    \* what the check has read so far
    verdict,
    \* --- history ---
    rulesPast,      \* former rule sets with the last instant they held
    groupsPast,     \* the same for each agent's groups
    granted,        \* pairs allowed by the commands given, as sets
    changes

acl     == <<rules, groups>>
cache   == <<rulesCache, groupsCache>>
read    == <<senderGroups, targetGroups, ruleSet>>
got     == <<gotGroups, gotRules>>
request == <<stage, phase, pair, got, age, read, verdict>>
history == <<rulesPast, groupsPast, granted, changes>>
vars    == <<now, acl, cache, request, history>>

Init ==
    /\ now = 0
    /\ rules \in SUBSET Rules
    /\ groups \in [Agents -> SUBSET Groups]
    /\ rulesCache = [full |-> FALSE, value |-> {}, at |-> 0]
    /\ groupsCache = [full |-> FALSE, known |-> {},
                      value |-> [a \in Agents |-> {}], at |-> 0]
    /\ stage = [r \in Requests |-> "idle"]
    /\ phase = [r \in Requests |-> "look"]
    /\ pair = [r \in Requests |-> CHOOSE p \in Pairs : TRUE]
    /\ gotGroups = [r \in Requests |-> {}]
    /\ gotRules = [r \in Requests |-> {}]
    /\ age = [r \in Requests |-> 0]
    /\ senderGroups = [r \in Requests |-> {}]
    /\ targetGroups = [r \in Requests |-> {}]
    /\ ruleSet = [r \in Requests |-> {}]
    /\ verdict = [r \in Requests |-> "none"]
    /\ rulesPast = {}
    /\ groupsPast = [a \in Agents |-> {}]
    /\ granted = {{p[1], p[2]} : p \in rules}
    /\ changes = 0

----------------------------------------------------------------------------
(* Administration: orchestrator acl.rs, deploy.sh, registration            *)

\* add_p2p_rule / remove_p2p_rule, either way round.
ChangeRule(a, b) ==
    /\ changes < MaxChanges /\ changes' = changes + 1
    /\ \/ /\ rules' = rules \cup {NormalizeRule(a, b)}
          /\ granted' = granted \cup {{a, b}}
       \/ /\ rules' = rules \ {NormalizeRule(a, b)}
          /\ granted' = granted \ {{a, b}}
    /\ granted' # granted
    /\ rulesPast' = rulesPast \cup {[value |-> rules, until |-> now]}
    /\ UNCHANGED <<now, groups, cache, request, groupsPast>>

\* set_agent_groups, or the DEL of the hash when the agent is deregistered.
ChangeGroups(a, G) ==
    /\ changes < MaxChanges /\ changes' = changes + 1
    /\ G # groups[a]
    /\ groups' = [groups EXCEPT ![a] = G]
    /\ groupsPast' = [groupsPast EXCEPT
                        ![a] = @ \cup {[value |-> groups[a], until |-> now]}]
    /\ UNCHANGED <<now, rules, cache, request, rulesPast, granted>>

----------------------------------------------------------------------------
(* One check                                                               *)

\* is_fresh: elapsed < CACHE_TTL.
Fresh(at) == now - at < CacheTTL

Sender(r) == pair[r][1]
Target(r) == pair[r][2]
Who(r)    == IF stage[r] = "sender" THEN Sender(r) ELSE Target(r)

\* check_p2p starts for a P2P message to an agent.
Begin(r, p) ==
    /\ stage[r] = "idle"
    /\ stage' = [stage EXCEPT ![r] = "sender"]
    /\ phase' = [phase EXCEPT ![r] = "look"]
    /\ pair' = [pair EXCEPT ![r] = p]
    /\ verdict' = [verdict EXCEPT ![r] = "none"]
    /\ UNCHANGED <<now, acl, cache, got, age, read, history>>

\* The check is over; what it read is dropped.
Forget(r) ==
    /\ senderGroups' = [senderGroups EXCEPT ![r] = {}]
    /\ targetGroups' = [targetGroups EXCEPT ![r] = {}]
    /\ ruleSet' = [ruleSet EXCEPT ![r] = {}]

\* The read of stage[r] returned v: the check goes on to its next read, or ends
\* at once with a denial when an agent has no groups.
Proceed(r, v) ==
    /\ phase' = [phase EXCEPT ![r] = "look"]
    /\ \/ /\ stage[r] = "sender"
          /\ senderGroups' = [senderGroups EXCEPT ![r] = v]
          /\ stage' = [stage EXCEPT ![r] = "target"]
          /\ UNCHANGED <<targetGroups, ruleSet, verdict>>
       \/ /\ stage[r] = "target"
          /\ senderGroups[r] # {} /\ v # {}
          /\ targetGroups' = [targetGroups EXCEPT ![r] = v]
          /\ stage' = [stage EXCEPT ![r] = "rules"]
          /\ UNCHANGED <<senderGroups, ruleSet, verdict>>
       \/ /\ stage[r] = "target"
          /\ senderGroups[r] = {} \/ v = {}
          /\ stage' = [stage EXCEPT ![r] = "idle"]
          /\ verdict' = [verdict EXCEPT ![r] = "deny"]
          /\ Forget(r)
       \/ /\ stage[r] = "rules"
          /\ ruleSet' = [ruleSet EXCEPT ![r] = v]
          /\ stage' = [stage EXCEPT ![r] = "decide"]
          /\ UNCHANGED <<senderGroups, targetGroups, verdict>>

\* The cached rules, as a set of at most one element.
CachedRulesForever == IF rulesCache.full THEN {rulesCache.value} ELSE {} \* mutant
CachedRules ==
    IF rulesCache.full /\ Fresh(rulesCache.at) THEN {rulesCache.value} ELSE {}

CachedGroups(a) ==
    IF groupsCache.full /\ Fresh(groupsCache.at) /\ a \in groupsCache.known
    THEN {groupsCache.value[a]} ELSE {}

\* What the cache has for the current read.
Cached(r) == IF stage[r] = "rules" THEN CachedRules ELSE CachedGroups(Who(r))

Reading(r) == stage[r] \in {"sender", "target", "rules"}

\* The first half of get_rules / get_agent_groups: serve a fresh entry.
Hit(r) ==
    /\ Reading(r) /\ phase[r] = "look"
    /\ \E v \in Cached(r) : Proceed(r, v)
    /\ UNCHANGED <<now, acl, cache, pair, got, age, history>>

Miss(r) ==
    /\ Reading(r) /\ phase[r] = "look"
    /\ Cached(r) = {}
    /\ phase' = [phase EXCEPT ![r] = "load"]
    /\ UNCHANGED <<now, acl, cache, stage, pair, got, age, read, verdict, history>>

\* Redis serves SMEMBERS or HGET.
Load(r) ==
    /\ phase[r] = "load"
    /\ \/ /\ stage[r] = "rules"
          /\ gotRules' = [gotRules EXCEPT ![r] = rules]
          /\ UNCHANGED gotGroups
       \/ /\ stage[r] \in {"sender", "target"}
          /\ gotGroups' = [gotGroups EXCEPT ![r] = groups[Who(r)]]
          /\ UNCHANGED gotRules
    /\ phase' = [phase EXCEPT ![r] = "store"]
    /\ UNCHANGED <<now, acl, cache, stage, pair, age, read, verdict, history>>

\* get_rules, second half: a new entry, stamped with the instant of the store.
StoreRules(r) ==
    /\ stage[r] = "rules" /\ phase[r] = "store"
    /\ rulesCache' = [full |-> TRUE, value |-> gotRules[r], at |-> now]
    /\ Proceed(r, gotRules[r])
    /\ gotRules' = [gotRules EXCEPT ![r] = {}]
    /\ age' = [age EXCEPT ![r] = 0]
    /\ UNCHANGED <<now, acl, groupsCache, pair, gotGroups, history>>

\* mutants: every insert renews the stamp of the whole map; the stamp is the
\* instant of expiry
GroupsStampRenewed == now
GroupsStampExpiry == IF groupsCache.full THEN groupsCache.at ELSE now + CacheTTL
\* get_or_insert_with: the map is stamped once, when it is created.
GroupsStamp == IF groupsCache.full THEN groupsCache.at ELSE now

\* get_agent_groups, second half: insert into the map.
StoreGroups(r) ==
    /\ stage[r] \in {"sender", "target"} /\ phase[r] = "store"
    /\ groupsCache' = [full  |-> TRUE,
                       known |-> groupsCache.known \cup {Who(r)},
                       value |-> [groupsCache.value EXCEPT ![Who(r)] = gotGroups[r]],
                       at    |-> GroupsStamp]
    /\ Proceed(r, gotGroups[r])
    /\ gotGroups' = [gotGroups EXCEPT ![r] = {}]
    /\ age' = [age EXCEPT ![r] = 0]
    /\ UNCHANGED <<now, acl, rulesCache, pair, gotRules, history>>

\* Redis answers with an error, or the client is gone: the check ends.
Fails(r) ==
    /\ phase[r] \in {"load", "store"}
    /\ stage' = [stage EXCEPT ![r] = "idle"]
    /\ phase' = [phase EXCEPT ![r] = "look"]
    /\ gotGroups' = [gotGroups EXCEPT ![r] = {}]
    /\ gotRules' = [gotRules EXCEPT ![r] = {}]
    /\ age' = [age EXCEPT ![r] = 0]
    /\ Forget(r)
    /\ UNCHANGED <<now, acl, cache, pair, verdict, history>>

\* Some pair of their groups is in the rules.
AllowedBy(R, S, T) == \E g \in S, h \in T : NormalizeRule(g, h) \in R

Decide(r) ==
    /\ stage[r] = "decide"
    /\ verdict' = [verdict EXCEPT
                     ![r] = IF AllowedBy(ruleSet[r], senderGroups[r], targetGroups[r])
                            THEN "allow" ELSE "deny"]
    /\ stage' = [stage EXCEPT ![r] = "idle"]
    /\ Forget(r)
    /\ UNCHANGED <<now, acl, cache, phase, pair, got, age, history>>

\* Computation takes no time; an answer from Redis at most MaxDelay ticks.
Tick ==
    /\ now < MaxTime
    /\ \A r \in Requests :
          \/ stage[r] = "idle"
          \/ phase[r] \in {"load", "store"} /\ age[r] < MaxDelay
    /\ now' = now + 1
    /\ age' = [r \in Requests |->
                 IF phase[r] \in {"load", "store"} THEN age[r] + 1 ELSE age[r]]
    /\ UNCHANGED <<acl, cache, stage, phase, pair, got, read, verdict, history>>

Next ==
    \/ Tick
    \/ \E a \in Groups, b \in Groups : ChangeRule(a, b)
    \/ \E a \in Agents, G \in SUBSET Groups : ChangeGroups(a, G)
    \/ \E r \in Requests, p \in Pairs : Begin(r, p)
    \/ \E r \in Requests : \/ Hit(r) \/ Miss(r) \/ Load(r)
                           \/ StoreRules(r) \/ StoreGroups(r)
                           \/ Fails(r) \/ Decide(r)

Spec == Init /\ [][Next]_vars

----------------------------------------------------------------------------
(* Properties                                                              *)

TypeOK ==
    /\ now \in 0..MaxTime
    /\ rules \subseteq Rules
    /\ groups \in [Agents -> SUBSET Groups]
    /\ rulesCache \in [full : BOOLEAN, value : SUBSET Rules, at : 0..now]
    /\ groupsCache \in [full : BOOLEAN, known : SUBSET Agents,
                        value : [Agents -> SUBSET Groups], at : 0..now]
    /\ stage \in [Requests -> {"idle", "sender", "target", "rules", "decide"}]
    /\ phase \in [Requests -> {"look", "load", "store"}]
    /\ pair \in [Requests -> Pairs]
    /\ gotGroups \in [Requests -> SUBSET Groups]
    /\ gotRules \in [Requests -> SUBSET Rules]
    /\ age \in [Requests -> 0..MaxDelay]
    /\ senderGroups \in [Requests -> SUBSET Groups]
    /\ targetGroups \in [Requests -> SUBSET Groups]
    /\ ruleSet \in [Requests -> SUBSET Rules]
    /\ verdict \in [Requests -> {"none", "allow", "deny"}]
    /\ rulesPast \subseteq [value : SUBSET Rules, until : 0..now]
    /\ groupsPast \in [Agents -> SUBSET [value : SUBSET Groups, until : 0..now]]
    /\ granted \subseteq SUBSET Groups
    /\ changes \in 0..MaxChanges

\* v is, or within the last w ticks was, the value in Redis.
Recent(v, current, past, w) ==
    v = current \/ \E p \in past : p.value = v /\ now - p.until <= w

\* A check decides by rules that were in force less than CacheTTL + MaxDelay
\* ago, although a slow load can overwrite a newer one and gets a new stamp:
\* a revoked or a new rule is honoured after that time (acl.rs, get_rules).
RulesRecent ==
    \A r \in Requests : stage[r] = "decide" =>
        Recent(ruleSet[r], rules, rulesPast, CacheTTL - 1 + MaxDelay)

\* The same for the groups of both agents, which were read up to two answers
\* earlier; the map's single stamp never keeps an entry alive longer than an
\* own stamp would (acl.rs, get_agent_groups).
GroupsRecent ==
    \A r \in Requests :
        /\ stage[r] \in {"target", "rules", "decide"} =>
               Recent(senderGroups[r], groups[Sender(r)], groupsPast[Sender(r)],
                      CacheTTL - 1 + 3 * MaxDelay)
        /\ stage[r] \in {"rules", "decide"} =>
               Recent(targetGroups[r], groups[Target(r)], groupsPast[Target(r)],
                      CacheTTL - 1 + 2 * MaxDelay)

\* The rules in Redis stand for unordered pairs: two groups may talk, in both
\* directions, exactly if the last command about them, whichever way round it
\* named them, was an allowance (acl.rs, add_p2p_rule, "bidirectional").
RulesAreUnordered ==
    \A g, h \in Groups : {g, h} \in granted <=> AllowedBy(rules, {g}, {h})

\* The inductive invariant.  A value is as old as the time it has been on its
\* way to the cache, then as the stamp of its entry says and an answer more, and
\* in the hands of a check it ages with the reads that follow.
ChecksInv ==
    \A r \in Requests :
        /\ stage[r] \in {"idle", "decide"} => phase[r] = "look"
        /\ phase[r] = "look" => age[r] = 0

CachedRulesInv ==
    rulesCache.full =>
        Recent(rulesCache.value, rules, rulesPast, now - rulesCache.at + MaxDelay)

CheckedRulesInv(r) ==
    /\ stage[r] = "rules" /\ phase[r] = "store" =>
           Recent(gotRules[r], rules, rulesPast, age[r])
    /\ stage[r] = "decide" =>
           Recent(ruleSet[r], rules, rulesPast, CacheTTL - 1 + MaxDelay)

CachedGroupsInv(a) ==
    a \in groupsCache.known =>
        /\ groupsCache.full
        /\ Recent(groupsCache.value[a], groups[a], groupsPast[a],
                  now - groupsCache.at + MaxDelay)

\* How old a value in the hands of a check can be, n answers after it was true
\* or had a fresh entry.
Reach(r, n) == CacheTTL - 1 + n * MaxDelay + age[r]

CheckedGroupsInv(r) ==
    /\ stage[r] \in {"sender", "target"} /\ phase[r] = "store" =>
           Recent(gotGroups[r], groups[Who(r)], groupsPast[Who(r)], age[r])
    /\ stage[r] = "target" =>
           Recent(senderGroups[r], groups[Sender(r)], groupsPast[Sender(r)],
                  Reach(r, 1))
    /\ stage[r] \in {"rules", "decide"} =>
           /\ Recent(senderGroups[r], groups[Sender(r)], groupsPast[Sender(r)],
                     Reach(r, IF stage[r] = "rules" THEN 2 ELSE 3))
           /\ Recent(targetGroups[r], groups[Target(r)], groupsPast[Target(r)],
                     Reach(r, IF stage[r] = "rules" THEN 1 ELSE 2))

CacheInv ==
    /\ TypeOK /\ ChecksInv /\ RulesAreUnordered
    /\ CachedRulesInv /\ \A a \in Agents : CachedGroupsInv(a)
    /\ \A r \in Requests : CheckedRulesInv(r) /\ CheckedGroupsInv(r)

\* acl.rs:139 the cache is there "to avoid hitting Redis on every message.
\* Entries expire after 5 seconds": an entry just stored has not expired yet.
GroupsServedFromCache ==
    [][\A r \in Requests : StoreGroups(r) => now - groupsCache'.at < CacheTTL]_vars

=============================================================================
