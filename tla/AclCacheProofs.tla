--------------------------- MODULE AclCacheProofs ---------------------------
(***************************************************************************)
(* Machine-checked proofs about AclCache: for any agents and groups, any   *)
(* number of concurrent checks, any time to live and any delay.            *)
(***************************************************************************)
EXTENDS AclCache, Integers, TLAPS

----------------------------------------------------------------------------
(* Operators of the model                                                  *)

\* A rule has one form, whichever of its groups is named first (acl.rs,
\* normalize_rule).
LEMMA NormalizeIsUnordered ==
    ASSUME NEW a \in Groups, NEW b \in Groups, NEW g \in Groups, NEW h \in Groups
    PROVE  NormalizeRule(a, b) = NormalizeRule(g, h) <=> {a, b} = {g, h}
<1>1. a \in Nat /\ b \in Nat /\ g \in Nat /\ h \in Nat
  BY GroupsAssumption
<1>2. {a, b} = {g, h} <=> (a = g /\ b = h) \/ (a = h /\ b = g)
  OBVIOUS
<1> QED
  BY <1>1, <1>2 DEF NormalizeRule

LEMMA NormalizeInRules ==
    ASSUME NEW a \in Groups, NEW b \in Groups
    PROVE  /\ NormalizeRule(a, b) \in Rules
           /\ {NormalizeRule(a, b)[1], NormalizeRule(a, b)[2]} = {a, b}
  BY DEF NormalizeRule, Rules

\* What is recent stays recent by a wider measure.
LEMMA RecentWeaken ==
    ASSUME NEW v, NEW c, NEW P, NEW w \in Int, NEW x \in Int, w <= x,
           now \in Int, \A p \in P : p.until \in Int, Recent(v, c, P, w)
    PROVE  Recent(v, c, P, x)
  BY DEF Recent

\* A tick makes it older by one.
LEMMA RecentAges ==
    ASSUME NEW v, NEW c, NEW P, NEW w \in Int, NEW x \in Int, w + 1 <= x,
           now \in Int, now' = now + 1, \A p \in P : p.until \in Int,
           Recent(v, c, P, w)
    PROVE  Recent(v, c, P, x)'
  BY DEF Recent

\* A change of the value is noted in the past.
LEMMA RecentKept ==
    ASSUME NEW v, NEW c, NEW P, NEW d, NEW w \in Nat, now \in Int, now' = now,
           Recent(v, c, P, w)
    PROVE  Recent(v, d, P \cup {[value |-> c, until |-> now]}, w)'
<1> DEFINE q == [value |-> c, until |-> now]
<1>1. q.value = c /\ now - q.until <= w
  OBVIOUS
<1> QED
  BY <1>1 DEF Recent

----------------------------------------------------------------------------
(* Type correctness                                                        *)

LEMMA InitTypeOK == Init => TypeOK
<1> SUFFICES ASSUME Init PROVE TypeOK
  OBVIOUS
<1>1. (CHOOSE p \in Pairs : TRUE) \in Pairs
  BY PairsAssumption
<1>2. granted \subseteq SUBSET Groups
  BY DEF Init, Rules, NormalizeRule
<1> QED
  BY <1>1, <1>2, BoundsAssumption DEF Init, TypeOK

\* The agents a check is about.
LEMMA AgentsOfPair ==
    ASSUME TypeOK, NEW r \in Requests
    PROVE  Sender(r) \in Agents /\ Target(r) \in Agents /\ Who(r) \in Agents
<1>1. pair[r] \in Agents \X Agents
  BY PairsAssumption DEF TypeOK
<1> QED
  BY <1>1 DEF Sender, Target, Who

LEMMA ProceedTypeOK ==
    ASSUME TypeOK, NEW r \in Requests, NEW v, Proceed(r, v),
           stage[r] = "rules" => v \subseteq Rules,
           stage[r] # "rules" => v \subseteq Groups
    PROVE  /\ stage' \in [Requests -> {"idle", "sender", "target", "rules", "decide"}]
           /\ phase' \in [Requests -> {"look", "load", "store"}]
           /\ senderGroups' \in [Requests -> SUBSET Groups]
           /\ targetGroups' \in [Requests -> SUBSET Groups]
           /\ ruleSet' \in [Requests -> SUBSET Rules]
           /\ verdict' \in [Requests -> {"none", "allow", "deny"}]
  BY DEF Proceed, Forget, TypeOK

LEMMA NextTypeOK == TypeOK /\ ChecksInv /\ [Next]_vars => TypeOK'
<1> SUFFICES ASSUME TypeOK, ChecksInv, [Next]_vars PROVE TypeOK'
  OBVIOUS
<1> USE BoundsAssumption
<1>1. CASE Tick
  <2>1. age' \in [Requests -> 0..MaxDelay]
    BY <1>1 DEF Tick, TypeOK, ChecksInv
  <2>2. now' \in 0..MaxTime /\ now' = now + 1 /\ now \in Nat
    BY <1>1 DEF Tick, TypeOK
  <2>3. 0..now \subseteq 0..now'
    BY <2>2
  <2> QED
    BY <1>1, <2>1, <2>2, <2>3 DEF Tick, TypeOK, acl, cache, got, read, history
<1>2. ASSUME NEW a \in Groups, NEW b \in Groups, ChangeRule(a, b) PROVE TypeOK'
  <2>1. rules' \subseteq Rules
    BY <1>2, NormalizeInRules DEF ChangeRule, TypeOK
  <2>2. granted' \subseteq SUBSET Groups
    BY <1>2 DEF ChangeRule, TypeOK
  <2>3. rulesPast' \subseteq [value : SUBSET Rules, until : 0..now]
    BY <1>2 DEF ChangeRule, TypeOK
  <2> QED
    BY <1>2, <2>1, <2>2, <2>3 DEF ChangeRule, TypeOK, cache, request, got, read
<1>3. ASSUME NEW a \in Agents, NEW G \in SUBSET Groups, ChangeGroups(a, G)
      PROVE  TypeOK'
  <2>1. groupsPast' \in [Agents -> SUBSET [value : SUBSET Groups, until : 0..now]]
    BY <1>3 DEF ChangeGroups, TypeOK
  <2> QED
    BY <1>3, <2>1 DEF ChangeGroups, TypeOK, cache, request, got, read
<1>4. ASSUME NEW r \in Requests, NEW p \in Pairs, Begin(r, p) PROVE TypeOK'
  BY <1>4 DEF Begin, TypeOK, acl, cache, got, read, history
<1>5. ASSUME NEW r \in Requests, Hit(r) PROVE TypeOK'
  <2>1. PICK v \in Cached(r) : Proceed(r, v)
    BY <1>5 DEF Hit
  <2>2. /\ stage[r] = "rules" => v \subseteq Rules
        /\ stage[r] # "rules" => v \subseteq Groups
    BY AgentsOfPair DEF Cached, CachedRules, CachedGroups, TypeOK
  <2> QED
    BY <1>5, <2>1, <2>2, ProceedTypeOK
    DEF Hit, TypeOK, acl, cache, got, history
<1>6. ASSUME NEW r \in Requests, Miss(r) PROVE TypeOK'
  BY <1>6 DEF Miss, TypeOK, acl, cache, got, read, history
<1>7. ASSUME NEW r \in Requests, Load(r) PROVE TypeOK'
  BY <1>7, AgentsOfPair DEF Load, TypeOK, acl, cache, read, history
<1>8. ASSUME NEW r \in Requests, StoreRules(r) PROVE TypeOK'
  <2>1. gotRules[r] \subseteq Rules /\ now \in 0..now
    BY DEF TypeOK
  <2>2. stage[r] = "rules" /\ Proceed(r, gotRules[r])
    BY <1>8 DEF StoreRules
  <2>3. rulesCache' \in [full : BOOLEAN, value : SUBSET Rules, at : 0..now]
    BY <1>8, <2>1 DEF StoreRules
  <2> QED
    BY <1>8, <2>1, <2>2, <2>3, ProceedTypeOK DEF StoreRules, TypeOK, acl, history
<1>9. ASSUME NEW r \in Requests, StoreGroups(r) PROVE TypeOK'
  <2>1. gotGroups[r] \subseteq Groups /\ now \in 0..now
    BY DEF TypeOK
  <2>2. stage[r] # "rules" /\ Proceed(r, gotGroups[r])
    BY <1>9 DEF StoreGroups
  <2>3. groupsCache' \in [full : BOOLEAN, known : SUBSET Agents,
                          value : [Agents -> SUBSET Groups], at : 0..now]
    BY <1>9, <2>1, AgentsOfPair DEF StoreGroups, GroupsStamp, TypeOK
  <2> QED
    BY <1>9, <2>1, <2>2, <2>3, ProceedTypeOK DEF StoreGroups, TypeOK, acl, history
<1>10. ASSUME NEW r \in Requests, Fails(r) PROVE TypeOK'
  BY <1>10 DEF Fails, Forget, TypeOK, acl, cache, history
<1>11. ASSUME NEW r \in Requests, Decide(r) PROVE TypeOK'
  BY <1>11 DEF Decide, Forget, TypeOK, acl, cache, got, history
<1>12. CASE UNCHANGED vars
  BY <1>12 DEF vars, acl, cache, read, got, request, history, TypeOK
<1> QED
  BY <1>1, <1>2, <1>3, <1>4, <1>5, <1>6, <1>7, <1>8, <1>9, <1>10, <1>11, <1>12
  DEF Next

\* A check that is not waiting for Redis has no age.
LEMMA NextChecksInv == TypeOK /\ ChecksInv /\ [Next]_vars => ChecksInv'
<1> SUFFICES ASSUME TypeOK, ChecksInv, [Next]_vars, NEW b \in Requests
             PROVE  /\ stage'[b] \in {"idle", "decide"} => phase'[b] = "look"
                    /\ phase'[b] = "look" => age'[b] = 0
  BY DEF ChecksInv
<1> USE DEF ChecksInv, TypeOK
<1>1. CASE Tick
  BY <1>1 DEF Tick
<1>2. ASSUME NEW r \in Requests, NEW v, Proceed(r, v),
             \/ age' = age /\ phase[r] = "look"
             \/ age' = [age EXCEPT ![r] = 0]
      PROVE  /\ stage'[b] \in {"idle", "decide"} => phase'[b] = "look"
             /\ phase'[b] = "look" => age'[b] = 0
  BY <1>2 DEF Proceed
<1>3. ASSUME NEW r \in Requests, Hit(r) \/ StoreRules(r) \/ StoreGroups(r)
      PROVE  /\ stage'[b] \in {"idle", "decide"} => phase'[b] = "look"
             /\ phase'[b] = "look" => age'[b] = 0
  BY <1>2, <1>3 DEF Hit, StoreRules, StoreGroups
<1>4. ASSUME NEW r \in Requests,
             Miss(r) \/ Load(r) \/ Fails(r) \/ Decide(r)
      PROVE  /\ stage'[b] \in {"idle", "decide"} => phase'[b] = "look"
             /\ phase'[b] = "look" => age'[b] = 0
  BY <1>4 DEF Miss, Load, Fails, Decide, Reading, got
<1>5. ASSUME NEW r \in Requests, NEW p \in Pairs, Begin(r, p)
      PROVE  /\ stage'[b] \in {"idle", "decide"} => phase'[b] = "look"
             /\ phase'[b] = "look" => age'[b] = 0
  BY <1>5 DEF Begin
<1>6. CASE UNCHANGED request
  BY <1>6 DEF request
<1> QED
  BY <1>1, <1>3, <1>4, <1>5, <1>6 DEF Next, ChangeRule, ChangeGroups, vars

\* Every variable keeps its type, and no entry or former value is stamped later
\* than now, for any agents, groups, time to live and delay (acl.rs).
THEOREM AclTypeCorrect == Spec => []TypeOK
<1>1. Init => TypeOK /\ ChecksInv
  BY InitTypeOK DEF Init, ChecksInv
<1>2. TypeOK /\ ChecksInv /\ [Next]_vars => (TypeOK /\ ChecksInv)'
  BY NextTypeOK, NextChecksInv
<1> QED
  BY <1>1, <1>2, PTL DEF Spec

----------------------------------------------------------------------------
(* Rules are unordered                                                     *)

\* A command about a and b decides about this pair and no other.
LEMMA ChangeRuleStep ==
    ASSUME TypeOK, RulesAreUnordered, NEW a \in Groups, NEW b \in Groups,
           ChangeRule(a, b)
    PROVE  RulesAreUnordered'
<1> SUFFICES ASSUME NEW g \in Groups, NEW h \in Groups
             PROVE  {g, h} \in granted' <=> NormalizeRule(g, h) \in rules'
  BY DEF RulesAreUnordered, AllowedBy
<1>1. {g, h} \in granted <=> NormalizeRule(g, h) \in rules
  BY DEF RulesAreUnordered, AllowedBy
<1>2. NormalizeRule(a, b) = NormalizeRule(g, h) <=> {a, b} = {g, h}
  BY NormalizeIsUnordered
<1> QED
  BY <1>1, <1>2 DEF ChangeRule

LEMMA InitUnordered == Init => RulesAreUnordered
<1> SUFFICES ASSUME Init, NEW g \in Groups, NEW h \in Groups
             PROVE  {g, h} \in granted <=> NormalizeRule(g, h) \in rules
  BY DEF RulesAreUnordered, AllowedBy
<1>1. ASSUME NEW p \in rules, {g, h} = {p[1], p[2]}
      PROVE  NormalizeRule(g, h) \in rules
  <2>1. PICK a \in Groups, b \in Groups : p = NormalizeRule(a, b)
    BY DEF Init, Rules
  <2>2. {a, b} = {g, h}
    BY <1>1, <2>1, NormalizeInRules
  <2> QED
    BY <2>1, <2>2, NormalizeIsUnordered
<1>2. NormalizeRule(g, h) \in rules => {g, h} \in granted
  BY NormalizeInRules DEF Init
<1> QED
  BY <1>1, <1>2 DEF Init

LEMMA NextUnordered == TypeOK /\ RulesAreUnordered /\ [Next]_vars => RulesAreUnordered'
<1> SUFFICES ASSUME TypeOK, RulesAreUnordered, [Next]_vars
             PROVE  RulesAreUnordered'
  OBVIOUS
<1>1. CASE UNCHANGED <<rules, granted>>
  BY <1>1 DEF RulesAreUnordered, AllowedBy
<1>2. \/ UNCHANGED <<rules, granted>>
      \/ \E a \in Groups, b \in Groups : ChangeRule(a, b)
  BY DEF Next, vars, acl, history, Tick, ChangeGroups, Begin, Hit, Miss, Load,
     StoreRules, StoreGroups, Fails, Decide
<1> QED
  BY <1>1, <1>2, ChangeRuleStep

----------------------------------------------------------------------------
(* Checks decide by recent rules                                           *)

\* The stamps are numbers.
LEMMA Numbers ==
    ASSUME TypeOK
    PROVE  /\ now \in Nat
           /\ \A p \in rulesPast : p.until \in Int
           /\ \A a \in Agents : \A p \in groupsPast[a] : p.until \in Int
           /\ rulesCache.at \in Nat /\ now - rulesCache.at \in Nat
           /\ groupsCache.at \in Nat /\ now - groupsCache.at \in Nat
           /\ \A r \in Requests : age[r] \in 0..MaxDelay /\ age[r] \in Nat
           /\ CacheTTL - 1 \in Nat /\ MaxDelay \in Nat
<1>1. /\ now \in Nat /\ rulesCache.at \in 0..now /\ groupsCache.at \in 0..now
  BY BoundsAssumption DEF TypeOK
<1>2. /\ \A p \in rulesPast : p.until \in Int
      /\ \A a \in Agents : \A p \in groupsPast[a] : p.until \in Int
  BY <1>1 DEF TypeOK
<1>3. \A r \in Requests : age[r] \in 0..MaxDelay
  BY DEF TypeOK
<1> QED
  BY <1>1, <1>2, <1>3, BoundsAssumption

\* A load is not older than MaxDelay when it gets its stamp, and ages with it.
LEMMA CachedRulesStep ==
    ASSUME TypeOK, CachedRulesInv, \A r \in Requests : CheckedRulesInv(r), [Next]_vars
    PROVE  CachedRulesInv'
<1>1. CASE Tick
  BY <1>1, Numbers, RecentAges DEF CachedRulesInv, Tick, acl, cache, history
<1>2. ASSUME NEW x \in Groups, NEW y \in Groups, ChangeRule(x, y)
      PROVE  CachedRulesInv'
  BY <1>2, Numbers, RecentKept DEF CachedRulesInv, ChangeRule, cache
<1>3. ASSUME NEW r \in Requests, StoreRules(r) PROVE CachedRulesInv'
  <2>1. Recent(gotRules[r], rules, rulesPast, age[r])
    BY <1>3 DEF StoreRules, CheckedRulesInv
  <2>2. Recent(gotRules[r], rules, rulesPast, MaxDelay)
    BY <2>1, Numbers, RecentWeaken
  <2>3. UNCHANGED <<now, rules, rulesPast>>
    BY <1>3 DEF StoreRules, acl, history
  <2>4. rulesCache'.value = gotRules[r] /\ now - rulesCache'.at + MaxDelay = MaxDelay
    BY <1>3, Numbers DEF StoreRules
  <2> QED
    BY <2>2, <2>3, <2>4 DEF CachedRulesInv, Recent
<1>4. CASE UNCHANGED <<now, rules, rulesPast, rulesCache>>
  BY <1>4 DEF CachedRulesInv, Recent
<1> QED
  BY <1>1, <1>2, <1>3, <1>4
  DEF Next, ChangeGroups, Begin, Hit, Miss, Load, StoreGroups, Fails, Decide, vars, acl,
      cache, history

\* The age of a check's load, and then of its rules, stays within the bound.
LEMMA CheckedRulesStep ==
    ASSUME TypeOK, ChecksInv, CachedRulesInv,
           \A r \in Requests : CheckedRulesInv(r), [Next]_vars,
           NEW b \in Requests
    PROVE  CheckedRulesInv(b)'
<1>1. CASE Tick
  <2>1. now' = now + 1 /\ UNCHANGED <<rules, rulesPast, gotRules, stage, phase>>
    BY <1>1 DEF Tick, acl, got, history
  <2>2. CASE stage[b] = "rules" /\ phase[b] = "store"
    <3>1. age'[b] = age[b] + 1
      BY <1>1, <2>2 DEF Tick, TypeOK
    <3> QED
      BY <2>1, <2>2, <3>1, Numbers, RecentAges DEF CheckedRulesInv
  <2>3. stage[b] # "decide"
    BY <1>1 DEF Tick, ChecksInv
  <2> QED
    BY <2>1, <2>2, <2>3 DEF CheckedRulesInv
<1>2. ASSUME NEW x \in Groups, NEW y \in Groups, ChangeRule(x, y)
      PROVE  CheckedRulesInv(b)'
  <2>1. /\ now' = now
        /\ rulesPast' = rulesPast \cup {[value |-> rules, until |-> now]}
        /\ UNCHANGED <<gotRules, ruleSet, stage, phase, age>>
    BY <1>2 DEF ChangeRule, request, got, read
  <2> QED
    BY <2>1, Numbers, RecentKept DEF CheckedRulesInv
<1>3. ASSUME NEW r \in Requests, NEW v, Proceed(r, v),
             UNCHANGED <<now, rules, rulesPast>>,
             stage[r] = "rules" => Recent(v, rules, rulesPast, CacheTTL - 1 + MaxDelay),
             \A q \in Requests : q # r =>
                 gotRules'[q] = gotRules[q] /\ age'[q] = age[q]
      PROVE  CheckedRulesInv(b)'
  <2>1. CASE b = r
    BY <1>3, <2>1 DEF CheckedRulesInv, Proceed, Recent, TypeOK
  <2>2. CASE b # r
    BY <1>3, <2>2 DEF CheckedRulesInv, Proceed, Forget, Recent, TypeOK
  <2> QED
    BY <2>1, <2>2
<1>4. ASSUME NEW r \in Requests, Hit(r) PROVE CheckedRulesInv(b)'
  <2>1. PICK v \in Cached(r) : Proceed(r, v)
    BY <1>4 DEF Hit
  <2>2. UNCHANGED <<now, rules, rulesPast, gotRules, age>>
    BY <1>4 DEF Hit, acl, got, history
  <2>3. ASSUME stage[r] = "rules"
        PROVE  Recent(v, rules, rulesPast, CacheTTL - 1 + MaxDelay)
    <3>1. rulesCache.full /\ now - rulesCache.at < CacheTTL /\ v = rulesCache.value
      BY <2>1, <2>3 DEF Cached, CachedRules, Fresh
    <3>2. Recent(v, rules, rulesPast, now - rulesCache.at + MaxDelay)
      BY <3>1 DEF CachedRulesInv
    <3>3. /\ now - rulesCache.at + MaxDelay <= CacheTTL - 1 + MaxDelay
          /\ now - rulesCache.at + MaxDelay \in Int
          /\ CacheTTL - 1 + MaxDelay \in Int
      BY <3>1, Numbers, BoundsAssumption
    <3> QED
      BY <3>2, <3>3, Numbers, RecentWeaken
  <2> QED
    BY <1>3, <2>1, <2>2, <2>3
<1>5. ASSUME NEW r \in Requests, StoreRules(r) PROVE CheckedRulesInv(b)'
  <2>1. Recent(gotRules[r], rules, rulesPast, age[r])
    BY <1>5 DEF StoreRules, CheckedRulesInv
  <2>2. Recent(gotRules[r], rules, rulesPast, CacheTTL - 1 + MaxDelay)
    BY <2>1, Numbers, RecentWeaken
  <2>3. UNCHANGED <<now, rules, rulesPast>>
    BY <1>5 DEF StoreRules, acl, history
  <2>4. \A q \in Requests : q # r => gotRules'[q] = gotRules[q] /\ age'[q] = age[q]
    BY <1>5 DEF StoreRules, TypeOK
  <2> QED
    BY <1>3, <1>5, <2>2, <2>3, <2>4 DEF StoreRules
<1>6. ASSUME NEW r \in Requests, StoreGroups(r) PROVE CheckedRulesInv(b)'
  <2>1. UNCHANGED <<now, rules, rulesPast, gotRules>>
    BY <1>6 DEF StoreGroups, acl, history
  <2>2. \A q \in Requests : q # r => age'[q] = age[q]
    BY <1>6 DEF StoreGroups, TypeOK
  <2>3. stage[r] # "rules" /\ Proceed(r, gotGroups[r])
    BY <1>6 DEF StoreGroups
  <2> QED
    BY <1>3, <2>1, <2>2, <2>3
<1>7. ASSUME NEW r \in Requests, Load(r) PROVE CheckedRulesInv(b)'
  BY <1>7, Numbers
  DEF Load, CheckedRulesInv, Recent, TypeOK, acl, read, history
<1>8. ASSUME NEW r \in Requests, Miss(r) \/ Fails(r) \/ Decide(r)
      PROVE  CheckedRulesInv(b)'
  BY <1>8 DEF Miss, Fails, Decide, Forget, CheckedRulesInv, Recent, TypeOK, acl,
     got, read, history
<1>9. ASSUME NEW r \in Requests, NEW p \in Pairs, Begin(r, p)
      PROVE  CheckedRulesInv(b)'
  BY <1>9 DEF Begin, CheckedRulesInv, Recent, TypeOK, acl, got, read, history
<1>10. CASE UNCHANGED <<now, rules, rulesPast, request>>
  BY <1>10 DEF CheckedRulesInv, Recent, request, got, read
<1> QED
  BY <1>1, <1>2, <1>4, <1>5, <1>6, <1>7, <1>8, <1>9, <1>10
  DEF Next, ChangeGroups, vars, acl, history

----------------------------------------------------------------------------
(* Checks decide by recent groups                                          *)

LEMMA CachedGroupsStep ==
    ASSUME TypeOK, NEW a \in Agents, CachedGroupsInv(a),
           \A r \in Requests : CheckedGroupsInv(r), [Next]_vars
    PROVE  CachedGroupsInv(a)'
<1>1. CASE Tick
  BY <1>1, Numbers, RecentAges DEF CachedGroupsInv, Tick, acl, cache, history
<1>2. ASSUME NEW b \in Agents, NEW G \in SUBSET Groups, ChangeGroups(b, G)
      PROVE  CachedGroupsInv(a)'
  <2>1. CASE a # b
    BY <1>2, <2>1 DEF CachedGroupsInv, ChangeGroups, cache, Recent, TypeOK
  <2>2. CASE a = b
    <3>1. groupsPast'[a] = groupsPast[a] \cup {[value |-> groups[a], until |-> now]}
      BY <1>2, <2>2 DEF ChangeGroups, TypeOK
    <3> QED
      BY <1>2, <2>2, <3>1, Numbers, RecentKept DEF CachedGroupsInv, ChangeGroups, cache
  <2> QED
    BY <2>1, <2>2
<1>3. ASSUME NEW r \in Requests, StoreGroups(r) PROVE CachedGroupsInv(a)'
  <2>1. UNCHANGED <<now, groups, groupsPast>>
    BY <1>3 DEF StoreGroups, acl, history
  <2>2. /\ groupsCache'.full
        /\ groupsCache'.known = groupsCache.known \cup {Who(r)}
        /\ groupsCache'.value = [groupsCache.value EXCEPT ![Who(r)] = gotGroups[r]]
        /\ groupsCache'.at = IF groupsCache.full THEN groupsCache.at ELSE now
    BY <1>3 DEF StoreGroups, GroupsStamp
  <2>3. now - groupsCache'.at \in Nat
    BY <2>2, Numbers
  <2>4. CASE a = Who(r)
    <3>1. Recent(gotGroups[r], groups[a], groupsPast[a], age[r])
      BY <1>3, <2>4 DEF StoreGroups, CheckedGroupsInv
    <3>2. age[r] <= now - groupsCache'.at + MaxDelay
      BY <2>3, Numbers
    <3>3. Recent(gotGroups[r], groups[a], groupsPast[a],
                 now - groupsCache'.at + MaxDelay)
      BY <2>3, <3>1, <3>2, Numbers, RecentWeaken
    <3>4. groupsCache'.value[a] = gotGroups[r]
      BY <2>2, <2>4 DEF TypeOK
    <3> QED
      BY <2>1, <2>2, <3>3, <3>4 DEF CachedGroupsInv, Recent
  <2>5. CASE a # Who(r) /\ a \in groupsCache.known
    <3>1. groupsCache'.value[a] = groupsCache.value[a]
      BY <2>2, <2>5 DEF TypeOK
    <3> QED
      BY <1>3, <2>1, <2>2, <2>5, <3>1 DEF StoreGroups, CachedGroupsInv, Recent
  <2> QED
    BY <2>2, <2>4, <2>5 DEF CachedGroupsInv
<1>4. CASE UNCHANGED <<now, groups, groupsPast, groupsCache>>
  BY <1>4 DEF CachedGroupsInv, Recent
<1> QED
  BY <1>1, <1>2, <1>3, <1>4 DEF Next, ChangeRule, Begin, Hit, Miss, Load, StoreRules, Fails,
     Decide, vars, acl, cache, history

\* What a check has read grows older with its later reads, and by nothing else.
LEMMA CheckedGroupsStep ==
    ASSUME TypeOK, ChecksInv, \A a \in Agents : CachedGroupsInv(a),
           \A r \in Requests : CheckedGroupsInv(r), [Next]_vars,
           NEW b \in Requests
    PROVE  CheckedGroupsInv(b)'
<1> DEFINE S == Sender(b)
           T == Target(b)
<1>a. S \in Agents /\ T \in Agents /\ Who(b) \in Agents
  BY AgentsOfPair
<1>b. /\ Reach(b, 1) \in Nat /\ Reach(b, 2) \in Nat /\ Reach(b, 3) \in Nat
      /\ CacheTTL - 1 + MaxDelay <= Reach(b, 1)
      /\ CacheTTL - 1 + MaxDelay \in Nat
  BY Numbers DEF Reach
<1>1. CASE Tick
  <2>1. /\ now' = now + 1
        /\ UNCHANGED <<groups, groupsPast, gotGroups, senderGroups, targetGroups, stage,
                       phase, pair>>
    BY <1>1 DEF Tick, acl, got, read, history
  <2>2. CASE stage[b] \in {"sender", "target", "rules"}
    <3>1. age'[b] = age[b] + 1
      BY <1>1, <2>2 DEF Tick, TypeOK
    <3>2. /\ Reach(b, 1)' = Reach(b, 1) + 1
          /\ Reach(b, 2)' = Reach(b, 2) + 1
          /\ Reach(b, 3)' = Reach(b, 3) + 1
      BY <3>1, Numbers DEF Reach
    <3>3. UNCHANGED <<Sender(b), Target(b), Who(b)>>
      BY <2>1 DEF Sender, Target, Who
    <3> QED
      BY <1>a, <1>b, <2>1, <2>2, <3>1, <3>2, <3>3, Numbers, RecentAges
      DEF CheckedGroupsInv
  <2>3. stage[b] # "decide"
    BY <1>1 DEF Tick, ChecksInv
  <2> QED
    BY <2>1, <2>2, <2>3 DEF CheckedGroupsInv, TypeOK
<1>2. ASSUME NEW c \in Agents, NEW G \in SUBSET Groups, ChangeGroups(c, G)
      PROVE  CheckedGroupsInv(b)'
  <2>1. /\ now' = now
        /\ UNCHANGED <<gotGroups, senderGroups, targetGroups, stage, phase, pair, age>>
    BY <1>2 DEF ChangeGroups, request, got, read
  <2>2. ASSUME NEW v, NEW a \in Agents, NEW w \in Nat,
               Recent(v, groups[a], groupsPast[a], w)
        PROVE  Recent(v, groups[a], groupsPast[a], w)'
    <3>1. CASE a = c
      <4>1. groupsPast'[a] = groupsPast[a] \cup {[value |-> groups[a], until |-> now]}
        BY <1>2, <3>1 DEF ChangeGroups, TypeOK
      <4> QED
        BY <2>1, <2>2, <4>1, Numbers, RecentKept
    <3>2. CASE a # c
      BY <1>2, <2>1, <2>2, <3>2 DEF ChangeGroups, Recent, TypeOK
    <3> QED
      BY <3>1, <3>2
  <2>3. UNCHANGED <<Sender(b), Target(b), Who(b), Reach(b, 1), Reach(b, 2), Reach(b, 3)>>
    BY <2>1 DEF Sender, Target, Who, Reach
  <2> QED
    BY <1>a, <1>b, <2>1, <2>2, <2>3, Numbers DEF CheckedGroupsInv
<1>3. ASSUME NEW r \in Requests, NEW v, Proceed(r, v),
             UNCHANGED <<now, groups, groupsPast, pair>>,
             stage[r] # "rules" =>
                 Recent(v, groups[Who(r)], groupsPast[Who(r)], CacheTTL - 1 + MaxDelay),
             \/ age' = age /\ age[r] = 0
             \/ age' = [age EXCEPT ![r] = 0],
             \A q \in Requests : q # r => gotGroups'[q] = gotGroups[q]
      PROVE  CheckedGroupsInv(b)'
  <2>1. CASE b # r
    <3>1. /\ stage'[b] = stage[b] /\ phase'[b] = phase[b] /\ age'[b] = age[b]
          /\ senderGroups'[b] = senderGroups[b] /\ targetGroups'[b] = targetGroups[b]
          /\ gotGroups'[b] = gotGroups[b]
      BY <1>3, <2>1 DEF Proceed, Forget, TypeOK
    <3> QED
      BY <1>3, <3>1 DEF CheckedGroupsInv, Sender, Target, Who, Reach, Recent
  <2>2. CASE b = r
    <3>1. phase'[b] = "look" /\ age'[b] = 0 /\ age[b] \in 0..MaxDelay
      BY <1>3, <2>2, Numbers DEF Proceed, TypeOK
    <3>2. /\ Reach(b, 1)' = CacheTTL - 1 + MaxDelay
          /\ Reach(b, 2)' = CacheTTL - 1 + 2 * MaxDelay /\ Reach(b, 1) <= Reach(b, 2)'
          /\ Reach(b, 3)' = CacheTTL - 1 + 3 * MaxDelay /\ Reach(b, 2) <= Reach(b, 3)'
          /\ Reach(b, 2)' \in Nat /\ Reach(b, 3)' \in Nat
      BY <3>1, Numbers DEF Reach
    <3>3. UNCHANGED <<Sender(b), Target(b)>>
      BY <1>3 DEF Sender, Target
    <3>4. CASE stage[b] = "sender"
      <4>1. stage'[b] = "target" /\ senderGroups'[b] = v /\ Who(b) = Sender(b)
        BY <1>3, <2>2, <3>4 DEF Proceed, TypeOK, Who
      <4> QED
        BY <1>3, <2>2, <3>1, <3>2, <3>3, <3>4, <4>1 DEF CheckedGroupsInv, Recent
    <3>5. CASE stage[b] = "target" /\ stage'[b] = "rules"
      <4>1. /\ senderGroups'[b] = senderGroups[b] /\ targetGroups'[b] = v
            /\ Who(b) = Target(b)
        BY <1>3, <2>2, <3>5 DEF Proceed, TypeOK, Who
      <4>2. Recent(senderGroups[b], groups[S], groupsPast[S], Reach(b, 2)')
        BY <1>a, <1>b, <3>2, <3>5, Numbers, RecentWeaken DEF CheckedGroupsInv
      <4> QED
        BY <1>3, <2>2, <3>1, <3>2, <3>3, <3>5, <4>1, <4>2 DEF CheckedGroupsInv, Recent
    <3>6. CASE stage[b] = "target" /\ stage'[b] = "idle"
      BY <3>1, <3>6 DEF CheckedGroupsInv
    <3>7. CASE stage[b] = "rules"
      <4>1. /\ senderGroups'[b] = senderGroups[b] /\ targetGroups'[b] = targetGroups[b]
            /\ stage'[b] = "decide"
        BY <1>3, <2>2, <3>7 DEF Proceed, TypeOK
      <4>2. /\ Recent(senderGroups[b], groups[S], groupsPast[S], Reach(b, 3)')
            /\ Recent(targetGroups[b], groups[T], groupsPast[T], Reach(b, 2)')
        BY <1>a, <1>b, <3>2, <3>7, Numbers, RecentWeaken DEF CheckedGroupsInv
      <4> QED
        BY <1>3, <3>1, <3>2, <3>3, <4>1, <4>2 DEF CheckedGroupsInv, Recent
    <3> QED
      BY <1>3, <2>2, <3>4, <3>5, <3>6, <3>7 DEF Proceed, TypeOK
  <2> QED
    BY <2>1, <2>2
<1>4. ASSUME NEW r \in Requests, Hit(r) PROVE CheckedGroupsInv(b)'
  <2>1. PICK v \in Cached(r) : Proceed(r, v)
    BY <1>4 DEF Hit
  <2>2. UNCHANGED <<now, groups, groupsPast, pair, gotGroups, age>> /\ age[r] = 0
    BY <1>4 DEF Hit, acl, got, history, ChecksInv
  <2>3. ASSUME stage[r] # "rules"
        PROVE  Recent(v, groups[Who(r)], groupsPast[Who(r)], CacheTTL - 1 + MaxDelay)
    <3>1. /\ Who(r) \in groupsCache.known /\ v = groupsCache.value[Who(r)]
          /\ now - groupsCache.at < CacheTTL
      BY <2>1, <2>3 DEF Cached, CachedGroups, Fresh
    <3>2. Recent(v, groups[Who(r)], groupsPast[Who(r)], now - groupsCache.at + MaxDelay)
      BY <3>1, AgentsOfPair DEF CachedGroupsInv
    <3>3. /\ now - groupsCache.at + MaxDelay <= CacheTTL - 1 + MaxDelay
          /\ now - groupsCache.at + MaxDelay \in Int
          /\ CacheTTL - 1 + MaxDelay \in Int
      BY <3>1, Numbers, BoundsAssumption
    <3> QED
      BY <3>2, <3>3, AgentsOfPair, Numbers, RecentWeaken
  <2> QED
    BY <1>3, <2>1, <2>2, <2>3
<1>5. ASSUME NEW r \in Requests, StoreGroups(r) PROVE CheckedGroupsInv(b)'
  <2>1. Recent(gotGroups[r], groups[Who(r)], groupsPast[Who(r)], age[r])
    BY <1>5 DEF StoreGroups, CheckedGroupsInv
  <2>2. Recent(gotGroups[r], groups[Who(r)], groupsPast[Who(r)], CacheTTL - 1 + MaxDelay)
    BY <2>1, AgentsOfPair, Numbers, RecentWeaken
  <2>3. UNCHANGED <<now, groups, groupsPast, pair>>
    BY <1>5 DEF StoreGroups, acl, history
  <2>4. /\ \A q \in Requests : q # r => gotGroups'[q] = gotGroups[q]
        /\ age' = [age EXCEPT ![r] = 0]
    BY <1>5 DEF StoreGroups, TypeOK
  <2> QED
    BY <1>3, <1>5, <2>2, <2>3, <2>4 DEF StoreGroups
<1>6. ASSUME NEW r \in Requests, StoreRules(r) PROVE CheckedGroupsInv(b)'
  <2>1. UNCHANGED <<now, groups, groupsPast, pair, gotGroups>>
    BY <1>6 DEF StoreRules, acl, history
  <2>2. /\ age' = [age EXCEPT ![r] = 0] /\ stage[r] = "rules"
        /\ Proceed(r, gotRules[r])
    BY <1>6 DEF StoreRules
  <2> QED
    BY <1>3, <2>1, <2>2
<1>7. ASSUME NEW r \in Requests, Load(r) PROVE CheckedGroupsInv(b)'
  BY <1>7, Numbers DEF Load, CheckedGroupsInv, Recent, Reach, Sender, Target, Who, TypeOK,
     acl, read, history
<1>8. ASSUME NEW r \in Requests, Miss(r) \/ Fails(r) \/ Decide(r)
      PROVE  CheckedGroupsInv(b)'
  BY <1>8 DEF Miss, Fails, Decide, Forget, CheckedGroupsInv, Recent, Reach, Sender,
     Target, Who, TypeOK, acl, got, read, history
<1>9. ASSUME NEW r \in Requests, NEW p \in Pairs, Begin(r, p)
      PROVE  CheckedGroupsInv(b)'
  BY <1>9 DEF Begin, CheckedGroupsInv, Recent, Reach, Sender, Target, Who, TypeOK, acl,
     got, read, history
<1>10. CASE UNCHANGED <<now, groups, groupsPast, request>>
  BY <1>10 DEF CheckedGroupsInv, Recent, Reach, Sender, Target, Who, request, got, read
<1> QED
  BY <1>1, <1>2, <1>4, <1>5, <1>6, <1>7, <1>8, <1>9, <1>10
  DEF Next, ChangeRule, vars, acl, history

----------------------------------------------------------------------------
(* The theorems                                                            *)

\* The inductive invariant: the age of every value in the cache, on its way to
\* it and in the hands of a check.
THEOREM AclInvariant == Spec => []CacheInv
<1>1. Init => CacheInv
  BY InitTypeOK, InitUnordered
  DEF Init, CacheInv, ChecksInv, CachedRulesInv, CachedGroupsInv, CheckedRulesInv,
      CheckedGroupsInv
<1>2. CacheInv /\ [Next]_vars => CacheInv'
  <2> SUFFICES ASSUME CacheInv, [Next]_vars PROVE CacheInv'
    OBVIOUS
  <2>1. TypeOK' /\ ChecksInv' /\ RulesAreUnordered'
    BY NextTypeOK, NextChecksInv, NextUnordered DEF CacheInv
  <2>2. CachedRulesInv' /\ \A r \in Requests : CheckedRulesInv(r)'
    BY CachedRulesStep, CheckedRulesStep DEF CacheInv
  <2>3. (\A a \in Agents : CachedGroupsInv(a)') /\ \A r \in Requests : CheckedGroupsInv(r)'
    BY CachedGroupsStep, CheckedGroupsStep DEF CacheInv
  <2> QED
    BY <2>1, <2>2, <2>3 DEF CacheInv
<1> QED
  BY <1>1, <1>2, PTL DEF Spec

\* Two groups may talk, in both directions, exactly if the last command about
\* them was an allowance, whatever their names (acl.rs, add_p2p_rule).
THEOREM RulesStayUnordered == Spec => []RulesAreUnordered
<1>1. CacheInv => RulesAreUnordered
  BY DEF CacheInv
<1> QED
  BY <1>1, AclInvariant, PTL

\* A check decides by rules that were in force less than CacheTTL + MaxDelay
\* ago, for any number of concurrent checks that share the cache, any rules and
\* any timing (acl.rs, get_rules).
THEOREM DecidesByRecentRules == Spec => []RulesRecent
<1>1. CacheInv => RulesRecent
  BY DEF CacheInv, CheckedRulesInv, RulesRecent
<1> QED
  BY <1>1, AclInvariant, PTL

\* The same for the groups of both agents, which are read before the rules: one
\* answer more for each read in between (acl.rs, get_agent_groups).
THEOREM DecidesByRecentGroups == Spec => []GroupsRecent
<1>1. ASSUME CacheInv, NEW r \in Requests
      PROVE  /\ stage[r] \in {"target", "rules", "decide"} =>
                    Recent(senderGroups[r], groups[Sender(r)], groupsPast[Sender(r)],
                           CacheTTL - 1 + 3 * MaxDelay)
             /\ stage[r] \in {"rules", "decide"} =>
                    Recent(targetGroups[r], groups[Target(r)], groupsPast[Target(r)],
                           CacheTTL - 1 + 2 * MaxDelay)
  <2>1. TypeOK /\ ChecksInv /\ CheckedGroupsInv(r)
    BY <1>1 DEF CacheInv
  <2>2. Sender(r) \in Agents /\ Target(r) \in Agents
    BY <2>1, AgentsOfPair
  <2>3. /\ Reach(r, 1) \in Nat /\ Reach(r, 1) <= CacheTTL - 1 + 2 * MaxDelay
        /\ Reach(r, 2) \in Nat /\ Reach(r, 2) <= CacheTTL - 1 + 3 * MaxDelay
        /\ CacheTTL - 1 + 2 * MaxDelay <= CacheTTL - 1 + 3 * MaxDelay
        /\ CacheTTL - 1 + 2 * MaxDelay \in Nat /\ CacheTTL - 1 + 3 * MaxDelay \in Nat
    BY <2>1, Numbers DEF Reach
  <2>4. stage[r] = "decide" => /\ Reach(r, 2) = CacheTTL - 1 + 2 * MaxDelay
                               /\ Reach(r, 3) = CacheTTL - 1 + 3 * MaxDelay
    BY <2>1, <2>3, Numbers DEF Reach, ChecksInv
  <2>5. CASE stage[r] = "target"
    BY <2>1, <2>2, <2>3, <2>5, Numbers, RecentWeaken DEF CheckedGroupsInv
  <2>6. CASE stage[r] = "rules"
    BY <2>1, <2>2, <2>3, <2>6, Numbers, RecentWeaken DEF CheckedGroupsInv
  <2>7. CASE stage[r] = "decide"
    BY <2>1, <2>4, <2>7 DEF CheckedGroupsInv
  <2> QED
    BY <2>5, <2>6, <2>7
<1>2. CacheInv => GroupsRecent
  BY <1>1 DEF GroupsRecent
<1> QED
  BY <1>2, AclInvariant, PTL

=============================================================================
