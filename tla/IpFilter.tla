------------------------------- MODULE IpFilter -------------------------------
(***************************************************************************)
(* The IP filter (internal/ipfilter/ipfilter.go): rules in the database, a *)
(* cache of the rules per organization, the Check every request passes and *)
(* the calls that change the rules.                                        *)
(*                                                                         *)
(* Each SQL statement, each critical section of Filter.mu and each reading *)
(* of the clock for a verdict is one step; any number of calls run at      *)
(* once.  Requests come from one address that parses; a rule covers it or  *)
(* does not.  The filter is enabled (when it is not, Check does nothing).  *)
(* A row deleted is not written again: ids are never reused.               *)
(***************************************************************************)
EXTENDS Integers

CONSTANTS
    Rules,        \* ids of ip_rules
    Orgs,         \* organizations
    NoOrg,        \* a nil organization, of a rule or of a Check
    Calls,        \* calls that may be running at the same time
    Lifetimes,    \* how long a new rule lives, Never for a nil ExpiresAt
    Never,        \* no such time
    TTL,          \* Filter.cacheTTL
    DefaultMode,  \* Filter.defaultMode
    MaxTime,      \* bound on the clock
    MayFail       \* whether a statement may fail and the process restart

ASSUME ConstantsOK ==
    /\ NoOrg \notin Orgs
    /\ Lifetimes \subseteq Nat \cup {Never}
    /\ Never \notin Nat
    /\ TTL \in Nat \ {0}
    /\ DefaultMode \in {"allow", "deny"}
    /\ MaxTime \in Nat
    /\ MayFail \in BOOLEAN

VARIABLES
    rule,       \* rows of ip_rules, also those deleted since: a row never changes
    live,       \* the rows that are in the table
    cache,      \* Filter.cache
    cacheTime,  \* Filter.cacheTime
    call,       \* where each call is; when idle, what its last Check answered
    now,        \* the clock
    (* Observations, read by no action. *)
    missed,     \* the calls holding rules that have changed since they read them,
                \* or not all the rules there were
    raced       \* the keys whose cache entry such a call has stored

table == <<rule, live>>
cached == <<cache, cacheTime>>
noted == <<missed, raced>>
vars == <<rule, live, cache, cacheTime, call, now, missed, raced>>

Keys == Orgs \cup {NoOrg}

NoRule == [kind |-> "none"]
Absent == [kind |-> "absent"]
Idle == [at |-> "idle", answer |-> "none"]

RuleRow ==
    [kind : {"allow", "block"}, org : Keys, covers : BOOLEAN,
     expiresAt : Nat \cup {Never}]

CacheEntry == [kind : {"rules"}, rules : SUBSET Rules]

CallState ==
    [at : {"idle"}, answer : {"none", "allow", "deny"}]
        \cup [at : {"load"}, key : Keys]
        \cup [at : {"store", "decide"}, key : Keys, rules : SUBSET Rules]
        \cup [at : {"invalidate"}, rule : Rules]

(* The one type invariant. *)
TypeOK ==
    /\ rule \in [Rules -> RuleRow \cup {NoRule}]
    /\ live \subseteq Rules
    /\ \A r \in live : rule[r] \in RuleRow
    /\ cache \in [Keys -> CacheEntry \cup {Absent}]
    /\ cacheTime \in Nat \cup {Never}
    /\ call \in [Calls -> CallState]
    /\ now \in Nat
    /\ missed \subseteq Calls
    /\ raced \subseteq Keys

EmptyCache == [k \in Keys |-> Absent]

Init ==
    /\ rule = [r \in Rules |-> NoRule]
    /\ live = {}
    /\ cache = EmptyCache
    /\ cacheTime = Never
    /\ call = [c \in Calls |-> Idle]
    /\ now = 0
    /\ missed = {}
    /\ raced = {}

-----------------------------------------------------------------------------
(* Helpers *)

At(c, stage) == call[c].at = stage

Enter(c, state) == call' = [call EXCEPT ![c] = state]

Return(c, result) == Enter(c, [at |-> "idle", answer |-> result])

\* Bug: every organization's rules are read.
Visible_AllOrgs(k) == live

\* loadRules: the rules of no organization and those of k's.
Visible(k) == {r \in live : rule[r].org \in {NoOrg, k}}

\* matchesRule
Matches(r) ==
    /\ rule[r].covers
    /\ rule[r].expiresAt = Never \/ now <= rule[r].expiresAt

OfKind(S, kind) == {r \in S : rule[r].kind = kind}

\* Check's answer by a set of rules: block rules first, then allow rules (one
\* that has expired still counts as there), then the default.
Verdict(S) ==
    IF \E r \in OfKind(S, "block") : Matches(r) THEN "deny"
    ELSE IF \E r \in OfKind(S, "allow") : Matches(r) THEN "allow"
    ELSE IF OfKind(S, "allow") # {} THEN "deny" ELSE DefaultMode

Fresh == cacheTime # Never /\ now - cacheTime < TTL

\* A rule of organization o changes: the calls that read it and have not
\* stored it yet miss the change.
Change(o) ==
    missed' = missed \cup {c \in Calls : At(c, "store") /\ o \in {NoOrg, call[c].key}}

-----------------------------------------------------------------------------
(* Check *)

\* The reader's lock: the cached rules if the cache is young and has the key.
CheckLookup(c, k) ==
    /\ At(c, "idle")
    /\ IF Fresh /\ cache[k] # Absent
       THEN Enter(c, [at |-> "decide", key |-> k, rules |-> cache[k].rules])
       ELSE Enter(c, [at |-> "load", key |-> k])
    /\ UNCHANGED <<table, cached, now, noted>>

CheckLoad(c) ==
    LET k == call[c].key IN
    /\ At(c, "load")
    /\ Enter(c, [at |-> "store", key |-> k, rules |-> Visible(k)])
    /\ UNCHANGED <<table, cached, now, noted>>

\* The rows end early, block rules coming first, and nobody asks rows.Err().
CheckLoadBreaksOff(c) ==
    LET k == call[c].key IN
    /\ MayFail
    /\ At(c, "load")
    /\ \E S \in SUBSET Visible(k) :
          /\ S # Visible(k)
          /\ OfKind(S, "allow") # {} => OfKind(Visible(k), "block") \subseteq S
          /\ Enter(c, [at |-> "store", key |-> k, rules |-> S])
    /\ missed' = missed \cup {c}
    /\ UNCHANGED <<table, cached, now, raced>>

\* The query fails: the request is let through.
CheckLoadFails(c) ==
    /\ MayFail
    /\ At(c, "load")
    /\ Return(c, "allow")
    /\ UNCHANGED <<table, cached, now, noted>>

\* The writer's lock: one key is stored, the age of all of them is reset.
CheckStore(c) ==
    LET k == call[c].key IN
    /\ At(c, "store")
    /\ cache' = [cache EXCEPT ![k] = [kind |-> "rules", rules |-> call[c].rules]]
    /\ cacheTime' = now
    /\ raced' = IF c \in missed THEN raced \cup {k} ELSE raced \ {k}
    /\ missed' = missed \ {c}
    /\ call' = [call EXCEPT ![c].at = "decide"]
    /\ UNCHANGED <<table, now>>

CheckDecide(c) ==
    /\ At(c, "decide")
    /\ Return(c, Verdict(call[c].rules))
    /\ UNCHANGED <<table, cached, now, noted>>

-----------------------------------------------------------------------------
(* The rules change *)

\* INSERT: the first half of AddRule.
AddRule(c, r) ==
    /\ At(c, "idle")
    /\ rule[r] = NoRule
    /\ \E kind \in {"allow", "block"}, o \in Keys, b \in BOOLEAN, life \in Lifetimes :
          /\ rule' = [rule EXCEPT ![r] =
                [kind |-> kind, org |-> o, covers |-> b,
                 expiresAt |-> IF life = Never THEN Never ELSE now + life]]
          /\ Change(o)
    /\ live' = live \cup {r}
    /\ Enter(c, [at |-> "invalidate", rule |-> r])
    /\ UNCHANGED <<cached, now, raced>>

\* Bug: the call returns without emptying the cache.
RemoveRule_NoInvalidate(c, r) ==
    /\ At(c, "idle")
    /\ rule[r] # NoRule
    /\ live' = live \ {r}
    /\ Return(c, "none")
    /\ IF r \in live THEN Change(rule[r].org) ELSE UNCHANGED missed
    /\ UNCHANGED <<rule, cached, now, raced>>

\* DELETE: the first half of RemoveRule.  The rule need not be there: the cache is
\* emptied all the same.
RemoveRule(c, r) ==
    /\ At(c, "idle")
    /\ rule[r] # NoRule
    /\ live' = live \ {r}
    /\ Enter(c, [at |-> "invalidate", rule |-> r])
    /\ IF r \in live THEN Change(rule[r].org) ELSE UNCHANGED missed
    /\ UNCHANGED <<rule, cached, now, raced>>

\* The cache is emptied, its time is left alone.
ClearCache ==
    /\ cache' = EmptyCache
    /\ raced' = {}
    /\ UNCHANGED <<table, cacheTime, now, missed>>

\* Bug: only the rule's own organization is dropped from the cache.
Invalidate_OwnOrgOnly(c) ==
    LET k == rule[call[c].rule].org IN
    /\ At(c, "invalidate")
    /\ Return(c, "none")
    /\ cache' = [cache EXCEPT ![k] = Absent]
    /\ raced' = raced \ {k}
    /\ UNCHANGED <<table, cacheTime, now, missed>>

\* The second half of AddRule and RemoveRule.
Invalidate(c) ==
    /\ At(c, "invalidate")
    /\ Return(c, "none")
    /\ ClearCache

InvalidateCache == ClearCache /\ UNCHANGED call

-----------------------------------------------------------------------------
(* The environment *)

Tick ==
    /\ now < MaxTime
    /\ now' = now + 1
    /\ UNCHANGED <<table, cached, call, noted>>

\* The process ends and is started again; only the table survives.
Restart ==
    /\ MayFail
    /\ cache' = EmptyCache
    /\ cacheTime' = Never
    /\ call' = [c \in Calls |-> Idle]
    /\ missed' = {}
    /\ raced' = {}
    /\ UNCHANGED <<table, now>>

Check(c) ==
    \/ \E k \in Keys : CheckLookup(c, k)
    \/ CheckLoad(c) \/ CheckLoadBreaksOff(c) \/ CheckLoadFails(c)
    \/ CheckStore(c) \/ CheckDecide(c)

Edit(c) == Invalidate(c) \/ \E r \in Rules : AddRule(c, r) \/ RemoveRule(c, r)

Next ==
    \/ \E c \in Calls : Check(c) \/ Edit(c)
    \/ InvalidateCache
    \/ Tick \/ Restart

Spec == Init /\ [][Next]_vars

-----------------------------------------------------------------------------
(* Properties *)

Held(c) == IF call[c].at \in {"store", "decide"} THEN call[c].rules ELSE {}

(* An organization is filtered by its own rules and the common ones only,  *)
(* whatever changes while rules are read, stored and applied.              *)
Isolation ==
    /\ \A k \in Keys : cache[k] # Absent =>
          \A r \in cache[k].rules : rule[r].org \in {NoOrg, k}
    /\ \A c \in Calls : \A r \in Held(c) : rule[r].org \in {NoOrg, call[c].key}

(* The cache departs from the table only in a rule whose change is still   *)
(* about to empty the cache, or in an entry that lost the race: one of its *)
(* rules changed between the reading and the storing of the entry, or the  *)
(* reading broke off (getRules, loadRules, AddRule, RemoveRule).           *)
StaleOnlyByRace ==
    \A k \in Keys \ raced : cache[k] # Absent =>
        \A r \in Rules : (r \in cache[k].rules) # (r \in Visible(k)) =>
            \E c \in Calls : call[c] = [at |-> "invalidate", rule |-> r]

(* A Check answers as it would without a cache, by the rules in the table  *)
(* at that moment.                                                         *)
AnswersByTable ==
    \A c \in Calls : At(c, "decide") /\ call'[c].at = "idle" =>
        call'[c].answer = Verdict(Visible(call[c].key))
=============================================================================
