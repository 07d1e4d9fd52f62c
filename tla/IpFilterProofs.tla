---------------------------- MODULE IpFilterProofs ----------------------------
(***************************************************************************)
(* Proofs about IpFilter, for any rules, organizations and calls, any      *)
(* cache lifetime and either default.                                      *)
(*                                                                         *)
(* The argument: a row of the table never changes once it is written, so a *)
(* set of rules that was right for its key when it was read stays so.  A   *)
(* call that no change overtook holds exactly what the table would give it *)
(* now; that is what makes the entry it stores agree with the table.  One  *)
(* call at a time is overtaken by nobody, so all entries agree.            *)
(***************************************************************************)
EXTENDS MCIpFilterModes, TLAPS

\* The rules are written and belong to k or to everybody.
ReadFor(k, S) == \A r \in S : rule[r] # NoRule /\ rule[r].org \in {NoOrg, k}

\* A rule's change has not yet emptied the cache.
Pending(r) == \E c \in Calls : call[c] = [at |-> "invalidate", rule |-> r]

Agrees(k) == \A r \in Rules : (r \in cache[k].rules) # (r \in Visible(k)) => Pending(r)

CacheRead == \A k \in Keys : cache[k] # Absent => ReadFor(k, cache[k].rules)

HeldRead(c) ==
    call[c].at \in {"store", "decide"} => ReadFor(call[c].key, call[c].rules)

HeldCurrent(c) ==
    At(c, "store") /\ c \notin missed => call[c].rules = Visible(call[c].key)

CacheAgrees == \A k \in Keys \ raced : cache[k] # Absent => Agrees(k)

Inv ==
    /\ TypeOK
    /\ CacheRead
    /\ \A c \in Calls : HeldRead(c)
    /\ \A c \in Calls : HeldCurrent(c)
    /\ CacheAgrees

-----------------------------------------------------------------------------
(* The shape of a call's state *)

\* What the type invariant says of a call, by where it is.
LEMMA CallShape ==
    ASSUME TypeOK, NEW c \in Calls
    PROVE  /\ call[c].at = "load" => call[c].key \in Keys
           /\ call[c].at \in {"store", "decide"} =>
                 /\ call[c].key \in Keys /\ call[c].rules \subseteq Rules
                 /\ call[c] = [at |-> call[c].at, key |-> call[c].key, rules |-> call[c].rules]
           /\ call[c].at = "invalidate" => call[c] = [at |-> "invalidate", rule |-> call[c].rule]
           /\ call[c].at \in {"idle", "load", "store", "decide", "invalidate"}
BY DEF TypeOK, CallState

\* A cached entry is a set of rules.
LEMMA EntryShape ==
    ASSUME TypeOK, NEW k \in Keys, cache[k] # Absent
    PROVE  cache[k] \in CacheEntry /\ cache[k].rules \subseteq Rules
BY DEF TypeOK, CacheEntry

\* A row is written or it is not.
LEMMA RowShape ==
    ASSUME TypeOK, NEW r \in Rules
    PROVE  /\ rule[r] # NoRule => rule[r] \in RuleRow
           /\ r \in live => rule[r] # NoRule
<1>1. rule[r] # NoRule => rule[r] \in RuleRow
  BY DEF TypeOK
<1>2. NoRule \notin RuleRow
  <2>1. \A x \in RuleRow : x.kind # "none"
    BY DEF RuleRow
  <2>2. NoRule.kind = "none"
    BY DEF NoRule
  <2>. QED  BY <2>1, <2>2
<1>. QED  BY <1>1, <1>2 DEF TypeOK

\* One call moves to a well-typed state.
LEMMA CallTyped ==
    ASSUME TypeOK, NEW c \in Calls, NEW s \in CallState, Enter(c, s)
    PROVE  /\ call' \in [Calls -> CallState]
           /\ call'[c] = s
           /\ \A d \in Calls \ {c} : call'[d] = call[d]
BY DEF TypeOK, Enter

\* What is visible was written, and for this key.
LEMMA VisibleRead ==
    ASSUME TypeOK, NEW k
    PROVE  Visible(k) \subseteq Rules /\ ReadFor(k, Visible(k))
<1>1. Visible(k) \subseteq live
  BY DEF Visible
<1>2. live \subseteq Rules
  BY DEF TypeOK
<1>3. \A r \in Visible(k) : rule[r] # NoRule
  BY <1>1, <1>2, RowShape
<1>. QED  BY <1>1, <1>2, <1>3 DEF ReadFor, Visible

\* A change of the rules of organization o leaves what the others see alone,
\* and marks every call that has read what it changed.
LEMMA ChangeMarks ==
    ASSUME NEW o, Change(o), NEW c \in Calls, At(c, "store"), c \notin missed'
    PROVE  c \notin missed /\ o # NoOrg /\ o # call[c].key
BY DEF Change

-----------------------------------------------------------------------------
(* The invariant *)

LEMMA InvInit == Init => Inv
<1>. SUFFICES ASSUME Init PROVE Inv
  OBVIOUS
<1>1. TypeOK
  <2>1. Idle \in CallState
    BY DEF Idle, CallState
  <2>2. NoOrg \in Keys
    BY DEF Keys
  <2>. QED  BY <2>1 DEF Init, TypeOK, EmptyCache
<1>2. \A k \in Keys : cache[k] = Absent
  BY DEF Init, EmptyCache
<1>3. \A c \in Calls : call[c].at = "idle"
  BY DEF Init, Idle
<1>. QED  BY <1>1, <1>2, <1>3 DEF Inv, CacheRead, HeldRead, HeldCurrent, CacheAgrees, At

\* A pending change stays pending while other calls move.
LEMMA PendingKept ==
    ASSUME TypeOK, NEW c \in Calls, NEW s \in CallState, Enter(c, s),
           ~At(c, "invalidate"), NEW r, Pending(r)
    PROVE  Pending(r)'
<1>1. PICK d \in Calls : call[d] = [at |-> "invalidate", rule |-> r]
  BY DEF Pending
<1>2. d # c
  BY <1>1 DEF At
<1>. QED  BY <1>1, <1>2, CallTyped DEF Pending

\* A call moves, holding rules read for its key, and changes nothing else; it
\* is marked if those are not all.
LEMMA CallReads ==
    ASSUME Inv, NEW c \in Calls, NEW s \in CallState, Enter(c, s),
           UNCHANGED <<table, cached, now, raced>>, ~At(c, "invalidate"),
           missed \subseteq missed', missed' \subseteq Calls,
           s.at \in {"store", "decide"} => ReadFor(s.key, s.rules),
           s.at = "store" => s.rules = Visible(s.key) \/ c \in missed'
    PROVE  Inv'
<1>. TypeOK
  BY DEF Inv
<1>0. UNCHANGED <<rule, live, cache, cacheTime, now, raced>>
  BY DEF table, cached
<1>1. /\ call' \in [Calls -> CallState]
      /\ call'[c] = s
      /\ \A d \in Calls \ {c} : call'[d] = call[d]
  BY CallTyped
<1>2. TypeOK'
  BY <1>0, <1>1 DEF TypeOK
<1>3. \A k : Visible(k)' = Visible(k)
  BY <1>0 DEF Visible
<1>4. \A k, S : ReadFor(k, S) => ReadFor(k, S)'
  BY <1>0 DEF ReadFor
<1>5. CacheRead'
  BY <1>0, <1>4 DEF Inv, CacheRead
<1>6. \A d \in Calls : HeldRead(d)'
  BY <1>1, <1>4 DEF Inv, HeldRead
<1>7. \A d \in Calls : HeldCurrent(d)'
  BY <1>0, <1>1, <1>3 DEF Inv, HeldCurrent, At
<1>8. CacheAgrees'
  <2>. SUFFICES ASSUME NEW k \in Keys \ raced', cache'[k] # Absent, NEW r \in Rules,
                       (r \in cache'[k].rules) # (r \in Visible(k)')
                PROVE  Pending(r)'
    BY DEF CacheAgrees, Agrees
  <2>1. Pending(r)
    BY <1>0, <1>3 DEF Inv, CacheAgrees, Agrees
  <2>. QED  BY <2>1, PendingKept
<1>. QED  BY <1>2, <1>5, <1>6, <1>7, <1>8 DEF Inv

\* A call moves and is not marked.
LEMMA CallStep ==
    ASSUME Inv, NEW c \in Calls, NEW s \in CallState, Enter(c, s),
           UNCHANGED <<table, cached, now, noted>>, ~At(c, "invalidate"),
           s.at \in {"store", "decide"} => ReadFor(s.key, s.rules),
           s.at = "store" => s.rules = Visible(s.key)
    PROVE  Inv'
<1>1. missed' = missed /\ raced' = raced /\ missed \subseteq Calls
  BY DEF noted, Inv, TypeOK
<1>. QED  BY <1>1, CallReads

\* The cache is emptied, and the calls change nothing they hold.
LEMMA Cleared ==
    ASSUME Inv, ClearCache, call' \in [Calls -> CallState],
           \A c \in Calls : call'[c] = call[c] \/ call'[c].at = "idle"
    PROVE  Inv'
<1>0. UNCHANGED <<rule, live, cacheTime, now, missed>> /\ raced' = {} /\ cache' = EmptyCache
  BY DEF ClearCache, table
<1>1. TypeOK'
  BY <1>0 DEF Inv, TypeOK, EmptyCache
<1>2. \A k \in Keys : cache'[k] = Absent
  BY <1>0 DEF EmptyCache
<1>3. \A d \in Calls : HeldRead(d)'
  BY <1>0 DEF Inv, HeldRead, ReadFor
<1>4. \A d \in Calls : HeldCurrent(d)'
  BY <1>0 DEF Inv, HeldCurrent, At, Visible
<1>. QED  BY <1>1, <1>2, <1>3, <1>4 DEF Inv, CacheRead, CacheAgrees

\* A rule changes: what was written stays written, only r comes or goes, and
\* only for those who see the rules of o.
LEMMA EditStep ==
    ASSUME Inv, NEW c \in Calls, NEW r \in Rules, NEW o,
           At(c, "idle"), Enter(c, [at |-> "invalidate", rule |-> r]),
           UNCHANGED <<cached, now, raced>>,
           rule' \in [Rules -> RuleRow \cup {NoRule}],
           \A q \in Rules : rule[q] # NoRule => rule'[q] = rule[q],
           live' \subseteq Rules, \A q \in live' : rule'[q] \in RuleRow,
           \A k : Visible(k)' \cup {r} = Visible(k) \cup {r},
           \A k : o # NoOrg /\ o # k => Visible(k)' = Visible(k),
           Change(o) \/ (UNCHANGED missed /\ \A k : Visible(k)' = Visible(k))
    PROVE  Inv'
<1>. DEFINE s == [at |-> "invalidate", rule |-> r]
<1>. TypeOK
  BY DEF Inv
<1>0. UNCHANGED <<cache, cacheTime, now, raced>> /\ s \in CallState
  BY DEF cached, CallState
<1>1. /\ call' \in [Calls -> CallState]
      /\ call'[c] = s
      /\ \A d \in Calls \ {c} : call'[d] = call[d]
  BY <1>0, CallTyped
<1>2. TypeOK'
  BY <1>0, <1>1 DEF TypeOK, Change
<1>3. \A k, S : S \subseteq Rules /\ ReadFor(k, S) => ReadFor(k, S)'
  BY DEF ReadFor
<1>4. CacheRead'
  BY <1>0, <1>3, EntryShape DEF Inv, CacheRead
<1>5. \A d \in Calls : HeldRead(d)'
  <2>. SUFFICES ASSUME NEW d \in Calls, call'[d].at \in {"store", "decide"}
                PROVE  ReadFor(call[d].key, call[d].rules)'
    BY DEF HeldRead
  <2>1. call'[d] = call[d]
    BY <1>1
  <2>2. call[d].rules \subseteq Rules /\ ReadFor(call[d].key, call[d].rules)
    BY <2>1, CallShape DEF Inv, HeldRead
  <2>. QED  BY <2>1, <2>2 DEF ReadFor
<1>6. \A d \in Calls : HeldCurrent(d)'
  <2>. SUFFICES ASSUME NEW d \in Calls, At(d, "store")', d \notin missed',
                       NEW k, k = call'[d].key
                PROVE  call'[d].rules = Visible(k)'
    BY DEF HeldCurrent
  <2>1. call'[d] = call[d] /\ At(d, "store")
    BY <1>1 DEF At
  <2>2. d \notin missed /\ Visible(k)' = Visible(k)
    BY <2>1, ChangeMarks
  <2>3. call[d].rules = Visible(k)
    BY <2>1, <2>2 DEF Inv, HeldCurrent
  <2>. QED  BY <2>1, <2>2, <2>3
<1>7. CacheAgrees'
  <2>. SUFFICES ASSUME NEW k \in Keys \ raced', cache'[k] # Absent, NEW q \in Rules,
                       (q \in cache'[k].rules) # (q \in Visible(k)')
                PROVE  Pending(q)'
    BY DEF CacheAgrees, Agrees
  <2>1. CASE q = r
    BY <2>1, <1>1 DEF Pending
  <2>2. CASE q # r
    <3>1. (q \in cache[k].rules) # (q \in Visible(k))
      BY <1>0, <2>2
    <3>2. Pending(q)
      BY <1>0, <3>1 DEF Inv, CacheAgrees, Agrees
    <3>. QED  BY <1>0, <3>2, PendingKept DEF At
  <2>. QED  BY <2>1, <2>2
<1>. QED  BY <1>2, <1>4, <1>5, <1>6, <1>7 DEF Inv

-----------------------------------------------------------------------------
(* Every action keeps the invariant *)

LEMMA LookupKeeps ==
    ASSUME Inv, NEW c \in Calls, NEW k \in Keys, CheckLookup(c, k)
    PROVE  Inv'
<1>. TypeOK /\ ~At(c, "invalidate") /\ UNCHANGED <<table, cached, now, noted>>
  BY DEF Inv, CheckLookup, At
<1>1. CASE Fresh /\ cache[k] # Absent
  <2>. DEFINE s == [at |-> "decide", key |-> k, rules |-> cache[k].rules]
  <2>1. Enter(c, s)
    BY <1>1 DEF CheckLookup
  <2>2. s \in CallState
    BY <1>1, EntryShape DEF CallState
  <2>3. ReadFor(s.key, s.rules)
    BY <1>1 DEF Inv, CacheRead
  <2>4. s.at # "store"
    OBVIOUS
  <2>. HIDE DEF s
  <2>. QED  BY <2>1, <2>2, <2>3, <2>4, CallStep
<1>2. CASE ~(Fresh /\ cache[k] # Absent)
  <2>. DEFINE s == [at |-> "load", key |-> k]
  <2>1. Enter(c, s)
    BY <1>2 DEF CheckLookup
  <2>2. s \in CallState /\ s.at = "load"
    BY DEF CallState
  <2>. HIDE DEF s
  <2>. QED  BY <2>1, <2>2, CallStep
<1>. QED  BY <1>1, <1>2

LEMMA LoadKeeps ==
    ASSUME Inv, NEW c \in Calls, CheckLoad(c)
    PROVE  Inv'
<1>. DEFINE s == [at |-> "store", key |-> call[c].key, rules |-> Visible(call[c].key)]
<1>1. TypeOK /\ ~At(c, "invalidate") /\ UNCHANGED <<table, cached, now, noted>>
  BY DEF Inv, CheckLoad, At
<1>2. Enter(c, s)
  BY DEF CheckLoad
<1>3. s \in CallState
  <2>1. call[c].key \in Keys
    BY <1>1, CallShape DEF CheckLoad, At
  <2>2. Visible(call[c].key) \subseteq Rules
    BY <1>1, VisibleRead
  <2>. QED  BY <2>1, <2>2 DEF CallState
<1>4. ReadFor(s.key, s.rules) /\ s.rules = Visible(s.key)
  BY <1>1, VisibleRead
<1>. HIDE DEF s
<1>. QED  BY <1>1, <1>2, <1>3, <1>4, CallStep

LEMMA BreaksOffKeeps ==
    ASSUME Inv, NEW c \in Calls, CheckLoadBreaksOff(c)
    PROVE  Inv'
<1>1. /\ TypeOK /\ ~At(c, "invalidate") /\ UNCHANGED <<table, cached, now, raced>>
      /\ missed' = missed \cup {c} /\ missed' \subseteq Calls
  BY DEF Inv, TypeOK, CheckLoadBreaksOff, At
<1>2. PICK S : /\ S \subseteq Visible(call[c].key)
               /\ Enter(c, [at |-> "store", key |-> call[c].key, rules |-> S])
  BY DEF CheckLoadBreaksOff
<1>. DEFINE s == [at |-> "store", key |-> call[c].key, rules |-> S]
<1>3. s \in CallState
  <2>1. call[c].key \in Keys
    BY <1>1, CallShape DEF CheckLoadBreaksOff, At
  <2>2. S \subseteq Rules
    BY <1>1, <1>2, VisibleRead
  <2>. QED  BY <2>1, <2>2 DEF CallState
<1>4. ReadFor(s.key, s.rules)
  BY <1>1, <1>2, VisibleRead DEF ReadFor
<1>5. Enter(c, s)
  BY <1>2
<1>. HIDE DEF s
<1>. QED  BY <1>1, <1>3, <1>4, <1>5, CallReads

\* A call that ends.
LEMMA ReturnKeeps ==
    ASSUME Inv, NEW c \in Calls, NEW a \in {"none", "allow", "deny"}, Return(c, a),
           UNCHANGED <<table, cached, now, noted>>, ~At(c, "invalidate")
    PROVE  Inv'
<1>. DEFINE s == [at |-> "idle", answer |-> a]
<1>1. s \in CallState /\ s.at = "idle"
  BY DEF CallState
<1>2. Enter(c, s)
  BY DEF Return
<1>. HIDE DEF s
<1>. QED  BY <1>1, <1>2, CallStep

LEMMA StoreKeeps ==
    ASSUME Inv, NEW c \in Calls, CheckStore(c)
    PROVE  Inv'
<1>. DEFINE k == call[c].key
            s == [at |-> "decide", key |-> call[c].key, rules |-> call[c].rules]
            e == [kind |-> "rules", rules |-> call[c].rules]
<1>1. /\ TypeOK /\ ~At(c, "invalidate") /\ At(c, "store")
      /\ UNCHANGED <<rule, live, now>>
  BY DEF Inv, CheckStore, At, table
<1>2. /\ k \in Keys /\ call[c].rules \subseteq Rules
      /\ call[c] = [at |-> "store", key |-> call[c].key, rules |-> call[c].rules]
  BY <1>1, CallShape DEF At
<1>3. [call[c] EXCEPT !.at = "decide"] = s
  BY <1>2
<1>4. s \in CallState /\ s.at = "decide"
  BY <1>2 DEF CallState
<1>5. Enter(c, s)
  BY <1>3 DEF CheckStore, Enter
<1>6. /\ call' \in [Calls -> CallState]
      /\ call'[c] = s
      /\ \A d \in Calls \ {c} : call'[d] = call[d]
  <2>. HIDE DEF s
  <2>. QED  BY <1>1, <1>4, <1>5, CallTyped
<1>7. e \in CacheEntry /\ e # Absent
  <2>1. e.kind = "rules" /\ Absent.kind = "absent"
    BY DEF Absent
  <2>. QED  BY <1>2, <2>1 DEF CacheEntry
<1>8. /\ cache' = [cache EXCEPT ![k] = e]
      /\ cacheTime' = now
      /\ raced' = IF c \in missed THEN raced \cup {k} ELSE raced \ {k}
      /\ missed' = missed \ {c}
  BY DEF CheckStore
<1>9. /\ cache'[k] = e
      /\ \A j \in Keys \ {k} : cache'[j] = cache[j]
      /\ cache' \in [Keys -> CacheEntry \cup {Absent}]
  <2>. HIDE DEF e, k
  <2>. QED  BY <1>1, <1>2, <1>7, <1>8 DEF TypeOK
<1>10. TypeOK'
  <2>. HIDE DEF k
  <2>. QED  BY <1>1, <1>2, <1>6, <1>8, <1>9 DEF TypeOK
<1>11. ReadFor(k, call[c].rules)
  BY <1>1 DEF Inv, HeldRead, At
<1>12. CacheRead'
  <2>. SUFFICES ASSUME NEW j \in Keys, cache'[j] # Absent
                PROVE  ReadFor(j, cache[j].rules)'
    BY DEF CacheRead
  <2>1. CASE j = k
    BY <1>1, <1>9, <1>11, <2>1 DEF ReadFor
  <2>2. CASE j # k
    BY <1>1, <1>9, <2>2 DEF ReadFor, Inv, CacheRead
  <2>. QED  BY <2>1, <2>2
<1>13. \A d \in Calls : HeldRead(d)'
  <2>. SUFFICES ASSUME NEW d \in Calls, call'[d].at \in {"store", "decide"}
                PROVE  ReadFor(call[d].key, call[d].rules)'
    BY DEF HeldRead
  <2>1. CASE d = c
    BY <1>1, <1>6, <1>11, <2>1 DEF ReadFor
  <2>2. CASE d # c
    BY <1>1, <1>6, <2>2 DEF ReadFor, Inv, HeldRead
  <2>. QED  BY <2>1, <2>2
<1>14. \A d \in Calls : HeldCurrent(d)'
  <2>. SUFFICES ASSUME NEW d \in Calls, At(d, "store")', d \notin missed',
                       NEW j, j = call'[d].key
                PROVE  call'[d].rules = Visible(j)'
    BY DEF HeldCurrent
  <2>1. d # c
    BY <1>6 DEF At
  <2>2. call'[d] = call[d] /\ d \notin missed /\ Visible(j)' = Visible(j)
    BY <1>1, <1>6, <1>8, <2>1 DEF Visible
  <2>3. call[d].rules = Visible(j)
    BY <2>2 DEF Inv, HeldCurrent, At
  <2>. QED  BY <2>2, <2>3
<1>15. CacheAgrees'
  <2>. SUFFICES ASSUME NEW j \in Keys \ raced', cache'[j] # Absent, NEW q \in Rules,
                       (q \in cache'[j].rules) # (q \in Visible(j)')
                PROVE  Pending(q)'
    BY DEF CacheAgrees, Agrees
  <2>1. Visible(j)' = Visible(j)
    BY <1>1 DEF Visible
  <2>2. j # k
    <3>. SUFFICES ASSUME j = k PROVE FALSE
      OBVIOUS
    <3>1. c \notin missed
      BY <1>8
    <3>2. call[c].rules = Visible(k)
      BY <1>1, <3>1 DEF Inv, HeldCurrent
    <3>. QED  BY <1>9, <2>1, <3>2
  <2>3. (q \in cache[j].rules) # (q \in Visible(j)) /\ j \notin raced /\ cache[j] # Absent
    BY <1>8, <1>9, <2>1, <2>2
  <2>4. Pending(q)
    BY <2>3 DEF Inv, CacheAgrees, Agrees
  <2>. HIDE DEF s
  <2>. QED  BY <1>1, <1>4, <1>5, <2>4, PendingKept
<1>. QED  BY <1>10, <1>12, <1>13, <1>14, <1>15 DEF Inv

LEMMA AddRuleKeeps ==
    ASSUME Inv, NEW c \in Calls, NEW r \in Rules, AddRule(c, r)
    PROVE  Inv'
<1>. TypeOK
  BY DEF Inv
<1>1. PICK kind \in {"allow", "block"}, o \in Keys, b \in BOOLEAN, life \in Lifetimes :
         /\ rule' = [rule EXCEPT ![r] =
               [kind |-> kind, org |-> o, covers |-> b,
                expiresAt |-> IF life = Never THEN Never ELSE now + life]]
         /\ Change(o)
  BY DEF AddRule
<1>. DEFINE row == [kind |-> kind, org |-> o, covers |-> b,
                    expiresAt |-> IF life = Never THEN Never ELSE now + life]
<1>2. row \in RuleRow
  BY ConstantsOK DEF RuleRow, TypeOK
<1>3. /\ rule' = [rule EXCEPT ![r] = row] /\ row.org = o
      /\ live' = live \cup {r} /\ rule[r] = NoRule
      /\ At(c, "idle") /\ Enter(c, [at |-> "invalidate", rule |-> r])
      /\ UNCHANGED <<cached, now, raced>>
  BY <1>1 DEF AddRule
<1>. HIDE DEF row
<1>4. /\ rule' \in [Rules -> RuleRow \cup {NoRule}]
      /\ rule'[r] = row
      /\ \A q \in Rules \ {r} : rule'[q] = rule[q]
  BY <1>2, <1>3 DEF TypeOK
<1>5. live \subseteq Rules /\ r \notin live
  BY <1>3, RowShape DEF TypeOK
<1>6. live' \subseteq Rules /\ \A q \in live' : rule'[q] \in RuleRow
  BY <1>2, <1>3, <1>4, <1>5 DEF TypeOK
<1>7. \A k : Visible(k)' \cup {r} = Visible(k) \cup {r}
  BY <1>3, <1>4, <1>5 DEF Visible
<1>8. \A k : o # NoOrg /\ o # k => Visible(k)' = Visible(k)
  BY <1>3, <1>4, <1>5 DEF Visible
<1>9. \A q \in Rules : rule[q] # NoRule => rule'[q] = rule[q]
  BY <1>3, <1>4
<1>. QED  BY <1>1, <1>3, <1>4, <1>6, <1>7, <1>8, <1>9, EditStep

LEMMA RemoveRuleKeeps ==
    ASSUME Inv, NEW c \in Calls, NEW r \in Rules, RemoveRule(c, r)
    PROVE  Inv'
<1>. TypeOK
  BY DEF Inv
<1>. DEFINE o == rule[r].org
<1>1. /\ UNCHANGED rule /\ live' = live \ {r}
      /\ At(c, "idle") /\ Enter(c, [at |-> "invalidate", rule |-> r])
      /\ UNCHANGED <<cached, now, raced>>
      /\ IF r \in live THEN Change(o) ELSE UNCHANGED missed
  BY DEF RemoveRule
<1>2. /\ rule' \in [Rules -> RuleRow \cup {NoRule}]
      /\ \A q \in Rules : rule[q] # NoRule => rule'[q] = rule[q]
      /\ live' \subseteq Rules /\ \A q \in live' : rule'[q] \in RuleRow
  BY <1>1 DEF TypeOK
<1>3. \A k : Visible(k)' \cup {r} = Visible(k) \cup {r}
  BY <1>1 DEF Visible
<1>4. \A k : o # NoOrg /\ o # k => Visible(k)' = Visible(k)
  BY <1>1 DEF Visible
<1>5. Change(o) \/ (UNCHANGED missed /\ \A k : Visible(k)' = Visible(k))
  <2>1. CASE r \in live
    BY <1>1, <2>1
  <2>2. CASE r \notin live
    BY <1>1, <2>2 DEF Visible
  <2>. QED  BY <2>1, <2>2
<1>. HIDE DEF o
<1>. QED  BY <1>1, <1>2, <1>3, <1>4, <1>5, EditStep

LEMMA InvalidateKeeps ==
    ASSUME Inv, NEW c \in Calls, Invalidate(c)
    PROVE  Inv'
<1>. DEFINE s == [at |-> "idle", answer |-> "none"]
<1>1. TypeOK /\ s \in CallState /\ s.at = "idle" /\ Enter(c, s) /\ ClearCache
  BY DEF Inv, Invalidate, Return, CallState
<1>. HIDE DEF s
<1>2. /\ call' \in [Calls -> CallState]
      /\ \A d \in Calls : call'[d] = call[d] \/ call'[d].at = "idle"
  BY <1>1, CallTyped
<1>. QED  BY <1>1, <1>2, Cleared

LEMMA TickKeeps ==
    ASSUME Inv, Tick \/ UNCHANGED vars
    PROVE  Inv'
<1>1. UNCHANGED <<rule, live, cache, cacheTime, call, missed, raced>>
  BY DEF Tick, vars, table, cached, noted
<1>2. TypeOK'
  BY <1>1 DEF Inv, TypeOK, Tick, vars
<1>3. CacheRead' /\ CacheAgrees'
  BY <1>1 DEF Inv, CacheRead, CacheAgrees, ReadFor, Agrees, Pending, Visible
<1>4. \A d \in Calls : HeldRead(d)' /\ HeldCurrent(d)'
  BY <1>1 DEF Inv, HeldRead, HeldCurrent, ReadFor, At, Visible
<1>. QED  BY <1>2, <1>3, <1>4 DEF Inv

LEMMA RestartKeeps ==
    ASSUME Inv, Restart
    PROVE  Inv'
<1>1. /\ UNCHANGED <<rule, live, now>> /\ cache' = EmptyCache /\ cacheTime' = Never
      /\ call' = [c \in Calls |-> Idle] /\ missed' = {} /\ raced' = {}
  BY DEF Restart, table
<1>2. Idle \in CallState /\ Idle.at = "idle"
  BY DEF Idle, CallState
<1>3. TypeOK'
  BY <1>1, <1>2 DEF Inv, TypeOK, EmptyCache
<1>4. CacheRead' /\ CacheAgrees'
  BY <1>1 DEF CacheRead, CacheAgrees, EmptyCache
<1>5. \A d \in Calls : HeldRead(d)' /\ HeldCurrent(d)'
  BY <1>1, <1>2 DEF HeldRead, HeldCurrent, At
<1>. QED  BY <1>3, <1>4, <1>5 DEF Inv

LEMMA InvNext == Inv /\ [Next]_vars => Inv'
<1>. SUFFICES ASSUME Inv, [Next]_vars PROVE Inv'
  OBVIOUS
<1>1. CASE \E c \in Calls : Check(c)
  <2>1. PICK c \in Calls : Check(c)
    BY <1>1
  <2>2. CASE \E k \in Keys : CheckLookup(c, k)
    BY <2>2, LookupKeeps
  <2>3. CASE CheckLoad(c)
    BY <2>3, LoadKeeps
  <2>4. CASE CheckLoadBreaksOff(c)
    BY <2>4, BreaksOffKeeps
  <2>5. CASE CheckLoadFails(c)
    <3>1. Return(c, "allow") /\ ~At(c, "invalidate") /\ UNCHANGED <<table, cached, now, noted>>
      BY <2>5 DEF CheckLoadFails, At
    <3>. QED  BY <3>1, ReturnKeeps
  <2>6. CASE CheckStore(c)
    BY <2>6, StoreKeeps
  <2>7. CASE CheckDecide(c)
    <3>1. Verdict(call[c].rules) \in {"none", "allow", "deny"}
      BY ConstantsOK DEF Verdict
    <3>2. /\ Return(c, Verdict(call[c].rules)) /\ ~At(c, "invalidate")
          /\ UNCHANGED <<table, cached, now, noted>>
      BY <2>7 DEF CheckDecide, At
    <3>. QED  BY <3>1, <3>2, ReturnKeeps
  <2>. QED  BY <2>1, <2>2, <2>3, <2>4, <2>5, <2>6, <2>7 DEF Check
<1>2. CASE \E c \in Calls : Edit(c)
  BY <1>2, InvalidateKeeps, AddRuleKeeps, RemoveRuleKeeps DEF Edit
<1>3. CASE InvalidateCache
  BY <1>3, Cleared DEF InvalidateCache, Inv, TypeOK
<1>4. CASE Tick \/ UNCHANGED vars
  BY <1>4, TickKeeps
<1>5. CASE Restart
  BY <1>5, RestartKeeps
<1>. QED  BY <1>1, <1>2, <1>3, <1>4, <1>5 DEF Next

\* Inv holds in every reachable state.
THEOREM Invariant == Spec => []Inv
<1>. QED  BY InvInit, InvNext, PTL DEF Spec

-----------------------------------------------------------------------------
(* The theorems *)

(* The rows, the cache and the calls of Check, AddRule and RemoveRule are  *)
(* well typed in every reachable state.                                    *)
THEOREM TypeCorrect == Spec => []TypeOK
<1>1. Inv => TypeOK
  BY DEF Inv
<1>. QED  BY <1>1, Invariant, PTL

(* The rules Check applies and getRules caches for a key are that          *)
(* organization's and the common ones, whatever else runs.                 *)
THEOREM KeptApart == Spec => []Isolation
<1>1. Inv => Isolation
  <2>1. CacheRead => \A k \in Keys : cache[k] # Absent =>
           \A r \in cache[k].rules : rule[r].org \in {NoOrg, k}
    BY DEF CacheRead, ReadFor
  <2>2. (\A c \in Calls : HeldRead(c)) =>
           \A c \in Calls : \A r \in Held(c) : rule[r].org \in {NoOrg, call[c].key}
    BY DEF HeldRead, ReadFor, Held
  <2>. QED  BY <2>1, <2>2 DEF Inv, Isolation
<1>. QED  BY <1>1, Invariant, PTL

(* "Invalidate cache" in AddRule and RemoveRule reaches every entry that   *)
(* was not being loaded while the rule changed.                            *)
THEOREM OnlyRacesLeaveStale == Spec => []StaleOnlyByRace
<1>1. Inv => StaleOnlyByRace
  BY DEF Inv, CacheAgrees, Agrees, Pending, StaleOnlyByRace
<1>. QED  BY <1>1, Invariant, PTL

-----------------------------------------------------------------------------
(* One call at a time *)

\* No change overtakes the one call there is, so what it is about to decide by
\* is what the table holds.
OneCall(c) ==
    /\ Inv
    /\ raced = {} /\ missed = {}
    /\ At(c, "decide") => call[c].rules = Visible(call[c].key)

LEMMA OneCallInit == ASSUME NEW c \in Calls, Init PROVE OneCall(c)
BY InvInit DEF OneCall, Init, Idle, At

\* Between two calls every entry of the cache is what the table would give.
LEMMA CacheCurrent ==
    ASSUME NEW c, Calls = {c}, OneCall(c), ~At(c, "invalidate"),
           NEW k \in Keys, cache[k] # Absent
    PROVE  cache[k].rules = Visible(k)
<1>1. \A r \in Rules : ~Pending(r)
  BY DEF Pending, At
<1>2. \A r \in Rules : (r \in cache[k].rules) = (r \in Visible(k))
  BY <1>1 DEF OneCall, Inv, CacheAgrees, Agrees
<1>3. cache[k].rules \subseteq Rules /\ Visible(k) \subseteq Rules
  BY EntryShape, VisibleRead DEF OneCall, Inv
<1>. QED  BY <1>2, <1>3

LEMMA OneCallNext ==
    ASSUME NEW c, Calls = {c}, ~MayFail, OneCall(c), [Next]_vars
    PROVE  OneCall(c)' /\ AnswersByTable
<1>. c \in Calls /\ TypeOK /\ Inv'
  BY InvNext DEF OneCall, Inv
<1>0. raced = {} /\ missed = {}
  BY DEF OneCall
<1>. DEFINE Goal == /\ raced' = {} /\ missed' = {}
                    /\ At(c, "decide")' => call'[c].rules = Visible(call[c].key)'
                    /\ At(c, "decide") /\ call'[c].at = "idle" =>
                          call'[c].answer = Verdict(Visible(call[c].key))
<1>1. SUFFICES Goal
  BY DEF OneCall, AnswersByTable
<1>2. \A s : Enter(c, s) => call'[c] = s
  BY DEF TypeOK, Enter
<1>3. ASSUME NEW k \in Keys, CheckLookup(c, k)
      PROVE  Goal
  <2>1. At(c, "idle") /\ UNCHANGED <<rule, live, raced, missed>>
    BY <1>3 DEF CheckLookup, table, noted
  <2>2. Visible(k)' = Visible(k)
    BY <2>1 DEF Visible
  <2>3. CASE Fresh /\ cache[k] # Absent
    <3>1. call'[c] = [at |-> "decide", key |-> k, rules |-> cache[k].rules]
      BY <1>2, <1>3, <2>3 DEF CheckLookup
    <3>2. cache[k].rules = Visible(k)
      BY <2>1, <2>3, CacheCurrent DEF At
    <3>. QED  BY <1>0, <2>1, <2>2, <3>1, <3>2 DEF At
  <2>4. CASE ~(Fresh /\ cache[k] # Absent)
    <3>1. call'[c] = [at |-> "load", key |-> k]
      BY <1>2, <1>3, <2>4 DEF CheckLookup
    <3>. QED  BY <1>0, <2>1, <3>1 DEF At
  <2>. QED  BY <2>3, <2>4
<1>4. CASE CheckLoad(c)
  <2>1. call'[c] = [at |-> "store", key |-> call[c].key, rules |-> Visible(call[c].key)]
    BY <1>2, <1>4 DEF CheckLoad
  <2>. QED  BY <1>0, <1>4, <2>1 DEF CheckLoad, At, noted
<1>5. CASE CheckStore(c)
  <2>1. At(c, "store") /\ UNCHANGED <<rule, live>> /\ raced' = {} /\ missed' = {}
    BY <1>0, <1>5 DEF CheckStore, table
  <2>2. call' = [call EXCEPT ![c].at = "decide"]
    BY <1>5 DEF CheckStore
  <2>3. call[c] = [at |-> "store", key |-> call[c].key, rules |-> call[c].rules]
    BY <2>1, CallShape DEF At
  <2>4. call'[c] = [at |-> "decide", key |-> call[c].key, rules |-> call[c].rules]
    BY <2>2, <2>3 DEF TypeOK
  <2>5. call[c].rules = Visible(call[c].key)
    BY <1>0, <2>1 DEF OneCall, Inv, HeldCurrent
  <2>6. Visible(call[c].key)' = Visible(call'[c].key)
    BY <2>1 DEF Visible
  <2>. QED  BY <2>1, <2>4, <2>5, <2>6 DEF At
<1>6. CASE CheckDecide(c)
  <2>1. call'[c] = [at |-> "idle", answer |-> Verdict(call[c].rules)] /\ At(c, "decide")
    BY <1>2, <1>6 DEF CheckDecide, Return
  <2>2. call[c].rules = Visible(call[c].key)
    BY <2>1 DEF OneCall
  <2>. QED  BY <1>0, <1>6, <2>1, <2>2 DEF CheckDecide, At, noted
<1>7. ASSUME NEW r \in Rules, AddRule(c, r) \/ RemoveRule(c, r)
      PROVE  Goal
  <2>1. call'[c] = [at |-> "invalidate", rule |-> r] /\ At(c, "idle") /\ raced' = raced
    BY <1>2, <1>7 DEF AddRule, RemoveRule
  <2>2. \A o : Change(o) => missed' = {}
    BY <1>0, <2>1 DEF Change, At
  <2>3. missed' = {}
    BY <1>0, <1>7, <2>2 DEF AddRule, RemoveRule
  <2>. QED  BY <1>0, <2>1, <2>3 DEF At
<1>8. CASE Invalidate(c)
  <2>1. call'[c] = [at |-> "idle", answer |-> "none"] /\ At(c, "invalidate")
    BY <1>2, <1>8 DEF Invalidate, Return
  <2>. QED  BY <1>0, <1>8, <2>1 DEF Invalidate, ClearCache, At
<1>9. CASE InvalidateCache \/ Tick \/ UNCHANGED vars
  <2>1. UNCHANGED <<rule, live, call, missed>> /\ raced' = {}
    BY <1>0, <1>9 DEF InvalidateCache, ClearCache, Tick, vars, table, noted
  <2>2. At(c, "decide") => call[c].rules = Visible(call[c].key)
    BY DEF OneCall
  <2>. QED  BY <1>0, <2>1, <2>2 DEF At, Visible
<1>10. ~CheckLoadBreaksOff(c) /\ ~CheckLoadFails(c) /\ ~Restart
  BY DEF CheckLoadBreaksOff, CheckLoadFails, Restart
<1>. QED
  BY <1>3, <1>4, <1>5, <1>6, <1>7, <1>8, <1>9, <1>10 DEF Next, Check, Edit

(* One call at a time, while no query fails and the process goes on, Check   *)
(* answers by the rules in the table at that moment, cached or not (Check,   *)
(* getRules, AddRule, RemoveRule, InvalidateCache), for any rules, lifetimes *)
(* and age of the cache.                                                     *)
THEOREM AnswersOneByOne ==
    ASSUME NEW c, Calls = {c}, ~MayFail
    PROVE  Spec => AnswersByTableAlone
<1>1. Init => OneCall(c)
  BY OneCallInit
<1>2. OneCall(c) /\ [Next]_vars => OneCall(c)' /\ [alone => AnswersByTable]_vars
  BY OneCallNext
<1>. QED  BY <1>1, <1>2, PTL DEF Spec, AnswersByTableAlone

=============================================================================
