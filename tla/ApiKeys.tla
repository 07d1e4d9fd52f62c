------------------------------ MODULE ApiKeys ------------------------------
(***************************************************************************)
(* API keys: internal/apikeys/apikeys.go on the table api_keys.  A key is  *)
(* named by its number, the hash of the plain text being one to one; a     *)
(* validation reads the row, and counts the use in a second statement.     *)
(*                                                                         *)
(* A name is a pair <<area, verb>>; <<area, "*">> is "area:*", Everything  *)
(* "*".  A scope a key is created with is any string, and stands for the   *)
(* names it is read back as: "" and "," for none, "tx:send,*" for two.     *)
(***************************************************************************)
EXTENDS Integers, FiniteSets

CONSTANTS
    Owners,     \* user ids
    Keys,       \* ids of the rows of api_keys
    Areas,      \* what a scope is about
    Verbs,      \* what it allows, not "*"
    ScopeLists, \* the lists of scopes keys are created with
    Anything,   \* no scope is required
    KCalls,     \* requests that may be running at the same time
    KMayFail,   \* whether the UPDATE of the use count may fail
    Retention,  \* Cleanup's days
    MaxUses,    \* bound on the requests ever made
    MaxDay      \* bound on the day

Everything == <<"*", "">>
Required == Areas \X Verbs
ScopeNames == (Areas \X (Verbs \cup {"*"})) \cup {Everything}
Scopes == SUBSET ScopeNames

ASSUME ApiKeysConstantsOK ==
    /\ KMayFail \in BOOLEAN
    /\ {Retention, MaxUses, MaxDay} \subseteq Nat
    /\ "*" \notin Areas \cup Verbs
    /\ Anything \notin Areas \X Verbs
    /\ ScopeLists \subseteq SUBSET Scopes

VARIABLES
    key,       \* rows of api_keys
    kcall,     \* the requests in flight
    day,       \* the time
    accepted,  \* accepted[k]: validations that ended well; read by no action
    served,    \* served[k]: scopes of the requests that went on; likewise
    given,     \* given[k]: the scopes the key was created with; likewise
    ended,     \* keys once revoked, deleted or expired; likewise
    uses       \* requests made so far

keyVars == <<key, kcall, day, accepted, served, given, ended, uses>>

NoKey == [owner |-> "none"]
GoneKey == [owner |-> "gone"]
Never == -1
KIdle == [at |-> "idle"]

KeyRow ==
    [owner : Owners, scopes : SUBSET ScopeNames, expires : {Never} \cup Nat,
     created : Nat, active : BOOLEAN, count : Nat]

KCallState ==
    [at : {"count"}, key : Keys, need : Required \cup {Anything}, fits : BOOLEAN, late : BOOLEAN]

(* The one type invariant.                                                 *)
ApiKeysTypeOK ==
    /\ key \in [Keys -> KeyRow \cup {NoKey, GoneKey}]
    /\ kcall \in [KCalls -> KCallState \cup {KIdle}]
    /\ {day, uses} \subseteq Nat
    /\ accepted \in [Keys -> Nat]
    /\ \A k \in Keys : served[k] \subseteq Required \cup {Anything} /\ given[k] \subseteq Scopes
    /\ ended \subseteq Keys

ApiKeysInit ==
    /\ key = [k \in Keys |-> NoKey]
    /\ kcall = [c \in KCalls |-> KIdle]
    /\ day = 0
    /\ accepted = [k \in Keys |-> 0]
    /\ served = [k \in Keys |-> {}]
    /\ given = [k \in Keys |-> {}]
    /\ ended = {}
    /\ uses = 0

-----------------------------------------------------------------------------
(* Helpers *)

Exists(k) == key[k] \notin {NoKey, GoneKey}

\* Create writes the scopes between quotes and commas, as they are; parseScopes
\* splits what it reads at the commas, trims blanks and quotes and drops what
\* is then empty.
Parsed(scopes) == UNION scopes

\* A key without names may do everything.
HasScope(names, need) ==
    \/ names = {}
    \/ need = Anything
    \/ names \cap {Everything, need, <<need[1], "*">>} # {}

Lapsed(k) == key[k].expires # Never /\ day > key[k].expires

-----------------------------------------------------------------------------
CreateKey(k, u, scopes, expires) ==
    /\ key[k] = NoKey
    /\ key' = [key EXCEPT ![k] =
          [owner |-> u, scopes |-> Parsed(scopes), expires |-> expires, created |-> day,
           active |-> TRUE, count |-> 0]]
    /\ given' = [given EXCEPT ![k] = scopes]
    /\ UNCHANGED <<kcall, day, accepted, served, ended, uses>>

\* Bug: the query does not ask whether the key is active.
ValidateKey_Revoked(c, k, need) ==
    /\ kcall[c] = KIdle
    /\ uses < MaxUses
    /\ uses' = uses + 1
    /\ Exists(k)
    /\ ~Lapsed(k)
    /\ kcall' = [kcall EXCEPT ![c] =
          [at |-> "count", key |-> k, need |-> need,
           fits |-> HasScope(key[k].scopes, need), late |-> k \in ended]]
    /\ UNCHANGED <<key, day, accepted, served, given, ended>>

\* Validate's query finds the key good; what is decided from here on comes
\* from the row it read.
ValidateKey(c, k, need) ==
    /\ kcall[c] = KIdle
    /\ uses < MaxUses
    /\ uses' = uses + 1
    /\ Exists(k)
    /\ key[k].active
    /\ ~Lapsed(k)
    /\ kcall' = [kcall EXCEPT ![c] =
          [at |-> "count", key |-> k, need |-> need,
           fits |-> HasScope(key[k].scopes, need), late |-> k \in ended]]
    /\ UNCHANGED <<key, day, accepted, served, given, ended>>

\* The UPDATE, whose error is ignored; then Middleware lets the request on if
\* the scopes read allow it.
CountUse(c) ==
    LET k == kcall[c].key IN
    /\ kcall[c] # KIdle
    /\ \/ key' = IF Exists(k) THEN [key EXCEPT ![k].count = @ + 1] ELSE key
       \/ KMayFail /\ UNCHANGED key
    /\ accepted' = [accepted EXCEPT ![k] = @ + 1]
    /\ served' = [served EXCEPT ![k] = IF kcall[c].fits THEN @ \cup {kcall[c].need} ELSE @]
    /\ kcall' = [kcall EXCEPT ![c] = KIdle]
    /\ UNCHANGED <<day, given, ended, uses>>

Revoke(k, u) ==
    /\ Exists(k) /\ key[k].owner = u
    /\ key' = [key EXCEPT ![k].active = FALSE]
    /\ ended' = ended \cup {k}
    /\ UNCHANGED <<kcall, day, accepted, served, given, uses>>

DeleteKey(k, u) ==
    /\ Exists(k) /\ key[k].owner = u
    /\ key' = [key EXCEPT ![k] = GoneKey]
    /\ ended' = ended \cup {k}
    /\ UNCHANGED <<kcall, day, accepted, served, given, uses>>

\* An expired key goes at once, a revoked one when it is old.
CleanupKeys ==
    LET old == {k \in Keys : /\ Exists(k)
                             /\ \/ Lapsed(k)
                                \/ ~key[k].active /\ key[k].created < day - Retention} IN
    /\ key' = [k \in Keys |-> IF k \in old THEN GoneKey ELSE key[k]]
    /\ ended' = ended \cup old
    /\ UNCHANGED <<kcall, day, accepted, served, given, uses>>

NextDay ==
    /\ day < MaxDay
    /\ day' = day + 1
    /\ ended' = ended \cup {k \in Keys : /\ Exists(k)
                                         /\ key[k].expires # Never
                                         /\ day' > key[k].expires}
    /\ UNCHANGED <<key, kcall, accepted, served, given, uses>>

Validate(c) ==
    \/ \E k \in Keys, need \in Required \cup {Anything} : ValidateKey(c, k, need)
    \/ CountUse(c)

ApiKeysNext ==
    \/ NextDay \/ CleanupKeys
    \/ \E c \in KCalls : Validate(c)
    \/ \E k \in Keys, u \in Owners :
          \/ \E scopes \in ScopeLists, expires \in {Never, day, day + 1} :
                CreateKey(k, u, scopes, expires)
          \/ Revoke(k, u)
          \/ DeleteKey(k, u)

ApiKeysSpec == ApiKeysInit /\ [][ApiKeysNext]_keyVars

-----------------------------------------------------------------------------
(* Properties *)

(* A request that comes after a key was revoked, deleted or expired is not  *)
(* accepted, whatever other requests, Cleanup and the clock do; one that    *)
(* was being validated still is (Validate reads the row once).              *)
EndedForGood == \A c \in KCalls : kcall[c] # KIdle => ~kcall[c].late

(* A key with a name between the commas of its scopes is used for what one  *)
(* of those names allows, whole or by its area, and for nothing else (a     *)
(* comma in a scope makes two of it); one without, which is one created     *)
(* with blank scopes too, for everything (Create, parseScopes, HasScope).   *)
WithinScope ==
    \A k \in Keys :
        UNION given[k] # {} =>
            \A need \in served[k] \ {Anything} :
                \E s \in given[k] : \E n \in s :
                    n = Everything \/ (n[1] = need[1] /\ n[2] \in {need[2], "*"})

(* use_count is the number of requests a key was accepted for.              *)
UsesCounted == \A k \in Keys : Exists(k) => key[k].count = accepted[k]
=============================================================================
