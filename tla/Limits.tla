------------------------------- MODULE Limits -------------------------------
(***************************************************************************)
(* The two request limiters: internal/middleware/ratelimit.go ("plain")    *)
(* and internal/georatelimit/georatelimit.go ("geo").  Both keep a map     *)
(* from clients to token buckets, look a bucket up under one lock and take *)
(* a token under another, and drop buckets they think unused.  The second  *)
(* also refuses countries, by a map in memory and a table.                 *)
(*                                                                         *)
(* One client, of one country: clients share no bucket.  Time passes in    *)
(* steps in which a bucket gains its rps.                                  *)
(***************************************************************************)
EXTENDS Integers, FiniteSets

CONSTANTS
    DefaultLimits,  \* [rps, burst] the configuration gives the country
    OtherLimits,    \* the limits SetCountryLimits is called with
    IdleTime,       \* how long the geo limiter keeps a bucket nobody uses
    LCalls,         \* requests that may be running at the same time
    Admins,         \* calls of BlockCountry, UnblockCountry that may be running
    LMayFail,       \* whether a statement may fail
    MaxBuckets,     \* bound on the buckets ever made
    MaxTime,        \* bound on the clock
    MaxHits         \* bound on the requests ever made

LimitsRow == [rps : Nat, burst : Nat]

ASSUME LimitsConstantsOK ==
    /\ {DefaultLimits} \cup OtherLimits \subseteq LimitsRow
    /\ LMayFail \in BOOLEAN
    /\ {IdleTime, MaxBuckets, MaxTime, MaxHits} \subseteq Nat

VARIABLES
    kind,      \* which of the two limiters this is
    listed,    \* config.BlockedCountries has the country
    blocked,   \* the map blockedCountries has it
    rule,      \* its row of geo_rate_rules
    current,   \* the bucket the map has for the client, 0 for none
    bucket,    \* the buckets made so far, the dropped ones included
    lcall,     \* the requests in flight
    admin,     \* admin[a]: the row that call a has still to write
    time,
    ideal,     \* tokens of the one bucket the client should have; read by no action
    shut,      \* a BlockCountry returned, no UnblockCountry then under way or
               \* called since; likewise
    loose,     \* the limits were changed, or a bucket dropped that a request
               \* held or that was not full; likewise
    hits       \* requests made so far

limitVars == <<kind, listed, blocked, rule, current, bucket, lcall, admin,
               time, ideal, shut, loose, hits>>

NoRule == [blocked |-> FALSE, limits |-> [rps |-> 0, burst |-> 0]]
LIdle == [at |-> "idle"]

LCallState ==
    [at : {"table", "limits", "bucket", "take"}, limits : LimitsRow, bucket : 0..MaxBuckets,
     late : BOOLEAN]

(* The one type invariant.                                                 *)
LimitsTypeOK ==
    /\ kind \in {"plain", "geo"}
    /\ {listed, blocked, shut, loose} \subseteq BOOLEAN
    /\ rule \in [blocked : BOOLEAN, limits : LimitsRow]
    /\ current \in 0..Cardinality(DOMAIN bucket)
    /\ \A b \in DOMAIN bucket :
          /\ bucket[b] \in [tokens : Nat, limits : LimitsRow, idle : Nat]
          /\ bucket[b].tokens <= bucket[b].limits.burst
    /\ lcall \in [LCalls -> LCallState \cup {LIdle}]
    /\ admin \in [Admins -> {"idle", "block", "unblock"}]
    /\ {time, hits} \subseteq Nat
    /\ ideal \in Int

LimitsInit ==
    /\ kind \in {"plain", "geo"}
    /\ listed \in {FALSE, kind = "geo"}
    /\ blocked = listed
    /\ rule = NoRule
    /\ current = 0
    /\ bucket = <<>>
    /\ lcall = [c \in LCalls |-> LIdle]
    /\ admin = [a \in Admins |-> "idle"]
    /\ time = 0
    /\ ideal = DefaultLimits.burst
    /\ shut = FALSE
    /\ loose = FALSE
    /\ hits = 0

-----------------------------------------------------------------------------
(* Helpers *)

Least(a, b) == IF a < b THEN a ELSE b

\* Bug: a bucket is filled beyond its burst.
Refilled_Uncapped(b) ==
    [bucket[b] EXCEPT !.tokens = @ + bucket[b].limits.rps, !.idle = @ + 1]

Refilled(b) ==
    [bucket[b] EXCEPT
        !.tokens = Least(@ + bucket[b].limits.rps, bucket[b].limits.burst),
        !.idle = @ + 1]

LAt(c, at) == lcall[c].at = at
Step(c, at) == lcall' = [lcall EXCEPT ![c].at = at]
Held == \E c \in LCalls : LAt(c, "take") /\ lcall[c].bucket = current
Refuse(c) == lcall' = [lcall EXCEPT ![c] = LIdle]

-----------------------------------------------------------------------------
(* A request *)

\* Bug: the map in memory is the whole blocklist.
Arrive_MapOnly(c) ==
    /\ lcall[c] = LIdle
    /\ hits < MaxHits
    /\ hits' = hits + 1
    /\ ~blocked
    /\ lcall' = [lcall EXCEPT ![c] =
          [at |-> IF kind = "geo" THEN "limits" ELSE "bucket", limits |-> DefaultLimits,
           bucket |-> 0, late |-> shut]]
    /\ UNCHANGED <<kind, listed, admin, blocked, rule,
                   current, bucket, time, ideal, shut, loose>>

\* isBlocked looks in the map first: there the request ends.
Arrive(c) ==
    /\ lcall[c] = LIdle
    /\ hits < MaxHits
    /\ hits' = hits + 1
    /\ ~blocked
    /\ lcall' = [lcall EXCEPT ![c] =
          [at |-> IF kind = "geo" THEN "table" ELSE "bucket", limits |-> DefaultLimits,
           bucket |-> 0, late |-> shut]]
    /\ UNCHANGED <<kind, listed, admin, blocked, rule,
                   current, bucket, time, ideal, shut, loose>>

\* Then it looks in the table; a query that fails blocks nobody.
AskTable(c) ==
    /\ LAt(c, "table")
    /\ \/ IF rule.blocked THEN Refuse(c) ELSE Step(c, "limits")
       \/ LMayFail /\ Step(c, "limits")
    /\ UNCHANGED <<kind, listed, admin, blocked, rule,
                   current, bucket, time, ideal, shut, loose, hits>>

\* getLimits: a row that is not blocked and has an rps; or the defaults, also
\* when the query fails.
GetLimits(c) ==
    /\ LAt(c, "limits")
    /\ \/ lcall' = [lcall EXCEPT ![c].at = "bucket",
                                 ![c].limits = IF ~rule.blocked /\ rule.limits.rps > 0
                                               THEN rule.limits ELSE DefaultLimits]
       \/ LMayFail /\ Step(c, "bucket")
    /\ UNCHANGED <<kind, listed, admin, blocked, rule,
                   current, bucket, time, ideal, shut, loose, hits>>

\* The client's bucket, made full with the limits this request has found if
\* there is none; later limits do not change it.
GetLimiter(c) ==
    LET n == Cardinality(DOMAIN bucket) IN
    /\ LAt(c, "bucket")
    /\ IF current # 0
       THEN UNCHANGED <<bucket, current>>
       ELSE /\ n < MaxBuckets
            /\ bucket' = [b \in 1..(n + 1) |->
                   IF b <= n THEN bucket[b]
                   ELSE [tokens |-> lcall[c].limits.burst, limits |-> lcall[c].limits, idle |-> 0]]
            /\ current' = n + 1
    /\ lcall' = [lcall EXCEPT ![c].at = "take", ![c].bucket = current']
    /\ UNCHANGED <<kind, listed, admin, blocked, rule, time, ideal, shut, loose, hits>>

TakeToken(c) ==
    LET b == lcall[c].bucket IN
    /\ LAt(c, "take")
    /\ IF bucket[b].tokens < 1
       THEN bucket' = [bucket EXCEPT ![b].idle = 0] /\ UNCHANGED ideal
       ELSE /\ bucket' = [bucket EXCEPT ![b].tokens = @ - 1, ![b].idle = 0]
            /\ ideal' = ideal - 1
    /\ Refuse(c)
    /\ UNCHANGED <<kind, listed, admin, blocked, rule, current, time, shut, loose, hits>>

Allow(c) == GetLimiter(c) \/ TakeToken(c)

Request(c) == Arrive(c) \/ AskTable(c) \/ GetLimits(c) \/ Allow(c)

-----------------------------------------------------------------------------
(* Time and the cleanups *)

LimitsTick ==
    /\ time < MaxTime
    /\ time' = time + 1
    /\ bucket' = [b \in DOMAIN bucket |-> Refilled(b)]
    /\ ideal' = Least(ideal + DefaultLimits.rps, DefaultLimits.burst)
    /\ UNCHANGED <<kind, listed, admin, blocked, rule, current, lcall, shut, loose, hits>>

\* Bug: any bucket that has a token left is dropped.
CleanupPlain_NotEmpty ==
    /\ kind = "plain" /\ current # 0
    /\ bucket[current].tokens > 0
    /\ current' = 0
    /\ loose' = (loose \/ Held)
    /\ UNCHANGED <<kind, listed, admin, blocked, rule, bucket, lcall, time, ideal, shut, hits>>

\* cleanupRoutine drops full buckets.
CleanupPlain ==
    /\ kind = "plain" /\ current # 0
    /\ bucket[current].tokens = bucket[current].limits.burst
    /\ current' = 0
    /\ loose' = (loose \/ Held)
    /\ UNCHANGED <<kind, listed, admin, blocked, rule, bucket, lcall, time, ideal, shut, hits>>

\* Nobody sees to it that a bucket idle that long has regained its burst.
RegainsBurst == DefaultLimits.burst <= DefaultLimits.rps * (IdleTime + 1)

\* cleanup drops idle buckets, however empty.
CleanupGeo ==
    /\ kind = "geo" /\ current # 0
    /\ bucket[current].idle > IdleTime
    /\ current' = 0
    /\ loose' = \/ loose \/ Held
                \/ ~RegainsBurst /\ bucket[current].tokens < bucket[current].limits.burst
    /\ UNCHANGED <<kind, listed, admin, blocked, rule, bucket, lcall, time, ideal, shut, hits>>

-----------------------------------------------------------------------------
(* Administration of the geo limiter *)

\* The map first, without a lock.
BlockCountry(a) ==
    /\ kind = "geo"
    /\ admin[a] = "idle"
    /\ blocked' = TRUE
    /\ admin' = [admin EXCEPT ![a] = "block"]
    /\ UNCHANGED <<kind, listed, rule, current, bucket, lcall, time, ideal, shut, loose, hits>>

\* Then the row, which is made if there is none.  A request that came before
\* may still pass.
BlockRow(a) ==
    /\ admin[a] = "block"
    /\ admin' = [admin EXCEPT ![a] = "idle"]
    /\ \/ /\ rule' = [rule EXCEPT !.blocked = TRUE]
          /\ shut' = (shut \/ \A d \in Admins : admin[d] # "unblock")
       \/ LMayFail /\ UNCHANGED <<rule, shut>>
    /\ UNCHANGED <<kind, listed, blocked, current, bucket, lcall, time, ideal, loose, hits>>

UnblockCountry(a) ==
    /\ kind = "geo"
    /\ admin[a] = "idle"
    /\ blocked' = FALSE
    /\ admin' = [admin EXCEPT ![a] = "unblock"]
    /\ shut' = FALSE
    /\ lcall' = [c \in DOMAIN lcall |->
          IF lcall[c] = LIdle THEN LIdle ELSE [lcall[c] EXCEPT !.late = FALSE]]
    /\ UNCHANGED <<kind, listed, rule, current, bucket, time, ideal, loose, hits>>

UnblockRow(a) ==
    /\ admin[a] = "unblock"
    /\ admin' = [admin EXCEPT ![a] = "idle"]
    /\ \/ rule' = [rule EXCEPT !.blocked = FALSE]
       \/ LMayFail /\ UNCHANGED rule
    /\ UNCHANGED <<kind, listed, blocked,
                   current, bucket, lcall, time, ideal, shut, loose, hits>>

AdminCall(a) == BlockCountry(a) \/ BlockRow(a) \/ UnblockCountry(a) \/ UnblockRow(a)

\* A row there is keeps its is_blocked.
SetCountryLimits(limits) ==
    /\ kind = "geo"
    /\ rule' = [rule EXCEPT !.limits = limits]
    /\ loose' = TRUE
    /\ UNCHANGED <<kind, listed, admin, blocked,
                   current, bucket, lcall, time, ideal, shut, hits>>

\* The process restarts: New builds the map from the configuration alone.
RestartLimits ==
    /\ kind = "geo"
    /\ blocked' = listed
    /\ current' = 0
    /\ bucket' = <<>>
    /\ lcall' = [c \in DOMAIN lcall |-> LIdle]
    /\ admin' = [a \in DOMAIN admin |-> "idle"]
    /\ ideal' = DefaultLimits.burst
    /\ UNCHANGED <<kind, listed, rule, time, shut, loose, hits>>

LimitsNext ==
    \/ LimitsTick \/ CleanupPlain \/ CleanupGeo
    \/ RestartLimits
    \/ \E a \in Admins : AdminCall(a)
    \/ \E limits \in OtherLimits : SetCountryLimits(limits)
    \/ \E c \in LCalls : Request(c)

LimitsSpec == LimitsInit /\ [][LimitsNext]_limitVars

-----------------------------------------------------------------------------
(* Properties *)

(* The buckets that come and go let a client do what one bucket that was    *)
(* never dropped would: no more than burst, plus rps as time passes.  Only  *)
(* when a cleanup drops the bucket a request has just looked up, the limits *)
(* change, or the geo limiter's cleanup drops a bucket that is not full,    *)
(* which takes limits too slow to regain the burst in IdleTime, is there    *)
(* more to take (getLimiter, Allow, cleanupRoutine; allow, cleanup).        *)
NoOverdraft == loose \/ ideal >= 0

(* From when a BlockCountry has returned, with no UnblockCountry under way, *)
(* until an UnblockCountry is called, no request of the country gets to a   *)
(* bucket, whether its limits are changed, other calls block it again or    *)
(* the process restarts (isBlocked, BlockCountry).  One under way may still *)
(* write its row, and then only the map keeps the country out.              *)
ShutIsShut == \A c \in LCalls : lcall[c].at \in {"limits", "bucket", "take"} => ~lcall[c].late
=============================================================================
