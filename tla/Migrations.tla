----------------------------- MODULE Migrations -----------------------------
(***************************************************************************)
(* Schema migrations: internal/migrations/migrations.go.  Each migration   *)
(* and its row of schema_migrations are applied, or rolled back, in one    *)
(* transaction; which ones are, is decided before from the highest version *)
(* in the table.                                                           *)
(*                                                                         *)
(* A process is a Manager with a list of its own; several may work on one  *)
(* database (the daemon, and the daemon run with -migrate).  Of the list   *)
(* the model keeps the order it is in, for that is all the calls change.   *)
(* broken are the versions whose statements this database refuses: SQLite  *)
(* refuses those with ADD COLUMN IF NOT EXISTS.                            *)
(***************************************************************************)
EXTENDS Integers, Sequences, FiniteSets, SequencesExt, FiniteSetsExt

CONSTANTS
    Versions,    \* the versions registered, in this order, each once
    Managers,    \* processes
    GMayFail,    \* whether a transaction may fail for another reason
    MaxCalls     \* bound on the number of calls ever made

ASSUME MigrationsConstantsOK ==
    /\ Versions \in Seq(Nat \ {0}) /\ Versions # <<>>
    /\ \A i, j \in 1..Len(Versions) : Versions[i] = Versions[j] => i = j
    /\ GMayFail \in BOOLEAN
    /\ MaxCalls \in Nat

Numbers == ToSet(Versions)

VARIABLES
    applied,   \* the rows of schema_migrations, and the schema they stand for
    broken,    \* versions that cannot be applied
    list,      \* list[m]: how m.migrations of manager m is ordered
    plan,      \* what is left of the loop of each manager
    jumped,    \* a MigrateTo has ended with an error; read by no action
    complete,  \* complete[m]: Migrate has just returned without one; likewise
    calls      \* calls made so far

migrationVars == <<applied, broken, list, plan, jumped, complete, calls>>

GIdle == [op |-> "none"]

Orders == {"registered", "ascending", "descending"}

PlanState ==
    [op : {"migrate", "up", "down", "rollback"}, todo : (SUBSET Numbers) \ {{}}]

(* The one type invariant.                                                 *)
MigrationsTypeOK ==
    /\ applied \subseteq Numbers
    /\ broken \subseteq Numbers
    /\ list \in [Managers -> Orders]
    /\ plan \in [Managers -> PlanState \cup {GIdle}]
    /\ jumped \in BOOLEAN
    /\ complete \in [Managers -> BOOLEAN]
    /\ calls \in Nat

MigrationsInit ==
    /\ applied = {}
    /\ broken \in SUBSET Numbers
    /\ list = [m \in Managers |-> "registered"]
    /\ plan = [m \in Managers |-> GIdle]
    /\ jumped = FALSE
    /\ complete = [m \in Managers |-> FALSE]
    /\ calls = 0

-----------------------------------------------------------------------------
(* Helpers *)

CurrentVersion == Max(applied \cup {0})

\* Whether u comes before v in a list in that order.
Comes(order, u, v) ==
    CASE order = "ascending" -> u < v
      [] order = "descending" -> u > v
      [] order = "registered" ->
            \E i, j \in 1..Len(Versions) : i < j /\ Versions[i] = u /\ Versions[j] = v

\* The loop of manager m is at version v.
IsNext(m, v) ==
    v \in plan[m].todo /\ \A u \in plan[m].todo \ {v} : Comes(list[m], v, u)

Between(low, high) == {v \in Numbers : low < v /\ v <= high}

\* Manager m begins a call whose loop is over todo, in the order of the list.
Begin(m, op, order, todo) ==
    /\ plan[m] = GIdle
    /\ calls < MaxCalls
    /\ calls' = calls + 1
    /\ list' = [list EXCEPT ![m] = order]
    /\ plan' = [plan EXCEPT ![m] = IF todo = {} THEN GIdle ELSE [op |-> op, todo |-> todo]]
    /\ complete' = [complete EXCEPT ![m] = op = "migrate" /\ todo = {}]

-----------------------------------------------------------------------------
\* Bug: the pending migrations are not sorted.
Migrate_Unsorted(m) ==
    /\ Begin(m, "migrate", list[m], {v \in Numbers : v > CurrentVersion})
    /\ UNCHANGED <<applied, broken, jumped>>

\* Pending sorts the list; what is at most the current version is not pending.
Migrate(m) ==
    /\ Begin(m, "migrate", "ascending", {v \in Numbers : v > CurrentVersion})
    /\ UNCHANGED <<applied, broken, jumped>>

\* GetStatus sorts the list too, and changes nothing else.
GetStatus(m) ==
    /\ plan[m] = GIdle
    /\ list' = [list EXCEPT ![m] = "ascending"]
    /\ UNCHANGED <<applied, broken, plan, jumped, complete, calls>>

\* Up, in whatever order the list is; down, highest first.
MigrateTo(m, target) ==
    /\ target # CurrentVersion
    /\ IF target > CurrentVersion
       THEN Begin(m, "up", list[m], Between(CurrentVersion, target))
       ELSE Begin(m, "down", "descending", Between(target, CurrentVersion))
    /\ UNCHANGED <<applied, broken, jumped>>

Rollback(m) ==
    /\ CurrentVersion # 0
    /\ Begin(m, "rollback", list[m], {CurrentVersion})
    /\ UNCHANGED <<applied, broken, jumped>>

\* The version's own transaction is over, with or without an error; an error
\* ends the loop.
EndOne(m, v, ok) ==
    LET rest == plan[m].todo \ {v} IN
    /\ plan' = [plan EXCEPT ![m] = IF ok /\ rest # {} THEN [@ EXCEPT !.todo = rest] ELSE GIdle]
    /\ jumped' = (jumped \/ (~ok /\ plan[m].op \in {"up", "down"}))
    /\ complete' = [complete EXCEPT ![m] = ok /\ rest = {} /\ plan[m].op = "migrate"]
    /\ UNCHANGED <<broken, list, calls>>

\* version is the PRIMARY KEY: what another process has applied is refused.
ApplyMigration(m, v) ==
    /\ plan[m].op \in {"migrate", "up"}
    /\ IsNext(m, v)
    /\ \/ /\ v \notin broken \cup applied
          /\ applied' = applied \cup {v}
          /\ EndOne(m, v, TRUE)
       \/ /\ v \in broken \cup applied \/ GMayFail
          /\ EndOne(m, v, FALSE)
          /\ UNCHANGED applied

\* A row that is gone already is no error.
RollbackMigration(m, v) ==
    /\ plan[m].op \in {"down", "rollback"}
    /\ IsNext(m, v)
    /\ \/ /\ applied' = applied \ {v}
          /\ EndOne(m, v, TRUE)
       \/ /\ GMayFail
          /\ EndOne(m, v, FALSE)
          /\ UNCHANGED applied

\* The process dies between two transactions, and another takes its place.
MigratorDies(m) ==
    /\ GMayFail
    /\ plan[m] # GIdle
    /\ plan' = [plan EXCEPT ![m] = GIdle]
    /\ list' = [list EXCEPT ![m] = "registered"]
    /\ jumped' = (jumped \/ plan[m].op \in {"up", "down"})
    /\ UNCHANGED <<applied, broken, complete, calls>>

MigrationsNext ==
    \E m \in Managers :
        \/ Migrate(m) \/ GetStatus(m) \/ Rollback(m)
        \/ \E target \in Numbers \cup {0} : MigrateTo(m, target)
        \/ \E v \in Numbers : ApplyMigration(m, v) \/ RollbackMigration(m, v)
        \/ MigratorDies(m)

MigrationsSpec == MigrationsInit /\ [][MigrationsNext]_migrationVars

-----------------------------------------------------------------------------
(* Properties *)

(* No version is applied while a lower one is not, broken versions and      *)
(* failing transactions included, as long as no MigrateTo has failed: after *)
(* one, which goes through the list in the order a call before has left it  *)
(* in, Migrate never comes back to what was left out (Pending, MigrateTo).  *)
NoGap ==
    (~jumped /\ \A m \in Managers : plan[m] = GIdle) =>
        \A v \in applied : \A u \in Numbers : u <= v => u \in applied

(* When Migrate has returned without an error every version is applied,     *)
(* unless one was left out before (Migrate).                                *)
MigrateCompletes ==
    \A m \in Managers :
        complete[m] /\ plan[m] = GIdle => CurrentVersion = Max(Numbers)
=============================================================================
