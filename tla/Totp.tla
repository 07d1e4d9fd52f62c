-------------------------------- MODULE Totp --------------------------------
(***************************************************************************)
(* Two-factor authentication of one user: internal/totp/totp.go on the     *)
(* user's row of users and rows of backup_codes.  Users share neither.     *)
(*                                                                         *)
(* Secrets and backup codes are numbered as they are generated; a code is  *)
(* valid for a secret, or not: the hash and the clock window are left out. *)
(***************************************************************************)
EXTENDS Integers, FiniteSets

CONSTANTS
    TCalls,      \* requests that may be running at the same time
    CodeCount,   \* BackupCodeCount
    TMayFail,    \* whether a statement may fail
    MaxSecrets,  \* bound on the secrets ever generated
    MaxCodes,    \* bound on the backup codes ever generated
    MaxVisits    \* bound on the requests ever made

ASSUME TotpConstantsOK ==
    /\ TMayFail \in BOOLEAN
    /\ CodeCount \in Nat \ {0}
    /\ {MaxSecrets, MaxCodes, MaxVisits} \subseteq Nat

VARIABLES
    secret,    \* users.totp_secret, 0 for NULL
    enabled,   \* users.totp_enabled
    codes,     \* ids of the rows of backup_codes
    usedCodes, \* those of them with a used_at
    tcall,     \* the requests in flight
    secrets,   \* secrets generated so far
    made,      \* backup codes generated so far
    spent,     \* spent[b]: times code b was accepted; read by no action
    visits     \* requests made so far

totpVars == <<secret, enabled, codes, usedCodes, tcall, secrets, made, spent, visits>>

Purposes == {"login", "disable", "regenerate"}

TCallState ==
    [at : {"enable", "lookup", "mark", "disable", "wipe", "fill", "erase"},
     purpose : Purposes, code : 0..MaxCodes, left : 0..CodeCount]

TIdle == [at |-> "idle"]

(* The one type invariant.                                                 *)
TotpTypeOK ==
    /\ secret \in 0..MaxSecrets
    /\ enabled \in BOOLEAN
    /\ usedCodes \subseteq codes
    /\ codes \subseteq 1..made
    /\ made \in 0..MaxCodes
    /\ tcall \in [TCalls -> TCallState \cup {TIdle}]
    /\ secrets \in 0..MaxSecrets
    /\ spent \in [1..MaxCodes -> Nat]
    /\ visits \in Nat

TotpInit ==
    /\ secret = 0
    /\ enabled = FALSE
    /\ codes = {}
    /\ usedCodes = {}
    /\ tcall = [c \in TCalls |-> TIdle]
    /\ secrets = 0
    /\ made = 0
    /\ spent = [b \in 1..MaxCodes |-> 0]
    /\ visits = 0

-----------------------------------------------------------------------------
(* Helpers *)

Unused == codes \ usedCodes

Visit(c) ==
    /\ tcall[c] = TIdle
    /\ visits < MaxVisits
    /\ visits' = visits + 1

Stand(c, at, purpose, code) ==
    tcall' = [tcall EXCEPT ![c] =
        [at |-> at, purpose |-> purpose, code |-> code, left |-> 0]]

Leave(c) == tcall' = [tcall EXCEPT ![c] = TIdle]

\* ValidateLogin has returned nil to Disable, RegenerateBackupCodes or a login.
Admitted(c, purpose) ==
    CASE purpose = "login" -> Leave(c)
      [] purpose = "disable" -> Stand(c, "disable", purpose, 0)
      [] purpose = "regenerate" -> Stand(c, "wipe", purpose, 0)

-----------------------------------------------------------------------------
(* Setup replaces the secret whether or not the old one is in force. *)
Setup(c) ==
    /\ Visit(c)
    /\ secrets < MaxSecrets
    /\ secrets' = secrets + 1
    /\ secret' = secrets'
    /\ Stand(c, "wipe", "login", 0)
    /\ UNCHANGED <<enabled, codes, usedCodes, made, spent>>

\* generateBackupCodes: a DELETE, then one INSERT for each code.
WipeCodes(c) ==
    /\ tcall[c].at = "wipe"
    /\ codes' = {}
    /\ usedCodes' = {}
    /\ tcall' = [tcall EXCEPT ![c].at = "fill", ![c].left = CodeCount]
    /\ UNCHANGED <<secret, enabled, secrets, made, spent, visits>>

AddCode(c) ==
    /\ tcall[c].at = "fill"
    /\ made < MaxCodes
    /\ made' = made + 1
    /\ codes' = codes \cup {made'}
    /\ IF tcall[c].left = 1 THEN Leave(c) ELSE tcall' = [tcall EXCEPT ![c].left = @ - 1]
    /\ UNCHANGED <<secret, enabled, usedCodes, secrets, spent, visits>>

\* Bug: Verify also writes the flag for a user without a secret.
VerifyRead_Unset(c) ==
    /\ Visit(c)
    /\ IF enabled THEN Leave(c) ELSE Stand(c, "enable", "login", 0)
    /\ UNCHANGED <<secret, enabled, codes, usedCodes, secrets, made, spent>>

\* The code is checked against the secret read, in memory.
VerifyRead(c) ==
    /\ Visit(c)
    /\ secret # 0
    /\ IF enabled THEN Leave(c) ELSE Stand(c, "enable", "login", 0)
    /\ UNCHANGED <<secret, enabled, codes, usedCodes, secrets, made, spent>>

VerifyWrite(c) ==
    /\ tcall[c].at = "enable"
    /\ enabled' = TRUE
    /\ Leave(c)
    /\ UNCHANGED <<secret, codes, usedCodes, secrets, made, spent, visits>>

-----------------------------------------------------------------------------
(* ValidateLogin, with a code of the secret or with a backup code *)

LoginWithSecret(c, purpose) ==
    /\ Visit(c)
    /\ enabled /\ secret # 0
    /\ Admitted(c, purpose)
    /\ UNCHANGED <<secret, enabled, codes, usedCodes, secrets, made, spent>>

LoginWithBackup(c, purpose, b) ==
    /\ Visit(c)
    /\ enabled /\ secret # 0
    /\ Stand(c, "lookup", purpose, b)
    /\ UNCHANGED <<secret, enabled, codes, usedCodes, secrets, made, spent>>

UseBackupRead(c) ==
    LET b == tcall[c].code IN
    /\ tcall[c].at = "lookup"
    /\ IF b \in Unused THEN Stand(c, "mark", tcall[c].purpose, b) ELSE Leave(c)
    /\ UNCHANGED <<secret, enabled, codes, usedCodes, secrets, made, spent, visits>>

\* Bug: the row is not marked.
UseBackupMark_Forgotten(c) ==
    LET b == tcall[c].code IN
    /\ tcall[c].at = "mark"
    /\ spent' = [spent EXCEPT ![b] = @ + 1]
    /\ Admitted(c, tcall[c].purpose)
    /\ UNCHANGED <<secret, enabled, codes, usedCodes, secrets, made, visits>>

\* The UPDATE names the row only: it was perhaps marked or deleted since.
UseBackupMark(c) ==
    LET b == tcall[c].code IN
    /\ tcall[c].at = "mark"
    /\ usedCodes' = usedCodes \cup ({b} \cap codes)
    /\ spent' = [spent EXCEPT ![b] = @ + 1]
    /\ Admitted(c, tcall[c].purpose)
    /\ UNCHANGED <<secret, enabled, codes, secrets, made, visits>>

DisableRow(c) ==
    /\ tcall[c].at = "disable"
    /\ enabled' = FALSE
    /\ secret' = 0
    /\ tcall' = [tcall EXCEPT ![c].at = "erase"]
    /\ UNCHANGED <<codes, usedCodes, secrets, made, spent, visits>>

DisableErase(c) ==
    /\ tcall[c].at = "erase"
    /\ codes' = {}
    /\ usedCodes' = {}
    /\ Leave(c)
    /\ UNCHANGED <<secret, enabled, secrets, made, spent, visits>>

\* A statement fails.  SQLite may refuse the UPDATE of useBackupCode, whose
\* query is still open on another connection.
TotpFails(c) ==
    /\ TMayFail
    /\ tcall[c] # TIdle
    /\ Leave(c)
    /\ UNCHANGED <<secret, enabled, codes, usedCodes, secrets, made, spent, visits>>

SetUp(c) == Setup(c) \/ WipeCodes(c) \/ AddCode(c)

Verify(c) == VerifyRead(c) \/ VerifyWrite(c)

ValidateLogin(c) ==
    \/ \E p \in Purposes : LoginWithSecret(c, p) \/ \E b \in 1..made : LoginWithBackup(c, p, b)
    \/ UseBackupRead(c)
    \/ UseBackupMark(c)

Disable(c) == DisableRow(c) \/ DisableErase(c)

TotpNext == \E c \in TCalls : SetUp(c) \/ Verify(c) \/ ValidateLogin(c) \/ Disable(c) \/ TotpFails(c)

TotpSpec == TotpInit /\ [][TotpNext]_totpVars

-----------------------------------------------------------------------------
(* Properties *)

(* However requests interleave and fail, a backup code that was accepted is *)
(* marked or gone: no later login finds it (useBackupCode).                 *)
SpentIsGone == \A b \in 1..MaxCodes : spent[b] > 0 => b \notin Unused

(* A backup code is accepted once (useBackupCode looks it up and marks it   *)
(* in two statements).                                                      *)
CodesWorkOnce == \A b \in 1..MaxCodes : spent[b] <= 1

(* A user for whom a second factor is enabled has a secret: without one     *)
(* ValidateLogin admits nobody and Disable fails (Verify, Disable).         *)
EnabledHasSecret == enabled => secret # 0

(* Once Disable has returned no backup code is left, and a user never has   *)
(* more than BackupCodeCount of them.                                       *)
CodesMatchSecret ==
    /\ Cardinality(codes) <= CodeCount
    /\ (\A c \in TCalls : tcall[c] = TIdle) /\ secret = 0 => codes = {}
=============================================================================
