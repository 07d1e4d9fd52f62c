------------------------------ MODULE Accounts ------------------------------
(***************************************************************************)
(* User accounts: internal/users (administration), internal/registration   *)
(* (self-registration and e-mail verification) and internal/reset (password *)
(* reset).  All three write the table users with separate statements on a   *)
(* shared database; only VerifyEmail and ResetPassword end in a            *)
(* transaction.                                                            *)
(*                                                                         *)
(* Rows are numbered in the order they are inserted and a number is never  *)
(* used again.  The inputs are those the validators accept, and            *)
(* registration requires an address, as the daemon configures it.          *)
(***************************************************************************)
EXTENDS Integers, Sequences, FiniteSets, FiniteSetsExt

CONSTANTS
    Names,                \* usernames
    Emails,               \* addresses
    NoEmail,              \* no address, or the "" DeleteUser writes
    Chosen,               \* any password that no reset token set
    RequireVerification,  \* registration.Config
    Interval,             \* reset.MinRequestInterval
    Expiration,           \* how long a reset token is good
    LinkExpiration,       \* registration.TokenExpiration
    Grace,                \* how long after that a Cleanup keeps the row
    ACalls,               \* calls that may be running at the same time
    AMayFail,             \* whether a statement may fail
    MaxRows,              \* bound on the rows of each table
    MaxRequests,          \* bound on the number of calls ever started
    Horizon               \* bound on the clock

ASSUME AccountsConstantsOK ==
    /\ NoEmail \notin Emails
    /\ RequireVerification \in BOOLEAN
    /\ AMayFail \in BOOLEAN
    /\ {Interval, Expiration, LinkExpiration, Grace, MaxRows, MaxRequests, Horizon} \subseteq Nat
    /\ MaxRows # 0
    /\ Chosen \notin 1..MaxRows

Rows == 1..MaxRows

VARIABLES
    users,        \* rows of users
    resetTokens,  \* rows of password_reset_tokens
    links,        \* rows of email_verifications
    acall,        \* the calls in flight
    clock,        \* the time
    resets,       \* resets[t]: passwords set with token t; read by no action
    welcomes,     \* welcomes[v]: accounts activated with link v; likewise
    requests      \* calls started so far

accountVars == <<users, resetTokens, links, acall, clock, resets, welcomes, requests>>

UserRow ==
    [name : Names, email : Emails \cup {NoEmail}, active : BOOLEAN,
     password : Rows \cup {Chosen}]

TokenRow == [user : Rows, created : Nat, used : BOOLEAN, kept : BOOLEAN]

ACallState ==
    [at : {"create", "email", "enroll", "link", "activate", "limit", "issue", "reset"},
     name : Names \cup {NoEmail}, email : Emails \cup {NoEmail}, row : Rows]

AIdle == [at |-> "idle"]

(* The one type invariant.                                                 *)
AccountsTypeOK ==
    /\ users \in Seq(UserRow) /\ Len(users) <= MaxRows
    /\ resetTokens \in Seq(TokenRow) /\ Len(resetTokens) <= MaxRows
    /\ links \in Seq(TokenRow) /\ Len(links) <= MaxRows
    /\ acall \in [ACalls -> ACallState \cup {AIdle}]
    /\ {clock, requests} \subseteq Nat
    /\ resets \in [Rows -> Nat]
    /\ welcomes \in [Rows -> Nat]

AccountsInit ==
    /\ users = <<>>
    /\ resetTokens = <<>>
    /\ links = <<>>
    /\ acall = [c \in ACalls |-> AIdle]
    /\ clock = 0
    /\ resets = [t \in Rows |-> 0]
    /\ welcomes = [v \in Rows |-> 0]
    /\ requests = 0

-----------------------------------------------------------------------------
(* Helpers *)

NameTaken(n) == \E u \in DOMAIN users : users[u].name = n
EmailTaken(e) == \E u \in DOMAIN users : users[u].email = e

\* validateUsername, validateEmail and the other tests of the input let it
\* pass: a call starts, and stands before the statement "at".
Started(c, at, n, e, r) ==
    /\ acall[c] = AIdle
    /\ requests < MaxRequests
    /\ requests' = requests + 1
    /\ acall' = [acall EXCEPT ![c] = [at |-> at, name |-> n, email |-> e, row |-> r]]

At(c, at) == acall[c].at = at
Proceed(c, at) == acall' = [acall EXCEPT ![c].at = at]
Reply(c) == acall' = [acall EXCEPT ![c] = AIdle]

Fresh(u, now) == [user |-> u, created |-> now, used |-> FALSE, kept |-> TRUE]

\* Neither used nor expired; the comparison of the code is strict.
Good(row, life) == row.kept /\ ~row.used /\ clock <= row.created + life

-----------------------------------------------------------------------------
(* Users.CreateUser: the UNIQUE username decides between two of them *)

CreateCheck(c, n, e) ==
    /\ ~NameTaken(n)
    /\ Started(c, "create", n, e, 1)
    /\ UNCHANGED <<users, resetTokens, links, clock, resets, welcomes>>

InsertUser(c, active) ==
    users' = Append(users, [name |-> acall[c].name, email |-> acall[c].email,
                            active |-> active, password |-> Chosen])

CreateInsert(c) ==
    /\ At(c, "create")
    /\ Len(users) < MaxRows
    /\ IF NameTaken(acall[c].name) THEN UNCHANGED users ELSE InsertUser(c, TRUE)
    /\ Reply(c)
    /\ UNCHANGED <<resetTokens, links, clock, resets, welcomes, requests>>

\* UpdateUser writes every column it is given; no other row is looked at.
UpdateUser(u, e, active) ==
    /\ requests < MaxRequests
    /\ requests' = requests + 1
    /\ users' = [users EXCEPT ![u].email = e, ![u].active = active]
    /\ UNCHANGED <<resetTokens, links, acall, clock, resets, welcomes>>

DeleteUser(u) == UpdateUser(u, NoEmail, FALSE)

UpdatePassword(u) ==
    /\ users' = [users EXCEPT ![u].password = Chosen]
    /\ UNCHANGED <<resetTokens, links, acall, clock, resets, welcomes, requests>>

-----------------------------------------------------------------------------
(* Registration *)

RegisterCheckName(c, n, e) ==
    /\ ~NameTaken(n)
    /\ Started(c, "email", n, e, 1)
    /\ UNCHANGED <<users, resetTokens, links, clock, resets, welcomes>>

RegisterCheckEmail(c) ==
    /\ At(c, "email")
    /\ IF EmailTaken(acall[c].email) THEN Reply(c) ELSE Proceed(c, "enroll")
    /\ UNCHANGED <<users, resetTokens, links, clock, resets, welcomes, requests>>

RegisterInsert(c) ==
    /\ At(c, "enroll")
    /\ Len(users) < MaxRows
    /\ IF NameTaken(acall[c].name)
       THEN UNCHANGED users /\ Reply(c)
       ELSE /\ InsertUser(c, ~RequireVerification)
            /\ IF RequireVerification
               THEN acall' = [acall EXCEPT ![c].at = "link", ![c].row = Len(users) + 1]
               ELSE Reply(c)
    /\ UNCHANGED <<resetTokens, links, clock, resets, welcomes, requests>>

\* createVerificationToken
SendLink(c) ==
    /\ At(c, "link")
    /\ Len(links) < MaxRows
    /\ links' = Append(links, Fresh(acall[c].row, clock))
    /\ Reply(c)
    /\ UNCHANGED <<users, resetTokens, clock, resets, welcomes, requests>>

\* Of several users with one address the query returns any.
ResendVerification(c, u) ==
    /\ users[u].email # NoEmail
    /\ ~users[u].active
    /\ Started(c, "link", NoEmail, NoEmail, u)
    /\ UNCHANGED <<users, resetTokens, links, clock, resets, welcomes>>

VerifyEmailRead(c, v) ==
    /\ Good(links[v], LinkExpiration)
    /\ Started(c, "activate", NoEmail, NoEmail, v)
    /\ UNCHANGED <<users, resetTokens, links, clock, resets, welcomes>>

\* Whatever the user's state is by now.
VerifyEmailWrite(c) ==
    LET v == acall[c].row IN
    /\ At(c, "activate")
    /\ links' = [links EXCEPT ![v].used = TRUE]
    /\ users' = [users EXCEPT ![links[v].user].active = TRUE]
    /\ welcomes' = [welcomes EXCEPT ![v] = @ + 1]
    /\ Reply(c)
    /\ UNCHANGED <<resetTokens, clock, resets, requests>>

\* Links are kept though they were used.
CleanupLinks ==
    /\ links' = [v \in DOMAIN links |->
          [links[v] EXCEPT !.kept = @ /\ clock <= links[v].created + LinkExpiration + Grace]]
    /\ UNCHANGED <<users, resetTokens, acall, clock, resets, welcomes, requests>>

-----------------------------------------------------------------------------
(* Password reset *)

RequestFindUser(c, u) ==
    /\ users[u].active
    /\ users[u].email # NoEmail
    /\ Started(c, "limit", NoEmail, NoEmail, u)
    /\ UNCHANGED <<users, resetTokens, links, clock, resets, welcomes>>

Requested(u) ==
    {resetTokens[t].created :
        t \in {t \in DOMAIN resetTokens : resetTokens[t].kept /\ resetTokens[t].user = u}}

\* Bug: only the unused tokens are looked at.
RequestLimit_UnusedOnly(c) ==
    LET open == {t \in DOMAIN resetTokens :
                    Good(resetTokens[t], Expiration) /\ resetTokens[t].user = acall[c].row} IN
    /\ At(c, "limit")
    /\ IF \E t \in open : clock - resetTokens[t].created < Interval
       THEN Reply(c)
       ELSE Proceed(c, "issue")
    /\ UNCHANGED <<users, resetTokens, links, clock, resets, welcomes, requests>>

RequestLimit(c) ==
    LET asked == Requested(acall[c].row) IN
    /\ At(c, "limit")
    /\ IF asked # {} /\ clock - Max(asked) < Interval
       THEN Reply(c)
       ELSE Proceed(c, "issue")
    /\ UNCHANGED <<users, resetTokens, links, clock, resets, welcomes, requests>>

RequestIssue(c) ==
    /\ At(c, "issue")
    /\ Len(resetTokens) < MaxRows
    /\ resetTokens' = Append(resetTokens, Fresh(acall[c].row, clock))
    /\ Reply(c)
    /\ UNCHANGED <<users, links, clock, resets, welcomes, requests>>

ValidateToken(c, t) ==
    /\ Good(resetTokens[t], Expiration)
    /\ Started(c, "reset", NoEmail, NoEmail, t)
    /\ UNCHANGED <<users, resetTokens, links, clock, resets, welcomes>>

\* Bug: only the token presented is marked.
ResetPasswordWrite_OneToken(c) ==
    LET t == acall[c].row
        u == resetTokens[t].user IN
    /\ At(c, "reset")
    /\ users' = [users EXCEPT ![u].password = t]
    /\ resetTokens' = [resetTokens EXCEPT ![t].used = TRUE]
    /\ resets' = [resets EXCEPT ![t] = @ + 1]
    /\ Reply(c)
    /\ UNCHANGED <<links, clock, welcomes, requests>>

\* One transaction; the token's own row is marked though it was used before.
ResetPasswordWrite(c) ==
    LET t == acall[c].row
        u == resetTokens[t].user IN
    /\ At(c, "reset")
    /\ users' = [users EXCEPT ![u].password = t]
    /\ resetTokens' = [s \in DOMAIN resetTokens |->
          [resetTokens[s] EXCEPT !.used = @ \/ resetTokens[s].user = u]]
    /\ resets' = [resets EXCEPT ![t] = @ + 1]
    /\ Reply(c)
    /\ UNCHANGED <<links, clock, welcomes, requests>>

CleanupTokens ==
    /\ resetTokens' = [t \in DOMAIN resetTokens |->
          [resetTokens[t] EXCEPT
              !.kept = @ /\ ~resetTokens[t].used
                         /\ clock <= resetTokens[t].created + Expiration + Grace]]
    /\ UNCHANGED <<users, links, acall, clock, resets, welcomes, requests>>

-----------------------------------------------------------------------------
AccountsTick ==
    /\ clock < Horizon
    /\ clock' = clock + 1
    /\ UNCHANGED <<users, resetTokens, links, acall, resets, welcomes, requests>>

\* A statement or a transaction fails: the call returns what it has not done.
AccountsFail(c) ==
    /\ AMayFail
    /\ acall[c] # AIdle
    /\ Reply(c)
    /\ UNCHANGED <<users, resetTokens, links, clock, resets, welcomes, requests>>

CreateUser(c) ==
    \/ \E n \in Names, e \in Emails \cup {NoEmail} : CreateCheck(c, n, e)
    \/ CreateInsert(c)

Register(c) ==
    \/ \E n \in Names, e \in Emails : RegisterCheckName(c, n, e)
    \/ RegisterCheckEmail(c)
    \/ RegisterInsert(c)
    \/ SendLink(c)

VerifyEmail(c) == (\E v \in DOMAIN links : VerifyEmailRead(c, v)) \/ VerifyEmailWrite(c)

CreateToken(c) ==
    \/ \E u \in DOMAIN users : RequestFindUser(c, u)
    \/ RequestLimit(c)
    \/ RequestIssue(c)

ResetPassword(c) ==
    \/ \E t \in DOMAIN resetTokens : ValidateToken(c, t)
    \/ ResetPasswordWrite(c)

Administer(u) ==
    \/ \E e \in Emails, active \in BOOLEAN : UpdateUser(u, e, active)
    \/ DeleteUser(u)
    \/ UpdatePassword(u)

AccountsNext ==
    \/ AccountsTick \/ CleanupLinks \/ CleanupTokens
    \/ \E u \in DOMAIN users : Administer(u)
    \/ \E c \in ACalls :
          \/ CreateUser(c) \/ Register(c) \/ VerifyEmail(c) \/ CreateToken(c)
          \/ ResetPassword(c) \/ AccountsFail(c)
          \/ \E u \in DOMAIN users : ResendVerification(c, u)

AccountsSpec == AccountsInit /\ [][AccountsNext]_accountVars

-----------------------------------------------------------------------------
(* Properties *)

(* A reset token sets at most one password, and a link activates at most    *)
(* one account (ValidateToken and VerifyEmail test used_at and verified_at  *)
(* before the transaction that writes them).                                *)
TokensWorkOnce == \A t \in Rows : resets[t] <= 1 /\ welcomes[t] <= 1

(* A user gets reset tokens no closer together than MinRequestInterval, as  *)
(* long as Cleanup leaves their rows in the table.                          *)
RequestsApart ==
    \A s, t \in DOMAIN resetTokens :
        (/\ s < t /\ resetTokens[s].kept /\ resetTokens[t].kept
         /\ resetTokens[s].user = resetTokens[t].user)
        => resetTokens[t].created - resetTokens[s].created >= Interval

(* Once a token has set a user's password, no token the user asked for      *)
(* before sets it again: only later ones are still open (ResetPassword).    *)
ResetClosesOthers ==
    \A t \in DOMAIN resetTokens :
        resets[t] > 0 =>
            \A s \in DOMAIN resetTokens :
                (resetTokens[s].user = resetTokens[t].user /\ s <= t) => resetTokens[s].used
=============================================================================
