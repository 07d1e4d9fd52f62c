------------------------------ MODULE MCDaemon ------------------------------
(* The managers of the daemon that share its database but no row that        *)
(* matters to another: accounts, two-factor authentication, API keys,        *)
(* webhooks, request limits and migrations.  One run checks them all: part   *)
(* tells which of them runs, and alone whether its calls come one at a time, *)
(* but for keys and limits, and, but for migrations, without failing         *)
(* statements.                                                               *)
EXTENDS Accounts, Totp, ApiKeys, Webhooks, Limits, Migrations

CONSTANTS c1, m1, MoreRequests, MoreVisits

MCScopeLists == {                                   \* as a user writes them:
    {},
    {{}},                                           \* ","
    {{<<"tx", "*">>}},                              \* "tx:*"
    {{<<"tx", "send">>}, {}},                       \* "tx:send", ""
    {{<<"nft", "send">>, Everything}}}              \* "nft:send,*"
MCDefault == [rps |-> 1, burst |-> 2]
MCOther == {[rps |-> 1, burst |-> 1]}
MCVersions == <<1, 2, 3>>

VARIABLES part, alone

AloneAccounts == INSTANCE Accounts WITH
    ACalls <- {c1}, AMayFail <- FALSE, MaxRequests <- MoreRequests
AloneTotp == INSTANCE Totp WITH
    TCalls <- {c1}, TMayFail <- FALSE, MaxVisits <- MoreVisits
AloneKeys == INSTANCE ApiKeys WITH KMayFail <- FALSE
AloneLimits == INSTANCE Limits WITH LMayFail <- FALSE, IdleTime <- 0
AloneMigrations == INSTANCE Migrations WITH Managers <- {m1}

daemonVars == <<accountVars, totpVars, keyVars, webhookVars, limitVars, migrationVars,
                part, alone>>

DaemonInit ==
    /\ AccountsInit /\ TotpInit /\ ApiKeysInit
    /\ WebhooksInit /\ LimitsInit /\ MigrationsInit
    /\ part \in {"accounts", "totp", "keys", "webhooks", "limits", "migrations"}
    /\ alone \in {FALSE, part # "webhooks"}
    \* What only another part would read takes one value.
    /\ part # "limits" => kind = "plain"
    /\ part # "migrations" => broken = {}

AccountsStep ==
    /\ part = "accounts"
    /\ IF alone THEN AloneAccounts!AccountsNext ELSE AccountsNext
    /\ UNCHANGED <<totpVars, keyVars, webhookVars, limitVars, migrationVars>>

TotpStep ==
    /\ part = "totp"
    /\ IF alone THEN AloneTotp!TotpNext ELSE TotpNext
    /\ UNCHANGED <<accountVars, keyVars, webhookVars, limitVars, migrationVars>>

KeysStep ==
    /\ part = "keys"
    /\ IF alone THEN AloneKeys!ApiKeysNext ELSE ApiKeysNext
    /\ UNCHANGED <<accountVars, totpVars, webhookVars, limitVars, migrationVars>>

NoOther == UNCHANGED <<accountVars, totpVars, keyVars, limitVars, migrationVars, part, alone>>

WebhooksStep ==
    /\ part = "webhooks"
    /\ WebhooksNext
    /\ UNCHANGED <<accountVars, totpVars, keyVars, limitVars, migrationVars>>

LimitsStep ==
    /\ part = "limits"
    /\ IF alone THEN AloneLimits!LimitsNext ELSE LimitsNext
    /\ UNCHANGED <<accountVars, totpVars, keyVars, webhookVars, migrationVars>>

MigrationsStep ==
    /\ part = "migrations"
    /\ IF alone THEN AloneMigrations!MigrationsNext ELSE MigrationsNext
    /\ UNCHANGED <<accountVars, totpVars, keyVars, webhookVars, limitVars>>

DaemonNext ==
    /\ \/ AccountsStep \/ TotpStep \/ KeysStep
       \/ WebhooksStep \/ LimitsStep \/ MigrationsStep
    /\ UNCHANGED <<part, alone>>

\* That of Webhooks; in the other parts its goroutines have nothing to do.
DaemonFairness ==
    /\ \A g \in Triggers : WF_daemonVars(Offer(g) /\ NoOther)
    /\ \A w \in Workers : WF_daemonVars(Work(w) /\ NoOther)

DaemonSpec == DaemonInit /\ [][DaemonNext]_daemonVars /\ DaemonFairness

(* The type invariants of the six modules.                                   *)
DaemonTypeOK ==
    /\ AccountsTypeOK /\ TotpTypeOK /\ ApiKeysTypeOK
    /\ WebhooksTypeOK /\ LimitsTypeOK /\ MigrationsTypeOK

(* However calls interleave and fail, a credential that has done its work is *)
(* of no more use to a call that comes later: a reset closes the tokens      *)
(* issued before it, and a backup code that was accepted is marked or gone.  *)
SpentForGood == ResetClosesOthers /\ SpentIsGone

(* One at a time, a reset token sets one password, an e-mail link activates  *)
(* one account and a backup code admits once; the reset tokens a user has    *)
(* are MinRequestInterval apart; a user whose second factor is on has a      *)
(* secret, and codes only with a secret.                                     *)
CredentialsAlone ==
    alone =>
        /\ TokensWorkOnce
        /\ RequestsApart
        /\ CodesWorkOnce
        /\ EnabledHasSecret
        /\ CodesMatchSecret

(* A revoked, deleted or expired API key is accepted for no request that     *)
(* comes later, and a key is used within the names its scopes are read back  *)
(* as; without failing statements every use is counted.                      *)
KeysHold == EndedForGood /\ WithinScope /\ (alone => UsesCounted)

(* Every hook an event concerns is posted to, but for a full queue, a hook   *)
(* that is gone or not to be read, or a restart; never twice, and only with  *)
(* events it asked for.                                                      *)
HooksServed == MatchedIsPosted /\ []PostedOnce

(* Only a cleanup that races a request or drops a bucket that is not full,  *)
(* or changed limits, let a client take more tokens than one bucket gives;   *)
(* without failing statements a country stays out once a BlockCountry has    *)
(* returned and no UnblockCountry is under way.                              *)
LimitsHold == NoOverdraft /\ (alone => ShutIsShut)

(* One process at a time, versions are applied without gaps, and Migrate     *)
(* ends with all of them.                                                    *)
MigrationsAlone == alone => NoGap /\ MigrateCompletes
=============================================================================
