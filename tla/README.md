# A verification model of tonkey

tonkey (`src/`, Go) is a service around TON wallets: an HTTP API in front of
about twenty packages under `src/internal/`, each a manager over a few tables
of one SQLite or PostgreSQL database, with some goroutines for background jobs,
webhooks and WebSockets. This directory holds TLA+ modules of its stateful
parts, TLC configurations that check them on small instances, and TLAPS proofs
of the most important invariants for every value of the constants.

At this commit the daemon does not compile (`cmd/tonkeyd/main.go:270` calls
`georatelimit.NewGeoRateLimiter`, which does not exist;
`internal/api/handlers_v04.go:331` uses an undefined `authCtxKey`), so nothing
here was observed by running it. The models are read off the code of the
packages, which is complete, and several of their operations have no caller
yet: `multisig.Execute`, `ExpireProposals`, `CreateWallet`, `batch.Process` and
the hub's balance and transaction broadcasts. They are modelled as what any
caller may do, concurrently, as handlers of `net/http` are.

## 1. Inventory

One process. Every `db.Exec` and `db.QueryRow` is one statement, and apart from
e-mail verification, password reset and migrations no package puts two of them
in a transaction:
what one handler reads another may change before the first writes. This is
where most of the behaviour that is hard to test comes from. Handlers run in
goroutines of their own; a crash may fall between any two statements.

| component | state | operations | talks to | what makes it correct |
|---|---|---|---|---|
| multisig | wallets, proposals with approval and rejection lists (JSON in a column) | CreateWallet, CreateProposal, Approve, Reject, Execute, ExpireProposals | HTTP handlers | no decision without its quorum; a quorum decides; decided proposals stay decided |
| batch | batch rows, transaction rows, the in-memory `processing` map | Create, Process, Cancel | HTTP handlers, `Provider.Send` | nothing is sent twice; rows, counters and verdict tell the truth; a cancelled batch is not sent |
| jobs | job rows; worker goroutines | Enqueue, worker (fetch, run, complete, fail), RetryJob, Cleanup, Start, Stop | registered handlers | a worker runs the job it claimed; attempts are bounded; jobs end; outcomes are true |
| websocket | `Hub.clients`, the channels, subscriptions; two goroutines per client | Run, Broadcast…, Subscribe, Unsubscribe, read and write pumps | `handleWebSocket`, publishers | subscribers get updates; a slow client blocks nobody; no use of a closed channel |
| jetton | tokens, supply, balances per wallet | Transfer, Mint, Burn, Freeze, settings | API | balances sum to the supply; the supply stays within its maximum |
| nft | collections, items, listings, offers | Mint, Transfer, listings, offers | API | one owner; one sale per listing; the seller owns what is sold |
| users, registration, reset | users, verification and reset tokens | CreateUser, Register, VerifyEmail, CreateToken, ResetPassword, Cleanup | API, mail jobs | a token works once; a reset closes the tokens before it |
| totp | secret and backup codes of a user | Setup, Verify, ValidateLogin, Disable, RegenerateBackupCodes | API | a code works once; who has a second factor has a secret |
| organizations | organizations and members | create, rename, count | API | single statements |
| ipfilter | rules; a cache with one age | Check, AddRule, RemoveRule, InvalidateCache | middleware | organizations are kept apart; the cache agrees with the table |
| apikeys | keys | Create, Validate, Revoke, Cleanup | middleware | a revoked or expired key is refused |
| ratelimit, georatelimit | limiter maps, country lists, geo cache | Allow, Block, Unblock, cleanup | middleware | limits hold per key; cleanup does not reset a live limiter |
| webhooks | rows; a queue of 1000; workers | Trigger, deliver, Create, Delete | every event source | what is accepted is tried; deleted hooks get nothing |
| migrations | applied versions, the registered list | Migrate, MigrateTo, Rollback | start-up | versions are applied once and in order |
| audit | append-only rows | Log, Query, Cleanup | API | an action is logged once |
| ton, api (send) | connection; `tx_log` | Connect, Send, handleSendTx | API, batch | a sent transaction is recorded |
| contracts | registered contracts and their ABIs | Register, UpdateABI, Delete | API | an address is registered once, by a UNIQUE column |
| store, config, validator, auth, tracing, metrics, logger, graphql, dashboard, openapi, tg, query, cmd | little or read-only | – | – | not modelled: I/O, formatting, parsing and read-only views |

`PROJECT.json` lists every component with its status and, under `hazards`,
what can go wrong in each place and which property would show it.

## 2. Modules

| module | models | theorems |
|---|---|---|
| `Multisig` | `internal/multisig/multisig.go` | `MultisigProofs` |
| `Batch` | `internal/batch/batch.go` | `BatchProofs` |
| `Jobs` | `internal/jobs/jobs.go` | `JobsProofs` |
| `Hub` | `internal/websocket/*.go`, `handleWebSocket` in `internal/api/http.go` | `HubProofs` |
| `IpFilter` | `internal/ipfilter/ipfilter.go` | `IpFilterProofs` |
| `Jetton` | `internal/jetton/jetton.go` | `JettonProofs` |
| `TokenLedger` | what a token promises, one atomic step per operation: the abstract specification of `Jetton` | – |
| `Nft` | `internal/nft/nft.go` | `NftProofs` |
| `Accounts` | `internal/users`, `internal/registration`, `internal/reset` | `DaemonProofs` |
| `Totp` | `internal/totp/totp.go` | `DaemonProofs` |
| `ApiKeys` | `internal/apikeys/apikeys.go` | `DaemonProofs` |
| `Webhooks` | `internal/webhooks/webhooks.go` | `DaemonProofs` |
| `Limits` | `internal/middleware/ratelimit.go`, `internal/georatelimit/georatelimit.go` | `DaemonProofs` |
| `Migrations` | `internal/migrations/migrations.go` | `DaemonProofs` |
| `MCMultisig`, `MCBatch`, `MCJobs`, `MCHub`, `MCIpFilter` | instances for TLC | – |
| `MC…Modes` | an instance run in two ways, see section 3 | – |
| `MCTokens`, `MCDaemon` | several components in one run, see section 3 | – |

Three conventions hold in all of them.

*A step is a statement.* One SQL statement, one critical section of a mutex,
one channel operation or one call of something outside (`Provider.Send`, a job
handler) is one action. A handler that needs several is a record `call[c]` (or
`worker[w]`, or a pump's state): `at` is the statement it is about to issue,
the other fields are the local variables it has filled so far. Tests of locals
are made in the step that reads them, except where a clock is read or a lock is
taken in between.

*Errors that change nothing are not steps.* A call that returns an error
before it has written anything and without a lock to give back has no action.

*Observations.* A few variables record what happened (`endorsed`, `sends`,
`runs`, `owed`, …), as properties need a witness the code does not keep. No
action reads them.

Definitions whose name has a suffix after an underscore (`Blocking_OneEarly`)
are not part of the model: each is a plausible mistake in the definition before
the underscore and shows that a property is able to fail.

### Multisig

`wallet`, `proposal` are the rows, `now` is `time.Now().Unix()`. `Approve` is
ApproveRead (row, status) – ApproveCheck (clock, signer, duplicate) –
ApproveWrite (the list read before plus the user) – ApproveMark, or
ApproveExpire. `Reject` is RejectRead – RejectWrite – RejectMark, `Execute` is
ExecuteRead – ExecuteWrite; `ExpireProposals` is one UPDATE and one step.
CreateWallet takes the threshold and any signer list, also one that names a
user twice, which the code allows. Abort stands for a failing statement and for
a crash of the whole process alike: rows stay, the call is gone. What a
proposal does when executed and the addresses are left out.

### Batch

`tx[b][t]` is the status of a transaction's row. Create inserts the batch row
and then the transactions one by one; Process is the claim in the map, the
test, the UPDATE to processing, GetTransactions, and per transaction Send,
UPDATE of the row, UPDATE of the counter, then the final UPDATE and the
deferred delete from the map; Cancel is read, map test, two UPDATEs.
ProcessSkip is the loop's UPDATEs failing, whose errors the code ignores; Fail
is every error that is returned; Crash forgets calls and map. The order in
which a batch's transactions are visited is left open, amounts are left out.

### Jobs

A worker is idle or at fetch, start, run, complete or fail. Claim is the UPDATE
of `fetchJob` with its subquery, Fetch the SELECT after it, which may return any
running row with the latest start time. `took` is the row the UPDATE changed,
which the code does not know, `id` the row it read. Clock values stop counting
at `Horizon` and attempts one above `MaxAttempts` (the code only asks whether
they are below it). Stop lets workers finish; Restart is any end of the process.

### Hub

The hub's goroutine is at its select, in the range over clients, or about to
send to one. `IsSubscribed` and the send are two steps, as the lock is released
between them. The select's branches are Register, Unregister and Receive. Each
connection has its HTTP handler, a read pump and a write pump. Sending on a
closed channel is Panic, which ends everything. No code puts a client on
`Hub.register`; `Registers` says whether the handler does. `FALSE` is the code
as it is and `TRUE` the protocol that the hub, its clients and the handler's
comment are written for, without which nothing else of the hub is reachable.

### IpFilter

`rule` holds the rows ever written and `live` those in the table, `cache` and
`cacheTime` the filter's fields. Check is CheckLookup (under the reader's
lock), and on a miss CheckLoad (the query) and CheckStore (under the writer's
lock), then CheckDecide; a query that fails lets the request through, and one
whose rows end early is taken for complete, as loadRules does not ask
`rows.Err` (CheckLoadBreaksOff). AddRule
and RemoveRule are a statement and Invalidate. InvalidateCache has no caller.
Requests come from one address, which a rule covers or not; the order of the
rows plays no part in the verdict. `missed` and `raced` record which reads a
change has overtaken or the database cut short.

### Jetton and TokenLedger

`jetton` holds the rows of tokens, `purse` the wallet rows, `books` what Create
and the rows of transfers, mints and burns add up to. Every handler has a
script of statements (`Script`) behind a first read that tests what it can
test; `jcall[c].todo` is what is left of it. `had`, `has` and `supply` are the
balances and the total read, from which Debit, Credit and WriteSupply compute
what they write. Get scans three NULL columns into strings, so no token the
program created can be read: `Readable` is that scan, and Backfill stands for
whoever fills the columns. Amounts are `big.Int` in the code and Nat here.

`TokenLedger` issues, redeems and moves tokens in one step each. `holdingBar`
and `supplyBar` are its variables in terms of Jetton's: the rows, plus what a
handler has taken from one row and not yet written to the other.

### Nft

One collection; two share no row. `item[i]` is the owner of the item with index
i, `deeds[i]` its transfer rows: the buyer where the row is of a sale, Nobody
where it is of a Transfer. Such a row bears the free text `ToAddress` and no
price, and nothing ties it to `ToUserID`, which alone decides the new owner (none
leaves the sender one). Mint is the read
of the supply and its test, the INSERT with the index as UNIQUE part of the
address, and the UPDATE of the counter, which may fail alone. Transfer,
CreateListing, BuyListing, CancelListing and AcceptOffer are read, tests,
UPDATEs and the record, one by one; NftSkips is an UPDATE whose error the code
drops. FillCollection and FillListing fill the NULL columns that otherwise make
GetCollection and GetListing fail.

### Accounts

The three packages that write `users`. Usernames and addresses are looked up in
one statement and inserted in another, behind UNIQUE columns; a token is
validated before the transaction that uses it; CreateToken counts recent tokens
before it inserts one; the Cleanups delete rows by age, used ones too. Row
numbers never return. Hashing, tokens' text and mail are left out. Administer is
UpdateUser, UpdatePassword and DeleteUser; Authenticate, which writes
`last_login` and the activity log, is left out.

### Totp

One user: users share neither secret nor code. Setup writes a new secret over
whatever there is, Verify reads it and enables it, useBackupCode looks a code up
and marks it, Disable clears the secret and deletes the codes, and
RegenerateBackupCodes deletes and inserts them one by one. Whether a code
belongs to the secret that was read replaces its arithmetic.

### ApiKeys

Validate reads the row and tests it, then counts the use in a second UPDATE;
the middleware compares scopes afterwards. `late` marks a validation that began
after the key had ended. Nothing tests the scopes a key is created with: Create
joins the strings with commas and parseScopes splits what it reads at every
comma. A scope string is therefore modelled by what it reads back as, the set of
names between its commas, each a pair of area and verb or `*`, and `Parsed` is
the union. `tx:send,*` reads back as two names, the second of which allows
everything, and the scopes `""` and `","` read back as none at all, which
HasScope takes for no restriction.

### Webhooks

Trigger reads the hooks of an event and offers each a place in the channel of
capacity `QueueMax` (1000 in the code), dropping what does not fit. A worker
takes a delivery, reads its hook again, posts, and logs. A restart empties
everything but the tables. A post is an attempt, also one whose request cannot
be built, and Trigger's query is taken to find every hook it concerns or, as a
step that is not taken, none: that `rows.Err` is not asked there either is left
out. No code calls Trigger: the model is what any caller would get.

### Limits

Both limiters: a map from clients to token buckets, looked up under one lock
and used under another, and a cleanup that drops buckets between the two. The
plain one drops those whose tokens are full, the other those not used for
`IdleTime`, full or not: nothing makes limits regain their burst in that time
(`RegainsBurst`). `ideal` is the one bucket the client would have if none were
dropped. The second limiter also has limits per country, in a table, and blocked
countries, in a map and in that table: a request is refused by either, and a
restart empties the map but for what the configuration lists. BlockCountry and
UnblockCountry write the map and then the row, in two steps (BlockCountry,
BlockRow; UnblockCountry, UnblockRow), and `admin[a]` is the row such a call has
still to write. The map has no lock; that Go may end a process in which two
goroutines write it is RestartLimits.

### Migrations

A call decides from the highest version in the table what is to be done
(`plan`) and then does it version by version, each in a transaction of its own.
Migrate and MigrateTo sort the manager's list in place, up or down, and
MigrateTo going up takes it in the order it finds; that order, `list[m]`, is one
of `registered`, `ascending` and `descending`. What a loop has yet to do is a
set, from which the order picks the next version.
`broken` are versions this database refuses: with SQLite those that say ADD
COLUMN IF NOT EXISTS.

## 3. Runs

| run | instance | checks |
|---|---|---|
| `multisig_modes` | 1 proposal; 2 handlers, 2 signers, one listed twice in one of the lists, expiry, failures; or alone, 3 signers, every threshold | VerdictsEarned, SettledForGood; QuorumDecidesAlone, StatusForwardAlone |
| `multisig_lost` | 2 handlers, no failures | QuorumDecides is violated |
| `batch_modes` | 1 batch of 1 or 2 of 3 transactions; 3 handlers, failures, crashes; or alone | AtMostOnce, TruthfulRecords, TruthfulVerdict; CompletedIsWholeAlone, BatchEndsAlone |
| `batch_cancel` | 2 handlers, no failures | CancelStands is violated |
| `jobs_modes` | 2 workers, RetryJob, one restart or failing statement, a job without handler; or one worker, 2 jobs, 2 priorities, no faults | TypeOK, TruthfulOutcome; FetchedIsClaimedAlone, AccountedForAlone, JobEndsAlone |
| `jobs_claim` | 2 workers | FetchedIsClaimed is violated |
| `jobs_nohandler` | 1 worker, one job without handler | JobEnds is violated |
| `hub_served` | 1 client, 2 addresses, channels of capacity 1, `Registers` | TypeOK, RegisteredIsOpen, Served, BroadcastDrains, EvictedHangsUp |
| `hub_unserved` | 1 client, the code as it is | Served is violated |
| `ipfilter_modes` | 2 calls, 2 rules, 1 organization, failing queries, restarts; or alone, no failures | Isolation, StaleOnlyByRace; AnswersByTableAlone |
| `tokens` | Jetton: 2 users, 1 token, 2 handlers, failures, transfers to oneself; Nft: 2 traders, 2 listings, 1 offer, up to 2 items, 2 handlers, failures; or either alone | TokensTypeOK, SupplyWithinMax, ItemsWithinMax; MarketAlone, LedgerAlone, ListingSettledAlone |
| `daemon` | Accounts, Totp, ApiKeys, Webhooks, Limits and Migrations, one of them at a time; or each but Webhooks alone | DaemonTypeOK, SpentForGood, KeysHold, LimitsHold, HooksServed; CredentialsAlone, MigrationsAlone |

What they show, component by component:

- *Multisig.* VerdictsEarned: no proposal is approved, executed or rejected
  without its quorum of different signers, nor expired before its time,
  whatever interleaves and fails. A settled one never changes
  (SettledForGood). One at a time a quorum does decide and a status only moves
  forward.
- *Batch.* Nothing is sent twice, also across crashes; rows, counters and the
  verdict say what Send answered. One at a time a completed batch was processed
  whole, processing ends and a cancelled batch stays so.
- *Jobs.* A completed job's handler returned nil, a failed one's ran as often as
  it may. A single worker runs what it claimed, abandons nothing and ends every
  job.
- *Hub.* The hub's goroutine closes no channel twice and sends on none it has
  closed (readPump's acknowledgement may: that is Panic); subscribers are
  served, the queue drains, and a client that is too slow is hung up on.
- *IpFilter.* Organizations are kept apart; the cache is stale only where a
  change overtook a load or a load was cut short; one at a time, without
  failures, Check answers by the table.
- *Jetton.* The recorded supply never passes the maximum. One at a time, without
  failures and transfers to oneself, and otherwise with every amount and order
  of operations, it implements `TokenLedger` (supply is the sum of the holdings),
  and the balances are what the records say.
- *Nft.* A collection never has more items than its maximum. One at a time an
  item is on sale once, whoever bought it by its last transfer record owns it,
  and a settled listing stays settled.
- *Accounts, Totp.* After a reset, older tokens are closed; an accepted backup
  code is never found again. One at a time each works once, requests for reset
  tokens keep their distance, and who has a second factor has a secret.
- *ApiKeys.* A request that begins after a key ended is refused, and a key
  serves only the names its scopes split into, if they split into any. That
  these are the scopes somebody meant is not so: see `tx:send,*` and `","`
  above.
- *Limits.* Dropping buckets gives nobody more requests, unless the drop falls
  between a request's lookup and its use, limits change, or the geo limiter
  drops a bucket that is not full. Where no statement fails, a country is kept
  out from when BlockCountry has returned, with no UnblockCountry under way. The
  exception is real: an UnblockCountry that has emptied the map may write its
  row after a whole BlockCountry, whose entry in the map then keeps the country
  out only until the next restart.
- *Webhooks.* What was found due is posted once, or was dropped for a reason.
- *Migrations.* One process at a time leaves no gap, unless a MigrateTo failed.

**Two modes in one run.** A property that any interleaving must keep and one
that only a call run by itself keeps need different behaviours. An `MC…Modes`
module has both: the variable `alone` is chosen at the start and never changes;
where it is false the component's own `Next` runs with all its handlers, where
it is true the `Next` of an `INSTANCE` of the same module with a single handler
and no failures. Properties whose name ends in `Alone` say something of those
behaviours only; the others are checked in both.

**Several components in one run.** Components that share no row do not interact:
any behaviour of the two is one of each. `MCTokens` and `MCDaemon` hold one
instance of each and a variable `part`, chosen at the start, that says which of
them moves; the states add up instead of multiplying. A property of such a run
is the conjunction of the components' properties on one subject; the modules
state the parts by name.

**Bounds.** Two handlers suffice for every race between two calls on one row,
and each decision reads one proposal or one batch, so one is enough where calls
race; three handlers let Create, Process and Cancel of one batch overlap. Two
signers with a list that repeats one give thresholds from 1 to 3; the proposals
decided alone have three distinct signers, so approval and rejection quorums
differ from one and from all. A clock of two values separates before from after
a deadline, and a young cache from an old one. Two attempts make a first, a last
and one too many; two jobs of two priorities let one overtake the other. A
capacity of one makes a channel empty, full and overrun. Two rules give a block
and an allow rule for one request; one organization and no organization are two
cache keys with one rule set inside the other.

In `tokens`, MaxAmount 2 makes a transfer of part, of all and of too much;
MaxOps 3 handlers, 4 when alone (Create, Mint, Transfer, Burn in any order);
MaxItems 2 and MaxDeals 3, 5 when alone (a collection, a mint, a listing and two
attempts on it). In `daemon`: two names and one address collide in one column
and not in the other; MaxRows 2 of each table, MaxRequests 4 and 5 alone,
Horizon 2, so that a token is young, old and expired; CodeCount 2 instead of 10,
MaxSecrets 2, MaxCodes 4 (one regeneration), MaxVisits 4 and 6; one key with five
lists of scopes, Retention 1, MaxUses 3, MaxDay 2; two hooks, one Trigger and one
worker with QueueMax 1, MaxEvents 2, MaxCrashes 1; limits of 1 per second with
bursts of 2 and 1 (10 and 20 in the code), IdleTime 1, in which a burst is
regained, and 0 when alone, in which it is not; two calls of BlockCountry and
UnblockCountry at a time, MaxBuckets 2, MaxTime 2, MaxHits 3; three versions,
two processes, MaxCalls 3. The proofs have none of these bounds.

**Deadlock** is checked for batches. Multisig, Jobs and Hub really stop in
their instances (every proposal settled and the clock at its bound; every job
finished; every connection closed after the program died), and so do tokens and
daemon once the bound on calls is reached, so it is off there. In IpFilter a
Check can always begin, so there is nothing to find.

**Fairness.** `Batch!FairSpec`: a goroutine inside Process keeps being
scheduled and `Provider.Send` returns. `Jobs!FairSpec`: workers poll for ever,
time passes, and a job handler returns because its context ends after five
minutes. `Hub!FairSpec`: the hub's goroutine, a publisher that holds messages
and the write pump keep being scheduled, a write ends within `writeWait`, and a
reader of a closed connection gets an error. `WebhooksFairness`: a Trigger in
its loop and the workers keep being scheduled, as neither blocks: the loop's
select has a default and a post has a timeout. The runs with modes assume the
same of the handler that runs alone. Nothing is assumed of peers, of requests
arriving, of failures stopping, or of a read pump blocked in a send. All are
weak: each such goroutine, once able to go on, stays able until it does.

**What the violated runs show.** Each is a finding in `PROJECT.json`. Four are
races or omissions in the code: `multisig_lost`, concurrent approvals overwrite
each other; `batch_cancel`, a cancelled batch is sent; `jobs_claim`, a worker is
given the other's job; `jobs_nohandler`, a job without handler never ends. One
is a comment that promises more than the code does: `hub_unserved`, no client
is registered.

`JobEnds` leaves RetryJob out: an administrator who retries a job of high
priority for ever keeps another waiting for ever.

**Why some hold only alone.** The code has few transactions, so much is not true
of handlers that interleave, and the models show it when one of these is asked
of all behaviours (the market with MaxDeals 5): two transfers from one wallet
both pass the test and one debit is lost; a listing being bought is cancelled,
or bought again; a backup code looked up twice admits twice; two requests pass the
count of recent reset tokens; two mints bring balances, though not the recorded
total, above a maximum; a change of the rules during a load leaves the old ones
cached; an UnblockCountry begun before a BlockCountry undoes it. The `Alone`
properties say that the handlers are right by themselves,
and the hazards in `PROJECT.json` name the line where the race is.

## 4. Proofs

Most of the theorems are invariants; seven are about steps, two of those with a
refinement. Each holds for all values of the constants that its hypotheses
admit, and `tlapm` checks every proof to its last leaf.

| theorem | statement | run |
|---|---|---|
| `MultisigProofs!TypeCorrect` | `Spec => []TypeOK` | – |
| `MultisigProofs!ApprovalNeedsQuorum` | `Spec => []ApprovalQuorum` | in VerdictsEarned |
| `MultisigProofs!RejectionNeedsQuorum` | `Spec => []RejectionQuorum` | in VerdictsEarned |
| `MultisigProofs!ExpiryIsDue` | `Spec => []NoEarlyExpiry` | in VerdictsEarned |
| `MultisigProofs!VerdictsAreEarned` | `Spec => []VerdictsEarned` | `multisig_modes` |
| `MultisigProofs!SettledStays` | `Spec => SettledForGood` | `multisig_modes` |
| `MultisigProofs!QuorumDecidesOneByOne` | `Spec => []QuorumDecidesAlone` | `multisig_modes` (1) |
| `MultisigProofs!StatusForwardOneByOne` | `Spec => StatusForwardAlone` | `multisig_modes` (1) |
| `BatchProofs!TypeCorrect` | `Spec => []TypeOK` | – |
| `BatchProofs!SentAtMostOnce` | `Spec => []AtMostOnce` | `batch_modes` |
| `BatchProofs!LedgerIsTruthful` | `Spec => []TruthfulLedger` | in TruthfulRecords |
| `BatchProofs!ProgressIsHonest` | `Spec => []HonestProgress` | in TruthfulRecords |
| `BatchProofs!RecordsAreTruthful` | `Spec => []TruthfulRecords` | `batch_modes` |
| `BatchProofs!VerdictIsTruthful` | `Spec => []TruthfulVerdict` | `batch_modes` |
| `BatchProofs!CompletedIsWholeOneByOne` | `Spec => []CompletedIsWholeAlone` | `batch_modes` (1) |
| `BatchProofs!CancelStandsOneByOne` | `Spec => CancelStands` | violated by `batch_cancel`, in BatchEndsAlone (1) |
| `JobsProofs!TypeCorrect` | `Spec => []TypeOK` | `jobs_modes` |
| `JobsProofs!OutcomesAreTruthful` | `Spec => []TruthfulOutcome` | `jobs_modes` |
| `JobsProofs!FetchedIsClaimedByOne` | `Spec => []FetchedIsClaimedAlone` | `jobs_modes` (1) |
| `JobsProofs!AccountedForByOne` | `Spec => []AccountedForAlone` | `jobs_modes` (1) |
| `HubProofs!TypeCorrect` | `Spec => []TypeOK` | `hub_served` |
| `HubProofs!RegisteredStayOpen` | `Spec => []RegisteredIsOpen` | `hub_served` |
| `IpFilterProofs!TypeCorrect` | `Spec => []TypeOK` | – |
| `IpFilterProofs!KeptApart` | `Spec => []Isolation` | `ipfilter_modes` |
| `IpFilterProofs!OnlyRacesLeaveStale` | `Spec => []StaleOnlyByRace` | `ipfilter_modes` |
| `IpFilterProofs!AnswersOneByOne` | `Spec => AnswersByTableAlone` | `ipfilter_modes` (1) |
| `JettonProofs!TypeCorrect` | `JettonSpec => []JettonTypeOK` | in TokensTypeOK |
| `JettonProofs!SupplyIsBounded` | `JettonSpec => []SupplyWithinMax` | `tokens` |
| `JettonProofs!OneByOneIsALedger` | `JettonSpec => Ledger!LedgerSpec` | in LedgerAlone (1) |
| `JettonProofs!LedgerHoldsOneByOne` | `JettonSpec => LedgerAlone` | `tokens` (1) |
| `NftProofs!NftTypeCorrect` | `NftSpec => []NftTypeOK` | in TokensTypeOK |
| `NftProofs!ItemsAreBounded` | `NftSpec => []ItemsWithinMax` | `tokens` |
| `NftProofs!MarketOneByOne` | `NftSpec => []MarketAlone` | `tokens` (1) |
| `NftProofs!SettledOneByOne` | `NftSpec => ListingSettledAlone` | `tokens` (1) |
| `NftProofs!TokensTypeCorrect` | `JettonSpec /\ NftSpec => []TokensTypeOK` | `tokens` |
| `DaemonProofs!DaemonTypeCorrect` | the six specifications imply `[]DaemonTypeOK` | `daemon` |
| `DaemonProofs!SpentCodesAreGone` | `TotpSpec => []SpentIsGone` | in SpentForGood |
| `DaemonProofs!SpentCredentialsStaySpent` | `AccountsSpec /\ TotpSpec => []SpentForGood` | `daemon` |
| `DaemonProofs!TokensOneAtATime` | `AccountsSpec => [](TokensWorkOnce /\ RequestsApart)` | in CredentialsAlone (1) |
| `DaemonProofs!CredentialsHoldAlone` | `AccountsSpec /\ TotpSpec => []CredentialsAlone` | `daemon` (1) |
| `DaemonProofs!KeysEndForGood` | `ApiKeysSpec => [](… /\ EndedForGood /\ WithinScope)` | in KeysHold |
| `DaemonProofs!KeysHoldAlone` | `ApiKeysSpec => []KeysHold` | `daemon` (2) |
| `DaemonProofs!OneBucketIsEnough` | `LimitsSpec => []NoOverdraft` | in LimitsHold |
| `DaemonProofs!LimitsHoldAlone` | `LimitsSpec => []LimitsHold` | `daemon` (2) |
| `DaemonProofs!HooksPostedOnce` | `WebhooksSpec => []PostedOnce` | in HooksServed |
| `DaemonProofs!MigrationsOneProcess` | `MigrationsSpec => []MigrationsAlone` | `daemon` (1) |

(1) of calls that run one at a time, (2) where no statement fails; the
hypotheses are below. All other theorems are about any interleaving, with
failing statements, crashes and restarts.

All assume the modules' `…ConstantsOK`: signer lists are sequences of users,
NULL values are not values, a batch has finitely many transactions, the cache
lives for a positive time and the filter's default is allow or deny, scope lists
are sets of scopes and no area or verb is `*`, the registered versions are
positive numbers without repetition and at least one, limits and bounds are
numbers. Some theorems assume more, as their names say:

- those marked (1) that there is one handler: `Calls = {c}` in Multisig, Batch
  and IpFilter, `Workers = {w}`, `NCalls = {c}`, `ACalls = {c}` and
  `TCalls = {d}`, `Managers = {m}`; and, except for `TokensOneAtATime`, the
  accounts' half of `CredentialsHoldAlone` and `MigrationsOneProcess`, that no
  statement fails (`~MayFail`, `MaxFaults = 0`, `~NftMayFail`, `~TMayFail`);
- `StatusForwardOneByOne` that proposals have no deadline, as the only caller of
  CreateProposal passes none: ExpireProposals is nobody's request, and may expire
  a proposal between two statements of the one handler there is;
- the two about the ledger `Alone(h)`: one handler that does not fail, no
  transfers to oneself, and no initial supply above `MaxAmount`, the largest
  amount the ledger issues at once; `LedgerHoldsOneByOne` also that there are
  finitely many users, without which there is no sum;
- those marked (2) `~KMayFail` and `~LMayFail`.

The hypotheses are those of the `Alone` instances in the runs, so TLC has
explored states that satisfy them.

*Multisig.* The quorum invariants are not inductive: a handler decides on a
list it read earlier. The inductive invariant adds `RowInv` (a stored list has
no repetition, its members sign the wallet, and each had a vote written) and
`CallInv` (the same of the list a handler holds, with the user it is about to
add not yet in it; a handler about to mark has seen enough votes). Lost updates
shorten lists but never invent a member, so the number of different users ever
written is at least the length of any list, and that is all the decision needs.
A signer named twice in a wallet does not help either.

*Batch.* The inductive invariant adds `Alone` (at most one handler is inside
Process for a batch, and only while the map holds it), and in `BatchInv` and
`CallInv` how many transactions the handler has visited, which of them were
accepted, and that what is still to do was not sent. `AtMostOnce` survives a
crash because a batch that was begun is never pending again, also when Cancel
writes over its status.

*One handler at a time.* The theorems marked (1) share one argument: what the
handler has read is still what the rows hold, so what it tested holds when it
writes. What has to be added is how far the rows are behind it at each
statement. In Multisig (`Solo`) the list read is the list stored, and a pending
row below its threshold or the handler about to mark it. In Batch (`Relied`,
`Whole`) the rows inserted and those Create has left make up the count, and the
loop's rows are those it has visited and those it has to. In Jobs the row last
claimed is the only one running. In IpFilter (`OneCall`) no change has overtaken
a load. In Nft (`MarketFits`) the owner of an item whose last record is of a
sale is the buyer named there, or, between the UPDATE and the record, the one
the handler is about to name; after a Transfer's record it may be anyone.

*IpFilter.* A row never changes once written, so rules that were right for their
key when they were read stay so (`ReadFor`); that gives isolation. Staleness
needs `HeldCurrent`: a call about to store rules that no change has overtaken
holds exactly what the table would give it now, hence what it stores agrees.

*Jobs.* Two workers may hold one job, and each counts attempts from the copy it
read. What saves the outcome is that no copy of the counter, in the row or with
a worker, exceeds the number of handler calls made, which never falls.

*Hub.* Only the hub's goroutine closes a channel, and it takes the client off
the map in the same step; clients a range has yet to visit are in the map,
since nothing else changes it meanwhile; a client waiting to register was never
in it.

*Jetton.* A maximum is written once, with the row. The totals that handlers
may still write are within the maximum, because each was computed from a supply
that was, and was tested (`Bounded`); so whichever is written last is. Balances
stay above zero as a handler past its lookup has found enough (`Funded`).

*Refinement.* With one handler, what it read is what the rows still hold
(`SoloOK`). The first of a transfer's, mint's or burn's two writes is then the
ledger's step, what it has yet to write being counted in, and the second
changes nothing; all other statements are stutters.

*Conservation and records.* That the supply is the sum of the holdings needs a
fact about sums: changing one summand by n changes the sum by n (`SumShifts`).
The sum of a function is defined by recursion on the set of its arguments, and
an induction theorem cannot be instantiated here, so the lemma is proved by
taking a smallest set that violates it, which well-foundedness of the numbers
gives (`SmallestSet`). The records agree with the balances up to `Lag`, what
the handler has moved and not yet recorded or recorded and not yet moved at the
statement it is at; an idle handler has no lag.

*Nft.* A mint's index is the supply it read plus one, at most the maximum by the
test, and no index is inserted twice; the counter lags behind, as supply plus
the items inserted and not yet counted is at most the number of items.

*Totp.* A code is spent in the step that marks it, and a later secret's codes
have numbers of their own, so one that was spent is marked or deleted for good.
One at a time (`TotpSolo`), a request that is about to mark a code found it
unused, and codes are there only while there is a secret or Disable is about to
erase them.

*Accounts.* ResetPassword marks, in its transaction, every token the user has;
a token is found by row, rows keep their place when Cleanup hides them, and a
token not yet issued has reset nothing (`UnissuedUnused`). One at a time
(`AccountSolo`), a token about to be used is unused, and one about to be issued
comes `Interval` after the last.

*ApiKeys.* What a request holds was read from a row that cannot regain what it
lost: `active` is never set again and an expiry never moved, so a key that ended
stays ended (`KeyStands`) and no request that began later got past Validate
(`KeyCall`). The names in the row are never written again either, so what a
request was served by them it had by some string the key was created with.

*Limits.* As long as no race or change of limits has occurred, the bucket in the
map holds no more tokens than the ideal one, and at least the fewer of its burst
and what its idle time has brought (`TightBucket`). With limits that regain
their burst in IdleTime a bucket dropped for idleness is therefore full, and a
fresh one is no gain; with others `loose` records that it was not. A country is
kept out by its row, not by the map, which a restart or a late deletion empties:
once a BlockCountry has returned with no UnblockCountry under way the row is
blocked and no call is left that would clear it (`LimitsShut`).

*Webhooks.* A delivery is in one place, a Trigger's list, one slot of the
channel, or one worker (`OnePlace`), and has been posted only if a worker is
past the post or done with it (`PostsFit`). A hook's row does not change between
the query that found it and its deletion.

*Migrations.* What is applied together with what the loop has still to do has no
gap (`LoopFits`), as each loop runs through a range above or below the highest
version, and one at a time the table is as the loop's start found it. That
Migrate ends with the highest version needs that it sorts its list upwards.

*Only model-checked:* liveness (`JobEnds`, `JobEndsAlone`, `BatchEndsAlone`,
`Served`, `BroadcastDrains`, `EvictedHangsUp`, `MatchedIsPosted` in
`HooksServed`), which is beyond the prover. `BatchEndsAlone` and `HooksServed`
have a safety half each, which is proved: `CancelStandsOneByOne`,
`HooksPostedOnce`. The theorems about calls that run alone are about a
specification with a single handler; that a run's `alone` behaviours are such is
how the MC modules instantiate them.

## 5. Not modelled

Parts that stop at their first read are modelled with what lies behind it: rows
of tokens, collections and listings the program created cannot be read until
somebody fills columns it leaves NULL, and the models say so.

- *Audit log*: rows are inserted once and deleted by age. The checksum formats
  pointers and so does not verify for rows read back; that is formatting, not
  state.
- *Smart contract templates*: rows written once behind a UNIQUE column, and
  message building.
- *Payments and TON providers*: network clients. That Send may fail is an input
  of Batch. `handleSendTx` sends and then records, see the hazards.
- *Organizations*: single statements on rows of their own.
- *HTTP API, GraphQL, dashboard, OpenAPI, query*: decoding, reads and text.
- *Tracing, metrics, logging; configuration, validation, tokens*: observation,
  parsing and formatting.
- *Telegram bot, daemon, command line*: wiring and I/O. What stopping does to
  the workers is in Jobs; that migrations run at start-up is in Migrations.
- *Accounts* leaves out Authenticate and the activity log, which write columns
  that none of the modelled operations read.

Still worth doing: refinements by Batch and Multisig of what they promise in one
step, as `TokenLedger` is for Jetton.

## 6. Running it

    tlc -config batch_modes.cfg MCBatchModes
    tlc -config daemon.cfg MCDaemon
    tlapm DaemonProofs.tla
