------------------------------- MODULE Jetton -------------------------------
(***************************************************************************)
(* The fungible tokens of internal/jetton/jetton.go.                       *)
(*                                                                         *)
(* Every handler is a script of SQL statements without a transaction.      *)
(* jcall[c].todo is what is left of the script of handler c; the balances  *)
(* and the supply it read earlier, from which it computes what it writes,  *)
(* are its locals.  Amounts are big.Int in the code and Nat here.          *)
(*                                                                         *)
(* A row Create made has NULL in address, admin_address and                *)
(* deploy_tx_hash, which Get scans into Go strings: Get fails, and with it *)
(* every other operation, until something outside the program fills them   *)
(* (Backfill).                                                             *)
(***************************************************************************)
EXTENDS Integers, Sequences, FiniteSets, Functions, FiniteSetsExt

CONSTANTS
    Users,          \* user ids
    Jettons,        \* ids of jettons rows
    JCalls,         \* handlers that may be running at the same time
    Requests,       \* what Create is asked for
    Changes,        \* what UpdateSettings is asked for: flags to set, to clear
    NoMax,          \* a NULL max_supply
    MaxAmount,      \* bound on the amount of one operation
    MaxOps,         \* bound on the number of handlers ever started
    SelfTransfers,  \* whether a user may send to itself
    JettonMayFail   \* whether a statement may fail or the process crash

Flags == {"minting", "burning", "transfers"}

ASSUME JettonConstantsOK ==
    /\ Requests \subseteq [supply : Nat, max : Nat \cup {NoMax},
                           freezable : BOOLEAN, enabled : SUBSET Flags]
    /\ Changes \subseteq [on : SUBSET Flags, off : SUBSET Flags]
    /\ NoMax \notin Nat
    /\ MaxAmount \in Nat \ {0}
    /\ MaxOps \in Nat
    /\ SelfTransfers \in BOOLEAN
    /\ JettonMayFail \in BOOLEAN

VARIABLES
    jetton,   \* rows of jettons
    purse,    \* purse[j][u]: the row of jetton_wallets, if open
    books,    \* books[j][u]: what u should hold by Create and by the rows of
              \* jetton_transfers, jetton_mints and jetton_burns
    jcall,    \* the handlers in flight
    jops      \* handlers started so far

jettonVars == <<jetton, purse, books, jcall, jops>>

NoJetton == [owner |-> "none"]

JettonRow ==
    [owner : Users, supply : Int, max : Nat \cup {NoMax}, freezable : BOOLEAN,
     enabled : SUBSET Flags, readable : BOOLEAN, deployed : BOOLEAN]

PurseRow == [open : BOOLEAN, balance : Nat, frozen : BOOLEAN]

\* The statements each handler issues after its first read.
Script == [
    create   |-> <<"open", "credit">>,
    transfer |-> <<"holder", "payee", "debit", "credit", "record">>,
    mint     |-> <<"payee", "credit", "supply", "record">>,
    burn     |-> <<"holder", "debit", "supply", "record">>,
    settings |-> <<"settings">>]

JIdle == [todo |-> <<>>]

JCallState ==
    [op : DOMAIN Script, jet : Jettons, from : Users, to : Users, amount : Nat,
     had : Nat, has : Nat, supply : Int, flags : SUBSET Flags,
     todo : Seq({"open", "holder", "payee", "debit", "credit", "supply",
                 "record", "settings"})]

(* The one type invariant; balances are never negative.                    *)
JettonTypeOK ==
    /\ jetton \in [Jettons -> JettonRow \cup {NoJetton}]
    /\ purse \in [Jettons -> [Users -> PurseRow]]
    /\ books \in [Jettons -> [Users -> Int]]
    /\ jcall \in [JCalls -> JCallState \cup {JIdle}]
    /\ jops \in Nat

JettonInit ==
    /\ jetton = [j \in Jettons |-> NoJetton]
    /\ purse = [j \in Jettons |->
                   [u \in Users |-> [open |-> FALSE, balance |-> 0, frozen |-> FALSE]]]
    /\ books = [j \in Jettons |-> [u \in Users |-> 0]]
    /\ jcall = [c \in JCalls |-> JIdle]
    /\ jops = 0

-----------------------------------------------------------------------------
(* Helpers *)

\* Get: the row exists and none of the scanned columns is NULL.
Readable(j) == jetton[j] # NoJetton /\ jetton[j].readable

Doing(c, stage) == jcall[c].todo # <<>> /\ Head(jcall[c].todo) = stage

\* The handler has issued its statement and goes on to the next one.
Onward(c, r) == jcall' = [jcall EXCEPT ![c] = IF Tail(r.todo) = <<>> THEN JIdle
                                              ELSE [r EXCEPT !.todo = Tail(@)]]

JReturn(c) == jcall' = [jcall EXCEPT ![c] = JIdle]

\* A handler starts; its first read has let it pass.
Begin(c, op, j, u, v, n, flags) ==
    /\ jcall[c] = JIdle
    /\ jops < MaxOps
    /\ jops' = jops + 1
    /\ jcall' = [jcall EXCEPT ![c] =
          [op |-> op, jet |-> j, from |-> u, to |-> v, amount |-> n, had |-> 0,
           has |-> 0, flags |-> flags, todo |-> Script[op],
           supply |-> IF jetton[j] = NoJetton THEN 0 ELSE jetton[j].supply]]

\* getOrCreateWallet.  Losing the race for the UNIQUE row is an error of the
\* INSERT, as in JettonFails, so the SELECT and the INSERT are one step.
GetOrCreate(j, u) == purse' = [purse EXCEPT ![j][u].open = TRUE]

-----------------------------------------------------------------------------
(* Tokens come into being *)

CreateJetton(c, j, u) ==
    /\ jetton[j] = NoJetton
    /\ \E q \in Requests :
          /\ q.max # NoMax => q.supply <= q.max
          /\ Begin(c, "create", j, u, u, q.supply, {})
          /\ jetton' = [jetton EXCEPT ![j] =
                [owner |-> u, supply |-> q.supply, max |-> q.max,
                 freezable |-> q.freezable, readable |-> FALSE, deployed |-> FALSE,
                 enabled |-> q.enabled \cup {"transfers"}]]
          /\ books' = [books EXCEPT ![j][u] = @ + q.supply]
    /\ UNCHANGED purse

OpenOwnerWallet(c) ==
    LET r == jcall[c] IN
    /\ Doing(c, "open")
    /\ GetOrCreate(r.jet, r.from)
    /\ Onward(c, r)
    /\ UNCHANGED <<jetton, books, jops>>

\* The NULL columns are filled by somebody outside the program.
Backfill(j) ==
    /\ jetton[j] # NoJetton
    /\ jetton' = [jetton EXCEPT ![j].readable = TRUE]
    /\ UNCHANGED <<purse, books, jcall, jops>>

\* Owner and type never change and readable stays, so in Deploy, FreezeWallet
\* and UnfreezeWallet the read and the UPDATE are one step.
Deploy(j, u) ==
    /\ Readable(j)
    /\ jetton[j].owner = u
    /\ jetton' = [jetton EXCEPT ![j].deployed = TRUE]
    /\ UNCHANGED <<purse, books, jcall, jops>>

\* GetWallet and GetBalance create the wallet, of whatever token they are asked.
GetWallet(j, u) ==
    /\ GetOrCreate(j, u)
    /\ UNCHANGED <<jetton, books, jcall, jops>>

FreezeWallet(j, admin, u) ==
    /\ Readable(j)
    /\ jetton[j].owner = admin
    /\ jetton[j].freezable
    /\ purse[j][u].open
    /\ purse' = [purse EXCEPT ![j][u].frozen = TRUE]
    /\ UNCHANGED <<jetton, books, jcall, jops>>

UnfreezeWallet(j, admin, u) ==
    /\ Readable(j)
    /\ jetton[j].owner = admin
    /\ purse' = [purse EXCEPT ![j][u].frozen = FALSE]
    /\ UNCHANGED <<jetton, books, jcall, jops>>

SettingsGet(c, j, u) ==
    /\ Readable(j)
    /\ jetton[j].owner = u
    /\ \E ch \in Changes :
          Begin(c, "settings", j, u, u, 0, (jetton[j].enabled \cup ch.on) \ ch.off)
    /\ UNCHANGED <<jetton, purse, books>>

\* All three flags are written back.
SettingsWrite(c) ==
    LET r == jcall[c] IN
    /\ Doing(c, "settings")
    /\ jetton' = [jetton EXCEPT ![r.jet].enabled = r.flags]
    /\ Onward(c, r)
    /\ UNCHANGED <<purse, books, jops>>

-----------------------------------------------------------------------------
(* Transfer, Mint and Burn: the first read and its tests *)

TransferGet(c, j, u, v, n) ==
    /\ Readable(j)
    /\ "transfers" \in jetton[j].enabled
    /\ u = v => SelfTransfers
    /\ Begin(c, "transfer", j, u, v, n, {})
    /\ UNCHANGED <<jetton, purse, books>>

\* Bug: the new total is not compared with the maximum.
MintGet_NoMaximum(c, j, u, v, n) ==
    /\ Readable(j)
    /\ jetton[j].owner = u
    /\ "minting" \in jetton[j].enabled
    /\ Begin(c, "mint", j, u, v, n, {})
    /\ UNCHANGED <<jetton, purse, books>>

MintGet(c, j, u, v, n) ==
    /\ Readable(j)
    /\ jetton[j].owner = u
    /\ "minting" \in jetton[j].enabled
    /\ jetton[j].max # NoMax => jetton[j].supply + n <= jetton[j].max
    /\ Begin(c, "mint", j, u, v, n, {})
    /\ UNCHANGED <<jetton, purse, books>>

BurnGet(c, j, u, n) ==
    /\ Readable(j)
    /\ "burning" \in jetton[j].enabled
    /\ Begin(c, "burn", j, u, u, n, {})
    /\ UNCHANGED <<jetton, purse, books>>

-----------------------------------------------------------------------------
(* Their later statements *)

\* Bug: the balance is not compared with the amount.
HolderWallet_Unfunded(c) ==
    LET r == jcall[c]  p == purse[r.jet][r.from] IN
    /\ Doing(c, "holder")
    /\ GetOrCreate(r.jet, r.from)
    /\ IF r.op = "transfer" /\ p.frozen
       THEN JReturn(c)
       ELSE Onward(c, [r EXCEPT !.had = p.balance])
    /\ UNCHANGED <<jetton, books, jops>>

\* The wallet paid from: a burn does not ask whether it is frozen.  A wallet
\* the lookup has just opened is empty.
HolderWallet(c) ==
    LET r == jcall[c]  p == purse[r.jet][r.from] IN
    /\ Doing(c, "holder")
    /\ GetOrCreate(r.jet, r.from)
    /\ IF p.balance < r.amount \/ (r.op = "transfer" /\ p.frozen)
       THEN JReturn(c)
       ELSE Onward(c, [r EXCEPT !.had = p.balance])
    /\ UNCHANGED <<jetton, books, jops>>

\* The wallet paid to: nobody asks whether it is frozen.
PayeeWallet(c) ==
    LET r == jcall[c] IN
    /\ Doing(c, "payee")
    /\ GetOrCreate(r.jet, r.to)
    /\ Onward(c, [r EXCEPT !.has = purse[r.jet][r.to].balance])
    /\ UNCHANGED <<jetton, books, jops>>

Debit(c) ==
    LET r == jcall[c] IN
    /\ Doing(c, "debit")
    /\ purse' = [purse EXCEPT ![r.jet][r.from].balance = r.had - r.amount]
    /\ Onward(c, r)
    /\ UNCHANGED <<jetton, books, jops>>

\* Bug: the balance read is written back without the amount.
Credit_Forgotten(c) ==
    LET r == jcall[c] IN
    /\ Doing(c, "credit")
    /\ purse' = [purse EXCEPT ![r.jet][r.to].balance = r.has]
    /\ Onward(c, r)
    /\ UNCHANGED <<jetton, books, jops>>

\* Also Create's initial supply, issued if there is any.
Credit(c) ==
    LET r == jcall[c] IN
    /\ Doing(c, "credit")
    /\ IF r.amount = 0 THEN UNCHANGED purse
       ELSE purse' = [purse EXCEPT ![r.jet][r.to].balance = r.has + r.amount]
    /\ Onward(c, r)
    /\ UNCHANGED <<jetton, books, jops>>

\* The total is computed from the supply of the first read.
WriteSupply(c) ==
    LET r == jcall[c] IN
    /\ Doing(c, "supply")
    /\ jetton' = [jetton EXCEPT ![r.jet].supply =
                     IF r.op = "mint" THEN r.supply + r.amount ELSE r.supply - r.amount]
    /\ Onward(c, r)
    /\ UNCHANGED <<purse, books, jops>>

\* The row in jetton_transfers, jetton_mints or jetton_burns.
Record(c) ==
    LET r == jcall[c]
        out == IF r.op = "mint" THEN books[r.jet]
               ELSE [books[r.jet] EXCEPT ![r.from] = @ - r.amount]
    IN
    /\ Doing(c, "record")
    /\ books' = [books EXCEPT ![r.jet] =
                    IF r.op = "burn" THEN out ELSE [out EXCEPT ![r.to] = @ + r.amount]]
    /\ Onward(c, r)
    /\ UNCHANGED <<jetton, purse, jops>>

\* A statement fails, or the process dies: what was written stays.
JettonFails(c) ==
    /\ JettonMayFail
    /\ jcall[c] # JIdle
    /\ JReturn(c)
    /\ UNCHANGED <<jetton, purse, books, jops>>

Create(c) == (\E j \in Jettons, u \in Users : CreateJetton(c, j, u)) \/ OpenOwnerWallet(c)

UpdateSettings(c) == (\E j \in Jettons, u \in Users : SettingsGet(c, j, u)) \/ SettingsWrite(c)

Transfer(c) ==
    \/ \E j \in Jettons, u, v \in Users, n \in 1..MaxAmount : TransferGet(c, j, u, v, n)
    \/ HolderWallet(c)
    \/ PayeeWallet(c)
    \/ Debit(c)
    \/ Credit(c)
    \/ Record(c)

Mint(c) ==
    \/ \E j \in Jettons, u, v \in Users, n \in 1..MaxAmount : MintGet(c, j, u, v, n)
    \/ WriteSupply(c)

Burn(c) == \E j \in Jettons, u \in Users, n \in 1..MaxAmount : BurnGet(c, j, u, n)

Admin(j) ==
    \/ Backfill(j)
    \/ \E u \in Users : Deploy(j, u) \/ GetWallet(j, u)
    \/ \E u, v \in Users : FreezeWallet(j, u, v) \/ UnfreezeWallet(j, u, v)

JettonNext ==
    \/ \E j \in Jettons : Admin(j)
    \/ \E c \in JCalls :
          Create(c) \/ UpdateSettings(c) \/ Transfer(c) \/ Mint(c) \/ Burn(c) \/ JettonFails(c)

JettonSpec == JettonInit /\ [][JettonNext]_jettonVars

-----------------------------------------------------------------------------
(* Properties *)

(* However mints and burns interleave, and wherever they stop, the total    *)
(* supply of the row stays within its maximum (Create's and Mint's tests):  *)
(* each writes the total it computed from the supply it tested.             *)
SupplyWithinMax ==
    \A j \in Jettons :
        jetton[j] # NoJetton /\ jetton[j].max # NoMax => jetton[j].supply <= jetton[j].max

-----------------------------------------------------------------------------
(* What TokenLedger's variables are here: the tokens as they stand, and      *)
(* those a handler has taken from one row and not yet written to the other. *)

OnItsWay(j, u) ==
    LET r == {jcall[c] : c \in {d \in JCalls :
                /\ jcall[d] # JIdle
                /\ jcall[d].jet = j
                /\ jcall[d].to = u
                /\ \/ jcall[d].op = "create"
                   \/ jcall[d].op = "transfer" /\ Doing(d, "credit")}}
    IN  IF r = {} THEN 0 ELSE (CHOOSE x \in r : TRUE).amount

Unaccounted(j) ==
    LET r == {jcall[c] : c \in {d \in JCalls : Doing(d, "supply") /\ jcall[d].jet = j}}
        x == CHOOSE x \in r : TRUE
    IN  IF r = {} THEN 0 ELSE IF x.op = "mint" THEN x.amount ELSE -x.amount

holdingBar == [j \in Jettons |-> [u \in Users |-> purse[j][u].balance + OnItsWay(j, u)]]

supplyBar == [j \in Jettons |->
    IF jetton[j] = NoJetton THEN 0 ELSE jetton[j].supply + Unaccounted(j)]
=============================================================================
