---------------------------- MODULE JettonProofs ----------------------------
(***************************************************************************)
(* Proofs about Jetton, for any users, tokens, requests and number of      *)
(* concurrent handlers.                                                    *)
(*                                                                         *)
(* The argument: a maximum is written once, with the row, and a total is   *)
(* written only by a handler that computed it from a supply that was       *)
(* within the maximum when it was read.  So the totals a handler may still *)
(* write are within the maximum as well, whatever was written meanwhile.   *)
(* In the same way a balance is written only by a handler that found it no *)
(* smaller than the amount it takes away.                                  *)
(*                                                                         *)
(* One operation at a time, what a handler still owes a balance, a total   *)
(* or the records is told by the statement it is at; with that owed added, *)
(* the rows are a ledger, which conserves, and agree with the records.     *)
(***************************************************************************)
EXTENDS MCTokens, FiniteSetTheorems, WellFoundedInduction, TLAPS

\* A handler's total, old or new, is within the maximum of the row in rows.
Bounded(rows, r) ==
    rows[r.jet].max # NoMax =>
        /\ r.supply <= rows[r.jet].max
        /\ r.op = "mint" => r.supply + r.amount <= rows[r.jet].max

Takes(r) == r.op \in {"transfer", "burn"}

\* A handler works on a row that exists, and only some take from a wallet.
Fit(rows, r) ==
    /\ r \in JCallState
    /\ rows[r.jet] # NoJetton
    /\ Bounded(rows, r)
    /\ ~Takes(r) => \A i \in 1..Len(r.todo) : r.todo[i] # "debit"

\* Past the lookup of the wallet it takes from, a handler has found enough.
Funded(r) == Takes(r) => r.had >= r.amount

CallOK(rows, r) ==
    r = JIdle \/ (Fit(rows, r) /\ (Head(r.todo) # "holder" => Funded(r)))

CallsOK == \A c \in JCalls : CallOK(jetton, jcall[c])

Inv == JettonTypeOK /\ SupplyWithinMax /\ CallsOK

\* Rows stay, and so do their maxima.
RowsStay ==
    \A j \in Jettons : jetton[j] # NoJetton =>
        jetton'[j] # NoJetton /\ jetton'[j].max = jetton[j].max

-----------------------------------------------------------------------------
(* The handlers' states *)

\* A script is a sequence of statements, and only two of them take.
LEMMA Scripts ==
    ASSUME NEW op \in DOMAIN Script
    PROVE  /\ Script[op] \in Seq({"open", "holder", "payee", "debit", "credit", "supply",
                                  "record", "settings"})
           /\ Script[op] # <<>>
           /\ op \notin {"transfer", "burn"} =>
                 \A i \in 1..Len(Script[op]) : Script[op][i] # "debit"
           /\ op \in {"transfer", "burn"} => Head(Script[op]) = "holder"
<1>1. CASE op = "create"
  BY <1>1 DEF Script
<1>2. CASE op = "transfer"
  BY <1>2 DEF Script
<1>3. CASE op = "mint"
  BY <1>3 DEF Script
<1>4. CASE op = "burn"
  BY <1>4 DEF Script
<1>5. CASE op = "settings"
  BY <1>5 DEF Script
<1>. QED  BY <1>1, <1>2, <1>3, <1>4, <1>5 DEF Script

\* What is left of a script is one.
LEMMA TailTyped ==
    ASSUME NEW r \in JCallState, r.todo # <<>>
    PROVE  /\ [r EXCEPT !.todo = Tail(@)] \in JCallState
           /\ Len(Tail(r.todo)) = Len(r.todo) - 1
           /\ \A i \in 1..Len(Tail(r.todo)) : Tail(r.todo)[i] = r.todo[i + 1]
           /\ Len(r.todo) \in Nat
<1>. DEFINE S == {"open", "holder", "payee", "debit", "credit", "supply", "record", "settings"}
            t == Tail(r.todo)
<1>1. r.todo \in Seq(S)
  BY DEF JCallState
<1>. HIDE DEF S
<1>2. /\ t \in Seq(S) /\ Len(t) = Len(r.todo) - 1 /\ Len(r.todo) \in Nat
      /\ \A i \in 1..Len(t) : t[i] = r.todo[i + 1]
  BY <1>1
<1>. HIDE DEF t
<1>3. [r EXCEPT !.todo = t] \in JCallState
  BY <1>2 DEF JCallState, S
<1>. QED  BY <1>2, <1>3 DEF t

\* A handler's claims outlast what others do to the rows.
LEMMA CallStays ==
    ASSUME NEW r, CallOK(jetton, r), RowsStay
    PROVE  CallOK(jetton', r)
BY DEF CallOK, Fit, Bounded, RowsStay, JCallState

\* One handler goes on: with what it holds now in order, all are.
LEMMA OnwardKeeps ==
    ASSUME Inv, RowsStay, NEW c \in JCalls, NEW r, r.todo # <<>>,
           Fit(jetton, r), Funded(r), Onward(c, r)
    PROVE  CallsOK' /\ jcall' \in [JCalls -> JCallState \cup {JIdle}]
<1>. DEFINE s == [r EXCEPT !.todo = Tail(@)]
<1>1. r \in JCallState
  BY DEF Fit
<1>2. /\ s \in JCallState
      /\ s.op = r.op /\ s.jet = r.jet /\ s.amount = r.amount /\ s.had = r.had
      /\ s.supply = r.supply /\ s.todo = Tail(r.todo)
  BY <1>1, TailTyped DEF JCallState
<1>3. CallOK(jetton, s)
  <2>1. ~Takes(s) => \A i \in 1..Len(s.todo) : s.todo[i] # "debit"
    <3>. SUFFICES ASSUME ~Takes(s), NEW i \in 1..Len(Tail(r.todo))
                  PROVE  Tail(r.todo)[i] # "debit"
      BY <1>2
    <3>1. ~Takes(r)
      BY <1>2 DEF Takes
    <3>2. i + 1 \in 1..Len(r.todo) /\ Tail(r.todo)[i] = r.todo[i + 1]
      BY <1>1, TailTyped
    <3>. QED  BY <3>1, <3>2 DEF Fit
  <2>2. Bounded(jetton, s) /\ Funded(s) /\ jetton[s.jet] # NoJetton
    BY <1>2 DEF Fit, Bounded, Funded, Takes
  <2>. QED  BY <1>2, <2>1, <2>2 DEF CallOK, Fit
<1>4. CallOK(jetton', s)
  BY <1>3, CallStays
<1>. HIDE DEF s
<1>5. \/ jcall' = [jcall EXCEPT ![c] = s]
      \/ jcall' = [jcall EXCEPT ![c] = JIdle]
  BY DEF Onward, s
<1>6. \A d \in JCalls : CallOK(jetton', jcall[d])
  BY CallStays DEF Inv, CallsOK
<1>7. jcall \in [JCalls -> JCallState \cup {JIdle}]
  BY DEF Inv, JettonTypeOK
<1>8. CallOK(jetton', JIdle)
  BY DEF CallOK
<1>9. \A d \in JCalls : jcall'[d] \in {jcall[d], s, JIdle}
  BY <1>5, <1>7
<1>. QED  BY <1>2, <1>4, <1>5, <1>6, <1>7, <1>8, <1>9 DEF CallsOK

\* A handler returns, for whatever reason.
LEMMA ReturnKeeps ==
    ASSUME Inv, RowsStay, NEW c \in JCalls, JReturn(c)
    PROVE  CallsOK' /\ jcall' \in [JCalls -> JCallState \cup {JIdle}]
<1>1. \A d \in JCalls : CallOK(jetton', jcall[d]) /\ CallOK(jetton', JIdle)
  BY CallStays DEF Inv, CallsOK, CallOK
<1>2. /\ jcall \in [JCalls -> JCallState \cup {JIdle}]
      /\ jcall' = [jcall EXCEPT ![c] = JIdle]
  BY DEF Inv, JettonTypeOK, JReturn
<1>3. \A d \in JCalls : jcall'[d] \in {jcall[d], JIdle}
  BY <1>2
<1>. QED  BY <1>1, <1>2, <1>3 DEF CallsOK

\* No handler moves.
LEMMA RestKeeps ==
    ASSUME Inv, RowsStay, UNCHANGED jcall
    PROVE  CallsOK' /\ jcall' \in [JCalls -> JCallState \cup {JIdle}]
BY CallStays DEF Inv, CallsOK, JettonTypeOK

\* A handler starts on a row that is there now, and its total is in order.
LEMMA BeginKeeps ==
    ASSUME Inv, RowsStay, NEW c \in JCalls, NEW op \in DOMAIN Script, NEW j \in Jettons,
           NEW u \in Users, NEW v \in Users, NEW n \in Nat, NEW flags \in SUBSET Flags,
           NEW start \in Int, start = (IF jetton[j] = NoJetton THEN 0 ELSE jetton[j].supply),
           Begin(c, op, j, u, v, n, flags),
           jetton'[j] # NoJetton,
           jetton'[j].max # NoMax =>
              start <= jetton'[j].max /\ (op = "mint" => start + n <= jetton'[j].max)
    PROVE  CallsOK' /\ jcall' \in [JCalls -> JCallState \cup {JIdle}] /\ jops' \in Nat
<1>. DEFINE s == [op |-> op, jet |-> j, from |-> u, to |-> v, amount |-> n, had |-> 0,
                  has |-> 0, flags |-> flags, todo |-> Script[op], supply |-> start]
<1>1. s \in JCallState
  BY Scripts DEF JCallState
<1>2. CallOK(jetton', s)
  BY <1>1, Scripts DEF CallOK, Fit, Bounded, Takes, Funded
<1>3. jcall' = [jcall EXCEPT ![c] = s]
  BY DEF Begin
<1>. HIDE DEF s
<1>4. \A d \in JCalls : CallOK(jetton', jcall[d])
  BY CallStays DEF Inv, CallsOK
<1>5. jcall \in [JCalls -> JCallState \cup {JIdle}] /\ jops' \in Nat
  BY DEF Inv, JettonTypeOK, Begin
<1>6. \A d \in JCalls : jcall'[d] \in {jcall[d], s}
  BY <1>3, <1>5
<1>. QED  BY <1>1, <1>2, <1>3, <1>4, <1>5, <1>6 DEF CallsOK

\* What is known of a handler that is about to issue a statement.
LEMMA AtStage ==
    ASSUME Inv, NEW c \in JCalls, NEW st, Doing(c, st)
    PROVE  /\ jcall[c].todo # <<>>
           /\ jcall[c] \in JCallState /\ Fit(jetton, jcall[c])
           /\ st # "holder" => Funded(jcall[c])
           /\ st = "debit" => Takes(jcall[c])
<1>1. jcall[c].todo # <<>> /\ Head(jcall[c].todo) = st
  BY DEF Doing
<1>2. jcall[c] # JIdle
  BY <1>1 DEF JIdle
<1>3. Fit(jetton, jcall[c]) /\ (st # "holder" => Funded(jcall[c]))
  BY <1>1, <1>2 DEF Inv, CallsOK, CallOK
<1>4. jcall[c] \in JCallState
  BY <1>3 DEF Fit
<1>5. 1 \in 1..Len(jcall[c].todo) /\ Head(jcall[c].todo) = jcall[c].todo[1]
  <2>. DEFINE S == {"open", "holder", "payee", "debit", "credit", "supply", "record", "settings"}
  <2>1. jcall[c].todo \in Seq(S)
    BY <1>4 DEF JCallState
  <2>. HIDE DEF S
  <2>. QED  BY <1>1, <2>1
<1>. QED  BY <1>1, <1>3, <1>4, <1>5 DEF Fit

\* A row of a wallet is rewritten.
LEMMA PurseTyped ==
    ASSUME Inv, NEW j \in Jettons, NEW u \in Users, NEW row \in PurseRow,
           purse' = [purse EXCEPT ![j][u] = row]
    PROVE  purse' \in [Jettons -> [Users -> PurseRow]]
<1>1. purse \in [Jettons -> [Users -> PurseRow]]
  BY DEF Inv, JettonTypeOK
<1>. QED  BY <1>1

\* Opening and freezing a wallet change no balance.
LEMMA OpenTyped ==
    ASSUME Inv, NEW j \in Jettons, NEW u \in Users, NEW b \in BOOLEAN
    PROVE  /\ [purse[j][u] EXCEPT !.open = b] \in PurseRow
           /\ [purse[j][u] EXCEPT !.frozen = b] \in PurseRow
           /\ \A n \in Nat : [purse[j][u] EXCEPT !.balance = n] \in PurseRow
           /\ purse[j][u].balance \in Nat
<1>1. purse[j][u] \in PurseRow
  BY DEF Inv, JettonTypeOK
<1>. QED  BY <1>1 DEF PurseRow

LEMMA GetOrCreateTyped ==
    ASSUME Inv, NEW j \in Jettons, NEW u \in Users, GetOrCreate(j, u)
    PROVE  purse' \in [Jettons -> [Users -> PurseRow]]
<1>1. purse' = [purse EXCEPT ![j][u] = [purse[j][u] EXCEPT !.open = TRUE]]
  BY DEF GetOrCreate
<1>. QED  BY <1>1, OpenTyped, PurseTyped

\* A balance that is a number may be written.
LEMMA BalanceTyped ==
    ASSUME Inv, NEW j \in Jettons, NEW u \in Users, NEW n \in Nat,
           purse' = [purse EXCEPT ![j][u].balance = n]
    PROVE  purse' \in [Jettons -> [Users -> PurseRow]]
<1>1. purse' = [purse EXCEPT ![j][u] = [purse[j][u] EXCEPT !.balance = n]]
  OBVIOUS
<1>. QED  BY <1>1, OpenTyped, PurseTyped

\* A row is rewritten with its maximum, and a supply that is within it.
LEMMA RowWritten ==
    ASSUME Inv, NEW j \in Jettons, NEW row \in JettonRow,
           row.max # NoMax => row.supply <= row.max,
           jetton[j] # NoJetton => row.max = jetton[j].max,
           jetton' = [jetton EXCEPT ![j] = row]
    PROVE  /\ jetton' \in [Jettons -> JettonRow \cup {NoJetton}]
           /\ SupplyWithinMax' /\ RowsStay
           /\ jetton'[j] = row
<1>1. jetton \in [Jettons -> JettonRow \cup {NoJetton}]
  BY DEF Inv, JettonTypeOK
<1>2. NoJetton \notin JettonRow
  <2>1. \A x \in JettonRow : DOMAIN x = DOMAIN row
    BY DEF JettonRow
  <2>2. "max" \in DOMAIN row /\ "max" \notin DOMAIN NoJetton
    BY DEF JettonRow, NoJetton
  <2>. QED  BY <2>1, <2>2
<1>3. \A i \in Jettons : jetton'[i] = IF i = j THEN row ELSE jetton[i]
  BY <1>1
<1>. QED  BY <1>1, <1>2, <1>3 DEF Inv, SupplyWithinMax, RowsStay

\* No row changes.
LEMMA RowsRest ==
    ASSUME Inv, UNCHANGED jetton
    PROVE  /\ jetton' \in [Jettons -> JettonRow \cup {NoJetton}]
           /\ SupplyWithinMax' /\ RowsStay
BY DEF Inv, JettonTypeOK, SupplyWithinMax, RowsStay

-----------------------------------------------------------------------------
(* The invariant *)

LEMMA InvInit == JettonInit => Inv
<1>. SUFFICES ASSUME JettonInit PROVE Inv
  OBVIOUS
<1>1. JettonTypeOK
  BY DEF JettonInit, JettonTypeOK, PurseRow
<1>2. SupplyWithinMax /\ CallsOK
  BY DEF JettonInit, SupplyWithinMax, CallsOK, CallOK
<1>. QED  BY <1>1, <1>2 DEF Inv

\* What every step has to keep.
Kept ==
    /\ jetton' \in [Jettons -> JettonRow \cup {NoJetton}]
    /\ purse' \in [Jettons -> [Users -> PurseRow]]
    /\ books' \in [Jettons -> [Users -> Int]]
    /\ jcall' \in [JCalls -> JCallState \cup {JIdle}]
    /\ jops' \in Nat
    /\ SupplyWithinMax'
    /\ CallsOK'

LEMMA KeptIsInv == Kept => Inv'
BY DEF Kept, Inv, JettonTypeOK

LEMMA CreateKeeps ==
    ASSUME Inv, NEW c \in JCalls, Create(c)
    PROVE  Kept
<1>1. CASE \E j \in Jettons, u \in Users : CreateJetton(c, j, u)
  <2>1. PICK j \in Jettons, u \in Users : CreateJetton(c, j, u)
    BY <1>1
  <2>2. PICK q \in Requests :
           /\ q.max # NoMax => q.supply <= q.max
           /\ Begin(c, "create", j, u, u, q.supply, {})
           /\ jetton' = [jetton EXCEPT ![j] =
                 [owner |-> u, supply |-> q.supply, max |-> q.max,
                  freezable |-> q.freezable, readable |-> FALSE, deployed |-> FALSE,
                  enabled |-> q.enabled \cup {"transfers"}]]
           /\ books' = [books EXCEPT ![j][u] = @ + q.supply]
    BY <2>1 DEF CreateJetton
  <2>3. /\ q.supply \in Nat /\ q.max \in Nat \cup {NoMax} /\ q.freezable \in BOOLEAN
        /\ q.enabled \subseteq Flags
    BY JettonConstantsOK
  <2>. DEFINE row == [owner |-> u, supply |-> q.supply, max |-> q.max,
                      freezable |-> q.freezable, readable |-> FALSE, deployed |-> FALSE,
                      enabled |-> q.enabled \cup {"transfers"}]
  <2>4. row \in JettonRow /\ row.max = q.max /\ row.supply = q.supply
    BY <2>3 DEF JettonRow, Flags
  <2>5. jetton[j] = NoJetton /\ UNCHANGED purse
    BY <2>1 DEF CreateJetton
  <2>6. jetton' = [jetton EXCEPT ![j] = row]
    BY <2>2
  <2>. HIDE DEF row
  <2>7. /\ jetton' \in [Jettons -> JettonRow \cup {NoJetton}] /\ SupplyWithinMax' /\ RowsStay
        /\ jetton'[j] = row
    BY <2>2, <2>4, <2>5, <2>6, RowWritten
  <2>8. row # NoJetton
    <3>1. "max" \in DOMAIN row /\ "max" \notin DOMAIN NoJetton
      BY <2>4 DEF JettonRow, NoJetton
    <3>. QED  BY <3>1
  <2>9. CallsOK' /\ jcall' \in [JCalls -> JCallState \cup {JIdle}] /\ jops' \in Nat
    <3>1. "create" \in DOMAIN Script /\ {} \in SUBSET Flags
      BY DEF Script
    <3>2. jetton'[j].max # NoMax => 0 <= jetton'[j].max
      BY <2>3, <2>4, <2>7
    <3>3. 0 \in Int /\ 0 = (IF jetton[j] = NoJetton THEN 0 ELSE jetton[j].supply)
      BY <2>5
    <3>4. Begin(c, "create", j, u, u, q.supply, {}) /\ jetton'[j] # NoJetton
      BY <2>2, <2>7, <2>8
    <3>. QED  BY <2>3, <2>7, <3>1, <3>2, <3>3, <3>4, BeginKeeps
  <2>10. books' \in [Jettons -> [Users -> Int]]
    BY <2>2, <2>3 DEF Inv, JettonTypeOK
  <2>11. purse' \in [Jettons -> [Users -> PurseRow]]
    BY <2>5 DEF Inv, JettonTypeOK
  <2>. QED  BY <2>7, <2>9, <2>10, <2>11 DEF Kept
<1>2. CASE OpenOwnerWallet(c)
  <2>. DEFINE r == jcall[c]
  <2>1. r.todo # <<>> /\ r \in JCallState /\ Fit(jetton, r) /\ Funded(r)
    BY <1>2, AtStage DEF OpenOwnerWallet
  <2>2. /\ GetOrCreate(r.jet, r.from) /\ Onward(c, r) /\ UNCHANGED <<jetton, books, jops>>
        /\ r.jet \in Jettons /\ r.from \in Users
    BY <1>2, <2>1 DEF OpenOwnerWallet, JCallState
  <2>. HIDE DEF r
  <2>. QED  BY <2>1, <2>2, GetOrCreateTyped, OnwardKeeps, RowsRest DEF Kept, Inv, JettonTypeOK
<1>. QED  BY <1>1, <1>2 DEF Create

LEMMA SettingsKeep ==
    ASSUME Inv, NEW c \in JCalls, UpdateSettings(c)
    PROVE  Kept
<1>1. CASE \E j \in Jettons, u \in Users : SettingsGet(c, j, u)
  <2>1. PICK j \in Jettons, u \in Users : SettingsGet(c, j, u)
    BY <1>1
  <2>2. PICK ch \in Changes :
           Begin(c, "settings", j, u, u, 0, (jetton[j].enabled \cup ch.on) \ ch.off)
    BY <2>1 DEF SettingsGet
  <2>3. jetton[j] \in JettonRow /\ jetton[j] # NoJetton
    BY <2>1 DEF SettingsGet, Readable, Inv, JettonTypeOK
  <2>4. /\ "settings" \in DOMAIN Script /\ jetton[j].supply \in Int
        /\ (jetton[j].enabled \cup ch.on) \ ch.off \in SUBSET Flags
    BY <2>3, JettonConstantsOK DEF Script, JettonRow
  <2>5. UNCHANGED <<jetton, purse, books>>
    BY <2>1 DEF SettingsGet
  <2>6. jetton[j].max # NoMax => jetton[j].supply <= jetton[j].max
    BY <2>3 DEF Inv, SupplyWithinMax
  <2>7. CallsOK' /\ jcall' \in [JCalls -> JCallState \cup {JIdle}] /\ jops' \in Nat
    BY <2>2, <2>3, <2>4, <2>5, <2>6, RowsRest, BeginKeeps
  <2>. QED  BY <2>5, <2>7, RowsRest DEF Kept, Inv, JettonTypeOK
<1>2. CASE SettingsWrite(c)
  <2>. DEFINE r == jcall[c]
  <2>1. r.todo # <<>> /\ r \in JCallState /\ Fit(jetton, r) /\ Funded(r)
    BY <1>2, AtStage DEF SettingsWrite
  <2>2. /\ jetton' = [jetton EXCEPT ![r.jet].enabled = r.flags]
        /\ Onward(c, r) /\ UNCHANGED <<purse, books, jops>>
    BY <1>2 DEF SettingsWrite
  <2>3. r.jet \in Jettons /\ r.flags \in SUBSET Flags
    BY <2>1 DEF JCallState
  <2>. HIDE DEF r
  <2>4. jetton[r.jet] \in JettonRow /\ jetton[r.jet] # NoJetton
    BY <2>1, <2>3 DEF Fit, Inv, JettonTypeOK
  <2>. DEFINE row == [jetton[r.jet] EXCEPT !.enabled = r.flags]
  <2>5. /\ row \in JettonRow /\ row.max = jetton[r.jet].max
        /\ row.supply = jetton[r.jet].supply
    BY <2>3, <2>4 DEF JettonRow
  <2>6. jetton' = [jetton EXCEPT ![r.jet] = row]
    BY <2>2
  <2>. HIDE DEF row
  <2>7. row.max # NoMax => row.supply <= row.max
    BY <2>3, <2>4, <2>5 DEF Inv, SupplyWithinMax
  <2>8. jetton' \in [Jettons -> JettonRow \cup {NoJetton}] /\ SupplyWithinMax' /\ RowsStay
    BY <2>3, <2>5, <2>6, <2>7, RowWritten
  <2>9. CallsOK' /\ jcall' \in [JCalls -> JCallState \cup {JIdle}]
    BY <2>1, <2>2, <2>8, OnwardKeeps
  <2>. QED  BY <2>2, <2>8, <2>9 DEF Kept, Inv, JettonTypeOK
<1>. QED  BY <1>1, <1>2 DEF UpdateSettings

\* The first read of a Transfer, a Mint or a Burn.
LEMMA GetKeeps ==
    ASSUME Inv, NEW c \in JCalls, NEW op \in {"transfer", "mint", "burn"}, NEW j \in Jettons,
           NEW u \in Users, NEW v \in Users, NEW n \in 1..MaxAmount,
           Begin(c, op, j, u, v, n, {}), Readable(j), UNCHANGED <<jetton, purse, books>>,
           op = "mint" => (jetton[j].max # NoMax => jetton[j].supply + n <= jetton[j].max)
    PROVE  Kept
<1>1. jetton[j] \in JettonRow /\ jetton[j] # NoJetton
  BY DEF Readable, Inv, JettonTypeOK
<1>2. /\ op \in DOMAIN Script /\ n \in Nat /\ {} \in SUBSET Flags
      /\ jetton[j].supply \in Int
      /\ jetton[j].supply = (IF jetton[j] = NoJetton THEN 0 ELSE jetton[j].supply)
  BY <1>1, JettonConstantsOK DEF Script, JettonRow
<1>3. jetton'[j].max # NoMax =>
         /\ jetton[j].supply <= jetton'[j].max
         /\ op = "mint" => jetton[j].supply + n <= jetton'[j].max
  BY <1>1 DEF Inv, SupplyWithinMax
<1>4. jetton'[j] # NoJetton
  BY <1>1
<1>5. CallsOK' /\ jcall' \in [JCalls -> JCallState \cup {JIdle}] /\ jops' \in Nat
  BY <1>2, <1>3, <1>4, RowsRest, BeginKeeps
<1>. QED  BY <1>5, RowsRest DEF Kept, Inv, JettonTypeOK

\* The wallet paid from: whoever goes on has found enough in it.
LEMMA HolderKeeps ==
    ASSUME Inv, NEW c \in JCalls, HolderWallet(c)
    PROVE  Kept
<1>. DEFINE r == jcall[c]
            p == purse[r.jet][r.from]
            s == [r EXCEPT !.had = p.balance]
<1>1. r.todo # <<>> /\ r \in JCallState /\ Fit(jetton, r)
  BY AtStage DEF HolderWallet
<1>2. r.jet \in Jettons /\ r.from \in Users /\ r.amount \in Nat
  BY <1>1 DEF JCallState
<1>3. p.balance \in Nat
  BY <1>2, OpenTyped
<1>4. /\ s \in JCallState /\ s.op = r.op /\ s.jet = r.jet /\ s.amount = r.amount
      /\ s.supply = r.supply /\ s.todo = r.todo /\ s.had = p.balance
  BY <1>1, <1>3 DEF JCallState
<1>5. Fit(jetton, s) /\ s.todo # <<>>
  BY <1>1, <1>4 DEF Fit, Bounded, Takes
<1>6. GetOrCreate(r.jet, r.from) /\ UNCHANGED <<jetton, books, jops>>
  BY DEF HolderWallet
<1>7. JReturn(c) \/ (Onward(c, s) /\ ~(p.balance < r.amount))
  BY DEF HolderWallet
<1>8. ~(p.balance < r.amount) => Funded(s)
  BY <1>2, <1>3, <1>4 DEF Funded
<1>. HIDE DEF r, s, p
<1>9. CallsOK' /\ jcall' \in [JCalls -> JCallState \cup {JIdle}]
  BY <1>5, <1>6, <1>7, <1>8, RowsRest, OnwardKeeps, ReturnKeeps
<1>. QED  BY <1>2, <1>6, <1>9, RowsRest, GetOrCreateTyped DEF Kept, Inv, JettonTypeOK

\* The wallet paid to.
LEMMA PayeeKeeps ==
    ASSUME Inv, NEW c \in JCalls, PayeeWallet(c)
    PROVE  Kept
<1>. DEFINE r == jcall[c]
            s == [r EXCEPT !.has = purse[r.jet][r.to].balance]
<1>1. r.todo # <<>> /\ r \in JCallState /\ Fit(jetton, r) /\ Funded(r)
  BY AtStage DEF PayeeWallet
<1>2. r.jet \in Jettons /\ r.to \in Users
  BY <1>1 DEF JCallState
<1>3. purse[r.jet][r.to].balance \in Nat
  BY <1>2, OpenTyped
<1>4. /\ s \in JCallState /\ s.op = r.op /\ s.jet = r.jet /\ s.amount = r.amount
      /\ s.supply = r.supply /\ s.todo = r.todo /\ s.had = r.had
  BY <1>1, <1>3 DEF JCallState
<1>5. Fit(jetton, s) /\ Funded(s) /\ s.todo # <<>>
  BY <1>1, <1>4 DEF Fit, Bounded, Takes, Funded
<1>6. GetOrCreate(r.jet, r.to) /\ Onward(c, s) /\ UNCHANGED <<jetton, books, jops>>
  BY DEF PayeeWallet
<1>. HIDE DEF r, s
<1>7. CallsOK' /\ jcall' \in [JCalls -> JCallState \cup {JIdle}]
  BY <1>5, <1>6, RowsRest, OnwardKeeps
<1>. QED  BY <1>2, <1>6, <1>7, RowsRest, GetOrCreateTyped DEF Kept, Inv, JettonTypeOK

\* The two UPDATEs of balances: what is written is a number of tokens.
LEMMA BalancesKeep ==
    ASSUME Inv, NEW c \in JCalls, Debit(c) \/ Credit(c)
    PROVE  Kept
<1>. DEFINE r == jcall[c]
<1>1. r.todo # <<>> /\ r \in JCallState /\ Fit(jetton, r) /\ Funded(r)
  BY AtStage DEF Debit, Credit
<1>2. /\ r.jet \in Jettons /\ r.to \in Users /\ r.from \in Users
      /\ r.amount \in Nat /\ r.had \in Nat /\ r.has \in Nat
  BY <1>1 DEF JCallState
<1>3. purse' \in [Jettons -> [Users -> PurseRow]]
  <2>1. CASE Debit(c)
    <3>1. Takes(r)
      BY <2>1, AtStage DEF Debit
    <3>2. r.had - r.amount \in Nat
      BY <1>1, <1>2, <3>1 DEF Funded
    <3>3. purse' = [purse EXCEPT ![r.jet][r.from].balance = r.had - r.amount]
      BY <2>1 DEF Debit
    <3>. QED  BY <1>2, <3>2, <3>3, BalanceTyped
  <2>2. CASE Credit(c)
    <3>1. r.has + r.amount \in Nat
      BY <1>2
    <3>2. \/ UNCHANGED purse
          \/ purse' = [purse EXCEPT ![r.jet][r.to].balance = r.has + r.amount]
      BY <2>2 DEF Credit
    <3>3. purse \in [Jettons -> [Users -> PurseRow]]
      BY DEF Inv, JettonTypeOK
    <3>. HIDE DEF r
    <3>. QED  BY <1>2, <3>1, <3>2, <3>3, BalanceTyped
  <2>. QED  BY <2>1, <2>2
<1>4. Onward(c, r) /\ UNCHANGED <<jetton, books, jops>>
  BY DEF Debit, Credit
<1>. HIDE DEF r
<1>5. CallsOK' /\ jcall' \in [JCalls -> JCallState \cup {JIdle}]
  BY <1>1, <1>4, RowsRest, OnwardKeeps
<1>. QED  BY <1>3, <1>4, <1>5, RowsRest DEF Kept, Inv, JettonTypeOK

\* The row of the operation.
LEMMA RecordKeeps ==
    ASSUME Inv, NEW c \in JCalls, Record(c)
    PROVE  Kept
<1>. DEFINE r == jcall[c]
            out == IF r.op = "mint" THEN books[r.jet]
                   ELSE [books[r.jet] EXCEPT ![r.from] = @ - r.amount]
<1>1. r.todo # <<>> /\ r \in JCallState /\ Fit(jetton, r) /\ Funded(r)
  BY AtStage DEF Record
<1>2. r.jet \in Jettons /\ r.to \in Users /\ r.from \in Users /\ r.amount \in Nat
  BY <1>1 DEF JCallState
<1>3. books \in [Jettons -> [Users -> Int]]
  BY DEF Inv, JettonTypeOK
<1>4. out \in [Users -> Int]
  BY <1>2, <1>3
<1>5. [out EXCEPT ![r.to] = @ + r.amount] \in [Users -> Int]
  BY <1>2, <1>4
<1>6. books' = [books EXCEPT ![r.jet] =
                  IF r.op = "burn" THEN out ELSE [out EXCEPT ![r.to] = @ + r.amount]]
  BY DEF Record
<1>7. Onward(c, r) /\ UNCHANGED <<jetton, purse, jops>>
  BY DEF Record
<1>. HIDE DEF r, out
<1>8. books' \in [Jettons -> [Users -> Int]]
  BY <1>2, <1>3, <1>4, <1>5, <1>6
<1>9. CallsOK' /\ jcall' \in [JCalls -> JCallState \cup {JIdle}]
  BY <1>1, <1>7, RowsRest, OnwardKeeps
<1>. QED  BY <1>7, <1>8, <1>9, RowsRest DEF Kept, Inv, JettonTypeOK

\* The new total: a mint tested it, a burn only lowers what was within it.
LEMMA SupplyKeeps ==
    ASSUME Inv, NEW c \in JCalls, WriteSupply(c)
    PROVE  Kept
<1>. DEFINE r == jcall[c]
            total == IF r.op = "mint" THEN r.supply + r.amount ELSE r.supply - r.amount
<1>1. r.todo # <<>> /\ r \in JCallState /\ Fit(jetton, r) /\ Funded(r)
  BY AtStage DEF WriteSupply
<1>2. r.jet \in Jettons /\ r.amount \in Nat /\ r.supply \in Int
  BY <1>1 DEF JCallState
<1>3. jetton[r.jet] \in JettonRow /\ jetton[r.jet] # NoJetton
  BY <1>1, <1>2 DEF Fit, Inv, JettonTypeOK
<1>4. jetton[r.jet].max # NoMax => total <= jetton[r.jet].max
  <2>. SUFFICES ASSUME jetton[r.jet].max # NoMax PROVE total <= jetton[r.jet].max
    OBVIOUS
  <2>1. jetton[r.jet].max \in Nat
    BY <1>3 DEF JettonRow
  <2>2. r.supply <= jetton[r.jet].max
    BY <1>1 DEF Fit, Bounded
  <2>3. r.op = "mint" => r.supply + r.amount <= jetton[r.jet].max
    BY <1>1 DEF Fit, Bounded
  <2>. QED  BY <1>2, <2>1, <2>2, <2>3
<1>5. total \in Int
  BY <1>2
<1>6. /\ jetton' = [jetton EXCEPT ![r.jet].supply = total]
      /\ Onward(c, r) /\ UNCHANGED <<purse, books, jops>>
  BY DEF WriteSupply
<1>. HIDE DEF r, total
<1>. DEFINE row == [jetton[r.jet] EXCEPT !.supply = total]
<1>7. row \in JettonRow /\ row.max = jetton[r.jet].max /\ row.supply = total
  BY <1>3, <1>5 DEF JettonRow
<1>8. jetton' = [jetton EXCEPT ![r.jet] = row]
  BY <1>6
<1>. HIDE DEF row
<1>9. jetton' \in [Jettons -> JettonRow \cup {NoJetton}] /\ SupplyWithinMax' /\ RowsStay
  BY <1>2, <1>4, <1>7, <1>8, RowWritten
<1>10. CallsOK' /\ jcall' \in [JCalls -> JCallState \cup {JIdle}]
  BY <1>1, <1>6, <1>9, OnwardKeeps
<1>. QED  BY <1>6, <1>9, <1>10 DEF Kept, Inv, JettonTypeOK

\* What nobody but a token's owner does, in one statement.
LEMMA AdminKeeps ==
    ASSUME Inv, NEW j \in Jettons, Admin(j)
    PROVE  Kept
<1>1. CASE Backfill(j) \/ \E u \in Users : Deploy(j, u)
  <2>1. jetton[j] # NoJetton /\ jetton[j] \in JettonRow /\ UNCHANGED <<purse, books, jcall, jops>>
    BY <1>1 DEF Backfill, Deploy, Readable, Inv, JettonTypeOK
  <2>2. PICK row \in {[jetton[j] EXCEPT !.readable = TRUE], [jetton[j] EXCEPT !.deployed = TRUE]} :
           jetton' = [jetton EXCEPT ![j] = row]
    BY <1>1 DEF Backfill, Deploy
  <2>3. row \in JettonRow /\ row.max = jetton[j].max /\ row.supply = jetton[j].supply
    BY <2>1 DEF JettonRow
  <2>4. row.max # NoMax => row.supply <= row.max
    BY <2>1, <2>3 DEF Inv, SupplyWithinMax
  <2>5. jetton' \in [Jettons -> JettonRow \cup {NoJetton}] /\ SupplyWithinMax' /\ RowsStay
    BY <2>2, <2>3, <2>4, RowWritten
  <2>. QED  BY <2>1, <2>5, RestKeeps DEF Kept, Inv, JettonTypeOK
<1>2. CASE \E u \in Users : GetWallet(j, u)
  BY <1>2, GetOrCreateTyped, RowsRest, RestKeeps DEF GetWallet, Kept, Inv, JettonTypeOK
<1>3. CASE \E u, v \in Users : FreezeWallet(j, u, v) \/ UnfreezeWallet(j, u, v)
  <2>1. PICK v \in Users, b \in BOOLEAN :
           purse' = [purse EXCEPT ![j][v] = [purse[j][v] EXCEPT !.frozen = b]]
    BY <1>3 DEF FreezeWallet, UnfreezeWallet
  <2>2. purse' \in [Jettons -> [Users -> PurseRow]]
    BY <2>1, OpenTyped, PurseTyped
  <2>3. UNCHANGED <<jetton, books, jcall, jops>>
    BY <1>3 DEF FreezeWallet, UnfreezeWallet
  <2>. QED  BY <2>2, <2>3, RowsRest, RestKeeps DEF Kept, Inv, JettonTypeOK
<1>. QED  BY <1>1, <1>2, <1>3 DEF Admin

LEMMA InvNext == Inv /\ [JettonNext]_jettonVars => Inv'
<1>. SUFFICES ASSUME Inv, [JettonNext]_jettonVars PROVE Kept
  BY KeptIsInv
<1>1. CASE UNCHANGED jettonVars
  BY <1>1, RowsRest, RestKeeps DEF jettonVars, Kept, Inv, JettonTypeOK
<1>2. CASE \E j \in Jettons : Admin(j)
  BY <1>2, AdminKeeps
<1>3. ASSUME NEW c \in JCalls, Create(c) PROVE Kept
  BY <1>3, CreateKeeps
<1>4. ASSUME NEW c \in JCalls, UpdateSettings(c) PROVE Kept
  BY <1>4, SettingsKeep
<1>5. ASSUME NEW c \in JCalls, Transfer(c) PROVE Kept
  <2>1. CASE \E j \in Jettons, u, v \in Users, n \in 1..MaxAmount : TransferGet(c, j, u, v, n)
    BY <2>1, GetKeeps DEF TransferGet
  <2>. QED  BY <1>5, <2>1, HolderKeeps, PayeeKeeps, BalancesKeep, RecordKeeps DEF Transfer
<1>6. ASSUME NEW c \in JCalls, Mint(c) PROVE Kept
  <2>1. CASE \E j \in Jettons, u, v \in Users, n \in 1..MaxAmount : MintGet(c, j, u, v, n)
    BY <2>1, GetKeeps DEF MintGet
  <2>. QED  BY <1>6, <2>1, SupplyKeeps DEF Mint
<1>7. ASSUME NEW c \in JCalls, Burn(c) PROVE Kept
  BY <1>7, GetKeeps DEF Burn, BurnGet
<1>8. ASSUME NEW c \in JCalls, JettonFails(c) PROVE Kept
  BY <1>8, RowsRest, ReturnKeeps DEF JettonFails, Kept, Inv, JettonTypeOK
<1>. QED  BY <1>1, <1>2, <1>3, <1>4, <1>5, <1>6, <1>7, <1>8 DEF JettonNext

\* Inv holds in every reachable state.
THEOREM Invariant == JettonSpec => []Inv
<1>. QED  BY InvInit, InvNext, PTL DEF JettonSpec

-----------------------------------------------------------------------------
(* The theorems *)

(* Rows, balances and handlers are well typed whatever interleaves and      *)
(* fails; no balance that Transfer, Mint or Burn write is negative.         *)
THEOREM TypeCorrect == JettonSpec => []JettonTypeOK
<1>1. Inv => JettonTypeOK
  BY DEF Inv
<1>. QED  BY <1>1, Invariant, PTL

(* The total supply in a token's row never passes its maximum, however many *)
(* Mint and Burn calls compute it from what they read earlier.              *)
THEOREM SupplyIsBounded == JettonSpec => []SupplyWithinMax
<1>1. Inv => SupplyWithinMax
  BY DEF Inv
<1>. QED  BY <1>1, Invariant, PTL

-----------------------------------------------------------------------------
(* The ledger: Jetton implements TokenLedger when its handlers run one at a *)
(* time, without failures and without transfers to oneself.                 *)
(*                                                                          *)
(* The argument: a handler by itself computes from what the rows still      *)
(* hold.  The first of its two writes is the ledger's step, what it has yet *)
(* to write being counted in, and the second changes nothing.               *)

\* One handler, h, that does not fail.
Alone(h) ==
    /\ JCalls = {h}
    /\ ~SelfTransfers
    /\ ~JettonMayFail
    /\ \A q \in Requests : q.supply <= MaxAmount

\* What handler r has taken from a row, or created, and not yet credited.
Way(r, j, u) ==
    IF /\ r # JIdle /\ r.jet = j /\ r.to = u
       /\ \/ r.op = "create"
          \/ r.op = "transfer" /\ r.todo # <<>> /\ Head(r.todo) = "credit"
    THEN r.amount ELSE 0

\* What it has credited or debited and not yet put in the total.
Due(r, j) ==
    IF r.todo # <<>> /\ Head(r.todo) = "supply" /\ r.jet = j
    THEN IF r.op = "mint" THEN r.amount ELSE -r.amount
    ELSE 0

Holds(pu, r) == [j \in Jettons |-> [u \in Users |-> pu[j][u].balance + Way(r, j, u)]]

There(je, r) == [j \in Jettons |-> IF je[j] = NoJetton THEN 0 ELSE je[j].supply + Due(r, j)]

\* What is left of the scripts.
Left == [
    create   |-> {<<"open", "credit">>, <<"credit">>},
    transfer |-> {<<"holder", "payee", "debit", "credit", "record">>,
                  <<"payee", "debit", "credit", "record">>,
                  <<"debit", "credit", "record">>, <<"credit", "record">>, <<"record">>},
    mint     |-> {<<"payee", "credit", "supply", "record">>, <<"credit", "supply", "record">>,
                  <<"supply", "record">>, <<"record">>},
    burn     |-> {<<"holder", "debit", "supply", "record">>, <<"debit", "supply", "record">>,
                  <<"supply", "record">>, <<"record">>},
    settings |-> {<<"settings">>}]

\* The handler's locals agree with the rows.
SoloOK(pu, je, r) ==
    \/ r = JIdle
    \/ /\ r \in JCallState
       /\ r.todo \in Left[r.op]
       /\ je[r.jet] # NoJetton
       /\ r.op = "create" => r.has = 0 /\ \A u \in Users : pu[r.jet][u].balance = 0
       /\ r.op \in {"transfer", "mint", "burn"} => r.amount \in 1..MaxAmount
       /\ r.op = "transfer" => r.from # r.to
       /\ Takes(r) /\ Head(r.todo) \in {"payee", "debit"} =>
             r.had = pu[r.jet][r.from].balance /\ r.had >= r.amount
       /\ r.op \in {"transfer", "mint"} /\ Head(r.todo) \in {"debit", "credit"} =>
             r.has = pu[r.jet][r.to].balance
       /\ r.op \in {"mint", "burn"} /\ Head(r.todo) # "record" =>
             r.supply = je[r.jet].supply

SoloInv(h) ==
    /\ SoloOK(purse, jetton, jcall[h])
    /\ \A j \in Jettons, u \in Users : jetton[j] = NoJetton => purse[j][u].balance = 0

-----------------------------------------------------------------------------
(* The scripts *)

LEMMA Tuples ==
    ASSUME NEW a, NEW b, NEW c, NEW d, NEW e
    PROVE  /\ Head(<<a>>) = a /\ Tail(<<a>>) = <<>> /\ <<a>> # <<>>
           /\ Head(<<a, b>>) = a /\ Tail(<<a, b>>) = <<b>> /\ <<a, b>> # <<>>
           /\ Head(<<a, b, c>>) = a /\ Tail(<<a, b, c>>) = <<b, c>> /\ <<a, b, c>> # <<>>
           /\ Head(<<a, b, c, d>>) = a /\ Tail(<<a, b, c, d>>) = <<b, c, d>>
           /\ <<a, b, c, d>> # <<>>
           /\ Head(<<a, b, c, d, e>>) = a /\ Tail(<<a, b, c, d, e>>) = <<b, c, d, e>>
           /\ <<a, b, c, d, e>> # <<>>
OBVIOUS

\* q and the statement it starts with, next, or nothing, after it.
Goes(op, q, st, next) ==
    /\ q # <<>> /\ Head(q) = st
    /\ IF next = "end" THEN Tail(q) = <<>>
       ELSE Tail(q) # <<>> /\ Tail(q) \in Left[op] /\ Head(Tail(q)) = next

LEMMA CreateLeft ==
    ASSUME NEW q \in Left["create"]
    PROVE  Goes("create", q, "open", "credit") \/ Goes("create", q, "credit", "end")
<1>1. Left["create"] = {<<"open", "credit">>, <<"credit">>}
  BY DEF Left
<1>2. q = <<"open", "credit">> => Goes("create", q, "open", "credit")
  BY <1>1, Tuples DEF Goes
<1>3. q = <<"credit">> => Goes("create", q, "credit", "end")
  BY <1>1, Tuples DEF Goes
<1>. QED  BY <1>1, <1>2, <1>3

LEMMA TransferLeft ==
    ASSUME NEW q \in Left["transfer"]
    PROVE  \/ Goes("transfer", q, "holder", "payee") \/ Goes("transfer", q, "payee", "debit")
           \/ Goes("transfer", q, "debit", "credit") \/ Goes("transfer", q, "credit", "record")
           \/ Goes("transfer", q, "record", "end")
<1>1. Left["transfer"] = {<<"holder", "payee", "debit", "credit", "record">>,
                      <<"payee", "debit", "credit", "record">>,
                      <<"debit", "credit", "record">>,
                      <<"credit", "record">>,
                      <<"record">>}
  BY DEF Left
<1>2. q = <<"holder", "payee", "debit", "credit", "record">> =>
         Goes("transfer", q, "holder", "payee")
  BY <1>1, Tuples DEF Goes
<1>3. q = <<"payee", "debit", "credit", "record">> =>
         Goes("transfer", q, "payee", "debit")
  BY <1>1, Tuples DEF Goes
<1>4. q = <<"debit", "credit", "record">> =>
         Goes("transfer", q, "debit", "credit")
  BY <1>1, Tuples DEF Goes
<1>5. q = <<"credit", "record">> =>
         Goes("transfer", q, "credit", "record")
  BY <1>1, Tuples DEF Goes
<1>6. q = <<"record">> => Goes("transfer", q, "record", "end")
  BY <1>1, Tuples DEF Goes
<1>. QED  BY <1>1, <1>2, <1>3, <1>4, <1>5, <1>6

LEMMA MintLeft ==
    ASSUME NEW q \in Left["mint"]
    PROVE  \/ Goes("mint", q, "payee", "credit") \/ Goes("mint", q, "credit", "supply")
           \/ Goes("mint", q, "supply", "record") \/ Goes("mint", q, "record", "end")
<1>1. Left["mint"] = {<<"payee", "credit", "supply", "record">>,
                      <<"credit", "supply", "record">>,
                      <<"supply", "record">>,
                      <<"record">>}
  BY DEF Left
<1>2. q = <<"payee", "credit", "supply", "record">> =>
         Goes("mint", q, "payee", "credit")
  BY <1>1, Tuples DEF Goes
<1>3. q = <<"credit", "supply", "record">> =>
         Goes("mint", q, "credit", "supply")
  BY <1>1, Tuples DEF Goes
<1>4. q = <<"supply", "record">> =>
         Goes("mint", q, "supply", "record")
  BY <1>1, Tuples DEF Goes
<1>5. q = <<"record">> => Goes("mint", q, "record", "end")
  BY <1>1, Tuples DEF Goes
<1>. QED  BY <1>1, <1>2, <1>3, <1>4, <1>5

LEMMA BurnLeft ==
    ASSUME NEW q \in Left["burn"]
    PROVE  \/ Goes("burn", q, "holder", "debit") \/ Goes("burn", q, "debit", "supply")
           \/ Goes("burn", q, "supply", "record") \/ Goes("burn", q, "record", "end")
<1>1. Left["burn"] = {<<"holder", "debit", "supply", "record">>,
                      <<"debit", "supply", "record">>,
                      <<"supply", "record">>,
                      <<"record">>}
  BY DEF Left
<1>2. q = <<"holder", "debit", "supply", "record">> =>
         Goes("burn", q, "holder", "debit")
  BY <1>1, Tuples DEF Goes
<1>3. q = <<"debit", "supply", "record">> =>
         Goes("burn", q, "debit", "supply")
  BY <1>1, Tuples DEF Goes
<1>4. q = <<"supply", "record">> =>
         Goes("burn", q, "supply", "record")
  BY <1>1, Tuples DEF Goes
<1>5. q = <<"record">> => Goes("burn", q, "record", "end")
  BY <1>1, Tuples DEF Goes
<1>. QED  BY <1>1, <1>2, <1>3, <1>4, <1>5

LEMMA SettingsLeft ==
    ASSUME NEW q \in Left["settings"]
    PROVE  Goes("settings", q, "settings", "end")
<1>1. Left["settings"] = {<<"settings">>}
  BY DEF Left
<1>2. q = <<"settings">> => Goes("settings", q, "settings", "end")
  BY <1>1, Tuples DEF Goes
<1>. QED  BY <1>1, <1>2

LEMMA Fresh ==
    ASSUME NEW op \in DOMAIN Script
    PROVE  op \in DOMAIN Left /\ Script[op] \in Left[op] /\ DOMAIN Script = DOMAIN Left
BY DEF Script, Left

-----------------------------------------------------------------------------
(* The ledger's variables, with one handler *)

LEMMA Only ==
    ASSUME NEW a
    PROVE  (CHOOSE x \in {a} : TRUE) = a
OBVIOUS

LEMMA Bars ==
    ASSUME NEW h, JCalls = {h}
    PROVE  holdingBar = Holds(purse, jcall[h]) /\ supplyBar = There(jetton, jcall[h])
<1>1. ASSUME NEW j \in Jettons, NEW u \in Users PROVE OnItsWay(j, u) = Way(jcall[h], j, u)
  <2>. DEFINE it(d) == /\ jcall[d] # JIdle /\ jcall[d].jet = j /\ jcall[d].to = u
                       /\ \/ jcall[d].op = "create"
                          \/ jcall[d].op = "transfer" /\ Doing(d, "credit")
              r == {jcall[c] : c \in {d \in JCalls : it(d)}}
  <2>1. OnItsWay(j, u) = IF r = {} THEN 0 ELSE (CHOOSE x \in r : TRUE).amount
    BY DEF OnItsWay
  <2>2. r = IF it(h) THEN {jcall[h]} ELSE {}
    OBVIOUS
  <2>3. Way(jcall[h], j, u) = IF it(h) THEN jcall[h].amount ELSE 0
    BY DEF Way, Doing
  <2>. HIDE DEF it, r
  <2>. QED  BY <2>1, <2>2, <2>3, Only
<1>2. ASSUME NEW j \in Jettons PROVE Unaccounted(j) = Due(jcall[h], j)
  <2>. DEFINE it(d) == Doing(d, "supply") /\ jcall[d].jet = j
              r == {jcall[c] : c \in {d \in JCalls : it(d)}}
              x == CHOOSE x \in r : TRUE
  <2>1. Unaccounted(j) = IF r = {} THEN 0 ELSE IF x.op = "mint" THEN x.amount ELSE -x.amount
    BY DEF Unaccounted
  <2>2. r = IF it(h) THEN {jcall[h]} ELSE {}
    OBVIOUS
  <2>3. Due(jcall[h], j) = IF it(h) THEN IF jcall[h].op = "mint" THEN jcall[h].amount
                                         ELSE -jcall[h].amount
                           ELSE 0
    BY DEF Due, Doing
  <2>4. it(h) => x = jcall[h]
    BY <2>2, Only
  <2>. HIDE DEF it, r, x
  <2>. QED  BY <2>1, <2>2, <2>3, <2>4
<1>. QED  BY <1>1, <1>2 DEF holdingBar, supplyBar, Holds, There

LEMMA BarsNext ==
    ASSUME NEW h, JCalls = {h}
    PROVE  (holdingBar = Holds(purse, jcall[h]) /\ supplyBar = There(jetton, jcall[h]))'
BY Bars, PTL

-----------------------------------------------------------------------------
(* The handler by itself *)

\* Operation, statement, and the statement after it.
Follows == {
    <<"create", "open", "credit">>, <<"create", "credit", "end">>,
    <<"transfer", "holder", "payee">>, <<"transfer", "payee", "debit">>,
    <<"transfer", "debit", "credit">>, <<"transfer", "credit", "record">>,
    <<"transfer", "record", "end">>,
    <<"mint", "payee", "credit">>, <<"mint", "credit", "supply">>,
    <<"mint", "supply", "record">>, <<"mint", "record", "end">>,
    <<"burn", "holder", "debit">>, <<"burn", "debit", "supply">>,
    <<"burn", "supply", "record">>, <<"burn", "record", "end">>,
    <<"settings", "settings", "end">>}

LEMMA SoloAt ==
    ASSUME NEW h, SoloInv(h), NEW st, Doing(h, st)
    PROVE  /\ jcall[h] # JIdle /\ jcall[h] \in JCallState
           /\ jcall[h].todo # <<>> /\ Head(jcall[h].todo) = st
           /\ \E next : /\ <<jcall[h].op, st, next>> \in Follows
                        /\ Goes(jcall[h].op, jcall[h].todo, st, next)
<1>. DEFINE r == jcall[h]
<1>1. r.todo # <<>> /\ Head(r.todo) = st /\ r # JIdle
  BY DEF Doing, JIdle
<1>2. r \in JCallState /\ r.todo \in Left[r.op]
  BY <1>1 DEF SoloInv, SoloOK
<1>3. r.op \in {"create", "transfer", "mint", "burn", "settings"}
  BY <1>2 DEF JCallState, Script
<1>. HIDE DEF r
<1>4. \E to, next : <<r.op, to, next>> \in Follows /\ Goes(r.op, r.todo, to, next)
  <2>1. CASE r.op = "create"
    BY <1>2, <2>1, CreateLeft DEF Follows
  <2>2. CASE r.op = "transfer"
    BY <1>2, <2>2, TransferLeft DEF Follows
  <2>3. CASE r.op = "mint"
    BY <1>2, <2>3, MintLeft DEF Follows
  <2>4. CASE r.op = "burn"
    BY <1>2, <2>4, BurnLeft DEF Follows
  <2>5. CASE r.op = "settings"
    BY <1>2, <2>5, SettingsLeft DEF Follows
  <2>. QED  BY <1>3, <2>1, <2>2, <2>3, <2>4, <2>5
<1>5. \A to, next : Goes(r.op, r.todo, to, next) => to = st
  BY <1>1 DEF Goes
<1>. QED  BY <1>1, <1>2, <1>4, <1>5 DEF r

\* s is r at its next statement.
Moved(r, s, next) ==
    /\ s \in JCallState /\ s # JIdle
    /\ s.op = r.op /\ s.jet = r.jet /\ s.from = r.from /\ s.to = r.to
    /\ s.amount = r.amount /\ s.had = r.had /\ s.has = r.has /\ s.supply = r.supply
    /\ s.todo \in Left[s.op] /\ s.todo # <<>> /\ Head(s.todo) = next

LEMMA SoloOnward ==
    ASSUME NEW h, Alone(h), Inv, NEW r \in JCallState, Onward(h, r),
           NEW st, NEW next, Goes(r.op, r.todo, st, next)
    PROVE  IF next = "end" THEN jcall'[h] = JIdle ELSE Moved(r, jcall'[h], next)
<1>. DEFINE s == [r EXCEPT !.todo = Tail(@)]
<1>1. h \in JCalls /\ jcall \in [JCalls -> JCallState \cup {JIdle}]
  BY DEF Alone, Inv, JettonTypeOK
<1>2. jcall'[h] = IF Tail(r.todo) = <<>> THEN JIdle ELSE s
  BY <1>1 DEF Onward
<1>3. CASE next = "end"
  BY <1>2, <1>3 DEF Goes
<1>4. CASE next # "end"
  <2>1. r.todo # <<>> /\ Tail(r.todo) # <<>> /\ Tail(r.todo) \in Left[r.op] /\ Head(Tail(r.todo)) = next
    BY <1>4 DEF Goes
  <2>2. s \in JCallState
    BY <2>1, TailTyped
  <2>3. /\ s.todo = Tail(r.todo) /\ s.op = r.op /\ s.jet = r.jet /\ s.from = r.from
        /\ s.to = r.to /\ s.amount = r.amount /\ s.had = r.had /\ s.has = r.has
        /\ s.supply = r.supply
    BY DEF JCallState
  <2>. HIDE DEF s
  <2>4. s # JIdle
    <3>1. JIdle.todo = <<>>
      BY DEF JIdle
    <3>. QED  BY <2>1, <2>3, <3>1
  <2>. QED  BY <1>2, <1>4, <2>1, <2>2, <2>3, <2>4 DEF Moved
<1>. QED  BY <1>3, <1>4

\* What the rows hold.
LEMMA RowsTyped ==
    ASSUME Inv, NEW j \in Jettons, NEW u \in Users
    PROVE  /\ purse[j][u].balance \in Nat
           /\ jetton[j] # NoJetton => jetton[j] \in JettonRow /\ jetton[j].supply \in Int
BY DEF Inv, JettonTypeOK, PurseRow, JettonRow

LEMMA WayDue ==
    ASSUME NEW r, r = JIdle \/ r \in JCallState, NEW j, NEW u
    PROVE  /\ Way(r, j, u) \in Nat /\ Due(r, j) \in Int
           /\ r = JIdle => Way(r, j, u) = 0 /\ Due(r, j) = 0
<1>1. JIdle.todo = <<>>
  BY DEF JIdle
<1>2. CASE r = JIdle
  BY <1>1, <1>2 DEF Way, Due
<1>3. CASE r \in JCallState
  <2>1. r.amount \in Nat
    BY <1>3 DEF JCallState
  <2>. QED  BY <1>1, <1>3, <2>1 DEF Way, Due
<1>. QED  BY <1>2, <1>3

\* Nothing the ledger counts changes.
LEMMA Quiet ==
    ASSUME NEW h, Alone(h),
           \A j \in Jettons, u \in Users :
              purse'[j][u].balance + Way(jcall'[h], j, u) = purse[j][u].balance + Way(jcall[h], j, u),
           \A j \in Jettons :
              (IF jetton'[j] = NoJetton THEN 0 ELSE jetton'[j].supply + Due(jcall'[h], j))
              = (IF jetton[j] = NoJetton THEN 0 ELSE jetton[j].supply + Due(jcall[h], j))
    PROVE  UNCHANGED <<holdingBar, supplyBar>>
<1>1. holdingBar = Holds(purse, jcall[h]) /\ supplyBar = There(jetton, jcall[h])
  BY Bars DEF Alone
<1>2. (holdingBar = Holds(purse, jcall[h]) /\ supplyBar = There(jetton, jcall[h]))'
  BY BarsNext DEF Alone
<1>. QED  BY <1>1, <1>2 DEF Holds, There

-----------------------------------------------------------------------------
(* Steps that the ledger does not see *)

\* What a step has to show.
Steps(h) ==
    /\ SoloInv(h)'
    /\ Ledger!LedgerNext \/ UNCHANGED <<holdingBar, supplyBar>>

Ready(h) == Alone(h) /\ Inv /\ SoloInv(h)

\* Whether wallets are open or frozen and what a token allows aside, the rows
\* stay what they are.
SameRows == \A j \in Jettons :
    /\ jetton'[j] = NoJetton <=> jetton[j] = NoJetton
    /\ jetton[j] # NoJetton => jetton'[j].supply = jetton[j].supply
    /\ \A u \in Users : purse'[j][u].balance = purse[j][u].balance

\* A handler counts for something only at some statements.
LEMMA Counted ==
    ASSUME NEW r, NEW st, r.todo # <<>>, Head(r.todo) = st, r # JIdle, NEW j, NEW u
    PROVE  /\ Way(r, j, u) = IF /\ r.jet = j /\ r.to = u
                                /\ r.op = "create" \/ (r.op = "transfer" /\ st = "credit")
                             THEN r.amount ELSE 0
           /\ Due(r, j) = IF st = "supply" /\ r.jet = j
                          THEN IF r.op = "mint" THEN r.amount ELSE -r.amount ELSE 0
BY DEF Way, Due

LEMMA StepOn ==
    ASSUME NEW h, Ready(h), SameRows, SoloOK(purse, jetton, jcall'[h]),
           \A j \in Jettons : Due(jcall'[h], j) = Due(jcall[h], j),
           \A j \in Jettons, u \in Users : Way(jcall'[h], j, u) = Way(jcall[h], j, u)
    PROVE  Steps(h)
<1>. DEFINE s == jcall'[h]
<1>1. SoloOK(purse', jetton', s)
  <2>1. CASE s = JIdle
    BY <2>1 DEF SoloOK
  <2>2. CASE s # JIdle
    <3>1. s \in JCallState
      BY <2>2 DEF SoloOK
    <3>2. s.jet \in Jettons /\ s.from \in Users /\ s.to \in Users
      BY <3>1 DEF JCallState
    <3>. HIDE DEF s
    <3>3. SoloOK(purse, jetton, s)
      BY DEF s
    <3>4. /\ jetton[s.jet] # NoJetton /\ jetton'[s.jet] # NoJetton
          /\ jetton'[s.jet].supply = jetton[s.jet].supply
          /\ \A u \in Users : purse'[s.jet][u].balance = purse[s.jet][u].balance
      BY <2>2, <3>2, <3>3 DEF SoloOK, SameRows
    <3>. QED  BY <2>2, <3>2, <3>3, <3>4 DEF SoloOK
  <2>. QED  BY <2>1, <2>2
<1>2. SoloInv(h)'
  BY <1>1 DEF SoloInv, SameRows, Ready
<1>3. \A j \in Jettons, u \in Users :
         purse'[j][u].balance + Way(s, j, u) = purse[j][u].balance + Way(jcall[h], j, u)
  BY DEF SameRows
<1>4. \A j \in Jettons :
         (IF jetton'[j] = NoJetton THEN 0 ELSE jetton'[j].supply + Due(s, j))
         = (IF jetton[j] = NoJetton THEN 0 ELSE jetton[j].supply + Due(jcall[h], j))
  BY DEF SameRows
<1>5. UNCHANGED <<holdingBar, supplyBar>>
  BY <1>3, <1>4, Quiet DEF Ready
<1>. QED  BY <1>2, <1>5 DEF Steps

\* Nobody is at work: no state of a handler is less.
LEMMA Rests ==
    ASSUME NEW h, Ready(h), UNCHANGED jcall, SameRows
    PROVE  Steps(h)
BY StepOn DEF Ready, SoloInv

\* The rows that change in what the ledger does not count.
LEMMA Opened ==
    ASSUME Inv, NEW j \in Jettons, NEW u \in Users, NEW b \in BOOLEAN, UNCHANGED jetton,
           \/ purse' = [purse EXCEPT ![j][u].open = b]
           \/ purse' = [purse EXCEPT ![j][u].frozen = b]
    PROVE  SameRows
<1>1. purse \in [Jettons -> [Users -> PurseRow]]
  BY DEF Inv, JettonTypeOK
<1>. SUFFICES ASSUME NEW k \in Jettons, NEW v \in Users
              PROVE  purse'[k][v].balance = purse[k][v].balance
  BY DEF SameRows
<1>2. \/ purse'[k][v] = purse[k][v]
      \/ purse'[k][v] = [purse[k][v] EXCEPT !.open = b]
      \/ purse'[k][v] = [purse[k][v] EXCEPT !.frozen = b]
  BY <1>1
<1>3. purse[k][v] \in PurseRow
  BY <1>1
<1>. QED  BY <1>2, <1>3 DEF PurseRow

LEMMA Flagged ==
    ASSUME Inv, NEW j \in Jettons, jetton[j] # NoJetton, UNCHANGED purse,
           NEW row \in JettonRow, row.supply = jetton[j].supply,
           jetton' = [jetton EXCEPT ![j] = row]
    PROVE  SameRows
<1>1. jetton \in [Jettons -> JettonRow \cup {NoJetton}]
  BY DEF Inv, JettonTypeOK
<1>2. row # NoJetton
  <2>1. "max" \in DOMAIN row /\ "max" \notin DOMAIN NoJetton
    BY DEF JettonRow, NoJetton
  <2>. QED  BY <2>1
<1>. QED  BY <1>1, <1>2 DEF SameRows

LEMMA AdminRows ==
    ASSUME Inv, NEW j \in Jettons, Admin(j)
    PROVE  UNCHANGED <<jcall, books>> /\ SameRows
<1>1. jetton[j] # NoJetton =>
         /\ [jetton[j] EXCEPT !.readable = TRUE] \in JettonRow
         /\ [jetton[j] EXCEPT !.deployed = TRUE] \in JettonRow
         /\ [jetton[j] EXCEPT !.readable = TRUE].supply = jetton[j].supply
         /\ [jetton[j] EXCEPT !.deployed = TRUE].supply = jetton[j].supply
  BY DEF Inv, JettonTypeOK, JettonRow
<1>2. UNCHANGED <<jcall, books>>
  BY DEF Admin, Backfill, Deploy, GetWallet, FreezeWallet, UnfreezeWallet
<1>3. CASE Backfill(j)
  <2>1. /\ jetton[j] # NoJetton /\ UNCHANGED purse
        /\ jetton' = [jetton EXCEPT ![j] = [jetton[j] EXCEPT !.readable = TRUE]]
    BY <1>3 DEF Backfill
  <2>. QED  BY <1>1, <1>2, <2>1, Flagged
<1>4. CASE \E u \in Users : Deploy(j, u)
  <2>1. /\ jetton[j] # NoJetton /\ UNCHANGED purse
        /\ jetton' = [jetton EXCEPT ![j] = [jetton[j] EXCEPT !.deployed = TRUE]]
    BY <1>4 DEF Deploy, Readable
  <2>. QED  BY <1>1, <1>2, <2>1, Flagged
<1>5. CASE \E u \in Users : GetWallet(j, u)
  BY <1>2, <1>5, Opened DEF GetWallet, GetOrCreate
<1>6. CASE \E u, v \in Users : FreezeWallet(j, u, v) \/ UnfreezeWallet(j, u, v)
  BY <1>2, <1>6, Opened DEF FreezeWallet, UnfreezeWallet
<1>. QED  BY <1>3, <1>4, <1>5, <1>6 DEF Admin

LEMMA AdminSteps ==
    ASSUME NEW h, Ready(h), NEW j \in Jettons, Admin(j)
    PROVE  Steps(h)
BY AdminRows, Rests DEF Ready

-----------------------------------------------------------------------------
(* A handler starts *)

\* The handler Begin makes.
LEMMA Begun ==
    ASSUME NEW h, Ready(h), NEW op \in DOMAIN Script, NEW j \in Jettons,
           NEW u \in Users, NEW v \in Users, NEW n \in Nat, NEW flags \in SUBSET Flags,
           NEW start \in Int, start = (IF jetton[j] = NoJetton THEN 0 ELSE jetton[j].supply),
           Begin(h, op, j, u, v, n, flags)
    PROVE  LET s == jcall'[h] IN
           /\ jcall[h] = JIdle
           /\ s \in JCallState /\ s # JIdle
           /\ s.op = op /\ s.jet = j /\ s.from = u /\ s.to = v /\ s.amount = n
           /\ s.had = 0 /\ s.has = 0 /\ s.supply = start
           /\ s.todo = Script[op] /\ s.todo \in Left[s.op] /\ s.todo # <<>>
<1>. DEFINE s == [op |-> op, jet |-> j, from |-> u, to |-> v, amount |-> n, had |-> 0,
                  has |-> 0, flags |-> flags, todo |-> Script[op], supply |-> start]
<1>1. s \in JCallState
  BY Scripts DEF JCallState
<1>2. s.todo # <<>> /\ JIdle.todo = <<>>
  BY Scripts DEF JIdle
<1>3. jcall \in [JCalls -> JCallState \cup {JIdle}] /\ h \in JCalls
  BY DEF Ready, Alone, Inv, JettonTypeOK
<1>4. jcall'[h] = s /\ jcall[h] = JIdle
  BY <1>3 DEF Begin
<1>5. s.todo \in Left[s.op]
  BY Fresh
<1>. QED  BY <1>1, <1>2, <1>4, <1>5

\* The first statement of each script.
LEMMA First ==
    /\ Head(Script["create"]) = "open" /\ Head(Script["transfer"]) = "holder"
    /\ Head(Script["mint"]) = "payee" /\ Head(Script["burn"]) = "holder"
    /\ Head(Script["settings"]) = "settings"
BY DEF Script

LEMMA GetSteps ==
    ASSUME NEW h, Ready(h), NEW op \in {"transfer", "mint", "burn", "settings"},
           NEW j \in Jettons, NEW u \in Users, NEW v \in Users, NEW n \in Nat,
           NEW flags \in SUBSET Flags, jetton[j] # NoJetton,
           op # "settings" => n \in 1..MaxAmount,
           op = "transfer" => u # v,
           Begin(h, op, j, u, v, n, flags), UNCHANGED <<jetton, purse>>
    PROVE  Steps(h)
<1>. DEFINE s == jcall'[h]
<1>1. jetton[j].supply \in Int /\ op \in DOMAIN Script
  BY DEF Ready, Inv, JettonTypeOK, JettonRow, Script
<1>2. /\ jcall[h] = JIdle /\ s \in JCallState /\ s # JIdle
      /\ s.op = op /\ s.jet = j /\ s.from = u /\ s.to = v /\ s.amount = n
      /\ s.supply = jetton[j].supply
      /\ s.todo = Script[op] /\ s.todo \in Left[s.op] /\ s.todo # <<>>
  BY <1>1, Begun
<1>. HIDE DEF s
<1>3. /\ op = "transfer" => Head(s.todo) = "holder"
      /\ op = "mint" => Head(s.todo) = "payee"
      /\ op = "burn" => Head(s.todo) = "holder"
      /\ op = "settings" => Head(s.todo) = "settings"
  BY <1>2, First
<1>4. SoloOK(purse, jetton, s)
  BY <1>2, <1>3 DEF SoloOK, Takes
<1>5. \A k \in Jettons : Due(s, k) = 0
  BY <1>2, <1>3, Counted DEF Due
<1>6. \A k \in Jettons, w \in Users : Way(s, k, w) = 0
  BY <1>2, <1>3 DEF Way
<1>7. SameRows
  BY DEF SameRows
<1>8. \A k \in Jettons, w \in Users : Way(jcall[h], k, w) = 0
  BY <1>2, WayDue
<1>9. \A k \in Jettons : Due(jcall[h], k) = 0
  BY <1>2, WayDue
<1>. QED  BY <1>4, <1>5, <1>6, <1>7, <1>8, <1>9, StepOn DEF s

LEMMA StartSteps ==
    ASSUME NEW h, Ready(h), NEW j \in Jettons, NEW u \in Users, NEW v \in Users,
           \/ SettingsGet(h, j, u)
           \/ \E n \in 1..MaxAmount :
                 TransferGet(h, j, u, v, n) \/ MintGet(h, j, u, v, n) \/ BurnGet(h, j, u, n)
    PROVE  Steps(h)
<1>1. {} \in SUBSET Flags /\ 1..MaxAmount \subseteq Nat /\ 0 \in Nat
  BY JettonConstantsOK
<1>2. CASE SettingsGet(h, j, u)
  <2>1. PICK ch \in Changes :
           Begin(h, "settings", j, u, u, 0, (jetton[j].enabled \cup ch.on) \ ch.off)
    BY <1>2 DEF SettingsGet
  <2>2. jetton[j] # NoJetton /\ jetton[j] \in JettonRow /\ UNCHANGED <<jetton, purse>>
    BY <1>2 DEF SettingsGet, Readable, Ready, Inv, JettonTypeOK
  <2>3. (jetton[j].enabled \cup ch.on) \ ch.off \in SUBSET Flags
    BY <2>2, JettonConstantsOK DEF JettonRow
  <2>. QED  BY <1>1, <2>1, <2>2, <2>3, GetSteps
<1>3. ASSUME NEW n \in 1..MaxAmount, TransferGet(h, j, u, v, n)
      PROVE  Steps(h)
  <2>1. u # v /\ jetton[j] # NoJetton /\ UNCHANGED <<jetton, purse>>
        /\ Begin(h, "transfer", j, u, v, n, {})
    BY <1>3 DEF TransferGet, Readable, Ready, Alone
  <2>. QED  BY <1>1, <2>1, GetSteps
<1>4. ASSUME NEW n \in 1..MaxAmount, MintGet(h, j, u, v, n)
      PROVE  Steps(h)
  <2>1. jetton[j] # NoJetton /\ UNCHANGED <<jetton, purse>>
        /\ Begin(h, "mint", j, u, v, n, {})
    BY <1>4 DEF MintGet, Readable
  <2>. QED  BY <1>1, <2>1, GetSteps
<1>5. ASSUME NEW n \in 1..MaxAmount, BurnGet(h, j, u, n)
      PROVE  Steps(h)
  <2>1. jetton[j] # NoJetton /\ UNCHANGED <<jetton, purse>>
        /\ Begin(h, "burn", j, u, u, n, {})
    BY <1>5 DEF BurnGet, Readable
  <2>. QED  BY <1>1, <2>1, GetSteps
<1>. QED  BY <1>2, <1>3, <1>4, <1>5

-----------------------------------------------------------------------------
(* Statements that the ledger does not see *)

\* Where a handler goes on to, with locals r.
LEMMA GoesOn ==
    ASSUME NEW h, Ready(h), NEW st, Doing(h, st), NEW r \in JCallState,
           r.op = jcall[h].op, r.todo = jcall[h].todo, Onward(h, r)
    PROVE  \E next : /\ <<r.op, st, next>> \in Follows
                     /\ IF next = "end" THEN jcall'[h] = JIdle
                        ELSE Moved(r, jcall'[h], next)
<1>1. PICK next : <<r.op, st, next>> \in Follows /\ Goes(r.op, r.todo, st, next)
  BY SoloAt DEF Ready
<1>2. IF next = "end" THEN jcall'[h] = JIdle ELSE Moved(r, jcall'[h], next)
  BY <1>1, SoloOnward DEF Ready
<1>. QED  BY <1>1, <1>2

\* A handler at work, and its row.
LEMMA AtWork ==
    ASSUME NEW h, Ready(h), NEW st, Doing(h, st)
    PROVE  LET r == jcall[h] IN
           /\ Inv /\ h \in JCalls /\ r \in JCallState /\ r # JIdle
           /\ r.todo # <<>> /\ Head(r.todo) = st
           /\ r.jet \in Jettons /\ r.from \in Users /\ r.to \in Users
           /\ r.amount \in Nat /\ r.had \in Nat /\ r.has \in Nat /\ r.supply \in Int
           /\ jetton[r.jet] # NoJetton /\ jetton[r.jet] \in JettonRow
           /\ jetton[r.jet].supply \in Int
           /\ SoloOK(purse, jetton, r)
<1>1. /\ jcall[h] \in JCallState /\ jcall[h] # JIdle
      /\ jcall[h].todo # <<>> /\ Head(jcall[h].todo) = st
  BY SoloAt DEF Ready
<1>2. jcall[h].jet \in Jettons
  BY <1>1 DEF JCallState
<1>3. jetton[jcall[h].jet] # NoJetton
  BY <1>1 DEF Ready, SoloInv, SoloOK
<1>4. jetton[jcall[h].jet] \in JettonRow
  BY <1>2, <1>3 DEF Ready, Inv, JettonTypeOK
<1>. QED  BY <1>1, <1>2, <1>3, <1>4 DEF Ready, Alone, SoloInv, JCallState, JettonRow

LEMMA OpenSteps ==
    ASSUME NEW h, Ready(h), OpenOwnerWallet(h)
    PROVE  Steps(h)
<1>. DEFINE r == jcall[h]
            s == jcall'[h]
<1>1. Doing(h, "open") /\ GetOrCreate(r.jet, r.from) /\ Onward(h, r) /\ UNCHANGED jetton
  BY DEF OpenOwnerWallet
<1>2. /\ Inv /\ r \in JCallState /\ r # JIdle /\ r.todo # <<>> /\ Head(r.todo) = "open"
      /\ r.jet \in Jettons /\ r.from \in Users /\ jetton[r.jet] # NoJetton
      /\ SoloOK(purse, jetton, r)
  BY <1>1, AtWork
<1>3. PICK next : /\ <<r.op, "open", next>> \in Follows
                  /\ IF next = "end" THEN s = JIdle ELSE Moved(r, s, next)
  BY <1>1, <1>2, GoesOn
<1>. HIDE DEF r, s
<1>4. r.op = "create" /\ next = "credit" /\ Moved(r, s, "credit")
  BY <1>3 DEF Follows
<1>5. SoloOK(purse, jetton, s)
  BY <1>2, <1>4 DEF SoloOK, Moved, Takes
<1>6. SameRows
  BY <1>1, <1>2, Opened DEF GetOrCreate
<1>7. \A j \in Jettons, u \in Users : Way(s, j, u) = Way(r, j, u)
  BY <1>2, <1>4 DEF Way, Moved
<1>8. \A j \in Jettons : Due(s, j) = Due(r, j)
  BY <1>2, <1>4 DEF Due, Moved
<1>. QED  BY <1>5, <1>6, <1>7, <1>8, StepOn DEF r, s

LEMMA HolderSteps ==
    ASSUME NEW h, Ready(h), HolderWallet(h)
    PROVE  Steps(h)
<1>. DEFINE q == jcall[h]
            b == purse[q.jet][q.from].balance
            r == [q EXCEPT !.had = b]
            s == jcall'[h]
<1>1. /\ Doing(h, "holder") /\ GetOrCreate(q.jet, q.from) /\ UNCHANGED jetton
      /\ JReturn(h) \/ (~(b < q.amount) /\ Onward(h, r))
  BY DEF HolderWallet
<1>2. /\ Inv /\ h \in JCalls
      /\ q \in JCallState /\ q # JIdle /\ q.todo # <<>> /\ Head(q.todo) = "holder"
      /\ q.jet \in Jettons /\ q.from \in Users /\ q.amount \in Nat
      /\ jetton[q.jet] # NoJetton
      /\ SoloOK(purse, jetton, q)
  BY <1>1, AtWork
<1>3. b \in Nat
  BY <1>2, RowsTyped
<1>4. /\ r \in JCallState /\ r.op = q.op /\ r.jet = q.jet /\ r.from = q.from /\ r.to = q.to
      /\ r.amount = q.amount /\ r.has = q.has /\ r.supply = q.supply /\ r.todo = q.todo
      /\ r.had = b
  BY <1>2, <1>3 DEF JCallState
<1>5. PICK at, next : <<q.op, at, next>> \in Follows /\ at = "holder"
  BY <1>1, SoloAt DEF Ready
<1>6. q.op \in {"transfer", "burn"}
  BY <1>5 DEF Follows
<1>7. \A j \in Jettons, u \in Users : Way(q, j, u) = 0
  BY <1>2, <1>6 DEF Way
<1>8. \A j \in Jettons : Due(q, j) = 0
  BY <1>2 DEF Due
<1>9. SameRows
  BY <1>1, <1>2, Opened DEF GetOrCreate
<1>10. CASE JReturn(h)
  <2>1. s = JIdle
    BY <1>2, <1>10 DEF JReturn, Inv, JettonTypeOK
  <2>2. SoloOK(purse, jetton, s)
    BY <2>1 DEF SoloOK
  <2>3. \A j \in Jettons, u \in Users : Way(s, j, u) = 0
    BY <2>1, WayDue
  <2>4. \A j \in Jettons : Due(s, j) = 0
    BY <2>1, WayDue
  <2>. QED  BY <1>7, <1>8, <1>9, <2>2, <2>3, <2>4, StepOn
<1>11. CASE ~(b < q.amount) /\ Onward(h, r)
  <2>1. PICK to : /\ <<r.op, "holder", to>> \in Follows
                  /\ IF to = "end" THEN s = JIdle ELSE Moved(r, s, to)
    BY <1>1, <1>4, <1>11, GoesOn
  <2>. HIDE DEF q, r, s, b
  <2>2. to \in {"payee", "debit"} /\ Moved(r, s, to)
    BY <2>1, <1>4, <1>6 DEF Follows
  <2>3. q.amount <= b
    BY <1>2, <1>3, <1>11
  <2>4. b = purse[q.jet][q.from].balance
    BY DEF b
  <2>5. SoloOK(purse, jetton, s)
    <3>1. /\ s \in JCallState /\ s # JIdle /\ s.todo \in Left[s.op] /\ Head(s.todo) = to
          /\ s.op = q.op /\ s.jet = q.jet /\ s.from = q.from /\ s.to = q.to
          /\ s.amount = q.amount /\ s.supply = q.supply /\ s.had = b
      BY <1>4, <2>2 DEF Moved
    <3>2. s.op = "transfer" => to = "payee"
      BY <2>1, <3>1, <1>4 DEF Follows
    <3>3. /\ s.amount \in 1..MaxAmount
          /\ s.op = "transfer" => s.from # s.to
          /\ s.op = "burn" => s.supply = jetton[s.jet].supply
      BY <1>2, <1>6, <3>1 DEF SoloOK
    <3>. QED  BY <1>2, <1>6, <2>2, <2>3, <2>4, <3>1, <3>2, <3>3 DEF SoloOK
  <2>6. \A j \in Jettons, u \in Users : Way(s, j, u) = 0
    BY <1>4, <1>6, <2>2 DEF Way, Moved
  <2>7. \A j \in Jettons : Due(s, j) = 0
    BY <2>2 DEF Due, Moved
  <2>. QED  BY <1>7, <1>8, <1>9, <2>5, <2>6, <2>7, StepOn DEF q, s
<1>. QED  BY <1>1, <1>10, <1>11

LEMMA PayeeSteps ==
    ASSUME NEW h, Ready(h), PayeeWallet(h)
    PROVE  Steps(h)
<1>. DEFINE q == jcall[h]
            b == purse[q.jet][q.to].balance
            r == [q EXCEPT !.has = b]
            s == jcall'[h]
<1>1. Doing(h, "payee") /\ GetOrCreate(q.jet, q.to) /\ UNCHANGED jetton /\ Onward(h, r)
  BY DEF PayeeWallet
<1>2. /\ Inv /\ q \in JCallState /\ q # JIdle /\ q.todo # <<>> /\ Head(q.todo) = "payee"
      /\ q.jet \in Jettons /\ q.to \in Users
      /\ jetton[q.jet] # NoJetton
      /\ SoloOK(purse, jetton, q)
  BY <1>1, AtWork
<1>3. b \in Nat
  BY <1>2, RowsTyped
<1>4. /\ r \in JCallState /\ r.op = q.op /\ r.jet = q.jet /\ r.from = q.from /\ r.to = q.to
      /\ r.amount = q.amount /\ r.had = q.had /\ r.supply = q.supply /\ r.todo = q.todo
      /\ r.has = b
  BY <1>2, <1>3 DEF JCallState
<1>5. PICK to : /\ <<r.op, "payee", to>> \in Follows
                /\ IF to = "end" THEN s = JIdle ELSE Moved(r, s, to)
  BY <1>1, <1>4, GoesOn
<1>. HIDE DEF q, r, s, b
<1>6. /\ \/ q.op = "transfer" /\ to = "debit"
         \/ q.op = "mint" /\ to = "credit"
      /\ Moved(r, s, to)
  BY <1>4, <1>5 DEF Follows
<1>7. /\ s \in JCallState /\ s # JIdle /\ s.todo \in Left[s.op] /\ Head(s.todo) = to
      /\ s.todo # <<>>
      /\ s.op = q.op /\ s.jet = q.jet /\ s.from = q.from /\ s.to = q.to
      /\ s.amount = q.amount /\ s.supply = q.supply /\ s.had = q.had /\ s.has = b
  BY <1>4, <1>6 DEF Moved
<1>8. SoloOK(purse, jetton, s)
  <2>1. b = purse[q.jet][q.to].balance
    BY DEF b
  <2>2. CASE q.op = "transfer"
    BY <1>2, <1>6, <1>7, <2>1, <2>2 DEF SoloOK, Takes
  <2>3. CASE q.op = "mint"
    BY <1>2, <1>6, <1>7, <2>1, <2>3 DEF SoloOK, Takes
  <2>. QED  BY <1>6, <2>2, <2>3
<1>9. SameRows
  BY <1>1, <1>2, Opened DEF GetOrCreate
<1>10. \A j \in Jettons, u \in Users : Way(s, j, u) = Way(q, j, u)
  BY <1>2, <1>6, <1>7 DEF Way
<1>11. \A j \in Jettons : Due(s, j) = Due(q, j)
  BY <1>2, <1>6, <1>7 DEF Due
<1>. QED  BY <1>8, <1>9, <1>10, <1>11, StepOn DEF q, s

\* The last statement of a handler whose tokens are all in their rows.
LEMMA LastSteps ==
    ASSUME NEW h, Ready(h), NEW st \in {"record", "settings"}, Doing(h, st),
           Onward(h, jcall[h]), SameRows
    PROVE  Steps(h)
<1>. DEFINE r == jcall[h]
            s == jcall'[h]
<1>1. r \in JCallState /\ r # JIdle /\ r.todo # <<>> /\ Head(r.todo) = st
  BY AtWork
<1>2. PICK to : /\ <<r.op, st, to>> \in Follows
                /\ IF to = "end" THEN s = JIdle ELSE Moved(r, s, to)
  BY <1>1, GoesOn
<1>. HIDE DEF r, s
<1>3. s = JIdle /\ r.op # "create"
  BY <1>2 DEF Follows
<1>4. SoloOK(purse, jetton, s)
  BY <1>3 DEF SoloOK
<1>5. \A j \in Jettons, u \in Users : Way(s, j, u) = Way(r, j, u)
  <2>1. \A j \in Jettons, u \in Users : Way(s, j, u) = 0
    BY <1>3, WayDue
  <2>2. \A j \in Jettons, u \in Users : Way(r, j, u) = 0
    BY <1>1, <1>3 DEF Way
  <2>. QED  BY <2>1, <2>2
<1>6. \A j \in Jettons : Due(s, j) = Due(r, j)
  <2>1. \A j \in Jettons : Due(s, j) = 0
    BY <1>3, WayDue
  <2>2. \A j \in Jettons : Due(r, j) = 0
    BY <1>1 DEF Due
  <2>. QED  BY <2>1, <2>2
<1>. QED  BY <1>4, <1>5, <1>6, StepOn DEF r, s

LEMMA RecordSteps ==
    ASSUME NEW h, Ready(h), Record(h)
    PROVE  Steps(h)
BY LastSteps DEF Record, SameRows

LEMMA SettingsSteps ==
    ASSUME NEW h, Ready(h), SettingsWrite(h)
    PROVE  Steps(h)
<1>. DEFINE r == jcall[h]
            row == [jetton[r.jet] EXCEPT !.enabled = r.flags]
<1>1. Doing(h, "settings") /\ Onward(h, r) /\ UNCHANGED purse
      /\ jetton' = [jetton EXCEPT ![r.jet] = row]
  BY DEF SettingsWrite
<1>2. /\ Inv /\ r \in JCallState /\ r.jet \in Jettons
      /\ jetton[r.jet] # NoJetton /\ jetton[r.jet] \in JettonRow
  BY <1>1, AtWork
<1>3. row \in JettonRow /\ row.supply = jetton[r.jet].supply
  BY <1>2 DEF JettonRow, JCallState
<1>. HIDE DEF row
<1>4. SameRows
  BY <1>1, <1>2, <1>3, Flagged
<1>. QED  BY <1>1, <1>4, LastSteps

-----------------------------------------------------------------------------
(* The steps of the ledger *)

\* What a step did to what is counted, as the ledger's variables show it.
LEMMA BarsAt ==
    ASSUME NEW h, Alone(h)
    PROVE  /\ holdingBar = [j \in Jettons |-> [u \in Users |-> holdingBar[j][u]]]
           /\ holdingBar' = [j \in Jettons |-> [u \in Users |-> holdingBar'[j][u]]]
           /\ supplyBar = [j \in Jettons |-> supplyBar[j]]
           /\ supplyBar' = [j \in Jettons |-> supplyBar'[j]]
           /\ \A j \in Jettons, u \in Users :
                 /\ holdingBar[j][u] = purse[j][u].balance + Way(jcall[h], j, u)
                 /\ holdingBar'[j][u] = purse'[j][u].balance + Way(jcall'[h], j, u)
           /\ \A j \in Jettons :
                 /\ supplyBar[j] = IF jetton[j] = NoJetton THEN 0
                                   ELSE jetton[j].supply + Due(jcall[h], j)
                 /\ supplyBar'[j] = IF jetton'[j] = NoJetton THEN 0
                                    ELSE jetton'[j].supply + Due(jcall'[h], j)
<1>1. holdingBar = Holds(purse, jcall[h]) /\ supplyBar = There(jetton, jcall[h])
  BY Bars DEF Alone
<1>2. (holdingBar = Holds(purse, jcall[h]) /\ supplyBar = There(jetton, jcall[h]))'
  BY BarsNext DEF Alone
<1>. QED  BY <1>1, <1>2 DEF Holds, There

LEMMA IsIssue ==
    ASSUME NEW h, Alone(h), NEW j \in Jettons, NEW u \in Users, NEW n \in 1..MaxAmount,
           \A k \in Jettons, v \in Users :
              holdingBar'[k][v] = IF k = j /\ v = u THEN holdingBar[k][v] + n ELSE holdingBar[k][v],
           \A k \in Jettons :
              supplyBar'[k] = IF k = j THEN supplyBar[k] + n ELSE supplyBar[k]
    PROVE  Ledger!LedgerNext
<1>1. holdingBar' = [holdingBar EXCEPT ![j][u] = @ + n]
  BY BarsAt
<1>2. supplyBar' = [supplyBar EXCEPT ![j] = @ + n]
  BY BarsAt
<1>. QED  BY <1>1, <1>2 DEF Ledger!LedgerNext, Ledger!Issue

LEMMA IsRedeem ==
    ASSUME NEW h, Alone(h), NEW j \in Jettons, NEW u \in Users, NEW n \in 1..MaxAmount,
           holdingBar[j][u] >= n,
           \A k \in Jettons, v \in Users :
              holdingBar'[k][v] = IF k = j /\ v = u THEN holdingBar[k][v] - n ELSE holdingBar[k][v],
           \A k \in Jettons :
              supplyBar'[k] = IF k = j THEN supplyBar[k] - n ELSE supplyBar[k]
    PROVE  Ledger!LedgerNext
<1>1. holdingBar' = [holdingBar EXCEPT ![j][u] = @ - n]
  BY BarsAt
<1>2. supplyBar' = [supplyBar EXCEPT ![j] = @ - n]
  BY BarsAt
<1>. QED  BY <1>1, <1>2 DEF Ledger!LedgerNext, Ledger!Redeem

LEMMA IsMove ==
    ASSUME NEW h, Ready(h), NEW j \in Jettons, NEW u \in Users, NEW v \in Users, u # v,
           NEW n \in 1..MaxAmount, holdingBar[j][u] >= n,
           \A k \in Jettons, w \in Users :
              holdingBar'[k][w] = IF k = j /\ w = u THEN holdingBar[k][w] - n
                                  ELSE IF k = j /\ w = v THEN holdingBar[k][w] + n
                                  ELSE holdingBar[k][w],
           \A k \in Jettons : supplyBar'[k] = supplyBar[k]
    PROVE  Ledger!LedgerNext
<1>1. holdingBar' = [holdingBar EXCEPT ![j] = [[holdingBar[j] EXCEPT ![u] = @ - n] EXCEPT ![v] = @ + n]]
  <2>1. holdingBar \in [Jettons -> [Users -> Int]]
    <3>1. jcall[h] = JIdle \/ jcall[h] \in JCallState
      BY DEF Ready, Alone, Inv, JettonTypeOK
    <3>2. ASSUME NEW k \in Jettons, NEW w \in Users PROVE holdingBar[k][w] \in Int
      <4>1. purse[k][w].balance \in Nat /\ Way(jcall[h], k, w) \in Nat
        BY <3>1, RowsTyped, WayDue DEF Ready
      <4>2. holdingBar[k][w] = purse[k][w].balance + Way(jcall[h], k, w)
        BY BarsAt DEF Ready
      <4>. QED  BY <4>1, <4>2
    <3>3. holdingBar = [k \in Jettons |-> [w \in Users |-> holdingBar[k][w]]]
      BY BarsAt DEF Ready
    <3>. QED  BY <3>2, <3>3
  <2>2. holdingBar' \in [Jettons -> [Users -> Int]]
    <3>1. \A k \in Jettons, w \in Users : holdingBar[k][w] \in Int
      BY <2>1
    <3>2. \A k \in Jettons, w \in Users : holdingBar'[k][w] \in Int
      BY <3>1, JettonConstantsOK
    <3>3. holdingBar' = [k \in Jettons |-> [w \in Users |-> holdingBar'[k][w]]]
      BY BarsAt DEF Ready
    <3>. QED  BY <3>2, <3>3
  <2>3. n \in Int
    BY JettonConstantsOK
  <2>. DEFINE f == holdingBar
              g == holdingBar'
              less == [f[j] EXCEPT ![u] = @ - n]
              row == [less EXCEPT ![v] = @ + n]
  <2>. HIDE DEF f, g
  <2>4. /\ f \in [Jettons -> [Users -> Int]] /\ g \in [Jettons -> [Users -> Int]]
        /\ \A k \in Jettons, w \in Users :
              g[k][w] = IF k = j /\ w = u THEN f[k][w] - n
                        ELSE IF k = j /\ w = v THEN f[k][w] + n ELSE f[k][w]
    BY <2>1, <2>2 DEF f, g
  <2>5. /\ less \in [Users -> Int] /\ less[u] = f[j][u] - n
        /\ \A w \in Users : w # u => less[w] = f[j][w]
    BY <2>3, <2>4
  <2>. HIDE DEF less
  <2>6. row \in [Users -> Int] /\ \A w \in Users : row[w] = g[j][w]
    BY <2>3, <2>4, <2>5
  <2>. HIDE DEF row
  <2>7. row = g[j]
    BY <2>4, <2>6
  <2>8. \A k \in Jettons : k # j => g[k] = f[k]
    BY <2>4
  <2>9. g = [f EXCEPT ![j] = row]
    BY <2>4, <2>7, <2>8
  <2>. QED  BY <2>9 DEF f, g, row, less
<1>2. supplyBar' = supplyBar
  BY BarsAt DEF Ready
<1>. QED  BY <1>1, <1>2 DEF Ledger!LedgerNext, Ledger!Move

\* A total is written: what was due is due no more.
LEMMA SupplySteps ==
    ASSUME NEW h, Ready(h), WriteSupply(h)
    PROVE  Steps(h)
<1>. DEFINE r == jcall[h]
            s == jcall'[h]
            total == IF r.op = "mint" THEN r.supply + r.amount ELSE r.supply - r.amount
            row == [jetton[r.jet] EXCEPT !.supply = total]
<1>1. Doing(h, "supply") /\ Onward(h, r) /\ UNCHANGED purse
      /\ jetton' = [jetton EXCEPT ![r.jet] = row]
  BY DEF WriteSupply
<1>2. /\ Inv /\ r \in JCallState /\ r # JIdle /\ r.todo # <<>> /\ Head(r.todo) = "supply"
      /\ r.jet \in Jettons /\ r.amount \in Nat /\ r.supply \in Int
      /\ jetton[r.jet] # NoJetton /\ jetton[r.jet] \in JettonRow /\ jetton[r.jet].supply \in Int
      /\ SoloOK(purse, jetton, r)
  BY <1>1, AtWork
<1>3. PICK to : /\ <<r.op, "supply", to>> \in Follows
                /\ IF to = "end" THEN s = JIdle ELSE Moved(r, s, to)
  BY <1>1, <1>2, GoesOn
<1>4. row \in JettonRow /\ row.supply = total
  <2>1. total \in Int
    BY <1>2
  <2>. HIDE DEF total, r
  <2>. QED  BY <1>2, <2>1 DEF JettonRow
<1>. HIDE DEF r, s, row, total
<1>5. r.op \in {"mint", "burn"} /\ Moved(r, s, "record")
  BY <1>3 DEF Follows
<1>6. row # NoJetton
  <2>1. "max" \in DOMAIN row /\ "max" \notin DOMAIN NoJetton
    BY <1>4 DEF JettonRow, NoJetton
  <2>. QED  BY <2>1
<1>7. \A k \in Jettons : jetton'[k] = IF k = r.jet THEN row ELSE jetton[k]
  BY <1>1, <1>2 DEF Inv, JettonTypeOK
<1>8. /\ s \in JCallState /\ s # JIdle /\ s.todo \in Left[s.op] /\ s.todo # <<>>
      /\ Head(s.todo) = "record" /\ s.op = r.op /\ s.jet = r.jet
      /\ s.amount = r.amount
  BY <1>5 DEF Moved
<1>9. SoloInv(h)'
  <2>1. SoloOK(purse', jetton', s)
    BY <1>1, <1>2, <1>5, <1>6, <1>7, <1>8 DEF SoloOK, Takes
  <2>2. \A j \in Jettons, u \in Users : jetton'[j] = NoJetton => purse'[j][u].balance = 0
    BY <1>1, <1>2, <1>6, <1>7 DEF Ready, SoloInv
  <2>. QED  BY <2>1, <2>2 DEF SoloInv, s
<1>10. total = jetton[r.jet].supply + Due(r, r.jet) /\ total \in Int
  <2>1. r.supply = jetton[r.jet].supply
    BY <1>2, <1>5 DEF SoloOK
  <2>. QED  BY <1>2, <1>5, <2>1 DEF Due, total
<1>11. /\ \A k \in Jettons : Due(s, k) = 0
       /\ \A k \in Jettons : k # r.jet => Due(r, k) = 0
       /\ \A k \in Jettons, u \in Users : Way(s, k, u) = 0 /\ Way(r, k, u) = 0
  BY <1>2, <1>5, <1>8 DEF Due, Way
<1>12. UNCHANGED <<holdingBar, supplyBar>>
  <2>1. \A j \in Jettons, u \in Users :
           purse'[j][u].balance + Way(s, j, u) = purse[j][u].balance + Way(r, j, u)
    BY <1>1, <1>11
  <2>2. \A j \in Jettons :
           (IF jetton'[j] = NoJetton THEN 0 ELSE jetton'[j].supply + Due(s, j))
           = (IF jetton[j] = NoJetton THEN 0 ELSE jetton[j].supply + Due(r, j))
    BY <1>2, <1>4, <1>6, <1>7, <1>10, <1>11
  <2>. QED  BY <2>1, <2>2, Quiet DEF Ready, r, s
<1>. QED  BY <1>9, <1>12 DEF Steps

\* One balance is written.
LEMMA Written ==
    ASSUME Inv, NEW j \in Jettons, NEW u \in Users, NEW n \in Nat,
           purse' = [purse EXCEPT ![j][u].balance = n]
    PROVE  \A k \in Jettons, v \in Users :
              purse'[k][v].balance = IF k = j /\ v = u THEN n ELSE purse[k][v].balance
<1>1. purse \in [Jettons -> [Users -> PurseRow]]
  BY DEF Inv, JettonTypeOK
<1>. DEFINE row == [purse[j][u] EXCEPT !.balance = n]
<1>2. row.balance = n
  BY <1>1 DEF PurseRow
<1>3. purse' = [purse EXCEPT ![j][u] = row]
  OBVIOUS
<1>. HIDE DEF row
<1>. QED  BY <1>1, <1>2, <1>3

LEMMA DebitSteps ==
    ASSUME NEW h, Ready(h), Debit(h)
    PROVE  Steps(h)
<1>. DEFINE r == jcall[h]
            s == jcall'[h]
            n == r.had - r.amount
<1>1. Doing(h, "debit") /\ Onward(h, r) /\ UNCHANGED jetton
      /\ purse' = [purse EXCEPT ![r.jet][r.from].balance = n]
  BY DEF Debit
<1>2. /\ Inv /\ r \in JCallState /\ r # JIdle /\ r.todo # <<>> /\ Head(r.todo) = "debit"
      /\ r.jet \in Jettons /\ r.from \in Users /\ r.to \in Users
      /\ r.amount \in Nat /\ r.had \in Nat /\ r.has \in Nat
      /\ jetton[r.jet] # NoJetton /\ jetton[r.jet].supply \in Int
      /\ SoloOK(purse, jetton, r)
  BY <1>1, AtWork
<1>3. PICK to : /\ <<r.op, "debit", to>> \in Follows
                /\ IF to = "end" THEN s = JIdle ELSE Moved(r, s, to)
  BY <1>1, <1>2, GoesOn
<1>. HIDE DEF r, s
<1>4. /\ \/ r.op = "transfer" /\ to = "credit"
         \/ r.op = "burn" /\ to = "supply"
      /\ Moved(r, s, to)
  BY <1>3 DEF Follows
<1>5. /\ r.amount \in 1..MaxAmount
      /\ r.op = "transfer" => r.from # r.to /\ r.has = purse[r.jet][r.to].balance
      /\ r.had = purse[r.jet][r.from].balance /\ r.had >= r.amount
      /\ r.op = "burn" => r.supply = jetton[r.jet].supply
  BY <1>2, <1>4 DEF SoloOK, Takes
<1>6. /\ s \in JCallState /\ s # JIdle /\ s.todo \in Left[s.op] /\ s.todo # <<>>
      /\ Head(s.todo) = to
      /\ s.op = r.op /\ s.jet = r.jet /\ s.from = r.from /\ s.to = r.to
      /\ s.amount = r.amount /\ s.supply = r.supply /\ s.had = r.had /\ s.has = r.has
  BY <1>4 DEF Moved
<1>7. n \in Nat
  BY <1>2, <1>5
<1>8. n = purse[r.jet][r.from].balance - r.amount
  BY <1>5
<1>. HIDE DEF n
<1>9. \A k \in Jettons, v \in Users :
         purse'[k][v].balance = IF k = r.jet /\ v = r.from THEN n ELSE purse[k][v].balance
  <2>. DEFINE jet == r.jet
              from == r.from
  <2>1. /\ Inv /\ jet \in Jettons /\ from \in Users /\ n \in Nat
        /\ purse' = [purse EXCEPT ![jet][from].balance = n]
    BY <1>1, <1>2, <1>7
  <2>. HIDE DEF jet, from
  <2>2. \A k \in Jettons, v \in Users :
           purse'[k][v].balance = IF k = jet /\ v = from THEN n ELSE purse[k][v].balance
    BY <2>1, Written
  <2>. QED  BY <2>2 DEF jet, from
<1>10. SoloInv(h)'
  <2>1. SoloOK(purse', jetton', s)
    <3>1. CASE r.op = "transfer"
      BY <1>1, <1>2, <1>4, <1>5, <1>6, <1>9, <3>1 DEF SoloOK, Takes
    <3>2. CASE r.op = "burn"
      BY <1>1, <1>2, <1>4, <1>5, <1>6, <1>9, <3>2 DEF SoloOK, Takes
    <3>. QED  BY <1>4, <3>1, <3>2
  <2>2. \A j \in Jettons, u \in Users : jetton'[j] = NoJetton => purse'[j][u].balance = 0
    BY <1>1, <1>2, <1>9 DEF Ready, SoloInv
  <2>. QED  BY <2>1, <2>2 DEF SoloInv, s
<1>11. \A k \in Jettons, u \in Users : Way(r, k, u) = 0
  BY <1>2, <1>4 DEF Way
<1>12. \A k \in Jettons : Due(r, k) = 0
  BY <1>2 DEF Due
<1>13. \A k \in Jettons, v \in Users :
          /\ holdingBar[k][v] = purse[k][v].balance
          /\ holdingBar'[k][v] = purse'[k][v].balance + Way(s, k, v)
          /\ purse[k][v].balance \in Nat
  <2>1. \A k \in Jettons, v \in Users :
           /\ holdingBar[k][v] = purse[k][v].balance + Way(r, k, v)
           /\ holdingBar'[k][v] = purse'[k][v].balance + Way(s, k, v)
    BY BarsAt DEF Ready, r, s
  <2>2. \A k \in Jettons, v \in Users : purse[k][v].balance \in Nat
    BY <1>2, RowsTyped
  <2>. QED  BY <1>11, <2>1, <2>2
<1>14. \A k \in Jettons :
          /\ supplyBar[k] = IF jetton[k] = NoJetton THEN 0 ELSE jetton[k].supply
          /\ supplyBar'[k] = IF jetton[k] = NoJetton THEN 0 ELSE jetton[k].supply + Due(s, k)
          /\ jetton[k] # NoJetton => jetton[k].supply \in Int
  <2>1. \A k \in Jettons :
           /\ supplyBar[k] = IF jetton[k] = NoJetton THEN 0 ELSE jetton[k].supply + Due(r, k)
           /\ supplyBar'[k] = IF jetton[k] = NoJetton THEN 0 ELSE jetton[k].supply + Due(s, k)
    BY <1>1, BarsAt DEF Ready, r, s
  <2>2. \A k \in Jettons : jetton[k] # NoJetton => jetton[k].supply \in Int
    BY <1>2 DEF Inv, JettonTypeOK, JettonRow
  <2>. QED  BY <1>12, <2>1, <2>2
<1>15. holdingBar[r.jet][r.from] >= r.amount
  BY <1>2, <1>5, <1>13
<1>16. CASE r.op = "transfer"
  <2>1. to = "credit" /\ r.from # r.to
    BY <1>4, <1>5, <1>16
  <2>2. \A k \in Jettons, v \in Users :
           Way(s, k, v) = IF k = r.jet /\ v = r.to THEN r.amount ELSE 0
    BY <1>6, <1>16, <2>1 DEF Way
  <2>3. \A k \in Jettons : Due(s, k) = 0
    BY <1>6, <2>1 DEF Due
  <2>4. \A k \in Jettons, v \in Users :
           holdingBar'[k][v] = IF k = r.jet /\ v = r.from THEN holdingBar[k][v] - r.amount
                               ELSE IF k = r.jet /\ v = r.to THEN holdingBar[k][v] + r.amount
                               ELSE holdingBar[k][v]
    BY <1>2, <1>9, <1>8, <1>13, <2>1, <2>2
  <2>5. \A k \in Jettons : supplyBar'[k] = supplyBar[k]
    BY <1>14, <2>3
  <2>6. Ledger!LedgerNext
    BY <1>2, <1>5, <1>15, <2>1, <2>4, <2>5, IsMove
  <2>. QED  BY <1>10, <2>6 DEF Steps
<1>17. CASE r.op = "burn"
  <2>1. to = "supply"
    BY <1>4, <1>17
  <2>2. \A k \in Jettons, v \in Users : Way(s, k, v) = 0
    BY <1>6, <1>17, <2>1 DEF Way
  <2>3. \A k \in Jettons : Due(s, k) = IF k = r.jet THEN -r.amount ELSE 0
    BY <1>6, <1>17, <2>1 DEF Due
  <2>4. \A k \in Jettons, v \in Users :
           holdingBar'[k][v] = IF k = r.jet /\ v = r.from THEN holdingBar[k][v] - r.amount
                               ELSE holdingBar[k][v]
    BY <1>2, <1>9, <1>8, <1>13, <2>2
  <2>5. \A k \in Jettons :
           supplyBar'[k] = IF k = r.jet THEN supplyBar[k] - r.amount ELSE supplyBar[k]
    BY <1>2, <1>14, <2>3
  <2>6. Ledger!LedgerNext
    BY <1>2, <1>5, <1>15, <2>4, <2>5, IsRedeem DEF Ready
  <2>. QED  BY <1>10, <2>6 DEF Steps
<1>. QED  BY <1>4, <1>16, <1>17

LEMMA CreateSteps ==
    ASSUME NEW h, Ready(h), NEW j \in Jettons, NEW u \in Users, CreateJetton(h, j, u)
    PROVE  Steps(h)
<1>. DEFINE s == jcall'[h]
<1>1. jetton[j] = NoJetton /\ UNCHANGED purse
  BY DEF CreateJetton
<1>2. PICK q \in Requests :
         /\ Begin(h, "create", j, u, u, q.supply, {})
         /\ jetton' = [jetton EXCEPT ![j] =
               [owner |-> u, supply |-> q.supply, max |-> q.max,
                freezable |-> q.freezable, readable |-> FALSE, deployed |-> FALSE,
                enabled |-> q.enabled \cup {"transfers"}]]
  BY DEF CreateJetton
<1>3. /\ q.supply \in Nat /\ q.supply <= MaxAmount /\ Inv
      /\ q.max \in Nat \cup {NoMax} /\ q.freezable \in BOOLEAN /\ q.enabled \subseteq Flags
  BY JettonConstantsOK DEF Ready, Alone
<1>. DEFINE n == q.supply
            row == [owner |-> u, supply |-> n, max |-> q.max,
                    freezable |-> q.freezable, readable |-> FALSE, deployed |-> FALSE,
                    enabled |-> q.enabled \cup {"transfers"}]
<1>4. "max" \in DOMAIN row /\ row.supply = n
  OBVIOUS
<1>5. jetton' = [jetton EXCEPT ![j] = row]
  BY <1>2
<1>6. /\ jcall[h] = JIdle /\ s \in JCallState /\ s # JIdle
      /\ s.op = "create" /\ s.jet = j /\ s.from = u /\ s.to = u /\ s.amount = n
      /\ s.has = 0 /\ s.todo = Script["create"] /\ s.todo \in Left[s.op] /\ s.todo # <<>>
  <2>1. "create" \in DOMAIN Script /\ {} \in SUBSET Flags
        /\ 0 = (IF jetton[j] = NoJetton THEN 0 ELSE jetton[j].supply)
    BY <1>1 DEF Script
  <2>. QED  BY <1>2, <1>3, <2>1, Begun
<1>. HIDE DEF s, row, n
<1>7. row # NoJetton
  <2>1. "max" \notin DOMAIN NoJetton
    BY DEF NoJetton
  <2>. QED  BY <1>4, <2>1
<1>8. \A k \in Jettons : jetton'[k] = IF k = j THEN row ELSE jetton[k]
  BY <1>3, <1>5 DEF Inv, JettonTypeOK
<1>9. Head(s.todo) = "open"
  BY <1>6, First
<1>10. \A k \in Jettons, v \in Users : jetton[k] = NoJetton => purse[k][v].balance = 0
  BY DEF Ready, SoloInv
<1>11. SoloInv(h)'
  <2>1. SoloOK(purse', jetton', s)
    BY <1>1, <1>6, <1>7, <1>8, <1>9, <1>10 DEF SoloOK, Takes
  <2>2. \A k \in Jettons, v \in Users : jetton'[k] = NoJetton => purse'[k][v].balance = 0
    BY <1>1, <1>7, <1>8, <1>10
  <2>. QED  BY <2>1, <2>2 DEF SoloInv, s
<1>12. /\ \A k \in Jettons, v \in Users : Way(s, k, v) = IF k = j /\ v = u THEN n ELSE 0
       /\ \A k \in Jettons : Due(s, k) = 0
  BY <1>6, <1>9 DEF Way, Due
<1>13. \A k \in Jettons, v \in Users : Way(jcall[h], k, v) = 0
  BY <1>6, WayDue
<1>14. \A k \in Jettons : Due(jcall[h], k) = 0
  BY <1>6, WayDue
<1>15. \A k \in Jettons, v \in Users :
          /\ holdingBar[k][v] = purse[k][v].balance
          /\ holdingBar'[k][v] = purse[k][v].balance + (IF k = j /\ v = u THEN n ELSE 0)
          /\ purse[k][v].balance \in Nat
  <2>1. \A k \in Jettons, v \in Users : purse[k][v].balance \in Nat
    BY <1>3, RowsTyped
  <2>2. \A k \in Jettons, v \in Users :
           /\ holdingBar[k][v] = purse[k][v].balance + Way(jcall[h], k, v)
           /\ holdingBar'[k][v] = purse[k][v].balance + Way(s, k, v)
    BY <1>1, BarsAt DEF Ready, s
  <2>. QED  BY <1>12, <1>13, <2>1, <2>2
<1>16. \A k \in Jettons :
          /\ supplyBar[k] = IF jetton[k] = NoJetton THEN 0 ELSE jetton[k].supply
          /\ supplyBar'[k] = IF jetton'[k] = NoJetton THEN 0 ELSE jetton'[k].supply
  <2>1. \A k \in Jettons : jetton[k] # NoJetton => jetton[k].supply \in Int
    BY <1>3 DEF Inv, JettonTypeOK, JettonRow
  <2>2. \A k \in Jettons : jetton'[k] # NoJetton => jetton'[k].supply \in Int
    BY <1>3, <1>4, <1>8, <2>1 DEF n
  <2>3. \A k \in Jettons :
           /\ supplyBar[k] = IF jetton[k] = NoJetton THEN 0
                             ELSE jetton[k].supply + Due(jcall[h], k)
           /\ supplyBar'[k] = IF jetton'[k] = NoJetton THEN 0 ELSE jetton'[k].supply + Due(s, k)
    BY BarsAt DEF Ready, s
  <2>. QED  BY <1>12, <1>14, <2>1, <2>2, <2>3
<1>17. \A k \in Jettons : /\ supplyBar'[k] = IF k = j THEN n ELSE supplyBar[k]
                          /\ supplyBar[j] = 0
  BY <1>1, <1>4, <1>7, <1>8, <1>16
<1>18. CASE n = 0
  <2>1. \A k \in Jettons, v \in Users :
           purse'[k][v].balance + Way(s, k, v) = purse[k][v].balance + Way(jcall[h], k, v)
    BY <1>1, <1>12, <1>13, <1>18
  <2>2. \A k \in Jettons :
           (IF jetton'[k] = NoJetton THEN 0 ELSE jetton'[k].supply + Due(s, k))
           = (IF jetton[k] = NoJetton THEN 0 ELSE jetton[k].supply + Due(jcall[h], k))
    BY <1>1, <1>4, <1>7, <1>8, <1>12, <1>14, <1>18
  <2>3. UNCHANGED <<holdingBar, supplyBar>>
    BY <2>1, <2>2, Quiet DEF Ready, s
  <2>. QED  BY <1>11, <2>3 DEF Steps
<1>19. CASE n # 0
  <2>1. n \in 1..MaxAmount /\ n \in Nat
    BY <1>3, <1>19, JettonConstantsOK DEF n
  <2>2. \A k \in Jettons, v \in Users :
           holdingBar'[k][v] = IF k = j /\ v = u THEN holdingBar[k][v] + n ELSE holdingBar[k][v]
    BY <1>15, <2>1
  <2>3. \A k \in Jettons :
           supplyBar'[k] = IF k = j THEN supplyBar[k] + n ELSE supplyBar[k]
    BY <1>17, <2>1
  <2>4. Ledger!LedgerNext
    BY <2>1, <2>2, <2>3, IsIssue DEF Ready
  <2>. QED  BY <1>11, <2>4 DEF Steps
<1>. QED  BY <1>18, <1>19

LEMMA CreditSteps ==
    ASSUME NEW h, Ready(h), Credit(h)
    PROVE  Steps(h)
<1>. DEFINE r == jcall[h]
            s == jcall'[h]
            n == r.has + r.amount
            b == purse[r.jet][r.to].balance
<1>1. /\ Doing(h, "credit") /\ Onward(h, r) /\ UNCHANGED jetton
      /\ IF r.amount = 0 THEN UNCHANGED purse
         ELSE purse' = [purse EXCEPT ![r.jet][r.to].balance = n]
  BY DEF Credit
<1>2. /\ Inv /\ r \in JCallState /\ r # JIdle /\ r.todo # <<>> /\ Head(r.todo) = "credit"
      /\ r.jet \in Jettons /\ r.from \in Users /\ r.to \in Users
      /\ r.amount \in Nat /\ r.has \in Nat
      /\ jetton[r.jet] # NoJetton /\ jetton[r.jet].supply \in Int
      /\ SoloOK(purse, jetton, r)
  BY <1>1, AtWork
<1>3. PICK to : /\ <<r.op, "credit", to>> \in Follows
                /\ IF to = "end" THEN s = JIdle ELSE Moved(r, s, to)
  BY <1>1, <1>2, GoesOn
<1>. HIDE DEF r, s
<1>4. \/ r.op = "create" /\ s = JIdle
      \/ r.op = "transfer" /\ to = "record" /\ Moved(r, s, to)
      \/ r.op = "mint" /\ to = "supply" /\ Moved(r, s, to)
  BY <1>3 DEF Follows
<1>5. /\ r.has = b
      /\ r.op # "create" => r.amount \in 1..MaxAmount
      /\ r.op = "transfer" => r.from # r.to
      /\ r.op = "mint" => r.supply = jetton[r.jet].supply
  BY <1>2, <1>4 DEF SoloOK, Takes
<1>6. n \in Nat /\ n = b + r.amount /\ b \in Nat
  BY <1>2, <1>5
<1>. HIDE DEF b
<1>7. \A k \in Jettons, v \in Users :
         purse'[k][v].balance = IF k = r.jet /\ v = r.to THEN n ELSE purse[k][v].balance
  <2>1. CASE r.amount = 0
    BY <1>1, <1>6, <2>1 DEF b
  <2>2. CASE r.amount # 0
    BY <1>1, <1>2, <1>6, <2>2, Written
  <2>. QED  BY <2>1, <2>2
<1>. HIDE DEF n
<1>8. s # JIdle =>
         /\ s \in JCallState /\ s.todo \in Left[s.op] /\ s.todo # <<>> /\ Head(s.todo) = to
         /\ s.op = r.op /\ s.jet = r.jet /\ s.from = r.from /\ s.to = r.to
         /\ s.amount = r.amount /\ s.supply = r.supply /\ s.had = r.had /\ s.has = r.has
  BY <1>4 DEF Moved
<1>9. SoloInv(h)'
  <2>1. SoloOK(purse', jetton', s)
    <3>1. CASE r.op = "create"
      BY <1>4, <3>1 DEF SoloOK
    <3>2. CASE r.op = "transfer"
      BY <1>1, <1>2, <1>4, <1>5, <1>8, <3>2 DEF SoloOK, Takes
    <3>3. CASE r.op = "mint"
      BY <1>1, <1>2, <1>4, <1>5, <1>8, <3>3 DEF SoloOK, Takes
    <3>. QED  BY <1>4, <3>1, <3>2, <3>3
  <2>2. \A j \in Jettons, u \in Users : jetton'[j] = NoJetton => purse'[j][u].balance = 0
    BY <1>1, <1>2, <1>7 DEF Ready, SoloInv
  <2>. QED  BY <2>1, <2>2 DEF SoloInv, s
<1>10. \A k \in Jettons : Due(r, k) = 0
  BY <1>2 DEF Due
<1>11. CASE r.op \in {"create", "transfer"}
  <2>1. \A k \in Jettons, v \in Users :
           Way(r, k, v) = IF k = r.jet /\ v = r.to THEN r.amount ELSE 0
    BY <1>2, <1>11 DEF Way
  <2>2. \A k \in Jettons, v \in Users : Way(s, k, v) = 0
    <3>1. CASE s = JIdle
      BY <3>1, WayDue
    <3>2. CASE s # JIdle
      BY <1>4, <1>8, <1>11, <3>2 DEF Way
    <3>. QED  BY <3>1, <3>2
  <2>3. \A k \in Jettons : Due(s, k) = 0
    <3>1. CASE s = JIdle
      BY <3>1, WayDue
    <3>2. CASE s # JIdle
      BY <1>4, <1>8, <1>11, <3>2 DEF Due
    <3>. QED  BY <3>1, <3>2
  <2>4. \A k \in Jettons, v \in Users :
           purse'[k][v].balance + Way(s, k, v) = purse[k][v].balance + Way(r, k, v)
    <3>1. \A k \in Jettons, v \in Users : purse[k][v].balance \in Nat
      BY <1>2, RowsTyped
    <3>2. b = purse[r.jet][r.to].balance
      BY DEF b
    <3>. SUFFICES ASSUME NEW k \in Jettons, NEW v \in Users
                  PROVE  purse'[k][v].balance + Way(s, k, v) = purse[k][v].balance + Way(r, k, v)
      OBVIOUS
    <3>3. CASE k = r.jet /\ v = r.to
      <4>1. purse'[k][v].balance = n /\ Way(s, k, v) = 0 /\ Way(r, k, v) = r.amount
        BY <1>7, <2>1, <2>2, <3>3
      <4>. QED  BY <1>2, <1>6, <3>2, <3>3, <4>1
    <3>4. CASE ~(k = r.jet /\ v = r.to)
      <4>1. purse'[k][v].balance = purse[k][v].balance /\ Way(s, k, v) = 0 /\ Way(r, k, v) = 0
        BY <1>7, <2>1, <2>2, <3>4
      <4>. QED  BY <3>1, <4>1
    <3>. QED  BY <3>3, <3>4
  <2>5. \A k \in Jettons :
           (IF jetton'[k] = NoJetton THEN 0 ELSE jetton'[k].supply + Due(s, k))
           = (IF jetton[k] = NoJetton THEN 0 ELSE jetton[k].supply + Due(r, k))
    BY <1>1, <1>10, <2>3
  <2>6. UNCHANGED <<holdingBar, supplyBar>>
    BY <2>4, <2>5, Quiet DEF Ready, r, s
  <2>. QED  BY <1>9, <2>6 DEF Steps
<1>12. CASE r.op = "mint"
  <2>1. s # JIdle /\ to = "supply"
    BY <1>4, <1>12 DEF Moved
  <2>2. \A k \in Jettons, v \in Users : Way(r, k, v) = 0 /\ Way(s, k, v) = 0
    BY <1>8, <1>12, <2>1 DEF Way
  <2>3. \A k \in Jettons : Due(s, k) = IF k = r.jet THEN r.amount ELSE 0
    BY <1>8, <1>12, <2>1 DEF Due
  <2>4. \A k \in Jettons, v \in Users :
           holdingBar'[k][v] = IF k = r.jet /\ v = r.to THEN holdingBar[k][v] + r.amount
                               ELSE holdingBar[k][v]
    <3>1. \A k \in Jettons, v \in Users :
             /\ holdingBar[k][v] = purse[k][v].balance + Way(r, k, v)
             /\ holdingBar'[k][v] = purse'[k][v].balance + Way(s, k, v)
      BY BarsAt DEF Ready, r, s
    <3>2. \A k \in Jettons, v \in Users : purse[k][v].balance \in Nat
      BY <1>2, RowsTyped
    <3>3. b = purse[r.jet][r.to].balance
      BY DEF b
    <3>4. \A k \in Jettons, v \in Users :
             /\ holdingBar[k][v] = purse[k][v].balance
             /\ holdingBar'[k][v] = IF k = r.jet /\ v = r.to THEN n ELSE purse[k][v].balance
      BY <1>6, <1>7, <2>2, <3>1, <3>2
    <3>. QED  BY <1>2, <1>6, <3>3, <3>4
  <2>5. \A k \in Jettons :
           supplyBar'[k] = IF k = r.jet THEN supplyBar[k] + r.amount ELSE supplyBar[k]
    <3>1. \A k \in Jettons :
             /\ supplyBar[k] = IF jetton[k] = NoJetton THEN 0 ELSE jetton[k].supply + Due(r, k)
             /\ supplyBar'[k] = IF jetton[k] = NoJetton THEN 0 ELSE jetton[k].supply + Due(s, k)
      BY <1>1, BarsAt DEF Ready, r, s
    <3>2. \A k \in Jettons : jetton[k] # NoJetton => jetton[k].supply \in Int
      BY <1>2 DEF Inv, JettonTypeOK, JettonRow
    <3>. QED  BY <1>2, <1>10, <2>3, <3>1, <3>2
  <2>6. Ledger!LedgerNext
    BY <1>2, <1>5, <1>12, <2>4, <2>5, IsIssue DEF Ready
  <2>. QED  BY <1>9, <2>6 DEF Steps
<1>. QED  BY <1>4, <1>11, <1>12

-----------------------------------------------------------------------------
(* All steps *)

LEMMA NextSteps ==
    ASSUME NEW h, Ready(h), JettonNext
    PROVE  Steps(h)
<1>1. ASSUME NEW j \in Jettons, Admin(j) PROVE Steps(h)
  BY <1>1, AdminSteps
<1>2. CASE Create(h)
  BY <1>2, CreateSteps, OpenSteps DEF Create
<1>3. CASE UpdateSettings(h)
  BY <1>3, StartSteps, SettingsSteps DEF UpdateSettings
<1>4. CASE Transfer(h)
  <2>1. CASE \E j \in Jettons, u, v \in Users, n \in 1..MaxAmount : TransferGet(h, j, u, v, n)
    BY <2>1, StartSteps
  <2>. QED  BY <1>4, <2>1, HolderSteps, PayeeSteps, DebitSteps, CreditSteps, RecordSteps
            DEF Transfer
<1>5. CASE Mint(h)
  <2>1. CASE \E j \in Jettons, u, v \in Users, n \in 1..MaxAmount : MintGet(h, j, u, v, n)
    BY <2>1, StartSteps
  <2>. QED  BY <1>5, <2>1, SupplySteps DEF Mint
<1>6. CASE Burn(h)
  BY <1>6, StartSteps DEF Burn
<1>7. ~JettonFails(h)
  BY DEF Ready, Alone, JettonFails
<1>8. \A c \in JCalls : c = h
  BY DEF Ready, Alone
<1>. QED  BY <1>1, <1>2, <1>3, <1>4, <1>5, <1>6, <1>7, <1>8 DEF JettonNext

LEMMA SoloNext ==
    ASSUME NEW h, Alone(h), Inv, SoloInv(h), [JettonNext]_jettonVars
    PROVE  SoloInv(h)' /\ [Ledger!LedgerNext]_(Ledger!ledgerVars)
<1>1. CASE JettonNext
  BY <1>1, NextSteps DEF Ready, Steps, Ledger!ledgerVars
<1>2. CASE UNCHANGED jettonVars
  <2>1. UNCHANGED jcall /\ SameRows
    BY <1>2 DEF jettonVars, SameRows
  <2>2. Steps(h)
    BY <2>1, Rests DEF Ready
  <2>3. UNCHANGED <<holdingBar, supplyBar>>
    BY <1>2, Quiet DEF jettonVars
  <2>. QED  BY <2>2, <2>3 DEF Steps, Ledger!ledgerVars
<1>. QED  BY <1>1, <1>2

LEMMA SoloInit ==
    ASSUME NEW h, Alone(h), JettonInit
    PROVE  SoloInv(h) /\ Ledger!LedgerInit
<1>1. jcall[h] = JIdle /\ \A j \in Jettons, u \in Users : purse[j][u].balance = 0
  BY DEF Alone, JettonInit
<1>2. SoloInv(h)
  BY <1>1 DEF SoloInv, SoloOK
<1>3. \A j \in Jettons, u \in Users : Way(jcall[h], j, u) = 0
  BY <1>1, WayDue
<1>4. holdingBar = [j \in Jettons |-> [u \in Users |-> 0]]
  <2>1. holdingBar = Holds(purse, jcall[h])
    BY Bars DEF Alone
  <2>. QED  BY <1>1, <1>3, <2>1 DEF Holds
<1>5. supplyBar = [j \in Jettons |-> 0]
  <2>1. supplyBar = There(jetton, jcall[h])
    BY Bars DEF Alone
  <2>. QED  BY <2>1 DEF There, JettonInit
<1>. QED  BY <1>2, <1>4, <1>5 DEF Ledger!LedgerInit

(* One Create, Transfer, Mint or Burn after another, each to its end: their  *)
(* statements together do to the balances and totals what the ledger does   *)
(* in one step, so tokens come only from a mint and go only by a burn.       *)
THEOREM OneByOneIsALedger ==
    ASSUME NEW CONSTANT h, Alone(h)
    PROVE  JettonSpec => Ledger!LedgerSpec
<1>1. JettonInit => SoloInv(h) /\ Ledger!LedgerInit
  BY SoloInit
<1>2. Inv /\ SoloInv(h) /\ [JettonNext]_jettonVars =>
         SoloInv(h)' /\ [Ledger!LedgerNext]_(Ledger!ledgerVars)
  BY SoloNext
<1>. QED  BY <1>1, <1>2, Invariant, PTL DEF JettonSpec, Ledger!LedgerSpec
-----------------------------------------------------------------------------
(* Balances and records                                                     *)
(*                                                                          *)
(* What a balance and the records of its moves differ by is what the        *)
(* handler has yet to credit, or has moved and not yet recorded.            *)

\* The handler has debited, and credited, without having recorded it.
Taken(r) ==
    \/ r.op = "transfer" /\ Head(r.todo) \in {"credit", "record"}
    \/ r.op = "burn" /\ Head(r.todo) \in {"supply", "record"}

Given(r) ==
    \/ r.op = "transfer" /\ Head(r.todo) = "record"
    \/ r.op = "mint" /\ Head(r.todo) \in {"supply", "record"}

\* What the records have of u and the balance has not.
Lag(r, j, u) ==
    IF r = JIdle \/ r.jet # j THEN 0
    ELSE IF r.op = "create" THEN IF r.to = u THEN r.amount ELSE 0
    ELSE IF Taken(r) /\ r.from = u THEN IF Given(r) /\ r.to = u THEN 0 ELSE r.amount
    ELSE IF Given(r) /\ r.to = u THEN -r.amount ELSE 0

BooksOK(h) == \A j \in Jettons, u \in Users :
    books[j][u] = purse[j][u].balance + Lag(jcall[h], j, u)

\* Neither a balance nor what the records have ahead of it changes.
LEMMA BooksRest ==
    ASSUME NEW h, BooksOK(h), UNCHANGED books,
           \A j \in Jettons, u \in Users :
              /\ purse'[j][u].balance = purse[j][u].balance
              /\ Lag(jcall'[h], j, u) = Lag(jcall[h], j, u)
    PROVE  BooksOK(h)'
BY DEF BooksOK

\* Statements that write neither balances nor records.
LEMMA LagStays ==
    ASSUME NEW h, Ready(h), NEW st \in {"open", "holder", "payee", "supply", "settings"},
           Doing(h, st), NEW r \in JCallState,
           r.op = jcall[h].op, r.todo = jcall[h].todo, r.jet = jcall[h].jet,
           r.from = jcall[h].from, r.to = jcall[h].to, r.amount = jcall[h].amount,
           Onward(h, r) \/ (st = "holder" /\ jcall'[h] = JIdle),
           NEW j \in Jettons, NEW u \in Users
    PROVE  Lag(jcall'[h], j, u) = Lag(jcall[h], j, u)
<1>. DEFINE q == jcall[h]
            s == jcall'[h]
<1>1. q # JIdle /\ q.todo # <<>> /\ Head(q.todo) = st
  BY AtWork
<1>2. \E next : <<q.op, st, next>> \in Follows
  BY SoloAt DEF Ready
<1>3. CASE Onward(h, r)
  <2>1. PICK next : /\ <<r.op, st, next>> \in Follows
                    /\ IF next = "end" THEN s = JIdle ELSE Moved(r, s, next)
    BY <1>3, GoesOn
  <2>. HIDE DEF q, s
  <2>2. CASE next = "end"
    <3>1. q.op = "settings"
      BY <2>1, <2>2 DEF Follows, q
    <3>2. Lag(q, j, u) = 0
      BY <1>1, <3>1 DEF Lag, Taken, Given
    <3>3. Lag(s, j, u) = 0
      BY <2>1, <2>2 DEF Lag
    <3>. QED  BY <3>2, <3>3 DEF q, s
  <2>3. CASE next # "end"
    <3>1. /\ s # JIdle /\ s.op = q.op /\ s.jet = q.jet /\ s.from = q.from /\ s.to = q.to
          /\ s.amount = q.amount /\ Head(s.todo) = next
      BY <2>1, <2>3 DEF Moved, q
    <3>2. \/ q.op = "create"
          \/ q.op \in {"transfer", "mint", "burn"} /\ st \in {"holder", "payee"}
                /\ next \in {"payee", "debit"}
          \/ q.op = "mint" /\ st = "payee" /\ next = "credit"
          \/ q.op \in {"mint", "burn"} /\ st = "supply" /\ next = "record"
      BY <2>1, <2>3 DEF Follows, q
    <3>3. (Taken(s) <=> Taken(q)) /\ (Given(s) <=> Given(q))
      BY <1>1, <3>1, <3>2 DEF Taken, Given
    <3>4. Lag(s, j, u) = Lag(q, j, u)
      BY <1>1, <3>1, <3>3 DEF Lag
    <3>. QED  BY <3>4 DEF q, s
  <2>. QED  BY <2>2, <2>3
<1>4. CASE st = "holder" /\ s = JIdle
  <2>1. q.op \in {"transfer", "burn"}
    BY <1>2, <1>4 DEF Follows
  <2>. HIDE DEF q, s
  <2>2. Lag(q, j, u) = 0
    BY <1>1, <1>4, <2>1 DEF Lag, Taken, Given
  <2>3. Lag(s, j, u) = 0
    BY <1>4 DEF Lag
  <2>. QED  BY <2>2, <2>3 DEF q, s
<1>. QED  BY <1>3, <1>4

LEMMA QuietBooks ==
    ASSUME NEW h, Ready(h), BooksOK(h),
           \/ OpenOwnerWallet(h) \/ HolderWallet(h) \/ PayeeWallet(h)
           \/ WriteSupply(h) \/ SettingsWrite(h)
    PROVE  BooksOK(h)'
<1>. DEFINE q == jcall[h]
<1>. Inv
  BY DEF Ready
<1>1. CASE OpenOwnerWallet(h)
  <2>1. Doing(h, "open") /\ GetOrCreate(q.jet, q.from) /\ Onward(h, q) /\ UNCHANGED <<jetton, books>>
    BY <1>1 DEF OpenOwnerWallet
  <2>2. q \in JCallState /\ q.jet \in Jettons /\ q.from \in Users
    BY <2>1, AtWork
  <2>3. \A j \in Jettons, u \in Users : Lag(jcall'[h], j, u) = Lag(q, j, u)
    BY <2>1, <2>2, LagStays
  <2>4. SameRows
    BY <2>1, <2>2, Opened DEF GetOrCreate
  <2>. QED  BY <2>1, <2>3, <2>4, BooksRest DEF SameRows
<1>2. CASE HolderWallet(h)
  <2>. DEFINE r == [q EXCEPT !.had = purse[q.jet][q.from].balance]
  <2>1. Doing(h, "holder") /\ GetOrCreate(q.jet, q.from) /\ UNCHANGED <<jetton, books>>
        /\ (Onward(h, r) \/ JReturn(h))
    BY <1>2 DEF HolderWallet
  <2>2. q \in JCallState /\ q.jet \in Jettons /\ q.from \in Users /\ h \in JCalls
    BY <2>1, AtWork
  <2>3. purse[q.jet][q.from].balance \in Nat /\ jcall \in [JCalls -> JCallState \cup {JIdle}]
    BY <2>2, RowsTyped DEF Inv, JettonTypeOK
  <2>4. /\ r \in JCallState /\ r.op = q.op /\ r.todo = q.todo /\ r.jet = q.jet
        /\ r.from = q.from /\ r.to = q.to /\ r.amount = q.amount
    BY <2>2, <2>3 DEF JCallState
  <2>. HIDE DEF r
  <2>5. JReturn(h) => jcall'[h] = JIdle
    BY <2>2, <2>3 DEF JReturn
  <2>6. \A j \in Jettons, u \in Users : Lag(jcall'[h], j, u) = Lag(q, j, u)
    BY <2>1, <2>4, <2>5, LagStays
  <2>7. SameRows
    BY <2>1, <2>2, Opened DEF GetOrCreate
  <2>. QED  BY <2>1, <2>6, <2>7, BooksRest DEF SameRows
<1>3. CASE PayeeWallet(h)
  <2>. DEFINE r == [q EXCEPT !.has = purse[q.jet][q.to].balance]
  <2>1. Doing(h, "payee") /\ GetOrCreate(q.jet, q.to) /\ UNCHANGED <<jetton, books>> /\ Onward(h, r)
    BY <1>3 DEF PayeeWallet
  <2>2. q \in JCallState /\ q.jet \in Jettons /\ q.to \in Users
    BY <2>1, AtWork
  <2>3. purse[q.jet][q.to].balance \in Nat
    BY <2>2, RowsTyped
  <2>4. /\ r \in JCallState /\ r.op = q.op /\ r.todo = q.todo /\ r.jet = q.jet
        /\ r.from = q.from /\ r.to = q.to /\ r.amount = q.amount
    BY <2>2, <2>3 DEF JCallState
  <2>. HIDE DEF r
  <2>5. \A j \in Jettons, u \in Users : Lag(jcall'[h], j, u) = Lag(q, j, u)
    BY <2>1, <2>4, LagStays
  <2>6. SameRows
    BY <2>1, <2>2, Opened DEF GetOrCreate
  <2>. QED  BY <2>1, <2>5, <2>6, BooksRest DEF SameRows
<1>4. ASSUME WriteSupply(h) \/ SettingsWrite(h)
      PROVE  BooksOK(h)'
  <2>1. PICK st \in {"supply", "settings"} : Doing(h, st) /\ Onward(h, q) /\ UNCHANGED <<purse, books>>
    BY <1>4 DEF WriteSupply, SettingsWrite
  <2>2. q \in JCallState
    BY <2>1, AtWork
  <2>3. \A j \in Jettons, u \in Users : Lag(jcall'[h], j, u) = Lag(q, j, u)
    BY <2>1, <2>2, LagStays
  <2>. QED  BY <2>1, <2>3, BooksRest
<1>. QED  BY <1>1, <1>2, <1>3, <1>4

\* A handler starts; only Create has written already.
LEMMA StartBooks ==
    ASSUME NEW h, Ready(h), BooksOK(h), NEW op \in DOMAIN Script, op # "create",
           NEW j \in Jettons, NEW u \in Users, NEW v \in Users, NEW n \in Nat,
           NEW flags \in SUBSET Flags, jetton[j] # NoJetton,
           Begin(h, op, j, u, v, n, flags), UNCHANGED <<purse, books>>
    PROVE  BooksOK(h)'
<1>. DEFINE s == jcall'[h]
<1>1. jetton[j].supply \in Int
  BY DEF Ready, Inv, JettonTypeOK, JettonRow
<1>2. /\ jcall[h] = JIdle /\ s.op = op
      /\ s.todo = Script[op]
  BY <1>1, Begun
<1>3. op \in {"transfer", "mint", "burn", "settings"}
  BY DEF Script
<1>. HIDE DEF s
<1>4. \A k \in Jettons, w \in Users : Lag(s, k, w) = 0
  BY <1>2, <1>3, First DEF Lag, Taken, Given
<1>5. \A k \in Jettons, w \in Users : Lag(jcall[h], k, w) = 0
  BY <1>2 DEF Lag
<1>. QED  BY <1>4, <1>5, BooksRest DEF s

LEMMA StartsBooks ==
    ASSUME NEW h, Ready(h), BooksOK(h), NEW j \in Jettons, NEW u \in Users, NEW v \in Users,
           \/ SettingsGet(h, j, u)
           \/ \E n \in 1..MaxAmount :
                 TransferGet(h, j, u, v, n) \/ MintGet(h, j, u, v, n) \/ BurnGet(h, j, u, n)
    PROVE  BooksOK(h)'
<1>1. {} \in SUBSET Flags /\ 1..MaxAmount \subseteq Nat /\ 0 \in Nat
  BY JettonConstantsOK
<1>2. {"transfer", "mint", "burn", "settings"} \subseteq DOMAIN Script
  BY DEF Script
<1>3. jetton[j] # NoJetton /\ UNCHANGED <<purse, books>>
  BY DEF SettingsGet, TransferGet, MintGet, BurnGet, Readable
<1>4. CASE SettingsGet(h, j, u)
  <2>1. PICK ch \in Changes :
           Begin(h, "settings", j, u, u, 0, (jetton[j].enabled \cup ch.on) \ ch.off)
    BY <1>4 DEF SettingsGet
  <2>2. jetton[j] \in JettonRow
    BY <1>3 DEF Ready, Inv, JettonTypeOK
  <2>3. (jetton[j].enabled \cup ch.on) \ ch.off \in SUBSET Flags
    BY <2>2, JettonConstantsOK DEF JettonRow
  <2>. QED  BY <1>1, <1>2, <1>3, <2>1, <2>3, StartBooks
<1>5. ASSUME NEW n \in 1..MaxAmount,
             TransferGet(h, j, u, v, n) \/ MintGet(h, j, u, v, n) \/ BurnGet(h, j, u, n)
      PROVE  BooksOK(h)'
  <2>1. PICK op \in {"transfer", "mint", "burn"}, w \in Users : Begin(h, op, j, u, w, n, {})
    BY <1>5 DEF TransferGet, MintGet, BurnGet
  <2>. QED  BY <1>1, <1>2, <1>3, <2>1, StartBooks
<1>. QED  BY <1>4, <1>5

LEMMA CreateBooks ==
    ASSUME NEW h, Ready(h), BooksOK(h), NEW j \in Jettons, NEW u \in Users, CreateJetton(h, j, u)
    PROVE  BooksOK(h)'
<1>. DEFINE s == jcall'[h]
<1>1. jetton[j] = NoJetton /\ UNCHANGED purse /\ Inv
  BY DEF CreateJetton, Ready
<1>2. PICK q \in Requests :
         /\ Begin(h, "create", j, u, u, q.supply, {})
         /\ books' = [books EXCEPT ![j][u] = @ + q.supply]
  BY DEF CreateJetton
<1>3. PICK n \in Nat : n = q.supply
  BY JettonConstantsOK
<1>4. "create" \in DOMAIN Script /\ {} \in SUBSET Flags
      /\ 0 = (IF jetton[j] = NoJetton THEN 0 ELSE jetton[j].supply)
  BY <1>1 DEF Script
<1>5. jcall[h] = JIdle /\ s # JIdle /\ s.op = "create" /\ s.jet = j /\ s.to = u /\ s.amount = n
  BY <1>2, <1>3, <1>4, Begun
<1>. HIDE DEF s
<1>6. \A k \in Jettons, v \in Users :
         books'[k][v] = IF k = j /\ v = u THEN books[k][v] + n ELSE books[k][v]
  <2>1. books' = [books EXCEPT ![j][u] = @ + n]
    BY <1>2, <1>3
  <2>2. n \in Int
    BY <1>3
  <2>3. books \in [Jettons -> [Users -> Int]]
    BY <1>1 DEF Inv, JettonTypeOK
  <2>. QED  BY <2>1, <2>2, <2>3
<1>7. \A k \in Jettons, v \in Users :
         /\ Lag(s, k, v) = IF k = j /\ v = u THEN n ELSE 0
         /\ Lag(jcall[h], k, v) = 0
  BY <1>5 DEF Lag
<1>8. \A k \in Jettons, v \in Users : purse[k][v].balance \in Nat
  BY <1>1, RowsTyped
<1>. QED  BY <1>1, <1>6, <1>7, <1>8 DEF BooksOK, s

\* The balances Debit and Credit write.
LEMMA DebitBooks ==
    ASSUME NEW h, Ready(h), BooksOK(h), Debit(h)
    PROVE  BooksOK(h)'
<1>. DEFINE r == jcall[h]
            s == jcall'[h]
            n == r.had - r.amount
<1>1. Doing(h, "debit") /\ Onward(h, r) /\ UNCHANGED books
      /\ purse' = [purse EXCEPT ![r.jet][r.from].balance = n]
  BY DEF Debit
<1>2. /\ Inv /\ r \in JCallState /\ r # JIdle /\ r.todo # <<>> /\ Head(r.todo) = "debit"
      /\ r.jet \in Jettons /\ r.from \in Users /\ r.to \in Users
      /\ r.amount \in Nat /\ r.had \in Nat
      /\ SoloOK(purse, jetton, r)
  BY <1>1, AtWork
<1>3. PICK to : /\ <<r.op, "debit", to>> \in Follows
                /\ IF to = "end" THEN s = JIdle ELSE Moved(r, s, to)
  BY <1>1, <1>2, GoesOn
<1>. HIDE DEF r, s
<1>4. /\ \/ r.op = "transfer" /\ to = "credit"
         \/ r.op = "burn" /\ to = "supply"
      /\ Moved(r, s, to)
  BY <1>3 DEF Follows
<1>5. /\ r.op = "transfer" => r.from # r.to
      /\ r.had = purse[r.jet][r.from].balance /\ r.had >= r.amount
  BY <1>2, <1>4 DEF SoloOK, Takes
<1>6. n \in Nat /\ n = purse[r.jet][r.from].balance - r.amount
  BY <1>2, <1>5
<1>7. PICK m \in Nat, j \in Jettons, u \in Users :
         m = n /\ j = r.jet /\ u = r.from
  BY <1>2, <1>6
<1>8. \A k \in Jettons, v \in Users :
         purse'[k][v].balance = IF k = j /\ v = u THEN m ELSE purse[k][v].balance
  <2>1. purse' = [purse EXCEPT ![j][u].balance = m]
    BY <1>1, <1>7
  <2>2. Inv
    BY <1>2
  <2>. QED  BY <2>1, <2>2, Written
<1>. HIDE DEF n
<1>9. \A k \in Jettons, v \in Users : Lag(r, k, v) = 0
  BY <1>2, <1>4 DEF Lag, Taken, Given
<1>10. s # JIdle /\ s.op = r.op /\ s.jet = j /\ s.from = u /\ s.amount = r.amount /\ Head(s.todo) = to
  BY <1>4, <1>7 DEF Moved
<1>11. \A k \in Jettons, v \in Users :
          Lag(s, k, v) = IF k = j /\ v = u THEN r.amount ELSE 0
  <2>1. Taken(s) /\ ~Given(s) /\ s.op # "create"
    BY <1>4, <1>10 DEF Taken, Given
  <2>. QED  BY <1>10, <2>1 DEF Lag
<1>12. \A k \in Jettons, v \in Users : purse[k][v].balance \in Nat
  BY <1>2, RowsTyped
<1>13. \A k \in Jettons, v \in Users : books[k][v] = purse[k][v].balance
  BY <1>9, <1>12 DEF BooksOK, r
<1>14. PICK a \in Nat, b \in Nat : a = r.amount /\ b = purse[j][u].balance
  BY <1>2, <1>12
<1>15. m = b - a
  BY <1>6, <1>7, <1>14
<1>16. m + a = b
  BY <1>15
<1>17. \A k \in Jettons, v \in Users : books'[k][v] = purse'[k][v].balance + Lag(s, k, v)
  <2>. SUFFICES ASSUME NEW k \in Jettons, NEW v \in Users
                PROVE  books[k][v] = purse'[k][v].balance + Lag(s, k, v)
    BY <1>1
  <2>1. CASE k = j /\ v = u
    BY <1>8, <1>11, <1>13, <1>14, <1>16, <2>1
  <2>2. CASE ~(k = j /\ v = u)
    BY <1>8, <1>11, <1>12, <1>13, <2>2
  <2>. QED  BY <2>1, <2>2
<1>. QED  BY <1>17 DEF BooksOK, s

LEMMA CreditBooks ==
    ASSUME NEW h, Ready(h), BooksOK(h), Credit(h)
    PROVE  BooksOK(h)'
<1>. DEFINE r == jcall[h]
            s == jcall'[h]
            n == r.has + r.amount
<1>1. Doing(h, "credit") /\ Onward(h, r) /\ UNCHANGED books
      /\ IF r.amount = 0 THEN UNCHANGED purse
         ELSE purse' = [purse EXCEPT ![r.jet][r.to].balance = n]
  BY DEF Credit
<1>2. /\ Inv /\ r \in JCallState /\ r # JIdle /\ r.todo # <<>> /\ Head(r.todo) = "credit"
      /\ r.jet \in Jettons /\ r.from \in Users /\ r.to \in Users
      /\ r.amount \in Nat /\ r.has \in Nat
      /\ SoloOK(purse, jetton, r)
  BY <1>1, AtWork
<1>3. PICK to : /\ <<r.op, "credit", to>> \in Follows
                /\ IF to = "end" THEN s = JIdle ELSE Moved(r, s, to)
  BY <1>1, <1>2, GoesOn
<1>. HIDE DEF r, s
<1>4. \/ r.op = "create" /\ s = JIdle
      \/ r.op = "transfer" /\ to = "record" /\ Moved(r, s, "record")
      \/ r.op = "mint" /\ to = "supply" /\ Moved(r, s, "supply")
  BY <1>3 DEF Follows
<1>5. /\ r.op = "transfer" => r.from # r.to
      /\ r.has = purse[r.jet][r.to].balance
  BY <1>2, <1>4 DEF SoloOK
<1>6. PICK m \in Nat, j \in Jettons, u \in Users :
         m = n /\ j = r.jet /\ u = r.to
  BY <1>2
<1>7. m = purse[j][u].balance + r.amount
  BY <1>5, <1>6
<1>8. \A k \in Jettons, v \in Users : purse[k][v].balance \in Nat
  BY <1>2, RowsTyped
<1>9. \A k \in Jettons, v \in Users :
         purse'[k][v].balance = IF k = j /\ v = u THEN m ELSE purse[k][v].balance
  <2>1. CASE r.amount = 0
    BY <1>1, <1>7, <1>8, <2>1
  <2>2. CASE r.amount # 0
    BY <1>1, <1>2, <1>6, <2>2, Written
  <2>. QED  BY <2>1, <2>2
<1>. HIDE DEF n
<1>10. \A k \in Jettons, v \in Users :
          Lag(s, k, v) = IF k = j /\ v = u THEN Lag(r, k, v) - r.amount ELSE Lag(r, k, v)
  <2>1. CASE r.op = "create"
    <3>1. \A k \in Jettons, v \in Users : Lag(r, k, v) = IF k = j /\ v = u THEN r.amount ELSE 0
      BY <1>2, <1>6, <2>1 DEF Lag
    <3>2. \A k \in Jettons, v \in Users : Lag(s, k, v) = 0
      BY <1>4, <2>1 DEF Lag
    <3>. QED  BY <1>2, <3>1, <3>2
  <2>2. CASE r.op = "transfer"
    <3>1. /\ s # JIdle /\ s.op = "transfer" /\ s.jet = j /\ s.to = u /\ s.from = r.from
          /\ s.amount = r.amount /\ Head(s.todo) = "record" /\ r.from # u
      BY <1>4, <1>5, <1>6, <2>2 DEF Moved
    <3>2. Taken(s) /\ Given(s) /\ Taken(r) /\ ~Given(r)
      BY <1>2, <2>2, <3>1 DEF Taken, Given
    <3>3. \A k \in Jettons, v \in Users :
             Lag(r, k, v) = IF k = j /\ v = r.from THEN r.amount ELSE 0
      BY <1>2, <1>6, <2>2, <3>2 DEF Lag
    <3>4. \A k \in Jettons, v \in Users :
             Lag(s, k, v) = IF k = j /\ v = r.from THEN r.amount
                            ELSE IF k = j /\ v = u THEN -r.amount ELSE 0
      BY <3>1, <3>2 DEF Lag
    <3>. QED  BY <1>2, <3>1, <3>3, <3>4
  <2>3. CASE r.op = "mint"
    <3>1. /\ s # JIdle /\ s.op = "mint" /\ s.jet = j /\ s.to = u
          /\ s.amount = r.amount /\ Head(s.todo) = "supply"
      BY <1>4, <1>6, <2>3 DEF Moved
    <3>2. ~Taken(s) /\ Given(s) /\ ~Taken(r) /\ ~Given(r)
      BY <1>2, <2>3, <3>1 DEF Taken, Given
    <3>3. \A k \in Jettons, v \in Users : Lag(r, k, v) = 0
      BY <2>3, <3>2 DEF Lag
    <3>4. \A k \in Jettons, v \in Users :
             Lag(s, k, v) = IF k = j /\ v = u THEN -r.amount ELSE 0
      BY <3>1, <3>2 DEF Lag
    <3>. QED  BY <1>2, <3>3, <3>4
  <2>. QED  BY <1>4, <2>1, <2>2, <2>3
<1>11. \A k \in Jettons, v \in Users : Lag(r, k, v) \in Int
  BY <1>2 DEF Lag
<1>12. \A k \in Jettons, v \in Users : books[k][v] = purse[k][v].balance + Lag(r, k, v)
  BY DEF BooksOK, r
<1>13. PICK a \in Nat : a = r.amount
  BY <1>2
<1>14. \A k \in Jettons, v \in Users : books'[k][v] = purse'[k][v].balance + Lag(s, k, v)
  <2>. SUFFICES ASSUME NEW k \in Jettons, NEW v \in Users
                PROVE  books[k][v] = purse'[k][v].balance + Lag(s, k, v)
    BY <1>1
  <2>1. PICK l \in Int, b \in Nat : l = Lag(r, k, v) /\ b = purse[k][v].balance
    BY <1>8, <1>11
  <2>2. books[k][v] = b + l
    BY <1>12, <2>1
  <2>3. CASE k = j /\ v = u
    <3>1. m = b + a
      BY <1>7, <1>13, <2>1, <2>3
    <3>2. Lag(s, k, v) = l - a /\ purse'[k][v].balance = m
      BY <1>9, <1>10, <1>13, <2>1, <2>3
    <3>. QED  BY <2>2, <3>1, <3>2
  <2>4. CASE ~(k = j /\ v = u)
    BY <1>9, <1>10, <2>1, <2>2, <2>4
  <2>. QED  BY <2>3, <2>4
<1>. QED  BY <1>14 DEF BooksOK, s

LEMMA RecordBooks ==
    ASSUME NEW h, Ready(h), BooksOK(h), Record(h)
    PROVE  BooksOK(h)'
<1>. DEFINE r == jcall[h]
            s == jcall'[h]
<1>1. Doing(h, "record") /\ Onward(h, r) /\ UNCHANGED purse
  BY DEF Record
<1>2. /\ Inv /\ r \in JCallState /\ r # JIdle /\ r.todo # <<>> /\ Head(r.todo) = "record"
      /\ r.jet \in Jettons /\ r.from \in Users /\ r.to \in Users /\ r.amount \in Nat
      /\ SoloOK(purse, jetton, r)
  BY <1>1, AtWork
<1>3. PICK to : /\ <<r.op, "record", to>> \in Follows
                /\ IF to = "end" THEN s = JIdle ELSE Moved(r, s, to)
  BY <1>1, <1>2, GoesOn
<1>4. books \in [Jettons -> [Users -> Int]]
  BY <1>2 DEF Inv, JettonTypeOK
<1>5. PICK j \in Jettons, u \in Users, v \in Users, n \in Nat :
         j = r.jet /\ u = r.from /\ v = r.to /\ n = r.amount
  BY <1>2
<1>6. \A k \in Jettons : k # j => books'[k] = books[k]
  BY <1>4, <1>5 DEF Record
<1>7. /\ r.op = "mint" => books'[j] = [books[j] EXCEPT ![v] = @ + n]
      /\ r.op = "burn" => books'[j] = [books[j] EXCEPT ![u] = @ - n]
      /\ r.op = "transfer" =>
            books'[j] = [[books[j] EXCEPT ![u] = @ - n] EXCEPT ![v] = @ + n]
  BY <1>4, <1>5 DEF Record
<1>. HIDE DEF r, s
<1>8. r.op \in {"transfer", "mint", "burn"} /\ s = JIdle
  BY <1>3 DEF Follows
<1>9. r.op = "transfer" => u # v
  BY <1>2, <1>5 DEF SoloOK
<1>10. \A k \in Jettons, w \in Users :
          /\ Lag(s, k, w) = 0
          /\ Lag(r, k, w) =
                IF k # j THEN 0
                ELSE IF r.op \in {"transfer", "burn"} /\ w = u THEN n
                ELSE IF r.op \in {"transfer", "mint"} /\ w = v THEN -n ELSE 0
  <2>1. /\ Taken(r) <=> r.op \in {"transfer", "burn"}
        /\ Given(r) <=> r.op \in {"transfer", "mint"}
    BY <1>2, <1>8 DEF Taken, Given
  <2>2. \A k, w : Lag(s, k, w) = 0
    BY <1>8 DEF Lag
  <2>3. ASSUME NEW k \in Jettons, NEW w \in Users
        PROVE  Lag(r, k, w) =
                IF k # j THEN 0
                ELSE IF r.op \in {"transfer", "burn"} /\ w = u THEN n
                ELSE IF r.op \in {"transfer", "mint"} /\ w = v THEN -n ELSE 0
    BY <1>2, <1>5, <1>8, <1>9, <2>1 DEF Lag
  <2>. QED  BY <2>2, <2>3
<1>11. \A w \in Users :
          books'[j][w] = IF r.op \in {"transfer", "burn"} /\ w = u THEN books[j][w] - n
                         ELSE IF r.op \in {"transfer", "mint"} /\ w = v THEN books[j][w] + n
                         ELSE books[j][w]
  <2>1. books[j] \in [Users -> Int]
    BY <1>4
  <2>. QED  BY <1>7, <1>8, <1>9, <2>1
<1>12. \A k \in Jettons, w \in Users :
          /\ purse[k][w].balance \in Nat /\ books[k][w] \in Int
          /\ books[k][w] = purse[k][w].balance + Lag(r, k, w)
  BY <1>2, <1>4, RowsTyped DEF BooksOK, r
<1>13. \A k \in Jettons, w \in Users : books'[k][w] = purse[k][w].balance
  BY <1>5, <1>6, <1>8, <1>9, <1>10, <1>11, <1>12
<1>14. \A k \in Jettons, w \in Users : books'[k][w] = purse'[k][w].balance + Lag(s, k, w)
  BY <1>1, <1>10, <1>12, <1>13
<1>. QED  BY <1>14 DEF BooksOK, s

LEMMA BooksInit ==
    ASSUME NEW h, Alone(h), JettonInit
    PROVE  BooksOK(h)
<1>1. jcall[h] = JIdle
  BY DEF Alone, JettonInit
<1>. QED  BY <1>1 DEF BooksOK, JettonInit, Lag

LEMMA BooksNext ==
    ASSUME NEW h, Ready(h), BooksOK(h), [JettonNext]_jettonVars
    PROVE  BooksOK(h)'
<1>1. ASSUME NEW j \in Jettons, Admin(j) PROVE BooksOK(h)'
  BY <1>1, AdminRows, BooksRest DEF Ready, SameRows
<1>2. CASE Create(h)
  BY <1>2, CreateBooks, QuietBooks DEF Create
<1>3. CASE UpdateSettings(h)
  BY <1>3, StartsBooks, QuietBooks DEF UpdateSettings
<1>4. CASE Transfer(h)
  <2>1. CASE \E j \in Jettons, u, v \in Users, n \in 1..MaxAmount : TransferGet(h, j, u, v, n)
    BY <2>1, StartsBooks
  <2>. QED  BY <1>4, <2>1, QuietBooks, DebitBooks, CreditBooks, RecordBooks DEF Transfer
<1>5. CASE Mint(h)
  <2>1. CASE \E j \in Jettons, u, v \in Users, n \in 1..MaxAmount : MintGet(h, j, u, v, n)
    BY <2>1, StartsBooks
  <2>. QED  BY <1>5, <2>1, QuietBooks DEF Mint
<1>6. CASE Burn(h)
  BY <1>6, StartsBooks DEF Burn
<1>7. ~JettonFails(h)
  BY DEF Ready, Alone, JettonFails
<1>8. \A c \in JCalls : c = h
  BY DEF Ready, Alone
<1>9. CASE UNCHANGED jettonVars
  BY <1>9, BooksRest DEF jettonVars
<1>. QED  BY <1>1, <1>2, <1>3, <1>4, <1>5, <1>6, <1>7, <1>8, <1>9 DEF JettonNext
-----------------------------------------------------------------------------
(* Sums                                                                     *)
(*                                                                          *)
(* SumFunction is a fold: the function that sums all subsets, taken at the  *)
(* whole domain.  That there is such a function, and what it is when one    *)
(* summand changes, is shown on a smallest set where it would fail.         *)

LEMMA SmallestNumber ==
    ASSUME NEW T, T \subseteq Nat, T # {}
    PROVE  \E x \in T : \A y \in T : x <= y
<1>. DEFINE R == {ss \in Nat \X Nat : ss[1] < ss[2]}
<1>1. IsWellFoundedOn(R, Nat)
  BY NatLessThanWellFounded DEF OpToRel
<1>. HIDE DEF R
<1>2. PICK x \in T : \A y \in T : ~(<<y, x>> \in R)
  BY <1>1, WFMin
<1>3. ASSUME NEW y \in T PROVE x <= y
  <2>1. x \in Nat /\ y \in Nat
    OBVIOUS
  <2>2. y < x => <<y, x>> \in R
    BY <2>1 DEF R
  <2>. QED  BY <1>2, <2>1, <2>2
<1>. QED  BY <1>3

\* Of some subsets of a finite set, one has none of the others in it.
LEMMA SmallestSet ==
    ASSUME NEW S, IsFiniteSet(S), NEW B, B \subseteq SUBSET S, B # {}
    PROVE  \E s \in B : \A t \in B : t \subseteq s => t = s
<1>. DEFINE R == {ss \in (SUBSET S) \X (SUBSET S) : ss[1] \subseteq ss[2] /\ ss[1] # ss[2]}
<1>1. IsWellFoundedOn(R, SUBSET S)
  BY FS_StrictSubsetOrderingWellFounded, FS_FiniteSubsetsOfFinite DEF StrictSubsetOrdering
<1>. HIDE DEF R
<1>2. PICK s \in B : \A t \in B : ~(<<t, s>> \in R)
  BY <1>1, WFMin
<1>3. ASSUME NEW t \in B, t \subseteq s PROVE t = s
  <2>1. t # s => <<t, s>> \in R
    BY <1>3 DEF R
  <2>. QED  BY <1>2, <2>1
<1>. QED  BY <1>3

\* The summand taken first, and what a sum over s is from smaller ones.
FirstOf(s) == CHOOSE x \in s : TRUE

SumStep(f, g, s) == IF s = {} THEN 0 ELSE f[FirstOf(s)] + g[s \ {FirstOf(s)}]

Small(S, n) == {s \in SUBSET S : Cardinality(s) <= n}

IsSum(f, g, D) == g = [s \in D |-> SumStep(f, g, s)]

LEMMA SmallerSet ==
    ASSUME NEW S, IsFiniteSet(S), NEW s \in SUBSET S, s # {}
    PROVE  /\ FirstOf(s) \in s /\ s \ {FirstOf(s)} \in SUBSET S
           /\ Cardinality(s) \in Nat \ {0}
           /\ Cardinality(s \ {FirstOf(s)}) = Cardinality(s) - 1
<1>1. FirstOf(s) \in s
  BY DEF FirstOf
<1>2. IsFiniteSet(s)
  BY FS_Subset
<1>3. Cardinality(s) \in Nat /\ Cardinality(s) # 0
  BY <1>2, FS_CardinalityType, FS_EmptySet
<1>4. Cardinality(s \ {FirstOf(s)}) = Cardinality(s) - 1
  BY <1>1, <1>2, FS_RemoveElement
<1>. QED  BY <1>1, <1>3, <1>4

\* There is a function that sums the subsets of up to n elements.
LEMMA SumsUpTo ==
    ASSUME NEW S, IsFiniteSet(S), NEW f, NEW n \in Nat
    PROVE  \E g : IsSum(f, g, Small(S, n))
<1>. DEFINE T == {k \in Nat : ~\E g : IsSum(f, g, Small(S, k))}
<1>1. SUFFICES ASSUME T # {} PROVE FALSE
  OBVIOUS
<1>2. PICK m \in T : \A k \in T : m <= k
  <2>1. T \subseteq Nat
    OBVIOUS
  <2>. HIDE DEF T
  <2>. QED  BY <1>1, <2>1, SmallestNumber
<1>3. m \in Nat /\ ~\E g : IsSum(f, g, Small(S, m))
  OBVIOUS
<1>4. m # 0
  <2>. SUFFICES ASSUME m = 0 PROVE FALSE
    OBVIOUS
  <2>1. \A s \in Small(S, 0) : s = {}
    <3>. SUFFICES ASSUME NEW s \in Small(S, 0), s # {} PROVE FALSE
      OBVIOUS
    <3>1. Cardinality(s) \in Nat \ {0} /\ Cardinality(s) <= 0
      BY SmallerSet DEF Small
    <3>. QED  BY <3>1
  <2>. DEFINE g == [s \in Small(S, 0) |-> 0]
  <2>2. \A s \in Small(S, 0) : SumStep(f, g, s) = 0
    BY <2>1 DEF SumStep
  <2>3. IsSum(f, g, Small(S, 0))
    <3>1. [s \in Small(S, 0) |-> SumStep(f, g, s)] = [s \in Small(S, 0) |-> 0]
      <4>. HIDE DEF g
      <4>. QED  BY <2>2
    <3>. QED  BY <3>1 DEF IsSum
  <2>. QED  BY <1>3, <2>3
<1>5. PICK k \in Nat : k = m - 1
  BY <1>3, <1>4
<1>6. PICK g : IsSum(f, g, Small(S, k))
  <2>1. k \notin T
    BY <1>2, <1>3, <1>5
  <2>. QED  BY <2>1
<1>. HIDE DEF T
<1>. DEFINE D == Small(S, m)
            E == Small(S, k)
            h == [s \in D |-> IF s \in E THEN g[s] ELSE SumStep(f, g, s)]
<1>7. E \subseteq D /\ \A s \in D \ {{}} : s \ {FirstOf(s)} \in E
  <2>1. ASSUME NEW s \in E PROVE s \in D
    <3>1. s \in SUBSET S /\ Cardinality(s) <= k /\ Cardinality(s) \in Nat
      BY FS_Subset, FS_CardinalityType DEF Small
    <3>. QED  BY <1>3, <1>5, <3>1 DEF Small
  <2>2. ASSUME NEW s \in D \ {{}} PROVE s \ {FirstOf(s)} \in E
    <3>1. s \in SUBSET S /\ s # {} /\ Cardinality(s) <= m
      BY DEF Small
    <3>2. /\ s \ {FirstOf(s)} \in SUBSET S /\ Cardinality(s) \in Nat
          /\ Cardinality(s \ {FirstOf(s)}) = Cardinality(s) - 1
      BY <3>1, SmallerSet
    <3>3. Cardinality(s \ {FirstOf(s)}) <= k
      BY <1>3, <1>5, <3>1, <3>2
    <3>. QED  BY <3>2, <3>3 DEF Small
  <2>. QED  BY <2>1, <2>2
<1>8. \A s \in E : g[s] = SumStep(f, g, s)
  BY <1>6 DEF IsSum
<1>. HIDE DEF D, E
<1>9. \A s \in D : h[s] = SumStep(f, g, s)
  BY <1>8
<1>10. \A s \in E : h[s] = g[s]
  BY <1>7
<1>11. h = [s \in D |-> h[s]]
  OBVIOUS
<1>. HIDE DEF h
<1>12. \A s \in D : SumStep(f, h, s) = SumStep(f, g, s)
  BY <1>7, <1>10 DEF SumStep
<1>13. h = [s \in D |-> SumStep(f, h, s)]
  BY <1>9, <1>11, <1>12
<1>. QED  BY <1>3, <1>13 DEF IsSum, D

\* The sum over S is such a function's value there.
LEMMA SumOf ==
    ASSUME NEW f, IsFiniteSet(DOMAIN f)
    PROVE  \E g : IsSum(f, g, SUBSET DOMAIN f) /\ Ledger!SumFunction(f) = g[DOMAIN f]
<1>1. PICK S : S = DOMAIN f
  OBVIOUS
<1>2. \E g : g = [s \in SUBSET DOMAIN f |-> SumStep(f, g, s)]
  <2>1. Cardinality(S) \in Nat /\ IsFiniteSet(S)
    BY <1>1, FS_CardinalityType
  <2>2. Small(S, Cardinality(S)) = SUBSET S
    BY <2>1, FS_Subset DEF Small
  <2>3. PICK g : IsSum(f, g, Small(S, Cardinality(S)))
    BY <2>1, SumsUpTo
  <2>. QED  BY <1>1, <2>2, <2>3 DEF IsSum
<1>. DEFINE g == CHOOSE iter : iter = [s \in SUBSET DOMAIN f |-> SumStep(f, iter, s)]
<1>3. g = [s \in SUBSET DOMAIN f |-> SumStep(f, g, s)]
  BY <1>2
<1>4. Ledger!SumFunction(f) = g[DOMAIN f]
  BY DEF Ledger!SumFunction, Ledger!SumFunctionOnSet, Ledger!FoldFunctionOnSet,
         Ledger!MapThenFoldSet, SumStep, FirstOf
<1>. QED  BY <1>3, <1>4 DEF IsSum

\* Changing one summand changes the sum by as much; noughts sum to nought.
LEMMA SumChanges ==
    ASSUME NEW S, IsFiniteSet(S), NEW f \in [S -> Int], NEW h \in [S -> Int],
           NEW u \in S, NEW n \in Int,
           \A v \in S : h[v] = IF v = u THEN f[v] + n ELSE f[v]
    PROVE  /\ Ledger!SumFunction(f) \in Int
           /\ Ledger!SumFunction(h) = Ledger!SumFunction(f) + n
<1>0. DOMAIN f = S /\ DOMAIN h = S
  OBVIOUS
<1>1. PICK a : IsSum(f, a, SUBSET S) /\ Ledger!SumFunction(f) = a[S]
  BY <1>0, SumOf
<1>2. PICK b : IsSum(h, b, SUBSET S) /\ Ledger!SumFunction(h) = b[S]
  BY <1>0, SumOf
<1>. DEFINE Right(s) == a[s] \in Int /\ b[s] = a[s] + (IF u \in s THEN n ELSE 0)
            B == {s \in SUBSET S : ~Right(s)}
<1>3. SUFFICES ASSUME B # {} PROVE FALSE
  <2>1. Right(S)
    BY <1>3
  <2>. QED  BY <1>1, <1>2, <2>1
<1>4. PICK s \in B : \A t \in B : t \subseteq s => t = s
  <2>1. B \subseteq SUBSET S
    OBVIOUS
  <2>. HIDE DEF B
  <2>. QED  BY <1>3, <2>1, SmallestSet
<1>5. s \in SUBSET S /\ ~Right(s)
  OBVIOUS
<1>6. a[s] = SumStep(f, a, s) /\ b[s] = SumStep(h, b, s)
  BY <1>1, <1>2, <1>5 DEF IsSum
<1>7. CASE s = {}
  BY <1>5, <1>6, <1>7 DEF SumStep
<1>8. CASE s # {}
  <2>1. PICK x, t : x = FirstOf(s) /\ t = s \ {x}
    OBVIOUS
  <2>2. x \in s /\ x \in S /\ t \in SUBSET S /\ t \subseteq s /\ t # s
    BY <1>5, <1>8, <2>1, SmallerSet
  <2>3. Right(t)
    BY <1>4, <2>2
  <2>4. a[s] = f[x] + a[t] /\ b[s] = h[x] + b[t]
    BY <1>6, <1>8, <2>1 DEF SumStep
  <2>5. f[x] \in Int /\ h[x] = IF x = u THEN f[x] + n ELSE f[x]
    BY <2>2
  <2>6. u \in s <=> (u \in t \/ u = x)
    BY <2>1, <2>2
  <2>7. u \in t => u # x
    BY <2>1
  <2>8. Right(s)
    <3>1. a[t] \in Int /\ b[t] = a[t] + (IF u \in t THEN n ELSE 0)
      BY <2>3
    <3>2. CASE u \in t
      BY <2>4, <2>5, <2>6, <2>7, <3>1, <3>2
    <3>3. CASE u \notin t
      BY <2>4, <2>5, <2>6, <3>1, <3>3
    <3>. QED  BY <3>2, <3>3
  <2>. QED  BY <1>5, <2>8
<1>. QED  BY <1>7, <1>8

Shifted(f, u, n) == [f EXCEPT ![u] = @ + n]

LEMMA SumShifts ==
    ASSUME NEW S, IsFiniteSet(S), NEW f \in [S -> Int], NEW u \in S, NEW n \in Int
    PROVE  /\ Shifted(f, u, n) \in [S -> Int]
           /\ Ledger!SumFunction(f) \in Int
           /\ Ledger!SumFunction(Shifted(f, u, n)) = Ledger!SumFunction(f) + n
<1>1. PICK g : g = Shifted(f, u, n)
  OBVIOUS
<1>2. g \in [S -> Int] /\ \A v \in S : g[v] = IF v = u THEN f[v] + n ELSE f[v]
  BY <1>1 DEF Shifted
<1>3. /\ Ledger!SumFunction(f) \in Int
      /\ Ledger!SumFunction(g) = Ledger!SumFunction(f) + n
  BY <1>2, SumChanges
<1>. QED  BY <1>1, <1>2, <1>3

LEMMA SumOfNoughts ==
    ASSUME NEW S, IsFiniteSet(S)
    PROVE  Ledger!SumFunction([u \in S |-> 0]) = 0
<1>. DEFINE f == [u \in S |-> 0]
<1>0. DOMAIN f = S /\ \A u \in S : f[u] = 0
  OBVIOUS
<1>. HIDE DEF f
<1>1. PICK a : IsSum(f, a, SUBSET S) /\ Ledger!SumFunction(f) = a[S]
  BY <1>0, SumOf
<1>. DEFINE B == {s \in SUBSET S : a[s] # 0}
<1>2. SUFFICES ASSUME B # {} PROVE FALSE
  BY <1>1, <1>2 DEF f
<1>3. PICK s \in B : \A t \in B : t \subseteq s => t = s
  <2>1. B \subseteq SUBSET S
    OBVIOUS
  <2>. HIDE DEF B
  <2>. QED  BY <1>2, <2>1, SmallestSet
<1>4. s \in SUBSET S /\ a[s] # 0 /\ a[s] = SumStep(f, a, s)
  BY <1>1 DEF IsSum
<1>5. s # {}
  BY <1>4 DEF SumStep
<1>6. PICK x, t : x = FirstOf(s) /\ t = s \ {x}
  OBVIOUS
<1>7. x \in S /\ t \in SUBSET S /\ t \subseteq s /\ t # s
  BY <1>4, <1>5, <1>6, SmallerSet
<1>8. a[t] = 0 /\ f[x] = 0
  BY <1>0, <1>3, <1>7
<1>. QED  BY <1>4, <1>5, <1>6, <1>8 DEF SumStep

-----------------------------------------------------------------------------
(* The ledger conserves                                                     *)

LedgerOK ==
    /\ holdingBar \in [Jettons -> [Users -> Int]]
    /\ supplyBar \in [Jettons -> Int]
    /\ Ledger!Conserved

LEMMA LedgerOKInit ==
    ASSUME IsFiniteSet(Users), Ledger!LedgerInit
    PROVE  LedgerOK
<1>1. /\ holdingBar = [j \in Jettons |-> [u \in Users |-> 0]]
      /\ supplyBar = [j \in Jettons |-> 0]
  BY DEF Ledger!LedgerInit
<1>2. \A j \in Jettons : supplyBar[j] = Ledger!SumFunction(holdingBar[j])
  BY <1>1, SumOfNoughts
<1>. QED  BY <1>1, <1>2 DEF LedgerOK, Ledger!Conserved

\* One holding and the supply change by n.
Shifts(j, u, n) ==
    /\ holdingBar' = [holdingBar EXCEPT ![j][u] = @ + n]
    /\ supplyBar' = [supplyBar EXCEPT ![j] = @ + n]

LEMMA LedgerShifts ==
    ASSUME IsFiniteSet(Users), LedgerOK, NEW j \in Jettons, NEW u \in Users, NEW n \in Int,
           Shifts(j, u, n)
    PROVE  LedgerOK'
<1>1. PICK f \in [Users -> Int] : f = holdingBar[j]
  BY DEF LedgerOK
<1>0. PICK g : g = Shifted(f, u, n)
  OBVIOUS
<1>2. /\ g \in [Users -> Int]
      /\ Ledger!SumFunction(f) \in Int
      /\ Ledger!SumFunction(g) = Ledger!SumFunction(f) + n
  BY <1>0, SumShifts
<1>3. /\ holdingBar' = [holdingBar EXCEPT ![j] = g]
      /\ supplyBar' = [supplyBar EXCEPT ![j] = @ + n]
  BY <1>0, <1>1 DEF Shifts, Shifted
<1>4. Ledger!SumFunction(f) \in Int /\ Ledger!SumFunction(g) = Ledger!SumFunction(f) + n
  BY <1>2
<1>5. supplyBar[j] = Ledger!SumFunction(f)
  BY <1>1 DEF LedgerOK, Ledger!Conserved
<1>6. /\ holdingBar' \in [Jettons -> [Users -> Int]]
      /\ supplyBar' \in [Jettons -> Int]
  BY <1>2, <1>3 DEF LedgerOK
<1>7. \A k \in Jettons : supplyBar'[k] = Ledger!SumFunction(holdingBar'[k])
  <2>. SUFFICES ASSUME NEW k \in Jettons
                PROVE  supplyBar'[k] = Ledger!SumFunction(holdingBar'[k])
    OBVIOUS
  <2>1. CASE k = j
    <3>1. holdingBar'[k] = g /\ supplyBar'[k] = supplyBar[j] + n
      BY <1>3, <2>1 DEF LedgerOK
    <3>. QED  BY <1>4, <1>5, <3>1
  <2>2. CASE k # j
    <3>1. holdingBar'[k] = holdingBar[k] /\ supplyBar'[k] = supplyBar[k]
      BY <1>3, <2>2 DEF LedgerOK
    <3>. QED  BY <3>1 DEF LedgerOK, Ledger!Conserved
  <2>. QED  BY <2>1, <2>2
<1>. QED  BY <1>6, <1>7 DEF LedgerOK, Ledger!Conserved

\* What one holder loses the other gets.
LEMMA LedgerMoves ==
    ASSUME IsFiniteSet(Users), LedgerOK, NEW j \in Jettons, NEW u \in Users, NEW v \in Users,
           NEW n \in Int, Ledger!Move(j, u, v, n)
    PROVE  LedgerOK'
<1>1. PICK f \in [Users -> Int] : f = holdingBar[j]
  BY DEF LedgerOK
<1>2. PICK m \in Int : m = -n
  OBVIOUS
<1>3. PICK g : g = Shifted(f, u, m)
  OBVIOUS
<1>4. PICK h : h = Shifted(g, v, n)
  OBVIOUS
<1>10. /\ g \in [Users -> Int]
       /\ Ledger!SumFunction(f) \in Int
       /\ Ledger!SumFunction(g) = Ledger!SumFunction(f) + m
  BY <1>3, SumShifts
<1>11. /\ h \in [Users -> Int]
       /\ Ledger!SumFunction(h) = Ledger!SumFunction(g) + n
  <2>1. g \in [Users -> Int]
    BY <1>10
  <2>. QED  BY <1>4, <2>1, SumShifts
<1>5. Ledger!SumFunction(h) = Ledger!SumFunction(f)
  BY <1>2, <1>10, <1>11
<1>6. g = [f EXCEPT ![u] = @ - n] /\ h = [g EXCEPT ![v] = @ + n]
  BY <1>2, <1>3, <1>4 DEF Shifted
<1>7. holdingBar' = [holdingBar EXCEPT ![j] = h] /\ UNCHANGED supplyBar
  BY <1>1, <1>6 DEF Ledger!Move
<1>8. /\ holdingBar' \in [Jettons -> [Users -> Int]]
      /\ supplyBar' \in [Jettons -> Int]
  BY <1>7, <1>11 DEF LedgerOK
<1>9. \A k \in Jettons : supplyBar'[k] = Ledger!SumFunction(holdingBar'[k])
  <2>. SUFFICES ASSUME NEW k \in Jettons
                PROVE  supplyBar[k] = Ledger!SumFunction(holdingBar'[k])
    BY <1>7
  <2>1. supplyBar[k] = Ledger!SumFunction(holdingBar[k])
    BY DEF LedgerOK, Ledger!Conserved
  <2>2. holdingBar'[k] = IF k = j THEN h ELSE holdingBar[k]
    BY <1>7 DEF LedgerOK
  <2>. QED  BY <1>1, <1>5, <2>1, <2>2
<1>. QED  BY <1>8, <1>9 DEF LedgerOK, Ledger!Conserved

LEMMA LedgerOKNext ==
    ASSUME IsFiniteSet(Users), LedgerOK, [Ledger!LedgerNext]_(Ledger!ledgerVars)
    PROVE  LedgerOK'
<1>1. CASE Ledger!LedgerNext
  <2>1. PICK j \in Jettons, u \in Users, v \in Users, n \in 1..MaxAmount :
           Ledger!Issue(j, u, n) \/ Ledger!Redeem(j, u, n) \/ Ledger!Move(j, u, v, n)
    BY <1>1 DEF Ledger!LedgerNext
  <2>2. n \in Int
    BY JettonConstantsOK
  <2>3. CASE Ledger!Issue(j, u, n)
    <3>1. Shifts(j, u, n)
      BY <2>3 DEF Ledger!Issue, Shifts
    <3>. QED  BY <2>2, <3>1, LedgerShifts
  <2>4. CASE Ledger!Redeem(j, u, n)
    <3>1. PICK m \in Int : m = -n
      BY <2>2
    <3>2. Shifts(j, u, m)
      BY <2>2, <2>4, <3>1 DEF Ledger!Redeem, LedgerOK, Shifts
    <3>. QED  BY <3>2, LedgerShifts
  <2>5. CASE Ledger!Move(j, u, v, n)
    BY <2>2, <2>5, LedgerMoves
  <2>. QED  BY <2>1, <2>3, <2>4, <2>5
<1>2. CASE UNCHANGED <<holdingBar, supplyBar>>
  BY <1>2 DEF LedgerOK, Ledger!Conserved
<1>. QED  BY <1>1, <1>2 DEF Ledger!ledgerVars

\* Between two operations the records have what the balances have.
LEMMA BooksAgree ==
    ASSUME NEW h, Alone(h), Inv, BooksOK(h), jcall[h] = JIdle
    PROVE  \A j \in Jettons, u \in Users : purse[j][u].balance = books[j][u]
<1>1. \A j \in Jettons, u \in Users : purse[j][u].balance \in Nat
  BY RowsTyped
<1>2. \A j \in Jettons, u \in Users : books[j][u] = purse[j][u].balance + 0
  BY DEF BooksOK, Lag
<1>. QED  BY <1>1, <1>2

(* One operation after another, each to its end, for any finite set of       *)
(* holders: Jetton implements TokenLedger, the supply is what the holders    *)
(* have together, and between two operations every balance is what Create    *)
(* and the recorded transfers, mints and burns make it.                      *)
THEOREM LedgerHoldsOneByOne ==
    ASSUME NEW CONSTANT h, Alone(h), IsFiniteSet(Users)
    PROVE  JettonSpec => LedgerAlone
<1>. DEFINE Agree == alone /\ (\A c \in JCalls : jcall[c] = JIdle) =>
                     \A j \in Jettons, u \in Users : purse[j][u].balance = books[j][u]
<1>1. JettonInit => Ledger!LedgerInit /\ SoloInv(h) /\ LedgerOK /\ BooksOK(h)
  BY SoloInit, LedgerOKInit, BooksInit
<1>2. Inv /\ SoloInv(h) /\ LedgerOK /\ BooksOK(h) /\ [JettonNext]_jettonVars =>
         /\ SoloInv(h)' /\ LedgerOK' /\ BooksOK(h)'
         /\ [alone => Ledger!LedgerNext]_<<holdingBar, supplyBar>>
  <2>. SUFFICES ASSUME Inv, SoloInv(h), LedgerOK, BooksOK(h), [JettonNext]_jettonVars
                PROVE  /\ SoloInv(h)' /\ LedgerOK' /\ BooksOK(h)'
                       /\ [alone => Ledger!LedgerNext]_<<holdingBar, supplyBar>>
    OBVIOUS
  <2>1. SoloInv(h)' /\ [Ledger!LedgerNext]_(Ledger!ledgerVars)
    BY SoloNext
  <2>2. LedgerOK'
    BY <2>1, LedgerOKNext
  <2>3. BooksOK(h)'
    BY BooksNext DEF Ready
  <2>4. [alone => Ledger!LedgerNext]_<<holdingBar, supplyBar>>
    BY <2>1 DEF Ledger!ledgerVars
  <2>. QED  BY <2>1, <2>2, <2>3, <2>4
<1>3. Inv /\ SoloInv(h) /\ LedgerOK /\ BooksOK(h) =>
         (alone => Ledger!Conserved) /\ Agree
  BY BooksAgree DEF LedgerOK, Alone
<1>. QED  BY <1>1, <1>2, <1>3, Invariant, PTL DEF JettonSpec, LedgerAlone
=============================================================================
