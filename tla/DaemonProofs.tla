---------------------------- MODULE DaemonProofs ----------------------------
(***************************************************************************)
(* Proofs about the managers that share the daemon's database, each for    *)
(* any number of requests, rows and calls in flight.  A theorem about two  *)
(* of them speaks of both side by side, in whatever way their steps        *)
(* interleave.                                                             *)
(***************************************************************************)
EXTENDS MCDaemon, FiniteSetTheorems, SequenceTheorems, WellFoundedInduction, TLAPS

-----------------------------------------------------------------------------
(* Two-factor authentication.  A code that was accepted is marked in the    *)
(* same step, and codes made later have a number of their own.              *)

TotpCall(c) ==
    /\ tcall[c].at \in {"lookup", "mark"} => tcall[c].code \in 1..made
    /\ tcall[c].at = "fill" => tcall[c].left \in 1..CodeCount

UnmadeUnspent == \A b \in 1..MaxCodes : b > made => spent[b] = 0

TotpInv ==
    /\ TotpTypeOK
    /\ SpentIsGone
    /\ UnmadeUnspent
    /\ \A c \in TCalls : TotpCall(c)

LEMMA TotpInvInit == TotpInit => TotpInv
<1>. SUFFICES ASSUME TotpInit PROVE TotpInv
  OBVIOUS
<1>1. TotpTypeOK
  <2>1. 0 \in 0..MaxSecrets /\ 0 \in 0..MaxCodes
    BY TotpConstantsOK
  <2>2. tcall \in [TCalls -> TCallState \cup {TIdle}] /\ spent \in [1..MaxCodes -> Nat]
    BY DEF TotpInit
  <2>. QED  BY <2>1, <2>2 DEF TotpInit, TotpTypeOK
<1>2. SpentIsGone /\ UnmadeUnspent
  BY DEF TotpInit, SpentIsGone, UnmadeUnspent
<1>3. \A c \in TCalls : TotpCall(c)
  BY DEF TotpInit, TotpCall, TIdle
<1>. QED  BY <1>1, <1>2, <1>3 DEF TotpInv

\* What request c leaves behind is a state a request can be in, and the others
\* are left alone.
TotpMoves(c, k) ==
    /\ tcall' = [tcall EXCEPT ![c] = k]
    /\ k \in TCallState \cup {TIdle}
    /\ k.at \in {"lookup", "mark"} => k.code \in 1..made'
    /\ k.at = "fill" => k.left \in 1..CodeCount

LEMMA TotpCallsKeep ==
    ASSUME TotpInv, NEW c \in TCalls, NEW k, TotpMoves(c, k),
           made \in Nat, made' \in Nat, made <= made'
    PROVE  /\ tcall' \in [TCalls -> TCallState \cup {TIdle}]
           /\ (\A d \in TCalls : TotpCall(d))'
<1>1. tcall \in [TCalls -> TCallState \cup {TIdle}]
  BY DEF TotpInv, TotpTypeOK
<1>2. tcall' \in [TCalls -> TCallState \cup {TIdle}] /\ tcall'[c] = k
  BY <1>1 DEF TotpMoves
<1>3. ASSUME NEW d \in TCalls PROVE TotpCall(d)'
  <2>1. CASE d = c
    BY <1>2, <2>1 DEF TotpMoves, TotpCall
  <2>2. CASE d # c
    <3>1. tcall'[d] = tcall[d] /\ TotpCall(d)
      BY <1>1, <2>2 DEF TotpMoves, TotpInv
    <3>2. tcall[d].code \in 1..made => tcall[d].code \in 1..made'
      OBVIOUS
    <3>. QED  BY <3>1, <3>2 DEF TotpCall
  <2>. QED  BY <2>1, <2>2
<1>. QED  BY <1>2, <1>3

\* A request that stands anew, or leaves.
LEMMA TotpStands ==
    ASSUME TotpInv, NEW c \in TCalls,
           NEW at \in {"enable", "lookup", "mark", "disable", "wipe"},
           NEW purpose \in Purposes, NEW code \in 0..MaxCodes,
           at \in {"lookup", "mark"} => code \in 1..made',
           Stand(c, at, purpose, code)
    PROVE  \E k : TotpMoves(c, k)
<1>. DEFINE k == [at |-> at, purpose |-> purpose, code |-> code, left |-> 0]
<1>1. k \in TCallState /\ k.at = at /\ k.code = code
  BY TotpConstantsOK DEF TCallState
<1>2. TotpMoves(c, k)
  BY <1>1 DEF Stand, TotpMoves
<1>. QED  BY <1>2

\* The fields two of the statements change.
LEMMA TotpRecord ==
    ASSUME NEW r \in TCallState, NEW left \in 0..CodeCount
    PROVE  /\ [r EXCEPT !.left = left] \in TCallState
           /\ [r EXCEPT !.left = left].at = r.at
           /\ [r EXCEPT !.left = left].left = left
           /\ [r EXCEPT !.at = "fill", !.left = left] \in TCallState
           /\ [r EXCEPT !.at = "fill", !.left = left].at = "fill"
           /\ [r EXCEPT !.at = "fill", !.left = left].left = left
<1>1. [r EXCEPT !.at = "fill"] \in TCallState /\ [r EXCEPT !.at = "fill"].at = "fill"
  BY DEF TCallState
<1>2. ASSUME NEW q \in TCallState
      PROVE  /\ [q EXCEPT !.left = left] \in TCallState
             /\ [q EXCEPT !.left = left].at = q.at
             /\ [q EXCEPT !.left = left].left = left
  BY DEF TCallState
<1>. QED  BY <1>1, <1>2

LEMMA TotpLeaves ==
    ASSUME NEW c, Leave(c)
    PROVE  \E k : TotpMoves(c, k)
<1>1. TotpMoves(c, TIdle)
  BY DEF Leave, TotpMoves, TIdle
<1>. QED  BY <1>1

LEMMA TotpAdmits ==
    ASSUME TotpInv, NEW c \in TCalls, NEW purpose \in Purposes, Admitted(c, purpose)
    PROVE  \E k : TotpMoves(c, k)
<1>0. 0 \in 0..MaxCodes
  BY TotpConstantsOK
<1>1. CASE purpose = "login"
  BY <1>1, TotpLeaves DEF Admitted
<1>2. CASE purpose = "disable"
  <2>1. Stand(c, "disable", purpose, 0)
    BY <1>2 DEF Admitted
  <2>. QED  BY <1>0, <2>1, TotpStands
<1>3. CASE purpose = "regenerate"
  <2>1. Stand(c, "wipe", purpose, 0)
    BY <1>3 DEF Admitted
  <2>. QED  BY <1>0, <2>1, TotpStands
<1>. QED  BY <1>1, <1>2, <1>3 DEF Purposes

LEMMA TotpSteps ==
    ASSUME TotpInv, NEW c \in TCalls,
           SetUp(c) \/ Verify(c) \/ ValidateLogin(c) \/ Disable(c) \/ TotpFails(c)
    PROVE  TotpInv'
<1>0. /\ 0 \in 0..MaxCodes /\ 0 \in 0..MaxSecrets /\ made \in Nat /\ made <= MaxCodes
      /\ MaxCodes \in Nat /\ MaxSecrets \in Nat /\ CodeCount \in Nat \ {0}
      /\ 1..made \subseteq 0..MaxCodes
      /\ "login" \in Purposes /\ TotpCall(c)
      /\ tcall \in [TCalls -> TCallState \cup {TIdle}] /\ tcall[c] \in TCallState \cup {TIdle}
      /\ secret \in 0..MaxSecrets /\ enabled \in BOOLEAN /\ secrets \in 0..MaxSecrets
      /\ usedCodes \subseteq codes /\ codes \subseteq 1..made
      /\ spent \in [1..MaxCodes -> Nat] /\ visits \in Nat
  BY TotpConstantsOK DEF TotpInv, TotpTypeOK, Purposes
\* What the steps have in common.
<1>. DEFINE Kept ==
        /\ secret' \in 0..MaxSecrets /\ enabled' \in BOOLEAN /\ secrets' \in 0..MaxSecrets
        /\ usedCodes' \subseteq codes' /\ codes' \subseteq 1..made' /\ visits' \in Nat
        /\ made' \in 0..MaxCodes /\ made <= made'
        /\ spent' \in [1..MaxCodes -> Nat]
        /\ \A b \in 1..MaxCodes : spent'[b] > 0 => b \notin codes' \/ b \in usedCodes'
        /\ \A b \in 1..MaxCodes : b > made' => spent'[b] = 0
        /\ \E k : TotpMoves(c, k)
<1>1. Kept => TotpInv'
  <2>. SUFFICES ASSUME Kept PROVE TotpInv'
    OBVIOUS
  <2>1. PICK k : TotpMoves(c, k)
    OBVIOUS
  <2>2. made' \in Nat /\ made <= made'
    BY <1>0
  <2>3. /\ tcall' \in [TCalls -> TCallState \cup {TIdle}]
        /\ (\A d \in TCalls : TotpCall(d))'
    BY <1>0, <2>1, <2>2, TotpCallsKeep
  <2>4. TotpTypeOK'
    BY <2>3 DEF TotpTypeOK
  <2>5. SpentIsGone' /\ UnmadeUnspent'
    BY DEF SpentIsGone, UnmadeUnspent, Unused
  <2>. QED  BY <2>3, <2>4, <2>5 DEF TotpInv
<1>2. /\ \A b \in 1..MaxCodes : spent[b] > 0 => b \notin codes \/ b \in usedCodes
      /\ \A b \in 1..MaxCodes : b > made => spent[b] = 0
  BY DEF TotpInv, SpentIsGone, UnmadeUnspent, Unused
<1>3. UNCHANGED <<secret, enabled, codes, usedCodes, secrets, made, spent>>
         /\ visits' \in Nat /\ (\E k : TotpMoves(c, k)) => Kept
  BY <1>0, <1>2
<1>. HIDE DEF Kept
<1>4. CASE Setup(c)
  <2>1. \E k : TotpMoves(c, k)
    BY <1>0, <1>4, TotpStands DEF Setup, Visit
  <2>2. secret' \in 0..MaxSecrets /\ secrets' \in 0..MaxSecrets /\ visits' \in Nat
    BY <1>0, <1>4 DEF Setup, Visit
  <2>3. UNCHANGED <<enabled, codes, usedCodes, made, spent>>
    BY <1>4 DEF Setup
  <2>. QED  BY <1>0, <1>1, <1>2, <2>1, <2>2, <2>3 DEF Kept
<1>5. CASE WipeCodes(c)
  <2>1. tcall[c] \in TCallState
    BY <1>0, <1>5 DEF WipeCodes, TIdle
  <2>. DEFINE k == [tcall[c] EXCEPT !.at = "fill", !.left = CodeCount]
  <2>2. k \in TCallState /\ k.at = "fill" /\ k.left = CodeCount
    <3>1. tcall[c] \in TCallState /\ CodeCount \in 0..CodeCount
      BY <1>0, <2>1
    <3>. QED  BY <3>1, TotpRecord
  <2>3. tcall' = [tcall EXCEPT ![c] = k]
    BY <1>5 DEF WipeCodes
  <2>. HIDE DEF k
  <2>4. TotpMoves(c, k)
    BY <1>0, <2>2, <2>3 DEF TotpMoves
  <2>5. codes' = {} /\ usedCodes' = {} /\ UNCHANGED <<secret, enabled, secrets, made, spent, visits>>
    BY <1>5 DEF WipeCodes
  <2>. QED  BY <1>0, <1>1, <1>2, <2>4, <2>5 DEF Kept
<1>6. CASE AddCode(c)
  <2>1. tcall[c] \in TCallState /\ tcall[c].left \in 1..CodeCount
    BY <1>0, <1>6 DEF AddCode, TIdle, TotpCall
  <2>2. \E k : TotpMoves(c, k)
    <3>1. CASE tcall[c].left = 1
      BY <1>6, <3>1, TotpLeaves DEF AddCode
    <3>2. CASE tcall[c].left # 1
      <4>. DEFINE n == tcall[c].left - 1
                  k == [tcall[c] EXCEPT !.left = n]
      <4>0. n \in 1..CodeCount /\ n \in 0..CodeCount
        BY <1>0, <2>1, <3>2
      <4>1. k \in TCallState /\ k.at = "fill" /\ k.left \in 1..CodeCount
        BY <1>6, <2>1, <4>0, TotpRecord DEF AddCode
      <4>2. tcall' = [tcall EXCEPT ![c] = k]
        BY <1>6, <3>2 DEF AddCode
      <4>. HIDE DEF k
      <4>. QED  BY <4>1, <4>2 DEF TotpMoves
    <3>. QED  BY <3>1, <3>2
  <2>3. /\ made' = made + 1 /\ codes' = codes \cup {made + 1} /\ made < MaxCodes
        /\ UNCHANGED <<secret, enabled, usedCodes, secrets, spent, visits>>
    BY <1>6 DEF AddCode
  <2>4. made' \in 0..MaxCodes /\ made <= made' /\ codes' \subseteq 1..made'
    BY <1>0, <2>3
  <2>5. spent[made + 1] = 0
    BY <1>0, <1>2, <2>3
  <2>6. \A b \in 1..MaxCodes : spent'[b] > 0 => b \notin codes' \/ b \in usedCodes'
    BY <1>2, <2>3, <2>5
  <2>7. \A b \in 1..MaxCodes : b > made' => spent'[b] = 0
    BY <1>0, <1>2, <2>3
  <2>. QED  BY <1>0, <1>1, <2>2, <2>3, <2>4, <2>6, <2>7 DEF Kept
<1>7. CASE VerifyRead(c)
  <2>1. \E k : TotpMoves(c, k)
    BY <1>0, <1>7, TotpStands, TotpLeaves DEF VerifyRead, Visit
  <2>. QED  BY <1>0, <1>1, <1>3, <1>7, <2>1 DEF VerifyRead, Visit
<1>8. CASE VerifyWrite(c)
  <2>1. \E k : TotpMoves(c, k)
    BY <1>8, TotpLeaves DEF VerifyWrite
  <2>2. enabled' \in BOOLEAN /\ UNCHANGED <<secret, codes, usedCodes, secrets, made, spent, visits>>
    BY <1>8 DEF VerifyWrite
  <2>. QED  BY <1>0, <1>1, <1>2, <2>1, <2>2 DEF Kept
<1>9. CASE \E p \in Purposes : LoginWithSecret(c, p) \/ \E b \in 1..made : LoginWithBackup(c, p, b)
  <2>1. PICK p \in Purposes : LoginWithSecret(c, p) \/ \E b \in 1..made : LoginWithBackup(c, p, b)
    BY <1>9
  <2>2. CASE LoginWithSecret(c, p)
    <3>1. \E k : TotpMoves(c, k)
      BY <2>2, TotpAdmits DEF LoginWithSecret, Visit
    <3>. QED  BY <1>0, <1>1, <1>3, <2>2, <3>1 DEF LoginWithSecret, Visit
  <2>3. CASE \E b \in 1..made : LoginWithBackup(c, p, b)
    <3>1. PICK b \in 1..made : LoginWithBackup(c, p, b)
      BY <2>3
    <3>2. Stand(c, "lookup", p, b) /\ b \in 0..MaxCodes /\ made' = made
      BY <1>0, <3>1 DEF LoginWithBackup, Visit
    <3>3. \E k : TotpMoves(c, k)
      BY <3>2, TotpStands
    <3>. QED  BY <1>0, <1>1, <1>3, <3>1, <3>3 DEF LoginWithBackup, Visit
  <2>. QED  BY <2>1, <2>2, <2>3
<1>10. CASE UseBackupRead(c)
  <2>1. tcall[c].code \in 1..made /\ tcall[c] \in TCallState
    BY <1>0, <1>10 DEF UseBackupRead, TotpCall, TIdle
  <2>2. tcall[c].purpose \in Purposes /\ tcall[c].code \in 0..MaxCodes /\ made' = made
    BY <1>0, <1>10, <2>1 DEF TCallState, UseBackupRead
  <2>3. \/ Stand(c, "mark", tcall[c].purpose, tcall[c].code)
        \/ Leave(c)
    BY <1>10 DEF UseBackupRead
  <2>4. \E k : TotpMoves(c, k)
    BY <2>1, <2>2, <2>3, TotpStands, TotpLeaves
  <2>. QED  BY <1>0, <1>1, <1>3, <1>10, <2>4 DEF UseBackupRead
<1>11. CASE UseBackupMark(c)
  <2>. DEFINE b == tcall[c].code
  <2>1. b \in 1..made /\ tcall[c] \in TCallState
    BY <1>0, <1>11 DEF UseBackupMark, TotpCall, TIdle
  <2>2. tcall[c].purpose \in Purposes /\ b \in 1..MaxCodes
    BY <1>0, <2>1 DEF TCallState
  <2>3. \E k : TotpMoves(c, k)
    BY <1>11, <2>2, TotpAdmits DEF UseBackupMark
  <2>4. /\ usedCodes' = usedCodes \cup ({b} \cap codes)
        /\ spent' = [spent EXCEPT ![b] = @ + 1]
        /\ UNCHANGED <<secret, enabled, codes, secrets, made, visits>>
    BY <1>11 DEF UseBackupMark
  <2>. HIDE DEF b
  <2>5. spent' \in [1..MaxCodes -> Nat]
    BY <1>0, <2>2, <2>4
  <2>6. \A a \in 1..MaxCodes : a # b => spent'[a] = spent[a]
    BY <1>0, <2>2, <2>4
  <2>7. \A a \in 1..MaxCodes : spent'[a] > 0 => a \notin codes' \/ a \in usedCodes'
    BY <1>2, <2>4, <2>6
  <2>8. \A a \in 1..MaxCodes : a > made' => spent'[a] = 0
    BY <1>0, <1>2, <2>1, <2>4, <2>6
  <2>9. usedCodes' \subseteq codes'
    BY <1>0, <2>4
  <2>. QED  BY <1>0, <1>1, <2>3, <2>4, <2>5, <2>7, <2>8, <2>9 DEF Kept
<1>12. CASE DisableRow(c)
  <2>1. tcall[c] \in TCallState
    BY <1>0, <1>12 DEF DisableRow, TIdle
  <2>. DEFINE k == [tcall[c] EXCEPT !.at = "erase"]
  <2>2. k \in TCallState /\ k.at = "erase"
    BY <2>1 DEF TCallState
  <2>3. /\ tcall' = [tcall EXCEPT ![c] = k] /\ secret' = 0 /\ enabled' = FALSE
        /\ UNCHANGED <<codes, usedCodes, secrets, made, spent, visits>>
    BY <1>12 DEF DisableRow
  <2>. HIDE DEF k
  <2>4. TotpMoves(c, k)
    BY <2>2, <2>3 DEF TotpMoves
  <2>5. secret' \in 0..MaxSecrets /\ enabled' \in BOOLEAN
    BY <1>0, <2>3
  <2>. QED  BY <1>0, <1>1, <1>2, <2>3, <2>4, <2>5 DEF Kept
<1>13. CASE DisableErase(c)
  <2>1. \E k : TotpMoves(c, k)
    BY <1>13, TotpLeaves DEF DisableErase
  <2>2. codes' = {} /\ usedCodes' = {} /\ UNCHANGED <<secret, enabled, secrets, made, spent, visits>>
    BY <1>13 DEF DisableErase
  <2>. QED  BY <1>0, <1>1, <1>2, <2>1, <2>2 DEF Kept
<1>14. CASE TotpFails(c)
  <2>1. \E k : TotpMoves(c, k)
    BY <1>14, TotpLeaves DEF TotpFails
  <2>. QED  BY <1>0, <1>1, <1>3, <1>14, <2>1 DEF TotpFails
<1>. QED
  BY <1>4, <1>5, <1>6, <1>7, <1>8, <1>9, <1>10, <1>11, <1>12, <1>13, <1>14
     DEF SetUp, Verify, ValidateLogin, Disable

LEMMA TotpInvNext == TotpInv /\ [TotpNext]_totpVars => TotpInv'
<1>. SUFFICES ASSUME TotpInv, [TotpNext]_totpVars PROVE TotpInv'
  OBVIOUS
<1>1. CASE UNCHANGED totpVars
  <2>1. TotpTypeOK' /\ SpentIsGone' /\ UnmadeUnspent'
    BY <1>1 DEF totpVars, TotpInv, TotpTypeOK, SpentIsGone, Unused, UnmadeUnspent
  <2>2. (\A c \in TCalls : TotpCall(c))'
    BY <1>1 DEF totpVars, TotpInv, TotpCall
  <2>. QED  BY <2>1, <2>2 DEF TotpInv
<1>2. CASE TotpNext
  BY <1>2, TotpSteps DEF TotpNext
<1>. QED  BY <1>1, <1>2

THEOREM TotpInvariant == TotpSpec => []TotpInv
<1>. QED  BY TotpInvInit, TotpInvNext, PTL DEF TotpSpec

\* One request at a time: what it has read is still so when it writes.
TotpSolo(c) ==
    /\ tcall[c].at \in {"enable", "lookup", "mark", "disable", "wipe", "fill"} => secret # 0
    /\ tcall[c].at = "mark" => tcall[c].code \in Unused
    /\ tcall[c].at = "fill" => Cardinality(codes) + tcall[c].left <= CodeCount
    /\ Cardinality(codes) <= CodeCount
    /\ secret = 0 => codes = {} \/ tcall[c].at = "erase"
    /\ EnabledHasSecret
    /\ CodesWorkOnce

LEMMA CodesAreFinite ==
    ASSUME TotpInv
    PROVE  IsFiniteSet(codes) /\ Cardinality(codes) \in Nat
<1>1. IsFiniteSet(1..made)
  BY FS_Interval, TotpConstantsOK DEF TotpInv, TotpTypeOK
<1>2. codes \subseteq 1..made
  BY DEF TotpInv, TotpTypeOK
<1>3. IsFiniteSet(codes)
  BY <1>1, <1>2, FS_Subset
<1>. QED  BY <1>3, FS_CardinalityType

LEMMA TotpSoloInit ==
    ASSUME NEW c, TCalls = {c}, TotpInit
    PROVE  TotpSolo(c)
<1>1. tcall[c] = TIdle /\ codes = {} /\ secret = 0 /\ enabled = FALSE
  BY DEF TotpInit
<1>2. Cardinality(codes) = 0
  BY <1>1, FS_EmptySet
<1>3. CodesWorkOnce
  BY DEF TotpInit, CodesWorkOnce
<1>. QED  BY <1>1, <1>2, <1>3, TotpConstantsOK DEF TotpSolo, TIdle, EnabledHasSecret

LEMMA TotpSoloSteps ==
    ASSUME TotpInv, NEW c, TCalls = {c}, ~TMayFail, TotpSolo(c), TotpNext
    PROVE  TotpSolo(c)'
<1>0. /\ c \in TCalls /\ tcall \in [TCalls -> TCallState \cup {TIdle}]
      /\ tcall[c] \in TCallState \cup {TIdle}
      /\ IsFiniteSet(codes) /\ Cardinality(codes) \in Nat
      /\ CodeCount \in Nat \ {0} /\ secrets \in Nat /\ made \in Nat
      /\ spent \in [1..MaxCodes -> Nat]
      /\ TotpCall(c)
  BY CodesAreFinite, TotpConstantsOK DEF TotpInv, TotpTypeOK
\* The steps that change where the request stands, and no more.
<1>1. ASSUME UNCHANGED <<secret, enabled, codes, usedCodes, spent>>,
             tcall'[c].at \in {"enable", "lookup", "mark", "disable", "wipe"} => secret # 0,
             tcall'[c].at = "mark" => tcall'[c].code \in Unused,
             tcall'[c].at # "fill", tcall[c].at # "erase"
      PROVE  TotpSolo(c)'
  BY <1>1 DEF TotpSolo, Unused, EnabledHasSecret, CodesWorkOnce
<1>2. ASSUME NEW at, NEW purpose, NEW code, Stand(c, at, purpose, code)
      PROVE  tcall'[c].at = at /\ tcall'[c].code = code
  BY <1>0, <1>2 DEF Stand
<1>3. ASSUME Leave(c) PROVE tcall'[c].at = "idle"
  BY <1>0, <1>3 DEF Leave, TIdle
<1>4. ASSUME NEW purpose \in Purposes, Admitted(c, purpose)
      PROVE  tcall'[c].at \in {"idle", "disable", "wipe"}
  <2>1. CASE purpose = "login"
    BY <1>3, <1>4, <2>1 DEF Admitted
  <2>2. CASE purpose = "disable"
    BY <1>2, <1>4, <2>2 DEF Admitted
  <2>3. CASE purpose = "regenerate"
    BY <1>2, <1>4, <2>3 DEF Admitted
  <2>. QED  BY <1>4, <2>1, <2>2, <2>3 DEF Purposes
<1>5. CASE Setup(c)
  <2>1. tcall'[c].at = "wipe" /\ secret' # 0 /\ UNCHANGED <<enabled, codes, usedCodes, spent>>
    BY <1>0, <1>2, <1>5 DEF Setup
  <2>. QED  BY <1>0, <2>1 DEF TotpSolo, EnabledHasSecret, CodesWorkOnce
<1>6. CASE WipeCodes(c)
  <2>1. tcall[c] \in TCallState /\ tcall[c].at = "wipe" /\ secret # 0
    BY <1>0, <1>6 DEF WipeCodes, TIdle, TotpSolo
  <2>. DEFINE k == [tcall[c] EXCEPT !.at = "fill", !.left = CodeCount]
  <2>2. k \in TCallState /\ k.at = "fill" /\ k.left = CodeCount
    <3>1. tcall[c] \in TCallState /\ CodeCount \in 0..CodeCount
      BY <1>0, <2>1
    <3>. QED  BY <3>1, TotpRecord
  <2>3. tcall' = [tcall EXCEPT ![c] = k]
    BY <1>6 DEF WipeCodes
  <2>. HIDE DEF k
  <2>4. tcall'[c] = k
    BY <1>0, <2>3
  <2>5. codes' = {} /\ UNCHANGED <<secret, enabled, spent>>
    BY <1>6 DEF WipeCodes
  <2>6. Cardinality(codes') = 0
    BY <2>5, FS_EmptySet
  <2>. QED  BY <1>0, <2>1, <2>2, <2>4, <2>5, <2>6 DEF TotpSolo, EnabledHasSecret, CodesWorkOnce
<1>7. CASE AddCode(c)
  <2>1. tcall[c] \in TCallState /\ tcall[c].at = "fill" /\ tcall[c].left \in 1..CodeCount
    BY <1>0, <1>7 DEF AddCode, TIdle, TotpCall
  <2>2. secret # 0 /\ Cardinality(codes) + tcall[c].left <= CodeCount
    BY <2>1 DEF TotpSolo
  <2>3. codes' = codes \cup {made + 1} /\ UNCHANGED <<secret, enabled, spent>>
    BY <1>7 DEF AddCode
  <2>4. Cardinality(codes') \in Nat /\ Cardinality(codes') <= Cardinality(codes) + 1
    <3>1. \/ Cardinality(codes') = Cardinality(codes)
          \/ Cardinality(codes') = Cardinality(codes) + 1
      BY <1>0, <2>3, FS_AddElement
    <3>. QED  BY <1>0, <3>1
  <2>5. CASE tcall[c].left = 1
    <3>1. tcall'[c].at = "idle"
      BY <1>3, <1>7, <2>5 DEF AddCode
    <3>. QED  BY <1>0, <2>2, <2>3, <2>4, <2>5, <3>1 DEF TotpSolo, EnabledHasSecret, CodesWorkOnce
  <2>6. CASE tcall[c].left # 1
    <3>. DEFINE n == tcall[c].left - 1
                k == [tcall[c] EXCEPT !.left = n]
    <3>1. n \in 0..CodeCount /\ n = tcall[c].left - 1
      BY <1>0, <2>1
    <3>2. k.at = "fill" /\ k.left = n
      BY <2>1, <3>1, TotpRecord
    <3>3. tcall' = [tcall EXCEPT ![c] = k]
      BY <1>7, <2>6 DEF AddCode
    <3>. HIDE DEF k, n
    <3>4. tcall'[c].at = "fill" /\ tcall'[c].left = n
      BY <1>0, <3>2, <3>3
    <3>5. Cardinality(codes') + n <= CodeCount
      BY <1>0, <2>1, <2>2, <2>4, <3>1
    <3>6. Cardinality(codes') <= CodeCount
      BY <1>0, <2>4, <3>1, <3>5
    <3>. QED  BY <2>2, <2>3, <3>4, <3>5, <3>6 DEF TotpSolo, EnabledHasSecret, CodesWorkOnce
  <2>. QED  BY <2>5, <2>6
<1>8. CASE VerifyRead(c)
  <2>1. tcall'[c].at \in {"idle", "enable"}
    BY <1>2, <1>3, <1>8 DEF VerifyRead
  <2>. QED  BY <1>1, <1>8, <2>1 DEF VerifyRead, Visit, TIdle
<1>9. CASE VerifyWrite(c)
  <2>1. /\ tcall'[c].at = "idle" /\ secret # 0
        /\ UNCHANGED <<secret, codes, usedCodes, spent>>
    BY <1>3, <1>9 DEF VerifyWrite, TotpSolo
  <2>. QED  BY <1>0, <2>1 DEF TotpSolo, EnabledHasSecret, CodesWorkOnce
<1>10. CASE \E p \in Purposes : LoginWithSecret(c, p) \/ \E b \in 1..made : LoginWithBackup(c, p, b)
  <2>1. PICK p \in Purposes : LoginWithSecret(c, p) \/ \E b \in 1..made : LoginWithBackup(c, p, b)
    BY <1>10
  <2>2. tcall'[c].at \in {"idle", "disable", "wipe", "lookup"}
    BY <1>2, <1>4, <2>1 DEF LoginWithSecret, LoginWithBackup
  <2>. QED  BY <1>1, <2>1, <2>2 DEF LoginWithSecret, LoginWithBackup, Visit, TIdle
<1>11. CASE UseBackupRead(c)
  <2>1. secret # 0 /\ tcall[c].at = "lookup"
    BY <1>11 DEF UseBackupRead, TotpSolo
  <2>2. \/ tcall'[c].at = "idle"
        \/ tcall'[c].at = "mark" /\ tcall'[c].code = tcall[c].code /\ tcall[c].code \in Unused
    BY <1>2, <1>3, <1>11 DEF UseBackupRead
  <2>. QED  BY <1>1, <1>11, <2>1, <2>2 DEF UseBackupRead
<1>12. CASE UseBackupMark(c)
  <2>. DEFINE b == tcall[c].code
  <2>1. b \in 1..made /\ tcall[c] \in TCallState /\ b \in Unused /\ secret # 0
    BY <1>0, <1>12 DEF UseBackupMark, TotpCall, TIdle, TotpSolo
  <2>2. tcall[c].purpose \in Purposes
    BY <2>1 DEF TCallState
  <2>3. tcall'[c].at \in {"idle", "disable", "wipe"}
    BY <1>4, <1>12, <2>2 DEF UseBackupMark
  <2>4. spent' = [spent EXCEPT ![b] = @ + 1] /\ UNCHANGED <<secret, enabled, codes>>
    BY <1>12 DEF UseBackupMark
  <2>. HIDE DEF b
  <2>5. CodesWorkOnce'
    <3>1. ASSUME NEW a \in 1..MaxCodes PROVE spent'[a] <= 1
      <4>1. CASE a = b
        <5>1. spent[b] = 0
          BY <1>0, <2>1, <4>1 DEF TotpInv, SpentIsGone
        <5>2. spent'[b] = 0 + 1
          BY <1>0, <2>4, <4>1, <5>1
        <5>. QED  BY <4>1, <5>2
      <4>2. CASE a # b
        BY <1>0, <2>4, <4>2 DEF TotpSolo, CodesWorkOnce
      <4>. QED  BY <4>1, <4>2
    <3>. QED  BY <3>1 DEF CodesWorkOnce
  <2>. QED  BY <2>1, <2>3, <2>4, <2>5 DEF TotpSolo, EnabledHasSecret
<1>13. CASE DisableRow(c)
  <2>1. tcall[c] \in TCallState
    BY <1>0, <1>13 DEF DisableRow, TIdle
  <2>. DEFINE k == [tcall[c] EXCEPT !.at = "erase"]
  <2>2. k.at = "erase"
    BY <2>1 DEF TCallState
  <2>3. /\ tcall' = [tcall EXCEPT ![c] = k] /\ secret' = 0 /\ enabled' = FALSE
        /\ UNCHANGED <<codes, spent>>
    BY <1>13 DEF DisableRow
  <2>. HIDE DEF k
  <2>4. tcall'[c].at = "erase"
    BY <1>0, <2>2, <2>3
  <2>. QED  BY <1>0, <2>3, <2>4 DEF TotpSolo, EnabledHasSecret, CodesWorkOnce
<1>14. CASE DisableErase(c)
  <2>1. tcall'[c].at = "idle" /\ codes' = {} /\ UNCHANGED <<secret, enabled, spent>>
    BY <1>3, <1>14 DEF DisableErase
  <2>2. Cardinality(codes') = 0
    BY <2>1, FS_EmptySet
  <2>. QED  BY <1>0, <2>1, <2>2 DEF TotpSolo, EnabledHasSecret, CodesWorkOnce
<1>. QED
  BY <1>5, <1>6, <1>7, <1>8, <1>9, <1>10, <1>11, <1>12, <1>13, <1>14
     DEF TotpNext, SetUp, Verify, ValidateLogin, Disable, TotpFails

LEMMA TotpSoloNext ==
    ASSUME NEW c, TCalls = {c}, ~TMayFail
    PROVE  TotpInv /\ TotpSolo(c) /\ [TotpNext]_totpVars => TotpSolo(c)'
<1>1. CASE UNCHANGED totpVars
  BY <1>1 DEF totpVars, TotpSolo, Unused, EnabledHasSecret, CodesWorkOnce
<1>2. CASE TotpNext
  BY <1>2, TotpSoloSteps
<1>. QED  BY <1>1, <1>2

(* Every reachable state of two-factor authentication is well typed, for    *)
(* any number of requests, codes and secrets.                               *)
THEOREM TotpTypeCorrect == TotpSpec => []TotpTypeOK
<1>1. TotpInv => TotpTypeOK
  BY DEF TotpInv
<1>. QED  BY <1>1, TotpInvariant, PTL

(* However requests interleave and fail, a backup code that was accepted is *)
(* marked or gone (useBackupCode).                                          *)
THEOREM SpentCodesAreGone == TotpSpec => []SpentIsGone
<1>1. TotpInv => SpentIsGone
  BY DEF TotpInv
<1>. QED  BY <1>1, TotpInvariant, PTL

-----------------------------------------------------------------------------
(* User accounts.  Two facts about the tables, which are sequences.         *)

LEMMA RowChanged ==
    ASSUME NEW S, NEW s \in Seq(S), NEW i, NEW v, i \in DOMAIN s => v \in S
    PROVE  /\ [s EXCEPT ![i] = v] \in Seq(S)
           /\ Len([s EXCEPT ![i] = v]) = Len(s)
           /\ DOMAIN [s EXCEPT ![i] = v] = DOMAIN s
           /\ \A j \in DOMAIN s : [s EXCEPT ![i] = v][j] = IF j = i THEN v ELSE s[j]
<1>1. /\ Len(s) \in Nat /\ DOMAIN s = 1..Len(s)
      /\ s \in [1..Len(s) -> S]
  BY LenProperties
<1>2. CASE i \in DOMAIN s
  BY <1>1, <1>2, ExceptSeq
<1>3. CASE i \notin DOMAIN s
  <2>1. [s EXCEPT ![i] = v] = s
    BY <1>1, <1>3
  <2>. QED  BY <1>3, <2>1
<1>. QED  BY <1>2, <1>3

LEMMA RowsChanged ==
    ASSUME NEW S, NEW s \in Seq(S), NEW z, DOMAIN z = DOMAIN s,
           z = [i \in DOMAIN z |-> z[i]], \A i \in DOMAIN s : z[i] \in S
    PROVE  z \in Seq(S) /\ Len(z) = Len(s)
<1>1. Len(s) \in Nat /\ DOMAIN s = 1..Len(s)
  BY LenProperties
<1>2. z \in [1..Len(s) -> S]
  BY <1>1
<1>3. z \in Seq(S)
  BY <1>1, <1>2, SeqDef
<1>4. Len(z) \in Nat /\ DOMAIN z = 1..Len(z)
  BY <1>3, LenProperties
<1>. QED  BY <1>1, <1>3, <1>4

LEMMA RowAdded ==
    ASSUME NEW S, NEW s \in Seq(S), NEW v \in S
    PROVE  /\ Append(s, v) \in Seq(S)
           /\ Len(s) \in Nat /\ DOMAIN s = 1..Len(s)
           /\ Len(Append(s, v)) = Len(s) + 1
           /\ DOMAIN Append(s, v) = 1..(Len(s) + 1)
           /\ \A j \in DOMAIN s : Append(s, v)[j] = s[j]
           /\ Append(s, v)[Len(s) + 1] = v
<1>1. Len(s) \in Nat /\ DOMAIN s = 1..Len(s)
  BY LenProperties
<1>2. /\ Append(s, v) \in Seq(S) /\ Len(Append(s, v)) = Len(s) + 1
      /\ \A j \in 1..Len(s) : Append(s, v)[j] = s[j]
      /\ Append(s, v)[Len(s) + 1] = v
  BY AppendProperties
<1>3. DOMAIN Append(s, v) = 1..Len(Append(s, v))
  BY <1>2, LenProperties
<1>. QED  BY <1>1, <1>2, <1>3

LEMMA TokenRowUsed ==
    ASSUME NEW r \in TokenRow, NEW u
    PROVE  LET q == [r EXCEPT !.used = @ \/ r.user = u] IN
           /\ q \in TokenRow
           /\ q.user = r.user /\ q.created = r.created
           /\ q.kept => r.kept
           /\ r.used => q.used
           /\ r.user = u => q.used
BY DEF TokenRow

LEMMA TokenRowMarked ==
    ASSUME NEW r \in TokenRow
    PROVE  LET q == [r EXCEPT !.used = TRUE] IN q \in TokenRow /\ q.used
BY DEF TokenRow

LEMMA TokenRowSwept ==
    ASSUME NEW r \in TokenRow, NEW end
    PROVE  LET q == [r EXCEPT !.kept = @ /\ ~r.used /\ clock <= end] IN
           /\ q \in TokenRow
           /\ q.user = r.user /\ q.created = r.created
           /\ q.used <=> r.used
           /\ q.kept => r.kept
BY DEF TokenRow

LEMMA LinkRowSwept ==
    ASSUME NEW r \in TokenRow, NEW end
    PROVE  LET q == [r EXCEPT !.kept = @ /\ clock <= end] IN
           /\ q \in TokenRow
           /\ q.user = r.user
           /\ q.used <=> r.used
BY DEF TokenRow

\* A call has checked the name it is about to write, and the row it has read
\* is still in its table: rows are not deleted.
AccountCall(c) ==
    /\ acall[c].at \in {"create", "email", "enroll"} => acall[c].name \in Names
    /\ acall[c].at = "activate" => acall[c].row \in DOMAIN links
    /\ acall[c].at = "reset" => acall[c].row \in DOMAIN resetTokens

UnissuedUnused == \A t \in Rows : t \notin DOMAIN resetTokens => resets[t] = 0

AccountsInv ==
    /\ AccountsTypeOK
    /\ ResetClosesOthers
    /\ UnissuedUnused
    /\ \A c \in ACalls : AccountCall(c)

LEMMA AccountsInvInit == AccountsInit => AccountsInv
<1>. SUFFICES ASSUME AccountsInit PROVE AccountsInv
  OBVIOUS
<1>1. AccountsTypeOK
  <2>1. /\ users \in Seq(UserRow) /\ Len(users) <= MaxRows
        /\ resetTokens \in Seq(TokenRow) /\ Len(resetTokens) <= MaxRows
        /\ links \in Seq(TokenRow) /\ Len(links) <= MaxRows
    BY EmptySeq, AccountsConstantsOK DEF AccountsInit
  <2>2. acall \in [ACalls -> ACallState \cup {AIdle}]
    BY DEF AccountsInit
  <2>. QED  BY <2>1, <2>2 DEF AccountsInit, AccountsTypeOK
<1>2. DOMAIN resetTokens = {}
  BY DEF AccountsInit
<1>3. \A c \in ACalls : AccountCall(c)
  BY DEF AccountsInit, AccountCall, AIdle
<1>. QED  BY <1>1, <1>2, <1>3 DEF AccountsInit, AccountsInv, ResetClosesOthers, UnissuedUnused

\* What call c leaves behind is a state a call can be in, and the others are
\* left alone.
AccountMoves(c, k) ==
    /\ acall' = [acall EXCEPT ![c] = k]
    /\ k \in ACallState \cup {AIdle}
    /\ k.at \in {"create", "email", "enroll"} => k.name \in Names
    /\ k.at = "activate" => k.row \in DOMAIN links'
    /\ k.at = "reset" => k.row \in DOMAIN resetTokens'

LEMMA AccountCallsKeep ==
    ASSUME AccountsInv, NEW c \in ACalls, NEW k, AccountMoves(c, k),
           DOMAIN links \subseteq DOMAIN links',
           DOMAIN resetTokens \subseteq DOMAIN resetTokens'
    PROVE  /\ acall' \in [ACalls -> ACallState \cup {AIdle}]
           /\ (\A d \in ACalls : AccountCall(d))'
<1>1. acall \in [ACalls -> ACallState \cup {AIdle}]
  BY DEF AccountsInv, AccountsTypeOK
<1>2. acall' \in [ACalls -> ACallState \cup {AIdle}] /\ acall'[c] = k
  BY <1>1 DEF AccountMoves
<1>3. ASSUME NEW d \in ACalls PROVE AccountCall(d)'
  <2>1. CASE d = c
    BY <1>2, <2>1 DEF AccountMoves, AccountCall
  <2>2. CASE d # c
    <3>1. acall'[d] = acall[d]
      BY <1>1, <2>2 DEF AccountMoves
    <3>. QED  BY <3>1 DEF AccountsInv, AccountCall
  <2>. QED  BY <2>1, <2>2
<1>. QED  BY <1>2, <1>3

LEMMA AccountStarts ==
    ASSUME NEW c, NEW at, NEW n \in Names \cup {NoEmail}, NEW e \in Emails \cup {NoEmail},
           NEW r \in Rows, Started(c, at, n, e, r), requests \in Nat,
           \/ at \in {"create", "email"} /\ n \in Names
           \/ at = "activate" /\ r \in DOMAIN links'
           \/ at = "reset" /\ r \in DOMAIN resetTokens'
           \/ at \in {"link", "limit"}
    PROVE  /\ \E k : AccountMoves(c, k)
           /\ requests' \in Nat /\ acall[c] = AIdle
<1>. DEFINE k == [at |-> at, name |-> n, email |-> e, row |-> r]
<1>1. k \in ACallState
  BY DEF ACallState
<1>2. k.at = at /\ k.name = n /\ k.row = r
  OBVIOUS
<1>3. acall' = [acall EXCEPT ![c] = k] /\ requests' = requests + 1 /\ acall[c] = AIdle
  BY DEF Started
<1>. HIDE DEF k
<1>4. AccountMoves(c, k)
  BY <1>1, <1>2, <1>3 DEF AccountMoves
<1>. QED  BY <1>3, <1>4

LEMMA AccountLeaves ==
    ASSUME NEW c, Reply(c)
    PROVE  \E k : AccountMoves(c, k)
<1>1. AccountMoves(c, AIdle)
  BY DEF Reply, AccountMoves, AIdle
<1>. QED  BY <1>1

LEMMA AccountCallAt ==
    ASSUME NEW r \in ACallState, NEW at \in {"create", "email", "enroll", "link", "issue"}
    PROVE  /\ [r EXCEPT !.at = at] \in ACallState
           /\ [r EXCEPT !.at = at].at = at
           /\ [r EXCEPT !.at = at].name = r.name
           /\ [r EXCEPT !.at = at].row = r.row
BY DEF ACallState

LEMMA AccountCallLinks ==
    ASSUME NEW r \in ACallState, NEW row \in Rows
    PROVE  /\ [r EXCEPT !.at = "link", !.row = row] \in ACallState
           /\ [r EXCEPT !.at = "link", !.row = row].at = "link"
           /\ [r EXCEPT !.at = "link", !.row = row].row = row
<1>1. [r EXCEPT !.at = "link"] \in ACallState /\ [r EXCEPT !.at = "link"].at = "link"
  BY AccountCallAt
<1>2. ASSUME NEW q \in ACallState
      PROVE  /\ [q EXCEPT !.row = row] \in ACallState
             /\ [q EXCEPT !.row = row].at = q.at /\ [q EXCEPT !.row = row].row = row
  BY DEF ACallState
<1>. QED  BY <1>1, <1>2

\* What a step has to leave behind, besides its call.
AccountTables ==
    /\ users' \in Seq(UserRow) /\ Len(users') <= MaxRows
    /\ resetTokens' \in Seq(TokenRow) /\ Len(resetTokens') <= MaxRows
    /\ links' \in Seq(TokenRow) /\ Len(links') <= MaxRows
    /\ {clock', requests'} \subseteq Nat
    /\ resets' \in [Rows -> Nat] /\ welcomes' \in [Rows -> Nat]
    /\ DOMAIN links \subseteq DOMAIN links'
    /\ DOMAIN resetTokens \subseteq DOMAIN resetTokens'

AccountTokens ==
    /\ ResetClosesOthers'
    /\ UnissuedUnused'

LEMMA AccountsKept ==
    ASSUME AccountsInv, AccountTables, AccountTokens,
           UNCHANGED acall \/ \E c \in ACalls : \E k : AccountMoves(c, k)
    PROVE  AccountsInv'
<1>1. acall' \in [ACalls -> ACallState \cup {AIdle}] /\ (\A d \in ACalls : AccountCall(d))'
  <2>1. CASE UNCHANGED acall
    BY <2>1 DEF AccountsInv, AccountsTypeOK, AccountTables, AccountCall
  <2>2. CASE \E c \in ACalls : \E k : AccountMoves(c, k)
    BY <2>2, AccountCallsKeep DEF AccountTables
  <2>. QED  BY <2>1, <2>2
<1>2. AccountsTypeOK'
  BY <1>1 DEF AccountTables, AccountsTypeOK
<1>. QED  BY <1>1, <1>2 DEF AccountTokens, AccountsInv

LEMMA AccountFacts ==
    ASSUME AccountsInv
    PROVE  /\ users \in Seq(UserRow) /\ Len(users) <= MaxRows /\ Len(users) \in Nat
           /\ resetTokens \in Seq(TokenRow) /\ Len(resetTokens) <= MaxRows /\ Len(resetTokens) \in Nat
           /\ links \in Seq(TokenRow) /\ Len(links) <= MaxRows /\ Len(links) \in Nat
           /\ DOMAIN users \subseteq Rows /\ DOMAIN resetTokens \subseteq Rows
           /\ DOMAIN links \subseteq Rows
           /\ DOMAIN users = 1..Len(users) /\ DOMAIN resetTokens = 1..Len(resetTokens)
           /\ DOMAIN links = 1..Len(links)
           /\ \A u \in DOMAIN users : users[u] \in UserRow
           /\ \A t \in DOMAIN resetTokens : resetTokens[t] \in TokenRow
           /\ \A v \in DOMAIN links : links[v] \in TokenRow
           /\ clock \in Nat /\ requests \in Nat
           /\ resets \in [Rows -> Nat] /\ welcomes \in [Rows -> Nat]
           /\ acall \in [ACalls -> ACallState \cup {AIdle}]
           /\ MaxRows \in Nat /\ 1 \in Rows
<1>1. AccountsTypeOK
  BY DEF AccountsInv
<1>2. MaxRows \in Nat /\ 1 \in Rows
  BY AccountsConstantsOK DEF Rows
<1>3. /\ Len(users) \in Nat /\ DOMAIN users = 1..Len(users)
      /\ \A u \in DOMAIN users : users[u] \in UserRow
  BY <1>1, LenProperties DEF AccountsTypeOK
<1>4. /\ Len(resetTokens) \in Nat /\ DOMAIN resetTokens = 1..Len(resetTokens)
      /\ \A t \in DOMAIN resetTokens : resetTokens[t] \in TokenRow
  BY <1>1, LenProperties DEF AccountsTypeOK
<1>5. /\ Len(links) \in Nat /\ DOMAIN links = 1..Len(links)
      /\ \A v \in DOMAIN links : links[v] \in TokenRow
  BY <1>1, LenProperties DEF AccountsTypeOK
<1>6. /\ Len(users) <= MaxRows /\ Len(resetTokens) <= MaxRows /\ Len(links) <= MaxRows
  BY <1>1 DEF AccountsTypeOK
<1>7. DOMAIN users \subseteq Rows /\ DOMAIN resetTokens \subseteq Rows /\ DOMAIN links \subseteq Rows
  BY <1>2, <1>3, <1>4, <1>5, <1>6 DEF Rows
<1>. QED  BY <1>1, <1>2, <1>3, <1>4, <1>5, <1>7 DEF AccountsTypeOK

\* A step that leaves the reset tokens alone.
LEMMA TokensAlone ==
    ASSUME AccountsInv, UNCHANGED <<resetTokens, resets>>
    PROVE  AccountTokens
BY DEF AccountsInv, AccountTokens, ResetClosesOthers, UnissuedUnused

\* A step that leaves all the tables alone.
LEMMA TablesAlone ==
    ASSUME AccountsInv, UNCHANGED <<users, resetTokens, links, resets, welcomes>>,
           clock' \in Nat, requests' \in Nat,
           UNCHANGED acall \/ \E c \in ACalls : \E k : AccountMoves(c, k)
    PROVE  AccountsInv'
<1>1. AccountTables
  BY AccountFacts DEF AccountTables
<1>2. AccountTokens
  BY TokensAlone
<1>. QED  BY <1>1, <1>2, AccountsKept

\* A step that changes the users, and of the rest only its call.
LEMMA OnlyUsers ==
    ASSUME AccountsInv, UNCHANGED <<resetTokens, links, clock, resets, welcomes>>,
           users' \in Seq(UserRow), Len(users') <= MaxRows, requests' \in Nat,
           UNCHANGED acall \/ \E c \in ACalls : \E k : AccountMoves(c, k)
    PROVE  AccountsInv'
<1>1. AccountTables
  BY AccountFacts DEF AccountTables
<1>2. AccountTokens
  BY TokensAlone
<1>. QED  BY <1>1, <1>2, AccountsKept

LEMMA CallIsAt ==
    ASSUME AccountsInv, NEW c \in ACalls, acall[c] # AIdle
    PROVE  /\ acall[c] \in ACallState
           /\ acall[c].row \in Rows
           /\ acall[c].name \in Names \cup {NoEmail} /\ acall[c].email \in Emails \cup {NoEmail}
           /\ AccountCall(c)
<1>1. acall[c] \in ACallState
  BY AccountFacts
<1>. QED  BY <1>1 DEF ACallState, AccountsInv

LEMMA AtIsBusy ==
    ASSUME NEW c, NEW at, At(c, at), at # "idle"
    PROVE  acall[c] # AIdle /\ acall[c].at = at
BY DEF At, AIdle

LEMMA UserAdded ==
    ASSUME AccountsInv, NEW c \in ACalls, NEW active \in BOOLEAN, acall[c] # AIdle,
           acall[c].at \in {"create", "email", "enroll"},
           Len(users) < MaxRows, InsertUser(c, active)
    PROVE  /\ users' \in Seq(UserRow) /\ Len(users') <= MaxRows
           /\ Len(users) + 1 \in Rows
<1>. DEFINE row == [name |-> acall[c].name, email |-> acall[c].email, active |-> active,
                    password |-> Chosen]
<1>1. acall[c].name \in Names /\ acall[c].email \in Emails \cup {NoEmail}
  BY CallIsAt DEF AccountCall
<1>2. row \in UserRow
  BY <1>1 DEF UserRow
<1>3. users' = Append(users, row)
  BY DEF InsertUser
<1>. HIDE DEF row
<1>4. users' \in Seq(UserRow) /\ Len(users') = Len(users) + 1
  BY <1>2, <1>3, AccountFacts, RowAdded
<1>5. Len(users) + 1 \in 1..MaxRows
  BY AccountFacts
<1>. QED  BY <1>4, <1>5, AccountFacts DEF Rows

LEMMA CreateUserSteps ==
    ASSUME AccountsInv, NEW c \in ACalls, CreateUser(c)
    PROVE  AccountsInv'
<1>1. ASSUME NEW n \in Names, NEW e \in Emails \cup {NoEmail}, CreateCheck(c, n, e)
      PROVE  AccountsInv'
  <2>1. Started(c, "create", n, e, 1) /\ 1 \in Rows /\ requests \in Nat
    BY <1>1, AccountFacts DEF CreateCheck
  <2>2. (\E k : AccountMoves(c, k)) /\ requests' \in Nat
    BY <2>1, AccountStarts
  <2>3. UNCHANGED <<users, resetTokens, links, clock, resets, welcomes>>
    BY <1>1 DEF CreateCheck
  <2>. QED  BY <2>2, <2>3, TablesAlone, AccountFacts
<1>2. CASE CreateInsert(c)
  <2>1. acall[c] # AIdle /\ acall[c].at = "create"
    BY <1>2, AtIsBusy DEF CreateInsert
  <2>2. users' \in Seq(UserRow) /\ Len(users') <= MaxRows
    <3>1. CASE UNCHANGED users
      BY <3>1, AccountFacts
    <3>2. CASE InsertUser(c, TRUE) /\ Len(users) < MaxRows
      BY <2>1, <3>2, UserAdded
    <3>. QED  BY <1>2, <3>1, <3>2 DEF CreateInsert
  <2>3. \E k : AccountMoves(c, k)
    BY <1>2, AccountLeaves DEF CreateInsert
  <2>4. UNCHANGED <<resetTokens, links, clock, resets, welcomes, requests>>
    BY <1>2 DEF CreateInsert
  <2>. QED  BY <2>2, <2>3, <2>4, OnlyUsers, AccountFacts
<1>. QED  BY <1>1, <1>2 DEF CreateUser

LEMMA AdministerSteps ==
    ASSUME AccountsInv, NEW u \in DOMAIN users, Administer(u)
    PROVE  AccountsInv'
<1>1. users[u] \in UserRow
  BY AccountFacts
<1>2. ASSUME NEW row \in UserRow, users' = [users EXCEPT ![u] = row]
      PROVE  users' \in Seq(UserRow) /\ Len(users') <= MaxRows
  BY <1>2, AccountFacts, RowChanged
<1>3. ASSUME NEW e \in Emails \cup {NoEmail}, NEW active \in BOOLEAN, UpdateUser(u, e, active)
      PROVE  AccountsInv'
  <2>. DEFINE row == [users[u] EXCEPT !.email = e, !.active = active]
  <2>1. row \in UserRow
    BY <1>1 DEF UserRow
  <2>2. users' = [users EXCEPT ![u] = row]
    BY <1>3 DEF UpdateUser
  <2>. HIDE DEF row
  <2>3. users' \in Seq(UserRow) /\ Len(users') <= MaxRows
    BY <1>2, <2>1, <2>2
  <2>4. /\ UNCHANGED <<resetTokens, links, acall, clock, resets, welcomes>>
        /\ requests' = requests + 1
    BY <1>3 DEF UpdateUser
  <2>. QED  BY <2>3, <2>4, OnlyUsers, AccountFacts
<1>4. CASE UpdatePassword(u)
  <2>. DEFINE row == [users[u] EXCEPT !.password = Chosen]
  <2>1. row \in UserRow
    BY <1>1 DEF UserRow
  <2>2. users' = [users EXCEPT ![u] = row]
    BY <1>4 DEF UpdatePassword
  <2>. HIDE DEF row
  <2>3. users' \in Seq(UserRow) /\ Len(users') <= MaxRows
    BY <1>2, <2>1, <2>2
  <2>4. UNCHANGED <<resetTokens, links, acall, clock, resets, welcomes, requests>>
    BY <1>4 DEF UpdatePassword
  <2>. QED  BY <2>3, <2>4, OnlyUsers, AccountFacts
<1>5. CASE DeleteUser(u)
  BY <1>3, <1>5 DEF DeleteUser
<1>. QED  BY <1>3, <1>4, <1>5 DEF Administer

LEMMA RegisterSteps ==
    ASSUME AccountsInv, NEW c \in ACalls, Register(c)
    PROVE  AccountsInv'
<1>1. ASSUME NEW n \in Names, NEW e \in Emails, RegisterCheckName(c, n, e)
      PROVE  AccountsInv'
  <2>1. Started(c, "email", n, e, 1) /\ 1 \in Rows /\ requests \in Nat
    BY <1>1, AccountFacts DEF RegisterCheckName
  <2>2. (\E k : AccountMoves(c, k)) /\ requests' \in Nat
    BY <2>1, AccountStarts
  <2>3. UNCHANGED <<users, resetTokens, links, clock, resets, welcomes>>
    BY <1>1 DEF RegisterCheckName
  <2>. QED  BY <2>2, <2>3, TablesAlone, AccountFacts
<1>2. CASE RegisterCheckEmail(c)
  <2>1. acall[c] # AIdle /\ acall[c].at = "email"
    BY <1>2, AtIsBusy DEF RegisterCheckEmail
  <2>2. \E k : AccountMoves(c, k)
    <3>1. CASE Reply(c)
      BY <3>1, AccountLeaves
    <3>2. CASE Proceed(c, "enroll")
      <4>1. acall[c] \in ACallState /\ acall[c].row \in Rows /\ acall[c].name \in Names
        BY <2>1, CallIsAt DEF AccountCall
      <4>. DEFINE k == [acall[c] EXCEPT !.at = "enroll"]
      <4>2. k \in ACallState /\ k.at = "enroll" /\ k.name = acall[c].name
        <5>1. acall[c] \in ACallState
          BY <4>1
        <5>. QED  BY <5>1, AccountCallAt
      <4>3. acall' = [acall EXCEPT ![c] = k]
        BY <3>2 DEF Proceed
      <4>. HIDE DEF k
      <4>4. AccountMoves(c, k)
        BY <4>1, <4>2, <4>3 DEF AccountMoves
      <4>. QED  BY <4>4
    <3>. QED  BY <1>2, <3>1, <3>2 DEF RegisterCheckEmail
  <2>3. UNCHANGED <<users, resetTokens, links, clock, resets, welcomes, requests>>
    BY <1>2 DEF RegisterCheckEmail
  <2>. QED  BY <2>2, <2>3, TablesAlone, AccountFacts
<1>3. CASE RegisterInsert(c)
  <2>1. acall[c] # AIdle /\ acall[c].at = "enroll" /\ Len(users) < MaxRows
    BY <1>3, AtIsBusy DEF RegisterInsert
  <2>2. UNCHANGED <<resetTokens, links, clock, resets, welcomes, requests>>
    BY <1>3 DEF RegisterInsert
  <2>3. CASE UNCHANGED users /\ Reply(c)
    BY <2>2, <2>3, AccountLeaves, OnlyUsers, AccountFacts
  <2>4. CASE /\ InsertUser(c, ~RequireVerification)
             /\ IF RequireVerification
                THEN acall' = [acall EXCEPT ![c].at = "link", ![c].row = Len(users) + 1]
                ELSE Reply(c)
    <3>1. /\ users' \in Seq(UserRow) /\ Len(users') <= MaxRows
          /\ Len(users) + 1 \in Rows
      <4>1. (~RequireVerification) \in BOOLEAN
        OBVIOUS
      <4>. QED  BY <2>1, <2>4, <4>1, UserAdded
    <3>2. \E k : AccountMoves(c, k)
      <4>1. CASE Reply(c)
        BY <4>1, AccountLeaves
      <4>2. CASE acall' = [acall EXCEPT ![c].at = "link", ![c].row = Len(users) + 1]
        <5>. DEFINE k == [acall[c] EXCEPT !.at = "link", !.row = Len(users) + 1]
        <5>1. acall[c] \in ACallState
          BY <2>1, CallIsAt
        <5>2. k \in ACallState /\ k.at = "link"
          <6>1. Len(users) + 1 \in Rows
            BY <3>1
          <6>. QED  BY <5>1, <6>1, AccountCallLinks
        <5>3. acall' = [acall EXCEPT ![c] = k]
          BY <4>2
        <5>. HIDE DEF k
        <5>4. AccountMoves(c, k)
          BY <5>2, <5>3 DEF AccountMoves
        <5>. QED  BY <5>4
      <4>. QED  BY <2>4, <4>1, <4>2
    <3>. QED  BY <2>2, <3>1, <3>2, OnlyUsers, AccountFacts
  <2>. QED  BY <1>3, <2>3, <2>4 DEF RegisterInsert
<1>4. CASE SendLink(c)
  <2>. DEFINE row == Fresh(acall[c].row, clock)
  <2>1. row \in TokenRow
    <3>1. acall[c].row \in Rows /\ clock \in Nat
      BY <1>4, AtIsBusy, CallIsAt, AccountFacts DEF SendLink
    <3>. QED  BY <3>1 DEF Fresh, TokenRow
  <2>2. links' = Append(links, row) /\ Len(links) < MaxRows
    BY <1>4 DEF SendLink
  <2>. HIDE DEF row
  <2>3. /\ links' \in Seq(TokenRow) /\ Len(links') = Len(links) + 1
        /\ DOMAIN links = 1..Len(links) /\ DOMAIN links' = 1..(Len(links) + 1)
    BY <2>1, <2>2, AccountFacts, RowAdded
  <2>4. (\E k : AccountMoves(c, k)) /\ UNCHANGED <<users, resetTokens, clock, resets, welcomes, requests>>
    BY <1>4, AccountLeaves DEF SendLink
  <2>5. AccountTables
    BY <2>2, <2>3, <2>4, AccountFacts DEF AccountTables
  <2>6. AccountTokens
    BY <2>4, TokensAlone
  <2>. QED  BY <2>4, <2>5, <2>6, AccountsKept
<1>. QED  BY <1>1, <1>2, <1>3, <1>4 DEF Register

LEMMA VerifyEmailSteps ==
    ASSUME AccountsInv, NEW c \in ACalls, VerifyEmail(c)
    PROVE  AccountsInv'
<1>1. ASSUME NEW v \in DOMAIN links, VerifyEmailRead(c, v)
      PROVE  AccountsInv'
  <2>1. /\ Started(c, "activate", NoEmail, NoEmail, v) /\ v \in Rows /\ requests \in Nat
        /\ UNCHANGED <<users, resetTokens, links, clock, resets, welcomes>>
    BY <1>1, AccountFacts DEF VerifyEmailRead
  <2>2. (\E k : AccountMoves(c, k)) /\ requests' \in Nat
    BY <2>1, AccountStarts
  <2>. QED  BY <2>1, <2>2, TablesAlone, AccountFacts
<1>2. CASE VerifyEmailWrite(c)
  <2>. DEFINE v == acall[c].row
              u == links[v].user
              row == [users[u] EXCEPT !.active = TRUE]
              link == [links[v] EXCEPT !.used = TRUE]
  <2>1. v \in DOMAIN links /\ v \in Rows
    BY <1>2, AtIsBusy, CallIsAt DEF VerifyEmailWrite, AccountCall
  <2>2. u \in DOMAIN users => row \in UserRow
    <3>1. u \in DOMAIN users => users[u] \in UserRow
      BY AccountFacts
    <3>. QED  BY <3>1 DEF UserRow
  <2>3. link \in TokenRow
    BY <2>1, AccountFacts, TokenRowMarked
  <2>4. /\ links' = [links EXCEPT ![v] = link]
        /\ users' = [users EXCEPT ![u] = row]
        /\ welcomes' = [welcomes EXCEPT ![v] = @ + 1]
        /\ UNCHANGED <<resetTokens, clock, resets, requests>>
        /\ \E k : AccountMoves(c, k)
    BY <1>2, AccountLeaves DEF VerifyEmailWrite
  <2>. HIDE DEF v, u, row, link
  <2>5. users' \in Seq(UserRow) /\ Len(users') = Len(users)
    <3>1. users \in Seq(UserRow)
      BY AccountFacts
    <3>. QED  BY <2>2, <2>4, <3>1, RowChanged
  <2>6. links' \in Seq(TokenRow) /\ Len(links') = Len(links) /\ DOMAIN links' = DOMAIN links
    <3>1. links \in Seq(TokenRow)
      BY AccountFacts
    <3>. QED  BY <2>3, <2>4, <3>1, RowChanged
  <2>7. welcomes' \in [Rows -> Nat]
    BY <2>1, <2>4, AccountFacts
  <2>8. AccountTables
    BY <2>4, <2>5, <2>6, <2>7, AccountFacts DEF AccountTables
  <2>9. AccountTokens
    BY <2>4, TokensAlone
  <2>. QED  BY <2>4, <2>8, <2>9, AccountsKept
<1>. QED  BY <1>1, <1>2 DEF VerifyEmail

LEMMA CreateTokenSteps ==
    ASSUME AccountsInv, NEW c \in ACalls, CreateToken(c)
    PROVE  AccountsInv'
<1>1. ASSUME NEW u \in DOMAIN users, RequestFindUser(c, u)
      PROVE  AccountsInv'
  <2>1. /\ Started(c, "limit", NoEmail, NoEmail, u) /\ u \in Rows /\ requests \in Nat
        /\ UNCHANGED <<users, resetTokens, links, clock, resets, welcomes>>
    BY <1>1, AccountFacts DEF RequestFindUser
  <2>2. (\E k : AccountMoves(c, k)) /\ requests' \in Nat
    BY <2>1, AccountStarts
  <2>. QED  BY <2>1, <2>2, TablesAlone, AccountFacts
<1>2. CASE RequestLimit(c)
  <2>1. \E k : AccountMoves(c, k)
    <3>1. CASE Reply(c)
      BY <3>1, AccountLeaves
    <3>2. CASE Proceed(c, "issue")
      <4>1. acall[c] \in ACallState /\ acall[c].row \in Rows
        BY <1>2, AtIsBusy, CallIsAt DEF RequestLimit
      <4>. DEFINE k == [acall[c] EXCEPT !.at = "issue"]
      <4>2. k \in ACallState /\ k.at = "issue"
        <5>1. acall[c] \in ACallState
          BY <4>1
        <5>. QED  BY <5>1, AccountCallAt
      <4>3. acall' = [acall EXCEPT ![c] = k]
        BY <3>2 DEF Proceed
      <4>. HIDE DEF k
      <4>4. AccountMoves(c, k)
        BY <4>2, <4>3 DEF AccountMoves
      <4>. QED  BY <4>4
    <3>. QED  BY <1>2, <3>1, <3>2 DEF RequestLimit
  <2>2. UNCHANGED <<users, resetTokens, links, clock, resets, welcomes, requests>>
    BY <1>2 DEF RequestLimit
  <2>. QED  BY <2>1, <2>2, TablesAlone, AccountFacts
<1>3. CASE RequestIssue(c)
  <2>. DEFINE row == Fresh(acall[c].row, clock)
              n == Len(resetTokens) + 1
  <2>1. row \in TokenRow
    <3>1. acall[c].row \in Rows /\ clock \in Nat
      BY <1>3, AtIsBusy, CallIsAt, AccountFacts DEF RequestIssue
    <3>. QED  BY <3>1 DEF Fresh, TokenRow
  <2>2. resetTokens' = Append(resetTokens, row) /\ Len(resetTokens) < MaxRows
    BY <1>3 DEF RequestIssue
  <2>. HIDE DEF row
  <2>3. /\ resetTokens' \in Seq(TokenRow) /\ Len(resetTokens') = n
        /\ Len(resetTokens) \in Nat /\ n = Len(resetTokens) + 1
        /\ DOMAIN resetTokens = 1..Len(resetTokens) /\ DOMAIN resetTokens' = 1..n
        /\ \A t \in DOMAIN resetTokens : resetTokens'[t] = resetTokens[t]
    BY <2>1, <2>2, AccountFacts, RowAdded
  <2>4. (\E k : AccountMoves(c, k)) /\ UNCHANGED <<users, links, clock, resets, welcomes, requests>>
    BY <1>3, AccountLeaves DEF RequestIssue
  <2>5. n \in Rows /\ resets[n] = 0
    <3>1. n \in 1..MaxRows /\ n \notin DOMAIN resetTokens
      BY <2>2, <2>3, AccountFacts
    <3>. QED  BY <3>1 DEF Rows, AccountsInv, UnissuedUnused
  <2>. HIDE DEF n
  <2>6. AccountTables
    BY <2>2, <2>3, <2>4, AccountFacts DEF AccountTables
  <2>7. UnissuedUnused'
    BY <2>3, <2>4 DEF AccountsInv, UnissuedUnused
  <2>8. ResetClosesOthers'
    <3>. SUFFICES ASSUME NEW t \in DOMAIN resetTokens', resets'[t] > 0,
                         NEW s \in DOMAIN resetTokens',
                         resetTokens'[s].user = resetTokens'[t].user, s <= t
                  PROVE  resetTokens'[s].used
      BY DEF ResetClosesOthers
    <3>1. t # n /\ t \in 1..n
      BY <2>3, <2>4, <2>5
    <3>2. t \in DOMAIN resetTokens /\ s \in DOMAIN resetTokens
      BY <2>3, <3>1
    <3>. QED  BY <2>3, <2>4, <3>2 DEF AccountsInv, ResetClosesOthers
  <2>. QED  BY <2>4, <2>6, <2>7, <2>8, AccountsKept DEF AccountTokens
<1>. QED  BY <1>1, <1>2, <1>3 DEF CreateToken

LEMMA ResetPasswordSteps ==
    ASSUME AccountsInv, NEW c \in ACalls, ResetPassword(c)
    PROVE  AccountsInv'
<1>1. ASSUME NEW t \in DOMAIN resetTokens, ValidateToken(c, t)
      PROVE  AccountsInv'
  <2>1. /\ Started(c, "reset", NoEmail, NoEmail, t) /\ t \in Rows /\ requests \in Nat
        /\ UNCHANGED <<users, resetTokens, links, clock, resets, welcomes>>
    BY <1>1, AccountFacts DEF ValidateToken
  <2>2. (\E k : AccountMoves(c, k)) /\ requests' \in Nat
    BY <2>1, AccountStarts
  <2>. QED  BY <2>1, <2>2, TablesAlone, AccountFacts
<1>2. CASE ResetPasswordWrite(c)
  <2>. DEFINE t == acall[c].row
              u == resetTokens[t].user
              row == [users[u] EXCEPT !.password = t]
  <2>1. t \in DOMAIN resetTokens /\ t \in Rows
    BY <1>2, AtIsBusy, CallIsAt DEF ResetPasswordWrite, AccountCall
  <2>2. u \in DOMAIN users => row \in UserRow
    <3>1. u \in DOMAIN users => users[u] \in UserRow
      BY AccountFacts
    <3>. QED  BY <2>1, <3>1 DEF UserRow
  <2>3. /\ users' = [users EXCEPT ![u] = row]
        /\ resetTokens' = [s \in DOMAIN resetTokens |->
              [resetTokens[s] EXCEPT !.used = @ \/ resetTokens[s].user = u]]
        /\ resets' = [resets EXCEPT ![t] = @ + 1]
        /\ UNCHANGED <<links, clock, welcomes, requests>>
        /\ \E k : AccountMoves(c, k)
    BY <1>2, AccountLeaves DEF ResetPasswordWrite
  <2>. HIDE DEF row, t, u
  <2>4. users' \in Seq(UserRow) /\ Len(users') = Len(users)
    <3>1. users \in Seq(UserRow)
      BY AccountFacts
    <3>. QED  BY <2>2, <2>3, <3>1, RowChanged
  <2>5. ASSUME NEW s \in DOMAIN resetTokens
        PROVE  /\ resetTokens'[s] \in TokenRow
               /\ resetTokens'[s].user = resetTokens[s].user
               /\ resetTokens[s].used => resetTokens'[s].used
               /\ resetTokens[s].user = u => resetTokens'[s].used
    <3>1. resetTokens[s] \in TokenRow
      BY AccountFacts
    <3>2. resetTokens'[s] = [resetTokens[s] EXCEPT !.used = @ \/ resetTokens[s].user = u]
      BY <2>3
    <3>. QED  BY <3>1, <3>2, TokenRowUsed
  <2>6. DOMAIN resetTokens' = DOMAIN resetTokens
    BY <2>3
  <2>7. resetTokens' \in Seq(TokenRow) /\ Len(resetTokens') = Len(resetTokens)
    <3>1. resetTokens' = [i \in DOMAIN resetTokens' |-> resetTokens'[i]]
      BY <2>3
    <3>. QED  BY <2>5, <2>6, <3>1, AccountFacts, RowsChanged
  <2>8. resets' \in [Rows -> Nat] /\ \A s \in Rows : s # t => resets'[s] = resets[s]
    BY <2>1, <2>3, AccountFacts
  <2>9. AccountTables
    BY <2>3, <2>4, <2>6, <2>7, <2>8, AccountFacts DEF AccountTables
  <2>10. UnissuedUnused'
    BY <2>1, <2>6, <2>8 DEF AccountsInv, UnissuedUnused
  <2>11. ResetClosesOthers'
    <3>. SUFFICES ASSUME NEW r \in DOMAIN resetTokens', resets'[r] > 0,
                         NEW s \in DOMAIN resetTokens',
                         resetTokens'[s].user = resetTokens'[r].user, s <= r
                  PROVE  resetTokens'[s].used
      BY DEF ResetClosesOthers
    <3>1. /\ r \in DOMAIN resetTokens /\ s \in DOMAIN resetTokens /\ r \in Rows
          /\ resetTokens[s].user = resetTokens[r].user
      BY <2>5, <2>6, AccountFacts
    <3>2. CASE r = t
      BY <2>5, <3>1, <3>2 DEF u
    <3>3. CASE r # t
      BY <2>5, <2>8, <3>1, <3>3 DEF AccountsInv, ResetClosesOthers
    <3>. QED  BY <3>2, <3>3
  <2>. QED  BY <2>3, <2>9, <2>10, <2>11, AccountsKept DEF AccountTokens
<1>. QED  BY <1>1, <1>2 DEF ResetPassword

LEMMA CleanupSteps ==
    ASSUME AccountsInv, CleanupLinks \/ CleanupTokens
    PROVE  AccountsInv'
<1>1. CASE CleanupLinks
  <2>1. ASSUME NEW v \in DOMAIN links PROVE links'[v] \in TokenRow
    <3>1. links[v] \in TokenRow
      BY AccountFacts
    <3>2. links'[v] = [links[v] EXCEPT !.kept = @ /\ clock <= links[v].created + LinkExpiration + Grace]
      BY <1>1 DEF CleanupLinks
    <3>. QED  BY <3>1, <3>2, LinkRowSwept
  <2>2. DOMAIN links' = DOMAIN links /\ links' = [v \in DOMAIN links' |-> links'[v]]
    BY <1>1 DEF CleanupLinks
  <2>3. links \in Seq(TokenRow)
    BY AccountFacts
  <2>4. links' \in Seq(TokenRow) /\ Len(links') = Len(links)
    BY <2>1, <2>2, <2>3, RowsChanged
  <2>5. UNCHANGED <<users, resetTokens, acall, clock, resets, welcomes, requests>>
    BY <1>1 DEF CleanupLinks
  <2>6. AccountTables
    BY <2>2, <2>4, <2>5, AccountFacts DEF AccountTables
  <2>. QED  BY <2>5, <2>6, TokensAlone, AccountsKept
<1>2. CASE CleanupTokens
  <2>1. ASSUME NEW t \in DOMAIN resetTokens
        PROVE  /\ resetTokens'[t] \in TokenRow
               /\ resetTokens'[t].user = resetTokens[t].user
               /\ resetTokens[t].used => resetTokens'[t].used
    <3>1. resetTokens[t] \in TokenRow
      BY AccountFacts
    <3>2. resetTokens'[t] = [resetTokens[t] EXCEPT
              !.kept = @ /\ ~resetTokens[t].used
                         /\ clock <= resetTokens[t].created + Expiration + Grace]
      BY <1>2 DEF CleanupTokens
    <3>. QED  BY <3>1, <3>2, TokenRowSwept
  <2>2. /\ DOMAIN resetTokens' = DOMAIN resetTokens
        /\ resetTokens' = [t \in DOMAIN resetTokens' |-> resetTokens'[t]]
    BY <1>2 DEF CleanupTokens
  <2>3. resetTokens \in Seq(TokenRow)
    BY AccountFacts
  <2>4. resetTokens' \in Seq(TokenRow) /\ Len(resetTokens') = Len(resetTokens)
    BY <2>1, <2>2, <2>3, RowsChanged
  <2>5. UNCHANGED <<users, links, acall, clock, resets, welcomes, requests>>
    BY <1>2 DEF CleanupTokens
  <2>6. AccountTables
    BY <2>2, <2>4, <2>5, AccountFacts DEF AccountTables
  <2>7. AccountTokens
    BY <2>1, <2>2, <2>5 DEF AccountTokens, AccountsInv, ResetClosesOthers, UnissuedUnused
  <2>. QED  BY <2>5, <2>6, <2>7, AccountsKept
<1>. QED  BY <1>1, <1>2

LEMMA AccountsInvNext == AccountsInv /\ [AccountsNext]_accountVars => AccountsInv'
<1>. SUFFICES ASSUME AccountsInv, [AccountsNext]_accountVars PROVE AccountsInv'
  OBVIOUS
<1>1. CASE UNCHANGED accountVars
  <2>1. /\ UNCHANGED <<users, resetTokens, links, resets, welcomes, acall>>
        /\ clock' \in Nat /\ requests' \in Nat
    BY <1>1, AccountFacts DEF accountVars
  <2>. QED  BY <2>1, TablesAlone
<1>2. CASE AccountsTick
  <2>1. /\ UNCHANGED <<users, resetTokens, links, resets, welcomes, acall>>
        /\ clock' \in Nat /\ requests' \in Nat
    BY <1>2, AccountFacts DEF AccountsTick
  <2>. QED  BY <2>1, TablesAlone
<1>3. CASE CleanupLinks \/ CleanupTokens
  BY <1>3, CleanupSteps
<1>4. CASE \E u \in DOMAIN users : Administer(u)
  BY <1>4, AdministerSteps
<1>5. ASSUME NEW c \in ACalls, AccountsFail(c) PROVE AccountsInv'
  <2>1. /\ UNCHANGED <<users, resetTokens, links, resets, welcomes>>
        /\ clock' \in Nat /\ requests' \in Nat
        /\ \E k : AccountMoves(c, k)
    BY <1>5, AccountFacts, AccountLeaves DEF AccountsFail
  <2>. QED  BY <2>1, TablesAlone
<1>6. ASSUME NEW c \in ACalls, NEW u \in DOMAIN users, ResendVerification(c, u)
      PROVE  AccountsInv'
  <2>1. /\ Started(c, "link", NoEmail, NoEmail, u) /\ u \in Rows /\ requests \in Nat
        /\ UNCHANGED <<users, resetTokens, links, clock, resets, welcomes>>
    BY <1>6, AccountFacts DEF ResendVerification
  <2>2. (\E k : AccountMoves(c, k)) /\ requests' \in Nat
    BY <2>1, AccountStarts
  <2>. QED  BY <2>1, <2>2, TablesAlone, AccountFacts
<1>. QED
  BY <1>1, <1>2, <1>3, <1>4, <1>5, <1>6, CreateUserSteps, RegisterSteps, VerifyEmailSteps,
     CreateTokenSteps, ResetPasswordSteps DEF AccountsNext

THEOREM AccountsInvariant == AccountsSpec => []AccountsInv
<1>. QED  BY AccountsInvInit, AccountsInvNext, PTL DEF AccountsSpec

(* Every reachable state of the accounts is well typed, for any number of   *)
(* users, tokens, links and concurrent calls.                               *)
THEOREM AccountsTypeCorrect == AccountsSpec => []AccountsTypeOK
<1>1. AccountsInv => AccountsTypeOK
  BY DEF AccountsInv
<1>. QED  BY <1>1, AccountsInvariant, PTL

(* However calls interleave and fail, a password reset closes every token   *)
(* its user was given before, and a backup code that was accepted is marked *)
(* or gone (ResetPassword, useBackupCode).                                  *)
THEOREM SpentCredentialsStaySpent == AccountsSpec /\ TotpSpec => []SpentForGood
<1>1. AccountsInv /\ TotpInv => SpentForGood
  BY DEF AccountsInv, TotpInv, SpentForGood
<1>. QED  BY <1>1, AccountsInvariant, TotpInvariant, PTL

\* A set of numbers has a smallest.
LEMMA SmallestIn ==
    ASSUME NEW T, T \subseteq Nat, T # {}
    PROVE  \E x \in T : \A y \in T : x <= y
<1>. DEFINE R == {ss \in Nat \X Nat : ss[1] < ss[2]}
<1>1. IsWellFoundedOn(R, Nat)
  BY NatLessThanWellFounded DEF OpToRel
<1>. HIDE DEF R
<1>2. PICK x \in T : \A y \in T : ~(<<y, x>> \in R)
  BY <1>1, WFMin
<1>3. ASSUME NEW y \in T PROVE x <= y
  <2>1. x \in Nat /\ y \in Nat
    OBVIOUS
  <2>2. y < x => <<y, x>> \in R
    BY <2>1 DEF R
  <2>. QED  BY <1>2, <2>1, <2>2
<1>. QED  BY <1>3

\* The largest of some numbers is one of them.
LEMMA LargestIsOne ==
    ASSUME NEW S, NEW n \in Nat, S \subseteq 0..n, S # {}
    PROVE  Max(S) \in S /\ \A y \in S : y <= Max(S)
<1>. DEFINE T == {n - x : x \in S}
<1>1. T \subseteq Nat /\ T # {}
  <2>1. \A x \in S : n - x \in Nat
    OBVIOUS
  <2>2. PICK x \in S : TRUE
    OBVIOUS
  <2>3. n - x \in T
    OBVIOUS
  <2>. QED  BY <2>1, <2>3
<1>2. PICK m \in T : \A k \in T : m <= k
  <2>. HIDE DEF T
  <2>. QED  BY <1>1, SmallestIn
<1>3. \A k \in T : ~(k < m)
  <2>1. ASSUME NEW k \in T PROVE ~(k < m)
    <3>1. m <= k /\ k \in Nat /\ m \in Nat
      BY <1>1, <1>2
    <3>. HIDE DEF T
    <3>. QED  BY <3>1
  <2>. QED  BY <2>1
<1>4. PICK x \in S : m = n - x
  BY <1>3
<1>5. \A y \in S : x >= y
  <2>1. ASSUME NEW y \in S PROVE x >= y
    <3>1. n - y \in T
      OBVIOUS
    <3>2. ~(n - y < n - x)
      BY <1>3, <1>4, <3>1
    <3>3. x \in 0..n /\ y \in 0..n
      OBVIOUS
    <3>. QED  BY <3>2, <3>3
  <2>. QED  BY <2>1
<1>6. Max(S) \in S /\ \A y \in S : Max(S) >= y
  BY <1>5 DEF Max
<1>7. ASSUME NEW y \in S PROVE y <= Max(S)
  <2>1. y \in 0..n /\ Max(S) \in 0..n /\ Max(S) >= y
    BY <1>6
  <2>. QED  BY <2>1
<1>. QED  BY <1>6, <1>7

\* The rows of user u that RequestLimit sees are old enough.
Rested(u) ==
    \A t \in DOMAIN resetTokens :
        resetTokens[t].kept /\ resetTokens[t].user = u => clock - resetTokens[t].created >= Interval

\* One call at a time: what it has read is still so when it writes.
AccountSolo(c) ==
    /\ \A v \in Rows : welcomes[v] > 0 => v \in DOMAIN links /\ links[v].used
    /\ \A t \in DOMAIN resetTokens : resetTokens[t].created <= clock
    /\ acall[c].at = "activate" => ~links[acall[c].row].used
    /\ acall[c].at = "reset" => ~resetTokens[acall[c].row].used
    /\ acall[c].at = "issue" => Rested(acall[c].row)
    /\ TokensWorkOnce
    /\ RequestsApart

LEMMA AccountSoloInit ==
    ASSUME NEW c, ACalls = {c}, AccountsInit
    PROVE  AccountSolo(c)
<1>1. DOMAIN resetTokens = {} /\ acall[c] = AIdle
  BY DEF AccountsInit
<1>2. \A t \in Rows : resets[t] = 0 /\ welcomes[t] = 0
  BY DEF AccountsInit
<1>. QED  BY <1>1, <1>2 DEF AccountSolo, AIdle, TokensWorkOnce, RequestsApart

\* A step that leaves tokens and links alone, and the call before none of the
\* statements that write them or where it stood.
LEMMA SoloAlone ==
    ASSUME AccountsInv, NEW c, AccountSolo(c),
           UNCHANGED <<resetTokens, links, resets, welcomes>>,
           clock' \in Nat, clock <= clock',
           UNCHANGED acall \/ acall'[c].at \notin {"activate", "reset", "issue"}
    PROVE  AccountSolo(c)'
<1>1. ASSUME NEW u, Rested(u) PROVE Rested(u)'
  <2>1. \A t \in DOMAIN resetTokens : resetTokens[t].created \in Nat
    BY AccountFacts DEF TokenRow
  <2>2. clock \in Nat /\ Interval \in Nat
    BY AccountFacts, AccountsConstantsOK
  <2>. QED  BY <1>1, <2>1, <2>2 DEF Rested
<1>2. \A t \in DOMAIN resetTokens' : resetTokens'[t].created <= clock'
  <2>1. \A t \in DOMAIN resetTokens : resetTokens[t].created \in Nat /\ resetTokens[t].created <= clock
    BY AccountFacts DEF TokenRow, AccountSolo
  <2>. QED  BY <2>1, AccountFacts
<1>3. TokensWorkOnce' /\ RequestsApart'
  BY DEF AccountSolo, TokensWorkOnce, RequestsApart
<1>4. /\ acall'[c].at = "activate" => ~links'[acall'[c].row].used
      /\ acall'[c].at = "reset" => ~resetTokens'[acall'[c].row].used
  BY DEF AccountSolo
<1>5. acall'[c].at = "issue" => Rested(acall[c].row)' /\ acall'[c].row = acall[c].row
  BY <1>1 DEF AccountSolo
<1>6. acall'[c].at = "issue" => Rested(acall[c].row)'
  BY <1>5
<1>. QED  BY <1>2, <1>3, <1>4, <1>5 DEF AccountSolo, Rested

LEMMA SoloMoves ==
    ASSUME AccountsInv, NEW c \in ACalls
    PROVE  /\ \A at, n, e, r : Started(c, at, n, e, r) => acall'[c].at = at /\ acall'[c].row = r
           /\ Reply(c) => acall'[c].at = "idle"
           /\ \A at : acall[c] # AIdle /\ Proceed(c, at) =>
                  acall'[c].at = at /\ acall'[c].row = acall[c].row
<1>1. acall \in [ACalls -> ACallState \cup {AIdle}]
  BY AccountFacts
<1>2. ASSUME NEW at, NEW n, NEW e, NEW r, Started(c, at, n, e, r)
      PROVE  acall'[c].at = at /\ acall'[c].row = r
  BY <1>1, <1>2 DEF Started
<1>3. ASSUME Reply(c) PROVE acall'[c].at = "idle"
  BY <1>1, <1>3 DEF Reply, AIdle
<1>4. ASSUME NEW at, acall[c] # AIdle, Proceed(c, at)
      PROVE  acall'[c].at = at /\ acall'[c].row = acall[c].row
  <2>. DEFINE k == [acall[c] EXCEPT !.at = at]
  <2>1. acall[c] \in ACallState
    BY <1>1, <1>4
  <2>2. k.at = at /\ k.row = acall[c].row
    BY <2>1 DEF ACallState
  <2>3. acall' = [acall EXCEPT ![c] = k]
    BY <1>4 DEF Proceed
  <2>. HIDE DEF k
  <2>. QED  BY <1>1, <2>2, <2>3
<1>. QED  BY <1>2, <1>3, <1>4

LEMMA SoloUserSteps ==
    ASSUME AccountsInv, NEW c, ACalls = {c}, AccountSolo(c),
           \/ CreateUser(c)
           \/ \E n \in Names, e \in Emails : RegisterCheckName(c, n, e)
           \/ RegisterCheckEmail(c) \/ RegisterInsert(c)
    PROVE  AccountSolo(c)'
<1>0. c \in ACalls /\ clock \in Nat /\ clock <= clock
  BY AccountFacts
<1>1. UNCHANGED <<resetTokens, links, clock, resets, welcomes>>
  BY DEF CreateUser, CreateCheck, CreateInsert, RegisterCheckName, RegisterCheckEmail, RegisterInsert
<1>2. acall'[c].at \notin {"activate", "reset", "issue"}
  <2>1. CASE CreateUser(c)
    <3>1. acall'[c].at \in {"create", "idle"}
      BY <1>0, <2>1, SoloMoves DEF CreateUser, CreateCheck, CreateInsert
    <3>. QED  BY <3>1
  <2>2. CASE \E n \in Names, e \in Emails : RegisterCheckName(c, n, e)
    BY <1>0, <2>2, SoloMoves DEF RegisterCheckName
  <2>3. CASE RegisterCheckEmail(c)
    <3>1. acall[c] # AIdle
      BY <2>3, AtIsBusy DEF RegisterCheckEmail
    <3>. QED  BY <1>0, <2>3, <3>1, SoloMoves DEF RegisterCheckEmail
  <2>4. CASE RegisterInsert(c)
    <3>1. CASE Reply(c)
      BY <1>0, <3>1, SoloMoves
    <3>2. CASE acall' = [acall EXCEPT ![c].at = "link", ![c].row = Len(users) + 1]
      <4>. DEFINE k == [acall[c] EXCEPT !.at = "link", !.row = Len(users) + 1]
      <4>1. acall[c] \in ACallState
        BY <1>0, <2>4, AtIsBusy, CallIsAt DEF RegisterInsert
      <4>2. Len(users) + 1 \in Rows
        <5>1. Len(users) + 1 \in 1..MaxRows
          BY <2>4, AccountFacts DEF RegisterInsert
        <5>. QED  BY <5>1 DEF Rows
      <4>3. k.at = "link"
        BY <4>1, <4>2, AccountCallLinks
      <4>4. acall' = [acall EXCEPT ![c] = k]
        BY <3>2
      <4>. HIDE DEF k
      <4>. QED  BY <1>0, <4>3, <4>4, AccountFacts
    <3>. QED  BY <2>4, <3>1, <3>2 DEF RegisterInsert
  <2>. QED  BY <2>1, <2>2, <2>3, <2>4
<1>. QED  BY <1>0, <1>1, <1>2, SoloAlone

LEMMA SoloLinkSteps ==
    ASSUME AccountsInv, NEW c, ACalls = {c}, AccountSolo(c),
           SendLink(c) \/ VerifyEmail(c) \/ CleanupLinks
    PROVE  AccountSolo(c)'
<1>0. c \in ACalls /\ clock \in Nat
  BY AccountFacts
\* What the links leave to be shown.
<1>1. ASSUME UNCHANGED <<resetTokens, clock, resets>>,
             \A v \in Rows : welcomes'[v] > 0 => v \in DOMAIN links' /\ links'[v].used,
             \A v \in Rows : welcomes'[v] <= 1,
             acall'[c].at \notin {"activate", "reset", "issue"}
      PROVE  AccountSolo(c)'
  BY <1>1 DEF AccountSolo, TokensWorkOnce, RequestsApart
<1>2. \A v \in Rows : welcomes[v] > 0 => v \in DOMAIN links /\ links[v].used
  BY DEF AccountSolo
<1>3. \A v \in Rows : welcomes[v] <= 1
  BY DEF AccountSolo, TokensWorkOnce
<1>4. CASE SendLink(c)
  <2>. DEFINE row == Fresh(acall[c].row, clock)
  <2>1. row \in TokenRow
    <3>1. acall[c].row \in Rows
      BY <1>0, <1>4, AtIsBusy, CallIsAt DEF SendLink
    <3>. QED  BY <1>0, <3>1 DEF Fresh, TokenRow
  <2>2. links' = Append(links, row) /\ UNCHANGED <<resetTokens, clock, resets, welcomes>>
    BY <1>4 DEF SendLink
  <2>. HIDE DEF row
  <2>3. links \in Seq(TokenRow)
    BY AccountFacts
  <2>4. DOMAIN links \subseteq DOMAIN links' /\ \A v \in DOMAIN links : links'[v] = links[v]
    BY <2>1, <2>2, <2>3, RowAdded
  <2>5. acall'[c].at = "idle"
    BY <1>0, <1>4, SoloMoves DEF SendLink
  <2>. QED  BY <1>1, <1>2, <1>3, <2>2, <2>4, <2>5
<1>5. CASE CleanupLinks
  <2>1. ASSUME NEW v \in DOMAIN links, links[v].used PROVE links'[v].used
    <3>1. links[v] \in TokenRow
      BY AccountFacts
    <3>2. links'[v] = [links[v] EXCEPT !.kept = @ /\ clock <= links[v].created + LinkExpiration + Grace]
      BY <1>5 DEF CleanupLinks
    <3>. QED  BY <2>1, <3>1, <3>2, LinkRowSwept
  <2>2. DOMAIN links' = DOMAIN links /\ UNCHANGED <<resetTokens, acall, clock, resets, welcomes>>
    BY <1>5 DEF CleanupLinks
  <2>3. CASE acall[c].at \notin {"activate", "reset", "issue"}
    BY <1>1, <1>2, <1>3, <2>1, <2>2, <2>3
  <2>4. acall[c].at = "activate" => ~links'[acall[c].row].used
    <3>. SUFFICES ASSUME acall[c].at = "activate" PROVE ~links'[acall[c].row].used
      OBVIOUS
    <3>. DEFINE v == acall[c].row
    <3>1. v \in DOMAIN links /\ ~links[v].used
      BY <1>0 DEF AccountsInv, AccountCall, AccountSolo
    <3>2. links[v] \in TokenRow
      BY <3>1, AccountFacts
    <3>3. links'[v] = [links[v] EXCEPT !.kept = @ /\ clock <= links[v].created + LinkExpiration + Grace]
      BY <1>5, <3>1 DEF CleanupLinks
    <3>. HIDE DEF v
    <3>4. ~links'[v].used
      BY <3>1, <3>2, <3>3, LinkRowSwept
    <3>. QED  BY <3>4 DEF v
  <2>5. \A v \in Rows : welcomes'[v] > 0 => v \in DOMAIN links' /\ links'[v].used
    BY <1>2, <2>1, <2>2
  <2>. QED  BY <2>2, <2>4, <2>5 DEF AccountSolo, Rested, TokensWorkOnce, RequestsApart
<1>6. ASSUME NEW v \in DOMAIN links, VerifyEmailRead(c, v) PROVE AccountSolo(c)'
  <2>1. acall'[c].at = "activate" /\ acall'[c].row = v
    BY <1>0, <1>6, SoloMoves DEF VerifyEmailRead
  <2>2. ~links[v].used
    BY <1>6 DEF VerifyEmailRead, Good
  <2>3. UNCHANGED <<resetTokens, links, clock, resets, welcomes>>
    BY <1>6 DEF VerifyEmailRead
  <2>. QED  BY <2>1, <2>2, <2>3 DEF AccountSolo, TokensWorkOnce, RequestsApart
<1>7. CASE VerifyEmailWrite(c)
  <2>. DEFINE v == acall[c].row
              link == [links[v] EXCEPT !.used = TRUE]
  <2>1. v \in DOMAIN links /\ v \in Rows /\ ~links[v].used
    BY <1>0, <1>7, AtIsBusy, CallIsAt DEF VerifyEmailWrite, AccountCall, AccountSolo
  <2>2. link.used
    BY <2>1, AccountFacts, TokenRowMarked
  <2>3. /\ links' = [links EXCEPT ![v] = link]
        /\ welcomes' = [welcomes EXCEPT ![v] = @ + 1]
        /\ UNCHANGED <<resetTokens, clock, resets>>
    BY <1>7 DEF VerifyEmailWrite
  <2>4. acall'[c].at = "idle"
    BY <1>0, <1>7, SoloMoves DEF VerifyEmailWrite
  <2>. HIDE DEF v, link
  <2>5. welcomes[v] = 0
    BY <1>2, <2>1, AccountFacts
  <2>6. DOMAIN links' = DOMAIN links /\ \A w \in DOMAIN links : links'[w] = IF w = v THEN link ELSE links[w]
    BY <2>3
  <2>7. \A w \in Rows : welcomes'[w] = IF w = v THEN 1 ELSE welcomes[w]
    BY <2>1, <2>3, <2>5, AccountFacts
  <2>8. \A w \in Rows : welcomes'[w] > 0 => w \in DOMAIN links' /\ links'[w].used
    BY <1>2, <2>1, <2>2, <2>6, <2>7
  <2>9. \A w \in Rows : welcomes'[w] <= 1
    BY <1>3, <2>7
  <2>. QED  BY <1>1, <2>3, <2>4, <2>8, <2>9
<1>. QED  BY <1>4, <1>5, <1>6, <1>7 DEF VerifyEmail

LEMMA SoloTokenSteps ==
    ASSUME AccountsInv, NEW c, ACalls = {c}, AccountSolo(c), CreateToken(c)
    PROVE  AccountSolo(c)'
<1>0. /\ c \in ACalls /\ clock \in Nat /\ clock <= clock /\ Interval \in Nat
      /\ \A t \in DOMAIN resetTokens : resetTokens[t] \in TokenRow
      /\ \A t \in DOMAIN resetTokens : resetTokens[t].created \in Nat
  BY AccountFacts, AccountsConstantsOK DEF TokenRow
<1>1. ASSUME NEW u \in DOMAIN users, RequestFindUser(c, u) PROVE AccountSolo(c)'
  <2>1. acall'[c].at = "limit" /\ UNCHANGED <<resetTokens, links, clock, resets, welcomes>>
    BY <1>0, <1>1, SoloMoves DEF RequestFindUser
  <2>. QED  BY <1>0, <2>1, SoloAlone
<1>2. CASE RequestLimit(c)
  <2>. DEFINE u == acall[c].row
  <2>1. acall[c] # AIdle /\ UNCHANGED <<resetTokens, links, clock, resets, welcomes>>
    BY <1>2, AtIsBusy DEF RequestLimit
  <2>2. CASE Reply(c)
    <3>1. acall'[c].at = "idle"
      BY <1>0, <2>2, SoloMoves
    <3>. QED  BY <1>0, <2>1, <3>1, SoloAlone
  <2>3. CASE Proceed(c, "issue") /\ ~(Requested(u) # {} /\ clock - Max(Requested(u)) < Interval)
    <3>1. acall'[c].at = "issue" /\ acall'[c].row = u
      BY <1>0, <2>1, <2>3, SoloMoves
    <3>2. Rested(u)
      <4>. SUFFICES ASSUME NEW t \in DOMAIN resetTokens,
                           resetTokens[t].kept, resetTokens[t].user = u
                    PROVE  clock - resetTokens[t].created >= Interval
        BY DEF Rested
      <4>1. resetTokens[t].created \in Requested(u)
        BY DEF Requested
      <4>2. Requested(u) \subseteq 0..clock
        BY <1>0 DEF Requested, AccountSolo
      <4>3. /\ Max(Requested(u)) \in Requested(u)
            /\ resetTokens[t].created <= Max(Requested(u))
        BY <1>0, <4>1, <4>2, LargestIsOne
      <4>4. ~(clock - Max(Requested(u)) < Interval)
        BY <2>3, <4>1
      <4>5. Max(Requested(u)) \in Nat
        BY <1>0, <4>2, <4>3
      <4>. QED  BY <1>0, <4>3, <4>4, <4>5
    <3>3. ASSUME NEW w, Rested(w), acall'[c].row = w PROVE Rested(acall[c].row)'
      BY <2>1, <3>3 DEF Rested
    <3>. HIDE DEF u
    <3>4. Rested(acall[c].row)'
      BY <3>1, <3>2, <3>3
    <3>. QED  BY <2>1, <3>1, <3>4 DEF AccountSolo, TokensWorkOnce, RequestsApart
  <2>. QED  BY <1>2, <2>2, <2>3 DEF RequestLimit
<1>3. CASE RequestIssue(c)
  <2>. DEFINE u == acall[c].row
              row == Fresh(u, clock)
              n == Len(resetTokens) + 1
  <2>1. row \in TokenRow
    <3>1. acall[c].row \in Rows
      BY <1>0, <1>3, AtIsBusy, CallIsAt DEF RequestIssue
    <3>. QED  BY <1>0, <3>1 DEF Fresh, TokenRow
  <2>2. row.created = clock /\ row.user = u
    BY DEF Fresh
  <2>3. resetTokens' = Append(resetTokens, row) /\ UNCHANGED <<links, clock, resets, welcomes>>
    BY <1>3 DEF RequestIssue
  <2>4. Rested(u)
    BY <1>3, AtIsBusy DEF RequestIssue, AccountSolo
  <2>5. acall'[c].at = "idle"
    BY <1>0, <1>3, SoloMoves DEF RequestIssue
  <2>. HIDE DEF row
  <2>6. resetTokens \in Seq(TokenRow)
    BY AccountFacts
  <2>7. /\ Len(resetTokens) \in Nat /\ n = Len(resetTokens) + 1
        /\ DOMAIN resetTokens = 1..Len(resetTokens) /\ DOMAIN resetTokens' = 1..n
        /\ \A t \in DOMAIN resetTokens : resetTokens'[t] = resetTokens[t]
        /\ resetTokens'[n] = row
    BY <2>1, <2>3, <2>6, RowAdded
  <2>. HIDE DEF n, u
  <2>8. \A t \in DOMAIN resetTokens' : t = n \/ t \in DOMAIN resetTokens
    BY <2>7
  <2>9. \A t \in DOMAIN resetTokens' : resetTokens'[t].created <= clock'
    BY <1>0, <2>2, <2>3, <2>7, <2>8 DEF AccountSolo
  <2>10. RequestsApart'
    <3>. SUFFICES ASSUME NEW s \in DOMAIN resetTokens', NEW t \in DOMAIN resetTokens',
                         s < t, resetTokens'[s].kept, resetTokens'[t].kept,
                         resetTokens'[s].user = resetTokens'[t].user
                  PROVE  resetTokens'[t].created - resetTokens'[s].created >= Interval
      BY DEF RequestsApart
    <3>1. s \in DOMAIN resetTokens /\ resetTokens'[s] = resetTokens[s]
      BY <2>7, <2>8
    <3>2. CASE t = n
      BY <2>2, <2>4, <2>7, <3>1, <3>2 DEF Rested
    <3>3. CASE t # n
      BY <2>7, <2>8, <3>1, <3>3 DEF AccountSolo, RequestsApart
    <3>. QED  BY <3>2, <3>3
  <2>11. TokensWorkOnce'
    BY <2>3 DEF AccountSolo, TokensWorkOnce
  <2>. QED  BY <2>3, <2>5, <2>9, <2>10, <2>11 DEF AccountSolo
<1>. QED  BY <1>1, <1>2, <1>3 DEF CreateToken

LEMMA SoloResetSteps ==
    ASSUME AccountsInv, NEW c, ACalls = {c}, AccountSolo(c), ResetPassword(c) \/ CleanupTokens
    PROVE  AccountSolo(c)'
<1>0. /\ c \in ACalls /\ clock \in Nat
      /\ \A t \in DOMAIN resetTokens : resetTokens[t] \in TokenRow
  BY AccountFacts
\* What the tokens leave to be shown, if none was added.
<1>1. ASSUME UNCHANGED <<links, clock, welcomes>>,
             DOMAIN resetTokens' = DOMAIN resetTokens,
             \A t \in DOMAIN resetTokens :
                 /\ resetTokens'[t].created = resetTokens[t].created
                 /\ resetTokens'[t].user = resetTokens[t].user
                 /\ resetTokens'[t].kept => resetTokens[t].kept,
             \A t \in Rows : resets'[t] <= 1,
             \/ UNCHANGED acall /\ acall[c].at # "reset"
             \/ UNCHANGED acall /\ acall[c].at = "reset" /\ ~resetTokens'[acall[c].row].used
             \/ acall'[c].at = "idle"
      PROVE  AccountSolo(c)'
  <2>1. RequestsApart'
    BY <1>1 DEF AccountSolo, RequestsApart
  <2>2. \A u : Rested(u) => Rested(u)'
    BY <1>1 DEF Rested
  <2>3. acall'[c].at = "issue" => Rested(acall[c].row)'
    BY <1>1, <2>2 DEF AccountSolo, Rested
  <2>4. TokensWorkOnce'
    BY <1>1 DEF AccountSolo, TokensWorkOnce
  <2>5. \A t \in DOMAIN resetTokens' : resetTokens'[t].created <= clock'
    BY <1>1 DEF AccountSolo
  <2>. QED  BY <1>1, <2>1, <2>3, <2>4, <2>5 DEF AccountSolo
<1>2. \A t \in Rows : resets[t] <= 1
  BY DEF AccountSolo, TokensWorkOnce
<1>3. CASE CleanupTokens
  <2>1. ASSUME NEW t \in DOMAIN resetTokens
        PROVE  /\ resetTokens'[t].created = resetTokens[t].created
               /\ resetTokens'[t].user = resetTokens[t].user
               /\ resetTokens'[t].kept => resetTokens[t].kept
               /\ resetTokens'[t].used => resetTokens[t].used
    <3>1. resetTokens'[t] = [resetTokens[t] EXCEPT
              !.kept = @ /\ ~resetTokens[t].used
                         /\ clock <= resetTokens[t].created + Expiration + Grace]
      BY <1>3 DEF CleanupTokens
    <3>. QED  BY <1>0, <3>1, TokenRowSwept
  <2>2. DOMAIN resetTokens' = DOMAIN resetTokens /\ UNCHANGED <<links, acall, clock, resets, welcomes>>
    BY <1>3 DEF CleanupTokens
  <2>3. acall[c].at = "reset" => acall[c].row \in DOMAIN resetTokens /\ ~resetTokens[acall[c].row].used
    BY <1>0 DEF AccountsInv, AccountCall, AccountSolo
  <2>. QED  BY <1>1, <1>2, <2>1, <2>2, <2>3
<1>4. ASSUME NEW t \in DOMAIN resetTokens, ValidateToken(c, t) PROVE AccountSolo(c)'
  <2>1. acall'[c].at = "reset" /\ acall'[c].row = t
    BY <1>0, <1>4, SoloMoves DEF ValidateToken
  <2>2. ~resetTokens[t].used /\ UNCHANGED <<resetTokens, links, clock, resets, welcomes>>
    BY <1>4 DEF ValidateToken, Good
  <2>. QED  BY <2>1, <2>2 DEF AccountSolo, TokensWorkOnce, RequestsApart
<1>5. CASE ResetPasswordWrite(c)
  <2>. DEFINE t == acall[c].row
              u == resetTokens[t].user
  <2>1. t \in DOMAIN resetTokens /\ t \in Rows /\ ~resetTokens[t].used
    BY <1>0, <1>5, AtIsBusy, CallIsAt DEF ResetPasswordWrite, AccountCall, AccountSolo
  <2>2. /\ resetTokens' = [s \in DOMAIN resetTokens |->
              [resetTokens[s] EXCEPT !.used = @ \/ resetTokens[s].user = u]]
        /\ resets' = [resets EXCEPT ![t] = @ + 1]
        /\ UNCHANGED <<links, clock, welcomes>>
    BY <1>5 DEF ResetPasswordWrite
  <2>3. acall'[c].at = "idle"
    BY <1>0, <1>5, SoloMoves DEF ResetPasswordWrite
  <2>. HIDE DEF t, u
  <2>4. resets[t] = 0
    <3>1. ~(resets[t] > 0)
      <4>1. t <= t
        BY <2>1, AccountFacts
      <4>. QED  BY <2>1, <4>1 DEF AccountsInv, ResetClosesOthers
    <3>. QED  BY <2>1, <3>1, AccountFacts
  <2>5. \A s \in Rows : resets'[s] <= 1
    BY <1>2, <2>1, <2>2, <2>4, AccountFacts
  <2>6. ASSUME NEW s \in DOMAIN resetTokens
        PROVE  /\ resetTokens'[s].created = resetTokens[s].created
               /\ resetTokens'[s].user = resetTokens[s].user
               /\ resetTokens'[s].kept => resetTokens[s].kept
    <3>1. resetTokens'[s] = [resetTokens[s] EXCEPT !.used = @ \/ resetTokens[s].user = u]
      BY <2>2
    <3>. QED  BY <1>0, <3>1, TokenRowUsed
  <2>7. DOMAIN resetTokens' = DOMAIN resetTokens
    BY <2>2
  <2>. QED  BY <1>1, <2>2, <2>3, <2>5, <2>6, <2>7
<1>. QED  BY <1>3, <1>4, <1>5 DEF ResetPassword

LEMMA AccountSoloNext ==
    ASSUME NEW c, ACalls = {c}
    PROVE  AccountsInv /\ AccountSolo(c) /\ [AccountsNext]_accountVars => AccountSolo(c)'
<1>. SUFFICES ASSUME AccountsInv, AccountSolo(c), [AccountsNext]_accountVars
              PROVE  AccountSolo(c)'
  OBVIOUS
<1>0. c \in ACalls /\ clock \in Nat
  BY AccountFacts
<1>1. CASE UNCHANGED accountVars
  <2>1. UNCHANGED <<resetTokens, links, resets, welcomes, clock, acall>> /\ clock <= clock'
    BY <1>0, <1>1 DEF accountVars
  <2>. QED  BY <1>0, <2>1, SoloAlone
<1>2. CASE AccountsTick
  <2>1. UNCHANGED <<resetTokens, links, resets, welcomes, acall>> /\ clock' \in Nat /\ clock <= clock'
    BY <1>0, <1>2 DEF AccountsTick
  <2>. QED  BY <2>1, SoloAlone
<1>3. CASE \E u \in DOMAIN users : Administer(u)
  <2>1. UNCHANGED <<resetTokens, links, resets, welcomes, clock, acall>>
    <3>1. ASSUME NEW u, NEW e, NEW active, UpdateUser(u, e, active)
          PROVE  UNCHANGED <<resetTokens, links, resets, welcomes, clock, acall>>
      BY <3>1 DEF UpdateUser
    <3>2. ASSUME NEW u, UpdatePassword(u)
          PROVE  UNCHANGED <<resetTokens, links, resets, welcomes, clock, acall>>
      BY <3>2 DEF UpdatePassword
    <3>. QED  BY <1>3, <3>1, <3>2 DEF Administer, DeleteUser
  <2>2. clock' \in Nat /\ clock <= clock'
    BY <1>0, <2>1
  <2>. QED  BY <2>1, <2>2, SoloAlone
<1>4. CASE AccountsFail(c) \/ \E u \in DOMAIN users : ResendVerification(c, u)
  <2>1. UNCHANGED <<resetTokens, links, resets, welcomes, clock>> /\ clock <= clock'
    BY <1>0, <1>4 DEF AccountsFail, ResendVerification
  <2>2. acall'[c].at \in {"idle", "link"}
    BY <1>0, <1>4, SoloMoves DEF AccountsFail, ResendVerification
  <2>. QED  BY <1>0, <2>1, <2>2, SoloAlone
<1>5. CASE Register(c)
  BY <1>5, SoloUserSteps, SoloLinkSteps DEF Register
<1>6. CASE CleanupLinks \/ VerifyEmail(c)
  BY <1>6, SoloLinkSteps
<1>7. CASE CleanupTokens \/ ResetPassword(c)
  BY <1>7, SoloResetSteps
<1>8. CASE CreateUser(c) \/ CreateToken(c)
  BY <1>8, SoloUserSteps, SoloTokenSteps
<1>. QED
  BY <1>1, <1>2, <1>3, <1>4, <1>5, <1>6, <1>7, <1>8 DEF AccountsNext

LEMMA AccountSoloInvariant ==
    ASSUME NEW c, ACalls = {c}
    PROVE  AccountsSpec => []AccountSolo(c)
<1>1. AccountsInit => AccountSolo(c)
  BY AccountSoloInit
<1>2. AccountsInv /\ AccountSolo(c) /\ [AccountsNext]_accountVars => AccountSolo(c)'
  BY AccountSoloNext
<1>. QED  BY <1>1, <1>2, AccountsInvariant, PTL DEF AccountsSpec

(* Where calls come one at a time, whatever fails and whenever Cleanup runs, *)
(* a reset token sets one password, an e-mail link activates one account,    *)
(* and the tokens of a user are MinRequestInterval apart (ValidateToken,     *)
(* VerifyEmail, CreateToken).                                                *)
THEOREM TokensOneAtATime ==
    ASSUME NEW c, ACalls = {c}
    PROVE  AccountsSpec => [](TokensWorkOnce /\ RequestsApart)
<1>1. AccountSolo(c) => TokensWorkOnce /\ RequestsApart
  BY DEF AccountSolo
<1>. QED  BY <1>1, AccountSoloInvariant, PTL

(* Where calls come one at a time, and no statement of two-factor            *)
(* authentication fails, credentials work once, reset tokens are apart, and  *)
(* a second factor that is on has a secret and its codes.                    *)
THEOREM CredentialsHoldAlone ==
    ASSUME NEW c, ACalls = {c}, NEW d, TCalls = {d}, ~TMayFail
    PROVE  AccountsSpec /\ TotpSpec => []CredentialsAlone
<1>1. AccountSolo(c) /\ TotpSolo(d) => CredentialsAlone
  <2>. SUFFICES ASSUME AccountSolo(c), TotpSolo(d) PROVE CredentialsAlone
    OBVIOUS
  <2>1. CodesMatchSecret
    <3>1. (\A e \in TCalls : tcall[e] = TIdle) => tcall[d].at = "idle"
      BY DEF TIdle
    <3>. QED  BY <3>1 DEF TotpSolo, CodesMatchSecret
  <2>. QED  BY <2>1 DEF AccountSolo, TotpSolo, CredentialsAlone
<1>2. AccountsSpec => []AccountSolo(c)
  BY AccountSoloInvariant
<1>3. TotpInit => TotpSolo(d)
  BY TotpSoloInit
<1>4. TotpInv /\ TotpSolo(d) /\ [TotpNext]_totpVars => TotpSolo(d)'
  BY TotpSoloNext
<1>. QED  BY <1>1, <1>2, <1>3, <1>4, TotpInvariant, PTL DEF TotpSpec

-----------------------------------------------------------------------------
(* API keys.                                                                *)

Allows(scopes, need) ==
    \E s \in scopes : \E n \in s : n = Everything \/ (n[1] = need[1] /\ n[2] \in {need[2], "*"})

KeysTyped ==
    /\ ApiKeysTypeOK
    /\ served \in [Keys -> SUBSET (Required \cup {Anything})]
    /\ given \in [Keys -> SUBSET Scopes]

\* What holds of a key: the row tells its scopes, a key not yet created has no
\* past, and one that has ended is revoked or expired, if it is there at all.
KeyStands(k) ==
    /\ Exists(k) => key[k].scopes = Parsed(given[k])
    /\ key[k] = NoKey => k \notin ended /\ served[k] = {} /\ accepted[k] = 0
    /\ k \in ended /\ Exists(k) => ~key[k].active \/ Lapsed(k)
    /\ Parsed(given[k]) # {} => \A need \in served[k] \ {Anything} : Allows(given[k], need)

\* What holds of a request that Validate has let in: the key was created and
\* had not ended, and the scopes read are those it was created with.
KeyCall(c) ==
    kcall[c] # KIdle =>
        LET k == kcall[c].key IN
        /\ key[k] # NoKey
        /\ ~kcall[c].late
        /\ kcall[c].fits /\ kcall[c].need # Anything /\ Parsed(given[k]) # {}
               => Allows(given[k], kcall[c].need)

KeysInv ==
    /\ KeysTyped
    /\ \A k \in Keys : KeyStands(k)
    /\ \A c \in KCalls : KeyCall(c)

LEMMA KeysAreDistinct == NoKey \notin KeyRow /\ GoneKey \notin KeyRow /\ NoKey # GoneKey
<1>1. \A r \in KeyRow : r # NoKey /\ r # GoneKey
  <2>1. \A r \in KeyRow : DOMAIN r = {"owner", "scopes", "expires", "created", "active", "count"}
    BY DEF KeyRow
  <2>2. "scopes" \notin DOMAIN NoKey /\ "scopes" \notin DOMAIN GoneKey
    BY DEF NoKey, GoneKey
  <2>. QED  BY <2>1, <2>2
<1>2. NoKey # GoneKey
  BY DEF NoKey, GoneKey
<1>. QED  BY <1>1, <1>2

LEMMA KeyFacts ==
    ASSUME KeysInv
    PROVE  /\ key \in [Keys -> KeyRow \cup {NoKey, GoneKey}]
           /\ kcall \in [KCalls -> KCallState \cup {KIdle}]
           /\ \A k \in Keys : Exists(k) <=> key[k] \in KeyRow
           /\ \A c \in KCalls : kcall[c] # KIdle =>
                  /\ kcall[c].key \in Keys /\ kcall[c].need \in Required \cup {Anything}
                  /\ kcall[c].fits \in BOOLEAN /\ kcall[c].late \in BOOLEAN
           /\ day \in Nat /\ uses \in Nat
           /\ accepted \in [Keys -> Nat]
           /\ served \in [Keys -> SUBSET (Required \cup {Anything})]
           /\ given \in [Keys -> SUBSET Scopes]
           /\ ended \subseteq Keys
<1>1. \A k \in Keys : Exists(k) <=> key[k] \in KeyRow
  BY KeysAreDistinct DEF KeysInv, KeysTyped, ApiKeysTypeOK, Exists
<1>2. \A c \in KCalls : kcall[c] # KIdle =>
          /\ kcall[c].key \in Keys /\ kcall[c].need \in Required \cup {Anything}
          /\ kcall[c].fits \in BOOLEAN /\ kcall[c].late \in BOOLEAN
  BY DEF KeysInv, KeysTyped, ApiKeysTypeOK, KCallState
<1>. QED  BY <1>1, <1>2 DEF KeysInv, KeysTyped, ApiKeysTypeOK

LEMMA KeyRowChanged ==
    ASSUME NEW r \in KeyRow
    PROVE  /\ [r EXCEPT !.active = FALSE] \in KeyRow
           /\ [r EXCEPT !.active = FALSE].scopes = r.scopes
           /\ [r EXCEPT !.active = FALSE].count = r.count
           /\ ~[r EXCEPT !.active = FALSE].active
           /\ [r EXCEPT !.count = @ + 1] \in KeyRow
           /\ [r EXCEPT !.count = @ + 1].scopes = r.scopes
           /\ [r EXCEPT !.count = @ + 1].expires = r.expires
           /\ [r EXCEPT !.count = @ + 1].active = r.active
           /\ [r EXCEPT !.count = @ + 1].count = r.count + 1
<1>1. r.count + 1 \in Nat
  BY DEF KeyRow
<1>2. [r EXCEPT !.active = FALSE] \in KeyRow /\ [r EXCEPT !.count = @ + 1] \in KeyRow
  BY <1>1 DEF KeyRow
<1>3. /\ [r EXCEPT !.active = FALSE].scopes = r.scopes
      /\ [r EXCEPT !.active = FALSE].count = r.count
      /\ ~[r EXCEPT !.active = FALSE].active
  BY DEF KeyRow
<1>4. /\ [r EXCEPT !.count = @ + 1].scopes = r.scopes
      /\ [r EXCEPT !.count = @ + 1].expires = r.expires
      /\ [r EXCEPT !.count = @ + 1].count = r.count + 1
  BY DEF KeyRow
<1>5. [r EXCEPT !.count = @ + 1].active = r.active
  BY DEF KeyRow
<1>. QED  BY <1>2, <1>3, <1>4, <1>5

LEMMA KeysInvInit == ApiKeysInit => KeysInv
<1>. SUFFICES ASSUME ApiKeysInit PROVE KeysInv
  OBVIOUS
<1>1. KeysTyped
  BY DEF ApiKeysInit, KeysTyped, ApiKeysTypeOK
<1>2. ASSUME NEW k \in Keys PROVE KeyStands(k)
  BY DEF ApiKeysInit, KeyStands, Exists
<1>3. ASSUME NEW c \in KCalls PROVE KeyCall(c)
  BY DEF ApiKeysInit, KeyCall
<1>. QED  BY <1>1, <1>2, <1>3 DEF KeysInv

\* A step that leaves the requests in flight and the scopes given alone, and
\* takes no key back to before it was created.
LEMMA KeyCallsStay ==
    ASSUME KeysInv, UNCHANGED <<kcall, given>>,
           \A k \in Keys : key[k] # NoKey => key'[k] # NoKey
    PROVE  (\A c \in KCalls : KeyCall(c))'
<1>1. ASSUME NEW c \in KCalls PROVE KeyCall(c)'
  <2>1. KeyCall(c) /\ (kcall[c] # KIdle => kcall[c].key \in Keys)
    BY KeyFacts DEF KeysInv
  <2>. QED  BY <2>1 DEF KeyCall
<1>. QED  BY <1>1

LEMMA CreateKeySteps ==
    ASSUME KeysInv, NEW k \in Keys, NEW u \in Owners, NEW scopes \in ScopeLists,
           NEW expires \in {Never, day, day + 1}, CreateKey(k, u, scopes, expires)
    PROVE  KeysInv'
<1>. DEFINE row == [owner |-> u, scopes |-> Parsed(scopes), expires |-> expires,
                    created |-> day, active |-> TRUE, count |-> 0]
<1>1. scopes \subseteq Scopes /\ Parsed(scopes) \subseteq ScopeNames
  BY ApiKeysConstantsOK DEF Parsed, Scopes
<1>2. row \in KeyRow
  <2>1. expires \in {Never} \cup Nat /\ day \in Nat
    BY KeyFacts
  <2>. QED  BY <1>1, <2>1 DEF KeyRow
<1>3. /\ key[k] = NoKey
      /\ key' = [key EXCEPT ![k] = row] /\ given' = [given EXCEPT ![k] = scopes]
      /\ UNCHANGED <<kcall, day, accepted, served, ended, uses>>
  BY DEF CreateKey
<1>4. row.scopes = Parsed(scopes)
  OBVIOUS
<1>. HIDE DEF row
<1>5. /\ key' \in [Keys -> KeyRow \cup {NoKey, GoneKey}] /\ given' \in [Keys -> SUBSET Scopes]
      /\ key'[k] = row /\ given'[k] = scopes
      /\ \A j \in Keys : j # k => key'[j] = key[j] /\ given'[j] = given[j]
  BY <1>1, <1>2, <1>3, KeyFacts
<1>6. KeysTyped'
  BY <1>3, <1>5, KeyFacts DEF KeysTyped, ApiKeysTypeOK
<1>7. ASSUME NEW j \in Keys PROVE KeyStands(j)'
  <2>1. KeyStands(j)
    BY DEF KeysInv
  <2>2. CASE j = k
    <3>1. k \notin ended /\ served[k] = {} /\ row # NoKey
      BY <1>2, <1>3, <2>1, <2>2, KeysAreDistinct DEF KeyStands
    <3>. QED  BY <1>3, <1>4, <1>5, <2>2, <3>1 DEF KeyStands
  <2>3. CASE j # k
    BY <1>3, <1>5, <2>1, <2>3 DEF KeyStands, Exists, Lapsed
  <2>. QED  BY <2>2, <2>3
<1>8. ASSUME NEW c \in KCalls PROVE KeyCall(c)'
  <2>1. KeyCall(c) /\ (kcall[c] # KIdle => kcall[c].key \in Keys)
    BY KeyFacts DEF KeysInv
  <2>2. CASE kcall[c] = KIdle
    BY <1>3, <2>2 DEF KeyCall
  <2>3. CASE kcall[c] # KIdle
    <3>1. kcall[c].key # k
      BY <1>3, <2>1, <2>3 DEF KeyCall
    <3>. QED  BY <1>3, <1>5, <2>1, <2>3, <3>1 DEF KeyCall
  <2>. QED  BY <2>2, <2>3
<1>. QED  BY <1>6, <1>7, <1>8 DEF KeysInv

LEMMA ValidateKeySteps ==
    ASSUME KeysInv, NEW c \in KCalls, NEW k \in Keys, NEW need \in Required \cup {Anything},
           ValidateKey(c, k, need)
    PROVE  KeysInv'
<1>. DEFINE row == [at |-> "count", key |-> k, need |-> need,
                    fits |-> HasScope(key[k].scopes, need), late |-> k \in ended]
<1>1. /\ Exists(k) /\ key[k].active /\ ~Lapsed(k) /\ uses' = uses + 1
      /\ kcall' = [kcall EXCEPT ![c] = row]
      /\ UNCHANGED <<key, day, accepted, served, given, ended>>
  BY DEF ValidateKey
<1>2. row \in KCallState
  BY DEF KCallState, HasScope
<1>3. row.key = k /\ row.need = need /\ (row.late => k \in ended)
      /\ (row.fits => HasScope(key[k].scopes, need))
  OBVIOUS
<1>. HIDE DEF row
<1>4. k \notin ended /\ key[k].scopes = Parsed(given[k]) /\ key[k] # NoKey
  BY <1>1 DEF KeysInv, KeyStands, Exists
<1>5. /\ kcall' \in [KCalls -> KCallState \cup {KIdle}] /\ kcall'[c] = row
      /\ \A d \in KCalls : d # c => kcall'[d] = kcall[d]
  BY <1>1, <1>2, KeyFacts
<1>6. KeysTyped'
  BY <1>1, <1>5, KeyFacts DEF KeysTyped, ApiKeysTypeOK
<1>7. ASSUME NEW j \in Keys PROVE KeyStands(j)'
  BY <1>1 DEF KeysInv, KeyStands, Exists, Lapsed
<1>8. ASSUME row.fits, need # Anything, Parsed(given[k]) # {} PROVE Allows(given[k], need)
  <2>1. Parsed(given[k]) \cap {Everything, need, <<need[1], "*">>} # {}
    BY <1>3, <1>4, <1>8 DEF HasScope
  <2>2. PICK s \in given[k] : \E n \in s : n \in {Everything, need, <<need[1], "*">>}
    BY <2>1 DEF Parsed
  <2>. QED  BY <2>2 DEF Allows
<1>9. ASSUME NEW d \in KCalls PROVE KeyCall(d)'
  <2>1. CASE d = c
    BY <1>1, <1>3, <1>4, <1>5, <1>8, <2>1 DEF KeyCall
  <2>2. CASE d # c
    BY <1>1, <1>5, <2>2 DEF KeyCall, KeysInv
  <2>. QED  BY <2>1, <2>2
<1>. QED  BY <1>6, <1>7, <1>9 DEF KeysInv

LEMMA CountUseSteps ==
    ASSUME KeysInv, NEW c \in KCalls, CountUse(c)
    PROVE  KeysInv'
<1>. DEFINE k == kcall[c].key
<1>1. /\ kcall[c] # KIdle /\ k \in Keys /\ kcall[c].need \in Required \cup {Anything}
      /\ key[k] # NoKey
      /\ kcall[c].fits /\ kcall[c].need # Anything /\ Parsed(given[k]) # {}
             => Allows(given[k], kcall[c].need)
  BY KeyFacts DEF CountUse, KeysInv, KeyCall
<1>2. /\ \/ key' = IF Exists(k) THEN [key EXCEPT ![k].count = @ + 1] ELSE key
         \/ UNCHANGED key
      /\ accepted' = [accepted EXCEPT ![k] = @ + 1]
      /\ served' = [served EXCEPT ![k] = IF kcall[c].fits THEN @ \cup {kcall[c].need} ELSE @]
      /\ kcall' = [kcall EXCEPT ![c] = KIdle]
      /\ UNCHANGED <<day, given, ended, uses>>
  BY DEF CountUse
<1>. HIDE DEF k
<1>3. /\ DOMAIN key' = Keys /\ key' = [j \in Keys |-> key'[j]]
      /\ \A j \in Keys :
             \/ key'[j] = key[j]
             \/ key[j] \in KeyRow /\ key'[j] = [key[j] EXCEPT !.count = @ + 1]
  BY <1>1, <1>2, KeyFacts
<1>4. ASSUME NEW j \in Keys
      PROVE  /\ key'[j] \in KeyRow \cup {NoKey, GoneKey}
             /\ key'[j] = NoKey <=> key[j] = NoKey
             /\ Exists(j)' <=> Exists(j)
             /\ Exists(j) => /\ key'[j].scopes = key[j].scopes
                             /\ key'[j].expires = key[j].expires
                             /\ key'[j].active = key[j].active
  <2>1. CASE key'[j] = key[j]
    <3>1. key[j] \in KeyRow \cup {NoKey, GoneKey}
      BY KeyFacts
    <3>2. Exists(j)' <=> Exists(j)
      BY <2>1 DEF Exists
    <3>. QED  BY <2>1, <3>1, <3>2
  <2>2. CASE key[j] \in KeyRow /\ key'[j] = [key[j] EXCEPT !.count = @ + 1]
    <3>1. key'[j] \in KeyRow
      BY <2>2, KeyRowChanged
    <3>2. /\ key'[j].scopes = key[j].scopes /\ key'[j].expires = key[j].expires
          /\ key'[j].active = key[j].active
      BY <2>2, KeyRowChanged
    <3>. QED  BY <2>2, <3>1, <3>2, KeysAreDistinct DEF Exists
  <2>. QED  BY <1>3, <2>1, <2>2
<1>5. /\ accepted' \in [Keys -> Nat]
      /\ served' \in [Keys -> SUBSET (Required \cup {Anything})]
      /\ \A j \in Keys : j # k => accepted'[j] = accepted[j] /\ served'[j] = served[j]
      /\ \A need \in served'[k] : need \in served[k] \/ (kcall[c].fits /\ need = kcall[c].need)
  BY <1>1, <1>2, KeyFacts
<1>6. /\ kcall' \in [KCalls -> KCallState \cup {KIdle}] /\ kcall'[c] = KIdle
      /\ \A d \in KCalls : d # c => kcall'[d] = kcall[d]
  BY <1>2, KeyFacts
<1>7. KeysTyped'
  <2>1. key' \in [Keys -> KeyRow \cup {NoKey, GoneKey}]
    BY <1>3, <1>4
  <2>. QED  BY <1>2, <1>5, <1>6, <2>1, KeyFacts DEF KeysTyped, ApiKeysTypeOK
<1>8. ASSUME NEW j \in Keys PROVE KeyStands(j)'
  <2>1. KeyStands(j)
    BY DEF KeysInv
  <2>2. Exists(j)' => key'[j].scopes = Parsed(given'[j])
    BY <1>2, <1>4, <2>1 DEF KeyStands
  <2>3. key'[j] = NoKey => j \notin ended' /\ served'[j] = {} /\ accepted'[j] = 0
    BY <1>1, <1>2, <1>4, <1>5, <2>1 DEF KeyStands
  <2>4. j \in ended' /\ Exists(j)' => ~key'[j].active \/ Lapsed(j)'
    BY <1>2, <1>4, <2>1 DEF KeyStands, Lapsed
  <2>5. Parsed(given'[j]) # {} => \A need \in served'[j] \ {Anything} : Allows(given'[j], need)
    BY <1>1, <1>2, <1>5, <2>1 DEF KeyStands
  <2>. QED  BY <2>2, <2>3, <2>4, <2>5 DEF KeyStands
<1>9. ASSUME NEW d \in KCalls PROVE KeyCall(d)'
  <2>1. CASE d = c
    BY <1>6, <2>1 DEF KeyCall
  <2>2. CASE d # c
    <3>1. KeyCall(d) /\ (kcall[d] # KIdle => kcall[d].key \in Keys)
      BY KeyFacts DEF KeysInv
    <3>. QED  BY <1>2, <1>4, <1>6, <2>2, <3>1 DEF KeyCall
  <2>. QED  BY <2>1, <2>2
<1>. QED  BY <1>7, <1>8, <1>9 DEF KeysInv

\* A step that ends keys, and touches neither the requests nor the scopes.
LEMMA KeysEnd ==
    ASSUME KeysInv, UNCHANGED <<kcall, accepted, served, given>>,
           key' \in [Keys -> KeyRow \cup {NoKey, GoneKey}],
           ended \subseteq ended', ended' \subseteq Keys, day' \in Nat, uses' \in Nat,
           \A k \in Keys :
               /\ key'[k] = NoKey <=> key[k] = NoKey
               /\ key'[k] = NoKey => k \notin ended'
               /\ Exists(k)' => Exists(k) /\ key'[k].scopes = key[k].scopes
               /\ k \in ended' /\ Exists(k)' => ~key'[k].active \/ Lapsed(k)'
    PROVE  KeysInv'
<1>1. KeysTyped'
  BY KeyFacts DEF KeysTyped, ApiKeysTypeOK
<1>2. ASSUME NEW k \in Keys PROVE KeyStands(k)'
  <2>1. KeyStands(k)
    BY DEF KeysInv
  <2>2. Exists(k)' => key'[k].scopes = Parsed(given'[k])
    BY <2>1 DEF KeyStands
  <2>3. key'[k] = NoKey => k \notin ended' /\ served'[k] = {} /\ accepted'[k] = 0
    BY <2>1 DEF KeyStands
  <2>4. Parsed(given'[k]) # {} => \A need \in served'[k] \ {Anything} : Allows(given'[k], need)
    BY <2>1 DEF KeyStands
  <2>. QED  BY <2>2, <2>3, <2>4 DEF KeyStands
<1>3. (\A c \in KCalls : KeyCall(c))'
  BY KeyCallsStay
<1>. QED  BY <1>1, <1>2, <1>3 DEF KeysInv

LEMMA EndingSteps ==
    ASSUME KeysInv, NEW k \in Keys, NEW u \in Owners, Revoke(k, u) \/ DeleteKey(k, u)
    PROVE  KeysInv'
<1>. DEFINE row == [key[k] EXCEPT !.active = FALSE]
<1>1. /\ key[k] \in KeyRow /\ ended' = ended \cup {k}
      /\ UNCHANGED <<kcall, day, accepted, served, given, uses>>
      /\ key' = [key EXCEPT ![k] = row] \/ key' = [key EXCEPT ![k] = GoneKey]
  BY KeyFacts DEF Revoke, DeleteKey
<1>2. row \in KeyRow /\ row.scopes = key[k].scopes /\ ~row.active
  BY <1>1, KeyRowChanged
<1>. HIDE DEF row
<1>3. /\ key' \in [Keys -> KeyRow \cup {NoKey, GoneKey}]
      /\ key'[k] = row \/ key'[k] = GoneKey
      /\ \A j \in Keys : j # k => key'[j] = key[j]
  BY <1>1, <1>2, KeyFacts
<1>4. ended \subseteq ended' /\ ended' \subseteq Keys /\ day' \in Nat /\ uses' \in Nat
  BY <1>1, KeyFacts
<1>5. ASSUME NEW j \in Keys
      PROVE  /\ key'[j] = NoKey <=> key[j] = NoKey
             /\ key'[j] = NoKey => j \notin ended'
             /\ Exists(j)' => Exists(j) /\ key'[j].scopes = key[j].scopes
             /\ j \in ended' /\ Exists(j)' => ~key'[j].active \/ Lapsed(j)'
  <2>1. CASE j = k
    BY <1>1, <1>2, <1>3, <2>1, KeysAreDistinct DEF Exists
  <2>2. CASE j # k
    <3>1. key'[j] = key[j] /\ day' = day /\ (j \in ended' => j \in ended)
      BY <1>1, <1>3, <2>2
    <3>. QED  BY <3>1 DEF Exists, Lapsed, KeysInv, KeyStands
  <2>. QED  BY <2>1, <2>2
<1>. QED  BY <1>1, <1>3, <1>4, <1>5, KeysEnd

LEMMA DaySteps ==
    ASSUME KeysInv, NextDay
    PROVE  KeysInv'
<1>1. /\ day' = day + 1
      /\ ended' = ended \cup {k \in Keys : /\ Exists(k)
                                           /\ key[k].expires # Never
                                           /\ day' > key[k].expires}
      /\ UNCHANGED <<key, kcall, accepted, served, given, uses>>
  BY DEF NextDay
<1>2. ended \subseteq ended' /\ ended' \subseteq Keys /\ day' \in Nat /\ uses' \in Nat /\ day \in Nat
  BY <1>1, KeyFacts
<1>3. ASSUME NEW j \in Keys
      PROVE  /\ key'[j] = NoKey <=> key[j] = NoKey
             /\ key'[j] = NoKey => j \notin ended'
             /\ Exists(j)' => Exists(j) /\ key'[j].scopes = key[j].scopes
             /\ j \in ended' /\ Exists(j)' => ~key'[j].active \/ Lapsed(j)'
  <2>1. KeyStands(j) /\ (Exists(j)' <=> Exists(j))
    BY <1>1 DEF KeysInv, Exists
  <2>2. key'[j] = NoKey => j \notin ended'
    BY <1>1, <2>1 DEF KeyStands, Exists
  <2>3. ASSUME j \in ended', Exists(j)' PROVE ~key'[j].active \/ Lapsed(j)'
    <3>1. CASE j \in ended
      <4>1. key[j].expires \in {Never} \cup Nat
        BY <2>1, <2>3, KeyFacts DEF KeyRow
      <4>2. ~key[j].active \/ (key[j].expires # Never /\ day > key[j].expires)
        BY <2>1, <2>3, <3>1 DEF KeyStands, Lapsed
      <4>3. ASSUME key[j].expires # Never, day > key[j].expires
            PROVE  day' > key[j].expires
        BY <1>1, <1>2, <4>1, <4>3
      <4>. QED  BY <1>1, <4>2, <4>3 DEF Lapsed
    <3>2. CASE j \notin ended
      BY <1>1, <2>3, <3>2 DEF Lapsed
    <3>. QED  BY <3>1, <3>2
  <2>. QED  BY <1>1, <2>1, <2>2, <2>3
<1>4. key' \in [Keys -> KeyRow \cup {NoKey, GoneKey}]
  BY <1>1, KeyFacts
<1>. QED  BY <1>1, <1>2, <1>3, <1>4, KeysEnd

LEMMA CleanupKeysSteps ==
    ASSUME KeysInv, CleanupKeys
    PROVE  KeysInv'
<1>. DEFINE old == {k \in Keys : /\ Exists(k)
                                 /\ \/ Lapsed(k)
                                    \/ ~key[k].active /\ key[k].created < day - Retention}
<1>1. /\ key' = [k \in Keys |-> IF k \in old THEN GoneKey ELSE key[k]]
      /\ ended' = ended \cup old
      /\ UNCHANGED <<kcall, day, accepted, served, given, uses>>
  BY DEF CleanupKeys
<1>2. old \subseteq Keys /\ \A k \in old : Exists(k)
  OBVIOUS
<1>. HIDE DEF old
<1>3. key' \in [Keys -> KeyRow \cup {NoKey, GoneKey}]
  BY <1>1, KeyFacts
<1>4. ended \subseteq ended' /\ ended' \subseteq Keys /\ day' \in Nat /\ uses' \in Nat
  BY <1>1, <1>2, KeyFacts
<1>5. ASSUME NEW j \in Keys
      PROVE  /\ key'[j] = NoKey <=> key[j] = NoKey
             /\ key'[j] = NoKey => j \notin ended'
             /\ Exists(j)' => Exists(j) /\ key'[j].scopes = key[j].scopes
             /\ j \in ended' /\ Exists(j)' => ~key'[j].active \/ Lapsed(j)'
  <2>1. CASE j \in old
    BY <1>1, <1>2, <2>1, KeysAreDistinct DEF Exists
  <2>2. CASE j \notin old
    <3>1. key'[j] = key[j] /\ day' = day /\ (j \in ended' => j \in ended)
      BY <1>1, <2>2
    <3>. QED  BY <3>1 DEF Exists, Lapsed, KeysInv, KeyStands
  <2>. QED  BY <2>1, <2>2
<1>. QED  BY <1>1, <1>3, <1>4, <1>5, KeysEnd

LEMMA KeysInvNext == KeysInv /\ [ApiKeysNext]_keyVars => KeysInv'
<1>. SUFFICES ASSUME KeysInv, [ApiKeysNext]_keyVars PROVE KeysInv'
  OBVIOUS
<1>1. CASE UNCHANGED keyVars
  <2>1. KeysTyped'
    BY <1>1 DEF keyVars, KeysInv, KeysTyped, ApiKeysTypeOK
  <2>2. (\A k \in Keys : KeyStands(k))'
    BY <1>1 DEF keyVars, KeysInv, KeyStands, Exists, Lapsed
  <2>3. (\A c \in KCalls : KeyCall(c))'
    BY <1>1, KeyCallsStay DEF keyVars
  <2>. QED  BY <2>1, <2>2, <2>3 DEF KeysInv
<1>2. CASE ApiKeysNext
  BY <1>2, DaySteps, CleanupKeysSteps, EndingSteps, CreateKeySteps, ValidateKeySteps,
     CountUseSteps DEF ApiKeysNext, Validate
<1>. QED  BY <1>1, <1>2

THEOREM KeysInvariant == ApiKeysSpec => []KeysInv
<1>. QED  BY KeysInvInit, KeysInvNext, PTL DEF ApiKeysSpec

LEMMA KeysInvImplies == KeysInv => ApiKeysTypeOK /\ EndedForGood /\ WithinScope
<1>. SUFFICES ASSUME KeysInv PROVE ApiKeysTypeOK /\ EndedForGood /\ WithinScope
  OBVIOUS
<1>1. EndedForGood
  BY DEF KeysInv, KeyCall, EndedForGood
<1>2. WithinScope
  BY DEF KeysInv, KeyStands, WithinScope, Allows, Parsed
<1>. QED  BY <1>1, <1>2 DEF KeysInv, KeysTyped

(* Every reachable state of the API keys is well typed; no key is accepted   *)
(* for a request that came after its end, and one with a name between the    *)
(* commas of its scopes is used for nothing those names do not allow, for    *)
(* any number of keys, any scopes, requests and failing statements           *)
(* (Validate, Create, parseScopes, Middleware, Cleanup).                     *)
THEOREM KeysEndForGood == ApiKeysSpec => [](ApiKeysTypeOK /\ EndedForGood /\ WithinScope)
<1>. QED  BY KeysInvImplies, KeysInvariant, PTL

\* A key is created with a count of zero, and every use counts.
LEMMA UsesCountedNext ==
    ASSUME ~KMayFail
    PROVE  KeysInv /\ UsesCounted /\ [ApiKeysNext]_keyVars => UsesCounted'
<1>. SUFFICES ASSUME KeysInv, UsesCounted, [ApiKeysNext]_keyVars,
                     NEW j \in Keys, Exists(j)'
              PROVE  key'[j].count = accepted'[j]
  BY DEF UsesCounted
<1>0. /\ key \in [Keys -> KeyRow \cup {NoKey, GoneKey}] /\ accepted \in [Keys -> Nat]
      /\ Exists(j) => key[j] \in KeyRow /\ key[j].count = accepted[j]
  BY KeyFacts DEF UsesCounted
\* The steps that change no count.
<1>1. ASSUME UNCHANGED accepted, Exists(j), key'[j].count = key[j].count
      PROVE  key'[j].count = accepted'[j]
  BY <1>0, <1>1
<1>2. CASE UNCHANGED <<key, accepted>>
  BY <1>0, <1>2 DEF Exists
<1>3. ASSUME NEW k \in Keys, NEW u \in Owners, NEW scopes, NEW expires, CreateKey(k, u, scopes, expires)
      PROVE  key'[j].count = accepted'[j]
  <2>1. CASE j = k
    <3>1. key'[j].count = 0 /\ accepted' = accepted /\ key[j] = NoKey
      BY <1>0, <1>3, <2>1 DEF CreateKey
    <3>. QED  BY <3>1 DEF KeysInv, KeyStands
  <2>2. CASE j # k
    <3>1. key'[j] = key[j] /\ accepted' = accepted
      BY <1>0, <1>3, <2>2 DEF CreateKey
    <3>. QED  BY <1>0, <3>1 DEF Exists
  <2>. QED  BY <2>1, <2>2
<1>4. ASSUME NEW c \in KCalls, CountUse(c) PROVE key'[j].count = accepted'[j]
  <2>. DEFINE k == kcall[c].key
  <2>1. k \in Keys
    BY <1>4, KeyFacts DEF CountUse
  <2>2. /\ key' = IF Exists(k) THEN [key EXCEPT ![k].count = @ + 1] ELSE key
        /\ accepted' = [accepted EXCEPT ![k] = @ + 1]
    BY <1>4 DEF CountUse
  <2>. HIDE DEF k
  <2>3. CASE j = k
    <3>1. Exists(j)
      BY <2>2, <2>3 DEF Exists
    <3>2. key'[j] = [key[j] EXCEPT !.count = @ + 1] /\ accepted'[j] = accepted[j] + 1
      BY <1>0, <2>1, <2>2, <2>3, <3>1
    <3>. QED  BY <1>0, <3>1, <3>2, KeyRowChanged
  <2>4. CASE j # k
    <3>1. key'[j] = key[j] /\ accepted'[j] = accepted[j]
      BY <1>0, <2>1, <2>2, <2>4
    <3>. QED  BY <1>0, <3>1 DEF Exists
  <2>. QED  BY <2>3, <2>4
<1>5. ASSUME NEW k \in Keys, NEW u \in Owners, Revoke(k, u) \/ DeleteKey(k, u)
      PROVE  key'[j].count = accepted'[j]
  <2>1. /\ key[k] \in KeyRow /\ UNCHANGED accepted
        /\ \/ key' = [key EXCEPT ![k] = [key[k] EXCEPT !.active = FALSE]]
           \/ key' = [key EXCEPT ![k] = GoneKey]
    BY <1>5, KeyFacts DEF Revoke, DeleteKey
  <2>2. CASE j = k
    <3>1. key'[j] = [key[j] EXCEPT !.active = FALSE] \/ key'[j] = GoneKey
      BY <1>0, <2>1, <2>2
    <3>2. key'[j] # GoneKey
      BY DEF Exists
    <3>3. key'[j].count = key[j].count
      BY <2>1, <2>2, <3>1, <3>2, KeyRowChanged
    <3>4. Exists(j)
      BY <2>1, <2>2, KeyFacts
    <3>. QED  BY <1>1, <2>1, <3>3, <3>4
  <2>3. CASE j # k
    <3>1. key'[j] = key[j]
      BY <1>0, <2>1, <2>3
    <3>. QED  BY <1>0, <2>1, <3>1 DEF Exists
  <2>. QED  BY <2>2, <2>3
<1>6. CASE CleanupKeys
  <2>1. UNCHANGED accepted /\ (key'[j] = key[j] \/ key'[j] = GoneKey)
    BY <1>6 DEF CleanupKeys
  <2>2. key'[j] # GoneKey
    BY DEF Exists
  <2>. QED  BY <1>0, <2>1, <2>2 DEF Exists
<1>7. CASE NextDay \/ \E c \in KCalls, k \in Keys, need \in Required \cup {Anything} : ValidateKey(c, k, need)
  BY <1>2, <1>7 DEF NextDay, ValidateKey
<1>8. CASE UNCHANGED keyVars
  BY <1>2, <1>8 DEF keyVars
<1>. QED
  BY <1>3, <1>4, <1>5, <1>6, <1>7, <1>8 DEF ApiKeysNext, Validate

(* Where no statement fails, every use of a key is counted besides.          *)
THEOREM KeysHoldAlone ==
    ASSUME ~KMayFail
    PROVE  ApiKeysSpec => []KeysHold
<1>1. ApiKeysInit => UsesCounted
  BY DEF ApiKeysInit, UsesCounted, Exists
<1>2. KeysInv /\ UsesCounted /\ [ApiKeysNext]_keyVars => UsesCounted'
  BY UsesCountedNext
<1>3. KeysInv /\ UsesCounted => KeysHold
  BY KeysInvImplies DEF KeysHold
<1>. QED  BY <1>1, <1>2, <1>3, KeysInvariant, PTL DEF ApiKeysSpec

-----------------------------------------------------------------------------
(* Request limits.                                                          *)

BucketRow == {b \in [tokens : Nat, limits : LimitsRow, idle : Nat] : b.tokens <= b.limits.burst}

AdminState == {"idle", "block", "unblock"}

LimitsTyped ==
    /\ LimitsTypeOK
    /\ \E n \in 0..MaxBuckets : bucket \in [1..n -> BucketRow]
    /\ \A c \in LCalls : LAt(c, "take") => lcall[c].bucket \in DOMAIN bucket

LEMMA LimitsConstants ==
    /\ DefaultLimits \in LimitsRow /\ DefaultLimits.rps \in Nat /\ DefaultLimits.burst \in Nat
    /\ \A limits \in OtherLimits : limits \in LimitsRow
    /\ IdleTime \in Nat /\ MaxBuckets \in Nat
<1>1. /\ DefaultLimits \in LimitsRow /\ \A limits \in OtherLimits : limits \in LimitsRow
      /\ IdleTime \in Nat /\ MaxBuckets \in Nat
  BY LimitsConstantsOK
<1>2. DefaultLimits.rps \in Nat /\ DefaultLimits.burst \in Nat
  BY <1>1 DEF LimitsRow
<1>. QED  BY <1>1, <1>2

LEMMA LimitsFacts ==
    ASSUME LimitsTyped
    PROVE  /\ kind \in {"plain", "geo"} /\ {listed, blocked, shut, loose} \subseteq BOOLEAN
           /\ rule \in [blocked : BOOLEAN, limits : LimitsRow]
           /\ lcall \in [LCalls -> LCallState \cup {LIdle}]
           /\ admin \in [Admins -> AdminState]
           /\ time \in Nat /\ hits \in Nat /\ ideal \in Int
           /\ \E n \in 0..MaxBuckets :
                  /\ bucket \in [1..n -> BucketRow] /\ DOMAIN bucket = 1..n
                  /\ Cardinality(DOMAIN bucket) = n
                  /\ current \in 0..n
<1>1. PICK n \in 0..MaxBuckets : bucket \in [1..n -> BucketRow]
  BY DEF LimitsTyped
<1>2. DOMAIN bucket = 1..n /\ n \in Nat
  BY <1>1, LimitsConstants
<1>3. Cardinality(1..n) = n
  <2>1. Cardinality(1..n) = IF 1 > n THEN 0 ELSE n - 1 + 1
    BY <1>2, FS_Interval
  <2>. QED  BY <1>2, <2>1
<1>4. current \in 0..n
  BY <1>2, <1>3 DEF LimitsTyped, LimitsTypeOK
<1>. QED  BY <1>1, <1>2, <1>3, <1>4 DEF LimitsTyped, LimitsTypeOK, AdminState

\* What a step leaves of everything but the requests in flight.
LimitsFrame ==
    /\ kind' \in {"plain", "geo"} /\ {listed', blocked', shut', loose'} \subseteq BOOLEAN
    /\ rule' \in [blocked : BOOLEAN, limits : LimitsRow]
    /\ admin' \in [Admins -> AdminState]
    /\ time' \in Nat /\ hits' \in Nat /\ ideal' \in Int
    /\ \E n \in 0..MaxBuckets : bucket' \in [1..n -> BucketRow] /\ current' \in 0..n

LEMMA LimitsKept ==
    ASSUME LimitsFrame, lcall' \in [LCalls -> LCallState \cup {LIdle}],
           \A c \in LCalls : lcall'[c].at = "take" => lcall'[c].bucket \in DOMAIN bucket'
    PROVE  LimitsTyped'
<1>1. PICK n \in 0..MaxBuckets : bucket' \in [1..n -> BucketRow] /\ current' \in 0..n
  BY DEF LimitsFrame
<1>2. DOMAIN bucket' = 1..n /\ n \in Nat
  BY <1>1, LimitsConstants
<1>3. Cardinality(1..n) = n
  <2>1. Cardinality(1..n) = IF 1 > n THEN 0 ELSE n - 1 + 1
    BY <1>2, FS_Interval
  <2>. QED  BY <1>2, <2>1
<1>4. current' \in 0..Cardinality(DOMAIN bucket')
  BY <1>1, <1>2, <1>3
<1>5. \A b \in DOMAIN bucket' :
          /\ bucket'[b] \in [tokens : Nat, limits : LimitsRow, idle : Nat]
          /\ bucket'[b].tokens <= bucket'[b].limits.burst
  BY <1>1, <1>2 DEF BucketRow
<1>6. LimitsTypeOK'
  BY <1>4, <1>5 DEF LimitsFrame, LimitsTypeOK, AdminState
<1>. QED  BY <1>1, <1>6 DEF LimitsTyped, LAt

\* What request c leaves behind is a state a request can be in.
LimitsMoves(c, k) ==
    /\ lcall' = [lcall EXCEPT ![c] = k]
    /\ k \in LCallState \cup {LIdle}
    /\ k.at = "take" => k.bucket \in DOMAIN bucket'

LEMMA LimitsCallsKeep ==
    ASSUME LimitsTyped, LimitsFrame, DOMAIN bucket \subseteq DOMAIN bucket',
           UNCHANGED lcall \/ \E c \in LCalls : \E k : LimitsMoves(c, k)
    PROVE  LimitsTyped'
<1>1. lcall \in [LCalls -> LCallState \cup {LIdle}]
  BY LimitsFacts
<1>2. CASE UNCHANGED lcall
  BY <1>1, <1>2, LimitsKept DEF LimitsTyped, LAt
<1>3. CASE \E c \in LCalls : \E k : LimitsMoves(c, k)
  <2>1. PICK c \in LCalls : \E k : LimitsMoves(c, k)
    BY <1>3
  <2>2. PICK k : LimitsMoves(c, k)
    BY <2>1
  <2>3. lcall' \in [LCalls -> LCallState \cup {LIdle}] /\ lcall'[c] = k
    BY <1>1, <2>2 DEF LimitsMoves
  <2>4. ASSUME NEW d \in LCalls, lcall'[d].at = "take" PROVE lcall'[d].bucket \in DOMAIN bucket'
    <3>1. CASE d = c
      BY <2>2, <2>3, <2>4, <3>1 DEF LimitsMoves
    <3>2. CASE d # c
      <4>1. lcall'[d] = lcall[d]
        BY <1>1, <2>2, <3>2 DEF LimitsMoves
      <4>. QED  BY <2>4, <4>1 DEF LimitsTyped, LAt
    <3>. QED  BY <3>1, <3>2
  <2>. QED  BY <2>3, <2>4, LimitsKept
<1>. QED  BY <1>2, <1>3

\* A step of a request that leaves the buckets and the administration alone.
LEMMA LimitsRequestKeeps ==
    ASSUME LimitsTyped, hits' \in Nat,
           UNCHANGED <<kind, listed, admin, blocked, rule, current, bucket, time, ideal, shut, loose>>,
           NEW c \in LCalls, NEW k \in LCallState \cup {LIdle}, k.at # "take",
           lcall' = [lcall EXCEPT ![c] = k]
    PROVE  LimitsTyped'
<1>1. LimitsFrame
  BY LimitsFacts DEF LimitsFrame
<1>2. LimitsMoves(c, k)
  BY DEF LimitsMoves
<1>. QED  BY <1>1, <1>2, LimitsCallsKeep

LEMMA LimitsFound ==
    ASSUME NEW r \in LCallState, NEW limits \in LimitsRow
    PROVE  LET q == [r EXCEPT !.at = "bucket", !.limits = limits] IN
           /\ q \in LCallState /\ q.at = "bucket"
           /\ q.limits = limits /\ q.late = r.late
<1>1. [r EXCEPT !.at = "bucket"] \in LCallState /\ [r EXCEPT !.at = "bucket"].at = "bucket"
      /\ [r EXCEPT !.at = "bucket"].late = r.late
  BY DEF LCallState
<1>2. ASSUME NEW q \in LCallState
      PROVE  /\ [q EXCEPT !.limits = limits] \in LCallState
             /\ [q EXCEPT !.limits = limits].at = q.at
             /\ [q EXCEPT !.limits = limits].limits = limits
             /\ [q EXCEPT !.limits = limits].late = q.late
  BY DEF LCallState
<1>. QED  BY <1>1, <1>2

LEMMA BucketFound ==
    ASSUME NEW r \in LCallState, NEW b \in 0..MaxBuckets
    PROVE  LET q == [r EXCEPT !.at = "take", !.bucket = b] IN
           /\ q \in LCallState /\ q.at = "take"
           /\ q.limits = r.limits /\ q.late = r.late /\ q.bucket = b
<1>1. [r EXCEPT !.at = "take"] \in LCallState /\ [r EXCEPT !.at = "take"].at = "take"
      /\ [r EXCEPT !.at = "take"].late = r.late /\ [r EXCEPT !.at = "take"].limits = r.limits
  BY DEF LCallState
<1>2. ASSUME NEW q \in LCallState
      PROVE  /\ [q EXCEPT !.bucket = b] \in LCallState
             /\ [q EXCEPT !.bucket = b].at = q.at
             /\ [q EXCEPT !.bucket = b].limits = q.limits
             /\ [q EXCEPT !.bucket = b].bucket = b
             /\ [q EXCEPT !.bucket = b].late = q.late
  BY DEF LCallState
<1>. QED  BY <1>1, <1>2

\* How a request moves, whichever statement it is at.
RequestMoves(c, k) ==
    /\ lcall' = [lcall EXCEPT ![c] = k]
    /\ k \in LCallState \cup {LIdle}
    /\ k.at = "take" => k.bucket = current'
    /\ k # LIdle =>
           /\ \/ k.limits = DefaultLimits
              \/ lcall[c] # LIdle /\ k.limits = lcall[c].limits
              \/ k.limits = rule.limits /\ rule.limits.rps > 0
           /\ IF lcall[c] = LIdle THEN k.late = shut ELSE k.late = lcall[c].late
           /\ \/ k.at = "table"
              \/ k.at = "limits" /\ (~rule.blocked \/ LMayFail)
              \/ k.at = "bucket" /\ lcall[c] = LIdle /\ kind # "geo"
              \/ lcall[c].at \in {"limits", "bucket"}

LEMMA LimitsBusy ==
    ASSUME LimitsTyped, NEW c \in LCalls, lcall[c].at # "idle"
    PROVE  lcall[c] \in LCallState /\ lcall[c] # LIdle /\ lcall[c].limits \in LimitsRow
<1>1. lcall[c] \in LCallState
  BY LimitsFacts DEF LIdle
<1>. QED  BY <1>1 DEF LIdle, LCallState

LEMMA RequestMovesOn ==
    ASSUME LimitsTyped, NEW c \in LCalls,
           Arrive(c) \/ AskTable(c) \/ GetLimits(c) \/ TakeToken(c)
    PROVE  \E k : RequestMoves(c, k) /\ k.at # "take"
<1>0. 0 \in 0..MaxBuckets /\ LIdle.at = "idle"
  BY LimitsConstants DEF LIdle
<1>1. CASE Arrive(c)
  <2>. DEFINE k == [at |-> IF kind = "geo" THEN "table" ELSE "bucket", limits |-> DefaultLimits,
                    bucket |-> 0, late |-> shut]
  <2>1. k \in LCallState
    <3>1. shut \in BOOLEAN
      BY LimitsFacts
    <3>. QED  BY <1>0, <3>1, LimitsConstants DEF LCallState
  <2>2. /\ k.at = IF kind = "geo" THEN "table" ELSE "bucket"
        /\ k.limits = DefaultLimits /\ k.late = shut
    OBVIOUS
  <2>3. lcall[c] = LIdle /\ lcall' = [lcall EXCEPT ![c] = k]
    BY <1>1 DEF Arrive
  <2>. HIDE DEF k
  <2>4. RequestMoves(c, k) /\ k.at # "take"
    BY <2>1, <2>2, <2>3 DEF RequestMoves
  <2>. QED  BY <2>4
<1>2. CASE AskTable(c)
  <2>1. lcall[c] \in LCallState /\ lcall[c] # LIdle
    BY <1>2, LimitsBusy DEF AskTable, LAt
  <2>2. CASE Refuse(c)
    <3>1. RequestMoves(c, LIdle)
      BY <1>0, <2>2 DEF RequestMoves, Refuse
    <3>. QED  BY <1>0, <3>1
  <2>3. CASE Step(c, "limits") /\ (~rule.blocked \/ LMayFail)
    <3>. DEFINE k == [lcall[c] EXCEPT !.at = "limits"]
    <3>1. k \in LCallState /\ k.at = "limits" /\ k.limits = lcall[c].limits /\ k.late = lcall[c].late
      BY <2>1 DEF LCallState
    <3>2. lcall' = [lcall EXCEPT ![c] = k]
      BY <2>3 DEF Step
    <3>. HIDE DEF k
    <3>3. RequestMoves(c, k) /\ k.at # "take"
      BY <2>1, <2>3, <3>1, <3>2 DEF RequestMoves
    <3>. QED  BY <3>3
  <2>. QED  BY <1>2, <2>2, <2>3 DEF AskTable
<1>3. CASE GetLimits(c)
  <2>1. lcall[c] \in LCallState /\ lcall[c] # LIdle /\ lcall[c].at = "limits"
    BY <1>3, LimitsBusy DEF GetLimits, LAt
  <2>2. CASE Step(c, "bucket")
    <3>. DEFINE k == [lcall[c] EXCEPT !.at = "bucket"]
    <3>1. k \in LCallState /\ k.at = "bucket" /\ k.limits = lcall[c].limits /\ k.late = lcall[c].late
      BY <2>1 DEF LCallState
    <3>2. lcall' = [lcall EXCEPT ![c] = k]
      BY <2>2 DEF Step
    <3>. HIDE DEF k
    <3>3. RequestMoves(c, k) /\ k.at # "take"
      BY <2>1, <3>1, <3>2 DEF RequestMoves
    <3>. QED  BY <3>3
  <2>3. CASE lcall' = [lcall EXCEPT ![c].at = "bucket",
                                    ![c].limits = IF ~rule.blocked /\ rule.limits.rps > 0
                                                  THEN rule.limits ELSE DefaultLimits]
    <3>. DEFINE limits == IF ~rule.blocked /\ rule.limits.rps > 0
                          THEN rule.limits ELSE DefaultLimits
                k == [lcall[c] EXCEPT !.at = "bucket", !.limits = limits]
    <3>1. /\ limits \in LimitsRow
          /\ limits = DefaultLimits \/ (limits = rule.limits /\ rule.limits.rps > 0)
      <4>1. rule.limits \in LimitsRow
        BY LimitsFacts
      <4>. QED  BY <4>1, LimitsConstants
    <3>3. lcall' = [lcall EXCEPT ![c] = k]
      BY <2>3
    <3>. HIDE DEF limits
    <3>2. k \in LCallState /\ k.at = "bucket" /\ k.limits = limits /\ k.late = lcall[c].late
      <4>1. lcall[c] \in LCallState /\ limits \in LimitsRow
        BY <2>1, <3>1
      <4>. QED  BY <4>1, LimitsFound
    <3>. HIDE DEF k
    <3>4. RequestMoves(c, k) /\ k.at # "take"
      BY <2>1, <3>1, <3>2, <3>3 DEF RequestMoves
    <3>. QED  BY <3>4
  <2>. QED  BY <1>3, <2>2, <2>3 DEF GetLimits
<1>4. CASE TakeToken(c)
  <2>1. RequestMoves(c, LIdle)
    BY <1>0, <1>4 DEF RequestMoves, Refuse, TakeToken
  <2>. QED  BY <1>0, <2>1
<1>. QED  BY <1>1, <1>2, <1>3, <1>4

\* The bucket a request finds, and the one it makes where there is none.
LEMMA GetLimiterDoes ==
    ASSUME LimitsTyped, NEW c \in LCalls, GetLimiter(c)
    PROVE  /\ \E k : RequestMoves(c, k) /\ k.at = "take"
           /\ lcall[c] # LIdle /\ lcall[c].at = "bucket"
           /\ UNCHANGED <<kind, listed, admin, blocked, rule, time, ideal, shut, loose, hits>>
           /\ current' # 0 /\ current' \in DOMAIN bucket'
           /\ \E n \in 0..MaxBuckets : bucket' \in [1..n -> BucketRow] /\ current' \in 0..n
           /\ DOMAIN bucket \subseteq DOMAIN bucket'
           /\ IF current # 0
              THEN UNCHANGED <<bucket, current>>
              ELSE bucket'[current'] = [tokens |-> lcall[c].limits.burst, limits |-> lcall[c].limits,
                                        idle |-> 0]
<1>1. lcall[c] \in LCallState /\ lcall[c] # LIdle /\ lcall[c].at = "bucket"
      /\ lcall[c].limits \in LimitsRow
  BY LimitsBusy DEF GetLimiter, LAt
<1>2. PICK n \in 0..MaxBuckets : /\ bucket \in [1..n -> BucketRow] /\ DOMAIN bucket = 1..n
                                 /\ Cardinality(DOMAIN bucket) = n /\ current \in 0..n
  BY LimitsFacts
<1>3. /\ IF current # 0
         THEN UNCHANGED <<bucket, current>>
         ELSE /\ n < MaxBuckets
              /\ bucket' = [b \in 1..(n + 1) |->
                     IF b <= n THEN bucket[b]
                     ELSE [tokens |-> lcall[c].limits.burst, limits |-> lcall[c].limits, idle |-> 0]]
              /\ current' = n + 1
      /\ lcall' = [lcall EXCEPT ![c].at = "take", ![c].bucket = current']
      /\ UNCHANGED <<kind, listed, admin, blocked, rule, time, ideal, shut, loose, hits>>
  BY <1>2 DEF GetLimiter
<1>. DEFINE row == [tokens |-> lcall[c].limits.burst, limits |-> lcall[c].limits, idle |-> 0]
<1>4. row \in BucketRow
  <2>1. lcall[c].limits.burst \in Nat /\ lcall[c].limits.burst <= lcall[c].limits.burst
    BY <1>1 DEF LimitsRow
  <2>. QED  BY <1>1, <2>1 DEF BucketRow
<1>. HIDE DEF row
<1>5. /\ current' # 0 /\ current' \in DOMAIN bucket' /\ current' \in 0..MaxBuckets
      /\ \E m \in 0..MaxBuckets : bucket' \in [1..m -> BucketRow] /\ current' \in 0..m
      /\ DOMAIN bucket \subseteq DOMAIN bucket'
      /\ IF current # 0 THEN UNCHANGED <<bucket, current>> ELSE bucket'[current'] = row
  <2>0. MaxBuckets \in Nat /\ n \in Nat /\ n <= MaxBuckets
    BY LimitsConstants
  <2>1. CASE current # 0
    <3>1. bucket' = bucket /\ current' = current
      BY <1>3, <2>1
    <3>2. current \in 1..n /\ current \in 0..MaxBuckets
      BY <1>2, <2>0, <2>1
    <3>. QED  BY <1>2, <2>1, <3>1, <3>2
  <2>2. CASE current = 0
    <3>1. /\ n + 1 \in 0..MaxBuckets /\ current' = n + 1
          /\ bucket' = [b \in 1..(n + 1) |-> IF b <= n THEN bucket[b] ELSE row]
      BY <1>3, <2>0, <2>2 DEF row
    <3>2. bucket' \in [1..(n + 1) -> BucketRow]
      <4>1. ASSUME NEW b \in 1..(n + 1), b <= n PROVE bucket[b] \in BucketRow
        BY <1>2, <2>0, <4>1
      <4>. QED  BY <1>4, <3>1, <4>1
    <3>3. DOMAIN bucket' = 1..(n + 1) /\ n + 1 \in 1..(n + 1) /\ bucket'[n + 1] = row
      BY <2>0, <3>1
    <3>. QED  BY <1>2, <2>0, <2>2, <3>1, <3>2, <3>3
  <2>. QED  BY <2>1, <2>2
<1>. DEFINE b == current'
            k == [lcall[c] EXCEPT !.at = "take", !.bucket = b]
<1>7. lcall' = [lcall EXCEPT ![c] = k]
  BY <1>3
<1>9. b = current'
  OBVIOUS
<1>. HIDE DEF b
<1>6. k \in LCallState /\ k.at = "take" /\ k.limits = lcall[c].limits /\ k.late = lcall[c].late
      /\ k.bucket = current'
  <2>1. lcall[c] \in LCallState /\ b \in 0..MaxBuckets
    BY <1>1, <1>5, <1>9
  <2>. QED  BY <1>9, <2>1, BucketFound
<1>. HIDE DEF k
<1>8. RequestMoves(c, k) /\ k.at = "take"
  BY <1>1, <1>6, <1>7 DEF RequestMoves
<1>. QED  BY <1>1, <1>3, <1>5, <1>8 DEF row

LEMMA BucketRowFacts ==
    ASSUME NEW r \in BucketRow
    PROVE  /\ r.tokens \in Nat /\ r.idle \in Nat /\ r.limits.rps \in Nat /\ r.limits.burst \in Nat
           /\ r.limits \in LimitsRow /\ r.tokens <= r.limits.burst
           /\ r \in [tokens : Nat, limits : LimitsRow, idle : Nat]
<1>1. r \in [tokens : Nat, limits : LimitsRow, idle : Nat] /\ r.tokens <= r.limits.burst
  BY DEF BucketRow
<1>. QED  BY <1>1 DEF LimitsRow

RowWith(r, tokens, idle) == [r EXCEPT !.tokens = tokens, !.idle = idle]

LEMMA BucketRowSet ==
    ASSUME NEW r \in BucketRow, NEW tokens \in Nat, NEW idle \in Nat, tokens <= r.limits.burst
    PROVE  /\ RowWith(r, tokens, idle) \in BucketRow
           /\ RowWith(r, tokens, idle).tokens = tokens
           /\ RowWith(r, tokens, idle).idle = idle
           /\ RowWith(r, tokens, idle).limits = r.limits
<1>1. r \in [tokens : Nat, limits : LimitsRow, idle : Nat]
  BY BucketRowFacts
<1>. DEFINE q == [r EXCEPT !.tokens = tokens]
            z == RowWith(r, tokens, idle)
<1>2. /\ q \in [tokens : Nat, limits : LimitsRow, idle : Nat]
      /\ q.tokens = tokens /\ q.limits = r.limits
  BY <1>1
<1>3. z = [q EXCEPT !.idle = idle]
  BY DEF RowWith
<1>. HIDE DEF q, z
<1>4. /\ z \in [tokens : Nat, limits : LimitsRow, idle : Nat]
      /\ z.tokens = q.tokens /\ z.idle = idle /\ z.limits = q.limits
  BY <1>2, <1>3
<1>5. z \in BucketRow
  BY <1>2, <1>4 DEF BucketRow
<1>. QED  BY <1>2, <1>4, <1>5 DEF z

LEMMA BucketRowUsed ==
    ASSUME NEW r \in BucketRow
    PROVE  /\ [r EXCEPT !.idle = 0] \in BucketRow
           /\ [r EXCEPT !.idle = 0].tokens = r.tokens
           /\ [r EXCEPT !.idle = 0].idle = 0
           /\ [r EXCEPT !.idle = 0].limits = r.limits
<1>1. r \in [tokens : Nat, limits : LimitsRow, idle : Nat] /\ r.tokens <= r.limits.burst
  BY BucketRowFacts
<1>. QED  BY <1>1 DEF BucketRow

LEMMA TakeTokenDoes ==
    ASSUME LimitsTyped, NEW c \in LCalls, TakeToken(c)
    PROVE  /\ lcall[c].at = "take" /\ lcall[c].bucket \in DOMAIN bucket
           /\ bucket[lcall[c].bucket] \in BucketRow
           /\ UNCHANGED <<kind, listed, admin, blocked, rule, current, time, shut, loose, hits>>
           /\ \E n \in 0..MaxBuckets : bucket' \in [1..n -> BucketRow] /\ current' \in 0..n
           /\ DOMAIN bucket' = DOMAIN bucket
           /\ ideal' \in Int
           /\ LET b == lcall[c].bucket IN
              /\ bucket'[b].limits = bucket[b].limits /\ bucket'[b].idle = 0
              /\ IF bucket[b].tokens < 1
                 THEN bucket'[b].tokens = bucket[b].tokens /\ ideal' = ideal
                 ELSE bucket'[b].tokens = bucket[b].tokens - 1 /\ ideal' = ideal - 1
<1>. DEFINE b == lcall[c].bucket
            r == bucket[b]
            z == IF r.tokens < 1 THEN [r EXCEPT !.idle = 0]
                                 ELSE [r EXCEPT !.tokens = r.tokens - 1, !.idle = 0]
<1>1. /\ lcall[c].at = "take" /\ b \in DOMAIN bucket
      /\ UNCHANGED <<kind, listed, admin, blocked, rule, current, time, shut, loose, hits>>
  BY DEF TakeToken, LAt, LimitsTyped
<1>2. /\ bucket' = [bucket EXCEPT ![b] = z]
      /\ ideal' = IF r.tokens < 1 THEN ideal ELSE ideal - 1
  BY DEF TakeToken
<1>3. PICK n \in 0..MaxBuckets : /\ bucket \in [1..n -> BucketRow] /\ DOMAIN bucket = 1..n
                                 /\ current \in 0..n
  BY LimitsFacts
<1>4. r \in BucketRow
  BY <1>1, <1>3
<1>5. /\ z \in BucketRow /\ z.limits = r.limits /\ z.idle = 0
      /\ IF r.tokens < 1 THEN z.tokens = r.tokens ELSE z.tokens = r.tokens - 1
  <2>. HIDE DEF r
  <2>1. CASE r.tokens < 1
    BY <1>4, <2>1, BucketRowUsed
  <2>2. CASE ~(r.tokens < 1)
    <3>1. r.tokens \in Nat /\ r.tokens <= r.limits.burst /\ r.limits.burst \in Nat
      BY <1>4, BucketRowFacts
    <3>2. r.tokens - 1 \in Nat /\ r.tokens - 1 <= r.limits.burst /\ 0 \in Nat
      BY <2>2, <3>1
    <3>3. z = [r EXCEPT !.tokens = r.tokens - 1, !.idle = 0]
      BY <2>2
    <3>. HIDE DEF z
    <3>4. z \in BucketRow /\ z.limits = r.limits /\ z.idle = 0 /\ z.tokens = r.tokens - 1
      <4>. DEFINE left == r.tokens - 1
      <4>1. r \in BucketRow /\ left \in Nat /\ 0 \in Nat /\ left <= r.limits.burst
        BY <1>4, <3>2
      <4>2. z = RowWith(r, left, 0)
        BY <3>3 DEF RowWith
      <4>. HIDE DEF left
      <4>3. z \in BucketRow /\ z.limits = r.limits /\ z.idle = 0 /\ z.tokens = left
        BY <4>1, <4>2, BucketRowSet
      <4>. QED  BY <4>3 DEF left
    <3>. QED  BY <2>2, <3>4
  <2>. QED  BY <2>1, <2>2
<1>6. r = bucket[b]
  OBVIOUS
<1>. HIDE DEF r, z
<1>7. bucket' \in [1..n -> BucketRow] /\ DOMAIN bucket' = DOMAIN bucket /\ bucket'[b] = z
  BY <1>1, <1>2, <1>3, <1>5
<1>8. ideal' \in Int
  BY <1>2, LimitsFacts
<1>9. current' \in 0..n
  BY <1>1, <1>3
<1>10. \E m \in 0..MaxBuckets : bucket' \in [1..m -> BucketRow] /\ current' \in 0..m
  BY <1>3, <1>7, <1>9
<1>. QED  BY <1>1, <1>2, <1>4, <1>5, <1>6, <1>7, <1>8, <1>10

LEMMA RefilledFacts ==
    ASSUME NEW b, bucket[b] \in BucketRow
    PROVE  /\ Refilled(b) \in BucketRow
           /\ Refilled(b).limits = bucket[b].limits
           /\ Refilled(b).tokens = Least(bucket[b].tokens + bucket[b].limits.rps, bucket[b].limits.burst)
           /\ Refilled(b).idle = bucket[b].idle + 1
<1>. DEFINE r == bucket[b]
            tokens == Least(r.tokens + r.limits.rps, r.limits.burst)
            idle == r.idle + 1
<1>1. Refilled(b) = [r EXCEPT !.tokens = tokens, !.idle = idle]
  BY DEF Refilled
<1>2. /\ r.tokens \in Nat /\ r.idle \in Nat /\ r.limits.rps \in Nat /\ r.limits.burst \in Nat
      /\ r \in BucketRow
  BY BucketRowFacts
<1>3. tokens \in Nat /\ idle \in Nat /\ tokens <= r.limits.burst
  BY <1>2 DEF Least
<1>. HIDE DEF r, tokens, idle
<1>. DEFINE z == Refilled(b)
<1>4. z = RowWith(r, tokens, idle)
  BY <1>1 DEF RowWith
<1>. HIDE DEF z
<1>5. z \in BucketRow /\ z.tokens = tokens /\ z.idle = idle /\ z.limits = r.limits
  BY <1>2, <1>3, <1>4, BucketRowSet
<1>. QED  BY <1>5 DEF r, tokens, idle, z

LEMMA NoBuckets == << >> \in [1..0 -> BucketRow]
<1>1. << >> \in Seq(BucketRow) /\ Len(<< >>) = 0
  BY EmptySeq
<1>. QED  BY <1>1, LenProperties

LEMMA LimitsTypedInit == LimitsInit => LimitsTyped
<1>. SUFFICES ASSUME LimitsInit PROVE LimitsTyped
  OBVIOUS
<1>1. /\ kind \in {"plain", "geo"} /\ {listed, blocked, shut, loose} \subseteq BOOLEAN
      /\ rule \in [blocked : BOOLEAN, limits : LimitsRow]
      /\ admin \in [Admins -> AdminState]
      /\ time \in Nat /\ hits \in Nat /\ ideal \in Int
  <2>1. listed \in BOOLEAN /\ shut = FALSE /\ loose = FALSE /\ blocked = listed
    BY DEF LimitsInit
  <2>2. rule \in [blocked : BOOLEAN, limits : LimitsRow]
    BY DEF LimitsInit, NoRule, LimitsRow
  <2>3. kind \in {"plain", "geo"} /\ time = 0 /\ hits = 0 /\ ideal = DefaultLimits.burst
    BY DEF LimitsInit
  <2>4. blocked \in BOOLEAN /\ shut \in BOOLEAN /\ loose \in BOOLEAN
    BY <2>1
  <2>5. time \in Nat /\ hits \in Nat /\ ideal \in Int
    BY <2>3, LimitsConstants
  <2>6. admin \in [Admins -> AdminState]
    BY DEF LimitsInit, AdminState
  <2>. QED  BY <2>1, <2>2, <2>3, <2>4, <2>5, <2>6
<1>2. DOMAIN bucket = {} /\ current = 0 /\ \A c \in LCalls : lcall[c] = LIdle
  BY DEF LimitsInit
<1>3. bucket \in [1..0 -> BucketRow] /\ 0 \in 0..MaxBuckets
  <2>1. bucket = << >>
    BY DEF LimitsInit
  <2>. QED  BY <2>1, NoBuckets, LimitsConstants
<1>4. Cardinality(DOMAIN bucket) = 0
  BY <1>2, FS_EmptySet
<1>5. LimitsTypeOK
  <2>1. lcall \in [LCalls -> LCallState \cup {LIdle}]
    BY DEF LimitsInit
  <2>2. current \in 0..Cardinality(DOMAIN bucket)
    BY <1>2, <1>4
  <2>3. \A b \in DOMAIN bucket :
          /\ bucket[b] \in [tokens : Nat, limits : LimitsRow, idle : Nat]
          /\ bucket[b].tokens <= bucket[b].limits.burst
    BY <1>2
  <2>. QED  BY <1>1, <2>1, <2>2, <2>3 DEF LimitsTypeOK, AdminState
<1>. QED  BY <1>2, <1>3, <1>5 DEF LimitsTyped, LAt, LIdle

LEMMA LimitsTypedNext == LimitsTyped /\ [LimitsNext]_limitVars => LimitsTyped'
<1>. SUFFICES ASSUME LimitsTyped, [LimitsNext]_limitVars PROVE LimitsTyped'
  OBVIOUS
<1>0. /\ kind \in {"plain", "geo"} /\ {listed, blocked, shut, loose} \subseteq BOOLEAN
      /\ rule \in [blocked : BOOLEAN, limits : LimitsRow]
      /\ lcall \in [LCalls -> LCallState \cup {LIdle}]
      /\ admin \in [Admins -> AdminState]
      /\ time \in Nat /\ hits \in Nat /\ ideal \in Int
  BY LimitsFacts
<1>a. \E n \in 0..MaxBuckets : bucket \in [1..n -> BucketRow] /\ current \in 0..n
  BY LimitsFacts
<1>1. CASE UNCHANGED limitVars
  <2>1. LimitsFrame /\ UNCHANGED <<bucket, lcall>>
    BY <1>0, <1>a, <1>1 DEF limitVars, LimitsFrame
  <2>. QED  BY <2>1, LimitsCallsKeep
<1>2. ASSUME NEW c \in LCalls, Arrive(c) \/ AskTable(c) \/ GetLimits(c) PROVE LimitsTyped'
  <2>1. PICK k : RequestMoves(c, k) /\ k.at # "take"
    BY <1>2, RequestMovesOn
  <2>2. /\ UNCHANGED <<kind, listed, admin, blocked, rule, current, bucket, time, ideal, shut, loose>>
        /\ hits' \in Nat
    BY <1>0, <1>2 DEF Arrive, AskTable, GetLimits
  <2>. QED  BY <2>1, <2>2, LimitsRequestKeeps DEF RequestMoves
<1>3. ASSUME NEW c \in LCalls, GetLimiter(c) PROVE LimitsTyped'
  <2>1. PICK k : RequestMoves(c, k) /\ k.at = "take"
    BY <1>3, GetLimiterDoes
  <2>2. LimitsMoves(c, k)
    BY <1>3, <2>1, GetLimiterDoes DEF RequestMoves, LimitsMoves
  <2>3. LimitsFrame /\ DOMAIN bucket \subseteq DOMAIN bucket'
    BY <1>0, <1>3, GetLimiterDoes DEF LimitsFrame
  <2>. QED  BY <2>2, <2>3, LimitsCallsKeep
<1>4. ASSUME NEW c \in LCalls, TakeToken(c) PROVE LimitsTyped'
  <2>1. LimitsMoves(c, LIdle)
    BY <1>4 DEF TakeToken, Refuse, LimitsMoves, LIdle
  <2>2. LimitsFrame /\ DOMAIN bucket \subseteq DOMAIN bucket'
    BY <1>0, <1>4, TakeTokenDoes DEF LimitsFrame
  <2>. QED  BY <2>1, <2>2, LimitsCallsKeep
<1>5. CASE LimitsTick
  <2>1. PICK n \in 0..MaxBuckets : bucket \in [1..n -> BucketRow] /\ current \in 0..n
    BY <1>a
  <2>2. /\ bucket' = [b \in DOMAIN bucket |-> Refilled(b)] /\ time' = time + 1
        /\ ideal' = Least(ideal + DefaultLimits.rps, DefaultLimits.burst)
        /\ UNCHANGED <<kind, listed, admin, blocked, rule, current, lcall, shut, loose, hits>>
    BY <1>5 DEF LimitsTick
  <2>3. DOMAIN bucket = 1..n /\ DOMAIN bucket' = 1..n
    BY <2>1, <2>2
  <2>4. bucket' \in [1..n -> BucketRow]
    <3>1. \A b \in 1..n : Refilled(b) \in BucketRow
      BY <2>1, RefilledFacts
    <3>. QED  BY <2>2, <2>3, <3>1
  <2>5. ideal' \in Int
    BY <1>0, <2>2, LimitsConstants DEF Least
  <2>6. LimitsFrame
    <3>1. current' \in 0..n /\ time' \in Nat
      BY <1>0, <2>1, <2>2
    <3>. QED  BY <1>0, <2>1, <2>2, <2>4, <2>5, <3>1 DEF LimitsFrame
  <2>. QED  BY <2>2, <2>3, <2>6, LimitsCallsKeep
<1>6. CASE CleanupPlain \/ CleanupGeo
  <2>1. /\ current' = 0
        /\ UNCHANGED <<kind, listed, admin, blocked, rule, bucket, lcall, time, ideal, shut, hits>>
    BY <1>6 DEF CleanupPlain, CleanupGeo
  <2>2. loose' \in BOOLEAN
    BY <1>6 DEF CleanupPlain, CleanupGeo
  <2>3. \E n \in 0..MaxBuckets : bucket' \in [1..n -> BucketRow] /\ current' \in 0..n
    <3>1. PICK n \in 0..MaxBuckets : bucket \in [1..n -> BucketRow] /\ current \in 0..n
      BY <1>a
    <3>2. 0 \in 0..n
      BY <3>1, LimitsConstants
    <3>. QED  BY <2>1, <3>1, <3>2
  <2>4. LimitsFrame
    BY <1>0, <2>1, <2>2, <2>3 DEF LimitsFrame
  <2>. QED  BY <2>1, <2>4, LimitsCallsKeep
<1>7. CASE \E limits \in OtherLimits : SetCountryLimits(limits)
  <2>1. /\ UNCHANGED <<kind, listed, admin, blocked, current, bucket, lcall, time, ideal, shut, hits>>
        /\ loose' = TRUE
    BY <1>7 DEF SetCountryLimits
  <2>2. rule' \in [blocked : BOOLEAN, limits : LimitsRow]
    BY <1>0, <1>7, LimitsConstants DEF SetCountryLimits
  <2>3. LimitsFrame
    BY <1>0, <1>a, <2>1, <2>2 DEF LimitsFrame
  <2>. QED  BY <2>1, <2>3, LimitsCallsKeep
<1>8. ASSUME NEW a \in Admins, BlockCountry(a) \/ BlockRow(a) \/ UnblockRow(a)
      PROVE  LimitsTyped'
  <2>1. /\ UNCHANGED <<kind, listed, current, bucket, lcall, time, ideal, loose, hits>>
        /\ {blocked', shut'} \subseteq BOOLEAN
    BY <1>0, <1>8 DEF BlockCountry, BlockRow, UnblockRow
  <2>2. rule' \in [blocked : BOOLEAN, limits : LimitsRow]
    BY <1>0, <1>8 DEF BlockCountry, BlockRow, UnblockRow
  <2>3. admin' \in [Admins -> AdminState]
    BY <1>0, <1>8 DEF BlockCountry, BlockRow, UnblockRow, AdminState
  <2>4. LimitsFrame
    BY <1>0, <1>a, <2>1, <2>2, <2>3 DEF LimitsFrame
  <2>. QED  BY <2>1, <2>4, LimitsCallsKeep
<1>9. ASSUME NEW a \in Admins, UnblockCountry(a) PROVE LimitsTyped'
  <2>1. /\ UNCHANGED <<kind, listed, rule, current, bucket, time, ideal, loose, hits>>
        /\ blocked' = FALSE /\ shut' = FALSE
        /\ lcall' = [c \in LCalls |->
               IF lcall[c] = LIdle THEN LIdle ELSE [lcall[c] EXCEPT !.late = FALSE]]
    BY <1>0, <1>9 DEF UnblockCountry
  <2>2. admin' \in [Admins -> AdminState]
    BY <1>0, <1>9 DEF UnblockCountry, AdminState
  <2>3. ASSUME NEW c \in LCalls
        PROVE  /\ lcall'[c] \in LCallState \cup {LIdle}
               /\ lcall'[c].at = "take" => lcall[c].at = "take" /\ lcall'[c].bucket = lcall[c].bucket
    <3>1. CASE lcall[c] = LIdle
      BY <2>1, <3>1 DEF LIdle
    <3>2. CASE lcall[c] # LIdle
      <4>1. lcall[c] \in LCallState /\ lcall'[c] = [lcall[c] EXCEPT !.late = FALSE]
        BY <1>0, <2>1, <3>2
      <4>. QED  BY <4>1 DEF LCallState
    <3>. QED  BY <3>1, <3>2
  <2>4. LimitsFrame
    BY <1>0, <1>a, <2>1, <2>2 DEF LimitsFrame
  <2>5. lcall' \in [LCalls -> LCallState \cup {LIdle}]
    BY <2>1, <2>3
  <2>6. \A c \in LCalls : lcall'[c].at = "take" => lcall'[c].bucket \in DOMAIN bucket'
    BY <2>1, <2>3 DEF LimitsTyped, LAt
  <2>. QED  BY <2>4, <2>5, <2>6, LimitsKept
<1>10. CASE RestartLimits
  <2>1. /\ current' = 0 /\ bucket' = << >> /\ lcall' = [c \in LCalls |-> LIdle]
        /\ ideal' = DefaultLimits.burst /\ blocked' = listed
        /\ admin' = [a \in Admins |-> "idle"]
        /\ UNCHANGED <<kind, listed, rule, time, shut, loose, hits>>
    BY <1>0, <1>10 DEF RestartLimits
  <2>2. bucket' \in [1..0 -> BucketRow] /\ 0 \in 0..MaxBuckets /\ current' \in 0..0
    <3>1. MaxBuckets \in Nat /\ 0 \in 0..0
      BY LimitsConstants
    <3>2. 0 \in 0..MaxBuckets
      BY <3>1
    <3>. QED  BY <2>1, <3>1, <3>2, NoBuckets
  <2>3. LimitsFrame
    <3>1. {listed', blocked', shut', loose'} \subseteq BOOLEAN
      BY <1>0, <2>1
    <3>2. kind' \in {"plain", "geo"} /\ rule' \in [blocked : BOOLEAN, limits : LimitsRow]
      BY <1>0, <2>1
    <3>3. time' \in Nat /\ hits' \in Nat /\ ideal' \in Int
      BY <1>0, <2>1, LimitsConstants
    <3>4. admin' \in [Admins -> AdminState]
      BY <2>1 DEF AdminState
    <3>. QED  BY <2>2, <3>1, <3>2, <3>3, <3>4 DEF LimitsFrame
  <2>. QED  BY <2>1, <2>3, LimitsKept DEF LIdle
<1>. QED
  BY <1>1, <1>2, <1>3, <1>4, <1>5, <1>6, <1>7, <1>8, <1>9, <1>10
     DEF LimitsNext, AdminCall, Request, Allow

THEOREM LimitsTypedInvariant == LimitsSpec => []LimitsTyped
<1>. QED  BY LimitsTypedInit, LimitsTypedNext, PTL DEF LimitsSpec


\* Every request found the default limits, and no bucket but the client's.
TightCalls ==
    /\ rule.limits.rps = 0
    /\ \A c \in LCalls : lcall[c] # LIdle => lcall[c].limits = DefaultLimits
    /\ \A c \in LCalls : LAt(c, "take") => current # 0 /\ lcall[c].bucket = current

\* The bucket there is holds no more than the one bucket would, and has gained
\* rps at every step since a request last took from it.
TightBucket ==
    /\ ideal <= DefaultLimits.burst
    /\ current = 0 => ideal = DefaultLimits.burst
    /\ current # 0 =>
           /\ bucket[current].limits = DefaultLimits
           /\ bucket[current].tokens <= ideal
           /\ Least(DefaultLimits.burst, DefaultLimits.rps * bucket[current].idle)
                  <= bucket[current].tokens

LimitsInv == LimitsTyped /\ (loose \/ (TightCalls /\ TightBucket))

LEMMA IdleIsFull ==
    ASSUME NEW rps \in Nat, NEW burst \in Nat, NEW limit \in Nat, NEW idle \in Nat,
           burst <= rps * (limit + 1), idle > limit
    PROVE  burst <= rps * idle
<1>. DEFINE more == idle - (limit + 1)
<1>1. more \in Nat /\ idle = (limit + 1) + more
  OBVIOUS
<1>. HIDE DEF more
<1>2. rps * more \in Nat /\ rps * (limit + 1) \in Nat
  BY <1>1
<1>3. rps * ((limit + 1) + more) = rps * (limit + 1) + rps * more
  BY <1>1
<1>. QED  BY <1>1, <1>2, <1>3

LEMMA RefillKeepsUp ==
    ASSUME NEW rps \in Nat, NEW burst \in Nat, NEW idle \in Nat, NEW tokens \in Nat,
           Least(burst, rps * idle) <= tokens
    PROVE  Least(burst, rps * (idle + 1)) <= Least(tokens + rps, burst)
<1>. DEFINE gained == rps * idle
<1>1. rps * (idle + 1) = gained + rps /\ gained \in Nat
  OBVIOUS
<1>2. Least(burst, gained) <= tokens
  OBVIOUS
<1>. HIDE DEF gained
<1>. QED  BY <1>1, <1>2 DEF Least

LEMMA CurrentRow ==
    ASSUME LimitsTyped, current # 0
    PROVE  current \in DOMAIN bucket /\ bucket[current] \in BucketRow
<1>1. PICK n \in 0..MaxBuckets : /\ bucket \in [1..n -> BucketRow] /\ DOMAIN bucket = 1..n
                                 /\ current \in 0..n
  BY LimitsFacts
<1>2. current \in 1..n
  BY <1>1, LimitsConstants
<1>. QED  BY <1>1, <1>2

\* A request in flight keeps to the default limits and to the bucket there is.
LEMMA TightCallsMove ==
    ASSUME LimitsTyped, TightCalls, NEW c \in LCalls, NEW k, RequestMoves(c, k), rule' = rule,
           current' = current \/ current = 0, k.at = "take" => current' # 0
    PROVE  TightCalls'
<1>1. lcall \in [LCalls -> LCallState \cup {LIdle}] /\ rule.limits.rps = 0
  BY LimitsFacts DEF TightCalls
<1>2. lcall' = [lcall EXCEPT ![c] = k] /\ LIdle.at # "take"
  BY DEF RequestMoves, LIdle
<1>3. k # LIdle => k.limits = DefaultLimits
  <2>1. lcall[c] # LIdle => lcall[c].limits = DefaultLimits
    BY DEF TightCalls
  <2>. QED  BY <1>1, <2>1 DEF RequestMoves
<1>4. k.at = "take" => current' # 0 /\ k.bucket = current'
  BY DEF RequestMoves
<1>5. ASSUME NEW d \in LCalls
      PROVE  /\ lcall'[d] # LIdle => lcall'[d].limits = DefaultLimits
             /\ lcall'[d].at = "take" => current' # 0 /\ lcall'[d].bucket = current'
  <2>1. CASE d = c
    BY <1>1, <1>2, <1>3, <1>4, <2>1
  <2>2. CASE d # c
    <3>1. lcall'[d] = lcall[d]
      BY <1>1, <1>2, <2>2
    <3>2. /\ lcall[d] # LIdle => lcall[d].limits = DefaultLimits
          /\ lcall[d].at = "take" => current # 0 /\ lcall[d].bucket = current
      BY DEF TightCalls, LAt
    <3>. QED  BY <3>1, <3>2
  <2>. QED  BY <2>1, <2>2
<1>6. rule'.limits.rps = 0
  BY <1>1
<1>. QED  BY <1>5, <1>6 DEF TightCalls, LAt

LEMMA TightGetLimiter ==
    ASSUME LimitsTyped, TightCalls, TightBucket, NEW c \in LCalls, GetLimiter(c)
    PROVE  TightCalls' /\ TightBucket'
<1>1. /\ \E k : RequestMoves(c, k) /\ k.at = "take"
      /\ rule' = rule /\ ideal' = ideal /\ current' # 0 /\ lcall[c] # LIdle
      /\ IF current # 0
         THEN UNCHANGED <<bucket, current>>
         ELSE bucket'[current'] = [tokens |-> lcall[c].limits.burst, limits |-> lcall[c].limits,
                                   idle |-> 0]
  BY GetLimiterDoes
<1>2. TightCalls'
  <2>1. PICK k : RequestMoves(c, k) /\ k.at = "take"
    BY <1>1
  <2>2. current' = current \/ current = 0
    BY <1>1
  <2>. QED  BY <1>1, <2>1, <2>2, TightCallsMove
<1>3. TightBucket'
  <2>1. CASE current # 0
    BY <1>1, <2>1 DEF TightBucket
  <2>2. CASE current = 0
    <3>1. lcall[c].limits = DefaultLimits
      BY <1>1 DEF TightCalls
    <3>. DEFINE row == bucket'[current']
    <3>2. row.tokens = DefaultLimits.burst /\ row.limits = DefaultLimits /\ row.idle = 0
      BY <1>1, <2>2, <3>1
    <3>3. ideal' = DefaultLimits.burst
      BY <1>1, <2>2 DEF TightBucket
    <3>4. Least(DefaultLimits.burst, DefaultLimits.rps * 0) <= DefaultLimits.burst
      BY LimitsConstants DEF Least
    <3>. HIDE DEF row
    <3>5. /\ row.limits = DefaultLimits /\ row.tokens <= ideal'
          /\ Least(DefaultLimits.burst, DefaultLimits.rps * row.idle) <= row.tokens
          /\ ideal' <= DefaultLimits.burst
      BY <3>2, <3>3, <3>4, LimitsConstants
    <3>. QED  BY <1>1, <3>3, <3>5 DEF TightBucket, row
  <2>. QED  BY <2>1, <2>2
<1>. QED  BY <1>2, <1>3

LEMMA TightTakeToken ==
    ASSUME LimitsTyped, TightCalls, TightBucket, NEW c \in LCalls, TakeToken(c)
    PROVE  TightCalls' /\ TightBucket'
<1>. DEFINE b == lcall[c].bucket
<1>1. /\ lcall[c].at = "take" /\ bucket[b] \in BucketRow
      /\ UNCHANGED <<rule, current>>
      /\ bucket'[b].limits = bucket[b].limits /\ bucket'[b].idle = 0
      /\ IF bucket[b].tokens < 1
         THEN bucket'[b].tokens = bucket[b].tokens /\ ideal' = ideal
         ELSE bucket'[b].tokens = bucket[b].tokens - 1 /\ ideal' = ideal - 1
  BY TakeTokenDoes
<1>2. TightCalls'
  <2>1. PICK k : RequestMoves(c, k) /\ k.at # "take"
    BY RequestMovesOn
  <2>. QED  BY <1>1, <2>1, TightCallsMove
<1>3. current # 0 /\ b = current
  BY <1>1 DEF TightCalls, LAt
<1>. HIDE DEF b
<1>. DEFINE r == bucket[b]
            q == bucket'[b]
<1>4. /\ r.tokens \in Nat /\ ideal \in Int /\ ideal <= DefaultLimits.burst
      /\ r.limits = DefaultLimits /\ r.tokens <= ideal
  BY <1>1, <1>3, BucketRowFacts, LimitsFacts DEF TightBucket
<1>5. /\ q.limits = r.limits /\ q.idle = 0
      /\ IF r.tokens < 1 THEN q.tokens = r.tokens /\ ideal' = ideal
                         ELSE q.tokens = r.tokens - 1 /\ ideal' = ideal - 1
  BY <1>1
<1>. HIDE DEF r, q
<1>6. /\ q.tokens \in Nat /\ q.tokens <= ideal' /\ ideal' <= DefaultLimits.burst
      /\ q.limits = DefaultLimits
  BY <1>4, <1>5, LimitsConstants
<1>7. Least(DefaultLimits.burst, DefaultLimits.rps * q.idle) <= q.tokens
  <2>1. DefaultLimits.rps * q.idle = 0
    BY <1>5, LimitsConstants
  <2>. QED  BY <1>6, <2>1, LimitsConstants DEF Least
<1>8. current' = b /\ current' # 0
  BY <1>1, <1>3
<1>. QED  BY <1>2, <1>6, <1>7, <1>8 DEF TightBucket, q

LEMMA TightTick ==
    ASSUME LimitsTyped, TightCalls, TightBucket, LimitsTick
    PROVE  TightCalls' /\ TightBucket'
<1>1. /\ bucket' = [b \in DOMAIN bucket |-> Refilled(b)]
      /\ ideal' = Least(ideal + DefaultLimits.rps, DefaultLimits.burst)
      /\ UNCHANGED <<rule, lcall, current>>
  BY DEF LimitsTick
<1>2. TightCalls'
  BY <1>1 DEF TightCalls, LAt
<1>3. ideal \in Int /\ ideal <= DefaultLimits.burst
  BY LimitsFacts DEF TightBucket
<1>4. ideal' <= DefaultLimits.burst
  BY <1>1, <1>3, LimitsConstants DEF Least
<1>5. current = 0 => ideal' = DefaultLimits.burst
  BY <1>1, <1>3, LimitsConstants DEF Least, TightBucket
<1>6. ASSUME current # 0
      PROVE  /\ bucket'[current].limits = DefaultLimits
             /\ bucket'[current].tokens <= ideal'
             /\ Least(DefaultLimits.burst, DefaultLimits.rps * bucket'[current].idle)
                    <= bucket'[current].tokens
  <2>. DEFINE r == bucket[current]
              q == bucket'[current]
  <2>1. current \in DOMAIN bucket /\ r \in BucketRow
    BY <1>6, CurrentRow
  <2>2. q = Refilled(current)
    BY <1>1, <2>1
  <2>3. /\ q.limits = r.limits /\ q.idle = r.idle + 1
        /\ q.tokens = Least(r.tokens + r.limits.rps, r.limits.burst)
    BY <2>1, <2>2, RefilledFacts
  <2>4. /\ r.limits = DefaultLimits /\ r.tokens <= ideal
        /\ Least(DefaultLimits.burst, DefaultLimits.rps * r.idle) <= r.tokens
    BY <1>6 DEF TightBucket
  <2>5. r.tokens \in Nat /\ r.idle \in Nat
    BY <2>1, BucketRowFacts
  <2>. HIDE DEF r, q
  <2>6. q.tokens = Least(r.tokens + DefaultLimits.rps, DefaultLimits.burst)
    BY <2>3, <2>4
  <2>7. q.tokens <= ideal'
    BY <1>1, <1>3, <2>4, <2>5, <2>6, LimitsConstants DEF Least
  <2>8. Least(DefaultLimits.burst, DefaultLimits.rps * (r.idle + 1)) <= q.tokens
    <3>1. /\ DefaultLimits.rps \in Nat /\ DefaultLimits.burst \in Nat
          /\ r.idle \in Nat /\ r.tokens \in Nat
      BY <2>5, LimitsConstants
    <3>. QED  BY <2>4, <2>6, <3>1, RefillKeepsUp
  <2>. QED  BY <2>3, <2>4, <2>7, <2>8 DEF q
<1>. QED  BY <1>1, <1>2, <1>4, <1>5, <1>6 DEF TightBucket

\* A bucket is dropped only when the client could take its burst from it.
LEMMA TightCleanup ==
    ASSUME LimitsTyped, TightCalls, TightBucket, CleanupPlain \/ CleanupGeo, ~loose'
    PROVE  TightCalls' /\ TightBucket'
<1>1. /\ current # 0 /\ current' = 0 /\ ~Held
      /\ UNCHANGED <<rule, bucket, lcall, ideal>>
      /\ \/ bucket[current].tokens >= bucket[current].limits.burst
         \/ bucket[current].idle > IdleTime /\ RegainsBurst
  <2>1. CASE CleanupPlain
    <3>1. /\ bucket[current].tokens \in Nat
          /\ bucket[current].tokens = bucket[current].limits.burst
      BY <2>1, CurrentRow, BucketRowFacts DEF CleanupPlain
    <3>2. bucket[current].tokens >= bucket[current].limits.burst
      BY <3>1
    <3>. QED  BY <2>1, <3>2 DEF CleanupPlain
  <2>2. CASE CleanupGeo
    <3>1. bucket[current].tokens \in Nat /\ bucket[current].limits.burst \in Nat
      BY <2>2, CurrentRow, BucketRowFacts DEF CleanupGeo
    <3>2. RegainsBurst \/ ~(bucket[current].tokens < bucket[current].limits.burst)
      BY <2>2 DEF CleanupGeo
    <3>3. RegainsBurst \/ bucket[current].tokens >= bucket[current].limits.burst
      BY <3>1, <3>2
    <3>. QED  BY <2>2, <3>3 DEF CleanupGeo
  <2>. QED  BY <2>1, <2>2
<1>2. \A c \in LCalls : ~LAt(c, "take")
  BY <1>1 DEF TightCalls, Held
<1>3. TightCalls'
  BY <1>1, <1>2 DEF TightCalls, LAt
<1>. DEFINE r == bucket[current]
<1>4. /\ r.tokens \in Nat /\ r.idle \in Nat
  <2>1. r \in BucketRow
    BY <1>1, CurrentRow
  <2>. QED  BY <2>1, BucketRowFacts
<1>5. /\ r.limits = DefaultLimits /\ r.tokens <= ideal
      /\ Least(DefaultLimits.burst, DefaultLimits.rps * r.idle) <= r.tokens
      /\ r.tokens >= r.limits.burst \/ (r.idle > IdleTime /\ RegainsBurst)
      /\ ideal \in Int /\ ideal <= DefaultLimits.burst
  BY <1>1, LimitsFacts DEF TightBucket
<1>. HIDE DEF r
<1>6. DefaultLimits.burst <= r.tokens
  <2>1. CASE r.tokens >= r.limits.burst
    BY <1>4, <1>5, <2>1, LimitsConstants
  <2>2. CASE r.idle > IdleTime /\ RegainsBurst
    <3>1. /\ DefaultLimits.rps \in Nat /\ DefaultLimits.burst \in Nat /\ IdleTime \in Nat
          /\ DefaultLimits.burst <= DefaultLimits.rps * (IdleTime + 1)
      BY <2>2, LimitsConstants DEF RegainsBurst
    <3>2. DefaultLimits.burst <= DefaultLimits.rps * r.idle
      BY <1>4, <2>2, <3>1, IdleIsFull
    <3>3. DefaultLimits.rps * r.idle \in Nat
      BY <1>4, <3>1
    <3>4. Least(DefaultLimits.burst, DefaultLimits.rps * r.idle) = DefaultLimits.burst
      <4>. DEFINE gained == DefaultLimits.rps * r.idle
      <4>1. gained \in Nat /\ DefaultLimits.burst <= gained
        BY <3>2, <3>3
      <4>. HIDE DEF gained
      <4>2. Least(DefaultLimits.burst, gained) = DefaultLimits.burst
        BY <3>1, <4>1 DEF Least
      <4>. QED  BY <4>2 DEF gained
    <3>. QED  BY <1>5, <3>4
  <2>. QED  BY <1>5, <2>1, <2>2
<1>7. ideal = DefaultLimits.burst
  <2>1. r.tokens <= ideal /\ ideal \in Int /\ ideal <= DefaultLimits.burst
    BY <1>5
  <2>2. DefaultLimits.burst \in Nat
    BY LimitsConstants
  <2>. QED  BY <1>4, <1>6, <2>1, <2>2
<1>8. current' = 0 /\ ideal' = DefaultLimits.burst /\ ideal' <= DefaultLimits.burst
  BY <1>1, <1>5, <1>7
<1>. QED  BY <1>3, <1>8 DEF TightBucket


LEMMA LimitsTightNext ==
    ASSUME LimitsTyped, TightCalls, TightBucket, [LimitsNext]_limitVars, ~loose'
    PROVE  TightCalls' /\ TightBucket'
<1>1. CASE UNCHANGED <<rule, current, bucket, lcall, ideal>>
  BY <1>1 DEF TightCalls, TightBucket, LAt
<1>2. ASSUME NEW c \in LCalls, Arrive(c) \/ AskTable(c) \/ GetLimits(c)
      PROVE  TightCalls' /\ TightBucket'
  <2>1. PICK k : RequestMoves(c, k) /\ k.at # "take"
    BY <1>2, RequestMovesOn
  <2>2. UNCHANGED <<rule, current, bucket, ideal>>
    BY <1>2 DEF Arrive, AskTable, GetLimits
  <2>3. TightCalls'
    BY <2>1, <2>2, TightCallsMove
  <2>. QED  BY <2>2, <2>3 DEF TightBucket
<1>3. ASSUME NEW c \in LCalls, Allow(c) PROVE TightCalls' /\ TightBucket'
  BY <1>3, TightGetLimiter, TightTakeToken DEF Allow
<1>4. ASSUME NEW a \in Admins, BlockCountry(a) \/ BlockRow(a) \/ UnblockRow(a)
      PROVE  TightCalls' /\ TightBucket'
  <2>1. UNCHANGED <<current, bucket, lcall, ideal>> /\ rule'.limits = rule.limits
    <3>1. rule \in [blocked : BOOLEAN, limits : LimitsRow]
      BY LimitsFacts
    <3>. QED  BY <1>4, <3>1 DEF BlockCountry, BlockRow, UnblockRow
  <2>. QED  BY <2>1 DEF TightCalls, TightBucket, LAt
<1>5. ASSUME NEW a \in Admins, UnblockCountry(a) PROVE TightCalls' /\ TightBucket'
  <2>1. UNCHANGED <<rule, current, bucket, ideal>>
    BY <1>5 DEF UnblockCountry
  <2>2. lcall \in [LCalls -> LCallState \cup {LIdle}]
    BY LimitsFacts
  <2>3. ASSUME NEW c \in LCalls
        PROVE  \/ lcall'[c] = LIdle
               \/ /\ lcall[c] # LIdle /\ lcall'[c].at = lcall[c].at
                  /\ lcall'[c].limits = lcall[c].limits /\ lcall'[c].bucket = lcall[c].bucket
    <3>1. lcall'[c] = IF lcall[c] = LIdle THEN LIdle ELSE [lcall[c] EXCEPT !.late = FALSE]
      BY <1>5, <2>2 DEF UnblockCountry
    <3>2. CASE lcall[c] # LIdle
      <4>1. lcall[c] \in LCallState /\ lcall'[c] = [lcall[c] EXCEPT !.late = FALSE]
        BY <2>2, <3>1, <3>2
      <4>. QED  BY <3>2, <4>1 DEF LCallState
    <3>. QED  BY <3>1, <3>2
  <2>4. TightCalls'
    BY <2>1, <2>3 DEF TightCalls, LAt, LIdle
  <2>. QED  BY <2>1, <2>4 DEF TightBucket
<1>6. CASE RestartLimits
  <2>1. lcall \in [LCalls -> LCallState \cup {LIdle}]
    BY LimitsFacts
  <2>2. /\ current' = 0 /\ ideal' = DefaultLimits.burst /\ rule' = rule
        /\ \A c \in LCalls : lcall'[c] = LIdle
    BY <1>6, <2>1 DEF RestartLimits
  <2>3. TightCalls'
    BY <2>2 DEF TightCalls, LAt, LIdle
  <2>. QED  BY <2>2, <2>3, LimitsConstants DEF TightBucket
<1>7. CASE \E limits \in OtherLimits : SetCountryLimits(limits)
  BY <1>7 DEF SetCountryLimits
<1>8. CASE UNCHANGED limitVars
  BY <1>1, <1>8 DEF limitVars
<1>. QED
  BY <1>2, <1>3, <1>4, <1>5, <1>6, <1>7, <1>8, TightTick, TightCleanup
     DEF LimitsNext, AdminCall, Request

LEMMA LimitsLoosens ==
    ASSUME LimitsTyped, [LimitsNext]_limitVars, loose
    PROVE  loose'
<1>1. loose = TRUE
  BY LimitsFacts
<1>2. CASE UNCHANGED loose
  BY <1>1, <1>2
<1>3. CASE CleanupPlain \/ CleanupGeo \/ \E limits \in OtherLimits : SetCountryLimits(limits)
  BY <1>1, <1>3 DEF CleanupPlain, CleanupGeo, SetCountryLimits
<1>4. CASE LimitsTick \/ RestartLimits \/ \E a \in Admins : AdminCall(a)
  BY <1>2, <1>4
     DEF LimitsTick, RestartLimits, AdminCall, BlockCountry, BlockRow, UnblockCountry, UnblockRow
<1>5. ASSUME NEW c \in LCalls, Request(c) PROVE loose'
  BY <1>2, <1>5 DEF Request, Arrive, AskTable, GetLimits, Allow, GetLimiter, TakeToken
<1>6. CASE UNCHANGED limitVars
  BY <1>2, <1>6 DEF limitVars
<1>. QED  BY <1>3, <1>4, <1>5, <1>6 DEF LimitsNext

LEMMA LimitsInvInit == LimitsInit => LimitsInv
<1>. SUFFICES ASSUME LimitsInit PROVE LimitsInv
  OBVIOUS
<1>1. LimitsTyped
  BY LimitsTypedInit
<1>2. /\ current = 0 /\ ideal = DefaultLimits.burst /\ rule.limits.rps = 0
      /\ \A c \in LCalls : lcall[c] = LIdle
  BY DEF LimitsInit, NoRule
<1>3. TightCalls
  BY <1>2 DEF TightCalls, LAt, LIdle
<1>4. TightBucket
  BY <1>2, LimitsConstants DEF TightBucket
<1>. QED  BY <1>1, <1>3, <1>4 DEF LimitsInv

LEMMA LimitsInvNext == LimitsInv /\ [LimitsNext]_limitVars => LimitsInv'
BY LimitsTypedNext, LimitsTightNext, LimitsLoosens DEF LimitsInv

LEMMA LimitsInvImplies == LimitsInv => NoOverdraft
<1>. SUFFICES ASSUME LimitsTyped, TightCalls, TightBucket PROVE ideal >= 0
  BY DEF LimitsInv, NoOverdraft
<1>1. CASE current = 0
  BY <1>1, LimitsConstants DEF TightBucket
<1>2. CASE current # 0
  <2>1. bucket[current].tokens \in Nat
    BY <1>2, CurrentRow, BucketRowFacts
  <2>2. bucket[current].tokens <= ideal /\ ideal \in Int
    BY <1>2, LimitsFacts DEF TightBucket
  <2>. QED  BY <2>1, <2>2
<1>. QED  BY <1>1, <1>2

\* What keeps a request of a country that is blocked from its bucket.
LimitsShut ==
    /\ kind = "plain" => ~shut /\ \A a \in Admins : admin[a] = "idle"
    /\ shut => rule.blocked /\ \A a \in Admins : admin[a] # "unblock"
    /\ \A c \in LCalls : lcall[c] # LIdle /\ lcall[c].late => shut
    /\ ShutIsShut

LEMMA LimitsShutKept ==
    ASSUME LimitsShut, UNCHANGED <<kind, shut, lcall, admin>>, rule'.blocked = rule.blocked
    PROVE  LimitsShut'
BY DEF LimitsShut, ShutIsShut

LEMMA LimitsShutRequest ==
    ASSUME LimitsTyped, ~LMayFail, LimitsShut, NEW c \in LCalls, NEW k, RequestMoves(c, k),
           UNCHANGED <<kind, shut, rule, admin>>
    PROVE  LimitsShut'
<1>1. lcall \in [LCalls -> LCallState \cup {LIdle}]
  BY LimitsFacts
<1>2. lcall' = [lcall EXCEPT ![c] = k] /\ k \in LCallState \cup {LIdle}
  BY DEF RequestMoves
<1>3. /\ kind = "plain" => ~shut /\ \A a \in Admins : admin[a] = "idle"
      /\ shut => rule.blocked /\ \A a \in Admins : admin[a] # "unblock"
  BY DEF LimitsShut
<1>4. ASSUME k # LIdle
      PROVE  /\ k.late => shut
             /\ k.at \in {"limits", "bucket", "take"} => ~k.late
  <2>1. /\ IF lcall[c] = LIdle THEN k.late = shut ELSE k.late = lcall[c].late
        /\ \/ k.at = "table"
           \/ k.at = "limits" /\ ~rule.blocked
           \/ k.at = "bucket" /\ lcall[c] = LIdle /\ kind # "geo"
           \/ lcall[c].at \in {"limits", "bucket"}
    BY <1>4 DEF RequestMoves
  <2>2. /\ lcall[c] # LIdle /\ lcall[c].late => shut
        /\ lcall[c].at \in {"limits", "bucket"} => ~lcall[c].late /\ lcall[c] # LIdle
    BY DEF LimitsShut, ShutIsShut, LIdle
  <2>3. kind # "geo" => ~shut
    BY <1>3, LimitsFacts
  <2>4. k.late => shut
    BY <2>1, <2>2
  <2>5. CASE k.at = "table"
    BY <2>4, <2>5
  <2>6. CASE k.at = "limits" /\ ~rule.blocked
    BY <1>3, <2>4, <2>6
  <2>7. CASE k.at = "bucket" /\ lcall[c] = LIdle /\ kind # "geo"
    BY <2>3, <2>4, <2>7
  <2>8. CASE lcall[c].at \in {"limits", "bucket"}
    BY <2>1, <2>2, <2>4, <2>8
  <2>. QED  BY <2>1, <2>5, <2>6, <2>7, <2>8
<1>5. ASSUME NEW d \in LCalls
      PROVE  /\ lcall'[d] # LIdle /\ lcall'[d].late => shut
             /\ lcall'[d].at \in {"limits", "bucket", "take"} => ~lcall'[d].late
  <2>1. CASE d = c
    <3>1. lcall'[d] = k
      BY <1>1, <1>2, <2>1
    <3>2. k = LIdle => k.at = "idle"
      BY DEF LIdle
    <3>. QED  BY <1>4, <3>1, <3>2
  <2>2. CASE d # c
    <3>1. lcall'[d] = lcall[d]
      BY <1>1, <1>2, <2>2
    <3>. QED  BY <3>1 DEF LimitsShut, ShutIsShut
  <2>. QED  BY <2>1, <2>2
<1>. QED  BY <1>3, <1>5 DEF LimitsShut, ShutIsShut

LEMMA LimitsShutNext ==
    ASSUME LimitsTyped, ~LMayFail, LimitsShut, [LimitsNext]_limitVars
    PROVE  LimitsShut'
<1>0. /\ lcall \in [LCalls -> LCallState \cup {LIdle}]
      /\ rule \in [blocked : BOOLEAN, limits : LimitsRow]
      /\ admin \in [Admins -> AdminState]
  BY LimitsFacts
<1>1. ASSUME NEW c \in LCalls, Request(c) PROVE LimitsShut'
  <2>1. \E k : RequestMoves(c, k)
    BY <1>1, RequestMovesOn, GetLimiterDoes DEF Request, Allow
  <2>2. UNCHANGED <<kind, shut, rule, admin>>
    BY <1>1 DEF Request, Arrive, AskTable, GetLimits, Allow, GetLimiter, TakeToken
  <2>. QED  BY <2>1, <2>2, LimitsShutRequest
<1>2. ASSUME NEW a \in Admins, BlockCountry(a) \/ BlockRow(a) PROVE LimitsShut'
  <2>1. CASE BlockCountry(a)
    <3>1. /\ UNCHANGED <<kind, rule, shut, lcall>> /\ kind = "geo"
          /\ \A d \in Admins : admin'[d] \in {admin[d], "block"}
      BY <1>0, <2>1 DEF BlockCountry
    <3>. QED  BY <3>1 DEF LimitsShut, ShutIsShut
  <2>2. CASE BlockRow(a)
    <3>1. /\ UNCHANGED <<kind, lcall>> /\ rule'.blocked = TRUE
          /\ shut' = (shut \/ \A d \in Admins : admin[d] # "unblock")
          /\ \A d \in Admins : admin'[d] \in {admin[d], "idle"}
      BY <1>0, <2>2 DEF BlockRow
    <3>2. /\ \A d \in Admins : admin[d] # "unblock" => admin'[d] # "unblock"
          /\ shut => shut'
      BY <3>1
    <3>3. kind = "geo"
      BY <2>2, LimitsFacts DEF BlockRow, LimitsShut
    <3>. QED  BY <3>1, <3>2, <3>3 DEF LimitsShut, ShutIsShut
  <2>. QED  BY <1>2, <2>1, <2>2
<1>3. ASSUME NEW a \in Admins, UnblockCountry(a) \/ UnblockRow(a) PROVE LimitsShut'
  <2>1. CASE UnblockCountry(a)
    <3>1. /\ shut' = FALSE /\ kind = "geo" /\ kind' = kind
          /\ lcall' = [c \in LCalls |->
                 IF lcall[c] = LIdle THEN LIdle ELSE [lcall[c] EXCEPT !.late = FALSE]]
      BY <1>0, <2>1 DEF UnblockCountry
    <3>2. ASSUME NEW c \in LCalls
          PROVE  lcall'[c] = LIdle \/ lcall'[c].late = FALSE
      <4>1. CASE lcall[c] # LIdle
        <5>1. lcall[c] \in LCallState /\ lcall'[c] = [lcall[c] EXCEPT !.late = FALSE]
          BY <1>0, <3>1, <4>1
        <5>. QED  BY <5>1 DEF LCallState
      <4>. QED  BY <3>1, <4>1
    <3>. QED  BY <3>1, <3>2 DEF LimitsShut, ShutIsShut, LIdle
  <2>2. CASE UnblockRow(a)
    <3>1. ~shut /\ kind = "geo"
      BY <2>2, LimitsFacts DEF UnblockRow, LimitsShut
    <3>2. UNCHANGED <<kind, shut, lcall>>
      BY <2>2 DEF UnblockRow
    <3>. QED  BY <3>1, <3>2 DEF LimitsShut, ShutIsShut
  <2>. QED  BY <1>3, <2>1, <2>2
<1>4. CASE RestartLimits
  <2>1. /\ UNCHANGED <<kind, rule, shut>> /\ \A c \in LCalls : lcall'[c] = LIdle
        /\ \A a \in Admins : admin'[a] = "idle"
    BY <1>0, <1>4 DEF RestartLimits
  <2>. QED  BY <2>1 DEF LimitsShut, ShutIsShut, LIdle
<1>5. CASE \E limits \in OtherLimits : SetCountryLimits(limits)
  <2>1. rule'.blocked = rule.blocked /\ UNCHANGED <<kind, shut, lcall, admin>>
    BY <1>0, <1>5 DEF SetCountryLimits
  <2>. QED  BY <2>1, LimitsShutKept
<1>6. CASE LimitsTick \/ CleanupPlain \/ CleanupGeo \/ UNCHANGED limitVars
  <2>1. UNCHANGED <<kind, rule, shut, lcall, admin>>
    BY <1>6 DEF LimitsTick, CleanupPlain, CleanupGeo, limitVars
  <2>. QED  BY <2>1, LimitsShutKept
<1>. QED  BY <1>1, <1>2, <1>3, <1>4, <1>5, <1>6 DEF LimitsNext, AdminCall

(* The limiter's state always has its type: the bucket the map has and those *)
(* the requests hold are buckets that were made, and none holds more than    *)
(* its burst.                                                                *)
THEOREM LimitsTypeCorrect == LimitsSpec => []LimitsTypeOK
<1>1. LimitsTyped => LimitsTypeOK
  BY DEF LimitsTyped
<1>. QED  BY <1>1, LimitsTypedInvariant, PTL

(* However many requests run and whenever the cleanups come, no client      *)
(* takes more than one bucket would give it, unless its limits change, a     *)
(* cleanup drops a bucket that a request has just looked up, or the geo      *)
(* limiter's cleanup drops one that is not full: nothing holds of limits     *)
(* too slow to regain their burst in IdleTime from then on.                  *)
THEOREM OneBucketIsEnough == LimitsSpec => []NoOverdraft
<1>. QED  BY LimitsInvInit, LimitsInvNext, LimitsInvImplies, PTL DEF LimitsSpec

(* Where no statement fails, and besides, a country stays out from when a    *)
(* BlockCountry has returned, with no UnblockCountry under way, until one is *)
(* called, however many of these calls write the map and the table at the    *)
(* same time.                                                                *)
THEOREM LimitsHoldAlone ==
    ASSUME ~LMayFail
    PROVE  LimitsSpec => []LimitsHold
<1>1. LimitsInit => LimitsShut
  BY DEF LimitsInit, LimitsShut, ShutIsShut, LIdle
<1>2. LimitsTyped /\ LimitsShut /\ [LimitsNext]_limitVars => LimitsShut'
  BY LimitsShutNext
<1>3. NoOverdraft /\ LimitsShut => LimitsHold
  BY DEF LimitsShut, LimitsHold
<1>. QED  BY <1>1, <1>2, <1>3, LimitsTypedInvariant, OneBucketIsEnough, PTL DEF LimitsSpec

-----------------------------------------------------------------------------
(* Webhooks.  A delivery is in one place at a time: in what one Trigger has *)
(* still to offer, at one place of the channel, or with one worker; and it  *)
(* is posted by the worker that has taken it from there.  A hook's row does *)
(* not change between the query that found it and its deletion.             *)

Busy(w) == worker[w].at # "idle"

\* What Trigger found stays true of the hook while there is one.
Matches(d) ==
    /\ d[2] \in 1..Len(event)
    /\ hook[d[1]] # NoHook
    /\ Registered(d[1]) =>
          /\ hook[d[1]].type = event[d[2]].type
          /\ event[d[2]].address = NoAddress
                \/ hook[d[1]].filter \in {event[d[2]].address, NoAddress}

\* Where there is a delivery, somebody has found it due.
Known ==
    /\ \A g \in Triggers : trigger[g] \subseteq matched
    /\ \A i \in 1..Len(queue) : queue[i] \in matched
    /\ \A w \in Workers : Busy(w) => worker[w].d \in matched

OnePlace ==
    /\ \A g, k \in Triggers : g # k => trigger[g] \cap trigger[k] = {}
    /\ \A i, j \in 1..Len(queue) : queue[i] = queue[j] => i = j
    /\ \A w, x \in Workers : Busy(w) /\ Busy(x) /\ worker[w].d = worker[x].d => w = x
    /\ \A g \in Triggers, i \in 1..Len(queue) : queue[i] \notin trigger[g]
    /\ \A g \in Triggers, w \in Workers : Busy(w) => worker[w].d \notin trigger[g]
    /\ \A i \in 1..Len(queue), w \in Workers : Busy(w) => queue[i] # worker[w].d

PostsFit ==
    /\ \A d \in Deliveries :
          posts[d] <= 1 /\ log[d] <= posts[d] /\ (d \notin matched => posts[d] = 0)
    /\ \A g \in Triggers : \A d \in trigger[g] : posts[d] = 0
    /\ \A i \in 1..Len(queue) : posts[queue[i]] = 0
    /\ \A w \in Workers : Busy(w) =>
          /\ log[worker[w].d] = 0
          /\ posts[worker[w].d] = IF worker[w].at = "log" THEN 1 ELSE 0

WebhooksInv ==
    /\ WebhooksTypeOK
    /\ \A d \in matched : Matches(d)
    /\ Known
    /\ OnePlace
    /\ PostsFit

LEMMA WebhooksInvInit == WebhooksInit => WebhooksInv
<1>. SUFFICES ASSUME WebhooksInit PROVE WebhooksInv
  OBVIOUS
<1>1. \A w \in Workers : ~Busy(w)
  BY DEF WebhooksInit, Busy, WIdle
<1>2. Len(queue) = 0 /\ queue \in Seq(Deliveries) /\ event \in Seq([type : Types, address : Addresses \cup {NoAddress}])
  BY DEF WebhooksInit
<1>3. \A i : i \notin 1..Len(queue)
  BY <1>2
<1>4. Len(queue) <= QueueMax
  BY <1>2, WebhooksConstantsOK
<1>5. WebhooksTypeOK
  BY <1>2, <1>4 DEF WebhooksInit, WebhooksTypeOK
<1>6. Known /\ OnePlace /\ PostsFit
  BY <1>1, <1>3 DEF WebhooksInit, Known, OnePlace, PostsFit
<1>7. matched = {}
  BY DEF WebhooksInit
<1>. QED  BY <1>5, <1>6, <1>7 DEF WebhooksInv

\* What is known of the deliveries that are somewhere.
LEMMA DeliveryFacts ==
    ASSUME WebhooksInv
    PROVE  /\ matched \subseteq Deliveries
           /\ \A g \in Triggers : trigger[g] \subseteq Deliveries
           /\ Len(queue) \in Nat
           /\ \A i \in 1..Len(queue) : queue[i] \in Deliveries
           /\ \A w \in Workers : Busy(w) => worker[w].d \in Deliveries
           /\ \A d \in Deliveries : d[1] \in Hooks /\ d[2] \in Events
<1>1. \A w \in Workers : Busy(w) => worker[w].d \in Deliveries
  BY DEF WebhooksInv, WebhooksTypeOK, Busy, WIdle
<1>2. Len(queue) \in Nat /\ \A i \in 1..Len(queue) : queue[i] \in Deliveries
  BY DEF WebhooksInv, WebhooksTypeOK
<1>3. \A d \in Deliveries : d[1] \in Hooks /\ d[2] \in Events
  BY DEF Deliveries
<1>. QED  BY <1>1, <1>2, <1>3 DEF WebhooksInv, WebhooksTypeOK

LEMMA QueueAppended ==
    ASSUME NEW S, NEW q \in Seq(S), NEW d \in S, NEW q2, q2 = Append(q, d)
    PROVE  /\ q2 \in Seq(S) /\ Len(q2) = Len(q) + 1 /\ Len(q) \in Nat
           /\ \A i \in 1..Len(q2) : q2[i] = IF i = Len(q) + 1 THEN d ELSE q[i]
           /\ \A i \in 1..Len(q2) : i # Len(q) + 1 => i \in 1..Len(q)
OBVIOUS

LEMMA QueueTaken ==
    ASSUME NEW S, NEW q \in Seq(S), q # <<>>, NEW q2, q2 = Tail(q)
    PROVE  /\ q2 \in Seq(S) /\ Len(q2) = Len(q) - 1 /\ Len(q) \in Nat /\ Len(q) > 0
           /\ Head(q) = q[1] /\ Head(q) \in S
           /\ \A i \in 1..Len(q2) : q2[i] = q[i + 1] /\ i + 1 \in 1..Len(q) /\ i + 1 # 1
OBVIOUS

\* A row of webhooks appears, or goes for good.
LEMMA HookSteps ==
    ASSUME WebhooksInv, NEW h \in Hooks, NEW u \in Clients,
           \/ \E type \in Types, filter \in Addresses \cup {NoAddress} :
                 CreateWebhook(h, u, type, filter)
           \/ DeleteWebhook(h, u)
    PROVE  WebhooksInv'
<1>1. UNCHANGED <<trigger, queue, worker, event, log, matched, posts, lost, crashes>>
  BY DEF CreateWebhook, DeleteWebhook
<1>2. PICK row \in HookRow \cup {GoneHook} :
         /\ hook' = [hook EXCEPT ![h] = row]
         /\ hook[h] # NoHook => row = GoneHook
  BY DEF CreateWebhook, DeleteWebhook, HookRow, Registered
<1>3. hook' \in [Hooks -> HookRow \cup {NoHook, GoneHook}]
  BY <1>2 DEF WebhooksInv, WebhooksTypeOK
<1>4. \A k \in Hooks : hook'[k] = IF k = h THEN row ELSE hook[k]
  BY <1>2 DEF WebhooksInv, WebhooksTypeOK
<1>5. WebhooksTypeOK'
  BY <1>1, <1>3 DEF WebhooksInv, WebhooksTypeOK
<1>6. GoneHook # NoHook
  BY DEF GoneHook, NoHook
<1>7. \A d \in matched : Matches(d)'
  <2>. SUFFICES ASSUME NEW d \in matched PROVE Matches(d)'
    OBVIOUS
  <2>1. Matches(d) /\ d[1] \in Hooks
    BY DeliveryFacts DEF WebhooksInv
  <2>2. CASE d[1] = h
    <3>1. hook'[d[1]] = GoneHook
      BY <1>2, <1>4, <2>1, <2>2 DEF Matches
    <3>. QED  BY <1>1, <1>6, <2>1, <3>1 DEF Matches, Registered
  <2>3. CASE d[1] # h
    BY <1>1, <1>4, <2>1, <2>3 DEF Matches, Registered
  <2>. QED  BY <2>2, <2>3
<1>8. Known' /\ OnePlace' /\ PostsFit'
  BY <1>1 DEF WebhooksInv, Known, OnePlace, PostsFit, Busy
<1>. QED  BY <1>1, <1>5, <1>7, <1>8 DEF WebhooksInv

\* After a restart nothing is under way.
LEMMA CrashStep ==
    ASSUME WebhooksInv, CrashWebhooks
    PROVE  WebhooksInv'
<1>1. UNCHANGED <<hook, event, log, matched, posts>>
  BY DEF CrashWebhooks
<1>2. /\ trigger' = [g \in Triggers |-> {}] /\ queue' = <<>>
      /\ worker' = [w \in Workers |-> WIdle] /\ crashes' \in Nat
      /\ lost' \subseteq Deliveries
  BY DEF CrashWebhooks, WebhooksInv, WebhooksTypeOK
<1>3. /\ queue' \in Seq(Deliveries) /\ Len(queue') = 0 /\ Len(queue') <= QueueMax
      /\ \A i : i \notin 1..Len(queue')
  BY <1>2, WebhooksConstantsOK
<1>4. WebhooksTypeOK'
  BY <1>1, <1>2, <1>3 DEF WebhooksInv, WebhooksTypeOK
<1>5. \A w \in Workers : ~Busy(w)'
  BY <1>2 DEF Busy, WIdle
<1>6. \A d \in matched : Matches(d)'
  BY <1>1 DEF WebhooksInv, Matches, Registered
<1>7. Known' /\ OnePlace'
  BY <1>2, <1>3, <1>5 DEF Known, OnePlace
<1>8. PostsFit'
  BY <1>1, <1>2, <1>3, <1>5 DEF WebhooksInv, PostsFit
<1>. QED  BY <1>1, <1>4, <1>6, <1>7, <1>8 DEF WebhooksInv

\* An event: the hooks it concerns have deliveries no one has seen.
LEMMA TriggerQueryStep ==
    ASSUME WebhooksInv, NEW g \in Triggers, NEW type \in Types,
           NEW address \in Addresses \cup {NoAddress}, TriggerQuery(g, type, address)
    PROVE  WebhooksInv'
<1>1. /\ UNCHANGED <<hook, queue, worker, log, posts, lost, crashes>>
      /\ trigger[g] = {} /\ Len(event) < MaxEvents
      /\ event' = Append(event, [type |-> type, address |-> address])
  BY DEF TriggerQuery
<1>2. PICK n : n = Len(event) + 1
  OBVIOUS
<1>3. PICK due : /\ due = Concerns(type, address) \X {n}
                 /\ trigger' = [trigger EXCEPT ![g] = due] /\ matched' = matched \cup due
  BY <1>2 DEF TriggerQuery
<1>4. PICK ev : ev = event /\ ev \in Seq([type : Types, address : Addresses \cup {NoAddress}])
  BY DEF WebhooksInv, WebhooksTypeOK
<1>5. /\ event' \in Seq([type : Types, address : Addresses \cup {NoAddress}])
      /\ Len(event') = n /\ n \in 1..MaxEvents /\ Len(event) \in Nat
      /\ event'[n] = [type |-> type, address |-> address]
      /\ \A i \in 1..Len(event) : event'[i] = event[i]
  BY <1>1, <1>2, <1>4, WebhooksConstantsOK
<1>6. /\ due \subseteq Deliveries
      /\ \A d \in due : d[1] \in Concerns(type, address) /\ d[2] = n
  BY <1>3, <1>5 DEF Deliveries, Events, Concerns
<1>7. \A d \in matched : d \in Deliveries /\ d[2] \in 1..Len(event)
  BY DeliveryFacts DEF WebhooksInv, Matches
<1>8. matched \cap due = {}
  BY <1>2, <1>5, <1>6, <1>7
<1>9. \A k \in Triggers : trigger'[k] = IF k = g THEN due ELSE trigger[k]
  BY <1>3 DEF WebhooksInv, WebhooksTypeOK
<1>10. WebhooksTypeOK'
  <2>1. trigger' \in [Triggers -> SUBSET Deliveries] /\ matched' \subseteq Deliveries
    BY <1>3, <1>6, <1>7 DEF WebhooksInv, WebhooksTypeOK
  <2>. QED  BY <1>1, <1>5, <2>1 DEF WebhooksInv, WebhooksTypeOK
<1>11. \A d \in matched' : Matches(d)'
  <2>1. ASSUME NEW d \in matched PROVE Matches(d)'
    <3>1. Matches(d) /\ d[2] \in 1..Len(event) /\ d[2] \in 1..Len(event')
      BY <1>2, <1>5, <1>7 DEF WebhooksInv
    <3>2. event'[d[2]] = event[d[2]]
      BY <1>5, <3>1
    <3>. QED  BY <1>1, <3>1, <3>2 DEF Matches, Registered
  <2>2. ASSUME NEW d \in due PROVE Matches(d)'
    <3>1. /\ d[1] \in Concerns(type, address) /\ d[2] = n /\ n \in 1..Len(event')
          /\ event'[d[2]].type = type /\ event'[d[2]].address = address
      BY <1>5, <1>6
    <3>2. /\ hook[d[1]] # NoHook /\ hook[d[1]].type = type
          /\ address # NoAddress => hook[d[1]].filter \in {address, NoAddress}
      BY <3>1 DEF Concerns, Registered
    <3>. QED  BY <1>1, <3>1, <3>2 DEF Matches, Registered
  <2>. QED  BY <1>3, <2>1, <2>2
<1>12. Known'
  BY <1>1, <1>3, <1>9 DEF WebhooksInv, Known, Busy
<1>13. OnePlace'
  <2>1. \A k \in Triggers : k # g => trigger'[k] \cap due = {}
    BY <1>8, <1>9 DEF WebhooksInv, Known
  <2>2. \A i \in 1..Len(queue) : queue[i] \notin due
    BY <1>8 DEF WebhooksInv, Known
  <2>3. \A w \in Workers : Busy(w) => worker[w].d \notin due
    BY <1>8 DEF WebhooksInv, Known
  <2>. QED  BY <1>1, <1>9, <2>1, <2>2, <2>3 DEF WebhooksInv, OnePlace, Busy
<1>14. PostsFit'
  <2>1. \A d \in due : posts[d] = 0
    BY <1>6, <1>8 DEF WebhooksInv, PostsFit
  <2>. QED  BY <1>1, <1>3, <1>9, <2>1 DEF WebhooksInv, PostsFit, Busy
<1>. QED  BY <1>10, <1>11, <1>12, <1>13, <1>14 DEF WebhooksInv

\* A delivery goes into the channel, or is dropped.
LEMMA TriggerOfferStep ==
    ASSUME WebhooksInv, NEW g \in Triggers, NEW d \in Deliveries, TriggerOffer(g, d)
    PROVE  WebhooksInv'
<1>1. /\ UNCHANGED <<hook, worker, event, log, matched, posts, crashes>>
      /\ d \in trigger[g] /\ trigger' = [trigger EXCEPT ![g] = @ \ {d}]
  BY DEF TriggerOffer
<1>2. \A k \in Triggers : trigger'[k] = IF k = g THEN trigger[g] \ {d} ELSE trigger[k]
  BY <1>1 DEF WebhooksInv, WebhooksTypeOK
<1>3. /\ \A k \in Triggers : d \notin trigger'[k] /\ trigger'[k] \subseteq trigger[k]
      /\ \A i \in 1..Len(queue) : queue[i] # d
      /\ \A w \in Workers : Busy(w) => worker[w].d # d
      /\ d \in matched /\ posts[d] = 0
  BY <1>1, <1>2 DEF WebhooksInv, OnePlace, Known, PostsFit
<1>4. \A e \in matched : Matches(e)'
  BY <1>1 DEF WebhooksInv, Matches, Registered
<1>5. trigger' \in [Triggers -> SUBSET Deliveries]
  BY <1>1 DEF WebhooksInv, WebhooksTypeOK
<1>6. CASE Len(queue) < QueueMax /\ queue' = Append(queue, d) /\ UNCHANGED lost
  <2>1. PICK q : q = queue /\ q \in Seq(Deliveries)
    BY DEF WebhooksInv, WebhooksTypeOK
  <2>2. /\ queue' \in Seq(Deliveries) /\ Len(queue') = Len(queue) + 1 /\ Len(queue) \in Nat
        /\ \A i \in 1..Len(queue') : queue'[i] = IF i = Len(queue) + 1 THEN d ELSE queue[i]
        /\ \A i \in 1..Len(queue') : i # Len(queue) + 1 => i \in 1..Len(queue)
    BY <1>6, <2>1, QueueAppended
  <2>3. Len(queue') <= QueueMax
    BY <1>6, <2>2, WebhooksConstantsOK
  <2>4. WebhooksTypeOK'
    BY <1>1, <1>5, <1>6, <2>2, <2>3 DEF WebhooksInv, WebhooksTypeOK
  <2>5. Known'
    BY <1>1, <1>3, <2>2 DEF WebhooksInv, Known, Busy
  <2>6. OnePlace'
    <3>1. \A k, m \in Triggers : k # m => trigger'[k] \cap trigger'[m] = {}
      BY <1>3 DEF WebhooksInv, OnePlace
    <3>2. \A i, j \in 1..Len(queue') : queue'[i] = queue'[j] => i = j
      BY <1>3, <2>2 DEF WebhooksInv, OnePlace
    <3>3. \A k \in Triggers, i \in 1..Len(queue') : queue'[i] \notin trigger'[k]
      BY <1>3, <2>2 DEF WebhooksInv, OnePlace
    <3>4. \A i \in 1..Len(queue'), w \in Workers : Busy(w) => queue'[i] # worker[w].d
      BY <1>3, <2>2 DEF WebhooksInv, OnePlace
    <3>. QED  BY <1>1, <1>3, <3>1, <3>2, <3>3, <3>4 DEF WebhooksInv, OnePlace, Busy
  <2>7. PostsFit'
    BY <1>1, <1>3, <2>2 DEF WebhooksInv, PostsFit, Busy
  <2>. QED  BY <1>1, <1>4, <2>4, <2>5, <2>6, <2>7 DEF WebhooksInv
<1>7. CASE lost' = lost \cup {d} /\ UNCHANGED queue
  <2>1. WebhooksTypeOK'
    BY <1>1, <1>5, <1>7 DEF WebhooksInv, WebhooksTypeOK
  <2>2. Known' /\ OnePlace' /\ PostsFit'
    BY <1>1, <1>3, <1>7 DEF WebhooksInv, Known, OnePlace, PostsFit, Busy
  <2>. QED  BY <1>1, <1>4, <2>1, <2>2 DEF WebhooksInv
<1>. QED  BY <1>6, <1>7 DEF TriggerOffer

\* What a worker that is at it holds, and what is left when it stops.
LEMMA WorkerAt ==
    ASSUME WebhooksInv, NEW w \in Workers, worker[w].at \in {"read", "post", "log"}
    PROVE  \E d \in Deliveries :
              /\ Busy(w) /\ worker[w] = [at |-> worker[w].at, d |-> d] /\ worker[w].d = d
              /\ d \in matched /\ log[d] = 0
              /\ posts[d] = IF worker[w].at = "log" THEN 1 ELSE 0
              /\ \A g \in Triggers : d \notin trigger[g]
              /\ \A i \in 1..Len(queue) : queue[i] # d
              /\ \A x \in Workers : x # w /\ Busy(x) => worker[x].d # d
<1>1. Busy(w) /\ worker[w] \in [at : {"read", "post", "log"}, d : Deliveries]
  BY DEF Busy, WIdle, WebhooksInv, WebhooksTypeOK
<1>. QED  BY <1>1 DEF WebhooksInv, Known, OnePlace, PostsFit

\* A worker goes on, or stops; nothing else that has a place moves.
LEMMA WorkerMoves ==
    ASSUME WebhooksInv, NEW w \in Workers, NEW r \in {WIdle} \cup [at : {"post", "log"}, d : Deliveries],
           worker' = [worker EXCEPT ![w] = r],
           Busy(w), r = WIdle \/ r.d = worker[w].d,
           UNCHANGED <<hook, trigger, queue, event, matched, crashes>>,
           lost' \subseteq Deliveries
    PROVE  /\ (log' \in [Deliveries -> Nat] /\ posts' \in [Deliveries -> Nat]) => WebhooksTypeOK'
           /\ \A d \in matched' : Matches(d)'
           /\ Known' /\ OnePlace'
           /\ \A x \in Workers : worker'[x] = IF x = w THEN r ELSE worker[x]
<1>1. \A x \in Workers : worker'[x] = IF x = w THEN r ELSE worker[x]
  BY DEF WebhooksInv, WebhooksTypeOK
<1>2. \A x \in Workers : Busy(x)' => Busy(x) /\ worker'[x].d = worker[x].d
  BY <1>1 DEF Busy, WIdle
<1>3. \A d \in matched' : Matches(d)'
  BY DEF WebhooksInv, Matches, Registered
<1>4. Known' /\ OnePlace'
  BY <1>2 DEF WebhooksInv, Known, OnePlace
<1>5. worker' \in [Workers -> {WIdle} \cup [at : {"read", "post", "log"}, d : Deliveries]]
  BY DEF WebhooksInv, WebhooksTypeOK
<1>6. (log' \in [Deliveries -> Nat] /\ posts' \in [Deliveries -> Nat]) => WebhooksTypeOK'
  BY <1>5 DEF WebhooksInv, WebhooksTypeOK
<1>. QED  BY <1>1, <1>3, <1>4, <1>6

LEMMA TakeStep ==
    ASSUME WebhooksInv, NEW w \in Workers, Take(w)
    PROVE  WebhooksInv'
<1>1. /\ UNCHANGED <<hook, trigger, event, log, matched, posts, lost, crashes>>
      /\ worker[w] = WIdle /\ queue # <<>> /\ queue' = Tail(queue)
  BY DEF Take
<1>2. PICK q : q = queue /\ q \in Seq(Deliveries)
  BY DEF WebhooksInv, WebhooksTypeOK
<1>3. PICK d : d = Head(queue)
  OBVIOUS
<1>4. /\ queue' \in Seq(Deliveries) /\ Len(queue') = Len(queue) - 1 /\ Len(queue) \in Nat
      /\ Len(queue) > 0 /\ d = queue[1] /\ d \in Deliveries
      /\ \A i \in 1..Len(queue') :
            queue'[i] = queue[i + 1] /\ i + 1 \in 1..Len(queue) /\ i + 1 # 1
  BY <1>1, <1>2, <1>3, QueueTaken
<1>5. PICK r : /\ r = [at |-> "read", d |-> d] /\ r.at = "read" /\ r.d = d
               /\ worker' = [worker EXCEPT ![w] = r]
  BY <1>3 DEF Take
<1>6. \A x \in Workers : worker'[x] = IF x = w THEN r ELSE worker[x]
  BY <1>5 DEF WebhooksInv, WebhooksTypeOK
<1>7. ~Busy(w) /\ \A x \in Workers : x # w => Busy(x)' = Busy(x) /\ worker'[x] = worker[x]
  BY <1>1, <1>6 DEF Busy, WIdle
<1>8. 1 \in 1..Len(queue)
  BY <1>4
<1>9. /\ d \in matched /\ posts[d] = 0 /\ log[d] = 0
      /\ \A k \in Triggers : d \notin trigger[k]
      /\ \A x \in Workers : Busy(x) => worker[x].d # d
      /\ \A i \in 1..Len(queue') : queue'[i] # d
  <2>1. /\ d \in matched /\ posts[d] = 0 /\ \A k \in Triggers : d \notin trigger[k]
        /\ \A x \in Workers : Busy(x) => worker[x].d # d
    BY <1>4, <1>8 DEF WebhooksInv, Known, OnePlace, PostsFit
  <2>2. log[d] <= posts[d] /\ log[d] \in Nat
    BY <1>4 DEF WebhooksInv, WebhooksTypeOK, PostsFit
  <2>3. \A i \in 1..Len(queue') : queue'[i] # d
    BY <1>4, <1>8 DEF WebhooksInv, OnePlace
  <2>. QED  BY <2>1, <2>2, <2>3
<1>10. WebhooksTypeOK'
  <2>1. worker' \in [Workers -> {WIdle} \cup [at : {"read", "post", "log"}, d : Deliveries]]
    BY <1>4, <1>5 DEF WebhooksInv, WebhooksTypeOK
  <2>2. Len(queue') <= QueueMax
    BY <1>4, WebhooksConstantsOK DEF WebhooksInv, WebhooksTypeOK
  <2>. QED  BY <1>1, <1>4, <2>1, <2>2 DEF WebhooksInv, WebhooksTypeOK
<1>11. \A e \in matched : Matches(e)'
  BY <1>1 DEF WebhooksInv, Matches, Registered
<1>12. Known'
  BY <1>1, <1>4, <1>5, <1>6, <1>7, <1>9 DEF WebhooksInv, Known
<1>13. OnePlace'
  <2>1. \A i, j \in 1..Len(queue') : queue'[i] = queue'[j] => i = j
    <3>1. ASSUME NEW i \in 1..Len(queue'), NEW j \in 1..Len(queue'), queue'[i] = queue'[j]
          PROVE  i + 1 = j + 1
      <4>1. /\ i + 1 \in 1..Len(queue) /\ j + 1 \in 1..Len(queue)
            /\ queue[i + 1] = queue[j + 1]
        BY <1>4, <3>1
      <4>2. \A a, b \in 1..Len(queue) : queue[a] = queue[b] => a = b
        BY DEF WebhooksInv, OnePlace
      <4>. QED  BY <4>1, <4>2
    <3>. QED  BY <1>4, <3>1
  <2>2. \A k \in Triggers, i \in 1..Len(queue') : queue'[i] \notin trigger[k]
    BY <1>4 DEF WebhooksInv, OnePlace
  <2>3. \A x, y \in Workers : Busy(x)' /\ Busy(y)' /\ worker'[x].d = worker'[y].d => x = y
    BY <1>5, <1>6, <1>7, <1>9 DEF WebhooksInv, OnePlace
  <2>4. \A k \in Triggers, x \in Workers : Busy(x)' => worker'[x].d \notin trigger[k]
    BY <1>5, <1>6, <1>7, <1>9 DEF WebhooksInv, OnePlace
  <2>5. \A i \in 1..Len(queue'), x \in Workers : Busy(x)' => queue'[i] # worker'[x].d
    BY <1>4, <1>5, <1>6, <1>7, <1>9 DEF WebhooksInv, OnePlace
  <2>. QED  BY <1>1, <2>1, <2>2, <2>3, <2>4, <2>5 DEF WebhooksInv, OnePlace
<1>14. PostsFit'
  BY <1>1, <1>4, <1>5, <1>6, <1>7, <1>9 DEF WebhooksInv, PostsFit
<1>. QED  BY <1>1, <1>10, <1>11, <1>12, <1>13, <1>14 DEF WebhooksInv

LEMMA RereadStep ==
    ASSUME WebhooksInv, NEW w \in Workers, Reread(w)
    PROVE  WebhooksInv'
<1>1. /\ worker[w].at = "read"
      /\ UNCHANGED <<hook, trigger, queue, event, log, matched, posts, crashes>>
  BY DEF Reread
<1>2. PICK d \in Deliveries :
         /\ Busy(w) /\ worker[w] = [at |-> "read", d |-> d] /\ worker[w].d = d
         /\ log[d] = 0 /\ posts[d] = 0
  BY <1>1, WorkerAt
<1>3. PICK r \in {WIdle} \cup [at : {"post"}, d : {d}] :
         worker' = [worker EXCEPT ![w] = r] /\ lost' \subseteq Deliveries
  <2>1. [worker[w] EXCEPT !.at = "post"] = [at |-> "post", d |-> d]
    BY <1>2
  <2>. QED  BY <1>2, <2>1 DEF Reread, WebhooksInv, WebhooksTypeOK
<1>4. r = WIdle \/ (r.at = "post" /\ r.d = d)
  OBVIOUS
<1>5. r \in {WIdle} \cup [at : {"post", "log"}, d : Deliveries]
  BY <1>2, <1>3
<1>6. log' \in [Deliveries -> Nat] /\ posts' \in [Deliveries -> Nat]
  BY <1>1 DEF WebhooksInv, WebhooksTypeOK
<1>7. /\ WebhooksTypeOK' /\ Known' /\ OnePlace' /\ \A e \in matched' : Matches(e)'
      /\ \A x \in Workers : worker'[x] = IF x = w THEN r ELSE worker[x]
  BY <1>1, <1>2, <1>3, <1>4, <1>5, <1>6, WorkerMoves
<1>8. PostsFit'
  BY <1>1, <1>2, <1>4, <1>7 DEF WebhooksInv, PostsFit, Busy, WIdle
<1>. QED  BY <1>7, <1>8 DEF WebhooksInv

LEMMA PostStep ==
    ASSUME WebhooksInv, NEW w \in Workers, Post(w)
    PROVE  WebhooksInv'
<1>1. /\ worker[w].at = "post"
      /\ UNCHANGED <<hook, trigger, queue, event, log, matched, lost, crashes>>
  BY DEF Post
<1>2. PICK d \in Deliveries :
         /\ Busy(w) /\ worker[w] = [at |-> "post", d |-> d] /\ worker[w].d = d
         /\ d \in matched /\ log[d] = 0 /\ posts[d] = 0
         /\ \A g \in Triggers : d \notin trigger[g]
         /\ \A i \in 1..Len(queue) : queue[i] # d
         /\ \A x \in Workers : x # w /\ Busy(x) => worker[x].d # d
  BY <1>1, WorkerAt
<1>3. PICK r : /\ r = [at |-> "log", d |-> d] /\ r.at = "log" /\ r.d = d
               /\ worker' = [worker EXCEPT ![w] = r]
  <2>1. [worker[w] EXCEPT !.at = "log"] = [at |-> "log", d |-> d]
    BY <1>2
  <2>. QED  BY <2>1 DEF Post
<1>4. /\ posts' \in [Deliveries -> Nat] /\ log' \in [Deliveries -> Nat]
      /\ \A e \in Deliveries : posts'[e] = IF e = d THEN 1 ELSE posts[e]
  BY <1>1, <1>2 DEF Post, WebhooksInv, WebhooksTypeOK
<1>5. lost' \subseteq Deliveries
  BY <1>1 DEF WebhooksInv, WebhooksTypeOK
<1>6. r \in {WIdle} \cup [at : {"post", "log"}, d : Deliveries]
  BY <1>3
<1>7. /\ WebhooksTypeOK' /\ Known' /\ OnePlace' /\ \A e \in matched' : Matches(e)'
      /\ \A x \in Workers : worker'[x] = IF x = w THEN r ELSE worker[x]
  BY <1>1, <1>2, <1>3, <1>4, <1>5, <1>6, WorkerMoves
<1>8. PostsFit'
  <2>1. \A e \in Deliveries :
           posts'[e] <= 1 /\ log'[e] <= posts'[e] /\ (e \notin matched => posts'[e] = 0)
    BY <1>1, <1>2, <1>4 DEF WebhooksInv, PostsFit
  <2>2. /\ \A g \in Triggers : \A e \in trigger[g] : posts'[e] = 0
        /\ \A i \in 1..Len(queue) : posts'[queue[i]] = 0
    BY <1>2, <1>4, DeliveryFacts DEF WebhooksInv, PostsFit
  <2>3. ASSUME NEW x \in Workers, Busy(x)'
        PROVE  /\ log'[worker'[x].d] = 0
               /\ posts'[worker'[x].d] = IF worker'[x].at = "log" THEN 1 ELSE 0
    <3>1. CASE x = w
      BY <1>1, <1>2, <1>3, <1>4, <1>7, <3>1
    <3>2. CASE x # w
      <4>1. Busy(x) /\ worker'[x] = worker[x] /\ worker[x].d \in Deliveries /\ worker[x].d # d
        BY <1>2, <1>7, <2>3, <3>2, DeliveryFacts DEF Busy
      <4>. QED  BY <1>1, <1>4, <4>1 DEF WebhooksInv, PostsFit
    <3>. QED  BY <3>1, <3>2
  <2>. QED  BY <1>1, <2>1, <2>2, <2>3 DEF PostsFit
<1>. QED  BY <1>7, <1>8 DEF WebhooksInv

LEMMA LogStep ==
    ASSUME WebhooksInv, NEW w \in Workers, LogDelivery(w)
    PROVE  WebhooksInv'
<1>1. /\ worker[w].at = "log" /\ worker' = [worker EXCEPT ![w] = WIdle]
      /\ UNCHANGED <<hook, trigger, queue, event, matched, posts, lost, crashes>>
  BY DEF LogDelivery
<1>2. PICK d \in Deliveries :
         /\ Busy(w) /\ worker[w].d = d /\ log[d] = 0 /\ posts[d] = 1
         /\ \A x \in Workers : x # w /\ Busy(x) => worker[x].d # d
  BY <1>1, WorkerAt
<1>3. /\ posts' \in [Deliveries -> Nat] /\ log' \in [Deliveries -> Nat]
      /\ log'[d] \in {0, 1} /\ \A e \in Deliveries : e # d => log'[e] = log[e]
  <2>1. log' = [log EXCEPT ![d] = log[d] + 1] \/ log' = log
    BY <1>2 DEF LogDelivery
  <2>. QED  BY <1>1, <1>2, <2>1 DEF WebhooksInv, WebhooksTypeOK
<1>4. lost' \subseteq Deliveries
  BY <1>1 DEF WebhooksInv, WebhooksTypeOK
<1>5. /\ WebhooksTypeOK' /\ Known' /\ OnePlace' /\ \A e \in matched' : Matches(e)'
      /\ \A x \in Workers : worker'[x] = IF x = w THEN WIdle ELSE worker[x]
  <2>1. PICK r : r = WIdle /\ r \in {WIdle} \cup [at : {"post", "log"}, d : Deliveries]
    OBVIOUS
  <2>2. worker' = [worker EXCEPT ![w] = r]
    BY <1>1, <2>1
  <2>. QED  BY <1>1, <1>2, <1>3, <1>4, <2>1, <2>2, WorkerMoves
<1>6. PostsFit'
  <2>1. \A e \in Deliveries :
           posts[e] <= 1 /\ log'[e] <= posts[e] /\ (e \notin matched => posts[e] = 0)
    BY <1>2, <1>3 DEF WebhooksInv, PostsFit
  <2>2. \A x \in Workers : Busy(x)' =>
           x # w /\ Busy(x) /\ worker'[x] = worker[x] /\ worker[x].d \in Deliveries
    BY <1>5, DeliveryFacts DEF Busy, WIdle
  <2>3. ASSUME NEW x \in Workers, Busy(x)'
        PROVE  /\ log'[worker'[x].d] = 0
               /\ posts[worker'[x].d] = IF worker'[x].at = "log" THEN 1 ELSE 0
    BY <1>2, <1>3, <2>2, <2>3 DEF WebhooksInv, PostsFit
  <2>. QED  BY <1>1, <2>1, <2>3 DEF WebhooksInv, PostsFit
<1>. QED  BY <1>5, <1>6 DEF WebhooksInv

LEMMA WebhooksInvNext == WebhooksInv /\ [WebhooksNext]_webhookVars => WebhooksInv'
<1>. SUFFICES ASSUME WebhooksInv, [WebhooksNext]_webhookVars PROVE WebhooksInv'
  OBVIOUS
<1>1. CASE UNCHANGED webhookVars
  <2>1. UNCHANGED <<hook, trigger, queue, worker, event, log, matched, posts, lost, crashes>>
    BY <1>1 DEF webhookVars
  <2>2. WebhooksTypeOK' /\ \A d \in matched' : Matches(d)'
    BY <2>1 DEF WebhooksInv, WebhooksTypeOK, Matches, Registered
  <2>3. Known' /\ OnePlace' /\ PostsFit'
    BY <2>1 DEF WebhooksInv, Known, OnePlace, PostsFit, Busy
  <2>. QED  BY <2>2, <2>3 DEF WebhooksInv
<1>2. ASSUME NEW g \in Triggers, Trigger(g) PROVE WebhooksInv'
  BY <1>2, TriggerQueryStep, TriggerOfferStep DEF Trigger, Offer
<1>3. ASSUME NEW w \in Workers, Work(w) PROVE WebhooksInv'
  BY <1>3, TakeStep, RereadStep, PostStep, LogStep DEF Work
<1>. QED  BY <1>1, <1>2, <1>3, CrashStep, HookSteps DEF WebhooksNext

\* WebhooksInv holds in every reachable state.
THEOREM WebhooksInvariant == WebhooksSpec => []WebhooksInv
<1>. QED  BY WebhooksInvInit, WebhooksInvNext, PTL DEF WebhooksSpec

(* Rows, the channel and the workers are well typed, whatever interleaves,  *)
(* fails or restarts; above all the channel holds no more than its capacity *)
(* (Trigger, worker).                                                       *)
THEOREM WebhooksTypeCorrect == WebhooksSpec => []WebhooksTypeOK
<1>1. WebhooksInv => WebhooksTypeOK
  BY DEF WebhooksInv
<1>. QED  BY <1>1, WebhooksInvariant, PTL

(* For any number of hooks, Triggers, workers and restarts and any capacity *)
(* of the channel, no delivery is posted twice, none is logged that was not *)
(* posted, and a hook that is still there was posted to only with an event  *)
(* of its type that its filter lets through (Trigger, worker, deliver,      *)
(* logDelivery).  This is the safety half of HooksServed.                   *)
THEOREM HooksPostedOnce == WebhooksSpec => []PostedOnce
<1>1. WebhooksInv => PostedOnce
  <2>. SUFFICES ASSUME WebhooksInv, NEW d \in Deliveries
                PROVE  /\ posts[d] <= 1 /\ log[d] <= posts[d]
                       /\ posts[d] = 1 /\ Registered(d[1]) =>
                            /\ hook[d[1]].type = event[d[2]].type
                            /\ event[d[2]].address = NoAddress
                                  \/ hook[d[1]].filter \in {event[d[2]].address, NoAddress}
    BY DEF PostedOnce
  <2>1. /\ posts[d] <= 1 /\ log[d] <= posts[d] /\ (d \notin matched => posts[d] = 0)
        /\ (d \in matched => Matches(d))
    BY DEF WebhooksInv, PostsFit
  <2>. QED  BY <2>1 DEF Matches
<1>. QED  BY <1>1, WebhooksInvariant, PTL

-----------------------------------------------------------------------------
(* Migrations.  As long as no MigrateTo has failed, what is applied is      *)
(* closed downwards between two calls, and within a call that goes up or    *)
(* down it will be when the loop ends.  Migrate takes the lowest first, so  *)
(* that it leaves no gap wherever it stops, and the highest comes last.     *)

\* There is a highest version.
LEMMA VersionsAreBounded == \E n \in Nat : Numbers \subseteq 1..n
<1>1. PICK k : k = Len(Versions)
  OBVIOUS
<1>2. k \in Nat /\ \A i \in 1..k : Versions[i] \in Nat /\ Versions[i] > 0
  BY <1>1, MigrationsConstantsOK
<1>. DEFINE Bounded(j) == \E n \in Nat : \A i \in 1..j : Versions[i] <= n
            T == {j \in 0..k : ~Bounded(j)}
<1>3. T = {}
  <2>. SUFFICES ASSUME T # {} PROVE FALSE
    OBVIOUS
  <2>1. PICK j \in T : \A h \in T : j <= h
    <3>1. T \subseteq Nat
      BY <1>2
    <3>. HIDE DEF T
    <3>. QED  BY <3>1, SmallestIn
  <2>2. j \in 0..k /\ ~Bounded(j)
    OBVIOUS
  <2>3. j # 0
    <3>1. \A i \in 1..0 : Versions[i] <= 0
      OBVIOUS
    <3>. QED  BY <2>2, <3>1
  <2>4. j - 1 \in 0..k /\ j - 1 \notin T /\ j \in 1..k /\ j \in Nat
    <3>1. j \in 0..k /\ j # 0
      BY <2>2, <2>3
    <3>2. j - 1 \in 0..k /\ j \in 1..k /\ j \in Nat /\ ~(j <= j - 1)
      BY <1>2, <3>1
    <3>. HIDE DEF T
    <3>. QED  BY <2>1, <3>2
  <2>5. PICK n \in Nat : \A i \in 1..(j - 1) : Versions[i] <= n
    BY <2>4
  <2>. HIDE DEF T
  <2>6. PICK w \in Nat : w = Versions[j]
    BY <1>2, <2>4
  <2>7. \A i \in 1..j : Versions[i] <= n + w
    <3>1. ASSUME NEW i \in 1..j PROVE Versions[i] <= n + w
      <4>1. CASE i = j
        BY <2>6, <4>1
      <4>2. CASE i # j
        <5>1. i \in 1..(j - 1) /\ i \in 1..k
          <6>1. j \in 1..k /\ k \in Nat
            BY <1>2, <2>4
          <6>. QED  BY <4>2, <6>1
        <5>2. Versions[i] <= n /\ Versions[i] \in Nat
          BY <1>2, <2>5, <5>1
        <5>. QED  BY <5>2
      <4>. QED  BY <4>1, <4>2
    <3>. QED  BY <3>1
  <2>8. n + w \in Nat
    OBVIOUS
  <2>. QED  BY <2>2, <2>7, <2>8
<1>4. k \in 0..k
  BY <1>2
<1>5. PICK n \in Nat : \A i \in 1..k : Versions[i] <= n
  BY <1>3, <1>4
<1>6. \A v \in Numbers : v \in 1..n
  <2>1. ASSUME NEW v \in Numbers PROVE v \in 1..n
    <3>1. PICK i \in 1..k : v = Versions[i]
      BY <1>1, MigrationsConstantsOK DEF Numbers, ToSet
    <3>. QED  BY <1>2, <1>5, <3>1
  <2>. QED  BY <2>1
<1>. QED  BY <1>6

\* The highest of some versions, and of none.
LEMMA HighestVersion ==
    ASSUME NEW A, A \subseteq Numbers
    PROVE  /\ Max(A \cup {0}) \in A \cup {0} /\ Max(A \cup {0}) \in Nat
           /\ \A v \in A : v <= Max(A \cup {0})
           /\ A # {} => Max(A) \in A /\ \A v \in A : v <= Max(A)
<1>1. PICK n \in Nat : Numbers \subseteq 1..n
  BY VersionsAreBounded
<1>2. A \cup {0} \subseteq 0..n /\ A \subseteq 0..n
  BY <1>1
<1>3. Max(A \cup {0}) \in A \cup {0} /\ \A v \in A \cup {0} : v <= Max(A \cup {0})
  BY <1>2, LargestIsOne
<1>4. A # {} => Max(A) \in A /\ \A v \in A : v <= Max(A)
  BY <1>2, LargestIsOne
<1>5. Max(A \cup {0}) \in Nat
  <2>1. PICK h : h = Max(A \cup {0})
    OBVIOUS
  <2>2. h \in 0..n
    BY <1>2, <1>3, <2>1
  <2>. QED  BY <2>1, <2>2
<1>. QED  BY <1>3, <1>4, <1>5

\* What versions there are.
LEMMA VersionFacts ==
    /\ \A v \in Numbers : v \in Nat /\ v > 0
    /\ Numbers # {}
    /\ Max(Numbers) \in Numbers /\ \A v \in Numbers : v <= Max(Numbers)
<1>1. PICK n \in Nat : Numbers \subseteq 1..n
  BY VersionsAreBounded
<1>2. Versions[1] \in Numbers
  <2>1. 1 \in DOMAIN Versions
    BY MigrationsConstantsOK
  <2>. QED  BY <2>1 DEF Numbers, ToSet
<1>3. \A v \in Numbers : v \in Nat /\ v > 0
  <2>1. ASSUME NEW v \in Numbers PROVE v \in Nat /\ v > 0
    <3>1. v \in 1..n
      BY <1>1
    <3>. QED  BY <3>1
  <2>. QED  BY <2>1
<1>4. Numbers # {} => Max(Numbers) \in Numbers /\ \A v \in Numbers : v <= Max(Numbers)
  BY HighestVersion
<1>. QED  BY <1>2, <1>3, <1>4

LEMMA MigrationsTypedInit == MigrationsInit => MigrationsTypeOK
<1>. SUFFICES ASSUME MigrationsInit PROVE MigrationsTypeOK
  OBVIOUS
<1>1. list \in [Managers -> Orders]
  BY DEF MigrationsInit, Orders
<1>2. plan \in [Managers -> PlanState \cup {GIdle}]
  BY DEF MigrationsInit
<1>. QED  BY <1>1, <1>2 DEF MigrationsInit, MigrationsTypeOK

\* A call begins over some versions, or has none to go over.
LEMMA BeginTyped ==
    ASSUME MigrationsTypeOK, NEW m \in Managers,
           NEW op \in {"migrate", "up", "down", "rollback"}, NEW order \in Orders,
           NEW todo, todo \subseteq Numbers, Begin(m, op, order, todo),
           UNCHANGED <<applied, broken, jumped>>
    PROVE  MigrationsTypeOK'
<1>1. list' \in [Managers -> Orders] /\ calls' \in Nat
  BY DEF Begin, MigrationsTypeOK
<1>2. complete' \in [Managers -> BOOLEAN]
  <2>1. PICK b \in BOOLEAN : complete' = [complete EXCEPT ![m] = b]
    BY DEF Begin
  <2>. QED  BY <2>1 DEF MigrationsTypeOK
<1>3. plan' \in [Managers -> PlanState \cup {GIdle}]
  <2>1. todo # {} => [op |-> op, todo |-> todo] \in PlanState
    BY DEF PlanState
  <2>2. PICK p : p = IF todo = {} THEN GIdle ELSE [op |-> op, todo |-> todo]
    OBVIOUS
  <2>3. p \in PlanState \cup {GIdle} /\ plan' = [plan EXCEPT ![m] = p]
    BY <2>1, <2>2 DEF Begin
  <2>. QED  BY <2>3 DEF MigrationsTypeOK
<1>. QED  BY <1>1, <1>2, <1>3 DEF MigrationsTypeOK

LEMMA EndOneTyped ==
    ASSUME MigrationsTypeOK, NEW m \in Managers, NEW v \in Numbers, NEW ok \in BOOLEAN,
           plan[m] # GIdle, EndOne(m, v, ok), applied' \subseteq Numbers
    PROVE  MigrationsTypeOK'
<1>1. UNCHANGED <<broken, list, calls>> /\ jumped' \in BOOLEAN
  BY DEF EndOne, MigrationsTypeOK
<1>2. complete' \in [Managers -> BOOLEAN]
  <2>1. PICK b \in BOOLEAN : complete' = [complete EXCEPT ![m] = b]
    BY DEF EndOne
  <2>. QED  BY <2>1 DEF MigrationsTypeOK
<1>3. plan' \in [Managers -> PlanState \cup {GIdle}]
  <2>1. PICK p : p = plan[m] /\ p \in PlanState
    BY DEF MigrationsTypeOK
  <2>2. PICK rest : rest = p.todo \ {v}
    OBVIOUS
  <2>3. rest # {} => [p EXCEPT !.todo = rest] \in PlanState
    BY <2>1, <2>2 DEF PlanState
  <2>4. PICK s \in PlanState \cup {GIdle} : plan' = [plan EXCEPT ![m] = s]
    BY <2>1, <2>2, <2>3 DEF EndOne
  <2>. QED  BY <2>4 DEF MigrationsTypeOK
<1>. QED  BY <1>1, <1>2, <1>3 DEF MigrationsTypeOK

LEMMA MigrationsTypedNext ==
    MigrationsTypeOK /\ [MigrationsNext]_migrationVars => MigrationsTypeOK'
<1>. SUFFICES ASSUME MigrationsTypeOK, [MigrationsNext]_migrationVars
              PROVE  MigrationsTypeOK'
  OBVIOUS
<1>1. CASE UNCHANGED migrationVars
  BY <1>1 DEF migrationVars, MigrationsTypeOK
<1>2. ASSUME NEW m \in Managers, Migrate(m) PROVE MigrationsTypeOK'
  <2>1. "ascending" \in Orders
    BY DEF Orders
  <2>2. {v \in Numbers : v > CurrentVersion} \subseteq Numbers
    OBVIOUS
  <2>. QED  BY <1>2, <2>1, <2>2, BeginTyped DEF Migrate
<1>3. ASSUME NEW m \in Managers, GetStatus(m) PROVE MigrationsTypeOK'
  <2>1. "ascending" \in Orders
    BY DEF Orders
  <2>. QED  BY <1>3, <2>1 DEF GetStatus, MigrationsTypeOK
<1>4. ASSUME NEW m \in Managers, NEW target \in Numbers \cup {0}, MigrateTo(m, target)
      PROVE  MigrationsTypeOK'
  <2>1. "descending" \in Orders /\ list[m] \in Orders
    BY DEF Orders, MigrationsTypeOK
  <2>2. \A low, high : Between(low, high) \subseteq Numbers
    BY DEF Between
  <2>. QED  BY <1>4, <2>1, <2>2, BeginTyped DEF MigrateTo
<1>5. ASSUME NEW m \in Managers, Rollback(m) PROVE MigrationsTypeOK'
  <2>1. CurrentVersion \in Numbers
    BY <1>5, HighestVersion DEF Rollback, CurrentVersion, MigrationsTypeOK
  <2>2. {CurrentVersion} \subseteq Numbers /\ list[m] \in Orders
    BY <2>1 DEF MigrationsTypeOK
  <2>. QED  BY <1>5, <2>2, BeginTyped DEF Rollback
<1>6. ASSUME NEW m \in Managers, NEW v \in Numbers,
             ApplyMigration(m, v) \/ RollbackMigration(m, v)
      PROVE  MigrationsTypeOK'
  <2>1. plan[m] # GIdle
    <3>1. plan[m].op # "none"
      BY <1>6 DEF ApplyMigration, RollbackMigration
    <3>. QED  BY <3>1 DEF GIdle
  <2>2. applied' \subseteq Numbers
    BY <1>6 DEF ApplyMigration, RollbackMigration, MigrationsTypeOK
  <2>3. EndOne(m, v, TRUE) \/ EndOne(m, v, FALSE)
    BY <1>6 DEF ApplyMigration, RollbackMigration
  <2>. QED  BY <2>1, <2>2, <2>3, EndOneTyped
<1>7. ASSUME NEW m \in Managers, MigratorDies(m) PROVE MigrationsTypeOK'
  <2>1. "registered" \in Orders
    BY DEF Orders
  <2>. QED  BY <1>7, <2>1 DEF MigratorDies, MigrationsTypeOK
<1>. QED  BY <1>1, <1>2, <1>3, <1>4, <1>5, <1>6, <1>7 DEF MigrationsNext

(* The rows of schema_migrations are versions that are registered, and no   *)
(* loop is over anything else, for any list and any number of processes     *)
(* (Migrate, MigrateTo, Rollback).                                          *)
THEOREM MigrationsTypeCorrect == MigrationsSpec => []MigrationsTypeOK
<1>. QED  BY MigrationsTypedInit, MigrationsTypedNext, PTL DEF MigrationsSpec

\* No version is left out below one that is there.
Closed(A) == \A v \in A, u \in Numbers : u <= v => u \in A

\* What the loop in state p is to leave behind of the versions A.
LoopFits(A, p) ==
    /\ p = GIdle => Closed(A)
    /\ p # GIdle /\ p.op = "migrate" => Closed(A) /\ p.todo = Numbers \ A
    /\ p # GIdle /\ p.op = "up" => Closed(A \cup p.todo)
    /\ p # GIdle /\ p.op = "down" => Closed(A \ p.todo)
    /\ p # GIdle /\ p.op = "rollback" =>
          Closed(A) /\ Closed(A \ p.todo) /\ \E v \in Numbers : p.todo = {v}

\* A Migrate that is under way has the highest version before it.
MigrateFits(p, order) ==
    p # GIdle /\ p.op = "migrate" => order = "ascending" /\ Max(Numbers) \in p.todo

SoloMigrations(m) ==
    /\ MigrationsTypeOK
    /\ ~jumped => LoopFits(applied, plan[m])
    /\ MigrateFits(plan[m], list[m])
    /\ complete[m] => plan[m] = GIdle /\ Max(Numbers) \in applied

LEMMA SoloMigrationsInit ==
    ASSUME NEW m \in Managers, MigrationsInit
    PROVE  SoloMigrations(m)
<1>1. plan[m] = GIdle /\ applied = {} /\ complete[m] = FALSE
  BY DEF MigrationsInit
<1>. QED  BY <1>1, MigrationsTypedInit DEF SoloMigrations, LoopFits, MigrateFits, Closed

\* The highest version is applied when nothing above it is.
LEMMA CurrentFacts ==
    ASSUME MigrationsTypeOK
    PROVE  /\ CurrentVersion \in applied \cup {0} /\ CurrentVersion \in Nat
           /\ \A v \in applied : v <= CurrentVersion
           /\ {v \in Numbers : v > CurrentVersion} = {} => Max(Numbers) \in applied
           /\ {v \in Numbers : v > CurrentVersion} # {} => Max(Numbers) > CurrentVersion
           /\ Closed(applied) => \A u \in Numbers : u \in applied <=> u <= CurrentVersion
<1>1. PICK h : h = CurrentVersion
  OBVIOUS
<1>2. h \in applied \cup {0} /\ h \in Nat /\ \A v \in applied : v <= h
  BY <1>1, HighestVersion DEF CurrentVersion, MigrationsTypeOK
<1>3. PICK x : x = Max(Numbers) /\ x \in Numbers /\ x \in Nat /\ x > 0 /\ \A v \in Numbers : v <= x
  BY VersionFacts
<1>4. applied \subseteq Numbers /\ \A v \in Numbers : v \in Nat /\ v > 0
  BY VersionFacts DEF MigrationsTypeOK
<1>5. {v \in Numbers : v > h} = {} => x \in applied
  <2>1. SUFFICES ASSUME ~(x > h) PROVE x \in applied
    BY <1>3
  <2>2. h # 0 /\ h \in Numbers /\ h <= x /\ x <= h
    BY <1>2, <1>3, <1>4, <2>1
  <2>. QED  BY <1>2, <1>3, <2>2
<1>6. {v \in Numbers : v > h} # {} => x > h
  <2>1. ASSUME NEW v \in Numbers, v > h PROVE x > h
    BY <1>2, <1>3, <1>4, <2>1
  <2>. QED  BY <2>1
<1>7. ASSUME Closed(applied), NEW u \in Numbers PROVE u \in applied <=> u <= h
  <2>1. u \in Nat /\ u > 0
    BY <1>4
  <2>2. u <= h => h \in applied
    BY <1>2, <2>1
  <2>. QED  BY <1>2, <1>7, <2>2 DEF Closed
<1>. QED  BY <1>1, <1>2, <1>3, <1>5, <1>6, <1>7

\* What a call is to go over, from versions without a gap.
LEMMA LoopsFit ==
    ASSUME MigrationsTypeOK, Closed(applied)
    PROVE  /\ {v \in Numbers : v > CurrentVersion} = Numbers \ applied
           /\ \A high \in Nat : Closed(applied \cup Between(CurrentVersion, high))
           /\ \A low \in Nat : Closed(applied \ Between(low, CurrentVersion))
           /\ Closed(applied \ {CurrentVersion})
<1>1. PICK h : h = CurrentVersion
  OBVIOUS
<1>2. h \in Nat /\ \A u \in Numbers : u \in applied <=> u <= h
  BY <1>1, CurrentFacts
<1>3. applied \subseteq Numbers /\ \A v \in Numbers : v \in Nat
  BY VersionFacts DEF MigrationsTypeOK
<1>4. {v \in Numbers : v > h} = Numbers \ applied
  BY <1>2, <1>3
<1>5. ASSUME NEW high \in Nat PROVE Closed(applied \cup Between(h, high))
  BY <1>2, <1>3 DEF Closed, Between
<1>6. ASSUME NEW low \in Nat PROVE Closed(applied \ Between(low, h))
  BY <1>2, <1>3 DEF Closed, Between
<1>7. Closed(applied \ {h})
  BY <1>2, <1>3 DEF Closed
<1>. QED  BY <1>1, <1>4, <1>5, <1>6, <1>7

\* The variables of manager m after a call has begun.
LEMMA BeginDoes ==
    ASSUME MigrationsTypeOK, NEW m \in Managers, NEW op, NEW order, NEW todo,
           Begin(m, op, order, todo)
    PROVE  /\ plan[m] = GIdle /\ list'[m] = order
           /\ complete'[m] <=> (op = "migrate" /\ todo = {})
           /\ todo = {} => plan'[m] = GIdle
           /\ todo # {} => plan'[m] # GIdle /\ plan'[m].op = op /\ plan'[m].todo = todo
<1>1. plan[m] = GIdle /\ list'[m] = order
  BY DEF Begin, MigrationsTypeOK
<1>2. complete'[m] <=> (op = "migrate" /\ todo = {})
  <2>1. complete'[m] = (op = "migrate" /\ todo = {})
    BY DEF Begin, MigrationsTypeOK
  <2>. QED  BY <2>1
<1>3. PICK s : s = [op |-> op, todo |-> todo]
  OBVIOUS
<1>4. plan'[m] = IF todo = {} THEN GIdle ELSE s
  BY <1>3 DEF Begin, MigrationsTypeOK
<1>5. s.op = op /\ s.todo = todo
  BY <1>3
<1>6. s # GIdle
  BY <1>3 DEF GIdle
<1>. QED  BY <1>1, <1>2, <1>4, <1>5, <1>6

LEMMA SoloBegins ==
    ASSUME NEW m \in Managers, SoloMigrations(m), MigrationsTypeOK',
           \/ Migrate(m) \/ Rollback(m)
           \/ \E target \in Numbers \cup {0} : MigrateTo(m, target)
    PROVE  SoloMigrations(m)'
<1>1. UNCHANGED <<applied, jumped>> /\ MigrationsTypeOK
  BY DEF Migrate, Rollback, MigrateTo, SoloMigrations
<1>2. PICK h : h = CurrentVersion /\ h \in Nat
  BY <1>1, CurrentFacts
<1>3. PICK op, order, todo :
         /\ Begin(m, op, order, todo)
         /\ op = "migrate" => order = "ascending" /\ todo = {v \in Numbers : v > h}
         /\ op = "up" => \E high \in Nat : todo = Between(h, high)
         /\ op = "down" => \E low \in Nat : todo = Between(low, h)
         /\ op = "rollback" => todo = {h} /\ h \in Numbers
         /\ op \in {"migrate", "up", "down", "rollback"}
  <2>1. CASE Migrate(m)
    BY <1>2, <2>1 DEF Migrate
  <2>2. CASE Rollback(m)
    <3>1. h \in Numbers
      BY <1>1, <1>2, <2>2, CurrentFacts DEF Rollback, MigrationsTypeOK
    <3>. QED  BY <1>2, <2>2, <3>1 DEF Rollback
  <2>3. CASE \E target \in Numbers \cup {0} : MigrateTo(m, target)
    <3>1. PICK target \in Nat : MigrateTo(m, target)
      BY <2>3, VersionFacts
    <3>. QED  BY <1>2, <3>1 DEF MigrateTo
  <2>. QED  BY <2>1, <2>2, <2>3
<1>4. /\ plan[m] = GIdle /\ list'[m] = order
      /\ complete'[m] <=> (op = "migrate" /\ todo = {})
      /\ todo = {} => plan'[m] = GIdle
      /\ todo # {} => plan'[m] # GIdle /\ plan'[m].op = op /\ plan'[m].todo = todo
  BY <1>1, <1>3, BeginDoes
<1>5. ~jumped => Closed(applied)
  BY <1>4 DEF SoloMigrations, LoopFits
<1>6. ~jumped' => LoopFits(applied', plan'[m])
  <2>. SUFFICES ASSUME ~jumped, Closed(applied) PROVE LoopFits(applied, plan'[m])
    BY <1>1, <1>5
  <2>1. /\ op = "migrate" => todo = Numbers \ applied
        /\ op = "up" => Closed(applied \cup todo)
        /\ op = "down" => Closed(applied \ todo)
        /\ op = "rollback" => Closed(applied \ todo) /\ \E v \in Numbers : todo = {v}
    BY <1>1, <1>2, <1>3, LoopsFit
  <2>2. CASE todo = {}
    BY <1>4, <2>2 DEF LoopFits
  <2>3. CASE todo # {}
    BY <1>3, <1>4, <2>1, <2>3 DEF LoopFits
  <2>. QED  BY <2>2, <2>3
<1>7. MigrateFits(plan'[m], list'[m])
  <2>1. op = "migrate" /\ todo # {} => Max(Numbers) \in todo
    <3>1. {v \in Numbers : v > h} # {} => Max(Numbers) > h
      BY <1>1, <1>2, CurrentFacts
    <3>. QED  BY <1>3, <3>1, VersionFacts
  <2>. QED  BY <1>3, <1>4, <2>1 DEF MigrateFits
<1>8. complete'[m] => plan'[m] = GIdle /\ Max(Numbers) \in applied'
  <2>1. {v \in Numbers : v > h} = {} => Max(Numbers) \in applied
    BY <1>1, <1>2, CurrentFacts
  <2>. QED  BY <1>1, <1>3, <1>4, <2>1
<1>. QED  BY <1>6, <1>7, <1>8 DEF SoloMigrations

\* The variables of manager m after a version.
LEMMA EndOneDoes ==
    ASSUME MigrationsTypeOK, NEW m \in Managers, NEW v, NEW ok, EndOne(m, v, ok),
           plan[m] # GIdle, NEW p, p = plan[m], NEW rest, rest = p.todo \ {v}
    PROVE  /\ list'[m] = list[m]
           /\ complete'[m] <=> (ok /\ rest = {} /\ p.op = "migrate")
           /\ jumped' <=> (jumped \/ (~ok /\ p.op \in {"up", "down"}))
           /\ ok /\ rest # {} => plan'[m] # GIdle /\ plan'[m].op = p.op /\ plan'[m].todo = rest
           /\ ~ok \/ rest = {} => plan'[m] = GIdle
<1>1. list'[m] = list[m]
  BY DEF EndOne
<1>2. complete'[m] <=> (ok /\ rest = {} /\ p.op = "migrate")
  <2>1. complete'[m] = (ok /\ rest = {} /\ p.op = "migrate")
    BY DEF EndOne, MigrationsTypeOK
  <2>. QED  BY <2>1
<1>3. jumped' <=> (jumped \/ (~ok /\ p.op \in {"up", "down"}))
  BY DEF EndOne
<1>4. p \in PlanState
  BY DEF MigrationsTypeOK
<1>5. plan'[m] = IF ok /\ rest # {} THEN [p EXCEPT !.todo = rest] ELSE GIdle
  BY DEF EndOne, MigrationsTypeOK
<1>6. PICK s : s = [p EXCEPT !.todo = rest]
  OBVIOUS
<1>7. s.op = p.op /\ s.todo = rest /\ s.op # "none"
  BY <1>4, <1>6 DEF PlanState
<1>8. s # GIdle
  BY <1>7 DEF GIdle
<1>. QED  BY <1>1, <1>2, <1>3, <1>5, <1>6, <1>7, <1>8

\* One version of a Migrate, in ascending order.
LEMMA LowestFits ==
    ASSUME NEW A, A \subseteq Numbers, Closed(A), NEW todo, todo = Numbers \ A,
           NEW v \in todo, \A u \in todo \ {v} : v < u
    PROVE  Closed(A \cup {v}) /\ todo \ {v} = Numbers \ (A \cup {v})
<1>1. \A u \in Numbers : u \in Nat
  BY VersionFacts
<1>2. ASSUME NEW w \in A \cup {v}, NEW u \in Numbers, u <= w PROVE u \in A \cup {v}
  <2>1. CASE w \in A
    BY <1>2, <2>1 DEF Closed
  <2>2. CASE w = v /\ u # v
    <3>1. ~(v < u)
      BY <1>1, <1>2, <2>2
    <3>. QED  BY <2>2, <3>1
  <2>. QED  BY <2>1, <2>2
<1>. QED  BY <1>2 DEF Closed

LEMMA SoloApplies ==
    ASSUME NEW m \in Managers, SoloMigrations(m), MigrationsTypeOK', NEW v \in Numbers,
           ApplyMigration(m, v)
    PROVE  SoloMigrations(m)'
<1>1. PICK p : p = plan[m] /\ p.op \in {"migrate", "up"}
  BY DEF ApplyMigration
<1>2. p # GIdle /\ MigrationsTypeOK /\ ~complete[m]
  <2>1. p.op # "none"
    BY <1>1
  <2>2. p # GIdle
    BY <2>1 DEF GIdle
  <2>. QED  BY <1>1, <2>2 DEF SoloMigrations
<1>3. PICK rest : rest = p.todo \ {v}
  OBVIOUS
<1>4. v \in p.todo /\ \A u \in rest : Comes(list[m], v, u)
  BY <1>1, <1>3 DEF ApplyMigration, IsNext
<1>5. PICK ok \in BOOLEAN :
         /\ EndOne(m, v, ok)
         /\ ok => applied' = applied \cup {v}
         /\ ~ok => applied' = applied
  BY DEF ApplyMigration
<1>6. /\ list'[m] = list[m]
      /\ complete'[m] <=> (ok /\ rest = {} /\ p.op = "migrate")
      /\ jumped' <=> (jumped \/ (~ok /\ p.op \in {"up", "down"}))
      /\ ok /\ rest # {} => plan'[m] # GIdle /\ plan'[m].op = p.op /\ plan'[m].todo = rest
      /\ ~ok \/ rest = {} => plan'[m] = GIdle
  BY <1>1, <1>2, <1>3, <1>5, EndOneDoes
<1>7. p.op = "migrate" => /\ \A u \in rest : v < u
                          /\ list[m] = "ascending" /\ Max(Numbers) \in p.todo
  BY <1>1, <1>2, <1>4 DEF SoloMigrations, MigrateFits, Comes
<1>8. applied \subseteq Numbers
  BY <1>2 DEF MigrationsTypeOK
<1>9. ~jumped' => LoopFits(applied', plan'[m])
  <2>. SUFFICES ASSUME ~jumped, ~jumped' PROVE LoopFits(applied', plan'[m])
    BY <1>6
  <2>0. LoopFits(applied, p)
    BY <1>1 DEF SoloMigrations
  <2>1. CASE p.op = "migrate"
    <3>1. Closed(applied) /\ p.todo = Numbers \ applied
      BY <1>2, <2>0, <2>1 DEF LoopFits
    <3>2. CASE ~ok
      BY <1>5, <1>6, <3>1, <3>2 DEF LoopFits
    <3>3. CASE ok
      <4>1. Closed(applied') /\ rest = Numbers \ applied'
        BY <1>3, <1>4, <1>5, <1>7, <1>8, <2>1, <3>1, <3>3, LowestFits
      <4>. QED  BY <1>6, <2>1, <3>3, <4>1 DEF LoopFits
    <3>. QED  BY <3>2, <3>3
  <2>2. CASE p.op = "up"
    <3>1. ok /\ Closed(applied \cup p.todo)
      BY <1>2, <1>6, <2>0, <2>2 DEF LoopFits
    <3>2. applied \cup p.todo = applied' \cup rest
      BY <1>3, <1>4, <1>5, <3>1
    <3>3. CASE rest = {}
      <4>1. applied' \cup rest = applied'
        BY <3>3
      <4>. QED  BY <1>6, <3>1, <3>2, <3>3, <4>1 DEF LoopFits
    <3>4. CASE rest # {}
      BY <1>6, <2>2, <3>1, <3>2, <3>4 DEF LoopFits
    <3>. QED  BY <3>3, <3>4
  <2>. QED  BY <1>1, <2>1, <2>2
<1>10. MigrateFits(plan'[m], list'[m])
  <2>. SUFFICES ASSUME plan'[m] # GIdle, plan'[m].op = "migrate"
                PROVE  list'[m] = "ascending" /\ Max(Numbers) \in plan'[m].todo
    BY DEF MigrateFits
  <2>1. ok /\ rest # {} /\ p.op = "migrate" /\ plan'[m].todo = rest
    BY <1>6
  <2>2. PICK u \in rest : v < u
    BY <1>7, <2>1
  <2>3. u \in Numbers /\ u <= Max(Numbers) /\ Max(Numbers) \in Nat /\ u \in Nat /\ v \in Nat
    <3>1. p.todo \subseteq Numbers
      BY <1>1, <1>2 DEF MigrationsTypeOK, PlanState
    <3>. QED  BY <1>3, <3>1, VersionFacts
  <2>4. Max(Numbers) # v
    BY <2>2, <2>3
  <2>. QED  BY <1>3, <1>6, <1>7, <2>1, <2>4
<1>11. complete'[m] => plan'[m] = GIdle /\ Max(Numbers) \in applied'
  <2>. SUFFICES ASSUME complete'[m] PROVE plan'[m] = GIdle /\ Max(Numbers) \in applied'
    OBVIOUS
  <2>1. ok /\ rest = {} /\ Max(Numbers) \in p.todo
    BY <1>6, <1>7
  <2>2. Max(Numbers) = v
    BY <1>3, <2>1
  <2>. QED  BY <1>5, <1>6, <2>1, <2>2
<1>. QED  BY <1>9, <1>10, <1>11 DEF SoloMigrations

LEMMA SoloRollsBack ==
    ASSUME NEW m \in Managers, SoloMigrations(m), MigrationsTypeOK', NEW v \in Numbers,
           RollbackMigration(m, v)
    PROVE  SoloMigrations(m)'
<1>1. PICK p : p = plan[m] /\ p.op \in {"down", "rollback"}
  BY DEF RollbackMigration
<1>2. p # GIdle /\ MigrationsTypeOK
  <2>1. p.op # "none"
    BY <1>1
  <2>2. p # GIdle
    BY <2>1 DEF GIdle
  <2>. QED  BY <2>2 DEF SoloMigrations
<1>3. PICK rest : rest = p.todo \ {v}
  OBVIOUS
<1>4. v \in p.todo
  BY <1>1 DEF RollbackMigration, IsNext
<1>5. PICK ok \in BOOLEAN :
         /\ EndOne(m, v, ok)
         /\ ok => applied' = applied \ {v}
         /\ ~ok => applied' = applied
  BY DEF RollbackMigration
<1>6. /\ list'[m] = list[m]
      /\ complete'[m] <=> (ok /\ rest = {} /\ p.op = "migrate")
      /\ jumped' <=> (jumped \/ (~ok /\ p.op \in {"up", "down"}))
      /\ ok /\ rest # {} => plan'[m] # GIdle /\ plan'[m].op = p.op /\ plan'[m].todo = rest
      /\ ~ok \/ rest = {} => plan'[m] = GIdle
  BY <1>1, <1>2, <1>3, <1>5, EndOneDoes
<1>7. ~jumped' => LoopFits(applied', plan'[m])
  <2>. SUFFICES ASSUME ~jumped, ~jumped' PROVE LoopFits(applied', plan'[m])
    BY <1>6
  <2>0. LoopFits(applied, p)
    BY <1>1 DEF SoloMigrations
  <2>1. Closed(applied \ p.todo)
    BY <1>1, <1>2, <2>0 DEF LoopFits
  <2>2. CASE ok /\ rest = {}
    <3>1. applied' = applied \ p.todo
      BY <1>3, <1>4, <1>5, <2>2
    <3>. QED  BY <1>6, <2>1, <2>2, <3>1 DEF LoopFits
  <2>3. CASE ok /\ rest # {}
    <3>1. p.op = "down"
      BY <1>1, <1>2, <1>3, <1>4, <2>0, <2>3 DEF LoopFits
    <3>2. applied' \ rest = applied \ p.todo
      BY <1>3, <1>4, <1>5, <2>3
    <3>. QED  BY <1>6, <2>1, <2>3, <3>1, <3>2 DEF LoopFits
  <2>4. CASE ~ok
    <3>1. p.op = "rollback"
      BY <1>1, <1>6, <2>4
    <3>2. Closed(applied)
      BY <1>2, <2>0, <3>1 DEF LoopFits
    <3>. QED  BY <1>5, <1>6, <2>4, <3>2 DEF LoopFits
  <2>. QED  BY <2>2, <2>3, <2>4
<1>8. MigrateFits(plan'[m], list'[m]) /\ ~complete'[m]
  BY <1>1, <1>6 DEF MigrateFits
<1>. QED  BY <1>7, <1>8 DEF SoloMigrations

LEMMA SoloMigrationsNext ==
    ASSUME NEW m, Managers = {m}, SoloMigrations(m), [MigrationsNext]_migrationVars
    PROVE  SoloMigrations(m)'
<1>1. MigrationsTypeOK' /\ MigrationsTypeOK /\ m \in Managers
  BY MigrationsTypedNext DEF SoloMigrations
<1>2. CASE UNCHANGED migrationVars
  BY <1>1, <1>2 DEF migrationVars, SoloMigrations
<1>3. CASE GetStatus(m)
  <2>1. UNCHANGED <<applied, plan, jumped, complete>> /\ plan[m] = GIdle
    BY <1>3 DEF GetStatus
  <2>. QED  BY <1>1, <2>1 DEF SoloMigrations, LoopFits, MigrateFits
<1>4. CASE MigratorDies(m)
  <2>1. PICK p : p = plan[m] /\ p # GIdle /\ p \in PlanState
    BY <1>1, <1>4 DEF MigratorDies, MigrationsTypeOK
  <2>2. /\ UNCHANGED <<applied, complete>> /\ plan'[m] = GIdle
        /\ jumped' <=> (jumped \/ p.op \in {"up", "down"})
    BY <1>1, <1>4, <2>1 DEF MigratorDies, MigrationsTypeOK
  <2>3. ~jumped' => Closed(applied)
    BY <2>1, <2>2 DEF SoloMigrations, LoopFits, PlanState
  <2>4. ~complete[m]
    BY <2>1 DEF SoloMigrations
  <2>. QED  BY <1>1, <2>2, <2>3, <2>4 DEF SoloMigrations, LoopFits, MigrateFits
<1>. QED  BY <1>1, <1>2, <1>3, <1>4, SoloBegins, SoloApplies, SoloRollsBack DEF MigrationsNext

(* With one process at a time, whatever versions are registered, refused or *)
(* fail, and wherever the process dies: no version is applied above one     *)
(* that is not, unless a MigrateTo has failed, and when Migrate returns     *)
(* without an error the highest version is the current one (Pending,        *)
(* Migrate, MigrateTo, Rollback).                                           *)
THEOREM MigrationsOneProcess ==
    ASSUME NEW m, Managers = {m}
    PROVE  MigrationsSpec => []MigrationsAlone
<1>1. MigrationsInit => SoloMigrations(m)
  BY SoloMigrationsInit
<1>2. SoloMigrations(m) /\ [MigrationsNext]_migrationVars => SoloMigrations(m)'
  BY SoloMigrationsNext
<1>3. SoloMigrations(m) => MigrationsAlone
  <2>. SUFFICES ASSUME SoloMigrations(m) PROVE NoGap /\ MigrateCompletes
    BY DEF MigrationsAlone
  <2>1. NoGap
    BY DEF NoGap, SoloMigrations, LoopFits, Closed
  <2>2. MigrateCompletes
    <3>. SUFFICES ASSUME complete[m] PROVE CurrentVersion = Max(Numbers)
      BY DEF MigrateCompletes
    <3>1. PICK h : /\ h = CurrentVersion /\ h \in applied \cup {0} /\ h \in Nat
                   /\ \A v \in applied : v <= h
      BY CurrentFacts DEF SoloMigrations
    <3>2. PICK x : /\ x = Max(Numbers) /\ x \in applied /\ x \in Nat /\ x > 0
                   /\ \A v \in applied : v <= x
      BY VersionFacts DEF SoloMigrations, MigrationsTypeOK
    <3>. QED  BY <3>1, <3>2
  <2>. QED  BY <2>1, <2>2
<1>. QED  BY <1>1, <1>2, <1>3, PTL DEF MigrationsSpec

-----------------------------------------------------------------------------
(* The six managers side by side *)

(* Whatever interleaves, fails and restarts, the state of each of the six   *)
(* managers that share the daemon's database is well typed: rows name what  *)
(* there is, buckets and channels hold no more than they may, and handlers  *)
(* work on rows that exist.                                                 *)
THEOREM DaemonTypeCorrect ==
    AccountsSpec /\ TotpSpec /\ ApiKeysSpec /\ WebhooksSpec /\ LimitsSpec /\ MigrationsSpec
        => []DaemonTypeOK
<1>1. KeysInv => ApiKeysTypeOK
  BY KeysInvImplies
<1>2. (/\ AccountsTypeOK /\ TotpTypeOK /\ ApiKeysTypeOK
       /\ WebhooksTypeOK /\ LimitsTypeOK /\ MigrationsTypeOK) => DaemonTypeOK
  BY DEF DaemonTypeOK
<1>. QED  BY <1>1, <1>2, AccountsTypeCorrect, TotpTypeCorrect, KeysInvariant,
             WebhooksTypeCorrect, LimitsTypeCorrect, MigrationsTypeCorrect, PTL
=============================================================================
