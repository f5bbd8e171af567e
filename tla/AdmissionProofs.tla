--------------------------- MODULE AdmissionProofs ---------------------------
(***************************************************************************)
(* The creation of transfers, for every value of the constants: who may    *)
(* have a transfer, one transfer under an idempotency key, no order for a  *)
(* transaction that cannot be paid, prices that balance and refunds that   *)
(* fit; and how far two races that the code leaves open can go: the tokens *)
(* that succeed one token, and the volume of a day.                        *)
(***************************************************************************)
EXTENDS VerificationProofs, WellFoundedInduction

(***************************************************************************)
(* The inductive invariant.  What a request has established when it goes   *)
(* on to a step is a fact that no step of another request takes back.      *)
(***************************************************************************)
Beyond == {"evaluate", "insert", "pend", "order", "note", "save"}
Admitted == {"insert", "pend", "order", "note", "save"}
Inserted == {"pend", "order", "note", "save"}

Ready(u, a) ==
    /\ beneficiary[u][a] # NoBeneficiary
    /\ beneficiary[u][a].status = "VERIFIED"
    /\ <<u, a>> \in registered

Foreign(pan, account) == ~ IsSelfTransfer(NameOnPan[pan], HolderOf[account])

DeskBacked(x) ==
    /\ user[x.user] # NoUser /\ HasPan(user[x.user]) /\ user[x.user].profile
    /\ x.amount # 0 => SaidTo(x.user, "approved") /\ x.price.tax = 0
    /\ x.pc \in {"register", "store"} => beneficiary[x.user][x.account] # NoBeneficiary
    /\ x.pc = "store" => <<x.user, x.account>> \in registered
    /\ x.pc \in Beyond => x \in TransferDesk /\ Ready(x.user, x.account)
    /\ x.pc \in Admitted => Foreign(x.pan, x.account)
    /\ x.pc \in Inserted => x.txn \in DOMAIN transfer /\ transfer[x.txn].key = x.key
    /\ x.pc \in {"order", "note", "save"} => transfer[x.txn].life # "INITIATED"
    /\ x.pc \in {"note", "save"} => x.txn \in orders
    /\ x.pc = "save" => x.key # NoKey

DesksBacked == \A d \in Desks : desk[d] # DeskIdle => DeskBacked(desk[d])

\* A verified beneficiary is known to the provider.
BeneficiariesBacked ==
    \A u \in Users, a \in BankAccounts :
        beneficiary[u][a] # NoBeneficiary /\ beneficiary[u][a].status = "VERIFIED"
            => <<u, a>> \in registered

\* What a transfer's row says has been checked.
RowBacked(row) ==
    /\ user[row.user] # NoUser /\ HasPan(user[row.user]) /\ user[row.user].profile
    /\ SaidTo(row.user, "approved")
    /\ Ready(row.user, row.account)
    /\ Foreign(row.pan, row.account)

TransfersBacked == \A i \in DOMAIN transfer : RowBacked(transfer[i])

CreationInv ==
    /\ CreationTypeOK
    /\ DesksBacked /\ BeneficiariesBacked /\ TransfersBacked
    /\ OneTransferPerKey /\ OrderAwaitsPayment

AdmissionInv == AccountsTypeOK /\ IdentityTypeOK /\ KycInv /\ CreationInv

-----------------------------------------------------------------------------
(***************************************************************************)
(* What no step takes back.                                                *)
(***************************************************************************)
BeneficiariesGrow ==
    \A u \in Users, a \in BankAccounts : beneficiary[u][a] # NoBeneficiary =>
        /\ beneficiary'[u][a] # NoBeneficiary
        /\ beneficiary[u][a].status = "VERIFIED" => beneficiary'[u][a].status = "VERIFIED"

TransfersGrow ==
    \A i \in DOMAIN transfer :
        /\ i \in DOMAIN transfer'
        /\ transfer'[i].user = transfer[i].user
        /\ transfer'[i].account = transfer[i].account
        /\ transfer'[i].pan = transfer[i].pan
        /\ transfer'[i].key = transfer[i].key
        /\ transfer[i].life # "INITIATED" => transfer'[i].life # "INITIATED"

Grows ==
    /\ RowsStay /\ SaidGrows /\ BeneficiariesGrow /\ TransfersGrow
    /\ registered \subseteq registered'
    /\ orders \subseteq orders'

\* A request is in the middle of a transfer or of a new beneficiary.
DeskStates == TransferDesk \cup BeneficiaryDesk

LEMMA DeskRecords ==
    ASSUME NEW x \in DeskStates
    PROVE  /\ x # DeskIdle
           /\ x.user \in Users /\ x.account \in BankAccounts /\ x.pan \in Pans
           /\ x.amount \in Amounts \cup {0}
           /\ x \notin TransferDesk => x.pc \in {"validate", "register", "store"} /\ x.amount = 0
           /\ x \in TransferDesk =>
                 /\ x.pc \in {"validate", "register", "store", "evaluate", "insert", "pend",
                              "order", "note", "save"}
                 /\ x.amount \in Amounts /\ x.amount # 0
                 /\ x.price \in Price /\ x.key \in Keys \cup {NoKey} /\ x.txn \in Nat
<1>1. CASE x \in TransferDesk
  BY <1>1, CreationAssumption DEF CreationAssumption, TransferDesk, DeskIdle
<1>2. CASE x \in BeneficiaryDesk /\ x \notin TransferDesk
  BY <1>2 DEF BeneficiaryDesk, DeskIdle
<1>3. QED
  BY <1>1, <1>2 DEF DeskStates

\* The two of them that are read one by one.
LEMMA ReadyStays ==
    ASSUME NEW u \in Users, NEW a \in BankAccounts, Ready(u, a), Grows
    PROVE  Ready(u, a)'
  BY DEF Ready, Grows, BeneficiariesGrow

LEMMA ApprovedStays ==
    ASSUME NEW u \in Users, SaidTo(u, "approved"), SaidGrows
    PROVE  SaidTo(u, "approved")'
<1>1. SaidNext(u, "approved")
  BY DEF SaidGrows, Words
<1>2. QED
  BY <1>1 DEF SaidNext, SaidTo

LEMMA OwnerStays ==
    ASSUME NEW u \in Users, user[u] # NoUser, HasPan(user[u]), user[u].profile, RowsStay
    PROVE  (user[u] # NoUser /\ HasPan(user[u]) /\ user[u].profile)'
  BY DEF RowsStay, HasPan

\* What a request has established stays established.
LEMMA DeskStays ==
    ASSUME NEW x \in DeskStates, DeskBacked(x), Grows
    PROVE  DeskBacked(x)'
<1>1. (user[x.user] # NoUser /\ HasPan(user[x.user]) /\ user[x.user].profile)'
  BY DeskRecords, OwnerStays DEF DeskBacked, Grows
<1>2. (x.amount # 0 => SaidTo(x.user, "approved") /\ x.price.tax = 0)'
  BY DeskRecords, ApprovedStays DEF DeskBacked, Grows
<1>3. /\ (x.pc \in {"register", "store"} => beneficiary[x.user][x.account] # NoBeneficiary)'
      /\ (x.pc = "store" => <<x.user, x.account>> \in registered)'
  BY DeskRecords DEF DeskBacked, Grows, BeneficiariesGrow
<1>4. (x.pc \in Beyond => x \in TransferDesk /\ Ready(x.user, x.account))'
  BY DeskRecords, ReadyStays DEF DeskBacked
<1>5. (x.pc \in Admitted => Foreign(x.pan, x.account))'
  BY DEF DeskBacked, Foreign
<1>6. /\ (x.pc \in Inserted => x.txn \in DOMAIN transfer /\ transfer[x.txn].key = x.key)'
      /\ (x.pc \in {"order", "note", "save"} => transfer[x.txn].life # "INITIATED")'
  <2>1. ASSUME x.pc \in Inserted
        PROVE  /\ (x.txn \in DOMAIN transfer /\ transfer[x.txn].key = x.key)'
               /\ transfer[x.txn].life # "INITIATED" => transfer'[x.txn].life # "INITIATED"
    BY <2>1 DEF DeskBacked, Grows, TransfersGrow
  <2>2. QED
    BY <2>1 DEF DeskBacked, Inserted
<1>7. /\ (x.pc \in {"note", "save"} => x.txn \in orders)'
      /\ (x.pc = "save" => x.key # NoKey)'
  BY DEF DeskBacked, Grows
<1>8. QED
  BY <1>1, <1>2, <1>3, <1>4, <1>5, <1>6, <1>7 DEF DeskBacked

\* So does what was checked of a transfer.
LEMMA RowStays ==
    ASSUME NEW row \in Transfer, RowBacked(row), Grows
    PROVE  RowBacked(row)'
<1>1. row.user \in Users /\ row.account \in BankAccounts
  BY DEF Transfer
<1>2. (user[row.user] # NoUser /\ HasPan(user[row.user]) /\ user[row.user].profile)'
  BY <1>1, OwnerStays DEF RowBacked, Grows
<1>3. SaidTo(row.user, "approved")' /\ Ready(row.user, row.account)'
  BY <1>1, ApprovedStays, ReadyStays DEF RowBacked, Grows
<1>4. QED
  BY <1>2, <1>3 DEF RowBacked, Foreign

-----------------------------------------------------------------------------
(***************************************************************************)
(* Steps of every kind.                                                    *)
(***************************************************************************)
\* One request changes its own locals.
LEMMA OneDesk ==
    ASSUME CreationTypeOK, DesksBacked, Grows, NEW d \in Desks,
           NEW x \in DeskStates \cup {DeskIdle}, x # DeskIdle => DeskBacked(x)',
           desk' = [desk EXCEPT ![d] = x]
    PROVE  desk' \in [Desks -> TransferDesk \cup BeneficiaryDesk \cup {DeskIdle}] /\ DesksBacked'
<1>1. desk' \in [Desks -> TransferDesk \cup BeneficiaryDesk \cup {DeskIdle}]
  BY DEF CreationTypeOK, DeskStates
<1>2. ASSUME NEW e \in Desks, desk'[e] # DeskIdle
      PROVE  DeskBacked(desk[e])'
  <2>1. CASE e = d
    BY <1>2, <2>1 DEF CreationTypeOK
  <2>2. CASE e # d
    <3>1. PICK y \in DeskStates : y = desk[e]
      BY <1>2, <2>2 DEF CreationTypeOK, DeskStates
    <3>2. desk'[e] = y /\ y # DeskIdle
      BY <1>2, <2>2, <3>1 DEF CreationTypeOK
    <3>3. DeskBacked(y)
      BY <3>1, <3>2 DEF DesksBacked
    <3>4. DeskBacked(y)'
      BY <3>3, DeskStays
    <3>5. QED
      BY <3>2, <3>4
  <2>3. QED
    BY <2>1, <2>2
<1>3. QED
  BY <1>1, <1>2 DEF DesksBacked

\* A request that ends.
LEMMA EndDeskKeeps ==
    ASSUME CreationTypeOK, DesksBacked, Grows, NEW d \in Desks, EndDesk(d)
    PROVE  desk' \in [Desks -> TransferDesk \cup BeneficiaryDesk \cup {DeskIdle}] /\ DesksBacked'
  BY OneDesk DEF EndDesk

\* No request is touched.
LEMMA SameDesks ==
    ASSUME CreationTypeOK, DesksBacked, Grows, UNCHANGED desk
    PROVE  desk' \in [Desks -> TransferDesk \cup BeneficiaryDesk \cup {DeskIdle}] /\ DesksBacked'
<1>1. ASSUME NEW e \in Desks, desk[e] # DeskIdle
      PROVE  DeskBacked(desk[e])'
  <2>1. PICK y \in DeskStates : y = desk[e]
    BY <1>1 DEF CreationTypeOK, DeskStates
  <2>2. DeskBacked(y)'
    BY <1>1, <2>1, DeskStays DEF DesksBacked
  <2>3. QED
    BY <2>1, <2>2
<1>2. QED
  BY <1>1 DEF CreationTypeOK, DesksBacked

\* A step that writes no row of anybody's takes nothing back.
LEMMA NothingTaken ==
    ASSUME UNCHANGED <<user, session, said, beneficiary, registered, transfer, orders>>
    PROVE  Grows
<1>1. RowsStay
  BY SameRows
<1>2. SaidGrows
  BY DEF SaidGrows, SaidTo, SaidNext
<1>3. BeneficiariesGrow /\ TransfersGrow
  BY DEF BeneficiariesGrow, TransfersGrow
<1>4. QED
  BY <1>1, <1>2, <1>3 DEF Grows

\* Rows that stay the same stay backed.
LEMMA SameTransfers ==
    ASSUME CreationTypeOK, TransfersBacked, Grows, UNCHANGED transfer
    PROVE  TransfersBacked'
<1>1. ASSUME NEW i \in DOMAIN transfer
      PROVE  RowBacked(transfer[i])'
  <2>1. transfer[i] \in Transfer
    BY LenProperties, ElementOfSeq DEF CreationTypeOK
  <2>2. PICK row \in Transfer : row = transfer[i]
    BY <2>1
  <2>3. RowBacked(row)'
    BY <2>2, RowStays DEF TransfersBacked
  <2>4. QED
    BY <2>2, <2>3
<1>2. QED
  BY <1>1 DEF TransfersBacked

\* A step of which creation sees no more than the locals of requests.
LEMMA RowsKept ==
    ASSUME CreationInv, Grows, UNCHANGED <<beneficiary, registered, transfer, answer, orders>>,
           desk' \in [Desks -> TransferDesk \cup BeneficiaryDesk \cup {DeskIdle}], DesksBacked'
    PROVE  CreationInv'
<1>1. CreationTypeOK'
  BY DEF CreationInv, CreationTypeOK
<1>2. BeneficiariesBacked' /\ TransfersBacked'
  BY SameTransfers DEF CreationInv, BeneficiariesBacked
<1>3. OneTransferPerKey' /\ OrderAwaitsPayment'
  BY DEF CreationInv, OneTransferPerKey, OrderAwaitsPayment
<1>4. QED
  BY <1>1, <1>2, <1>3 DEF CreationInv

\* Steps outside the creation of transfers keep it.
LEMMA CreationApart ==
    ASSUME CreationInv, UNCHANGED creationVars, RowsStay, SaidGrows
    PROVE  CreationInv'
<1>1. Grows
  BY DEF Grows, BeneficiariesGrow, TransfersGrow, creationVars
<1>2. QED
  BY <1>1, SameDesks, RowsKept DEF CreationInv, creationVars

\* The row of a transfer changes, but not whose it is.
LEMMA RowChanges ==
    ASSUME CreationInv, NEW i \in DOMAIN transfer, NEW row \in Transfer,
           row.user = transfer[i].user, row.account = transfer[i].account,
           row.pan = transfer[i].pan, row.key = transfer[i].key,
           row.life # "INITIATED" \/ transfer[i].life = "INITIATED",
           transfer' = [transfer EXCEPT ![i] = row],
           UNCHANGED <<user, session, said, beneficiary, registered, answer, orders>>
    PROVE  /\ transfer' \in Seq(Transfer) /\ DOMAIN transfer' = DOMAIN transfer
           /\ transfer'[i] = row
           /\ Grows
           /\ BeneficiariesBacked' /\ TransfersBacked'
           /\ OneTransferPerKey' /\ OrderAwaitsPayment'
<1> USE DEF CreationInv
<1>0. transfer \in Seq(Transfer) /\ i \in 1 .. Len(transfer)
  BY LenProperties DEF CreationTypeOK
<1>1. /\ transfer' \in Seq(Transfer) /\ DOMAIN transfer' = DOMAIN transfer
      /\ \A j \in DOMAIN transfer : transfer'[j] = IF j = i THEN row ELSE transfer[j]
  BY <1>0, ExceptSeq, LenProperties
<1>2. TransfersGrow
  BY <1>1 DEF TransfersGrow
<1>3. Grows
  BY <1>2, SameRows DEF Grows, SaidGrows, SaidTo, SaidNext, BeneficiariesGrow
<1>4. BeneficiariesBacked'
  BY DEF BeneficiariesBacked
<1>5. TransfersBacked'
  <2>1. ASSUME NEW j \in DOMAIN transfer
        PROVE  RowBacked(transfer[j])'
    <3>1. transfer[j] \in Transfer
      BY <1>0, LenProperties, ElementOfSeq
    <3>2. PICK old \in Transfer : old = transfer[j]
      BY <3>1
    <3>3. RowBacked(old)'
      BY <1>3, <3>2, RowStays DEF TransfersBacked
    <3>4. PICK new \in Transfer : new = transfer'[j]
      BY <1>1, <3>1
    <3>5. new.user = old.user /\ new.account = old.account /\ new.pan = old.pan
      BY <1>1, <3>2, <3>4
    <3>6. RowBacked(new)'
      BY <3>3, <3>5 DEF RowBacked
    <3>7. QED
      BY <3>4, <3>6
  <2>2. QED
    BY <1>1, <2>1 DEF TransfersBacked
<1>6. OneTransferPerKey'
  BY <1>1 DEF OneTransferPerKey
<1>7. OrderAwaitsPayment'
  BY <1>1 DEF OrderAwaitsPayment
<1>8. QED
  BY <1>0, <1>1, <1>3, <1>4, <1>5, <1>6, <1>7

-----------------------------------------------------------------------------
(***************************************************************************)
(* Prices.                                                                 *)
(***************************************************************************)
LEMMA NearestIsNat ==
    ASSUME NEW n \in Nat, NEW d \in Nat \ {0}, NEW q \in Nearest(n, d)
    PROVE  q \in Nat
  BY DEF Nearest

\* Every price is in whole paise, and without a tax.
LEMMA PricesAreWhole ==
    ASSUME NEW m \in Nat, NEW p \in Prices(m)
    PROVE  p \in Price /\ p.tax = 0
<1>1. PICK fee \in Nearest(15 * m, 10000) :
        p \in [net : Nearest(m, 10), fee : {fee}, tax : {0}, gross : Nearest(m + 10 * fee, 10)]
  BY DEF Prices
<1>2. fee \in Nat
  BY <1>1, NearestIsNat
<1>3. m + 10 * fee \in Nat
  BY <1>2
<1>4. p.net \in Nearest(m, 10) /\ p.gross \in Nearest(m + 10 * fee, 10)
  BY <1>1
<1>5. p.net \in Nat /\ p.gross \in Nat
  BY <1>3, <1>4, NearestIsNat
<1>6. QED
  BY <1>1, <1>2, <1>5 DEF Price

\* Whole paise are not rounded.
LEMMA NearestToWhole ==
    ASSUME NEW k \in Nat, NEW q \in Nearest(10 * k, 10)
    PROVE  q = k
<1>1. (10 * k) \div 10 = k
  BY SMT
<1>2. q \in {k, k + 1} /\ 2 * (q * 10 - 10 * k) \in -10 .. 10
  BY <1>1 DEF Nearest
<1>3. QED
  BY <1>2

\* An amount in whole paise is priced in one way, and the price balances: the
\* capture of its payment can be posted (calculatePricing, recordPaymentCaptured).
THEOREM WholePaiseBalance ==
    ASSUME NEW m \in Nat, m % 10 = 0, NEW p \in Prices(m)
    PROVE  Balanced(p)
<1>1. PICK fee \in Nearest(15 * m, 10000) :
        p \in [net : Nearest(m, 10), fee : {fee}, tax : {0}, gross : Nearest(m + 10 * fee, 10)]
  BY DEF Prices
<1>2. fee \in Nat
  BY <1>1, NearestIsNat
<1>3. PICK k \in Nat : m = 10 * k
  BY SMT
<1>4. p.net = k
  BY <1>1, <1>3, NearestToWhole
<1>5. p.gross = k + fee
  <2>1. k + fee \in Nat /\ m + 10 * fee = 10 * (k + fee)
    BY <1>2, <1>3
  <2>2. p.gross \in Nearest(10 * (k + fee), 10)
    BY <1>1, <2>1
  <2>3. QED
    BY <2>1, <2>2, NearestToWhole
<1>6. QED
  BY <1>1, <1>2, <1>4, <1>5 DEF Balanced

-----------------------------------------------------------------------------
(***************************************************************************)
(* The steps of a request.                                                 *)
(***************************************************************************)
\* A request between two steps, as it was read.
LEMMA DeskInHand ==
    ASSUME CreationInv, NEW d \in Desks, desk[d] # DeskIdle
    PROVE  \E x \in DeskStates : x = desk[d] /\ DeskBacked(x)
  BY DEF CreationInv, CreationTypeOK, DesksBacked, DeskStates

\* The two starts: the user's row passes the gates.
LEMMA BeginTransferKeeps ==
    ASSUME AccountsTypeOK, KycInv, CreationInv, NEW d \in Desks, NEW u \in Users,
           NEW a \in BankAccounts, NEW m \in Amounts, NEW k \in Keys \cup {NoKey},
           BeginTransfer(d, u, a, m, k), UNCHANGED <<session, said>>
    PROVE  CreationInv' /\ Grows
<1>1. PICK p \in Prices(m) :
        desk' = [desk EXCEPT ![d] =
                    [pc |-> FirstStep(u, a), user |-> u, account |-> a,
                     pan |-> user[u].pan, amount |-> m, price |-> p, key |-> k, txn |-> 0]]
  BY DEF BeginTransfer
<1>2. PICK pc, pan : pc = FirstStep(u, a) /\ pan = user[u].pan
  OBVIOUS
<1> DEFINE x == [pc |-> pc, user |-> u, account |-> a, pan |-> pan, amount |-> m,
                 price |-> p, key |-> k, txn |-> 0]
<1>3. user[u] # NoUser /\ HasPan(user[u]) /\ user[u].profile /\ user[u].kyc = "APPROVED"
  BY DEF BeginTransfer, MayTransfer, MayAddBeneficiary, HasPan, ProfileComplete
<1>4. pan \in Pans
  BY <1>2, <1>3, UserRows DEF HasPan
<1>5. /\ pc \in {"validate", "register", "evaluate"}
      /\ pc # "validate" => beneficiary[u][a] # NoBeneficiary
      /\ pc = "evaluate" => beneficiary[u][a].status = "VERIFIED"
  <2>1. CASE beneficiary[u][a] = NoBeneficiary
    BY <1>2, <2>1 DEF FirstStep, NoBeneficiary
  <2>2. CASE beneficiary[u][a] # NoBeneficiary /\ beneficiary[u][a].status = "VERIFIED"
    BY <1>2, <2>2 DEF FirstStep
  <2>3. CASE beneficiary[u][a] # NoBeneficiary /\ beneficiary[u][a].status # "VERIFIED"
    BY <1>2, <2>3 DEF FirstStep
  <2>4. QED
    BY <2>1, <2>2, <2>3
<1>6. m \in Nat /\ p \in Price /\ p.tax = 0
  BY PricesAreWhole, CreationAssumption DEF CreationAssumption
<1>7. x \in TransferDesk
  BY <1>4, <1>5, <1>6 DEF TransferDesk
<1>8. UNCHANGED <<accountVars, beneficiary, registered, transfer, answer, orders>>
  BY DEF BeginTransfer
<1>9. pc = "evaluate" => Ready(u, a)
  BY <1>5 DEF Ready, CreationInv, BeneficiariesBacked
<1>10. SaidTo(u, "approved")
  BY <1>3 DEF KycInv, KycNotFromAnothers
<1>11. DeskBacked(x)
  BY <1>3, <1>5, <1>6, <1>7, <1>9, <1>10 DEF DeskBacked, Beyond, Admitted, Inserted
<1>12. Grows
  BY <1>8, NothingTaken DEF accountVars
<1>13. x # DeskIdle => DeskBacked(x)'
  BY <1>7, <1>11, <1>12, DeskStays DEF DeskStates
<1>14. desk' = [desk EXCEPT ![d] = x]
  BY <1>1, <1>2
<1> HIDE DEF x
<1>15. QED
  BY <1>7, <1>8, <1>12, <1>13, <1>14, OneDesk, RowsKept DEF CreationInv, DeskStates

LEMMA BeginBeneficiaryKeeps ==
    ASSUME AccountsTypeOK, CreationInv, NEW d \in Desks, NEW u \in Users,
           NEW a \in BankAccounts, BeginBeneficiary(d, u, a), UNCHANGED <<session, said>>
    PROVE  CreationInv' /\ Grows
<1>1. PICK pc, pan : pc = FirstStep(u, a) /\ pan = user[u].pan
  OBVIOUS
<1> DEFINE x == [pc |-> pc, user |-> u, account |-> a, pan |-> pan, amount |-> 0]
<1>2. user[u] # NoUser /\ HasPan(user[u]) /\ user[u].profile
  BY DEF BeginBeneficiary, MayAddBeneficiary, HasPan, ProfileComplete
<1>3. pan \in Pans
  BY <1>1, <1>2, UserRows DEF HasPan
<1>4. /\ pc \in {"validate", "register"}
      /\ pc # "validate" => beneficiary[u][a] # NoBeneficiary
  BY <1>1 DEF BeginBeneficiary, FirstStep
<1>5. x \in BeneficiaryDesk
  BY <1>3, <1>4 DEF BeneficiaryDesk
<1>6. UNCHANGED <<accountVars, beneficiary, registered, transfer, answer, orders>>
  BY DEF BeginBeneficiary
<1>7. DeskBacked(x)
  BY <1>2, <1>4 DEF DeskBacked, Beyond, Admitted, Inserted
<1>8. Grows
  BY <1>6, NothingTaken DEF accountVars
<1>9. x # DeskIdle => DeskBacked(x)'
  BY <1>5, <1>7, <1>8, DeskStays DEF DeskStates
<1>10. desk' = [desk EXCEPT ![d] = x]
  BY <1>1 DEF BeginBeneficiary
<1> HIDE DEF x
<1>11. QED
  BY <1>5, <1>6, <1>8, <1>9, <1>10, OneDesk, RowsKept DEF CreationInv, DeskStates

\* Steps that only end a request, or fail.
LEMMA EndingKeeps ==
    ASSUME CreationInv, NEW d \in Desks, UNCHANGED <<session, said>>,
           RefuseBeneficiary(d) \/ RefuseTransfer(d) \/ RefuseKey(d) \/ RefuseOrder(d) \/ CrashDesk(d)
    PROVE  CreationInv' /\ Grows
<1>1. /\ UNCHANGED <<user, beneficiary, registered, transfer, answer, orders>>
      /\ EndDesk(d)
  BY DEF RefuseBeneficiary, RefuseTransfer, RefuseKey, RefuseOrder, CrashDesk, accountVars
<1>2. Grows
  BY <1>1, NothingTaken
<1>3. QED
  BY <1>1, <1>2, EndDeskKeeps, RowsKept DEF CreationInv

\* The beneficiary's row, its registration, and its status.
LEMMA BeneficiaryKeeps ==
    ASSUME CreationInv, NEW d \in Desks, UNCHANGED <<session, said>>,
           BeneficiariesGrow, RowsStay, registered \subseteq registered',
           beneficiary' \in [Users -> [BankAccounts -> Beneficiaries]],
           registered' \subseteq Users \X BankAccounts, BeneficiariesBacked',
           UNCHANGED <<transfer, answer, orders>>,
           NEW x \in DeskStates \cup {DeskIdle}, desk' = [desk EXCEPT ![d] = x],
           Grows /\ x # DeskIdle => DeskBacked(x)'
    PROVE  CreationInv' /\ Grows
<1>1. Grows
  BY DEF Grows, SaidGrows, SaidTo, SaidNext, TransfersGrow
<1>2. desk' \in [Desks -> TransferDesk \cup BeneficiaryDesk \cup {DeskIdle}] /\ DesksBacked'
  BY <1>1, OneDesk DEF CreationInv
<1>3. CreationTypeOK'
  BY <1>2 DEF CreationInv, CreationTypeOK
<1>4. TransfersBacked'
  BY <1>1, SameTransfers DEF CreationInv
<1>5. OneTransferPerKey' /\ OrderAwaitsPayment'
  BY DEF CreationInv, OneTransferPerKey, OrderAwaitsPayment
<1>6. QED
  BY <1>1, <1>2, <1>3, <1>4, <1>5 DEF CreationInv

\* A request that goes on keeps its other locals.
LEMMA Moved ==
    ASSUME NEW y \in DeskStates, NEW pc \in {"register", "store"} \cup Beyond,
           pc \in Beyond => y \in TransferDesk
    PROVE  LET x == [y EXCEPT !.pc = pc]
           IN  /\ x \in DeskStates /\ x # DeskIdle
               /\ y \in TransferDesk => x \in TransferDesk
               /\ x.pc = pc /\ x.user = y.user /\ x.account = y.account
               /\ x.pan = y.pan /\ x.amount = y.amount
               /\ y.amount # 0 => x.price = y.price
               /\ y \in TransferDesk => x.txn = y.txn /\ x.key = y.key
<1> DEFINE x == [y EXCEPT !.pc = pc]
<1>1. CASE y \in TransferDesk
  <2>1. x \in TransferDesk
    BY <1>1 DEF TransferDesk, Beyond
  <2>2. QED
    BY <1>1, <2>1, DeskRecords DEF DeskStates, TransferDesk
<1>2. CASE y \in BeneficiaryDesk /\ y \notin TransferDesk
  <2>1. x \in BeneficiaryDesk
    BY <1>2 DEF BeneficiaryDesk, Beyond
  <2>2. QED
    BY <1>2, <2>1, DeskRecords DEF DeskStates, BeneficiaryDesk
<1>3. QED
  BY <1>1, <1>2 DEF DeskStates

\* The row of a new beneficiary.
LEMMA InsertBeneficiaryKeeps ==
    ASSUME AccountsTypeOK, CreationInv, NEW d \in Desks, InsertBeneficiary(d),
           UNCHANGED <<session, said>>
    PROVE  CreationInv' /\ Grows
<1>1. PICK y \in DeskStates : y = desk[d] /\ DeskBacked(y)
  BY DeskInHand DEF InsertBeneficiary, DeskAt
<1> DEFINE x == [y EXCEPT !.pc = "register"]
<1>2. /\ x \in DeskStates /\ x # DeskIdle
      /\ x.pc = "register" /\ x.user = y.user /\ x.account = y.account
      /\ x.pan = y.pan /\ x.amount = y.amount /\ (y.amount # 0 => x.price = y.price)
  BY Moved DEF Beyond
<1>3. desk' = [desk EXCEPT ![d] = x]
  BY <1>1 DEF InsertBeneficiary, GoTo
<1> HIDE DEF x
<1>4. y.user \in Users /\ y.account \in BankAccounts
  BY DeskRecords
<1> DEFINE row == [status |-> "PENDING_VERIFICATION", at |-> now]
<1>5. /\ beneficiary' = [beneficiary EXCEPT ![y.user][y.account] = row]
      /\ beneficiary[y.user][y.account] = NoBeneficiary
      /\ UNCHANGED <<user, registered, transfer, answer, orders>>
  BY <1>1 DEF InsertBeneficiary, accountVars
<1>6. row \in Beneficiaries /\ row # NoBeneficiary /\ row.status # "VERIFIED"
  BY DEF AccountsTypeOK, Beneficiaries, NoBeneficiary
<1> HIDE DEF row
<1>7. /\ beneficiary' \in [Users -> [BankAccounts -> Beneficiaries]]
      /\ \A u \in Users, a \in BankAccounts :
            beneficiary'[u][a] = IF u = y.user /\ a = y.account THEN row ELSE beneficiary[u][a]
  BY <1>4, <1>5, <1>6 DEF CreationInv, CreationTypeOK
<1>8. BeneficiariesGrow
  BY <1>5, <1>7 DEF BeneficiariesGrow
<1>9. BeneficiariesBacked'
  BY <1>5, <1>6, <1>7 DEF CreationInv, BeneficiariesBacked
<1>10. RowsStay /\ registered' \subseteq Users \X BankAccounts
  BY <1>5, SameRows DEF CreationInv, CreationTypeOK
<1>11. ASSUME Grows
       PROVE  DeskBacked(x)'
  <2>1. DeskBacked(y)'
    BY <1>1, <1>11, DeskStays
  <2>2. beneficiary'[y.user][y.account] # NoBeneficiary
    BY <1>4, <1>6, <1>7
  <2>3. QED
    BY <1>2, <2>1, <2>2 DEF DeskBacked, Beyond, Admitted, Inserted
<1>12. QED
  BY <1>2, <1>3, <1>5, <1>7, <1>8, <1>9, <1>10, <1>11, BeneficiaryKeeps

LEMMA RegisterKeeps ==
    ASSUME AccountsTypeOK, CreationInv, NEW d \in Desks,
           RegisterBeneficiary(d) \/ RegisterAnswerLost(d), UNCHANGED <<session, said>>
    PROVE  CreationInv' /\ Grows
<1>1. PICK y \in DeskStates : y = desk[d] /\ DeskBacked(y)
  BY DeskInHand DEF RegisterBeneficiary, RegisterAnswerLost, DeskAt
<1>2. /\ y.user \in Users /\ y.account \in BankAccounts /\ y.pc = "register"
      /\ registered' = registered \cup {<<y.user, y.account>>}
      /\ UNCHANGED <<user, beneficiary, transfer, answer, orders>>
  BY <1>1, DeskRecords DEF RegisterBeneficiary, RegisterAnswerLost, Register, DeskAt, accountVars
<1>3. /\ BeneficiariesGrow /\ RowsStay /\ registered \subseteq registered'
      /\ beneficiary' \in [Users -> [BankAccounts -> Beneficiaries]]
      /\ registered' \subseteq Users \X BankAccounts /\ BeneficiariesBacked'
  BY <1>2, SameRows DEF BeneficiariesGrow, CreationInv, CreationTypeOK, BeneficiariesBacked
<1>4. CASE EndDesk(d)
  BY <1>2, <1>3, <1>4, BeneficiaryKeeps DEF EndDesk
<1>5. CASE GoTo(d, "store")
  <2> DEFINE x == [y EXCEPT !.pc = "store"]
  <2>1. /\ x \in DeskStates /\ x # DeskIdle
        /\ x.pc = "store" /\ x.user = y.user /\ x.account = y.account
        /\ x.pan = y.pan /\ x.amount = y.amount /\ (y.amount # 0 => x.price = y.price)
    BY Moved DEF Beyond
  <2>2. desk' = [desk EXCEPT ![d] = x]
    BY <1>1, <1>5 DEF GoTo
  <2> HIDE DEF x
  <2>3. ASSUME Grows
        PROVE  DeskBacked(x)'
    <3>1. DeskBacked(y)'
      BY <1>1, <2>3, DeskStays
    <3>2. QED
      BY <1>2, <2>1, <3>1 DEF DeskBacked, Beyond, Admitted, Inserted
  <2>4. QED
    BY <1>2, <1>3, <2>1, <2>2, <2>3, BeneficiaryKeeps
<1>6. QED
  BY <1>4, <1>5 DEF RegisterBeneficiary, RegisterAnswerLost

LEMMA StoreKeeps ==
    ASSUME AccountsTypeOK, CreationInv, NEW d \in Desks, StoreBeneficiary(d),
           UNCHANGED <<session, said>>
    PROVE  CreationInv' /\ Grows
<1>1. PICK y \in DeskStates : y = desk[d] /\ DeskBacked(y)
  BY DeskInHand DEF StoreBeneficiary, DeskAt
<1>2. /\ y.user \in Users /\ y.account \in BankAccounts /\ y.pc = "store"
      /\ beneficiary' = [beneficiary EXCEPT ![y.user][y.account].status = "VERIFIED"]
      /\ UNCHANGED <<user, registered, transfer, answer, orders>>
  BY <1>1, DeskRecords DEF StoreBeneficiary, DeskAt, accountVars
<1>3. /\ beneficiary[y.user][y.account] # NoBeneficiary
      /\ <<y.user, y.account>> \in registered
  BY <1>1, <1>2 DEF DeskBacked
<1>4. PICK row \in Beneficiaries :
        /\ row = [beneficiary[y.user][y.account] EXCEPT !.status = "VERIFIED"]
        /\ row # NoBeneficiary /\ row.status = "VERIFIED"
  BY <1>2, <1>3 DEF CreationInv, CreationTypeOK, Beneficiaries, NoBeneficiary
<1>5. /\ beneficiary' \in [Users -> [BankAccounts -> Beneficiaries]]
      /\ \A u \in Users, a \in BankAccounts :
            beneficiary'[u][a] = IF u = y.user /\ a = y.account THEN row ELSE beneficiary[u][a]
  BY <1>2, <1>4 DEF CreationInv, CreationTypeOK
<1>6. /\ BeneficiariesGrow /\ RowsStay /\ registered \subseteq registered'
      /\ registered' \subseteq Users \X BankAccounts /\ BeneficiariesBacked'
  BY <1>2, <1>3, <1>4, <1>5, SameRows
     DEF BeneficiariesGrow, CreationInv, CreationTypeOK, BeneficiariesBacked
<1>7. CASE EndDesk(d)
  BY <1>2, <1>5, <1>6, <1>7, BeneficiaryKeeps DEF EndDesk
<1>8. CASE GoTo(d, "evaluate") /\ desk[d].amount # 0
  <2> DEFINE x == [y EXCEPT !.pc = "evaluate"]
  <2>0. y \in TransferDesk
    BY <1>1, <1>8, DeskRecords
  <2>1. /\ x \in DeskStates /\ x # DeskIdle /\ x \in TransferDesk
        /\ x.pc = "evaluate" /\ x.user = y.user /\ x.account = y.account
        /\ x.pan = y.pan /\ x.amount = y.amount /\ (y.amount # 0 => x.price = y.price)
    BY <2>0, Moved DEF Beyond
  <2>2. desk' = [desk EXCEPT ![d] = x]
    BY <1>1, <1>8 DEF GoTo
  <2> HIDE DEF x
  <2>3. ASSUME Grows
        PROVE  DeskBacked(x)'
    <3>1. DeskBacked(y)'
      BY <1>1, <2>3, DeskStays
    <3>2. Ready(y.user, y.account)'
      BY <1>2, <1>3, <1>4, <1>5 DEF Ready
    <3>3. QED
      BY <2>1, <3>1, <3>2 DEF DeskBacked, Beyond, Admitted, Inserted
  <2>4. QED
    BY <1>2, <1>5, <1>6, <2>1, <2>2, <2>3, BeneficiaryKeeps
<1>9. QED
  BY <1>7, <1>8 DEF StoreBeneficiary

\* The transfer is let in.
LEMMA EvaluateKeeps ==
    ASSUME CreationInv, NEW d \in Desks, Evaluate(d), UNCHANGED <<session, said>>
    PROVE  CreationInv' /\ Grows
<1>1. PICK y \in DeskStates : y = desk[d] /\ DeskBacked(y)
  BY DeskInHand DEF Evaluate, DeskAt
<1>2. /\ UNCHANGED <<user, beneficiary, registered, transfer, answer, orders>>
      /\ y.pc = "evaluate" /\ y \in TransferDesk
      /\ Foreign(y.pan, y.account)
  BY <1>1, DeskRecords DEF Evaluate, DeskAt, ToSelf, Foreign, accountVars
<1>3. Grows
  BY <1>2, NothingTaken
<1> DEFINE x == [y EXCEPT !.pc = "insert"]
<1>4. /\ x \in DeskStates /\ x # DeskIdle /\ x \in TransferDesk
      /\ x.pc = "insert" /\ x.user = y.user /\ x.account = y.account
      /\ x.pan = y.pan /\ x.amount = y.amount /\ (y.amount # 0 => x.price = y.price)
  BY <1>2, Moved DEF Beyond
<1>5. desk' = [desk EXCEPT ![d] = x]
  BY <1>1 DEF Evaluate, GoTo
<1> HIDE DEF x
<1>6. DeskBacked(x)'
  <2>1. DeskBacked(y)'
    BY <1>1, <1>3, DeskStays
  <2>2. QED
    BY <1>2, <1>4, <2>1 DEF DeskBacked, Foreign, Beyond, Admitted, Inserted
<1>7. QED
  BY <1>2, <1>3, <1>4, <1>5, <1>6, OneDesk, RowsKept DEF CreationInv

-----------------------------------------------------------------------------
(***************************************************************************)
(* The transaction row, the order and the answer.                          *)
(***************************************************************************)
\* A request in the middle of these has a transfer to make.
LEMMA TransferInHand ==
    ASSUME CreationInv, NEW d \in Desks, desk[d] # DeskIdle, desk[d].pc \in Beyond
    PROVE  \E x \in TransferDesk : x = desk[d] /\ x \in DeskStates /\ DeskBacked(x)
<1>1. PICK x \in DeskStates : x = desk[d] /\ DeskBacked(x)
  BY DeskInHand
<1>2. QED
  BY <1>1 DEF DeskBacked

LEMMA InsertTransferKeeps ==
    ASSUME AccountsTypeOK, CreationInv, NEW d \in Desks, InsertTransfer(d),
           UNCHANGED <<session, said>>
    PROVE  CreationInv' /\ Grows
<1> USE DEF CreationInv
<1>1. PICK y \in TransferDesk : y = desk[d] /\ y \in DeskStates /\ DeskBacked(y) /\ y.pc = "insert"
  BY TransferInHand DEF InsertTransfer, DeskAt, Beyond
<1> DEFINE row == [user |-> y.user, account |-> y.account, pan |-> y.pan, price |-> y.price,
                   key |-> y.key, life |-> "INITIATED", at |-> now, paidAt |-> 0,
                   ordered |-> FALSE]
           n == Len(transfer) + 1
<1>2. /\ transfer' = Append(transfer, row) /\ KeyFree(y.key)
      /\ desk' = [desk EXCEPT ![d].pc = "pend", ![d].txn = n]
      /\ UNCHANGED <<user, beneficiary, registered, answer, orders>>
  BY <1>1 DEF InsertTransfer, accountVars
<1>3. /\ row.user = y.user /\ row.account = y.account /\ row.pan = y.pan /\ row.key = y.key
      /\ row \in Transfer
  BY <1>1, DeskRecords DEF Transfer, LifeStates, AccountsTypeOK
<1>4. transfer \in Seq(Transfer) /\ DOMAIN transfer = 1 .. Len(transfer) /\ n \in Nat \ {0}
  BY LenProperties DEF CreationTypeOK
<1> HIDE DEF row
<1>5. /\ transfer' \in Seq(Transfer) /\ DOMAIN transfer' = 1 .. n
      /\ transfer'[n] = row
      /\ \A i \in DOMAIN transfer : transfer'[i] = transfer[i] /\ i \in DOMAIN transfer' /\ i # n
  BY <1>2, <1>3, <1>4
<1>6. Grows
  BY <1>2, <1>5, SameRows
     DEF Grows, TransfersGrow, SaidGrows, SaidTo, SaidNext, BeneficiariesGrow
<1>7. PICK m \in Nat : m = n
  BY <1>4
<1> DEFINE z == [y EXCEPT !.pc = "pend", !.txn = m]
<1>8. /\ z \in TransferDesk /\ z.pc = "pend" /\ z.user = y.user /\ z.account = y.account
      /\ z.pan = y.pan /\ z.amount = y.amount /\ z.price = y.price
      /\ z.key = y.key /\ z.txn = m
  BY <1>1 DEF TransferDesk
<1>9. desk' = [desk EXCEPT ![d] = z]
  BY <1>1, <1>2, <1>7
<1> HIDE DEF z
<1>10. DeskBacked(z)'
  <2>1. DeskBacked(y)'
    BY <1>1, <1>6, DeskStays
  <2>2. z.txn \in DOMAIN transfer' /\ transfer'[z.txn].key = z.key
    BY <1>3, <1>4, <1>5, <1>7, <1>8
  <2>3. QED
    BY <1>1, <1>8, <2>1, <2>2 DEF DeskBacked, Beyond, Admitted, Inserted, Ready
<1>11. desk' \in [Desks -> TransferDesk \cup BeneficiaryDesk \cup {DeskIdle}] /\ DesksBacked'
  BY <1>6, <1>8, <1>9, <1>10, OneDesk DEF DeskStates
<1>12. CreationTypeOK'
  BY <1>2, <1>5, <1>11 DEF CreationTypeOK
<1>13. BeneficiariesBacked'
  BY <1>2 DEF BeneficiariesBacked
<1>14. TransfersBacked'
  <2>1. ASSUME NEW i \in DOMAIN transfer
        PROVE  RowBacked(transfer[i])'
    <3>1. PICK old \in Transfer : old = transfer[i]
      BY <1>4, ElementOfSeq
    <3>2. RowBacked(old)'
      BY <1>6, <3>1, RowStays DEF TransfersBacked
    <3>3. QED
      BY <1>5, <3>1, <3>2
  <2>2. RowBacked(transfer[m])'
    <3>1. PICK new \in Transfer : new = row
      BY <1>3
    <3>2. RowBacked(new)
      BY <1>1, <1>3, <3>1, DeskRecords DEF DeskBacked, RowBacked, Beyond, Admitted
    <3>3. RowBacked(new)'
      BY <1>6, <3>2, RowStays
    <3>4. transfer'[m] = new
      BY <1>5, <1>7, <3>1
    <3>5. QED
      BY <3>3, <3>4
  <2>3. \A i \in DOMAIN transfer' : i \in DOMAIN transfer \/ i = m
    BY <1>4, <1>5, <1>7
  <2>4. QED
    BY <2>1, <2>2, <2>3 DEF TransfersBacked
<1>15. OneTransferPerKey'
  <2>1. ASSUME NEW i \in DOMAIN transfer', NEW j \in DOMAIN transfer',
               transfer'[i].key = transfer'[j].key, transfer'[i].key # NoKey
        PROVE  i = j
    BY <1>2, <1>3, <1>4, <1>5, <2>1 DEF OneTransferPerKey, KeyFree
  <2>2. ASSUME NEW k \in Keys, answer'[k] # NoAnswer
        PROVE  /\ answer'[k].txn \in DOMAIN transfer'
               /\ transfer'[answer'[k].txn].key = k
               /\ answer'[k].txn \in orders'
    BY <1>2, <1>5, <2>2 DEF OneTransferPerKey
  <2>3. QED
    BY <2>1, <2>2 DEF OneTransferPerKey
<1>16. OrderAwaitsPayment'
  BY <1>2, <1>5 DEF OrderAwaitsPayment
<1>17. QED
  BY <1>6, <1>11, <1>12, <1>13, <1>14, <1>15, <1>16

\* A request goes on after its transfer's row has changed.
LEMMA RequestGoesOn ==
    ASSUME CreationInv, NEW d \in Desks, NEW y \in TransferDesk, NEW pc \in Inserted,
           DeskBacked(y), y.pc \in Inserted, desk' = [desk EXCEPT ![d] = [y EXCEPT !.pc = pc]],
           Grows,
           pc # "pend" => transfer'[y.txn].life # "INITIATED",
           pc \in {"note", "save"} => y.txn \in orders',
           pc = "save" => y.key # NoKey
    PROVE  desk' \in [Desks -> TransferDesk \cup BeneficiaryDesk \cup {DeskIdle}] /\ DesksBacked'
<1> DEFINE x == [y EXCEPT !.pc = pc]
<1>0. y \in DeskStates
  BY DEF DeskStates
<1>1. y \in DeskStates /\ y.amount # 0
  BY <1>0, DeskRecords
<1>2. /\ x \in DeskStates /\ x # DeskIdle /\ x \in TransferDesk
      /\ x.pc = pc /\ x.user = y.user /\ x.account = y.account
      /\ x.pan = y.pan /\ x.amount = y.amount /\ x.price = y.price
      /\ x.txn = y.txn /\ x.key = y.key
  BY <1>1, Moved DEF Beyond, Inserted
<1>3. DeskBacked(y)'
  BY <1>1, DeskStays
<1> HIDE DEF x
<1>4. DeskBacked(x)'
  BY <1>2, <1>3 DEF DeskBacked, Beyond, Admitted, Inserted, Ready
<1>5. desk' = [desk EXCEPT ![d] = x]
  BY DEF x
<1>6. QED
  BY <1>2, <1>4, <1>5, OneDesk DEF CreationInv

LEMMA WaitForPaymentKeeps ==
    ASSUME CreationInv, NEW d \in Desks, WaitForPayment(d), UNCHANGED <<session, said>>
    PROVE  CreationInv' /\ Grows
<1>1. PICK y \in TransferDesk : y = desk[d] /\ DeskBacked(y) /\ y.pc = "pend"
  BY TransferInHand DEF WaitForPayment, DeskAt, Beyond
<1>2. PICK i \in DOMAIN transfer : i = y.txn
  BY <1>1 DEF DeskBacked, Inserted
<1> DEFINE row == [transfer[i] EXCEPT !.life = "PAYMENT_PENDING"]
<1>3. /\ row \in Transfer
      /\ row.user = transfer[i].user /\ row.account = transfer[i].account
      /\ row.pan = transfer[i].pan /\ row.key = transfer[i].key
      /\ row.life = "PAYMENT_PENDING"
  <2>1. transfer[i] \in Transfer /\ "PAYMENT_PENDING" \in LifeStates
    BY LenProperties, ElementOfSeq DEF CreationInv, CreationTypeOK, LifeStates
  <2>2. QED
    BY <2>1 DEF Transfer
<1>4. transfer' = [transfer EXCEPT ![i] = row]
  BY <1>1, <1>2 DEF WaitForPayment
<1> HIDE DEF row
<1>5. UNCHANGED <<user, session, said, beneficiary, registered, answer, orders>>
  BY DEF WaitForPayment, accountVars
<1>6. /\ transfer' \in Seq(Transfer) /\ transfer'[i] = row /\ Grows
      /\ BeneficiariesBacked' /\ TransfersBacked' /\ OneTransferPerKey' /\ OrderAwaitsPayment'
  BY <1>3, <1>4, <1>5, RowChanges
<1>7. desk' = [desk EXCEPT ![d] = [y EXCEPT !.pc = "order"]]
  BY <1>1 DEF WaitForPayment, GoTo
<1>8. desk' \in [Desks -> TransferDesk \cup BeneficiaryDesk \cup {DeskIdle}] /\ DesksBacked'
  BY <1>1, <1>2, <1>3, <1>6, <1>7, RequestGoesOn DEF Inserted
<1>9. QED
  BY <1>5, <1>6, <1>8 DEF CreationInv, CreationTypeOK

\* The gateway takes the order, whether or not its answer arrives.
LEMMA OrderKeeps ==
    ASSUME CreationInv, NEW d \in Desks, CreateOrder(d) \/ OrderAnswerLost(d),
           UNCHANGED <<session, said>>
    PROVE  CreationInv' /\ Grows
<1>1. PICK y \in TransferDesk : y = desk[d] /\ DeskBacked(y) /\ y.pc = "order"
  BY TransferInHand DEF CreateOrder, OrderAnswerLost, DeskAt, Beyond
<1>2. /\ orders' = orders \cup {y.txn}
      /\ UNCHANGED <<user, beneficiary, registered, transfer, answer>>
  BY <1>1 DEF CreateOrder, OrderAnswerLost, accountVars
<1>3. y.txn \in DOMAIN transfer /\ y.txn \in Nat /\ transfer[y.txn].life # "INITIATED"
  BY <1>1 DEF DeskBacked, Inserted, TransferDesk
<1>4. Grows
  BY <1>2, SameRows
     DEF Grows, SaidGrows, SaidTo, SaidNext, BeneficiariesGrow, TransfersGrow
<1>5. desk' \in [Desks -> TransferDesk \cup BeneficiaryDesk \cup {DeskIdle}] /\ DesksBacked'
  <2>1. CASE EndDesk(d)
    BY <1>4, <2>1, EndDeskKeeps DEF CreationInv
  <2>2. CASE GoTo(d, "note")
    <3>1. desk' = [desk EXCEPT ![d] = [y EXCEPT !.pc = "note"]]
      BY <1>1, <2>2 DEF GoTo
    <3>2. QED
      BY <1>1, <1>2, <1>3, <1>4, <3>1, RequestGoesOn DEF Inserted
  <2>3. QED
    BY <2>1, <2>2 DEF CreateOrder, OrderAnswerLost
<1>6. BeneficiariesBacked' /\ TransfersBacked'
  BY <1>2, <1>4, SameTransfers DEF CreationInv, BeneficiariesBacked
<1>7. OneTransferPerKey' /\ OrderAwaitsPayment'
  BY <1>2, <1>3 DEF CreationInv, OneTransferPerKey, OrderAwaitsPayment
<1>8. QED
  BY <1>2, <1>3, <1>4, <1>5, <1>6, <1>7 DEF CreationInv, CreationTypeOK

LEMMA NoteOrderKeeps ==
    ASSUME CreationInv, NEW d \in Desks, NoteOrder(d), UNCHANGED <<session, said>>
    PROVE  CreationInv' /\ Grows
<1>1. PICK y \in TransferDesk : y = desk[d] /\ DeskBacked(y) /\ y.pc = "note"
  BY TransferInHand DEF NoteOrder, DeskAt, Beyond
<1>2. PICK i \in DOMAIN transfer : i = y.txn
  BY <1>1 DEF DeskBacked, Inserted
<1> DEFINE row == [transfer[i] EXCEPT !.ordered = TRUE]
<1>3. /\ row \in Transfer
      /\ row.user = transfer[i].user /\ row.account = transfer[i].account
      /\ row.pan = transfer[i].pan /\ row.key = transfer[i].key
      /\ row.life = transfer[i].life /\ row.life # "INITIATED"
  <2>1. transfer[i] \in Transfer
    BY LenProperties, ElementOfSeq DEF CreationInv, CreationTypeOK
  <2>2. transfer[i].life # "INITIATED"
    BY <1>1, <1>2 DEF DeskBacked
  <2>3. QED
    BY <2>1, <2>2 DEF Transfer
<1>4. transfer' = [transfer EXCEPT ![i] = row]
  BY <1>1, <1>2 DEF NoteOrder
<1> HIDE DEF row
<1>5. UNCHANGED <<user, session, said, beneficiary, registered, answer, orders>>
  BY DEF NoteOrder, accountVars
<1>6. /\ transfer' \in Seq(Transfer) /\ transfer'[i] = row /\ Grows
      /\ BeneficiariesBacked' /\ TransfersBacked' /\ OneTransferPerKey' /\ OrderAwaitsPayment'
  BY <1>3, <1>4, <1>5, RowChanges
<1>7. desk' \in [Desks -> TransferDesk \cup BeneficiaryDesk \cup {DeskIdle}] /\ DesksBacked'
  <2>1. CASE EndDesk(d)
    BY <1>6, <2>1, EndDeskKeeps DEF CreationInv
  <2>2. CASE GoTo(d, "save") /\ y.key # NoKey
    <3>1. desk' = [desk EXCEPT ![d] = [y EXCEPT !.pc = "save"]]
      BY <1>1, <2>2 DEF GoTo
    <3>2. y.txn \in orders'
      BY <1>1, <1>5 DEF DeskBacked
    <3>3. QED
      BY <1>1, <1>2, <1>3, <1>6, <2>2, <3>1, <3>2, RequestGoesOn DEF Inserted
  <2>3. QED
    BY <1>1, <2>1, <2>2 DEF NoteOrder
<1>8. QED
  BY <1>5, <1>6, <1>7 DEF CreationInv, CreationTypeOK

LEMMA SaveAnswerKeeps ==
    ASSUME CreationInv, NEW d \in Desks, SaveAnswer(d), UNCHANGED <<session, said>>
    PROVE  CreationInv' /\ Grows
<1>1. PICK y \in TransferDesk : y = desk[d] /\ DeskBacked(y) /\ y.pc = "save"
  BY TransferInHand DEF SaveAnswer, DeskAt, Beyond
<1>2. /\ y.txn \in DOMAIN transfer /\ transfer[y.txn].key = y.key /\ y.txn \in orders
      /\ y.key \in Keys /\ y.account \in BankAccounts /\ y.amount \in Amounts
  BY <1>1 DEF DeskBacked, Inserted, TransferDesk
<1> DEFINE x == [account |-> y.account, amount |-> y.amount, txn |-> y.txn]
<1>3. y.txn \in Nat \ {0}
  BY <1>2, LenProperties DEF CreationInv, CreationTypeOK
<1>4. x \in Answer /\ x.txn = y.txn
  BY <1>2, <1>3 DEF Answer
<1>5. /\ answer' = [answer EXCEPT ![y.key] = x]
      /\ EndDesk(d)
      /\ UNCHANGED <<user, beneficiary, registered, transfer, orders>>
  BY <1>1 DEF SaveAnswer, accountVars
<1> HIDE DEF x
<1>6. Grows
  BY <1>5, NothingTaken
<1>7. desk' \in [Desks -> TransferDesk \cup BeneficiaryDesk \cup {DeskIdle}] /\ DesksBacked'
  BY <1>5, <1>6, EndDeskKeeps DEF CreationInv
<1>8. /\ answer' \in [Keys -> Answer \cup {NoAnswer}]
      /\ \A k \in Keys : answer'[k] = IF k = y.key THEN x ELSE answer[k]
  BY <1>2, <1>4, <1>5 DEF CreationInv, CreationTypeOK
<1>9. OneTransferPerKey' /\ OrderAwaitsPayment'
  BY <1>2, <1>4, <1>5, <1>8 DEF CreationInv, OneTransferPerKey, OrderAwaitsPayment
<1>10. BeneficiariesBacked' /\ TransfersBacked'
  BY <1>5, <1>6, SameTransfers DEF CreationInv, BeneficiariesBacked
<1>11. QED
  BY <1>5, <1>6, <1>7, <1>8, <1>9, <1>10 DEF CreationInv, CreationTypeOK

\* What becomes of the payment and the payout.
LEMMA EndsKeep ==
    ASSUME AccountsTypeOK, CreationInv, NEW i \in DOMAIN transfer,
           PayoutFails(i) \/ PaymentEnds(i, "PAYMENT_SUCCESS") \/ PaymentEnds(i, "PAYMENT_FAILED"),
           UNCHANGED <<session, said>>
    PROVE  CreationInv' /\ Grows
<1>1. transfer[i] \in Transfer /\ transfer[i].life \in {"PAYMENT_PENDING", "PAYMENT_SUCCESS"}
  BY LenProperties, ElementOfSeq DEF CreationInv, CreationTypeOK, PayoutFails, PaymentEnds
<1>2. UNCHANGED <<user, session, said, beneficiary, registered, answer, orders, desk>>
  BY DEF PayoutFails, PaymentEnds, accountVars
<1>3. PICK row \in Transfer :
        /\ row.user = transfer[i].user /\ row.account = transfer[i].account
        /\ row.pan = transfer[i].pan /\ row.key = transfer[i].key
        /\ row.life # "INITIATED"
        /\ transfer' = [transfer EXCEPT ![i] = row]
  <2>1. CASE PayoutFails(i)
    <3> DEFINE row == [transfer[i] EXCEPT !.life = "PAYOUT_FAILED"]
    <3>1. /\ row \in Transfer /\ row.life = "PAYOUT_FAILED"
          /\ row.user = transfer[i].user /\ row.account = transfer[i].account
          /\ row.pan = transfer[i].pan /\ row.key = transfer[i].key
      BY <1>1 DEF Transfer, LifeStates
    <3>2. transfer' = [transfer EXCEPT ![i] = row]
      BY <2>1 DEF PayoutFails
    <3>3. QED
      BY <3>1, <3>2
  <2>2. ASSUME NEW state \in {"PAYMENT_SUCCESS", "PAYMENT_FAILED"}, PaymentEnds(i, state)
        PROVE  \E row \in Transfer :
                  /\ row.user = transfer[i].user /\ row.account = transfer[i].account
                  /\ row.pan = transfer[i].pan /\ row.key = transfer[i].key
                  /\ row.life # "INITIATED"
                  /\ transfer' = [transfer EXCEPT ![i] = row]
    <3>1. PICK paidAt \in Nat :
            paidAt = IF state = "PAYMENT_SUCCESS" THEN now ELSE transfer[i].paidAt
      BY <1>1 DEF Transfer, AccountsTypeOK
    <3> DEFINE row == [transfer[i] EXCEPT !.life = state, !.paidAt = paidAt]
    <3>2. /\ row \in Transfer /\ row.life = state
          /\ row.user = transfer[i].user /\ row.account = transfer[i].account
          /\ row.pan = transfer[i].pan /\ row.key = transfer[i].key
      BY <1>1 DEF Transfer, LifeStates
    <3>3. transfer' = [transfer EXCEPT ![i] = row]
      BY <2>2, <3>1 DEF PaymentEnds
    <3>4. QED
      BY <3>2, <3>3
  <2>3. QED
    BY <2>1, <2>2
<1>4. /\ transfer' \in Seq(Transfer) /\ Grows
      /\ BeneficiariesBacked' /\ TransfersBacked' /\ OneTransferPerKey' /\ OrderAwaitsPayment'
  BY <1>2, <1>3, RowChanges
<1>5. desk' \in [Desks -> TransferDesk \cup BeneficiaryDesk \cup {DeskIdle}] /\ DesksBacked'
  BY <1>2, <1>4, SameDesks DEF CreationInv
<1>6. QED
  BY <1>2, <1>4, <1>5 DEF CreationInv, CreationTypeOK

-----------------------------------------------------------------------------
(***************************************************************************)
(* All of it.                                                              *)
(***************************************************************************)
LEMMA CreationKeeps ==
    ASSUME AccountsTypeOK, KycInv, CreationInv, CreationNext, UNCHANGED kycVars
    PROVE  AccountsTypeOK' /\ KycInv' /\ CreationInv'
<1>0. UNCHANGED <<session, said>>
  BY DEF kycVars
<1>1. CreationInv'
  <2>1. ASSUME NEW d \in Desks, DeskStep(d)
        PROVE  CreationInv'
    <3>1. ASSUME NEW u \in Users, NEW a \in BankAccounts, BeginBeneficiary(d, u, a)
          PROVE  CreationInv'
      BY <1>0, <3>1, BeginBeneficiaryKeeps
    <3>2. ASSUME NEW u \in Users, NEW a \in BankAccounts, NEW m \in Amounts,
                 NEW k \in Keys \cup {NoKey}, BeginTransfer(d, u, a, m, k)
          PROVE  CreationInv'
      BY <1>0, <3>2, BeginTransferKeeps
    <3>3. CASE InsertBeneficiary(d) \/ RegisterBeneficiary(d) \/ RegisterAnswerLost(d)
                 \/ StoreBeneficiary(d) \/ Evaluate(d)
      BY <1>0, <3>3, InsertBeneficiaryKeeps, RegisterKeeps, StoreKeeps, EvaluateKeeps
    <3>4. CASE RefuseBeneficiary(d) \/ RefuseTransfer(d) \/ RefuseKey(d) \/ RefuseOrder(d)
      BY <1>0, <3>4, EndingKeeps
    <3>5. CASE InsertTransfer(d) \/ WaitForPayment(d)
      BY <1>0, <3>5, InsertTransferKeeps, WaitForPaymentKeeps
    <3>6. CASE CreateOrder(d) \/ OrderAnswerLost(d) \/ NoteOrder(d) \/ SaveAnswer(d)
      BY <1>0, <3>6, OrderKeeps, NoteOrderKeeps, SaveAnswerKeeps
    <3>7. QED
      BY <2>1, <3>1, <3>2, <3>3, <3>4, <3>5, <3>6 DEF DeskStep
  <2>2. ASSUME NEW d \in Desks, CrashDesk(d)
        PROVE  CreationInv'
    BY <1>0, <2>2, EndingKeeps
  <2>3. ASSUME NEW i \in DOMAIN transfer,
               PayoutFails(i) \/ \E state \in {"PAYMENT_SUCCESS", "PAYMENT_FAILED"} :
                                    PaymentEnds(i, state)
        PROVE  CreationInv'
    BY <1>0, <2>3, EndsKeep
  <2>4. QED
    BY <2>1, <2>2, <2>3 DEF CreationNext
<1>2. UNCHANGED <<user, now>> /\ (UNCHANGED faults \/ Fault)
  <2> USE DEF accountVars
  <2>1. ASSUME NEW d \in Desks, DeskStep(d)
        PROVE  UNCHANGED <<user, now>> /\ (UNCHANGED faults \/ Fault)
    <3>1. CASE RegisterAnswerLost(d) \/ OrderAnswerLost(d)
      BY <3>1 DEF RegisterAnswerLost, OrderAnswerLost
    <3>2. CASE InsertBeneficiary(d) \/ RegisterBeneficiary(d) \/ StoreBeneficiary(d)
                 \/ RefuseBeneficiary(d) \/ Evaluate(d) \/ RefuseTransfer(d)
      BY <3>2 DEF InsertBeneficiary, RegisterBeneficiary, StoreBeneficiary,
                  RefuseBeneficiary, Evaluate, RefuseTransfer
    <3>3. CASE InsertTransfer(d) \/ RefuseKey(d) \/ WaitForPayment(d) \/ CreateOrder(d)
                 \/ RefuseOrder(d) \/ NoteOrder(d) \/ SaveAnswer(d)
      BY <3>3 DEF InsertTransfer, RefuseKey, WaitForPayment, CreateOrder, RefuseOrder,
                  NoteOrder, SaveAnswer
    <3>4. ASSUME NEW u \in Users, NEW a \in BankAccounts,
                 BeginBeneficiary(d, u, a)
                   \/ \E m \in Amounts, k \in Keys \cup {NoKey} : BeginTransfer(d, u, a, m, k)
          PROVE  UNCHANGED accountVars
      BY <3>4 DEF BeginBeneficiary, BeginTransfer
    <3>5. QED
      BY <2>1, <3>1, <3>2, <3>3, <3>4 DEF DeskStep
  <2>2. ASSUME NEW d \in Desks, CrashDesk(d)
        PROVE  UNCHANGED <<user, now>> /\ Fault
    BY <2>2 DEF CrashDesk
  <2>3. ASSUME NEW i \in DOMAIN transfer,
               PayoutFails(i) \/ \E state \in {"PAYMENT_SUCCESS", "PAYMENT_FAILED"} :
                                    PaymentEnds(i, state)
        PROVE  UNCHANGED accountVars
    BY <2>3 DEF PayoutFails, PaymentEnds
  <2>4. QED
    BY <2>1, <2>2, <2>3 DEF CreationNext
<1>3. AccountsTypeOK'
  BY <1>2, FaultCounted DEF AccountsTypeOK
<1>4. KycInv'
  BY <1>2, SameRows, KycApart
<1>5. QED
  BY <1>1, <1>3, <1>4

LEMMA InitAdmission == AdmissionInit => AdmissionInv
<1> SUFFICES ASSUME AdmissionInit PROVE AdmissionInv
  OBVIOUS
<1>1. AccountsTypeOK
  BY AccountsAssumption DEF AdmissionInit, AccountsInit, AccountsTypeOK, AccountsAssumption
<1>2. IdentityTypeOK
  BY DEF AdmissionInit, IdentityInit, IdentityTypeOK, ClientStates
<1>3. KycInv
  BY DEF AdmissionInit, AccountsInit, KycInit, KycInv, KycTypeOK, OfficerStates,
         SessionsBacked, OfficersBacked, KycNotFromAnothers
<1>4. CreationInv
  BY DEF AdmissionInit, CreationInit, CreationInv, CreationTypeOK, Beneficiaries,
         DesksBacked, BeneficiariesBacked, TransfersBacked, OneTransferPerKey,
         OrderAwaitsPayment
<1>5. QED
  BY <1>1, <1>2, <1>3, <1>4 DEF AdmissionInv

LEMMA NextAdmission == AdmissionInv /\ [AdmissionNext]_admissionVars => AdmissionInv'
<1> SUFFICES ASSUME AdmissionInv, [AdmissionNext]_admissionVars PROVE AdmissionInv'
  OBVIOUS
<1> USE DEF AdmissionInv
<1>1. ASSUME UNCHANGED <<session, said>>
      PROVE  SaidGrows
  BY <1>1 DEF SaidGrows, SaidTo, SaidNext
<1>2. CASE AccountsStep
  <2>1. AccountsTypeOK' /\ RowsStay /\ KycStays
    BY <1>2, AccountsTypes DEF AccountsStep
  <2>2. KycInv' /\ CreationInv'
    BY <1>1, <1>2, <2>1, KycApart, CreationApart DEF AccountsStep, kycVars
  <2>3. QED
    BY <1>2, <2>1, <2>2 DEF AccountsStep, identityVars, IdentityTypeOK
<1>3. CASE IdentityStep
  <2>1. AccountsTypeOK' /\ IdentityTypeOK' /\ RowsStay /\ KycStays
    BY <1>3, IdentityTypes DEF IdentityStep
  <2>2. QED
    BY <1>1, <1>3, <2>1, KycApart, CreationApart DEF IdentityStep, kycVars
<1>4. CASE KycStep
  <2>1. AccountsTypeOK' /\ KycInv' /\ RowsStay /\ SaidGrows
    BY <1>4, KycTypes, KycSaysMore DEF KycStep
  <2>2. QED
    BY <1>4, <2>1, CreationApart DEF KycStep, identityVars, IdentityTypeOK
<1>5. CASE CreationStep
  BY <1>5, CreationKeeps DEF CreationStep, identityVars, IdentityTypeOK
<1>6. CASE UNCHANGED admissionVars
  <2>1. UNCHANGED <<user, now, faults, token, client>> /\ UNCHANGED kycVars /\ UNCHANGED creationVars
    BY <1>6 DEF admissionVars, accountVars, identityVars
  <2>2. KycInv' /\ CreationInv'
    BY <1>1, <2>1, SameRows, KycApart, CreationApart DEF kycVars
  <2>3. QED
    BY <2>1, <2>2 DEF AccountsTypeOK, IdentityTypeOK
<1>7. QED
  BY <1>2, <1>3, <1>4, <1>5, <1>6 DEF AdmissionNext

LEMMA AdmissionInvariant == AdmissionSpec => []AdmissionInv
  BY InitAdmission, NextAdmission, PTL DEF AdmissionSpec

\* Every variable of the system keeps its type: no handler uses a row that is
\* not there, and every price that is stored is in whole paise.
THEOREM AdmissionTypesKept == AdmissionSpec => []AdmissionTypeOK
<1>1. AdmissionInv => AdmissionTypeOK
  BY DEF AdmissionInv, KycInv, CreationInv, AdmissionTypeOK
<1>2. QED
  BY <1>1, AdmissionInvariant, PTL

\* What User.kycStatus claims, the provider has said of a session that names the
\* user or nobody, in whatever order the writes of DiditService arrive: for any
\* number of users, sessions and handlers, no other user's session gets there.
THEOREM KycFollowsSessions == AdmissionSpec => []KycNotFromAnothers
<1>1. AdmissionInv => KycNotFromAnothers
  BY DEF AdmissionInv, KycInv
<1>2. QED
  BY <1>1, AdmissionInvariant, PTL

\* While every session names a user, as those of createSession do, a user is
\* verified by the user's own; syncSession accepts a session that names nobody for
\* whoever asks, so that the hypothesis is needed.
AllNamed == \A s \in Sessions : session[s] # NoSession => session[s].user # Nobody

THEOREM NamedSessionsDecide == AdmissionSpec => [](AllNamed => KycFromOwnSession)
<1>1. ASSUME KycNotFromAnothers, AllNamed,
             NEW u \in Users, user[u] # NoUser, user[u].kyc = "APPROVED"
      PROVE  \E s \in Sessions : /\ session[s] # NoSession
                                 /\ session[s].user = u /\ "approved" \in said[s]
  <2>1. SaidTo(u, "approved")
    BY <1>1 DEF KycNotFromAnothers
  <2>2. QED
    BY <1>1, <2>1 DEF SaidTo, AllNamed
<1>2. QED
  <2>1. KycNotFromAnothers => (AllNamed => KycFromOwnSession)
    BY <1>1 DEF KycFromOwnSession
  <2>2. QED
    BY <2>1, KycFollowsSessions, PTL

\* A transfer is made by a user who was verified in a session that names no other
\* user, to a beneficiary that is known to the payout provider and is not that
\* user (createTransfer).
THEOREM TransfersAreAdmitted == AdmissionSpec => []AdmittedTransfer
<1>1. ASSUME AdmissionInv, NEW i \in DOMAIN transfer
      PROVE  /\ CurrentStep(transfer[i].user) \in {"KYC_VERIFICATION", "READY"}
             /\ SaidTo(transfer[i].user, "approved")
             /\ beneficiary[transfer[i].user][transfer[i].account].status = "VERIFIED"
             /\ <<transfer[i].user, transfer[i].account>> \in registered
             /\ ~ IsSelfTransfer(NameOnPan[transfer[i].pan], HolderOf[transfer[i].account])
  <2>1. transfer[i] \in Transfer
    BY <1>1, LenProperties, ElementOfSeq DEF AdmissionInv, CreationInv, CreationTypeOK
  <2>2. PICK u \in Users, a \in BankAccounts : u = transfer[i].user /\ a = transfer[i].account
    BY <2>1 DEF Transfer
  <2>3. RowBacked(transfer[i])
    BY <1>1 DEF AdmissionInv, CreationInv, TransfersBacked
  <2>4. user[u] # NoUser /\ HasPan(user[u]) /\ user[u].profile /\ Ready(u, a)
    BY <2>2, <2>3 DEF RowBacked
  <2>5. BeneficiaryCount(u) # 0
    <3> DEFINE saved == {b \in BankAccounts : beneficiary[u][b] # NoBeneficiary}
    <3>1. a \in saved
      BY <2>4 DEF Ready
    <3>2. IsFiniteSet(saved)
      BY CreationAssumption, FS_Subset DEF CreationAssumption
    <3>3. Cardinality(saved) # 0
      BY <3>1, <3>2, FS_EmptySet
    <3>4. QED
      BY <3>3 DEF BeneficiaryCount
  <2>6. CurrentStep(u) \in {"KYC_VERIFICATION", "READY"}
    BY <2>4, <2>5 DEF CurrentStep
  <2>7. QED
    BY <2>2, <2>3, <2>6 DEF RowBacked, Ready, Foreign
<1>2. AdmissionInv => AdmittedTransfer
  BY <1>1 DEF AdmittedTransfer
<1>3. QED
  BY <1>2, AdmissionInvariant, PTL

\* However a request is repeated under its idempotency key, one transfer is made,
\* and a stored answer names it (createTransfer, saveIdempotencyRecord).
THEOREM KeysMakeOneTransfer == AdmissionSpec => []OneTransferPerKey
<1>1. AdmissionInv => OneTransferPerKey
  BY DEF AdmissionInv, CreationInv
<1>2. QED
  BY <1>1, AdmissionInvariant, PTL

\* The gateway holds no order of a transaction that cannot take its payment.
THEOREM OrdersAreAwaited == AdmissionSpec => []OrderAwaitsPayment
<1>1. AdmissionInv => OrderAwaitsPayment
  BY DEF AdmissionInv, CreationInv
<1>2. QED
  BY <1>1, AdmissionInvariant, PTL

-----------------------------------------------------------------------------
(***************************************************************************)
(* Refunds in parts.  The share of the fee is the rounded part of it, so   *)
(* the bounds are those of a rounded quotient.                             *)
(***************************************************************************)
\* A rounded part of `f` is between nothing and `f`, and so is what the other
\* side of the price gives.
LEMMA ShareFits ==
    ASSUME NEW f \in Nat, NEW n \in Nat, NEW a \in 0 .. n + f, NEW q \in Int,
           n + f > 0,
           2 * (q * (n + f) - f * a) \in -(n + f) .. n + f
    PROVE  q \in 0 .. f /\ a - q \in 0 .. n
<1> DEFINE g == n + f
<1>0. g \in Nat /\ g > 0 /\ g - a \in Nat
  OBVIOUS
<1>1. q >= 0
  <2>1. SUFFICES ASSUME q <= -1 PROVE FALSE
    OBVIOUS
  <2>2. q * g <= -g
    BY <1>0, <2>1, SMT
  <2>3. f * a >= 0
    BY SMT
  <2>4. QED
    BY <1>0, <2>2, <2>3, SMT
<1>2. q <= f
  <2>1. SUFFICES ASSUME q >= f + 1 PROVE FALSE
    OBVIOUS
  <2>2. q * g >= (f + 1) * g
    BY <1>0, <2>1, SMT
  <2>3. (f + 1) * g = f * g + g
    BY <1>0, SMT
  <2>4. f * a <= f * g
    BY <1>0, SMT
  <2>5. f * a \in Int /\ f * g \in Int /\ q * g \in Int
    BY <1>0
  <2>6. QED
    BY <1>0, <2>2, <2>3, <2>4, <2>5, SMT
<1>3. q <= a
  <2>1. SUFFICES ASSUME q >= a + 1 PROVE FALSE
    OBVIOUS
  <2>2. q * g >= (a + 1) * g
    BY <1>0, <2>1, SMT
  <2>3. (a + 1) * g = a * g + g
    BY <1>0, SMT
  <2>4. f * a <= a * g
    <3>1. a * g = a * n + f * a
      BY SMT
    <3>2. a * n >= 0
      BY SMT
    <3>3. QED
      BY <3>1, <3>2, SMT
  <2>5. f * a \in Int /\ a * g \in Int /\ q * g \in Int
    BY <1>0
  <2>6. QED
    BY <1>0, <2>2, <2>3, <2>4, <2>5, SMT
<1>4. a - q <= n
  <2>1. SUFFICES ASSUME q <= a - n - 1 PROVE FALSE
    OBVIOUS
  <2>2. q * g <= (a - n - 1) * g
    BY <1>0, <2>1, SMT
  <2>3. (a - n - 1) * g = a * g - n * g - g
    BY <1>0, SMT
  <2>4. a * g - n * g <= f * a
    <3>1. a * g = a * n + f * a /\ n * g = n * a + n * (g - a)
      BY SMT
    <3>2. n * (g - a) >= 0
      BY <1>0, SMT
    <3>3. QED
      BY <3>1, <3>2, SMT
  <2>5. f * a \in Int /\ a * g \in Int /\ n * g \in Int /\ q * g \in Int
    BY <1>0
  <2>6. QED
    BY <1>0, <2>2, <2>3, <2>4, <2>5, SMT
<1>5. QED
  BY <1>1, <1>2, <1>3, <1>4

\* The fee's share of a part, and of the rest, make up the fee up to one paisa.
LEMMA SharesAddUp ==
    ASSUME NEW f \in Nat, NEW g \in Nat \ {0}, NEW a \in 0 .. g, NEW q \in Int, NEW r \in Int,
           2 * (q * g - f * a) \in -g .. g, 2 * (r * g - f * (g - a)) \in -g .. g
    PROVE  q + r - f \in -1 .. 1
<1> DEFINE e == q + r - f
<1>1. e * g = (q * g - f * a) + (r * g - f * (g - a))
  BY SMT
<1>2. e * g \in Int /\ q * g - f * a \in Int /\ r * g - f * (g - a) \in Int /\ e \in Int
  OBVIOUS
<1>3. e * g \in -g .. g
  BY <1>1, <1>2, SMT
<1> HIDE DEF e
<1>4. e >= -1
  <2>1. SUFFICES ASSUME e <= -2 PROVE FALSE
    BY <1>2
  <2>2. e * g <= (-2) * g
    BY <1>2, <2>1, SMT
  <2>3. QED
    BY <1>2, <1>3, <2>2, SMT
<1>5. e <= 1
  <2>1. SUFFICES ASSUME e >= 2 PROVE FALSE
    BY <1>2
  <2>2. e * g >= 2 * g
    BY <1>2, <2>1, SMT
  <2>3. QED
    BY <1>2, <1>3, <2>2, SMT
<1>6. QED
  BY <1>2, <1>4, <1>5 DEF e

\* The parts of a refund of a price that balances and bears no tax.
LEMMA SharesOfRefund ==
    ASSUME NEW p \in Price, p.tax = 0, Balanced(p), NEW a \in 0 .. p.gross, p.gross > 0,
           NEW s \in ReversalShares(p, a)
    PROVE  /\ s.fee \in Int /\ s.tax = 0 /\ s.net = a - s.fee
           /\ 2 * (s.fee * p.gross - p.fee * a) \in -p.gross .. p.gross
<1> USE DEF Price
<1>1. CASE a = p.gross
  <2>1. s = [net |-> p.net, fee |-> p.fee, tax |-> p.tax]
    BY <1>1 DEF ReversalShares
  <2>2. p.fee * p.gross - p.fee * a = 0
    BY <1>1, SMT
  <2>3. s.fee = p.fee /\ s.tax = 0 /\ s.net = a - s.fee
    BY <1>1, <2>1 DEF Balanced
  <2>4. 2 * (s.fee * p.gross - p.fee * a) = 0
    BY <2>2, <2>3
  <2>5. QED
    BY <2>3, <2>4
<1>2. CASE a # p.gross
  <2>1. PICK fee \in Nearest(p.fee * a, p.gross), tax \in Nearest(p.tax * a, p.gross) :
          s = [net |-> a - fee - tax, fee |-> fee, tax |-> tax]
    BY <1>2 DEF ReversalShares
  <2>2. tax = 0
    <3>1. p.tax * a = 0
      BY SMT
    <3>2. tax \in Nearest(0, p.gross)
      BY <2>1, <3>1
    <3>3. QED
      BY <3>2 DEF Nearest
  <2>3. PICK m \in Nat : m = p.fee * a
    BY SMT
  <2>4. fee \in Int /\ 2 * (fee * p.gross - m) \in -p.gross .. p.gross
    BY <2>1, <2>3 DEF Nearest
  <2>5. QED
    BY <2>1, <2>2, <2>3, <2>4
<1>3. QED
  BY <1>1, <1>2

LEMMA PricesFit ==
    ASSUME NEW p \in Price, p.tax = 0, Balanced(p)
    PROVE  SharesFit(p)
<1>1. ASSUME NEW a \in 1 .. p.gross, NEW s \in ReversalShares(p, a)
      PROVE  /\ s.net \in 0 .. p.net /\ s.fee \in 0 .. p.fee /\ s.tax \in 0 .. p.tax
             /\ s.net + s.fee + s.tax = a
             /\ \A r \in ReversalShares(p, p.gross - a) : s.fee + r.fee - p.fee \in -1 .. 1
  <2>1. /\ p.gross = p.net + p.fee /\ p.gross \in Nat \ {0} /\ p.net \in Nat /\ p.fee \in Nat
        /\ a \in 0 .. p.gross /\ p.gross - a \in 0 .. p.gross
    BY DEF Balanced, Price
  <2>2. /\ s.fee \in Int /\ s.tax = 0 /\ s.net = a - s.fee
        /\ 2 * (s.fee * p.gross - p.fee * a) \in -p.gross .. p.gross
    BY <2>1, SharesOfRefund
  <2>3. s.fee \in 0 .. p.fee /\ a - s.fee \in 0 .. p.net
    <3>1. PICK f \in Nat, n \in Nat, q \in Int :
            f = p.fee /\ n = p.net /\ q = s.fee /\ p.gross = n + f
      BY <2>1, <2>2
    <3>2. a \in 0 .. n + f /\ n + f > 0 /\ 2 * (q * (n + f) - f * a) \in -(n + f) .. n + f
      BY <2>1, <2>2, <3>1
    <3>3. q \in 0 .. f /\ a - q \in 0 .. n
      BY <3>2, ShareFits
    <3>4. QED
      BY <3>1, <3>3
  <2>4. ASSUME NEW r \in ReversalShares(p, p.gross - a)
        PROVE  s.fee + r.fee - p.fee \in -1 .. 1
    <3>1. /\ r.fee \in Int
          /\ 2 * (r.fee * p.gross - p.fee * (p.gross - a)) \in -p.gross .. p.gross
      BY <2>1, SharesOfRefund
    <3>2. QED
      BY <2>1, <2>2, <3>1, SharesAddUp
  <2>5. QED
    BY <2>1, <2>2, <2>3, <2>4
<1>2. QED
  BY <1>1 DEF SharesFit

\* A token that has been spent has no more successors than there are requests
\* that could have found it active before its revocation was written, and one
\* more for each crash in between: with requests on one connection at a time and
\* no crash it is spent once.
THEOREM ForksAreBounded == AdmissionSpec => []ForksBounded
<1>1. AdmissionInit => ForksInv
  <2> SUFFICES ASSUME AdmissionInit PROVE ForksInv
    OBVIOUS
  <2>1. AccountsTypeOK /\ IdentityTypeOK
    BY InitAdmission DEF AdmissionInv
  <2>2. TokensRooted /\ ForksCounted
    BY DEF AdmissionInit, IdentityInit, TokensRooted, ForksCounted
  <2>3. QED
    BY <2>1, <2>2 DEF ForksInv
<1>2. ForksInv /\ AdmissionInv /\ AdmissionInv' /\ [AdmissionNext]_admissionVars => ForksInv'
  BY ForksNext DEF ForksInv, AdmissionInv
<1>3. ForksInv => ForksBounded
  <2>1. ASSUME ForksInv, NEW k \in DOMAIN token
        PROVE  Cardinality(Successors(k)) <= Cardinality(Clients) + faults
    BY <2>1, ForksKnown, ForksFinite DEF ForksInv
  <2>2. QED
    BY <2>1 DEF ForksBounded
<1>4. QED
  BY <1>1, <1>2, <1>3, AdmissionInvariant, PTL DEF AdmissionSpec

-----------------------------------------------------------------------------
(***************************************************************************)
(* Sums over finite sets.  MapThenSumSet is a recursive function over the  *)
(* subsets of its set: that there is such a function, and that it adds up  *)
(* in any order, is shown here by induction over their sizes.              *)
(***************************************************************************)
\* Induction over the natural numbers, for a set of them.
LEMMA AllNaturals ==
    ASSUME NEW T, 0 \in T, \A n \in Nat : n \in T => n + 1 \in T
    PROVE  \A n \in Nat : n \in T
<1> SUFFICES ASSUME NEW n \in Nat, n \notin T PROVE FALSE
  OBVIOUS
<1> DEFINE U == Nat \ T
<1>1. U \subseteq Nat /\ U # {}
  OBVIOUS
<1> DEFINE R == {p \in Nat \X Nat : p[1] < p[2]}
<1>2. IsWellFoundedOn(R, Nat)
  BY NatLessThanWellFounded DEF OpToRel
<1>3. PICK x \in U : \A y \in U : ~ (<<y, x>> \in R)
  <2> HIDE DEF U, R
  <2>1. QED
    BY <1>1, <1>2, WFMin
<1>4. \A y \in U : ~ (y < x)
  BY <1>3
<1>5. x # 0 /\ x - 1 \in Nat /\ x - 1 < x
  OBVIOUS
<1>6. x - 1 \in T
  BY <1>4, <1>5
<1>7. (x - 1) + 1 \in T
  BY <1>5, <1>6
<1>8. QED
  BY <1>7

Pick(s) == CHOOSE y \in s : TRUE

\* `h` adds up `g` over the subsets of S.
Adds(h, g, S) ==
    h = [s \in SUBSET S |-> IF s = {} THEN 0 ELSE g[Pick(s)] + h[s \ {Pick(s)}]]

LEMMA Picked == \A s : s # {} => Pick(s) \in s
  BY DEF Pick

LEMMA FewerLeft ==
    ASSUME NEW S, IsFiniteSet(S), NEW x \in S
    PROVE  /\ IsFiniteSet(S \ {x})
           /\ Cardinality(S) \in Nat /\ Cardinality(S \ {x}) \in Nat
           /\ Cardinality(S) = Cardinality(S \ {x}) + 1
<1>1. IsFiniteSet(S \ {x}) /\ Cardinality(S \ {x}) = Cardinality(S) - 1
  BY FS_RemoveElement
<1>2. Cardinality(S) \in Nat /\ Cardinality(S \ {x}) \in Nat
  BY <1>1, FS_CardinalityType
<1>3. QED
  BY <1>1, <1>2

LEMMA AdderExists ==
    ASSUME NEW g, NEW S, IsFiniteSet(S)
    PROVE  \E h : Adds(h, g, S)
<1> DEFINE Small(n) == {s \in SUBSET S : Cardinality(s) <= n}
           Upto(h, n) == h = [s \in Small(n) |->
                              IF s = {} THEN 0 ELSE g[Pick(s)] + h[s \ {Pick(s)}]]
           T == {n \in Nat : \E h : Upto(h, n)}
<1>0. \A s \in SUBSET S : IsFiniteSet(s) /\ Cardinality(s) \in Nat
  BY FS_Subset, FS_CardinalityType
<1>1. 0 \in T
  <2> DEFINE h == [s \in Small(0) |-> 0]
  <2>1. \A s \in Small(0) : s = {}
    BY <1>0, FS_EmptySet
  <2>2. Upto(h, 0)
    BY <2>1
  <2>3. QED
    BY <2>2
<1>2. ASSUME NEW n \in Nat, n \in T PROVE n + 1 \in T
  <2>1. PICK h : Upto(h, n)
    BY <1>2
  <2> DEFINE k == [s \in Small(n + 1) |->
                     IF s = {} THEN 0 ELSE g[Pick(s)] + h[s \ {Pick(s)}]]
  <2>2. ASSUME NEW s \in Small(n + 1), s # {}
        PROVE  h[s \ {Pick(s)}] = k[s \ {Pick(s)}]
    <3> DEFINE t == s \ {Pick(s)}
    <3>1. t \in SUBSET S /\ Cardinality(t) <= n /\ Cardinality(t) <= n + 1
      BY <1>0, <2>2, Picked, FewerLeft
    <3>2. t \in Small(n) /\ t \in Small(n + 1)
      BY <3>1
    <3> HIDE DEF t
    <3>3. h[t] = IF t = {} THEN 0 ELSE g[Pick(t)] + h[t \ {Pick(t)}]
      BY <2>1, <3>2
    <3>4. k[t] = IF t = {} THEN 0 ELSE g[Pick(t)] + h[t \ {Pick(t)}]
      BY <3>2
    <3>5. QED
      BY <3>3, <3>4 DEF t
  <2>3. Upto(k, n + 1)
    BY <2>2
  <2> HIDE DEF k, Upto
  <2>4. QED
    BY <2>3
<1>3. \A n \in Nat : n \in T
  <2> HIDE DEF T
  <2>1. QED
    BY <1>1, <1>2, AllNaturals
<1>4. Cardinality(S) \in Nat
  BY FS_CardinalityType
<1>5. PICK h : Upto(h, Cardinality(S))
  BY <1>3, <1>4
<1>6. Small(Cardinality(S)) = SUBSET S
  BY FS_Subset
<1> HIDE DEF Small
<1>7. QED
  BY <1>5, <1>6 DEF Adds

\* Adders agree where the summands do.
LEMMA AddersAgree ==
    ASSUME NEW g, NEW S, NEW h, Adds(h, g, S), IsFiniteSet(S),
           NEW f, NEW A \in SUBSET S, NEW k, Adds(k, f, A), \A x \in A : f[x] = g[x]
    PROVE  k[A] = h[A]
<1> DEFINE T == {n \in Nat : \A s \in SUBSET A : Cardinality(s) = n => k[s] = h[s]}
<1>0. \A s \in SUBSET A : IsFiniteSet(s) /\ Cardinality(s) \in Nat
  BY FS_Subset, FS_CardinalityType
<1>1. 0 \in T
  <2>1. ASSUME NEW s \in SUBSET A, Cardinality(s) = 0 PROVE k[s] = h[s]
    <3>1. s = {} /\ s \in SUBSET S
      BY <1>0, <2>1, FS_EmptySet
    <3>2. QED
      BY <3>1 DEF Adds
  <2>2. QED
    BY <2>1
<1>2. ASSUME NEW n \in Nat, n \in T PROVE n + 1 \in T
  <2>1. ASSUME NEW s \in SUBSET A, Cardinality(s) = n + 1 PROVE k[s] = h[s]
    <3>1. s # {}
      BY <2>1, FS_EmptySet
    <3> DEFINE t == s \ {Pick(s)}
    <3>2. t \in SUBSET A /\ Cardinality(t) = n /\ Pick(s) \in A
      BY <1>0, <2>1, <3>1, Picked, FewerLeft
    <3>3. k[t] = h[t]
      BY <1>2, <3>2
    <3>4. k[s] = f[Pick(s)] + k[t]
      BY <3>1 DEF Adds
    <3>5. h[s] = g[Pick(s)] + h[t]
      BY <3>1 DEF Adds
    <3> HIDE DEF t
    <3>6. QED
      BY <3>2, <3>3, <3>4, <3>5
  <2>2. QED
    BY <2>1
<1>3. \A n \in Nat : n \in T
  <2> HIDE DEF T
  <2>1. QED
    BY <1>1, <1>2, AllNaturals
<1>4. QED
  BY <1>0, <1>3

\* What MapThenSumSet computes.
Total(g, S) == MapThenSumSet(LAMBDA x : g[x], S)

LEMMA TotalIs ==
    ASSUME NEW g, NEW S, NEW h, Adds(h, g, S), IsFiniteSet(S)
    PROVE  Total(g, S) = h[S]
<1>1. ASSUME NEW k, Adds(k, g, S) PROVE k[S] = h[S]
  BY <1>1, AddersAgree
<1>2. \E k : k = (CHOOSE j : Adds(j, g, S)) /\ Adds(k, g, S)
  OBVIOUS
<1>3. Total(g, S) = (CHOOSE j : Adds(j, g, S))[S]
  BY DEF Total, MapThenSumSet, MapThenFoldSet, Adds, Pick
<1>4. QED
  BY <1>1, <1>2, <1>3
\* A sum is one summand and the sum of the rest.
LEMMA TotalPicks ==
    ASSUME NEW g, NEW S, IsFiniteSet(S)
    PROVE  /\ S = {} => Total(g, S) = 0
           /\ S # {} => Total(g, S) = g[Pick(S)] + Total(g, S \ {Pick(S)})
<1>1. PICK h : Adds(h, g, S)
  BY AdderExists
<1>2. Total(g, S) = h[S]
  BY <1>1, TotalIs
<1>3. h[S] = IF S = {} THEN 0 ELSE g[Pick(S)] + h[S \ {Pick(S)}]
  BY <1>1 DEF Adds
<1>4. ASSUME S # {} PROVE Total(g, S \ {Pick(S)}) = h[S \ {Pick(S)}]
  <2> DEFINE A == S \ {Pick(S)}
  <2>1. A \in SUBSET S /\ IsFiniteSet(A)
    BY FS_Subset
  <2> HIDE DEF A
  <2>2. PICK k : Adds(k, g, A)
    BY <2>1, AdderExists
  <2>3. k[A] = h[A]
    BY <1>1, <2>1, <2>2, AddersAgree
  <2>4. Total(g, A) = k[A]
    BY <2>1, <2>2, TotalIs
  <2>5. QED
    BY <2>3, <2>4 DEF A
<1>5. QED
  BY <1>2, <1>3, <1>4

\* The order in which it is added up does not matter.
LEMMA TotalSplits ==
    ASSUME NEW g, NEW S, IsFiniteSet(S), \A x \in S : g[x] \in Nat
    PROVE  /\ Total(g, S) \in Nat
           /\ \A x \in S : Total(g, S) = g[x] + Total(g, S \ {x})
<1> DEFINE Good(A) == /\ Total(g, A) \in Nat
                      /\ \A x \in A : Total(g, A) = g[x] + Total(g, A \ {x})
           T == {n \in Nat : \A A \in SUBSET S : Cardinality(A) <= n => Good(A)}
<1>0. \A A \in SUBSET S : IsFiniteSet(A) /\ Cardinality(A) \in Nat
  BY FS_Subset, FS_CardinalityType
<1>1. Good({})
  BY FS_EmptySet, TotalPicks
<1>2. 0 \in T
  <2>1. ASSUME NEW A \in SUBSET S, Cardinality(A) <= 0 PROVE A = {}
    BY <1>0, <2>1, FS_EmptySet
  <2>2. QED
    BY <1>1, <2>1
<1>3. ASSUME NEW n \in Nat, n \in T PROVE n + 1 \in T
  <2>1. ASSUME NEW A \in SUBSET S, Cardinality(A) <= n + 1, A # {} PROVE Good(A)
    <3> DEFINE c == Pick(A)
               B == A \ {c}
    <3>1. A # {} /\ c \in A
      BY <2>1, Picked
    <3>2. Total(g, A) = g[c] + Total(g, B)
      BY <1>0, <3>1, TotalPicks
    <3>3. \A x \in A : A \ {x} \in SUBSET S /\ Cardinality(A \ {x}) <= n
      BY <1>0, <2>1, FewerLeft
    <3>4. \A x \in A : Good(A \ {x})
      BY <1>3, <3>3
    <3>5. Total(g, A) \in Nat
      BY <3>1, <3>2, <3>4
    <3>6. ASSUME NEW x \in A, x # c PROVE Total(g, A) = g[x] + Total(g, A \ {x})
      <4> DEFINE D == (A \ {x}) \ {c}
      <4>1. B \ {x} = D /\ x \in B /\ c \in A \ {x}
        BY <3>1, <3>6
      <4>2. Total(g, B) = g[x] + Total(g, D)
        BY <3>1, <3>4, <4>1
      <4>3. Total(g, A \ {x}) = g[c] + Total(g, D)
        BY <3>4, <4>1
      <4>4. Total(g, D) \in Nat /\ g[x] \in Nat /\ g[c] \in Nat
        <5> DEFINE C == A \ {x}
        <5>1. C \in SUBSET S /\ IsFiniteSet(C) /\ Cardinality(C) <= n /\ c \in C
          BY <1>0, <3>3, <4>1
        <5> HIDE DEF C, c
        <5>2. Cardinality(C) = Cardinality(C \ {c}) + 1 /\ Cardinality(C \ {c}) \in Nat
          BY <5>1, FewerLeft
        <5>3. D \in SUBSET S /\ Cardinality(D) <= n
          BY <5>1, <5>2 DEF C
        <5>4. Good(D)
          BY <1>3, <5>3
        <5>5. QED
          BY <3>1, <5>4
      <4>5. QED
        BY <3>2, <4>2, <4>3, <4>4
    <3>7. QED
      BY <3>2, <3>5, <3>6
  <2>2. QED
    BY <1>1, <2>1
<1>4. \A n \in Nat : n \in T
  <2> HIDE DEF T
  <2>1. QED
    BY <1>2, <1>3, AllNaturals
<1>5. Good(S)
  BY <1>0, <1>4
<1>6. QED
  BY <1>5

LEMMA TotalFewer ==
    ASSUME NEW g, NEW S, IsFiniteSet(S), \A x \in S : g[x] \in Nat, NEW A \in SUBSET S
    PROVE  Total(g, A) <= Total(g, S)
<1> DEFINE T == {n \in Nat : \A B \in SUBSET S : Cardinality(B) <= n =>
                                \A C \in SUBSET B : Total(g, C) <= Total(g, B)}
<1>1. \A B \in SUBSET S : IsFiniteSet(B) /\ Cardinality(B) \in Nat
  BY FS_Subset, FS_CardinalityType
<1>2. ASSUME NEW B \in SUBSET S
      PROVE  /\ Total(g, B) \in Nat
             /\ \A x \in B : Total(g, B) = g[x] + Total(g, B \ {x})
  BY <1>1, TotalSplits
<1>3. 0 \in T
  <2>1. ASSUME NEW B \in SUBSET S, Cardinality(B) <= 0, NEW C \in SUBSET B
        PROVE  Total(g, C) <= Total(g, B)
    <3>1. B = {} /\ C = {}
      BY <1>1, <2>1, FS_EmptySet
    <3>2. QED
      BY <1>2, <3>1
  <2>2. QED
    BY <2>1
<1>4. ASSUME NEW n \in Nat, n \in T PROVE n + 1 \in T
  <2>1. ASSUME NEW B \in SUBSET S, Cardinality(B) <= n + 1, NEW C \in SUBSET B, C # B
        PROVE  Total(g, C) <= Total(g, B)
    <3>1. PICK x \in B : x \notin C
      BY <2>1
    <3> DEFINE D == B \ {x}
    <3>2. D \in SUBSET S /\ C \in SUBSET D /\ Cardinality(D) <= n
      BY <1>1, <2>1, <3>1, FewerLeft
    <3>3. Total(g, C) <= Total(g, D)
      BY <1>4, <3>2
    <3>4. Total(g, B) = g[x] + Total(g, D) /\ g[x] \in Nat
      BY <1>2
    <3>5. Total(g, C) \in Nat /\ Total(g, D) \in Nat
      BY <1>2, <3>2
    <3>6. QED
      BY <3>3, <3>4, <3>5
  <2>2. QED
    BY <1>2, <2>1
<1>5. \A n \in Nat : n \in T
  <2> HIDE DEF T
  <2>1. QED
    BY <1>3, <1>4, AllNaturals
<1>6. QED
  BY <1>1, <1>5

LEMMA TotalSame ==
    ASSUME NEW g, NEW f, NEW S, IsFiniteSet(S), \A x \in S : f[x] = g[x]
    PROVE  Total(f, S) = Total(g, S)
<1>1. PICK h : Adds(h, g, S)
  BY AdderExists
<1>2. PICK k : Adds(k, f, S)
  BY AdderExists
<1>3. k[S] = h[S]
  BY <1>1, <1>2, AddersAgree
<1>4. QED
  BY <1>1, <1>2, <1>3, TotalIs

\* The largest of a set of natural numbers that is bounded.
LEMMA MaxOfBounded ==
    ASSUME NEW S \in SUBSET Nat, S # {}, NEW b \in Nat, \A x \in S : x <= b
    PROVE  Max(S) \in S /\ \A x \in S : x <= Max(S)
<1>1. \E m \in S : \A x \in S : m >= x
  <2> SUFFICES ASSUME \A m \in S : \E x \in S : ~ (m >= x) PROVE FALSE
    OBVIOUS
  <2> DEFINE T == {n \in Nat : \E x \in S : x >= n}
  <2>1. 0 \in T
    <3>1. PICK x : x \in S
      OBVIOUS
    <3>2. x >= 0
      BY <3>1
    <3>3. QED
      BY <3>1, <3>2
  <2>2. ASSUME NEW n \in Nat, n \in T PROVE n + 1 \in T
    <3>1. PICK m \in S : m >= n
      BY <2>2
    <3>2. PICK x \in S : ~ (m >= x)
      OBVIOUS
    <3>3. QED
      BY <3>1, <3>2
  <2>3. \A n \in Nat : n \in T
    <3> HIDE DEF T
    <3>1. QED
      BY <2>1, <2>2, AllNaturals
  <2>4. PICK x \in S : x >= b + 1
    <3>1. b + 1 \in Nat
      OBVIOUS
    <3>2. QED
      BY <2>3, <3>1
  <2>5. QED
    BY <2>4
<1>2. QED
  BY <1>1 DEF Max

-----------------------------------------------------------------------------
(***************************************************************************)
(* The volume of a day.                                                    *)
(***************************************************************************)
Gross == [i \in DOMAIN transfer |-> transfer[i].price.gross]

CountedToday(u) ==
    {i \in TransfersOf(u) : /\ LegacyStatus(transfer[i].life) \in {"INITIATED", "PAID"}
                            /\ transfer[i].at \div DayLength = Today}

\* The volume is the sum of the gross amounts that count.
VolumeAddsUp(u) ==
    /\ TodayVolume(u) = Total(Gross, CountedToday(u))
    /\ IsFiniteSet(CountedToday(u))
    /\ \A i \in CountedToday(u) : Gross[i] \in Nat
    /\ TodayVolume(u) \in Nat

LEMMA VolumeIs == CreationTypeOK => \A u : VolumeAddsUp(u)
<1> SUFFICES ASSUME CreationTypeOK, NEW u PROVE VolumeAddsUp(u)
  OBVIOUS
<1> DEFINE S == CountedToday(u)
           E(h) == h = [s \in SUBSET S |->
                          IF s = {} THEN 0
                          ELSE transfer[Pick(s)].price.gross + h[s \ {Pick(s)}]]
<1>1. transfer \in Seq(Transfer) /\ Len(transfer) \in Nat /\ DOMAIN transfer = 1 .. Len(transfer)
  BY LenProperties DEF CreationTypeOK
<1>2. IsFiniteSet(S) /\ S \subseteq DOMAIN transfer
  <2>1. S \subseteq DOMAIN transfer
    BY DEF CountedToday, TransfersOf
  <2>2. IsFiniteSet(DOMAIN transfer)
    BY <1>1, FS_Interval
  <2> HIDE DEF S
  <2>3. QED
    BY <2>1, <2>2, FS_Subset
<1>3. ASSUME NEW i \in S
      PROVE  Gross[i] \in Nat /\ Gross[i] = transfer[i].price.gross
  <2>1. i \in DOMAIN transfer
    BY <1>2
  <2>2. transfer[i] \in Transfer
    BY <1>1, <2>1, ElementOfSeq
  <2>3. QED
    BY <2>1, <2>2 DEF Gross, Transfer, Price
<1>4. TodayVolume(u) = (CHOOSE h : E(h))[S]
  BY DEF TodayVolume, MapThenSumSet, MapThenFoldSet, Pick, CountedToday
<1>5. \A h : E(h) <=> Adds(h, Gross, S)
  <2> HIDE DEF S
  <2>1. QED
    BY <1>3, Picked DEF Adds
<1>6. \E h : Adds(h, Gross, S)
  BY <1>2, AdderExists
<1> HIDE DEF S, E
<1>7. PICK k : k = (CHOOSE h : E(h)) /\ E(k)
  BY <1>5, <1>6
<1>8. Total(Gross, S) = k[S]
  BY <1>2, <1>5, <1>7, TotalIs
<1>9. Total(Gross, S) \in Nat
  BY <1>2, <1>3, TotalSplits
<1>10. QED
  BY <1>2, <1>3, <1>4, <1>7, <1>8, <1>9 DEF S, VolumeAddsUp

LEMMA VolumeIsNext == CreationTypeOK' => (\A u : VolumeAddsUp(u))'
  BY VolumeIs, PTL

\* No more counts than before, at the same amounts.
LEMMA VolumeShrinks ==
    ASSUME CreationTypeOK, CreationTypeOK', NEW u,
           CountedToday(u)' \subseteq CountedToday(u),
           \A i \in CountedToday(u)' : Gross'[i] = Gross[i]
    PROVE  /\ TodayVolume(u)' <= TodayVolume(u)
           /\ TodayVolume(u) \in Nat /\ TodayVolume(u)' \in Nat
<1>1. VolumeAddsUp(u) /\ VolumeAddsUp(u)'
  BY VolumeIs, VolumeIsNext
<1> DEFINE A == CountedToday(u)'
           S == CountedToday(u)
           f == Gross'
           g == Gross
<1>2. TodayVolume(u)' = Total(f, A) /\ IsFiniteSet(A) /\ TodayVolume(u)' \in Nat
  BY <1>1 DEF VolumeAddsUp
<1>3. /\ TodayVolume(u) = Total(g, S) /\ IsFiniteSet(S) /\ TodayVolume(u) \in Nat
      /\ \A i \in S : g[i] \in Nat
  BY <1>1 DEF VolumeAddsUp
<1>4. A \in SUBSET S /\ \A i \in A : f[i] = g[i]
  OBVIOUS
<1> HIDE DEF A, S, f, g
<1>5. Total(f, A) = Total(g, A)
  BY <1>2, <1>4, TotalSame
<1>6. Total(g, A) <= Total(g, S)
  BY <1>3, <1>4, TotalFewer
<1>7. QED
  BY <1>2, <1>3, <1>5, <1>6

\* One transfer more counts.
LEMMA VolumeGrows ==
    ASSUME CreationTypeOK, CreationTypeOK', NEW u, NEW n, n \notin CountedToday(u),
           CountedToday(u)' = CountedToday(u) \cup {n},
           \A i \in CountedToday(u) : Gross'[i] = Gross[i]
    PROVE  TodayVolume(u)' = TodayVolume(u) + Gross'[n] /\ Gross'[n] \in Nat
<1>1. VolumeAddsUp(u) /\ VolumeAddsUp(u)'
  BY VolumeIs, VolumeIsNext
<1> DEFINE A == CountedToday(u)'
           S == CountedToday(u)
           f == Gross'
           g == Gross
<1>2. /\ TodayVolume(u)' = Total(f, A) /\ IsFiniteSet(A)
      /\ \A i \in A : f[i] \in Nat
  BY <1>1 DEF VolumeAddsUp
<1>3. TodayVolume(u) = Total(g, S) /\ IsFiniteSet(S) /\ TodayVolume(u) \in Nat
  BY <1>1 DEF VolumeAddsUp
<1>4. n \in A /\ A \ {n} = S /\ \A i \in S : f[i] = g[i]
  OBVIOUS
<1> HIDE DEF A, S, f, g
<1>5. Total(f, A) = f[n] + Total(f, S)
  BY <1>2, <1>4, TotalSplits
<1>6. Total(f, S) = Total(g, S)
  BY <1>3, <1>4, TotalSame
<1>7. QED
  BY <1>2, <1>3, <1>4, <1>5, <1>6 DEF f

(***************************************************************************)
(* The inductive invariant.  While requests of a user wait to write their  *)
(* rows, the cap has room for the volume, for the row of one of them (the  *)
(* last that was evaluated) and for the largest of rows of the others.     *)
(***************************************************************************)
MaxFee == Max({p.fee : p \in Admissible} \cup {0})
MaxGross == Max({p.gross : p \in Admissible} \cup {0})
Cap == MaxVolume + VolumeOvershoot

Inserting(u) == {d \in Desks : DeskAt(d, "insert") /\ desk[d].user = u}

\* A request has the price of its amount, which is looked at before its row is
\* written.
PricedDesk(x) ==
    x.amount # 0 => /\ x.price \in Prices(x.amount)
                    /\ x.pc = "insert" => x.amount <= 10 * MaxAmount

DesksPriced == \A d \in Desks : desk[d] # DeskIdle => PricedDesk(desk[d])

RowsPast == \A i \in DOMAIN transfer : transfer[i].at <= now

\* `gross` and the largest of rows of the others of `waiting` fit.
Fits(volume, gross, waiting) ==
    volume + gross + (Cardinality(waiting) - 1) * MaxGross <= Cap

VolumesFit ==
    \A u \in Users :
        /\ TodayVolume(u) <= Cap
        /\ Inserting(u) # {} =>
              \E d \in Inserting(u) : Fits(TodayVolume(u), desk[d].price.gross, Inserting(u))

VolumeParts == DesksPriced /\ RowsPast /\ VolumesFit

VolumeInv == AccountsTypeOK /\ CreationInv /\ VolumeParts

\* Multiples of the same are ordered as what they are multiples by.
LEMMA MoreTimes ==
    ASSUME NEW a \in Int, NEW b \in Int, a <= b, NEW m \in Nat
    PROVE  a * m <= b * m /\ a * m \in Int /\ b * m \in Int /\ (a + 1) * m = a * m + m
<1>1. a * m \in Int /\ b * m \in Int /\ (a + 1) * m = a * m + m
  BY SMT
<1>2. a * m <= b * m
  BY SMT
<1>3. QED
  BY <1>1, <1>2

\* The gross amount of a price is its amount and its fee, rounded.
LEMMA GrossOfPrice ==
    ASSUME NEW m \in Nat, NEW p \in Prices(m)
    PROVE  /\ p.fee \in Nat /\ p.gross \in Nat
           /\ 10 * p.gross <= m + 10 * p.fee + 5
           /\ p.fee <= 15 * m + 1
<1>1. PICK fee \in Nearest(15 * m, 10000) :
        p \in [net : Nearest(m, 10), fee : {fee}, tax : {0}, gross : Nearest(m + 10 * fee, 10)]
  BY DEF Prices
<1>2. fee \in Nat /\ p.fee = fee
  BY <1>1, NearestIsNat
<1>3. p.gross \in Nearest(m + 10 * fee, 10)
  BY <1>1
<1>4. m + 10 * fee \in Nat
  BY <1>2
<1>5. p.gross \in Nat
  BY <1>3, <1>4, NearestIsNat
<1>6. 2 * (p.gross * 10 - (m + 10 * fee)) <= 10
  BY <1>2, <1>3, <1>5 DEF Nearest
<1>7. 2 * (fee * 10000 - 15 * m) <= 10000
  BY <1>1, <1>2 DEF Nearest
<1>8. QED
  BY <1>2, <1>5, <1>6, <1>7

\* The largest of them, and the cap.
LEMMA Largest ==
    /\ MaxFee \in Nat /\ MaxGross \in Nat
    /\ \A p \in Admissible : /\ p.fee \in Nat /\ p.fee <= MaxFee
                             /\ p.gross \in Nat /\ p.gross <= MaxGross
    /\ MaxGross <= MaxVolume + MaxFee
<1> DEFINE F == {p.fee : p \in Admissible} \cup {0}
           G == {p.gross : p \in Admissible} \cup {0}
           b == 10 * MaxAmount
<1>1. b \in Nat /\ MaxAmount \in Nat /\ MaxVolume \in Nat /\ MaxAmount <= MaxVolume
  BY CreationAssumption DEF CreationAssumption
<1>2. ASSUME NEW p \in Admissible
      PROVE  /\ p.fee \in Nat /\ p.gross \in Nat
             /\ 10 * p.gross <= b + 10 * p.fee + 5
             /\ p.fee <= 15 * b + 1
             /\ p.gross <= b + 10 * (15 * b + 1) + 5
  <2>1. PICK m \in Amounts : m <= b /\ p \in Prices(m)
    BY DEF Admissible
  <2>2. m \in Nat
    BY CreationAssumption DEF CreationAssumption
  <2>3. /\ p.fee \in Nat /\ p.gross \in Nat
        /\ 10 * p.gross <= m + 10 * p.fee + 5 /\ p.fee <= 15 * m + 1
    BY <2>1, <2>2, GrossOfPrice
  <2> HIDE DEF b
  <2>4. QED
    BY <1>1, <2>1, <2>2, <2>3
<1>3. F \in SUBSET Nat /\ F # {} /\ 15 * b + 1 \in Nat /\ \A x \in F : x <= 15 * b + 1
  BY <1>1, <1>2
<1>4. /\ G \in SUBSET Nat /\ G # {} /\ b + 10 * (15 * b + 1) + 5 \in Nat
      /\ \A x \in G : x <= b + 10 * (15 * b + 1) + 5
  BY <1>1, <1>2
<1>5. Max(F) \in F /\ (\A x \in F : x <= Max(F)) /\ Max(G) \in G /\ (\A x \in G : x <= Max(G))
  <2> HIDE DEF F, G, b
  <2>1. QED
    BY <1>3, <1>4, MaxOfBounded
<1>6. MaxFee = Max(F) /\ MaxGross = Max(G)
  BY DEF MaxFee, MaxGross
<1>7. MaxGross <= MaxVolume + MaxFee
  <2>1. CASE MaxGross = 0
    BY <1>1, <1>3, <1>5, <1>6, <2>1
  <2>2. ASSUME NEW p \in Admissible, MaxGross = p.gross
        PROVE  MaxGross <= MaxVolume + MaxFee
    <3>1. p.fee <= MaxFee /\ MaxFee \in Nat
      BY <1>3, <1>5, <1>6
    <3>2. QED
      BY <1>1, <1>2, <2>2, <3>1
  <2>3. QED
    BY <1>5, <1>6, <2>1, <2>2
<1>8. QED
  BY <1>2, <1>3, <1>4, <1>5, <1>6, <1>7

LEMMA CapIs ==
    /\ Cardinality(Desks) \in Nat
    /\ Cap = MaxVolume + MaxFee + (Cardinality(Desks) - 1) * MaxGross
    /\ (Cardinality(Desks) - 1) * MaxGross \in Int
    /\ Cap \in Nat
<1>1. Cardinality(Desks) \in Nat
  BY FS_CardinalityType, CreationAssumption DEF CreationAssumption
<1>2. Cap = MaxVolume + (MaxFee + (Cardinality(Desks) - 1) * MaxGross)
  BY DEF Cap, VolumeOvershoot, MaxFee, MaxGross
<1>3. MaxVolume \in Nat
  BY CreationAssumption DEF CreationAssumption
<1> DEFINE n == Cardinality(Desks) - 1
<1>4. n \in Int /\ -1 <= n
  BY <1>1
<1> HIDE DEF n
<1>5. n * MaxGross \in Int /\ (-1) * MaxGross <= n * MaxGross
  BY <1>4, Largest, MoreTimes
<1>6. QED
  BY <1>1, <1>2, <1>3, <1>5, Largest DEF n

\* The row of a request that waits to write it.
LEMMA WaitingRow ==
    ASSUME VolumeInv, NEW u, NEW d \in Inserting(u)
    PROVE  desk[d].price.gross \in Nat /\ desk[d].price.gross <= MaxGross
<1>1. desk[d] # DeskIdle /\ desk[d].pc = "insert"
  BY DEF Inserting, DeskAt
<1>2. PICK x \in TransferDesk : x = desk[d] /\ x \in DeskStates
  BY <1>1, TransferInHand DEF VolumeInv, Beyond, Inserting
<1>3. x.amount \in Amounts /\ x.amount # 0 /\ PricedDesk(x) /\ x.pc = "insert"
  BY <1>1, <1>2, DeskRecords DEF VolumeInv, VolumeParts, DesksPriced, Inserting
<1>4. x.price \in Admissible
  BY <1>3 DEF PricedDesk, Admissible
<1>5. QED
  BY <1>2, <1>4, Largest

LEMMA WaitingFinite ==
    ASSUME NEW A \in SUBSET Desks
    PROVE  /\ IsFiniteSet(A) /\ Cardinality(A) \in Nat /\ Cardinality(A) <= Cardinality(Desks)
           /\ \A B \in SUBSET A : Cardinality(B) \in Nat /\ Cardinality(B) <= Cardinality(A)
           /\ A # {} => Cardinality(A) > 0
<1>1. IsFiniteSet(A) /\ Cardinality(A) <= Cardinality(Desks)
  BY FS_Subset, CreationAssumption DEF CreationAssumption
<1>2. \A B \in SUBSET A : IsFiniteSet(B) /\ Cardinality(B) <= Cardinality(A)
  BY <1>1, FS_Subset
<1>3. \A B \in SUBSET A : Cardinality(B) \in Nat
  BY <1>2, FS_CardinalityType
<1>4. A # {} => Cardinality(A) # 0
  BY <1>1, FS_EmptySet
<1>5. QED
  BY <1>1, <1>2, <1>3, <1>4

\* Room for some of those who wait, when the volume is no larger.
LEMMA RoomStays ==
    ASSUME VolumeInv, NEW u \in Users, NEW volume \in Nat, volume <= TodayVolume(u),
           NEW B \in SUBSET Inserting(u), B # {}
    PROVE  \E d \in B : Fits(volume, desk[d].price.gross, B)
<1> DEFINE A == Inserting(u)
           v == TodayVolume(u)
<1>1. A \in SUBSET Desks /\ A # {}
  BY DEF Inserting
<1>2. PICK d \in A : v + desk[d].price.gross + (Cardinality(A) - 1) * MaxGross <= Cap
  BY <1>1 DEF VolumeInv, VolumeParts, VolumesFit, Fits
<1>3. v \in Nat /\ MaxGross \in Nat /\ Cap \in Nat
  BY VolumeIs, Largest, CapIs DEF VolumeInv, CreationInv, VolumeAddsUp
<1>4. \A e \in A : desk[e].price.gross \in Nat /\ desk[e].price.gross <= MaxGross
  BY WaitingRow
<1> HIDE DEF A, v
<1>5. CASE d \in B
  <2>1. Cardinality(B) - 1 \in Int /\ Cardinality(A) - 1 \in Int
          /\ Cardinality(B) - 1 <= Cardinality(A) - 1
    BY <1>1, WaitingFinite DEF A
  <2>2. /\ (Cardinality(B) - 1) * MaxGross <= (Cardinality(A) - 1) * MaxGross
        /\ (Cardinality(B) - 1) * MaxGross \in Int /\ (Cardinality(A) - 1) * MaxGross \in Int
    BY <1>3, <2>1, MoreTimes
  <2>3. Fits(volume, desk[d].price.gross, B)
    BY <1>2, <1>3, <1>4, <2>2 DEF Fits, v
  <2>4. QED
    BY <1>5, <2>3
<1>6. CASE d \notin B
  <2>1. PICK e : e \in B
    OBVIOUS
  <2>2. /\ Cardinality(B) \in Nat /\ Cardinality(A) \in Nat
        /\ Cardinality(B) <= Cardinality(A) - 1
    <3> DEFINE D == A \ {d}
    <3>1. D \in SUBSET A /\ B \in SUBSET D /\ D \in SUBSET Desks
      BY <1>1, <1>6 DEF A
    <3>2. Cardinality(A) = Cardinality(D) + 1
      BY <1>1, WaitingFinite, FewerLeft
    <3> HIDE DEF D
    <3>3. QED
      BY <1>1, <3>1, <3>2, WaitingFinite
  <2>3. /\ Cardinality(B) * MaxGross <= (Cardinality(A) - 1) * MaxGross
        /\ Cardinality(B) * MaxGross \in Int /\ (Cardinality(A) - 1) * MaxGross \in Int
    BY <1>3, <2>2, MoreTimes
  <2>4. /\ (Cardinality(B) - 1) * MaxGross + MaxGross = Cardinality(B) * MaxGross
        /\ (Cardinality(B) - 1) * MaxGross \in Int
    <3> DEFINE n == Cardinality(B) - 1
    <3>1. n \in Int /\ n <= n /\ n + 1 = Cardinality(B)
      BY <2>2
    <3> HIDE DEF n
    <3>2. (n + 1) * MaxGross = n * MaxGross + MaxGross /\ n * MaxGross \in Int
      BY <1>3, <3>1, MoreTimes
    <3>3. QED
      BY <3>1, <3>2 DEF n
  <2>5. desk[e].price.gross \in Nat /\ desk[e].price.gross <= MaxGross /\ desk[d].price.gross \in Nat
    BY <1>4, <2>1 DEF A
  <2>6. Fits(volume, desk[e].price.gross, B)
    BY <1>2, <1>3, <2>3, <2>4, <2>5 DEF Fits, v
  <2>7. QED
    BY <2>1, <2>6
<1>7. QED
  BY <1>5, <1>6

\* A step after which no more requests wait, and no more counts.
LEMMA VolumesFitStill ==
    ASSUME VolumeInv, \A u \in Users : TodayVolume(u)' \in Nat /\ TodayVolume(u)' <= TodayVolume(u),
           \A e \in Desks : desk'[e] # DeskIdle /\ desk'[e].pc = "insert" => desk'[e] = desk[e]
    PROVE  VolumesFit'
<1> SUFFICES ASSUME NEW u \in Users
             PROVE  /\ TodayVolume(u)' <= Cap
                    /\ Inserting(u)' # {} =>
                          \E d \in Inserting(u)' :
                             Fits(TodayVolume(u)', desk'[d].price.gross, Inserting(u)')
  BY DEF VolumesFit
<1>1. TodayVolume(u)' \in Nat /\ TodayVolume(u)' <= TodayVolume(u) /\ TodayVolume(u) \in Nat
  BY VolumeIs DEF VolumeInv, CreationInv, VolumeAddsUp
<1>2. TodayVolume(u)' <= Cap
  BY <1>1, CapIs DEF VolumeInv, VolumeParts, VolumesFit
<1>3. Inserting(u)' \in SUBSET Inserting(u) /\ \A d \in Inserting(u)' : desk'[d] = desk[d]
  BY DEF Inserting, DeskAt, DeskIdle
<1>4. ASSUME NEW volume, volume = TodayVolume(u)', NEW B, B = Inserting(u)', B # {}
      PROVE  \E d \in B : Fits(volume, desk'[d].price.gross, B)
  <2>1. PICK d \in B : Fits(volume, desk[d].price.gross, B)
    BY <1>1, <1>3, <1>4, RoomStays
  <2>2. QED
    BY <1>3, <1>4, <2>1
<1>5. QED
  BY <1>2, <1>4

\* A step of one request.
LEMMA DesksPricedStill ==
    ASSUME VolumeInv, NEW d \in Desks, NEW x, desk' = [desk EXCEPT ![d] = x],
           x # DeskIdle => PricedDesk(x)
    PROVE  /\ DesksPriced'
           /\ \A e \in Desks : desk'[e] = IF e = d THEN x ELSE desk[e]
<1>1. \A e \in Desks : desk'[e] = IF e = d THEN x ELSE desk[e]
  BY DEF VolumeInv, CreationInv, CreationTypeOK
<1>2. QED
  BY <1>1 DEF VolumeInv, VolumeParts, DesksPriced

\* A request goes on with its price, or ends.
LEMMA PriceStays ==
    ASSUME VolumeInv, NEW d \in Desks, desk[d] # DeskIdle,
           NEW pc \in Beyond \cup {"register", "store"}, pc # "insert"
    PROVE  /\ PricedDesk([desk[d] EXCEPT !.pc = pc])
           /\ [desk[d] EXCEPT !.pc = pc].pc = pc
<1>1. PICK y \in DeskStates : y = desk[d]
  BY DeskInHand DEF VolumeInv
<1> DEFINE x == [y EXCEPT !.pc = pc]
<1>2. x.pc = pc /\ x.amount = y.amount /\ (y.amount # 0 => x.price = y.price)
  <2>1. CASE y \in TransferDesk
    BY <2>1 DEF TransferDesk
  <2>2. CASE y \in BeneficiaryDesk
    BY <2>2 DEF BeneficiaryDesk
  <2>3. QED
    BY <2>1, <2>2 DEF DeskStates
<1>3. PricedDesk(y)
  BY <1>1 DEF VolumeInv, VolumeParts, DesksPriced
<1> HIDE DEF x
<1>4. PricedDesk(x) /\ x.pc = pc
  BY <1>2, <1>3 DEF PricedDesk
<1>5. QED
  BY <1>1, <1>4 DEF x

\* A step of a request after which it does not wait to write its row.
LEMMA VolumeQuiet ==
    ASSUME VolumeInv, NEW d \in Desks, NEW x, desk' = [desk EXCEPT ![d] = x],
           x # DeskIdle => PricedDesk(x) /\ x.pc # "insert",
           RowsPast', \A u \in Users : TodayVolume(u)' \in Nat /\ TodayVolume(u)' <= TodayVolume(u)
    PROVE  VolumeParts'
<1>1. DesksPriced' /\ \A e \in Desks : desk'[e] = IF e = d THEN x ELSE desk[e]
  BY DesksPricedStill
<1>2. \A e \in Desks : desk'[e] # DeskIdle /\ desk'[e].pc = "insert" => desk'[e] = desk[e]
  BY <1>1
<1>3. VolumesFit'
  BY <1>2, VolumesFitStill
<1>4. QED
  BY <1>1, <1>3 DEF VolumeParts

\* Steps that leave the rows and the clock alone.
LEMMA SameVolume ==
    ASSUME VolumeInv, CreationTypeOK', UNCHANGED <<transfer, now>>
    PROVE  /\ RowsPast'
           /\ \A u : /\ TodayVolume(u)' = TodayVolume(u)
                     /\ TodayVolume(u) \in Nat /\ TodayVolume(u) <= TodayVolume(u)
<1>1. RowsPast'
  BY DEF VolumeInv, VolumeParts, RowsPast
<1>2. ASSUME NEW u
      PROVE  TodayVolume(u)' = TodayVolume(u) /\ TodayVolume(u) \in Nat
  <2>1. VolumeAddsUp(u) /\ VolumeAddsUp(u)'
    BY VolumeIs, VolumeIsNext DEF VolumeInv, CreationInv
  <2>2. CountedToday(u)' = CountedToday(u) /\ Gross' = Gross
    BY DEF CountedToday, TransfersOf, Gross, Today
  <2>3. QED
    BY <2>1, <2>2 DEF VolumeAddsUp
<1>3. QED
  BY <1>1, <1>2

\* What counts is what has not failed.
LEMMA Counted ==
    \A state : LegacyStatus(state) \in {"INITIATED", "PAID"} <=> state # "PAYMENT_FAILED"
  BY DEF LegacyStatus

\* A row goes on in its life, and does not come back from a failure.
LEMMA RowVolume ==
    ASSUME VolumeInv, CreationTypeOK', NEW i \in DOMAIN transfer, NEW row \in Transfer,
           row.user = transfer[i].user, row.at = transfer[i].at, row.price = transfer[i].price,
           transfer[i].life = "PAYMENT_FAILED" => row.life = "PAYMENT_FAILED",
           transfer' = [transfer EXCEPT ![i] = row], UNCHANGED now
    PROVE  /\ RowsPast'
           /\ \A u \in Users : TodayVolume(u)' \in Nat /\ TodayVolume(u)' <= TodayVolume(u)
<1>1. transfer \in Seq(Transfer) /\ i \in 1 .. Len(transfer)
  BY LenProperties DEF VolumeInv, CreationInv, CreationTypeOK
<1>2. /\ DOMAIN transfer' = DOMAIN transfer
      /\ \A j \in DOMAIN transfer : transfer'[j] = IF j = i THEN row ELSE transfer[j]
  BY <1>1, ExceptSeq, LenProperties
<1>3. RowsPast'
  BY <1>2 DEF VolumeInv, VolumeParts, RowsPast
<1>4. ASSUME NEW u
      PROVE  /\ CountedToday(u)' \subseteq CountedToday(u)
             /\ \A j \in CountedToday(u)' : Gross'[j] = Gross[j]
  BY <1>2, Counted DEF CountedToday, TransfersOf, Gross, Today
<1>5. QED
  BY <1>3, <1>4, VolumeShrinks DEF VolumeInv, CreationInv

\* The steps of a request that leave the rows alone, and after which it does not
\* wait to write its own.
LEMMA DeskVolume ==
    ASSUME VolumeInv, CreationTypeOK', NEW d \in Desks, UNCHANGED <<transfer, now>>,
           \/ EndDesk(d)
           \/ desk[d] # DeskIdle /\ \E pc \in {"register", "store", "evaluate", "note"} : GoTo(d, pc)
    PROVE  VolumeParts'
<1>1. CASE EndDesk(d)
  BY <1>1, SameVolume, VolumeQuiet DEF EndDesk
<1>2. ASSUME desk[d] # DeskIdle, NEW pc \in {"register", "store", "evaluate", "note"}, GoTo(d, pc)
      PROVE  VolumeParts'
  <2>1. /\ PricedDesk([desk[d] EXCEPT !.pc = pc])
        /\ [desk[d] EXCEPT !.pc = pc].pc = pc
    BY <1>2, PriceStays DEF Beyond
  <2>2. desk' = [desk EXCEPT ![d] = [desk[d] EXCEPT !.pc = pc]]
    BY <1>2 DEF GoTo
  <2>3. PICK x : x = [desk[d] EXCEPT !.pc = pc]
    OBVIOUS
  <2>4. PricedDesk(x) /\ x.pc = pc /\ desk' = [desk EXCEPT ![d] = x]
    BY <2>1, <2>2, <2>3
  <2>5. QED
    BY <1>2, <2>4, SameVolume, VolumeQuiet
<1>3. QED
  BY <1>1, <1>2

\* The start of a request: it has the price of its amount.
LEMMA BeginVolume ==
    ASSUME VolumeInv, CreationTypeOK', NEW d \in Desks, NEW u \in Users, NEW a \in BankAccounts,
           BeginBeneficiary(d, u, a)
             \/ \E m \in Amounts, k \in Keys \cup {NoKey} : BeginTransfer(d, u, a, m, k)
    PROVE  VolumeParts'
<1>1. UNCHANGED <<transfer, now>>
  BY DEF BeginBeneficiary, BeginTransfer, accountVars
<1>2. FirstStep(u, a) # "insert"
  BY DEF FirstStep
<1>3. CASE BeginBeneficiary(d, u, a)
  <2>1. PICK x : x = [pc |-> FirstStep(u, a), user |-> u, account |-> a,
                      pan |-> user[u].pan, amount |-> 0]
    OBVIOUS
  <2>2. desk' = [desk EXCEPT ![d] = x] /\ x.pc # "insert" /\ x.amount = 0
    BY <1>2, <1>3, <2>1 DEF BeginBeneficiary
  <2>3. QED
    BY <1>1, <2>2, SameVolume, VolumeQuiet DEF PricedDesk
<1>4. ASSUME NEW m \in Amounts, NEW k \in Keys \cup {NoKey}, BeginTransfer(d, u, a, m, k)
      PROVE  VolumeParts'
  <2>1. PICK p \in Prices(m) :
          desk' = [desk EXCEPT ![d] =
                      [pc |-> FirstStep(u, a), user |-> u, account |-> a,
                       pan |-> user[u].pan, amount |-> m, price |-> p, key |-> k, txn |-> 0]]
    BY <1>4 DEF BeginTransfer
  <2>2. PICK x : x = [pc |-> FirstStep(u, a), user |-> u, account |-> a,
                      pan |-> user[u].pan, amount |-> m, price |-> p, key |-> k, txn |-> 0]
    OBVIOUS
  <2>3. /\ desk' = [desk EXCEPT ![d] = x]
        /\ x.pc # "insert" /\ x.amount = m /\ x.price = p
    BY <1>2, <2>1, <2>2
  <2>4. QED
    BY <1>1, <2>3, SameVolume, VolumeQuiet DEF PricedDesk
<1>5. QED
  BY <1>3, <1>4

\* evaluateTransfer: the amount fits under the limit on top of the volume, so the
\* row does but for its fee, and for what the other requests wait to write.
LEMMA EvaluateVolume ==
    ASSUME VolumeInv, CreationTypeOK', NEW d \in Desks, Evaluate(d)
    PROVE  VolumeParts'
<1>1. PICK y \in TransferDesk : y = desk[d] /\ y \in DeskStates /\ y.pc = "evaluate"
  BY TransferInHand DEF VolumeInv, Evaluate, DeskAt, Beyond
<1>2. /\ y.user \in Users /\ y.amount \in Amounts /\ y.amount # 0 /\ y.amount \in Nat
      /\ y.price \in Prices(y.amount) /\ desk[d] # DeskIdle
  BY <1>1, DeskRecords, CreationAssumption
     DEF VolumeInv, VolumeParts, DesksPriced, PricedDesk, CreationAssumption
<1>3. /\ UNCHANGED <<transfer, now>>
      /\ y.amount <= 10 * MaxAmount
      /\ 10 * TodayVolume(y.user) + y.amount <= 10 * MaxVolume
  BY <1>1 DEF Evaluate, WithinLimits, accountVars
<1>4. y.price \in Admissible
  BY <1>2, <1>3 DEF Admissible
<1> DEFINE x == [y EXCEPT !.pc = "insert"]
<1>5. /\ x.pc = "insert" /\ x.user = y.user /\ x.amount = y.amount /\ x.price = y.price
      /\ x # DeskIdle
  BY <1>1 DEF TransferDesk, DeskIdle
<1>6. desk' = [desk EXCEPT ![d] = x]
  BY <1>1 DEF Evaluate, GoTo
<1> HIDE DEF x
<1>7. DesksPriced' /\ \A e \in Desks : desk'[e] = IF e = d THEN x ELSE desk[e]
  BY <1>2, <1>3, <1>5, <1>6, DesksPricedStill DEF PricedDesk
<1>8. RowsPast' /\ \A u : TodayVolume(u)' = TodayVolume(u) /\ TodayVolume(u) \in Nat
  BY <1>3, SameVolume
<1>9. ASSUME NEW u \in Users
      PROVE  /\ TodayVolume(u)' <= Cap
             /\ Inserting(u)' # {} =>
                   \E e \in Inserting(u)' :
                      Fits(TodayVolume(u)', desk'[e].price.gross, Inserting(u)')
  <2>1. TodayVolume(u)' <= Cap
    BY <1>8 DEF VolumeInv, VolumeParts, VolumesFit
  <2>2. CASE u # y.user
    <3>1. Inserting(u)' = Inserting(u) /\ d \notin Inserting(u)
      BY <1>1, <1>5, <1>7, <2>2 DEF Inserting, DeskAt
    <3>2. \A e \in Inserting(u) : desk'[e] = desk[e]
      BY <1>7, <3>1 DEF Inserting
    <3>3. QED
      BY <1>8, <2>1, <3>1, <3>2 DEF VolumeInv, VolumeParts, VolumesFit
  <2>3. CASE u = y.user
    <3>1. d \in Inserting(u)' /\ Inserting(u)' \in SUBSET Desks
      BY <1>5, <1>7, <2>3 DEF Inserting, DeskAt
    <3>2. PICK B : B = Inserting(u)'
      OBVIOUS
    <3>3. PICK n \in Nat : n = Cardinality(B) /\ n <= Cardinality(Desks)
      BY <3>1, <3>2, WaitingFinite
    <3>4. n - 1 \in Int /\ Cardinality(Desks) - 1 \in Int /\ n - 1 <= Cardinality(Desks) - 1
      BY <3>3, CapIs
    <3>5. /\ (n - 1) * MaxGross <= (Cardinality(Desks) - 1) * MaxGross
          /\ (n - 1) * MaxGross \in Int
      BY <3>4, Largest, MoreTimes
    <3>6. /\ y.price.gross \in Nat /\ y.price.fee \in Nat
          /\ 10 * y.price.gross <= y.amount + 10 * y.price.fee + 5
      BY <1>2, GrossOfPrice
    <3>7. y.price.fee <= MaxFee /\ MaxFee \in Nat
      BY <1>4, Largest
    <3>8. MaxVolume \in Nat
      BY CreationAssumption DEF CreationAssumption
    <3>9. TodayVolume(u) + y.price.gross <= MaxVolume + MaxFee
      BY <1>2, <1>3, <1>8, <2>3, <3>6, <3>7, <3>8
    <3>10. Fits(TodayVolume(u), y.price.gross, B)
      BY <1>8, <3>3, <3>5, <3>6, <3>7, <3>8, <3>9, CapIs DEF Fits
    <3>11. desk'[d].price.gross = y.price.gross
      BY <1>5, <1>7
    <3>12. QED
      BY <1>8, <2>1, <3>1, <3>2, <3>10, <3>11
  <2>4. QED
    BY <2>2, <2>3
<1>10. QED
  BY <1>7, <1>8, <1>9 DEF VolumeParts, VolumesFit

\* The row is written: the volume takes the room its request waited for.
LEMMA RoomTaken ==
    ASSUME VolumeInv, NEW u \in Users, NEW d \in Inserting(u),
           NEW volume \in Nat, volume = TodayVolume(u) + desk[d].price.gross,
           NEW B, B = Inserting(u) \ {d}
    PROVE  /\ volume <= Cap
           /\ B # {} => \E e \in B : Fits(volume, desk[e].price.gross, B)
<1> DEFINE A == Inserting(u)
           v == TodayVolume(u)
           n == Cardinality(A)
           g(e) == desk[e].price.gross
<1>1. A \in SUBSET Desks /\ d \in A /\ B \in SUBSET A
  BY DEF Inserting
<1>2. PICK w \in A : v + g(w) + (n - 1) * MaxGross <= Cap
  BY <1>1 DEF VolumeInv, VolumeParts, VolumesFit, Fits
<1>3. v \in Nat /\ MaxGross \in Nat /\ Cap \in Nat
  BY VolumeIs, Largest, CapIs DEF VolumeInv, CreationInv, VolumeAddsUp
<1>4. \A e \in A : g(e) \in Nat /\ g(e) <= MaxGross
  BY WaitingRow
<1>5. n \in Nat /\ n >= 1 /\ Cardinality(B) = n - 1
  <2> HIDE DEF A
  <2>1. Cardinality(A) = Cardinality(A \ {d}) + 1 /\ Cardinality(A \ {d}) \in Nat
    BY <1>1, WaitingFinite, FewerLeft
  <2>2. QED
    BY <2>1 DEF A
<1> HIDE DEF A, v, g, n
<1>6. /\ (n - 1) * MaxGross \in Int /\ (n - 1) * MaxGross >= 0
      /\ (n - 2) * MaxGross \in Int
      /\ (n - 1) * MaxGross = (n - 2) * MaxGross + MaxGross
  <2> DEFINE k == n - 2
  <2>1. k \in Int /\ k <= k /\ k + 1 = n - 1
    BY <1>5
  <2>2. 0 <= n - 1 /\ n - 1 \in Int
    BY <1>5
  <2> HIDE DEF k
  <2>3. k * MaxGross \in Int /\ (k + 1) * MaxGross = k * MaxGross + MaxGross
    BY <1>3, <2>1, MoreTimes
  <2>4. 0 * MaxGross <= (n - 1) * MaxGross /\ (n - 1) * MaxGross \in Int
    BY <1>3, <2>2, MoreTimes
  <2>5. 0 * MaxGross = 0
    BY <1>3
  <2>6. QED
    BY <2>1, <2>3, <2>4, <2>5 DEF k
<1>7. volume = v + g(d) /\ g(d) \in Nat /\ g(d) <= MaxGross /\ g(w) \in Nat
  BY <1>1, <1>2, <1>4 DEF v, g
<1>8. CASE w = d
  <2>1. volume + (n - 1) * MaxGross <= Cap
    BY <1>2, <1>3, <1>6, <1>7, <1>8
  <2>2. volume <= Cap
    BY <1>3, <1>6, <2>1
  <2>3. ASSUME NEW e \in B
        PROVE  volume + g(e) + (n - 2) * MaxGross <= Cap
    <3>1. g(e) \in Nat /\ g(e) <= MaxGross
      BY <1>1, <1>4
    <3>2. QED
      BY <1>3, <1>6, <2>1, <3>1
  <2>4. ASSUME NEW e \in B PROVE Fits(volume, desk[e].price.gross, B)
    <3>1. Cardinality(B) - 1 = n - 2
      BY <1>5
    <3>2. QED
      BY <2>3, <3>1 DEF Fits, g
  <2>5. QED
    BY <2>2, <2>4
<1>9. CASE w # d
  <2>1. w \in B
    BY <1>1, <1>2, <1>9 DEF A
  <2>2. volume + g(w) + (n - 2) * MaxGross <= Cap
    BY <1>2, <1>3, <1>6, <1>7
  <2>3. Fits(volume, desk[w].price.gross, B)
    <3>1. Cardinality(B) - 1 = n - 2
      BY <1>5
    <3>2. QED
      BY <2>2, <3>1 DEF Fits, g
  <2>4. (n - 2) * MaxGross >= 0
    <3>1. B \in SUBSET Desks /\ B # {}
      BY <1>1, <2>1 DEF A
    <3>2. Cardinality(B) > 0
      BY <3>1, WaitingFinite
    <3>3. 0 <= n - 2 /\ n - 2 \in Int
      BY <1>5, <3>2
    <3>4. 0 * MaxGross <= (n - 2) * MaxGross
      BY <1>3, <3>3, MoreTimes
    <3>5. QED
      BY <1>3, <3>4
  <2>5. volume <= Cap
    BY <1>3, <1>6, <1>7, <2>2, <2>4
  <2>6. QED
    BY <2>1, <2>3, <2>5
<1>10. QED
  BY <1>8, <1>9

LEMMA InsertVolume ==
    ASSUME VolumeInv, CreationTypeOK', NEW d \in Desks, InsertTransfer(d)
    PROVE  VolumeParts'
<1>1. PICK y \in TransferDesk : y = desk[d] /\ y \in DeskStates /\ y.pc = "insert"
  BY TransferInHand DEF VolumeInv, InsertTransfer, DeskAt, Beyond
<1>2. y.user \in Users /\ y.price \in Price /\ desk[d] # DeskIdle /\ PricedDesk(y)
  BY <1>1, DeskRecords DEF VolumeInv, VolumeParts, DesksPriced
<1> DEFINE row == [user |-> y.user, account |-> y.account, pan |-> y.pan, price |-> y.price,
                   key |-> y.key, life |-> "INITIATED", at |-> now, paidAt |-> 0,
                   ordered |-> FALSE]
<1>3. transfer \in Seq(Transfer) /\ DOMAIN transfer = 1 .. Len(transfer) /\ Len(transfer) \in Nat
  BY LenProperties DEF VolumeInv, CreationInv, CreationTypeOK
<1>4. PICK n \in Nat : n = Len(transfer) + 1
  BY <1>3
<1>5. /\ transfer' = Append(transfer, row) /\ UNCHANGED now
      /\ desk' = [desk EXCEPT ![d] = [y EXCEPT !.pc = "pend", !.txn = n]]
  BY <1>1, <1>4 DEF InsertTransfer, accountVars
<1>6. /\ row.user = y.user /\ row.price = y.price /\ row.life = "INITIATED" /\ row.at = now
  OBVIOUS
<1> HIDE DEF row
<1>7. /\ DOMAIN transfer' = 1 .. n /\ transfer'[n] = row
      /\ \A i \in DOMAIN transfer : transfer'[i] = transfer[i] /\ i # n
  BY <1>3, <1>4, <1>5
<1>8. RowsPast'
  <2>1. now <= now
    BY DEF VolumeInv, AccountsTypeOK
  <2>2. \A i \in 1 .. n : i \in DOMAIN transfer \/ i = n
    BY <1>3, <1>4
  <2>3. QED
    BY <1>5, <1>6, <1>7, <2>1, <2>2 DEF VolumeInv, VolumeParts, RowsPast
<1> DEFINE z == [y EXCEPT !.pc = "pend", !.txn = n]
<1>9. z.pc = "pend" /\ z.amount = y.amount /\ z.price = y.price
  BY <1>1 DEF TransferDesk
<1>10. desk' = [desk EXCEPT ![d] = z]
  BY <1>5
<1> HIDE DEF z
<1>11. DesksPriced' /\ \A e \in Desks : desk'[e] = IF e = d THEN z ELSE desk[e]
  BY <1>2, <1>9, <1>10, DesksPricedStill DEF PricedDesk
<1>12. ASSUME NEW u \in Users
       PROVE  CountedToday(u)' = IF u = y.user THEN CountedToday(u) \cup {n} ELSE CountedToday(u)
  <2>1. \A i \in 1 .. n : i \in DOMAIN transfer \/ i = n
    BY <1>3, <1>4
  <2>2. n \in 1 .. n /\ \A i \in DOMAIN transfer : i \in 1 .. n
    BY <1>3, <1>4
  <2>3. \A i \in DOMAIN transfer : i \in CountedToday(u)' <=> i \in CountedToday(u)
    BY <1>5, <1>7, <2>2 DEF CountedToday, TransfersOf, Today
  <2>4. n \in CountedToday(u)' <=> u = y.user
    BY <1>5, <1>6, <1>7, <2>2, Counted DEF CountedToday, TransfersOf, Today
  <2>5. CountedToday(u)' \subseteq 1 .. n /\ CountedToday(u) \subseteq DOMAIN transfer
    BY <1>7 DEF CountedToday, TransfersOf
  <2>6. QED
    BY <2>1, <2>3, <2>4, <2>5
<1>13. /\ \A i \in DOMAIN transfer : Gross'[i] = Gross[i]
       /\ Gross'[n] = y.price.gross
  BY <1>3, <1>4, <1>6, <1>7 DEF Gross
<1>14. \A u : CountedToday(u) \subseteq DOMAIN transfer
  BY DEF CountedToday, TransfersOf
<1>15. ASSUME NEW u \in Users
       PROVE  /\ TodayVolume(u)' <= Cap
              /\ Inserting(u)' # {} =>
                    \E e \in Inserting(u)' :
                       Fits(TodayVolume(u)', desk'[e].price.gross, Inserting(u)')
  <2>0. TodayVolume(u) \in Nat
    BY VolumeIs DEF VolumeInv, CreationInv, VolumeAddsUp
  <2>1. CASE u # y.user
    <3>1. TodayVolume(u)' <= TodayVolume(u) /\ TodayVolume(u)' \in Nat
      BY <1>12, <1>13, <1>14, <2>1, VolumeShrinks DEF VolumeInv, CreationInv
    <3>2. Inserting(u)' = Inserting(u) /\ \A e \in Inserting(u) : desk'[e] = desk[e]
      BY <1>1, <1>9, <1>11, <2>1 DEF Inserting, DeskAt
    <3>3. PICK v \in Nat : v = TodayVolume(u)'
      BY <3>1
    <3>4. v <= Cap
      BY <2>0, <3>1, <3>3, CapIs DEF VolumeInv, VolumeParts, VolumesFit
    <3>5. Inserting(u) # {} => \E e \in Inserting(u) : Fits(v, desk[e].price.gross, Inserting(u))
      BY <3>1, <3>3, RoomStays
    <3>6. QED
      BY <3>2, <3>3, <3>4, <3>5
  <2>2. CASE u = y.user
    <3>1. d \in Inserting(u)
      BY <1>1, <1>2, <2>2 DEF Inserting, DeskAt
    <3>2. TodayVolume(u)' = TodayVolume(u) + y.price.gross /\ y.price.gross \in Nat
      <4>1. n \notin CountedToday(u)
        BY <1>7, <1>14
      <4>2. QED
        BY <1>12, <1>13, <1>14, <2>2, <4>1, VolumeGrows DEF VolumeInv, CreationInv
    <3>3. PICK v \in Nat : v = TodayVolume(u)'
      BY <2>0, <3>2
    <3>4. Inserting(u)' = Inserting(u) \ {d} /\ \A e \in Inserting(u) \ {d} : desk'[e] = desk[e]
      BY <1>1, <1>9, <1>11, <2>2 DEF Inserting, DeskAt
    <3>5. PICK B : B = Inserting(u) \ {d}
      OBVIOUS
    <3>6. v <= Cap /\ (B # {} => \E e \in B : Fits(v, desk[e].price.gross, B))
      BY <1>1, <3>1, <3>2, <3>3, <3>5, RoomTaken
    <3>7. QED
      BY <3>3, <3>4, <3>5, <3>6
  <2>3. QED
    BY <2>1, <2>2
<1>16. QED
  BY <1>8, <1>11, <1>15 DEF VolumeParts, VolumesFit

\* The steps of a request that change a row: it waits for the payment, and the
\* order is noted in it.
LEMMA RowStepVolume ==
    ASSUME VolumeInv, CreationTypeOK', NEW d \in Desks, WaitForPayment(d) \/ NoteOrder(d)
    PROVE  VolumeParts'
<1>1. PICK y \in TransferDesk : y = desk[d] /\ DeskBacked(y) /\ y.pc \in {"pend", "note"}
  BY TransferInHand DEF VolumeInv, WaitForPayment, NoteOrder, DeskAt, Beyond
<1>2. desk[d] # DeskIdle
  BY DEF WaitForPayment, NoteOrder, DeskAt
<1>3. PICK i \in DOMAIN transfer : i = y.txn
  BY <1>1 DEF DeskBacked, Inserted
<1>4. transfer[i] \in Transfer
  BY LenProperties, ElementOfSeq DEF VolumeInv, CreationInv, CreationTypeOK
<1>5. UNCHANGED now
  BY DEF WaitForPayment, NoteOrder, accountVars
<1>6. RowsPast' /\ \A u \in Users : TodayVolume(u)' \in Nat /\ TodayVolume(u)' <= TodayVolume(u)
  <2>1. CASE WaitForPayment(d)
    <3> DEFINE row == [transfer[i] EXCEPT !.life = "PAYMENT_PENDING"]
    <3>1. /\ row \in Transfer /\ row.user = transfer[i].user
          /\ row.at = transfer[i].at /\ row.price = transfer[i].price
      BY <1>4 DEF Transfer, LifeStates
    <3>2. transfer[i].life # "PAYMENT_FAILED"
      BY <1>1, <1>3, <2>1 DEF WaitForPayment, TransitionAccepted, AllowedTransitions
    <3>3. transfer' = [transfer EXCEPT ![i] = row]
      BY <1>1, <1>3, <2>1 DEF WaitForPayment
    <3> HIDE DEF row
    <3>4. QED
      BY <1>5, <3>1, <3>2, <3>3, RowVolume
  <2>2. CASE NoteOrder(d)
    <3> DEFINE row == [transfer[i] EXCEPT !.ordered = TRUE]
    <3>1. /\ row \in Transfer /\ row.user = transfer[i].user /\ row.life = transfer[i].life
          /\ row.at = transfer[i].at /\ row.price = transfer[i].price
      BY <1>4 DEF Transfer
    <3>2. transfer' = [transfer EXCEPT ![i] = row]
      BY <1>1, <1>3, <2>2 DEF NoteOrder
    <3> HIDE DEF row
    <3>3. QED
      BY <1>5, <3>1, <3>2, RowVolume
  <2>3. QED
    BY <2>1, <2>2
<1>7. CASE EndDesk(d)
  BY <1>6, <1>7, VolumeQuiet DEF EndDesk
<1>8. ASSUME NEW pc \in {"order", "save"}, GoTo(d, pc)
      PROVE  VolumeParts'
  <2>1. PICK x : x = [desk[d] EXCEPT !.pc = pc]
    OBVIOUS
  <2>2. PricedDesk(x) /\ x.pc = pc
    BY <1>2, <2>1, PriceStays DEF Beyond
  <2>3. desk' = [desk EXCEPT ![d] = x]
    BY <1>8, <2>1 DEF GoTo
  <2>4. QED
    BY <1>6, <2>2, <2>3, VolumeQuiet
<1>9. QED
  BY <1>7, <1>8 DEF WaitForPayment, NoteOrder

\* The requests are left alone, and no more counts.
LEMMA VolumeApart ==
    ASSUME VolumeInv, UNCHANGED desk, RowsPast',
           \A u \in Users : TodayVolume(u)' \in Nat /\ TodayVolume(u)' <= TodayVolume(u)
    PROVE  VolumeParts'
<1>1. DesksPriced'
  BY DEF VolumeInv, VolumeParts, DesksPriced
<1>2. VolumesFit'
  BY VolumesFitStill
<1>3. QED
  BY <1>1, <1>2 DEF VolumeParts

\* What becomes of the payment and the payout: a payment that failed counts no more.
LEMMA EndsVolume ==
    ASSUME VolumeInv, CreationTypeOK', NEW i \in DOMAIN transfer,
           PayoutFails(i) \/ PaymentEnds(i, "PAYMENT_SUCCESS") \/ PaymentEnds(i, "PAYMENT_FAILED")
    PROVE  VolumeParts'
<1>1. transfer[i] \in Transfer /\ transfer[i].life \in {"PAYMENT_PENDING", "PAYMENT_SUCCESS"}
  BY LenProperties, ElementOfSeq
     DEF VolumeInv, CreationInv, CreationTypeOK, PayoutFails, PaymentEnds
<1>2. UNCHANGED <<now, desk>>
  BY DEF PayoutFails, PaymentEnds, accountVars
<1>3. PICK state \in {"PAYMENT_SUCCESS", "PAYMENT_FAILED", "PAYOUT_FAILED"}, paidAt \in Nat :
         transfer' = [transfer EXCEPT ![i].life = state, ![i].paidAt = paidAt]
  <2>1. CASE PayoutFails(i)
    <3>1. transfer[i].paidAt \in Nat
      BY <1>1 DEF Transfer
    <3>2. [transfer[i] EXCEPT !.life = "PAYOUT_FAILED"]
             = [transfer[i] EXCEPT !.life = "PAYOUT_FAILED", !.paidAt = transfer[i].paidAt]
      BY <1>1 DEF Transfer
    <3>3. transfer' = [transfer EXCEPT ![i] = [transfer[i] EXCEPT !.life = "PAYOUT_FAILED"]]
      BY <2>1 DEF PayoutFails
    <3>4. transfer' = [transfer EXCEPT ![i].life = "PAYOUT_FAILED",
                                       ![i].paidAt = transfer[i].paidAt]
      BY <3>2, <3>3
    <3>5. QED
      BY <3>1, <3>4
  <2>2. ASSUME NEW state \in {"PAYMENT_SUCCESS", "PAYMENT_FAILED"}, PaymentEnds(i, state)
        PROVE  \E paidAt \in Nat :
                  transfer' = [transfer EXCEPT ![i].life = state, ![i].paidAt = paidAt]
    <3>1. PICK paidAt \in Nat :
            paidAt = IF state = "PAYMENT_SUCCESS" THEN now ELSE transfer[i].paidAt
      BY <1>1 DEF Transfer, VolumeInv, AccountsTypeOK
    <3>2. QED
      BY <2>2, <3>1 DEF PaymentEnds
  <2>3. QED
    BY <2>1, <2>2
<1> DEFINE row == [transfer[i] EXCEPT !.life = state, !.paidAt = paidAt]
<1>4. /\ row \in Transfer /\ row.user = transfer[i].user
      /\ row.at = transfer[i].at /\ row.price = transfer[i].price
  BY <1>1 DEF Transfer, LifeStates
<1>5. transfer' = [transfer EXCEPT ![i] = row]
  BY <1>3
<1> HIDE DEF row
<1>6. RowsPast' /\ \A u \in Users : TodayVolume(u)' \in Nat /\ TodayVolume(u)' <= TodayVolume(u)
  BY <1>1, <1>2, <1>4, <1>5, RowVolume
<1>7. QED
  BY <1>2, <1>6, VolumeApart

\* Later ticks are of no earlier day.
LEMMA DaysInOrder ==
    ASSUME NEW a \in Nat, NEW b \in Nat, a <= b, NEW m \in Nat \ {0}
    PROVE  a \div m \in Nat /\ b \div m \in Nat /\ a \div m <= b \div m
<1>1. a \div m \in Nat /\ b \div m \in Nat
  BY SMT
<1>2. a \div m <= b \div m
  BY SMT
<1>3. QED
  BY <1>1, <1>2

\* The next day begins with nothing counted.
LEMMA TickVolume ==
    ASSUME VolumeInv, CreationTypeOK', Tick, UNCHANGED creationVars
    PROVE  VolumeParts'
<1>1. now \in Nat /\ now' = now + 1 /\ DayLength \in Nat \ {0}
  BY AccountsAssumption DEF VolumeInv, AccountsTypeOK, Tick, AccountsAssumption
<1>2. UNCHANGED <<transfer, desk>>
  BY DEF creationVars
<1>3. ASSUME NEW i \in DOMAIN transfer
      PROVE  transfer[i].at \in Nat /\ transfer[i].at <= now
  <2>1. transfer[i] \in Transfer
    BY LenProperties, ElementOfSeq DEF VolumeInv, CreationInv, CreationTypeOK
  <2>2. QED
    BY <2>1 DEF Transfer, VolumeInv, VolumeParts, RowsPast
<1>4. RowsPast'
  BY <1>1, <1>2, <1>3 DEF RowsPast
<1>5. ASSUME NEW i \in DOMAIN transfer, transfer[i].at \div DayLength = (now + 1) \div DayLength
      PROVE  transfer[i].at \div DayLength = now \div DayLength
  <2>1. /\ transfer[i].at \div DayLength \in Nat /\ now \div DayLength \in Nat
        /\ transfer[i].at \div DayLength <= now \div DayLength
    BY <1>1, <1>3, DaysInOrder
  <2>2. now \div DayLength <= (now + 1) \div DayLength /\ now <= now + 1 /\ now + 1 \in Nat
    <3>1. now <= now + 1 /\ now + 1 \in Nat
      BY <1>1
    <3>2. QED
      BY <1>1, <3>1, DaysInOrder
  <2>3. QED
    BY <1>5, <2>1, <2>2
<1>6. ASSUME NEW u
      PROVE  /\ CountedToday(u)' \subseteq CountedToday(u)
             /\ \A i \in CountedToday(u)' : Gross'[i] = Gross[i]
  BY <1>1, <1>2, <1>5 DEF CountedToday, TransfersOf, Gross, Today
<1>7. \A u \in Users : TodayVolume(u)' \in Nat /\ TodayVolume(u)' <= TodayVolume(u)
  BY <1>6, VolumeShrinks DEF VolumeInv, CreationInv
<1>8. QED
  BY <1>2, <1>4, <1>7, VolumeApart

\* Steps that see no transfers and no requests for them.
LEMMA OthersVolume ==
    ASSUME VolumeInv, CreationTypeOK', UNCHANGED creationVars, UNCHANGED now
    PROVE  VolumeParts'
<1>1. UNCHANGED <<transfer, now, desk>>
  BY DEF creationVars
<1>2. RowsPast' /\ \A u \in Users : TodayVolume(u)' \in Nat /\ TodayVolume(u)' <= TodayVolume(u)
  BY <1>1, SameVolume
<1>3. QED
  BY <1>1, <1>2, VolumeApart

\* Only Tick moves the clock.
LEMMA ClockStands ==
    ASSUME \/ \E u \in Users : UpdateProfile(u) \/ \E p \in Pans : SubmitPan(u, p)
           \/ IdentityNext
           \/ KycNext
    PROVE  UNCHANGED now
<1> USE DEF accountVars
<1>1. CASE \E u \in Users : UpdateProfile(u) \/ \E p \in Pans : SubmitPan(u, p)
  BY <1>1 DEF UpdateProfile, SubmitPan
<1>2. CASE IdentityNext
  BY <1>2 DEF IdentityNext, ClientStep, BeginSignIn, CreateUser, RefuseCreateUser,
              BeginRefresh, IssueToken, RevokeToken, CrashClient
<1>3. CASE KycNext
  BY <1>3 DEF KycNext, OfficerStep, BeginSession, OpenSession, RefuseSession,
              SaveSessionStatus, BeginSync, WriteSync, BeginKycNotice, ApplyKycNotice,
              CrashOfficer, OpenElsewhere, SessionMoves
<1>4. QED
  BY <1>1, <1>2, <1>3

LEMMA CreationVolume ==
    ASSUME VolumeInv, CreationTypeOK', CreationNext
    PROVE  VolumeParts'
<1>1. ASSUME NEW d \in Desks, DeskStep(d)
      PROVE  VolumeParts'
  <2>1. ASSUME NEW u \in Users, NEW a \in BankAccounts,
               BeginBeneficiary(d, u, a)
                 \/ \E m \in Amounts, k \in Keys \cup {NoKey} : BeginTransfer(d, u, a, m, k)
        PROVE  VolumeParts'
    BY <2>1, BeginVolume
  <2>2. CASE InsertBeneficiary(d) \/ RegisterBeneficiary(d) \/ RegisterAnswerLost(d)
               \/ StoreBeneficiary(d) \/ RefuseBeneficiary(d)
    <3>1. UNCHANGED <<transfer, now>>
      BY <2>2 DEF InsertBeneficiary, RegisterBeneficiary, RegisterAnswerLost,
                  StoreBeneficiary, RefuseBeneficiary, accountVars
    <3>2. \/ EndDesk(d)
          \/ desk[d] # DeskIdle /\ \E pc \in {"register", "store", "evaluate", "note"} : GoTo(d, pc)
      BY <2>2 DEF InsertBeneficiary, RegisterBeneficiary, RegisterAnswerLost,
                  StoreBeneficiary, RefuseBeneficiary, DeskAt
    <3>3. QED
      BY <3>1, <3>2, DeskVolume
  <2>3. CASE RefuseTransfer(d) \/ RefuseKey(d) \/ CreateOrder(d) \/ OrderAnswerLost(d)
               \/ RefuseOrder(d) \/ SaveAnswer(d)
    <3>1. UNCHANGED <<transfer, now>>
      BY <2>3 DEF RefuseTransfer, RefuseKey, CreateOrder, OrderAnswerLost, RefuseOrder,
                  SaveAnswer, accountVars
    <3>2. \/ EndDesk(d)
          \/ desk[d] # DeskIdle /\ \E pc \in {"register", "store", "evaluate", "note"} : GoTo(d, pc)
      BY <2>3 DEF RefuseTransfer, RefuseKey, CreateOrder, OrderAnswerLost, RefuseOrder,
                  SaveAnswer, DeskAt
    <3>3. QED
      BY <3>1, <3>2, DeskVolume
  <2>4. CASE Evaluate(d)
    BY <2>4, EvaluateVolume
  <2>5. CASE InsertTransfer(d)
    BY <2>5, InsertVolume
  <2>6. CASE WaitForPayment(d) \/ NoteOrder(d)
    BY <2>6, RowStepVolume
  <2>7. QED
    BY <1>1, <2>1, <2>2, <2>3, <2>4, <2>5, <2>6 DEF DeskStep
<1>2. ASSUME NEW d \in Desks, CrashDesk(d)
      PROVE  VolumeParts'
  <2>1. UNCHANGED <<transfer, now>> /\ EndDesk(d)
    BY <1>2 DEF CrashDesk
  <2>2. QED
    BY <2>1, DeskVolume
<1>3. ASSUME NEW i \in DOMAIN transfer,
             PayoutFails(i) \/ \E state \in {"PAYMENT_SUCCESS", "PAYMENT_FAILED"} :
                                  PaymentEnds(i, state)
      PROVE  VolumeParts'
  BY <1>3, EndsVolume
<1>4. QED
  BY <1>1, <1>2, <1>3 DEF CreationNext

LEMMA InitVolume == AdmissionInit => VolumeParts
<1> SUFFICES ASSUME AdmissionInit PROVE VolumeParts
  OBVIOUS
<1>1. transfer = <<>> /\ \A d \in Desks : desk[d] = DeskIdle
  BY DEF AdmissionInit, CreationInit
<1>2. CreationTypeOK
  BY InitAdmission DEF AdmissionInv, CreationInv
<1>3. DesksPriced /\ RowsPast
  BY <1>1 DEF DesksPriced, RowsPast
<1>4. ASSUME NEW u \in Users
      PROVE  TodayVolume(u) <= Cap /\ Inserting(u) = {}
  <2>1. CountedToday(u) = {}
    BY <1>1 DEF CountedToday, TransfersOf
  <2>2. TodayVolume(u) = Total(Gross, CountedToday(u))
    BY <1>2, VolumeIs DEF VolumeAddsUp
  <2>3. Total(Gross, {}) = 0
    BY FS_EmptySet, TotalPicks
  <2>4. Inserting(u) = {}
    BY <1>1 DEF Inserting, DeskAt
  <2>5. QED
    BY <2>1, <2>2, <2>3, <2>4, CapIs
<1>5. QED
  BY <1>3, <1>4 DEF VolumeParts, VolumesFit

LEMMA NextVolume ==
    AdmissionInv /\ AdmissionInv' /\ VolumeParts /\ [AdmissionNext]_admissionVars => VolumeParts'
<1> SUFFICES ASSUME AdmissionInv, AdmissionInv', VolumeParts, [AdmissionNext]_admissionVars
             PROVE  VolumeParts'
  OBVIOUS
<1>0. VolumeInv /\ CreationTypeOK'
  BY DEF AdmissionInv, VolumeInv, CreationInv
<1>1. CASE AccountsStep
  <2>1. CASE Tick
    BY <1>0, <1>1, <2>1, TickVolume DEF AccountsStep
  <2>2. CASE \E u \in Users : UpdateProfile(u) \/ \E p \in Pans : SubmitPan(u, p)
    BY <1>0, <1>1, <2>2, ClockStands, OthersVolume DEF AccountsStep
  <2>3. QED
    BY <1>1, <2>1, <2>2 DEF AccountsStep, AccountsNext
<1>2. CASE IdentityStep \/ KycStep
  BY <1>0, <1>2, ClockStands, OthersVolume DEF IdentityStep, KycStep
<1>3. CASE CreationStep
  BY <1>0, <1>3, CreationVolume DEF CreationStep
<1>4. CASE UNCHANGED admissionVars
  <2>1. UNCHANGED creationVars /\ UNCHANGED now
    BY <1>4 DEF admissionVars, accountVars
  <2>2. QED
    BY <1>0, <2>1, OthersVolume
<1>5. QED
  BY <1>1, <1>2, <1>3, <1>4 DEF AdmissionNext

LEMMA VolumeInvariant == AdmissionSpec => []VolumeParts
<1>1. AdmissionSpec => []AdmissionInv
  BY AdmissionInvariant
<1>2. QED
  BY <1>1, InitVolume, NextVolume, PTL DEF AdmissionSpec

\* A day's volume passes its cap by no more than one fee and what the other
\* requests in flight have had admitted at the same time: evaluateTransfer reads
\* the volume before createTransfer writes the row, and leaves out the fee.
THEOREM VolumeIsBounded == AdmissionSpec => []VolumeBounded
<1>1. VolumeParts => VolumeBounded
  BY DEF VolumeParts, VolumesFit, VolumeBounded, Cap
<1>2. QED
  BY <1>1, VolumeInvariant, PTL

-----------------------------------------------------------------------------
(***************************************************************************)
(* The prices of the rows, which are those of amounts that were asked for. *)
(***************************************************************************)
RowsPriced == \A i \in DOMAIN transfer : \E m \in Amounts : transfer[i].price \in Prices(m)

\* A row that changes keeps its price.
LEMMA PricesStay ==
    ASSUME VolumeInv, NEW i \in DOMAIN transfer,
           \/ PayoutFails(i) \/ PaymentEnds(i, "PAYMENT_SUCCESS") \/ PaymentEnds(i, "PAYMENT_FAILED")
           \/ \E d \in Desks : desk[d].txn = i /\ (WaitForPayment(d) \/ NoteOrder(d))
    PROVE  /\ DOMAIN transfer' = DOMAIN transfer
           /\ \A j \in DOMAIN transfer : transfer'[j].price = transfer[j].price
<1>1. transfer \in Seq(Transfer) /\ DOMAIN transfer = 1 .. Len(transfer)
  BY LenProperties DEF VolumeInv, CreationInv, CreationTypeOK
<1>2. transfer[i] \in Transfer
  BY <1>1, ElementOfSeq
<1>3. PICK row : transfer' = [transfer EXCEPT ![i] = row] /\ row.price = transfer[i].price
  <2>1. ASSUME NEW state, transfer' = [transfer EXCEPT ![i] = [transfer[i] EXCEPT !.life = state]]
        PROVE  \E row : transfer' = [transfer EXCEPT ![i] = row] /\ row.price = transfer[i].price
    <3>1. [transfer[i] EXCEPT !.life = state].price = transfer[i].price
      BY <1>2 DEF Transfer
    <3>2. QED
      BY <2>1, <3>1
  <2>2. CASE PayoutFails(i)
    BY <2>1, <2>2 DEF PayoutFails
  <2>3. ASSUME NEW state, PaymentEnds(i, state)
        PROVE  \E row : transfer' = [transfer EXCEPT ![i] = row] /\ row.price = transfer[i].price
    <3>1. PICK paidAt : paidAt = IF state = "PAYMENT_SUCCESS" THEN now ELSE transfer[i].paidAt
      OBVIOUS
    <3>2. [transfer[i] EXCEPT !.life = state, !.paidAt = paidAt].price = transfer[i].price
      BY <1>2 DEF Transfer
    <3>3. transfer' = [transfer EXCEPT ![i] = [transfer[i] EXCEPT !.life = state, !.paidAt = paidAt]]
      BY <2>3, <3>1 DEF PaymentEnds
    <3>4. QED
      BY <3>2, <3>3
  <2>4. ASSUME NEW d \in Desks, desk[d].txn = i, WaitForPayment(d)
        PROVE  \E row : transfer' = [transfer EXCEPT ![i] = row] /\ row.price = transfer[i].price
    BY <2>1, <2>4 DEF WaitForPayment
  <2>5. ASSUME NEW d \in Desks, desk[d].txn = i, NoteOrder(d)
        PROVE  \E row : transfer' = [transfer EXCEPT ![i] = row] /\ row.price = transfer[i].price
    <3>1. [transfer[i] EXCEPT !.ordered = TRUE].price = transfer[i].price
      BY <1>2 DEF Transfer
    <3>2. transfer' = [transfer EXCEPT ![i] = [transfer[i] EXCEPT !.ordered = TRUE]]
      BY <2>5 DEF NoteOrder
    <3>3. QED
      BY <3>1, <3>2
  <2>6. QED
    BY <2>2, <2>3, <2>4, <2>5
<1>4. QED
  BY <1>1, <1>3

LEMMA DeskPrices ==
    ASSUME VolumeInv, RowsPriced, NEW d \in Desks, DeskStep(d)
    PROVE  RowsPriced'
<1>1. CASE UNCHANGED transfer
  BY <1>1 DEF RowsPriced
<1>2. CASE InsertTransfer(d)
  <2>1. PICK y \in TransferDesk : y = desk[d] /\ y \in DeskStates /\ y.pc = "insert"
    BY <1>2, TransferInHand DEF VolumeInv, InsertTransfer, DeskAt, Beyond
  <2>2. y.amount \in Amounts /\ y.price \in Prices(y.amount)
    <3>1. desk[d] # DeskIdle
      BY <1>2 DEF InsertTransfer, DeskAt
    <3>2. QED
      BY <2>1, <3>1, DeskRecords DEF VolumeInv, VolumeParts, DesksPriced, PricedDesk
  <2>3. transfer \in Seq(Transfer) /\ DOMAIN transfer = 1 .. Len(transfer) /\ Len(transfer) \in Nat
    BY LenProperties DEF VolumeInv, CreationInv, CreationTypeOK
  <2>4. PICK row : transfer' = Append(transfer, row) /\ row.price = y.price
    BY <1>2, <2>1 DEF InsertTransfer
  <2>5. ASSUME NEW i \in DOMAIN transfer'
        PROVE  IF i \in DOMAIN transfer THEN transfer'[i] = transfer[i] ELSE transfer'[i] = row
    BY <2>3, <2>4
  <2>6. QED
    BY <2>2, <2>4, <2>5 DEF RowsPriced
<1>3. CASE WaitForPayment(d) \/ NoteOrder(d)
  <2>1. PICK y \in TransferDesk : y = desk[d] /\ DeskBacked(y) /\ y.pc \in {"pend", "note"}
    BY <1>3, TransferInHand DEF VolumeInv, WaitForPayment, NoteOrder, DeskAt, Beyond
  <2>2. PICK i \in DOMAIN transfer : i = desk[d].txn
    BY <2>1 DEF DeskBacked, Inserted
  <2>3. /\ DOMAIN transfer' = DOMAIN transfer
        /\ \A j \in DOMAIN transfer : transfer'[j].price = transfer[j].price
    BY <1>3, <2>2, PricesStay
  <2>4. QED
    BY <2>3 DEF RowsPriced
<1>4. QED
  BY <1>1, <1>2, <1>3
     DEF DeskStep, BeginBeneficiary, BeginTransfer, InsertBeneficiary, RegisterBeneficiary,
         RegisterAnswerLost, StoreBeneficiary, RefuseBeneficiary, Evaluate, RefuseTransfer,
         RefuseKey, CreateOrder, OrderAnswerLost, RefuseOrder, SaveAnswer

LEMMA NextPriced ==
    AdmissionInv /\ VolumeParts /\ RowsPriced /\ [AdmissionNext]_admissionVars => RowsPriced'
<1> SUFFICES ASSUME AdmissionInv, VolumeParts, RowsPriced, [AdmissionNext]_admissionVars
             PROVE  RowsPriced'
  OBVIOUS
<1>1. VolumeInv
  BY DEF AdmissionInv, VolumeInv
<1>2. CASE UNCHANGED transfer
  BY <1>2 DEF RowsPriced
<1>3. ASSUME NEW d \in Desks, DeskStep(d) \/ CrashDesk(d)
      PROVE  RowsPriced'
  BY <1>1, <1>2, <1>3, DeskPrices DEF CrashDesk
<1>4. ASSUME NEW i \in DOMAIN transfer,
             PayoutFails(i) \/ \E state \in {"PAYMENT_SUCCESS", "PAYMENT_FAILED"} :
                                  PaymentEnds(i, state)
      PROVE  RowsPriced'
  <2>1. /\ DOMAIN transfer' = DOMAIN transfer
        /\ \A j \in DOMAIN transfer : transfer'[j].price = transfer[j].price
    BY <1>1, <1>4, PricesStay
  <2>2. QED
    BY <2>1 DEF RowsPriced
<1>5. QED
  BY <1>2, <1>3, <1>4
     DEF AdmissionNext, AccountsStep, IdentityStep, KycStep, CreationStep, CreationNext,
         creationVars, admissionVars

LEMMA PricesOfRows == AdmissionSpec => []RowsPriced
<1>1. AdmissionInit => RowsPriced
  BY DEF AdmissionInit, CreationInit, RowsPriced
<1>2. AdmissionSpec => []AdmissionInv
  BY AdmissionInvariant
<1>3. QED
  BY <1>1, <1>2, VolumeInvariant, NextPriced, PTL DEF AdmissionSpec

LEMMA PriceOfOrder ==
    ASSUME AdmissionInv, RowsPriced, NEW i \in orders
    PROVE  \E m \in Amounts : m \in Nat /\ transfer[i].price \in Prices(m)
<1>1. i \in DOMAIN transfer
  BY DEF AdmissionInv, CreationInv, OrderAwaitsPayment
<1>2. PICK m \in Amounts : transfer[i].price \in Prices(m)
  BY <1>1 DEF RowsPriced
<1>3. m \in Nat
  BY CreationAssumption DEF CreationAssumption
<1>4. QED
  BY <1>2, <1>3

\* The shares of every refund of a payment fit into the parts of its price, and two
\* of them that make the whole lose or invent no more than one paisa of the fee
\* (calculateReversalBreakdown).
THEOREM RefundsAlwaysFit == AdmissionSpec => []RefundsFit
<1>1. AdmissionInv /\ RowsPriced => RefundsFit
  <2> SUFFICES ASSUME AdmissionInv, RowsPriced, NEW i \in orders, Balanced(transfer[i].price)
               PROVE  transfer[i].price \in FittingPrices
    BY DEF RefundsFit
  <2>1. PICK m \in Amounts : m \in Nat /\ transfer[i].price \in Prices(m)
    BY PriceOfOrder
  <2>2. SharesFit(transfer[i].price)
    BY <2>1, PricesAreWhole, PricesFit
  <2>3. QED
    BY <2>1, <2>2 DEF FittingPrices
<1>2. AdmissionSpec => []AdmissionInv
  BY AdmissionInvariant
<1>3. QED
  BY <1>1, <1>2, PricesOfRows, PTL

\* Every payment that can be taken can be credited when nobody asks for a fraction
\* of a paisa: the fee, the net and the gross amount are rounded apart from one
\* another, and only such a fraction sets them apart (calculatePricing, assertBalanced).
THEOREM WholePaiseOrdersBalance ==
    ASSUME \A m \in Amounts : m % 10 = 0
    PROVE  AdmissionSpec => []OrdersBalance
<1>1. AdmissionInv /\ RowsPriced => OrdersBalance
  <2> SUFFICES ASSUME AdmissionInv, RowsPriced, NEW i \in orders
               PROVE  Balanced(transfer[i].price)
    BY DEF OrdersBalance
  <2>1. PICK m \in Amounts : m \in Nat /\ transfer[i].price \in Prices(m)
    BY PriceOfOrder
  <2>2. QED
    BY <2>1, WholePaiseBalance
<1>2. AdmissionSpec => []AdmissionInv
  BY AdmissionInvariant
<1>3. QED
  BY <1>1, <1>2, PricesOfRows, PTL
=============================================================================
