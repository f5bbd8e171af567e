--------------------------- MODULE TransferCreation ---------------------------
(***************************************************************************)
(* PaymentService.createTransfer and BeneficiaryService.create, with the   *)
(* checks, the bank account validation, the registration at the payout     *)
(* provider and the risk rules on their way, up to the order at the        *)
(* payment gateway.  A request works on the user row it has read at its    *)
(* start; reads that follow one another with no write or external call in  *)
(* between are one step.  The risk profile is left out: nothing reads it.  *)
(***************************************************************************)
EXTENDS Identity, Lifecycle, Pricing, FiniteSetsExt

CONSTANTS
    BankAccounts,        \* account numbers with their branch code
    HolderOf,            \* external: the name the bank has for an account
    Amounts,             \* amounts a request may ask for, in thousandths of a rupee
    Keys,                \* idempotency keys
    Desks,               \* requests in flight at the same time
    MaxAmount,           \* config.risk.maxTransactionAmount, in paise
    MaxVolume,           \* config.risk.maxDailyVolume, in paise
    VelocityWindow,      \* config.risk.velocityWindowMinutes, in ticks
    VelocityMax,         \* config.risk.velocityMaxTransactions
    BeneficiaryLimit,    \* new beneficiaries, failed payouts and devices in a day
    FailedPayoutLimit,   \*   that make a request suspicious
    DeviceLimit,
    IsSelfTransfer(_, _) \* the name check of compliance/self-transfer.util.ts

ASSUME CreationAssumption ==
    /\ HolderOf \in [BankAccounts -> Names]
    /\ IsFiniteSet(BankAccounts) /\ IsFiniteSet(Desks)
    /\ Amounts \subseteq Nat \ {0}
    /\ MaxAmount \in Nat \ {0} /\ MaxVolume \in Nat /\ MaxVolume >= MaxAmount
    /\ \A p \in Pans, a \in BankAccounts :
          IsSelfTransfer(NameOnPan[p], HolderOf[a]) \in BOOLEAN

VARIABLES
    beneficiary,  \* Beneficiary rows by owner and account; NoBeneficiary before
    registered,   \* external: beneficiaries the payout provider knows
    transfer,     \* Transaction rows in the order they were written
    answer,       \* IdempotencyKey rows by key; NoAnswer before
    orders,       \* external: transactions with an order at the payment gateway
    desk          \* local state of each request

creationVars == <<beneficiary, registered, transfer, answer, orders, desk>>

NoBeneficiary == [status |-> "NONE"]
Beneficiaries ==
    [status : {"PENDING_VERIFICATION", "VERIFIED"}, at : Nat] \cup {NoBeneficiary}

NoKey == "none"
Price == [net : Nat, fee : Nat, tax : Nat, gross : Nat]
\* `pan` is a record of the model's own: the PAN the checks were made with.
Transfer == [user : Users, account : BankAccounts, pan : Pans, price : Price,
             key : Keys \cup {NoKey}, life : LifeStates,
             at : Nat, paidAt : Nat, ordered : BOOLEAN]

\* requestHash and responseBody: what was asked for, and the transfer named.
NoAnswer == [txn |-> 0]
Answer == [account : BankAccounts, amount : Amounts, txn : Nat \ {0}]

DeskIdle == [pc |-> "idle"]
TransferDesk ==
    [pc : {"validate", "register", "store", "evaluate", "insert", "pend", "order",
           "note", "save"},
     user : Users, account : BankAccounts, pan : Pans, amount : Amounts,
     price : Price, key : Keys \cup {NoKey}, txn : Nat]
BeneficiaryDesk ==
    [pc : {"validate", "register", "store"},
     user : Users, account : BankAccounts, pan : Pans, amount : {0}]

CreationTypeOK ==
    /\ beneficiary \in [Users -> [BankAccounts -> Beneficiaries]]
    /\ registered \subseteq Users \X BankAccounts
    /\ transfer \in Seq(Transfer)
    /\ answer \in [Keys -> Answer \cup {NoAnswer}]
    /\ orders \subseteq Nat
    /\ desk \in [Desks -> TransferDesk \cup BeneficiaryDesk \cup {DeskIdle}]

CreationInit ==
    /\ beneficiary = [u \in Users |-> [a \in BankAccounts |-> NoBeneficiary]]
    /\ registered = {}
    /\ transfer = <<>>
    /\ answer = [k \in Keys |-> NoAnswer]
    /\ orders = {}
    /\ desk = [d \in Desks |-> DeskIdle]

DeskAt(d, pc) == desk[d] # DeskIdle /\ desk[d].pc = pc
GoTo(d, pc) == desk' = [desk EXCEPT ![d].pc = pc]
EndDesk(d) == desk' = [desk EXCEPT ![d] = DeskIdle]

-----------------------------------------------------------------------------
(***************************************************************************)
(* The start of a request.                                                 *)
(***************************************************************************)
\* assertBeneficiaryProfile: nothing a payout needs is empty.
ProfileComplete(row) == row.profile

\* What BeneficiaryService.create asks of the user.
MayAddBeneficiary(row) == HasPan(row) /\ ProfileComplete(row)

\* What createTransfer asks of the user; the number is verified with the row.
MayTransfer(row) == MayAddBeneficiary(row) /\ row.kyc = "APPROVED"

\* A key that was answered for the same input is answered the same again.
Answered(k, a, m) ==
    k # NoKey /\ answer[k] # NoAnswer
              /\ answer[k].account = a /\ answer[k].amount = m

\* A mutant: a saved account is taken as it is.
TakeSaved(u, a) ==
    IF beneficiary[u][a] = NoBeneficiary THEN "validate" ELSE "evaluate"

\* A saved account is made ready if it is not, a new one is validated first;
\* a registered one needs nothing (ensureBeneficiary, ensureReady).
FirstStep(u, a) ==
    CASE beneficiary[u][a] = NoBeneficiary      -> "validate"
      [] beneficiary[u][a].status = "VERIFIED"  -> "evaluate"
      [] OTHER                                  -> "register"

BeginTransfer(d, u, a, m, k) ==
    /\ desk[d] = DeskIdle
    /\ MayTransfer(user[u])
    /\ ~ Answered(k, a, m)
    /\ \E p \in Prices(m) :
          desk' = [desk EXCEPT ![d] =
                     [pc |-> FirstStep(u, a), user |-> u, account |-> a,
                      pan |-> user[u].pan, amount |-> m, price |-> p,
                      key |-> k, txn |-> 0]]
    /\ UNCHANGED <<accountVars, beneficiary, registered, transfer, answer, orders>>

BeginBeneficiary(d, u, a) ==
    /\ desk[d] = DeskIdle
    /\ MayAddBeneficiary(user[u])
    /\ FirstStep(u, a) # "evaluate"
    /\ desk' = [desk EXCEPT ![d] = [pc |-> FirstStep(u, a), user |-> u, account |-> a,
                                    pan |-> user[u].pan, amount |-> 0]]
    /\ UNCHANGED <<accountVars, beneficiary, registered, transfer, answer, orders>>

-----------------------------------------------------------------------------
(***************************************************************************)
(* The beneficiary.                                                        *)
(***************************************************************************)
ToSelf(d) == IsSelfTransfer(NameOnPan[desk[d].pan], HolderOf[desk[d].account])

\* A transfer reads its user again on its way to validateBankAccount, at some time
\* since its start: the PAN it began with and the one there is now stand for what
\* it may find.  BeneficiaryService.create reads its user once.
PansAtValidation(d) ==
    {desk[d].pan} \cup (IF desk[d].amount = 0 THEN {} ELSE {user[desk[d].user].pan})

\* validateBankAccount has confirmed the account and found it foreign; the row is
\* written, unless another request has written it since (a unique key).
InsertBeneficiary(d) ==
    /\ DeskAt(d, "validate")
    /\ \E p \in PansAtValidation(d) : ~ IsSelfTransfer(NameOnPan[p], HolderOf[desk[d].account])
    /\ beneficiary[desk[d].user][desk[d].account] = NoBeneficiary
    /\ beneficiary' = [beneficiary EXCEPT ![desk[d].user][desk[d].account] =
                          [status |-> "PENDING_VERIFICATION", at |-> now]]
    /\ GoTo(d, "register")
    /\ UNCHANGED <<accountVars, registered, transfer, answer, orders>>

\* The provider takes the beneficiary; its id there is made from the row's.
Register(d) == registered' = registered \cup {<<desk[d].user, desk[d].account>>}

RegisterBeneficiary(d) ==
    /\ DeskAt(d, "register")
    /\ Register(d)
    /\ GoTo(d, "store")
    /\ UNCHANGED <<accountVars, beneficiary, transfer, answer, orders>>

RegisterAnswerLost(d) ==
    /\ DeskAt(d, "register")
    /\ Fault
    /\ Register(d)
    /\ EndDesk(d)
    /\ UNCHANGED <<user, now, beneficiary, transfer, answer, orders>>

StoreBeneficiary(d) ==
    /\ DeskAt(d, "store")
    /\ beneficiary' = [beneficiary EXCEPT
                          ![desk[d].user][desk[d].account].status = "VERIFIED"]
    /\ IF desk[d].amount = 0 THEN EndDesk(d) ELSE GoTo(d, "evaluate")
    /\ UNCHANGED <<accountVars, registered, transfer, answer, orders>>

\* The account is not valid, is the user's own, or was added meanwhile; or the
\* provider does not register it.
RefuseBeneficiary(d) ==
    /\ DeskAt(d, "validate") \/ DeskAt(d, "register")
    /\ EndDesk(d)
    /\ UNCHANGED <<accountVars, beneficiary, registered, transfer, answer, orders>>

-----------------------------------------------------------------------------
(***************************************************************************)
(* evaluateTransfer.                                                       *)
(***************************************************************************)
TransfersOf(u) == {i \in DOMAIN transfer : transfer[i].user = u}

\* getTodayVolume: the gross amounts of the day's transfers that have not failed.
TodayVolume(u) ==
    LET counted == {i \in TransfersOf(u) :
                      /\ LegacyStatus(transfer[i].life) \in {"INITIATED", "PAID"}
                      /\ transfer[i].at \div DayLength = Today}
        grossOf(i) == transfer[i].price.gross
    IN  MapThenSumSet(grossOf, counted)

RecentTransfers(u) == {i \in TransfersOf(u) : transfer[i].at >= now - VelocityWindow}

\* The three signals of the last day.
InLastDay(at) == at >= now - DayLength

BeneficiaryChanges(u) ==
    Cardinality({a \in BankAccounts : /\ beneficiary[u][a] # NoBeneficiary
                                      /\ InLastDay(beneficiary[u][a].at)})

FailedPayouts(u) ==
    Cardinality({i \in TransfersOf(u) : /\ transfer[i].life = "PAYOUT_FAILED"
                                        /\ InLastDay(transfer[i].paidAt)})

SessionDevices(u) ==
    Cardinality({token[k].device :
                   k \in {j \in DOMAIN token : /\ token[j].user = u
                                               /\ InLastDay(token[j].at)}})

Suspicious(u) ==
    \/ BeneficiaryChanges(u) >= BeneficiaryLimit
    \/ FailedPayouts(u) >= FailedPayoutLimit
    \/ SessionDevices(u) >= DeviceLimit

\* A mutant: the volume of the day is computed for the profile only.
WithinAmountLimit(d) ==
    /\ desk[d].amount <= 10 * MaxAmount
    /\ Cardinality(RecentTransfers(desk[d].user)) < VelocityMax
    /\ ~ Suspicious(desk[d].user)

WithinLimits(d) ==
    /\ desk[d].amount <= 10 * MaxAmount
    /\ 10 * TodayVolume(desk[d].user) + desk[d].amount <= 10 * MaxVolume
    /\ Cardinality(RecentTransfers(desk[d].user)) < VelocityMax
    /\ ~ Suspicious(desk[d].user)

Evaluate(d) ==
    /\ DeskAt(d, "evaluate")
    /\ ~ ToSelf(d)
    /\ WithinLimits(d)
    /\ GoTo(d, "insert")
    /\ UNCHANGED <<accountVars, beneficiary, registered, transfer, answer, orders>>

RefuseTransfer(d) ==
    /\ DeskAt(d, "evaluate")
    /\ ToSelf(d) \/ ~ WithinLimits(d)
    /\ EndDesk(d)
    /\ UNCHANGED <<accountVars, beneficiary, registered, transfer, answer, orders>>

-----------------------------------------------------------------------------
(***************************************************************************)
(* The transaction row, the order and the answer.                          *)
(***************************************************************************)
\* A mutant: the key is not unique.
KeyAlwaysFree(k) == TRUE

KeyFree(k) == k = NoKey \/ \A i \in DOMAIN transfer : transfer[i].key # k

InsertTransfer(d) ==
    /\ DeskAt(d, "insert")
    /\ KeyFree(desk[d].key)
    /\ transfer' = Append(transfer,
                     [user |-> desk[d].user, account |-> desk[d].account,
                      pan |-> desk[d].pan, price |-> desk[d].price,
                      key |-> desk[d].key, life |-> "INITIATED",
                      at |-> now, paidAt |-> 0, ordered |-> FALSE])
    /\ desk' = [desk EXCEPT ![d].pc = "pend", ![d].txn = Len(transfer) + 1]
    /\ UNCHANGED <<accountVars, beneficiary, registered, answer, orders>>

RefuseKey(d) ==
    /\ DeskAt(d, "insert")
    /\ ~ KeyFree(desk[d].key)
    /\ EndDesk(d)
    /\ UNCHANGED <<accountVars, beneficiary, registered, transfer, answer, orders>>

\* A mutant: the order is created first.
SkipPending(d) ==
    /\ DeskAt(d, "pend")
    /\ GoTo(d, "order")
    /\ UNCHANGED <<accountVars, beneficiary, registered, transfer, answer, orders>>

WaitForPayment(d) ==
    /\ DeskAt(d, "pend")
    /\ TransitionAccepted(transfer[desk[d].txn].life, "PAYMENT_PENDING")
    /\ transfer' = [transfer EXCEPT ![desk[d].txn].life = "PAYMENT_PENDING"]
    /\ GoTo(d, "order")
    /\ UNCHANGED <<accountVars, beneficiary, registered, answer, orders>>

CreateOrder(d) ==
    /\ DeskAt(d, "order")
    /\ orders' = orders \cup {desk[d].txn}
    /\ GoTo(d, "note")
    /\ UNCHANGED <<accountVars, beneficiary, registered, transfer, answer>>

OrderAnswerLost(d) ==
    /\ DeskAt(d, "order")
    /\ Fault
    /\ orders' = orders \cup {desk[d].txn}
    /\ EndDesk(d)
    /\ UNCHANGED <<user, now, beneficiary, registered, transfer, answer>>

RefuseOrder(d) ==
    /\ DeskAt(d, "order")
    /\ EndDesk(d)
    /\ UNCHANGED <<accountVars, beneficiary, registered, transfer, answer, orders>>

\* updateTransactionOrder; by now the payer may have paid.
NoteOrder(d) ==
    /\ DeskAt(d, "note")
    /\ transfer' = [transfer EXCEPT ![desk[d].txn].ordered = TRUE]
    /\ IF desk[d].key = NoKey THEN EndDesk(d) ELSE GoTo(d, "save")
    /\ UNCHANGED <<accountVars, beneficiary, registered, answer, orders>>

\* saveIdempotencyRecord overwrites what another input has left under the key.
SaveAnswer(d) ==
    /\ DeskAt(d, "save")
    /\ answer' = [answer EXCEPT ![desk[d].key] =
                     [account |-> desk[d].account, amount |-> desk[d].amount,
                      txn |-> desk[d].txn]]
    /\ EndDesk(d)
    /\ UNCHANGED <<accountVars, beneficiary, registered, transfer, orders>>

CrashDesk(d) ==
    /\ desk[d] # DeskIdle
    /\ Fault
    /\ EndDesk(d)
    /\ UNCHANGED <<user, now, beneficiary, registered, transfer, answer, orders>>

-----------------------------------------------------------------------------
\* External: what becomes of the payment and the payout (see Settlement).  The
\* capture of a payment is refused if its journal entry does not balance.
PaymentEnds(i, state) ==
    /\ i \in orders
    /\ transfer[i].life = "PAYMENT_PENDING"
    /\ state = "PAYMENT_SUCCESS" => Balanced(transfer[i].price)
    /\ transfer' = [transfer EXCEPT
                      ![i].life = state,
                      ![i].paidAt = IF state = "PAYMENT_SUCCESS" THEN now ELSE @]
    /\ UNCHANGED <<accountVars, beneficiary, registered, answer, orders, desk>>

PayoutFails(i) ==
    /\ transfer[i].life = "PAYMENT_SUCCESS"
    /\ transfer' = [transfer EXCEPT ![i].life = "PAYOUT_FAILED"]
    /\ UNCHANGED <<accountVars, beneficiary, registered, answer, orders, desk>>

DeskStep(d) ==
    \/ \E u \in Users, a \in BankAccounts :
          \/ BeginBeneficiary(d, u, a)
          \/ \E m \in Amounts, k \in Keys \cup {NoKey} : BeginTransfer(d, u, a, m, k)
    \/ InsertBeneficiary(d) \/ RegisterBeneficiary(d) \/ RegisterAnswerLost(d)
    \/ StoreBeneficiary(d) \/ RefuseBeneficiary(d)
    \/ Evaluate(d) \/ RefuseTransfer(d)
    \/ InsertTransfer(d) \/ RefuseKey(d) \/ WaitForPayment(d)
    \/ CreateOrder(d) \/ OrderAnswerLost(d) \/ RefuseOrder(d)
    \/ NoteOrder(d) \/ SaveAnswer(d)

CreationNext ==
    \/ \E d \in Desks : DeskStep(d) \/ CrashDesk(d)
    \/ \E i \in DOMAIN transfer :
          \/ \E state \in {"PAYMENT_SUCCESS", "PAYMENT_FAILED"} : PaymentEnds(i, state)
          \/ PayoutFails(i)
=============================================================================
