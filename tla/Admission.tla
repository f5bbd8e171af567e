------------------------------- MODULE Admission -------------------------------
(***************************************************************************)
(* From the first sign-in to the order at the payment gateway: accounts,   *)
(* refresh tokens, identity verification, beneficiaries and the creation   *)
(* of transfers over one database, one step of one request at a time.      *)
(***************************************************************************)
EXTENDS Kyc, TransferCreation

admissionVars == <<accountVars, identityVars, kycVars, creationVars>>

AdmissionInit == AccountsInit /\ IdentityInit /\ KycInit /\ CreationInit

AccountsStep == AccountsNext /\ UNCHANGED <<identityVars, kycVars, creationVars>>
IdentityStep == IdentityNext /\ UNCHANGED <<kycVars, creationVars>>
KycStep      == KycNext      /\ UNCHANGED <<identityVars, creationVars>>
CreationStep == CreationNext /\ UNCHANGED <<identityVars, kycVars>>

AdmissionNext == AccountsStep \/ IdentityStep \/ KycStep \/ CreationStep

AdmissionSpec == AdmissionInit /\ [][AdmissionNext]_admissionVars

-----------------------------------------------------------------------------
(***************************************************************************)
(* OnboardingService.resolve: what the user is shown to have left to do.   *)
(***************************************************************************)
BeneficiaryCount(u) == Cardinality({a \in BankAccounts : beneficiary[u][a] # NoBeneficiary})

CurrentStep(u) ==
    IF user[u] = NoUser THEN "MOBILE_VERIFICATION"
    ELSE IF ~ HasPan(user[u]) THEN "PAN_VERIFICATION"
    ELSE IF ~ user[u].profile THEN "PROFILE_COMPLETION"
    ELSE IF user[u].kyc # "APPROVED" THEN "KYC_VERIFICATION"
    ELSE IF BeneficiaryCount(u) = 0 THEN "BENEFICIARY_SETUP"
    ELSE "READY"

-----------------------------------------------------------------------------
(***************************************************************************)
(* Safety.                                                                 *)
(***************************************************************************)
\* Every variable keeps its type.
AdmissionTypeOK ==
    AccountsTypeOK /\ IdentityTypeOK /\ KycTypeOK /\ CreationTypeOK

\* The provider has at some time said of a session of the user's own, or of one
\* that names nobody, what User.kycStatus now claims, whatever the order in which
\* session creation, syncs and webhooks wrote it: another user's session decides
\* nothing (processWebhook, syncSession, createSession).
SaidTo(u, word) ==
    \E s \in Sessions : /\ session[s] # NoSession
                        /\ session[s].user \in {u, Nobody} /\ word \in said[s]

KycNotFromAnothers ==
    \A u \in Users : user[u] # NoUser =>
        /\ user[u].kyc = "APPROVED"  => SaidTo(u, "approved")
        /\ user[u].kyc = "REJECTED"  => SaidTo(u, "declined")
        /\ user[u].kyc = "SUBMITTED" => SaidTo(u, "in review")

\* A user is verified by a session that belongs to the user, as syncSession's
\* refusal has it ('does not belong to the authenticated user').
KycFromOwnSession ==
    \A u \in Users : user[u] # NoUser /\ user[u].kyc = "APPROVED" =>
        \E s \in Sessions : /\ session[s] # NoSession
                            /\ session[s].user = u /\ "approved" \in said[s]

\* A refresh token has no more successors than requests that could have spent
\* it before its revocation was written, one of each request in flight and one
\* of each crash in between (AuthService.refresh, buildAuthResponse).
ForksBounded ==
    \A k \in DOMAIN token : Cardinality(Successors(k)) <= Cardinality(Clients) + faults

\* The owner of a transfer was verified in a session that names no other user,
\* and its beneficiary is verified, known to the payout provider and not the
\* owner: the gates are passed on an old
\* copy of the user row, but nothing they rest on can be taken back, except
\* that a later session may ask for the identity again (createTransfer).
AdmittedTransfer ==
    \A i \in DOMAIN transfer :
        LET u == transfer[i].user
            a == transfer[i].account
        IN  /\ CurrentStep(u) \in {"KYC_VERIFICATION", "READY"}
            /\ SaidTo(u, "approved")
            /\ beneficiary[u][a].status = "VERIFIED"
            /\ <<u, a>> \in registered
            /\ ~ IsSelfTransfer(NameOnPan[transfer[i].pan], HolderOf[a])

\* However often a request is repeated under an idempotency key, at once or
\* later, one transfer is made under it, and an answer that is stored for it
\* names that transfer, whose order the gateway holds (createTransfer).
OneTransferPerKey ==
    /\ \A i, j \in DOMAIN transfer :
          transfer[i].key = transfer[j].key /\ transfer[i].key # NoKey => i = j
    /\ \A k \in Keys : answer[k] # NoAnswer =>
          /\ answer[k].txn \in DOMAIN transfer
          /\ transfer[answer[k].txn].key = k
          /\ answer[k].txn \in orders

\* The payer can pay only what waits for a payment: the gateway has no order of
\* a transaction that is still INITIATED, for which a capture would be refused.
OrderAwaitsPayment ==
    \A i \in orders : i \in DOMAIN transfer /\ transfer[i].life # "INITIATED"

\* The cap on a day's volume is checked before the row is written and does not
\* count the fee.  It is exceeded by no more than one fee and what the other
\* requests in flight have had admitted at the same time (evaluateTransfer).
Admissible == UNION {Prices(m) : m \in {n \in Amounts : n <= 10 * MaxAmount}}
VolumeOvershoot ==
    Max({p.fee : p \in Admissible} \cup {0})
      + (Cardinality(Desks) - 1) * Max({p.gross : p \in Admissible} \cup {0})

VolumeBounded ==
    \A u \in Users : TodayVolume(u) <= MaxVolume + VolumeOvershoot

\* A day's volume stays within its cap (README.md, 'daily volume limits').
VolumeWithinCap ==
    \A u \in Users : TodayVolume(u) <= MaxVolume

\* What calculateReversalBreakdown makes of every part of a price, and of the rest.
SharesFit(p) ==
    \A a \in 1 .. p.gross : \A s \in ReversalShares(p, a) :
        /\ s.net \in 0 .. p.net /\ s.fee \in 0 .. p.fee /\ s.tax \in 0 .. p.tax
        /\ s.net + s.fee + s.tax = a
        /\ \A r \in ReversalShares(p, p.gross - a) : s.fee + r.fee - p.fee \in -1 .. 1

\* The prices it holds for; the inner set has TLC list them, and evaluate this once.
FittingPrices == {p \in {q : q \in UNION {Prices(m) : m \in Amounts}} : SharesFit(p)}

\* A refund, in whole or in part, takes no more from any side than the payment
\* brought it, and two refunds that give back the whole payment give back its fee
\* up to one paisa, although each share is rounded on its own
\* (calculateReversalBreakdown, for the price of every order).
RefundsFit ==
    \A i \in orders : Balanced(transfer[i].price) => transfer[i].price \in FittingPrices

\* A payment that can be taken can be credited: the journal entry of its
\* capture balances (recordPaymentCaptured, assertBalanced).
OrdersBalance ==
    \A i \in orders : Balanced(transfer[i].price)
=============================================================================
