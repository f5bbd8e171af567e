----------------------------- MODULE MCAdmission -----------------------------
(***************************************************************************)
(* Admission on small instances, with the name check of the source.        *)
(***************************************************************************)
EXTENDS Admission, SelfTransfer, TLC

CONSTANTS u1, u2, p1, p2, a1, k1, d1, d2, c1, c2, s1, s2, o1, o2

\* Two letters are enough for a name, its initials and another name.
Asha == <<<<1, 2>>, <<3>>>>
Ravi == <<<<4, 1>>>>
SmallNames == {Asha, Ravi}
TheirPans == [p \in Pans |-> IF p = p1 THEN Asha ELSE Ravi]
RavisAccount == [a \in BankAccounts |-> Ravi]

\* The name check of the source, tabulated for these names.
Likeness == [x, y \in SmallNames |-> LooksAlike(x, y)]
Alike(x, y) == Likeness[x, y]

AdmissionSymmetry == Permutations(Desks) \cup Permutations(Clients)
                       \cup Permutations(Officers) \cup Permutations(Sessions)

-----------------------------------------------------------------------------
\* The parts are explored one after another in depth, each with what the next
\* one needs: tokens are rotated in an account where nothing else happens, two
\* users verify themselves where no transfer is made, and one user who has been
\* verified in one session makes transfers.
Rotating == \/ \E k \in DOMAIN token : token[k].from # 0
            \/ \E c \in Clients : client[c] # ClientIdle /\ client[c].from # 0
Opened == {s \in Sessions : session[s] # NoSession}
OfficersBusy == {o \in Officers : officer[o] # OfficerIdle}
Verifying == Opened # {} \/ OfficersBusy # {}
Creating == \/ \E d \in Desks : desk[d] # DeskIdle
            \/ \E u \in Users, a \in BankAccounts : beneficiary[u][a] # NoBeneficiary

Newcomer(u) == user[u] = NoUser \/ user[u] = NewUser

TokensAlone ==
    /\ Len(token) <= 4
    /\ Rotating => /\ ~ Verifying /\ ~ Creating
                   /\ user[u1] = NewUser /\ user[u2] = NoUser
    /\ Verifying \/ Creating \/ (\E u \in Users : ~ Newcomer(u)) =>
          /\ \A c \in Clients : client[c] = ClientIdle
          /\ \A k \in DOMAIN token : token[k].device = "phone"
          /\ Len(token) = Cardinality({u \in Users : user[u] # NoUser})

VerifyingAlone ==
    /\ Verifying /\ user[u2] # NoUser =>
          Cardinality(Opened) <= 1 /\ Cardinality(OfficersBusy) <= 1
    /\ Cardinality(Opened) = 2 \/ Cardinality(OfficersBusy) = 2 \/ user[u2] # NoUser =>
          /\ ~ Creating /\ now = 0
          /\ \A u \in Users : user[u] # NoUser => user[u].pan = NoPan /\ ~ user[u].profile
    /\ handled # {} => now = 0 /\ \A u \in Users : ~ HasPan(user[u])
    /\ Cardinality(handled) <= IF Cardinality(Opened) = 2 THEN 1 ELSE 2
    /\ Cardinality(Opened) = 2 => \A s \in Sessions : said[s] \subseteq {"not started", "approved"}

DesksBusy == {d \in Desks : desk[d] # DeskIdle}

\* A session that names nobody is the only one, with one request at a time.
NobodysAlone ==
    (\E s \in Opened : session[s].user = Nobody) =>
        /\ Cardinality(Opened) = 1 /\ Cardinality(DesksBusy \cup OfficersBusy) <= 1
        /\ faults = 0 /\ now = 0 /\ Len(transfer) <= 1

CreatingAlone ==
    Creating =>
        /\ handled = {}
        /\ \A s \in Sessions : said[s] \subseteq {"not started", "approved"}
        /\ transfer # <<>> \/ Cardinality(DesksBusy) = 2 => OfficersBusy = {}

\* One user submits a second PAN, on the way to a first transfer.
SecondPan ==
    (\E u \in Users : user[u] # NoUser /\ user[u].pan = p2) =>
        /\ Creating /\ OfficersBusy = {} /\ user[u2] = NoUser
        /\ Len(transfer) <= 1
        /\ \A s \in Opened : session[s].user = u1

\* What calculatePricing makes of 1.105 rupees: the double next to it is below
\* the tie and the net amount is rounded down, the sum with the fee of 2 paise
\* is the tie 1.125 itself and the gross amount is rounded up.
PriceOf1105 ==
    \A d \in DesksBusy :
        desk[d].amount = 1105 =>
            desk[d].price = [net |-> 110, fee |-> 2, tax |-> 0, gross |-> 113]

TransfersFew ==
    /\ Len(transfer) <= 2
    /\ \A i \in DOMAIN transfer \ {1} : transfer[i].life \in {"INITIATED", "PAYMENT_PENDING"}
    /\ transfer # <<>> => \A d \in DesksBusy : desk[d].amount # 0
=============================================================================
