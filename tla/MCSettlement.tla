---------------------------- MODULE MCSettlement ----------------------------
(***************************************************************************)
(* Settlement on small instances.  The configurations choose how many      *)
(* transactions, notifications and concurrent runs there are; an empty set *)
(* of runs switches that part of the system off.                           *)
(***************************************************************************)
EXTENDS Settlement, TLC

CONSTANTS t1, t2, u1, e1, e2, h1, h2, w1, w2, w3, r1, r2, c1, c2, d1, d2, o1, o2

OneUser == [t \in Txns |-> u1]

\* A payment of 2 of which the beneficiary gets 1: the refund amounts 1 and 2
\* are the partial and the full refund.
GrossTwo == [t \in Txns |-> 2]
NetOne == [t \in Txns |-> 1]

\* Both notifications speak of the first transaction, or of one each.
SameOrder == [e \in Events |-> t1]
OrderEach == [e \in Events |-> IF e = e1 THEN t1 ELSE t2]

\* Workers are interchangeable; safety properties do not name them.
WorkerSymmetry == Permutations(Workers) \cup Permutations(Clerks)
                    \cup Permutations(HookWorkers) \cup Permutations(Operators)

\* Bounds on what the outside does, for the runs that are about the inside.
\* The gateway takes every payment, and says so at once.
PaymentsTaken == \A e \in Events : gateway[e] \in {"NONE", "SUCCESS"}

\* A payment is captured in all its variants, with refunds and disputes asked for,
\* while no payout is begun; or it is taken at once, and paid out.
PayoutsRest ==
    /\ resumeJob = "NONE"
    /\ \A w \in Workers : run[w] = Idle
    /\ \A t \in Txns : attempt[t] = "NONE" /\ payout[t] \in {"NONE", "QUEUED"}

PayoutsOnly ==
    /\ announced[e1] \subseteq {"SUCCESS"} /\ announced[e2] = {}
    /\ \A c \in Clerks : clerk[c] = ClerkIdle
    /\ \A o \in Operators : operator[o] = OperatorIdle
    /\ \A d \in Cases : dispute[d] = NoCase

CapturedThenPaid == PayoutsRest \/ PayoutsOnly

\* The provider speaks in known words only.
WordsKnown == \A t \in Txns : "UNKNOWN" \notin notices[t]

\* The provider makes every transfer it takes, at once or later, and it stays made.
TransfersMade == \A t \in Txns : notices[t] \subseteq {"RECEIVED", "SUCCESS"}

\* Finished jobs stay retained and no worker restarts.
JobsRetained ==
    /\ resumeJob = "NONE"
    /\ \A e \in Events : processed[e] => hookJob[e] # "NONE"
    /\ \A t \in Txns : requests[t] >= 1 => payoutJob[t] # "NONE"

\* A refund may be reversed again and again: twice is enough to see it.
ReversalsBounded == \A r \in RefundIds : reversals[r] <= 2

\* A dispute is dealt with while no job runs.
DisputedAlone ==
    (\E o \in Operators : operator[o] # OperatorIdle) =>
        /\ \A w \in Workers : run[w] = Idle
        /\ \A h \in HookWorkers : hook[h] = HookIdle
=============================================================================
