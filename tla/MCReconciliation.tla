-------------------------- MODULE MCReconciliation --------------------------
(***************************************************************************)
(* Reconciliation on small instances: one agent beside one payout worker   *)
(* and one refund clerk, one run, one administrator; and two workers that  *)
(* make two payouts, then two agents at one run whose query takes one.     *)
(***************************************************************************)
EXTENDS MCSettlement, Reconciliation

CONSTANTS i1, m1, w4

OneDesk == [a \in Agents |-> c2]
TwoDesks == [a \in Agents |-> IF a = w3 THEN c1 ELSE c2]

\* Two workers of either kind are interchangeable, the agents with their clerks.
PairSymmetry ==
    Permutations({w1, w2}) \cup {(w3 :> w4) @@ (w4 :> w3) @@ (c1 :> c2) @@ (c2 :> c1)}

\* An administrator asks for one scope; the scheduler asks for all three.
OneScope == {{"PAYOUT"}}

Reconciling == \E i \in RunIds : recRun[i] # NoRun

\* What reconciliation runs beside: payouts and refunds of a captured payment, no
\* disputes; and one failure, of a process of either kind.
ReconciledAlone ==
    Reconciling => /\ \A d \in Cases : dispute[d] = NoCase
                   /\ \A e \in Events : processed[e]
                   /\ \A h \in HookWorkers : hook[h] = HookIdle
                   /\ faults + mishaps <= 1

\* A scheduled run is interleaved with payouts before any refund, and with refunds
\* while no worker pays.  The request, the retries and the items of a run that was
\* asked for are not.
OtherWorkersRest == \A w \in Workers \ Agents : run[w] = Idle
OtherClerksRest == \A c \in Clerks : clerk[c] # ClerkIdle => \E a \in Agents : DeskOf[a] = c

RestAround ==
    Reconciling =>
        \/ OtherWorkersRest /\ OtherClerksRest
        \/ /\ faults + mishaps = 0
           /\ \/ OtherWorkersRest
              \/ OtherClerksRest /\ \A r \in RefundIds : refund[r] = NoRefund
           /\ \E a \in Agents : agent[a] # AgentIdle /\ agent[a].try = 0

\* Two agents at one run are interleaved with each other only.
AgentsOnly == Reconciling => OtherWorkersRest
=============================================================================
