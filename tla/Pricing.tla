------------------------------- MODULE Pricing -------------------------------
(***************************************************************************)
(* The price of a transfer and the shares of a refund.  A request names    *)
(* its amount in rupees with any number of decimals; here it is a number   *)
(* of thousandths of a rupee, so that a fraction of a paisa can be asked   *)
(* for, and everything that is stored is in whole paise.  Constant-level.  *)
(***************************************************************************)
EXTENDS Integers

\* What toFixed(2) may return for n / d paise.  It rounds the double next to
\* the decimal: a decimal tie falls on either side of it.
Nearest(n, d) == {q \in {n \div d, n \div d + 1} : 2 * (q * d - n) \in -d .. d}

\* calculatePricing: 1.5 % of the amount, a tax of nothing, and three roundings
\* made apart from one another.
Prices(m) ==
    UNION {[net : Nearest(m, 10), fee : {fee}, tax : {0},
            gross : Nearest(m + 10 * fee, 10)] : fee \in Nearest(15 * m, 10000)}

\* recordPaymentCaptured posts these amounts as one journal entry.
Balanced(p) == p.gross = p.net + p.fee + p.tax

\* A mutant: all of the fee is given back with any part of the payment.
WholeFeeShares(p, a) == {[net |-> a - p.fee - p.tax, fee |-> p.fee, tax |-> p.tax]}

\* calculateReversalBreakdown, for a refund of `a` of a payment of price `p`:
\* all of it gives every part back, a part of it gives back rounded shares of
\* the fee and the tax, and the rest from what the beneficiary got.
ReversalShares(p, a) ==
    IF a = p.gross THEN {[net |-> p.net, fee |-> p.fee, tax |-> p.tax]}
    ELSE {[net |-> a - fee - tax, fee |-> fee, tax |-> tax] :
             fee \in Nearest(p.fee * a, p.gross), tax \in Nearest(p.tax * a, p.gross)}
=============================================================================
