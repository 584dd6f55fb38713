------------------------------ MODULE EarlyRenewal ------------------------------
(***************************************************************************)
(* What early renewal promises the customer of a metered plan, with no     *)
(* profile row, no webhook and no parallel requests in sight: an allowance *)
(* is given up only for a further call, the card is charged early only for *)
(* an allowance that was given up, never twice for one period, and each    *)
(* charge buys a period.  PlanRenewal implements this specification.       *)
(***************************************************************************)
EXTENDS Integers

VARIABLES
    calls,          \* calls recorded
    claims,         \* exhausted allowances given up for a renewal
    early,          \* early charges made
    charged,        \* period ends that an early charge has replaced
    paidThrough     \* end of the subscription's period

planVars == <<calls, claims, early, charged, paidThrough>>

PlanInit ==
    /\ calls = 0
    /\ claims = 0
    /\ early = 0
    /\ charged = {}
    /\ paidThrough = 0

Call ==
    /\ calls' = calls + 1
    /\ UNCHANGED <<claims, early, charged, paidThrough>>

GiveUp ==
    /\ claims < calls
    /\ claims' = claims + 1
    /\ UNCHANGED <<calls, early, charged, paidThrough>>

ChargeEarly ==
    /\ early < claims
    /\ early' = early + 1
    /\ \E k \in 0..paidThrough : k \notin charged /\ charged' = charged \cup {k}
    /\ paidThrough' = paidThrough + 1
    /\ UNCHANGED <<calls, claims>>

\* Stripe renews on its own.
PeriodPasses ==
    /\ paidThrough' = paidThrough + 1
    /\ UNCHANGED <<calls, claims, early, charged>>

PlanNext == Call \/ GiveUp \/ ChargeEarly \/ PeriodPasses

PlanSpec == PlanInit /\ [][PlanNext]_planVars
================================================================================
