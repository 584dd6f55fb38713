------------------------------ MODULE BrandLedger ------------------------------
(***************************************************************************)
(* One paid invoice, one ledger row, one wallet credit.                    *)
(*                                                                         *)
(* The platform ledger (services/platformLedger.ts), the brand wallet      *)
(* (services/brandWallet.ts) and the reseller commission                   *)
(* (services/commission.ts), driven by the two Stripe events that move     *)
(* money (processStripeEvent in routes/billing.routes.ts) and by the       *)
(* in-process paths that book the same invoice (early renewal, reconcile,  *)
(* go-live, manual renewal).  Every database call is a step of its own, so *)
(* that handlers interleave between a read and the write that relies on    *)
(* it; a call may fail (the code swallows the error) and a handler may die *)
(* between two calls.                                                      *)
(*                                                                         *)
(* The wallet modelled is that of one brand in one currency: every query   *)
(* of the code filters on both, so wallets do not interact.                *)
(***************************************************************************)
EXTENDS Integers, FiniteSets, Functions

CONSTANTS
    Invoices,       \* Stripe invoices that may be paid, one customer each
    Handlers,       \* request handlers that may run at the same time
    Admins,         \* platform admins recording payouts
    AmountPaid,     \* [Invoices -> cents]
    SplitsFor,      \* [Invoices -> the price splits a booking may resolve to]
    RefundSteps,    \* [Invoices -> cumulative amounts Stripe may refund]
    RefundHandlers, \* the handlers that may run a charge.refunded event
    Referred,       \* invoices whose customer has a reseller to reward
    PayoutSizes,    \* payout amounts an admin may enter, in cents
    MaxFaults       \* bound on failed calls and dead handlers

LedgerAssumption ==
    /\ IsFiniteSet(Invoices)
    /\ AmountPaid \in [Invoices -> Nat \ {0}]
    /\ SplitsFor \in [Invoices -> SUBSET [base : Nat, addon : Nat]]
    /\ RefundSteps \in [Invoices -> SUBSET (Nat \ {0})]
    /\ RefundHandlers \subseteq Handlers
    /\ IsFiniteSet(RefundHandlers)
    /\ IsFiniteSet(Admins)
    /\ Referred \subseteq Invoices
    /\ PayoutSizes \subseteq Nat \ {0}
    /\ MaxFaults \in Nat

ASSUME LedgerAssumption

VARIABLES
    sent,           \* Stripe: the events that have happened
    inbox,          \* Stripe: events not yet answered with "received"
    parked,         \* stripe_unrouted_events: those waiting for the super admin
    dismissed,      \* stripe_unrouted_events: those put away unapplied
    indexed,        \* stripe_customers: invoices whose customer has a row
    commission,     \* commission rows per invoice
    ledger,         \* platform_ledger.brandCents per invoice, or Unbooked
    refunded,       \* platform_ledger.refundedCents per invoice
    credit,         \* brand_wallet_entries: the credit of an invoice, 0 = none
    reversed,       \* brand_wallet_entries: sum of the invoice's reversals
    paidOut,        \* brand_wallet_entries: sum of the payouts
    job,            \* what each handler is doing
    payout,         \* what each admin's payout request is doing
    faults,         \* faults so far
    swallowed       \* invoices a handler gave up on: unbooked or uncredited

replyVars  == <<inbox, parked, dismissed>>
envVars    == <<sent, replyVars>>
tableVars  == <<indexed, commission, ledger, refunded, credit, reversed>>
walletVars == <<paidOut, payout>>
faultVars  == <<faults, swallowed>>
vars == <<envVars, tableVars, walletVars, faultVars, job>>

--------------------------------------------------------------------------------
(* Events, handler states and the arithmetic of a split.                   *)

Unbooked == -1

PaidEvent(i)      == [kind |-> "paid", inv |-> i, cum |-> 0]
RefundEvent(i, c) == [kind |-> "refund", inv |-> i, cum |-> c]

Events == {PaidEvent(i) : i \in Invoices}
            \cup UNION {{RefundEvent(i, c) : c \in RefundSteps[i]} : i \in Invoices}

NoEvent == [kind |-> "none"]

Sources == {"none", "webhook", "retry", "local", "backfill"}

Steps == {"idle", "place", "accrueLookup", "accrueCreate", "ledgerLookup", "ledgerCreate",
          "ledgerReread", "creditLookup", "creditCreate", "reversalCredit",
          "reversalPrior", "reversalCreate", "refundLookup", "refundUpdate"}

Idle == [step |-> "idle", src |-> "none", event |-> NoEvent, amt |-> 0, delta |-> 0]

NoPayout == [step |-> "idle", amount |-> 0]

LesserOf(a, b)  == IF a <= b THEN a ELSE b
GreaterOf(a, b) == IF a >= b THEN a ELSE b

\* Math.round(a / b) for a >= 0 and b > 0
RoundedQuotient(a, b) == (2 * a + b) \div (2 * b)

\* The brand's part of an amount paid at a Price sold as base + addon.
BrandShare(paid, split) ==
    IF split.addon = 0
    THEN 0
    ELSE GreaterOf(0, LesserOf(paid, RoundedQuotient(paid * split.addon, split.base + split.addon)))

\* The part of an amount that a cumulative refund takes back.
RefundedPart(amount, cum, paid) ==
    LesserOf(amount, RoundedQuotient(amount * LesserOf(cum, paid), paid))

ShouldBeReversed(e) == RefundedPart(credit[e.inv], e.cum, AmountPaid[e.inv])

WalletBalance == SumFunction(credit) - SumFunction(reversed) - paidOut

--------------------------------------------------------------------------------
Init ==
    /\ sent = {}
    /\ inbox = {}
    /\ parked = {}
    /\ dismissed = {}
    /\ indexed = {}
    /\ commission = [i \in Invoices |-> 0]
    /\ ledger = [i \in Invoices |-> Unbooked]
    /\ refunded = [i \in Invoices |-> 0]
    /\ credit = [i \in Invoices |-> 0]
    /\ reversed = [i \in Invoices |-> 0]
    /\ paidOut = 0
    /\ job = [h \in Handlers |-> Idle]
    /\ payout = [a \in Admins |-> NoPayout]
    /\ faults = 0
    /\ swallowed = {}

--------------------------------------------------------------------------------
(* Stripe.                                                                 *)

\* An invoice is paid: invoice.payment_succeeded is owed to the webhook.
Pay(i) ==
    /\ PaidEvent(i) \notin sent
    /\ sent' = sent \cup {PaidEvent(i)}
    /\ inbox' = inbox \cup {PaidEvent(i)}
    /\ UNCHANGED <<parked, dismissed, tableVars, walletVars, faultVars, job>>

\* A refund: charge.refunded carries the cumulative amount refunded so far.
Refund(i, c) ==
    /\ PaidEvent(i) \in sent
    /\ \A e \in sent : e.inv = i /\ e.kind = "refund" => e.cum < c
    /\ sent' = sent \cup {RefundEvent(i, c)}
    /\ inbox' = inbox \cup {RefundEvent(i, c)}
    /\ UNCHANGED <<parked, dismissed, tableVars, walletVars, faultVars, job>>

--------------------------------------------------------------------------------
(* Starting a handler.                                                     *)

Start(h, source, e, first) ==
    job' = [job EXCEPT ![h] =
              [step |-> first, src |-> source, event |-> e, amt |-> 0, delta |-> 0]]

\* POST /webhook.  Stripe delivers until answered and may deliver again.
Deliver(h, e) ==
    /\ job[h].step = "idle"
    /\ e \in sent
    /\ e.kind = "refund" => h \in RefundHandlers
    /\ Start(h, "webhook", e, "place")
    /\ UNCHANGED <<envVars, tableVars, walletVars, faultVars>>

\* The super admin tries a parked event again.
Retry(h, e) ==
    /\ job[h].step = "idle"
    /\ e \in parked
    /\ e.kind = "refund" => h \in RefundHandlers
    /\ Start(h, "retry", e, "place")
    /\ UNCHANGED <<envVars, tableVars, walletVars, faultVars>>

\* The super admin puts a parked event away: it was never ours.
Dismiss(e) ==
    /\ e \in parked
    /\ parked' = parked \ {e}
    /\ dismissed' = dismissed \cup {e}
    /\ UNCHANGED <<sent, inbox, tableVars, walletVars, faultVars, job>>

\* Early renewal, reconcile, go-live and manual renewal book the invoice they
\* have just read from Stripe; the reseller dashboard only accrues commission.
LocalBooking(h, i) ==
    /\ job[h].step = "idle"
    /\ PaidEvent(i) \in sent
    /\ \E source \in {"local", "backfill"} :
           Start(h, source, PaidEvent(i), "accrueLookup")
    /\ UNCHANGED <<envVars, tableVars, walletVars, faultVars>>

Goto(h, step, amount) ==
    job' = [job EXCEPT ![h].step = step, ![h].amt = amount, ![h].delta = 0]

\* The handler returns without a word to Stripe or to the parked event.
Leave(h) == job' = [job EXCEPT ![h] = Idle] /\ UNCHANGED replyVars

\* The handler returns: a webhook answers "received", a retry says "routed".
Finish(h) ==
    LET done(source) == IF job[h].src = source THEN {job[h].event} ELSE {}
    IN  /\ job' = [job EXCEPT ![h] = Idle]
        /\ inbox' = inbox \ done("webhook")
        /\ parked' = parked \ done("retry")
        /\ dismissed' = dismissed \ done("retry")

\* The handler returns with its work undone.  An in-process booking may: the
\* webhook of the same invoice is still to come.
GiveUp(h) ==
    /\ Finish(h)
    /\ swallowed' = IF job[h].src = "local" THEN swallowed
                                            ELSE swallowed \cup {job[h].event.inv}

\* resolveStripeCustomer: an indexed customer is found; another may be found
\* by the owner stamped on it, or not.  One found so is indexed on the way out;
\* if that write fails, nobody hears of it.
Resolves(i, found) ==
    /\ i \in indexed => found
    /\ \/ /\ indexed' = IF found THEN indexed \cup {i} ELSE indexed
          /\ UNCHANGED faults
       \/ /\ found /\ i \notin indexed
          /\ faults < MaxFaults
          /\ faults' = faults + 1
          /\ UNCHANGED indexed

--------------------------------------------------------------------------------
(* Placing an event in its brand; one that no brand claims is parked.      *)

\* Mutant: Stripe gets its "received" and the event is gone.
ParkDrops(h) == Finish(h)

\* Keyed by the Stripe event: parking it again puts it back to waiting.
Park(h) ==
    LET e == job[h].event
    IN  /\ job' = [job EXCEPT ![h] = Idle]
        /\ inbox' = inbox \ {e}
        /\ parked' = parked \cup {e}
        /\ dismissed' = dismissed \ {e}

Place(h) ==
    /\ job[h].step = "place"
    /\ LET e == job[h].event
       IN  \/ /\ Resolves(e.inv, TRUE)
              /\ Goto(h, IF e.kind = "paid" THEN "accrueLookup" ELSE "reversalCredit", 0)
              /\ UNCHANGED replyVars
           \/ /\ Resolves(e.inv, FALSE)
              /\ IF job[h].src = "webhook" THEN Park(h) ELSE Leave(h)
    /\ UNCHANGED <<sent, commission, ledger, refunded, credit, reversed,
                   walletVars, swallowed>>

--------------------------------------------------------------------------------
(* accrueCommissionForInvoice.                                             *)

AfterAccrual(h) ==
    IF job[h].src = "backfill"
    THEN Finish(h)
    ELSE Goto(h, "ledgerLookup", 0) /\ UNCHANGED replyVars

AccrueLookup(h) ==
    /\ job[h].step = "accrueLookup"
    /\ \E found \in BOOLEAN :
         LET i == job[h].event.inv
         IN  /\ Resolves(i, found)
             /\ IF found /\ commission[i] = 0 /\ i \in Referred
                THEN Goto(h, "accrueCreate", 0) /\ UNCHANGED replyVars
                ELSE AfterAccrual(h)
    /\ UNCHANGED <<sent, commission, ledger, refunded, credit, reversed,
                   walletVars, swallowed>>

AccrueCreate(h) ==
    /\ job[h].step = "accrueCreate"
    /\ commission' = [commission EXCEPT ![job[h].event.inv] = @ + 1]
    /\ AfterAccrual(h)
    /\ UNCHANGED <<sent, indexed, ledger, refunded, credit, reversed,
                   walletVars, faultVars>>

--------------------------------------------------------------------------------
(* recordPaidInvoice.                                                      *)

\* Mutant: an invoice already in the ledger is taken for settled.
LedgerLookupBookedIsDone(h) ==
    /\ job[h].step = "ledgerLookup"
    /\ LET i == job[h].event.inv
       IN  \/ /\ ledger[i] # Unbooked
              /\ Finish(h)
              /\ UNCHANGED <<indexed, faults>>
           \/ /\ ledger[i] = Unbooked
              /\ Resolves(i, TRUE)
              /\ \E split \in SplitsFor[i] :
                     Goto(h, "ledgerCreate", BrandShare(AmountPaid[i], split))
              /\ UNCHANGED replyVars
    /\ UNCHANGED <<sent, commission, ledger, refunded, credit, reversed,
                   walletVars, swallowed>>

LedgerLookup(h) ==
    /\ job[h].step = "ledgerLookup"
    /\ LET i == job[h].event.inv
       IN  \/ /\ ledger[i] # Unbooked
              /\ Goto(h, "creditLookup", ledger[i])
              /\ UNCHANGED <<replyVars, indexed, faultVars>>
           \/ /\ ledger[i] = Unbooked
              /\ Resolves(i, TRUE)
              /\ \E split \in SplitsFor[i] :
                     Goto(h, "ledgerCreate", BrandShare(AmountPaid[i], split))
              /\ UNCHANGED <<replyVars, swallowed>>
           \/ /\ ledger[i] = Unbooked
              /\ Resolves(i, FALSE)
              /\ GiveUp(h)
    /\ UNCHANGED <<sent, commission, ledger, refunded, credit, reversed,
                   walletVars>>

\* Mutant: the loser of the insert credits the share it computed itself.
LedgerCreateOwnShare(h) ==
    /\ job[h].step = "ledgerCreate"
    /\ LET i == job[h].event.inv
       IN  ledger' = IF ledger[i] = Unbooked THEN [ledger EXCEPT ![i] = job[h].amt] ELSE ledger
    /\ Goto(h, "creditLookup", job[h].amt)
    /\ UNCHANGED <<envVars, indexed, commission, refunded, credit, reversed,
                   walletVars, faultVars>>

\* stripeInvoiceId is unique: a second insert fails and its row is read.
LedgerCreate(h) ==
    /\ job[h].step = "ledgerCreate"
    /\ LET i == job[h].event.inv
       IN  IF ledger[i] = Unbooked
           THEN /\ ledger' = [ledger EXCEPT ![i] = job[h].amt]
                /\ Goto(h, "creditLookup", job[h].amt)
           ELSE /\ Goto(h, "ledgerReread", 0)
                /\ UNCHANGED ledger
    /\ UNCHANGED <<envVars, indexed, commission, refunded, credit, reversed,
                   walletVars, faultVars>>

LedgerReread(h) ==
    /\ job[h].step = "ledgerReread"
    /\ Goto(h, "creditLookup", ledger[job[h].event.inv])
    /\ UNCHANGED <<envVars, tableVars, walletVars, faultVars>>

--------------------------------------------------------------------------------
(* creditWalletFromLedger.                                                 *)

CreditLookup(h) ==
    /\ job[h].step = "creditLookup"
    /\ IF job[h].amt <= 0 \/ credit[job[h].event.inv] > 0
       THEN Finish(h)
       ELSE Goto(h, "creditCreate", job[h].amt) /\ UNCHANGED replyVars
    /\ UNCHANGED <<sent, tableVars, walletVars, faultVars>>

\* Mutant: no unique constraint on the credit's invoice.
CreditCreateNotUnique(h) ==
    /\ job[h].step = "creditCreate"
    /\ credit' = [credit EXCEPT ![job[h].event.inv] = @ + job[h].amt]
    /\ Finish(h)
    /\ UNCHANGED <<sent, indexed, commission, ledger, refunded, reversed,
                   walletVars, faultVars>>

\* stripeInvoiceId is unique here too: a second credit is the P2002 no-op.
CreditCreate(h) ==
    /\ job[h].step = "creditCreate"
    /\ LET i == job[h].event.inv
       IN  credit' = IF credit[i] = 0 THEN [credit EXCEPT ![i] = job[h].amt] ELSE credit
    /\ Finish(h)
    /\ UNCHANGED <<sent, indexed, commission, ledger, refunded, reversed,
                   walletVars, faultVars>>

--------------------------------------------------------------------------------
(* charge.refunded: reverseCreditForRefund, then recordRefund.             *)

ReversalCredit(h) ==
    /\ job[h].step = "reversalCredit"
    /\ LET e == job[h].event
       IN  IF credit[e.inv] = 0
           THEN Goto(h, "refundLookup", 0)
           ELSE Goto(h, "reversalPrior", ShouldBeReversed(e))
    /\ UNCHANGED <<envVars, tableVars, walletVars, faultVars>>

\* Mutant: the early return on an already covered refund is gone.
ReversalPriorNoReturn(h) ==
    /\ job[h].step = "reversalPrior"
    /\ job' = [job EXCEPT ![h].step = "reversalCreate",
                          ![h].delta = job[h].amt - reversed[job[h].event.inv]]
    /\ UNCHANGED <<envVars, tableVars, walletVars, faultVars>>

\* Mutant: any reversal counts as "this refund is booked".
ReversalPriorOnce(h) ==
    /\ job[h].step = "reversalPrior"
    /\ IF reversed[job[h].event.inv] > 0
       THEN Goto(h, "refundLookup", job[h].amt)
       ELSE job' = [job EXCEPT ![h].step = "reversalCreate", ![h].delta = job[h].amt]
    /\ UNCHANGED <<envVars, tableVars, walletVars, faultVars>>

\* Mutant: the cumulative amount is booked again on every event.
ReversalPriorCumulative(h) ==
    /\ job[h].step = "reversalPrior"
    /\ job' = [job EXCEPT ![h].step = "reversalCreate", ![h].delta = job[h].amt]
    /\ UNCHANGED <<envVars, tableVars, walletVars, faultVars>>

ReversalPrior(h) ==
    /\ job[h].step = "reversalPrior"
    /\ LET d == job[h].amt - reversed[job[h].event.inv]
       IN  IF d <= 0
           THEN Goto(h, "refundLookup", job[h].amt)
           ELSE job' = [job EXCEPT ![h].step = "reversalCreate", ![h].delta = d]
    /\ UNCHANGED <<envVars, tableVars, walletVars, faultVars>>

ReversalCreate(h) ==
    /\ job[h].step = "reversalCreate"
    /\ reversed' = [reversed EXCEPT ![job[h].event.inv] = @ + job[h].delta]
    /\ Goto(h, "refundLookup", job[h].amt)
    /\ UNCHANGED <<envVars, indexed, commission, ledger, refunded, credit,
                   walletVars, faultVars>>

\* At refundLookup, amt is what the reversal stage settled (0 if it did not).
RefundLookup(h) ==
    /\ job[h].step = "refundLookup"
    /\ LET e == job[h].event
           r == RefundedPart(AmountPaid[e.inv], e.cum, AmountPaid[e.inv])
       IN  IF ledger[e.inv] = Unbooked \/ r = refunded[e.inv]
           THEN Finish(h)
           ELSE Goto(h, "refundUpdate", r) /\ UNCHANGED replyVars
    /\ UNCHANGED <<sent, tableVars, walletVars, faultVars>>

RefundUpdate(h) ==
    /\ job[h].step = "refundUpdate"
    /\ refunded' = [refunded EXCEPT ![job[h].event.inv] = job[h].amt]
    /\ Finish(h)
    /\ UNCHANGED <<sent, indexed, commission, ledger, credit, reversed,
                   walletVars, faultVars>>

--------------------------------------------------------------------------------
(* recordPayout: the balance is read, then the entry is written.           *)

\* Mutant: the balance is that of the credits and reversals alone.
PayoutCheckForgetsPayouts(a, amount) ==
    /\ payout[a].step = "idle"
    /\ amount <= SumFunction(credit) - SumFunction(reversed)
    /\ payout' = [payout EXCEPT ![a] = [step |-> "create", amount |-> amount]]
    /\ UNCHANGED <<envVars, tableVars, paidOut, faultVars, job>>

PayoutCheck(a, amount) ==
    /\ payout[a].step = "idle"
    /\ amount <= WalletBalance
    /\ payout' = [payout EXCEPT ![a] = [step |-> "create", amount |-> amount]]
    /\ UNCHANGED <<envVars, tableVars, paidOut, faultVars, job>>

PayoutCreate(a) ==
    /\ payout[a].step = "create"
    /\ paidOut' = paidOut + payout[a].amount
    /\ payout' = [payout EXCEPT ![a] = NoPayout]
    /\ UNCHANGED <<envVars, tableVars, faultVars, job>>

--------------------------------------------------------------------------------
(* Faults.                                                                 *)

\* A failed call is caught where the code catches it: an event that could not
\* be looked up is answered all the same, commission and reversal fall through
\* to the next call, booking and crediting give up.  The reread of the row is
\* in the catch itself and throws: the route answers a webhook all the same,
\* and a retry leaves its event parked.
DbError(h) ==
    /\ faults < MaxFaults
    /\ faults' = faults + 1
    /\ \/ /\ job[h].step \in {"place", "ledgerReread"}
          /\ IF job[h].src = "webhook" THEN GiveUp(h) ELSE Leave(h) /\ UNCHANGED swallowed
       \/ /\ job[h].step \in {"accrueLookup", "accrueCreate"}
          /\ AfterAccrual(h)
          /\ UNCHANGED swallowed
       \/ /\ job[h].step \in {"ledgerLookup", "ledgerCreate", "creditLookup", "creditCreate"}
          /\ GiveUp(h)
       \/ /\ job[h].step \in {"reversalCredit", "reversalPrior", "reversalCreate"}
          /\ Goto(h, "refundLookup", 0)
          /\ UNCHANGED <<replyVars, swallowed>>
       \/ /\ job[h].step \in {"refundLookup", "refundUpdate"}
          /\ Finish(h)
          /\ UNCHANGED swallowed
    /\ UNCHANGED <<sent, tableVars, walletVars>>

\* The server dies under the handler: what it wrote stays, Stripe is not
\* answered, an in-process caller does not come back.
Crash(h) ==
    /\ faults < MaxFaults
    /\ job[h].step # "idle"
    /\ faults' = faults + 1
    /\ Leave(h)
    /\ UNCHANGED <<sent, tableVars, walletVars, swallowed>>

--------------------------------------------------------------------------------
Stripe == \E i \in Invoices : Pay(i) \/ \E c \in RefundSteps[i] : Refund(i, c)

Call(h) ==
    \/ \E e \in sent : Deliver(h, e)
    \/ \E e \in parked : Retry(h, e)
    \/ \E i \in Invoices : LocalBooking(h, i)

HandlerStep(h) ==
    \/ Place(h)
    \/ AccrueLookup(h)   \/ AccrueCreate(h)
    \/ LedgerLookup(h)   \/ LedgerCreate(h)   \/ LedgerReread(h)
    \/ CreditLookup(h)   \/ CreditCreate(h)
    \/ ReversalCredit(h) \/ ReversalPrior(h)  \/ ReversalCreate(h)
    \/ RefundLookup(h)   \/ RefundUpdate(h)

Payouts == \E a \in Admins : PayoutCreate(a) \/ \E n \in PayoutSizes : PayoutCheck(a, n)

Next ==
    \/ Stripe
    \/ \E e \in parked : Dismiss(e)
    \/ \E h \in Handlers : Call(h) \/ HandlerStep(h) \/ DbError(h) \/ Crash(h)
    \/ Payouts

Spec == Init /\ [][Next]_vars

\* A running handler goes on; Stripe retries an unanswered event until some
\* handler takes it (the server takes any number of requests, so a bounded set
\* of busy handlers cannot starve a delivery: strong fairness).
Fairness ==
    /\ \A h \in Handlers : WF_vars(HandlerStep(h))
    /\ \A e \in Events : SF_vars(e \in inbox /\ \E h \in Handlers : Deliver(h, e))

FairSpec == Spec /\ Fairness

--------------------------------------------------------------------------------
(* Properties.                                                             *)

Jobs ==
    [step : Steps, src : Sources, event : Events \cup {NoEvent}, amt : Nat, delta : Nat]

\* Every table and every handler keeps its shape.
TypeOK ==
    /\ sent \subseteq Events
    /\ inbox \subseteq sent
    /\ parked \subseteq Events
    /\ dismissed \subseteq Events
    /\ indexed \subseteq Invoices
    /\ commission \in [Invoices -> Nat]
    /\ ledger \in [Invoices -> Nat \cup {Unbooked}]
    /\ refunded \in [Invoices -> Nat]
    /\ credit \in [Invoices -> Nat]
    /\ reversed \in [Invoices -> Nat]
    /\ paidOut \in Nat
    /\ job \in [Handlers -> Jobs]
    /\ \A h \in Handlers : job[h].event = NoEvent <=> job[h].step = "idle"
    /\ payout \in [Admins -> [step : {"idle", "create"}, amount : Nat]]
    /\ faults \in 0..MaxFaults
    /\ swallowed \subseteq Invoices

\* The wallet never holds a credit the ledger does not explain: a credit is
\* the brand share of the invoice's one ledger row, and no share exceeds what
\* was paid (brandWallet.ts "books a ledger row's brand share exactly once").
\* Two handlers may hold different shares of the same invoice; only the one
\* whose row was inserted may reach the wallet.
CreditMatchesLedger ==
    \A i \in Invoices :
        /\ credit[i] > 0 => credit[i] = ledger[i]
        /\ ledger[i] <= AmountPaid[i]

\* A refund is never under-reversed: when the reversal stage of a
\* charge.refunded handler has seen the credit, the reversals of the invoice
\* add up to at least that event's cumulative share, whatever order the
\* events arrive in and however many handlers book them.
RefundIsCovered ==
    \A h \in Handlers :
        job[h].step = "refundLookup" => reversed[job[h].event.inv] >= job[h].amt

\* The sum of the reversals is read in one call and the next entry written in
\* another (brandWallet.ts:241, 250), so events handled at the same time can
\* each take back the whole refund; but only as many as are handled together,
\* however often and in whatever order Stripe delivers them.  With one event at
\* a time the brand never gives back more than it was credited.
OverReversalIsBounded ==
    \A i \in Invoices : reversed[i] <= Cardinality(RefundHandlers) * credit[i]

\* The balance is read in one call and the payout written in another
\* (brandWallet.ts:174, 182), so admins who record payouts together can each
\* pay out the same balance; but no more than one of them each, over any number
\* of payouts.  With one admin at a time the wallet never pays out more than it
\* was credited.
OverdrawIsBounded == paidOut <= Cardinality(Admins) * SumFunction(credit)

Settled(i) == ledger[i] # Unbooked /\ (ledger[i] > 0 => credit[i] = ledger[i])

Held(i) == i \in swallowed \/ PaidEvent(i) \in parked \cup dismissed

\* A payment is never lost between two stools: one that is not settled is
\* still owed by Stripe, or waits for the super admin, or was given up by an
\* error the code swallows ("unplaceable ones are parked for the super admin,
\* never dropped", billing.routes.ts:750).
PaymentNotLost ==
    \A i \in Invoices :
        PaidEvent(i) \in sent => Settled(i) \/ PaidEvent(i) \in inbox \/ Held(i)

\* A payment reaches the ledger, and its share the wallet, unless it was
\* parked or given up on the way (recordPaidInvoice "never throws"): dead
\* handlers, redeliveries and concurrent bookings alone lose nothing.
PaymentIsSettled ==
    \A i \in Invoices : PaidEvent(i) \in sent ~> Settled(i) \/ Held(i)

\* The code keeps the promise of InvoiceBook: booked once, credited once and
\* in full, taken back only after a credit.
Book == INSTANCE InvoiceBook WITH share <- ledger, credited <- credit, takenBack <- reversed

ImplementsInvoiceBook == Book!BookSpec
================================================================================
