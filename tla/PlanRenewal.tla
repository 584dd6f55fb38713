------------------------------ MODULE PlanRenewal ------------------------------
(***************************************************************************)
(* The metered plan of one customer: call minutes are counted, and when    *)
(* they run out the plan is renewed early by charging the card.            *)
(*                                                                         *)
(* recordUsage, reconcileSubscription, renewActivePlanIfExhausted,         *)
(* syncPortalCancelState and applyActivePlanMinutes (services/trial.ts),   *)
(* renewSubscriptionNow (services/stripe.ts), the customer.subscription    *)
(* branch of processStripeEvent and POST /auto-renew                       *)
(* (routes/billing.routes.ts), over one Stripe subscription.               *)
(*                                                                         *)
(* Every database call and every Stripe call is a step of its own, so the  *)
(* handlers of parallel requests interleave between what they read and     *)
(* what they do about it.  Usage is in whole billed minutes                *)
(* (billableSeconds rounds up); the period end is an ordinal, and one      *)
(* period end is later than another by more than the hour that             *)
(* applyActivePlanMinutes asks for.                                        *)
(***************************************************************************)
EXTENDS Integers, FiniteSets

CONSTANTS
    Requests,       \* handlers of the customer's requests, at the same time
    Hooks,          \* handlers that may run a webhook
    Alloc,          \* minutes included in the plan
    CallMinutes,    \* billed lengths a call may have
    MaxCalls,       \* bound on calls
    MaxChanges,     \* bound on period ends, cancellations, un-cancellations
    MaxFaults       \* bound on failed calls and dead handlers

RenewalAssumption ==
    /\ Alloc \in Nat \ {0}
    /\ CallMinutes \subseteq Nat \ {0}
    /\ MaxCalls \in Nat
    /\ MaxChanges \in Nat
    /\ MaxFaults \in Nat

ASSUME RenewalAssumption

VARIABLES
    sub,            \* Stripe: the subscription's status, end and cancel flag
    answers,        \* Stripe: what it answered under each idempotency key
    sent,           \* Stripe: the subscription events that have happened
    profile,        \* the tenant's profile row: status, autoRenew, used, end
    job,            \* what each handler is doing
    calls,          \* calls recorded so far
    claims,         \* exhausted allowances claimed so far
    changes,        \* period ends, cancellations, un-cancellations so far
    faults          \* faults so far

stripeVars == <<sub, answers, sent>>
countVars  == <<calls, claims>>
boundVars  == <<changes, faults>>
vars == <<stripeVars, profile, job, countVars, boundVars>>

--------------------------------------------------------------------------------
(* Handlers.                                                               *)

Live == {"active", "past_due"}

Statuses == Live \cup {"canceled"}

Steps == {"idle", "meterRead", "meterAdd", "profileRead", "portalFetch", "portalWrite",
          "freshRead", "liveCheck", "autoOff", "claim", "retrieve", "charge", "grantRead",
          "grantWrite", "settle", "flip", "stripeFetch", "activate", "mirror",
          "hookRead", "hookWrite", "toggleWrite"}

NoSub == [status |-> "canceled", end |-> 0, cancel |-> FALSE]

Workers == Requests \cup Hooks

\* kind: which handler runs.  sub: the subscription as the handler knows it.
\* status, auto: the profile as the handler has read it.  over: the overage it
\* carries.  reset: whether its grant forces a reset.  used, end: what its
\* grant has read.  minutes: the call it records.  off (a history variable):
\* Stripe had the renewal cancelled when the handler began, and has it still.
Idle == [step |-> "idle", kind |-> "none", sub |-> NoSub, status |-> "canceled",
         auto |-> FALSE, over |-> 0, reset |-> FALSE, used |-> 0, end |-> 0,
         minutes |-> 0, off |-> FALSE]

LesserOf(a, b)  == IF a <= b THEN a ELSE b
GreaterOf(a, b) == IF a >= b THEN a ELSE b

At(w, step) == job[w].step = step

Become(w, r) == job' = [job EXCEPT ![w] = r]

Goto(w, step) == Become(w, [job[w] EXCEPT !.step = step])

Done(w) == Become(w, Idle)

Announce(s) == sent' = sent \cup {s}

--------------------------------------------------------------------------------
Init ==
    /\ sub = [status |-> "active", end |-> 0, cancel |-> FALSE]
    /\ answers = {}
    /\ sent = {}
    /\ profile = [status |-> "active", autoRenew |-> TRUE, used |-> 0, end |-> 0]
    /\ job = [w \in Workers |-> Idle]
    /\ calls = 0
    /\ claims = 0
    /\ changes = 0
    /\ faults = 0

--------------------------------------------------------------------------------
(* Stripe on its own.                                                      *)

\* The period is over: cancelled, renewed and paid, or renewed and unpaid.
PeriodEnds ==
    /\ sub.status = "active"
    /\ changes < MaxChanges
    /\ changes' = changes + 1
    /\ \E s \in Statuses :
          /\ s = "canceled" <=> sub.cancel
          /\ sub' = [sub EXCEPT !.status = s, !.end = IF sub.cancel THEN @ ELSE @ + 1]
    /\ Announce(sub')
    /\ UNCHANGED <<answers, profile, job, countVars, faults>>

\* Stripe's own retries collect an unpaid renewal, or give the subscription up.
DunningEnds ==
    /\ sub.status = "past_due"
    /\ \E s \in {"active", "canceled"} : sub' = [sub EXCEPT !.status = s]
    /\ Announce(sub')
    /\ UNCHANGED <<answers, profile, job, countVars, boundVars>>

\* The cancel flag at Stripe is set; a flag already so is left alone.
SetCancel(cancel) ==
    /\ changes < MaxChanges
    /\ changes' = changes + 1
    /\ sub.cancel = cancel \/ sub.status \in Live
    /\ sub' = [sub EXCEPT !.cancel = cancel]
    /\ IF sub.cancel = cancel THEN UNCHANGED sent ELSE Announce(sub')

\* Who works under a cancelled renewal no longer does once it is on again.
StillOff == [w \in Workers |-> [job[w] EXCEPT !.off = @ /\ sub'.cancel]]

\* In the hosted billing portal: only Stripe knows.
PortalToggle(cancel) ==
    /\ sub.cancel # cancel
    /\ SetCancel(cancel)
    /\ job' = StillOff
    /\ UNCHANGED <<answers, profile, countVars, faults>>

\* POST /auto-renew: Stripe first, then the profile.
Toggle(w, enabled) ==
    /\ At(w, "idle")
    /\ SetCancel(~enabled)
    /\ job' = [StillOff EXCEPT ![w] = [Idle EXCEPT !.step = "toggleWrite", !.kind = "toggle",
                                                   !.auto = enabled]]
    /\ UNCHANGED <<answers, profile, countVars, faults>>

ToggleWrite(w) ==
    /\ At(w, "toggleWrite")
    /\ profile' = [profile EXCEPT !.autoRenew = job[w].auto]
    /\ Done(w)
    /\ UNCHANGED <<stripeVars, countVars, boundVars>>

--------------------------------------------------------------------------------
(* recordUsage, then settleAfterCall.                                      *)

CallEnds(w, n) ==
    /\ At(w, "idle")
    /\ calls < MaxCalls
    /\ Become(w, [Idle EXCEPT !.step = "meterRead", !.kind = "reconcile", !.minutes = n])
    /\ UNCHANGED <<stripeVars, profile, countVars, boundVars>>

MeterRead(w) ==
    /\ At(w, "meterRead")
    /\ Goto(w, IF profile.status = "active" THEN "meterAdd" ELSE "profileRead")
    /\ UNCHANGED <<stripeVars, profile, countVars, boundVars>>

MeterAdd(w) ==
    /\ At(w, "meterAdd")
    /\ profile' = [profile EXCEPT !.used = @ + job[w].minutes]
    /\ calls' = calls + 1
    /\ Become(w, [job[w] EXCEPT !.step = "profileRead", !.minutes = 0])
    /\ UNCHANGED <<stripeVars, claims, boundVars>>

--------------------------------------------------------------------------------
(* reconcileSubscription.                                                  *)

\* Every authenticated page and every gated feature reconciles first.
Load(w) ==
    /\ At(w, "idle")
    /\ Become(w, [Idle EXCEPT !.step = "profileRead", !.kind = "reconcile"])
    /\ UNCHANGED <<stripeVars, profile, countVars, boundVars>>

ProfileRead(w) ==
    /\ At(w, "profileRead")
    /\ IF profile.status \in Live
       THEN Become(w, [Idle EXCEPT !.step = "portalFetch", !.kind = "reconcile",
                                   !.status = profile.status, !.auto = profile.autoRenew,
                                   !.off = sub.cancel])
       ELSE Done(w)
    /\ UNCHANGED <<stripeVars, profile, countVars, boundVars>>

\* After the portal sync: renew if active, follow Stripe if past due.
Reconciled(w, auto) ==
    IF ~auto
    THEN Done(w)
    ELSE Become(w,
           IF job[w].status = "active"
           THEN [Idle EXCEPT !.step = "freshRead", !.kind = "renew", !.off = job[w].off]
           ELSE [Idle EXCEPT !.step = "stripeFetch", !.kind = "reactivate"])

\* syncPortalCancelState polls Stripe, or is throttled and keeps the local view.
PortalFetch(w) ==
    /\ At(w, "portalFetch")
    /\ \/ Reconciled(w, job[w].auto)
       \/ IF sub.status = "canceled" \/ job[w].auto = sub.cancel
          THEN Become(w, [job[w] EXCEPT !.step = "portalWrite", !.sub = sub])
          ELSE Reconciled(w, job[w].auto)
    /\ UNCHANGED <<stripeVars, profile, countVars, boundVars>>

PortalWrite(w) ==
    /\ At(w, "portalWrite")
    /\ IF job[w].sub.status = "canceled"
       THEN /\ profile' = [profile EXCEPT !.status = "canceled", !.autoRenew = FALSE]
            /\ Done(w)
       ELSE /\ profile' = [profile EXCEPT !.autoRenew = ~job[w].sub.cancel]
            /\ Reconciled(w, ~job[w].sub.cancel)
    /\ UNCHANGED <<stripeVars, countVars, boundVars>>

--------------------------------------------------------------------------------
(* renewActivePlanIfExhausted.                                             *)

FreshRead(w) ==
    /\ At(w, "freshRead")
    /\ IF profile.status # "active" \/ profile.used < Alloc
       THEN Done(w)
       ELSE Become(w, [job[w] EXCEPT !.step = "liveCheck", !.over = profile.used - Alloc])
    /\ UNCHANGED <<stripeVars, profile, countVars, boundVars>>

\* Mutant: the local autoRenew is trusted.
LiveCheckTrustsLocal(w) ==
    /\ At(w, "liveCheck")
    /\ Goto(w, "claim")
    /\ UNCHANGED <<stripeVars, profile, countVars, boundVars>>

LiveCheck(w) ==
    /\ At(w, "liveCheck")
    /\ Goto(w, IF sub.status = "active" /\ ~sub.cancel THEN "claim" ELSE "autoOff")
    /\ UNCHANGED <<stripeVars, profile, countVars, boundVars>>

\* Mutant: the handler returns and leaves the stale autoRenew in place.
AutoOffReturns(w) ==
    /\ At(w, "autoOff")
    /\ Done(w)
    /\ UNCHANGED <<stripeVars, profile, countVars, boundVars>>

AutoOff(w) ==
    /\ At(w, "autoOff")
    /\ profile' = [profile EXCEPT !.autoRenew = FALSE]
    /\ Done(w)
    /\ UNCHANGED <<stripeVars, countVars, boundVars>>

\* Mutant: the update is not conditional on the counter.
ClaimUnconditional(w) ==
    /\ At(w, "claim")
    /\ profile' = [profile EXCEPT !.used = 0]
    /\ claims' = claims + 1
    /\ Goto(w, "retrieve")
    /\ UNCHANGED <<stripeVars, calls, boundVars>>

\* Mutant: the count of updated rows is not looked at, and the loser goes on.
ClaimLoserCharges(w) ==
    /\ At(w, "claim")
    /\ IF profile.used >= Alloc
       THEN profile' = [profile EXCEPT !.used = 0] /\ claims' = claims + 1
       ELSE UNCHANGED <<profile, claims>>
    /\ Goto(w, "retrieve")
    /\ UNCHANGED <<stripeVars, calls, boundVars>>

\* The conditional update: the row lock lets one of several callers win.
Claim(w) ==
    /\ At(w, "claim")
    /\ IF profile.used >= Alloc
       THEN /\ profile' = [profile EXCEPT !.used = 0]
            /\ claims' = claims + 1
            /\ Goto(w, "retrieve")
       ELSE /\ Done(w)
            /\ UNCHANGED <<profile, claims>>
    /\ UNCHANGED <<stripeVars, calls, boundVars>>

--------------------------------------------------------------------------------
(* renewSubscriptionNow: read the period end, then charge under its key.   *)

Retrieve(w) ==
    /\ At(w, "retrieve")
    /\ Become(w, [job[w] EXCEPT !.step = "charge", !.sub.end = sub.end])
    /\ UNCHANGED <<stripeVars, profile, countVars, boundVars>>

\* The renewal did not go through: the profile is to say past due.
FlipNext(w) == Become(w, [Idle EXCEPT !.step = "flip", !.kind = "renew"])

\* What the handler does with Stripe's answer.
Answered(w, a) ==
    IF a.result = "renewed"
    THEN Become(w, [Idle EXCEPT !.step = "grantRead", !.kind = "renew", !.over = job[w].over,
                                !.reset = TRUE, !.sub.end = a.end])
    ELSE FlipNext(w)

\* Stripe charges a full period from now, or the card is declined and nothing
\* changes.  On a subscription that is past due the charge does not revive it.
NewAnswer(key, a) ==
    /\ \E result \in {"declined", IF sub.status = "active" THEN "renewed" ELSE "unpaid"} :
          a = [key |-> key, result |-> result,
               end |-> IF result = "declined" THEN sub.end ELSE sub.end + 1]
    /\ answers' = answers \cup {a}
    /\ sub' = [sub EXCEPT !.end = a.end]
    /\ IF a.result = "declined" THEN UNCHANGED sent ELSE Announce(sub')

PossibleAnswers(key) ==
    [key : {key}, result : {"declined", "renewed", "unpaid"}, end : {sub.end, sub.end + 1}]

\* Mutant: the request carries no idempotency key.
ChargeWithoutKey(w) ==
    /\ At(w, "charge")
    /\ LET key == job[w].sub.end
       IN  \/ /\ sub.status = "canceled"
              /\ FlipNext(w)
              /\ UNCHANGED stripeVars
           \/ /\ sub.status \in Live
              /\ \E a \in PossibleAnswers(key) : NewAnswer(key, a) /\ Answered(w, a)
    /\ UNCHANGED <<profile, countVars, boundVars>>

Charge(w) ==
    /\ At(w, "charge")
    /\ LET key  == job[w].sub.end
           past == {a \in answers : a.key = key}
       IN  \/ /\ \E a \in past : Answered(w, a)
              /\ UNCHANGED stripeVars
           \/ /\ past = {}
              /\ sub.status = "canceled"
              /\ FlipNext(w)
              /\ UNCHANGED stripeVars
           \/ /\ past = {}
              /\ sub.status \in Live
              /\ \E a \in PossibleAnswers(key) : NewAnswer(key, a) /\ Answered(w, a)
    /\ UNCHANGED <<profile, countVars, boundVars>>

--------------------------------------------------------------------------------
(* applyActivePlanMinutes: read the counter, then write the new period.    *)

GrantRead(w) ==
    /\ At(w, "grantRead")
    /\ Become(w, [job[w] EXCEPT !.step = "grantWrite", !.used = profile.used,
                                !.end = profile.end])
    /\ UNCHANGED <<stripeVars, profile, countVars, boundVars>>

\* Overage is carried into the new period, less than a whole allowance of it.
CarriedOverage(r) ==
    LET overage == IF r.over > 0 THEN r.over ELSE GreaterOf(0, r.used - Alloc)
    IN  LesserOf(overage, GreaterOf(0, Alloc - 1))

IsNewPeriod(r) == r.reset \/ r.sub.end > r.end

GrantWrite(w) ==
    /\ At(w, "grantWrite")
    /\ profile' = [profile EXCEPT !.end = job[w].sub.end,
                     !.used = IF IsNewPeriod(job[w]) THEN CarriedOverage(job[w]) ELSE @]
    /\ IF job[w].kind = "renew" THEN Become(w, [Idle EXCEPT !.step = "settle", !.kind = "renew"])
                               ELSE Done(w)
    /\ UNCHANGED <<stripeVars, countVars, boundVars>>

\* The coupon cycle, the commission and the ledger row: still inside the try.
Settle(w) ==
    /\ At(w, "settle")
    /\ Done(w)
    /\ UNCHANGED <<stripeVars, profile, countVars, boundVars>>

\* The catch, and the renewal that did not leave the subscription active.
Flip(w) ==
    /\ At(w, "flip")
    /\ profile' = [profile EXCEPT !.status = "past_due"]
    /\ Done(w)
    /\ UNCHANGED <<stripeVars, countVars, boundVars>>

--------------------------------------------------------------------------------
(* reconcileSubscription, past due: Stripe says whether it was paid.       *)

StripeFetch(w) ==
    /\ At(w, "stripeFetch")
    /\ Become(w, [job[w] EXCEPT !.sub = sub,
                    !.step = IF sub.status = "active" THEN "activate" ELSE "mirror"])
    /\ UNCHANGED <<stripeVars, profile, countVars, boundVars>>

\* Mutant: the minutes are granted, the status is left.
ActivateGrantsOnly(w) ==
    /\ At(w, "activate")
    /\ Become(w, [job[w] EXCEPT !.step = "grantRead", !.reset = TRUE])
    /\ UNCHANGED <<stripeVars, profile, countVars, boundVars>>

Activate(w) ==
    /\ At(w, "activate")
    /\ profile' = [profile EXCEPT !.status = "active"]
    /\ Become(w, [job[w] EXCEPT !.step = "grantRead", !.reset = TRUE])
    /\ UNCHANGED <<stripeVars, countVars, boundVars>>

Mirror(w) ==
    /\ At(w, "mirror")
    /\ profile' = [profile EXCEPT !.status = job[w].sub.status]
    /\ Done(w)
    /\ UNCHANGED <<stripeVars, countVars, boundVars>>

--------------------------------------------------------------------------------
(* customer.subscription.*: events arrive in any order, and again.         *)

Deliver(w, e) ==
    /\ At(w, "idle")
    /\ e \in sent
    /\ Become(w, [Idle EXCEPT !.step = "hookRead", !.kind = "hook", !.sub = e])
    /\ UNCHANGED <<stripeVars, profile, countVars, boundVars>>

HookRead(w) ==
    /\ At(w, "hookRead")
    /\ Become(w, [job[w] EXCEPT !.step = "hookWrite", !.reset = profile.status # "active"])
    /\ UNCHANGED <<stripeVars, profile, countVars, boundVars>>

HookWrite(w) ==
    /\ At(w, "hookWrite")
    /\ LET s == job[w].sub
       IN  /\ profile' = [profile EXCEPT !.status = s.status,
                                         !.autoRenew = s.status = "active" /\ ~s.cancel]
           /\ IF s.status = "active" THEN Goto(w, "grantRead") ELSE Done(w)
    /\ UNCHANGED <<stripeVars, countVars, boundVars>>

--------------------------------------------------------------------------------
(* Faults.                                                                 *)

\* Where a step that fails leaves its handler: the portal sync and the live
\* check fall through, the renewal's catch says past due, the rest returns.
AfterError(w) ==
    CASE job[w].step \in {"portalFetch", "portalWrite"} -> Reconciled(w, job[w].auto)
      [] job[w].step = "liveCheck" -> Goto(w, "claim")
      [] job[w].step \in {"retrieve", "charge", "settle"} -> FlipNext(w)
      [] job[w].step \in {"grantRead", "grantWrite"} ->
            IF job[w].kind = "renew"
            THEN FlipNext(w) ELSE Done(w)
      [] OTHER -> Done(w)

\* A database or Stripe call fails without effect.
CallFails(w) ==
    /\ job[w].step # "idle"
    /\ faults < MaxFaults
    /\ faults' = faults + 1
    /\ AfterError(w)
    /\ UNCHANGED <<stripeVars, profile, countVars, changes>>

\* Stripe charges and the answer is lost.
AnswerLost(w) ==
    /\ At(w, "charge")
    /\ faults < MaxFaults
    /\ faults' = faults + 1
    /\ sub.status \in Live
    /\ \A a \in answers : a.key # job[w].sub.end
    /\ \E a \in PossibleAnswers(job[w].sub.end) : NewAnswer(job[w].sub.end, a)
    /\ FlipNext(w)
    /\ UNCHANGED <<profile, countVars, changes>>

\* The server dies under the handler.
Crash(w) ==
    /\ job[w].step # "idle"
    /\ faults < MaxFaults
    /\ faults' = faults + 1
    /\ Done(w)
    /\ UNCHANGED <<stripeVars, profile, countVars, changes>>

--------------------------------------------------------------------------------
Customer == \E cancel \in BOOLEAN :
    PortalToggle(cancel) \/ \E w \in Requests : Toggle(w, ~cancel)

Request ==
    \/ \E w \in Requests : Load(w) \/ \E n \in CallMinutes : CallEnds(w, n)
    \/ \E w \in Hooks, e \in sent : Deliver(w, e)

HandlerStep(w) ==
    \/ MeterRead(w)   \/ MeterAdd(w)    \/ ProfileRead(w) \/ PortalFetch(w)
    \/ PortalWrite(w) \/ FreshRead(w)   \/ LiveCheck(w)   \/ AutoOff(w)
    \/ Claim(w)       \/ Retrieve(w)    \/ Charge(w)      \/ GrantRead(w)
    \/ GrantWrite(w)  \/ Settle(w)      \/ Flip(w)        \/ StripeFetch(w)
    \/ Activate(w)    \/ Mirror(w)      \/ HookRead(w)    \/ HookWrite(w)
    \/ ToggleWrite(w)

Next ==
    \/ PeriodEnds \/ DunningEnds \/ Customer \/ Request
    \/ \E w \in Workers : HandlerStep(w) \/ CallFails(w) \/ AnswerLost(w) \/ Crash(w)

Spec == Init /\ [][Next]_vars

\* A running handler goes on, and the customer keeps coming back: settleAfterCall
\* relies on it ("validateTrial on the next call also reconciles").
Fairness ==
    /\ \A w \in Workers : WF_vars(HandlerStep(w))
    /\ SF_vars(\E w \in Requests : Load(w))

FairSpec == Spec /\ Fairness

--------------------------------------------------------------------------------
(* Properties.                                                             *)

Snapshots == [status : Statuses, end : Nat, cancel : BOOLEAN]

Answers == [key : Nat, result : {"declined", "renewed", "unpaid"}, end : Nat]

Jobs == [step : Steps, kind : {"none", "reconcile", "renew", "reactivate", "hook", "toggle"},
         sub : Snapshots, status : Statuses, auto : BOOLEAN, over : Nat, reset : BOOLEAN, used : Nat,
         end : Nat, minutes : Nat, off : BOOLEAN]

\* Every row, snapshot and handler keeps its shape.
TypeOK ==
    /\ sub \in Snapshots
    /\ answers \subseteq Answers
    /\ sent \subseteq Snapshots
    /\ profile \in [status : Statuses, autoRenew : BOOLEAN, used : Nat, end : Nat]
    /\ job \in [Workers -> Jobs]
    /\ calls \in Nat
    /\ claims \in Nat
    /\ changes \in 0..MaxChanges
    /\ faults \in 0..MaxFaults

Exhausted == profile.used >= Alloc

\* Renewals do not feed on each other: however many requests see the same
\* exhausted plan, and whatever overage they carry over, each claim of an
\* exhausted allowance costs the customer at least one more recorded call
\* (trial.ts "capped to leave at least one minute so a huge overrun can't
\* trigger a second renewal at once", "so one caller wins").
OneClaimPerCall == claims <= calls

Charged == {a \in answers : a.result # "declined"}

\* No cycle is replaced twice: requests that slipped past each other's claims
\* read the same period end, and Stripe answers them with one charge
\* (renewSubscriptionNow "racing requests read the same period end and
\* collapse into one charge").
OneChargePerPeriod == \A a, b \in Charged : a.key = b.key => a = b

ChargedPeriods == {a.key : a \in Charged}

Plan == INSTANCE EarlyRenewal WITH
            early <- Cardinality(Charged), charged <- ChargedPeriods, paidThrough <- sub.end

\* The handlers implement early renewal as the customer is promised it: an
\* early charge is one for a claim that a handler has won and not yet used,
\* whatever fails between the claim and the charge, and it buys a period
\* (trial.ts "CLAIM before charging").
ImplementsEarlyRenewal == Plan!PlanSpec

\* A cancelled card is not charged early: a handler that began after the
\* cancellation, in the portal or in the app, makes no charge, however stale
\* the profile's autoRenew is, unless a call to Stripe failed.
CancelStopsRenewal ==
    [][\A w \in Workers :
          At(w, "charge") /\ job'[w] # job[w] /\ job[w].off => answers' = answers \/ faults' > 0]_vars

\* An exhausted plan with auto-renew on does not stay exhausted.
ExhaustedIsResolved ==
    profile.status = "active" /\ profile.autoRenew /\ Exhausted
        ~> profile.status # "active" \/ ~profile.autoRenew \/ ~Exhausted

\* A subscription that is live at Stripe does not stay past due here, whatever
\* made the renewal's catch say so.
PaidIsUnblocked ==
    profile.status = "past_due" /\ profile.autoRenew /\ sub.status = "active"
        ~> profile.status # "past_due" \/ ~profile.autoRenew \/ sub.status # "active"

\* trial.ts:876 "zeroing is safe since a failed charge flips to past_due": when
\* no handler is at work, an active plan has paid for the allowances it claimed.
ClaimsArePaid ==
    profile.status = "active" /\ (\A w \in Workers : At(w, "idle"))
        => claims <= Cardinality(Charged)
================================================================================
