-------------------------------- MODULE Coupons --------------------------------
(***************************************************************************)
(* Discount codes: a checkout reserves one, the card confirmation makes it *)
(* a live discount, each charge counts a cycle, an admin grants or removes *)
(* one, and an hourly sweep frees abandoned reservations.                  *)
(*                                                                         *)
(* services/coupons.ts with its callers in routes/billing.routes.ts        *)
(* (/subscribe, /confirm-card), routes/admin.routes.ts and                 *)
(* services/scheduler.ts.  Three stores have to agree and share no         *)
(* transaction: the redemption rows in the brand's database, the coupon's  *)
(* tally and holds in the control plane, and the discount on the Stripe    *)
(* subscription.  Each transaction or Stripe call is a step.  A handler    *)
(* that fails stops between two of them (Stops); a call in a try block or  *)
(* with a catch of its own is passed over (PassedOver).                    *)
(***************************************************************************)
EXTENDS Integers, FiniteSets

CONSTANTS
    Users,          \* customers of one brand
    Codes,          \* coupons of the catalogue, active and in their window
    Requests,       \* handlers of customers' and admins' requests
    Hooks,          \* handlers of webhooks, reconciles and sweeps
    Percent,        \* the coupons Stripe discounts; the others give minutes
    Cycles,         \* durationCycles of each coupon
    Supply,         \* maxRedemptions of each coupon
    MaxRequests,    \* bound on requests of customers and admins
    MaxCharges,     \* bound on paid invoices
    MaxFaults       \* bound on calls that fail

NoCode == "none"

Handlers == Requests \cup Hooks

CouponAssumption ==
    /\ IsFiniteSet(Users)
    /\ IsFiniteSet(Requests)
    /\ IsFiniteSet(Hooks)
    /\ NoCode \notin Codes
    /\ Percent \subseteq Codes
    /\ Cycles \in [Codes -> Nat \ {0}]
    /\ Supply \in [Codes -> Nat]
    /\ MaxRequests \in Nat
    /\ MaxCharges \in Nat
    /\ MaxFaults \in Nat

ASSUME CouponAssumption

VARIABLES
    redemption,     \* tenant: the redemption row of each customer and coupon
    pointer,        \* tenant: activeCouponRedemptionId of the profile, or 0
    made,           \* tenant: redemption rows created so far, the last id
    hold,           \* control plane: coupon_holds
    redeemedCount,  \* control plane: the tally of each coupon
    sub,            \* Stripe: the subscription the profile names, or 0
    discount,       \* Stripe: the discount on that subscription
    latest,         \* Stripe: its latest paid invoice, or 0
    cards,          \* Stripe: the customers with a card on file
    charges,        \* Stripe: invoices paid so far
    job,            \* what each handler is doing
    requests,       \* requests so far
    faults          \* failed calls so far

tenantVars == <<redemption, pointer, made>>
mainVars   == <<hold, redeemedCount>>
stripeVars == <<sub, discount, latest, cards, charges>>
boundVars  == <<requests, faults>>
vars == <<tenantVars, mainVars, stripeVars, job, boundVars>>

--------------------------------------------------------------------------------
(* Rows and handlers.                                                      *)

Ended == {"exhausted", "revoked"}

Spent == {"active"} \cup Ended

NoRow == [id |-> 0, status |-> "none", stale |-> FALSE, used |-> 0, inv |-> 0]

NewRow(u, status) == [NoRow EXCEPT !.id = made[u] + 1, !.status = status]

Kinds == {"create", "swap", "trial", "buy", "grant", "settle", "revoke", "release",
          "heal", "sweep"}

Steps == {"clearRows", "clearHolds", "attach", "readSupply", "reserve", "hold", "save",
          "findPending", "rebuild", "activate", "apply", "countUp", "dropHold", "sync",
          "grant", "replace", "live", "repoint", "countCycle", "ensure", "detach", "remove",
          "giveBack", "drift", "sweepHolds"}

\* sub: the subscription a handler was called for.  row, used, inv: the row it
\* has read, and how far its cycles were counted.  seen: the tally it has read.
\* bill: the invoice it is to count.  ends: the redemptions its transaction ends.
Idle == [step |-> "idle", kind |-> "none", user |-> "none", sub |-> 0, code |-> NoCode,
         row |-> 0, used |-> 0, inv |-> 0, seen |-> 0, bill |-> 0, ends |-> {}]

At(h, step) == job[h].step = step

Become(h, j) == job' = [job EXCEPT ![h] = j]

Goto(h, step) == Become(h, [job[h] EXCEPT !.step = step])

Done(h) == Become(h, Idle)

StartsWith(h, kind, u, c, step, row, bill) ==
    /\ At(h, "idle")
    /\ Become(h, [Idle EXCEPT !.step = step, !.kind = kind, !.user = u, !.sub = sub[u],
                              !.code = c, !.row = row, !.bill = bill])

Starts(h, kind, u, c, step) == StartsWith(h, kind, u, c, step, 0, 0)

Asked == requests < MaxRequests /\ requests' = requests + 1

\* What a handler does with the live redemption it has read.
WithLive(kind) ==
    CASE kind \in {"settle", "buy"}      -> "countCycle"
      [] kind \in {"revoke", "release"}  -> "remove"
      [] OTHER                           -> "idle"

\* Where a handler goes after a call that is best-effort in the code.
Following(j) ==
    LET coded == j.code # NoCode
    IN  CASE j.step = "clearHolds" /\ j.kind = "swap"             -> "attach"
          [] j.step = "clearHolds" /\ j.kind = "create" /\ coded  -> "readSupply"
          [] j.step = "clearHolds" /\ j.kind = "create" /\ ~coded -> "save"
          [] j.step = "attach" /\ coded                           -> "readSupply"
          [] j.step = "hold" /\ j.kind = "create"                 -> "save"
          [] j.step = "dropHold"                                  -> "sync"
          [] j.step = "sync" /\ j.kind = "buy"                    -> "live"
          [] j.step = "repoint"                                   -> WithLive(j.kind)
          [] j.step = "giveBack"                                  -> "detach"
          [] OTHER                                                -> "idle"

Continue(h) == IF Following(job[h]) = "idle" THEN Done(h) ELSE Goto(h, Following(job[h]))

Holders(c) == {u \in Users : hold[u][c] = "live"}

LiveCodes(u) == {c \in Codes : redemption[u][c].status = "active"}

\* What Stripe is told of a coupon.  A handler writes to the subscription it
\* knows, or to the profile's if it knows none.
StripeDiscount(c) == IF c \in Percent THEN c ELSE NoCode

Discounts(h, d) ==
    LET u == job[h].user
    IN  discount' = [discount EXCEPT ![u] =
            IF sub[u] # 0 /\ job[h].sub \in {0, sub[u]} THEN d ELSE @]

--------------------------------------------------------------------------------
Init ==
    /\ redemption = [u \in Users |-> [c \in Codes |-> NoRow]]
    /\ pointer = [u \in Users |-> 0]
    /\ made = [u \in Users |-> 0]
    /\ hold = [u \in Users |-> [c \in Codes |-> "none"]]
    /\ redeemedCount = [c \in Codes |-> 0]
    /\ sub = [u \in Users |-> 0]
    /\ discount = [u \in Users |-> NoCode]
    /\ latest = [u \in Users |-> 0]
    /\ cards = {}
    /\ charges = 0
    /\ job = [h \in Handlers |-> Idle]
    /\ requests = 0
    /\ faults = 0

--------------------------------------------------------------------------------
(* Time and Stripe on their own.                                           *)

\* Thirty minutes pass.  No handler takes that long: none is between a cutoff
\* and the call that uses it, or between a new row and its hold.
Expire(u, c) ==
    /\ redemption[u][c].status = "pending" \/ hold[u][c] = "live"
    /\ \A h \in Handlers : job[h].step \notin {"hold", "sweepHolds"}
    /\ redemption' = [redemption EXCEPT ![u][c].stale = (redemption[u][c].status = "pending")]
    /\ hold' = [hold EXCEPT ![u][c] = IF @ = "live" THEN "stale" ELSE @]
    /\ UNCHANGED <<pointer, made, redeemedCount, stripeVars, job, boundVars>>

\* A paid invoice.  Stripe applies a discount of duration "once" to one.
Pays(u) ==
    /\ charges < MaxCharges
    /\ charges' = charges + 1
    /\ latest' = [latest EXCEPT ![u] = charges + 1]
    /\ discount' = [discount EXCEPT ![u] =
                       IF @ \in Codes /\ Cycles[@] = 1 THEN NoCode ELSE @]

Charge(u) ==
    /\ sub[u] # 0
    /\ u \in cards
    /\ Pays(u)
    /\ UNCHANGED <<tenantVars, mainVars, sub, cards, job, boundVars>>

--------------------------------------------------------------------------------
(* POST /subscribe.                                                        *)

\* validateCoupon.  Its own reservation is not counted against the customer,
\* even where its hold is missing.
Eligible(u, c) ==
    LET own == IF redemption[u][c].status = "pending" /\ ~redemption[u][c].stale THEN 1 ELSE 0
    IN  /\ redemption[u][c].status \in {"none", "pending"}
        /\ LiveCodes(u) \subseteq {c}
        /\ redeemedCount[c] + Cardinality(Holders(c)) - own < Supply[c]

\* A trial that is under way is swapped, anything else gets a new subscription.
Subscribe(h, u, c) ==
    /\ Asked
    /\ c # NoCode => Eligible(u, c)
    /\ \/ Starts(h, "create", u, c, "clearRows")
       \/ /\ sub[u] # 0 /\ latest[u] = 0
          /\ Starts(h, "swap", u, c, "clearRows")
    /\ UNCHANGED <<tenantVars, mainVars, stripeVars, faults>>

\* clearOtherPendingReservations, in the tenant and then in the control plane.
ClearRows(h) ==
    LET u == job[h].user
    IN  /\ At(h, "clearRows")
        /\ redemption' = [redemption EXCEPT ![u] = [c \in Codes |->
               IF @[c].status = "pending" /\ c # job[h].code THEN NoRow ELSE @[c]]]
        /\ Goto(h, "clearHolds")
        /\ UNCHANGED <<pointer, made, mainVars, stripeVars, boundVars>>

ClearHolds(h) ==
    LET u == job[h].user
    IN  /\ At(h, "clearHolds")
        /\ hold' = [hold EXCEPT ![u] = [c \in Codes |->
                       IF c # job[h].code THEN "none" ELSE @[c]]]
        /\ Continue(h)
        /\ UNCHANGED <<tenantVars, redeemedCount, stripeVars, boundVars>>

Attach(h) ==
    /\ At(h, "attach")
    /\ Discounts(h, StripeDiscount(job[h].code))
    /\ Continue(h)
    /\ UNCHANGED <<tenantVars, mainVars, sub, latest, cards, charges, boundVars>>

\* reserveRedemption: the coupon is read before the transaction, the holds in it.
ReadSupply(h) ==
    /\ At(h, "readSupply")
    /\ Become(h, [job[h] EXCEPT !.step = "reserve", !.seen = redeemedCount[job[h].code]])
    /\ UNCHANGED <<tenantVars, mainVars, stripeVars, boundVars>>

SoldOut(h) == job[h].seen + Cardinality(Holders(job[h].code)) >= Supply[job[h].code]

\* The transaction returns a row that is there, and else creates one; when it
\* throws, a stale row it has cleared is back.
Reserve(h) ==
    LET u == job[h].user
        c == job[h].code
        row == redemption[u][c]
    IN  /\ At(h, "reserve")
        /\ \/ /\ row.status = "pending" /\ ~row.stale
              /\ Goto(h, "hold")
              /\ UNCHANGED <<redemption, made>>
           \/ /\ row.status \in Spent
              /\ IF job[h].kind = "create" THEN Goto(h, "save") ELSE Done(h)
              /\ UNCHANGED <<redemption, made>>
           \/ /\ row.status = "none" \/ row.stale
              /\ SoldOut(h)
              /\ Done(h)
              /\ UNCHANGED <<redemption, made>>
           \/ /\ row.status = "none" \/ row.stale
              /\ ~SoldOut(h)
              /\ redemption' = [redemption EXCEPT ![u][c] = NewRow(u, "pending")]
              /\ made' = [made EXCEPT ![u] = @ + 1]
              /\ Goto(h, "hold")
        /\ UNCHANGED <<pointer, mainVars, stripeVars, boundVars>>

\* holdSlot.
Hold(h) ==
    /\ At(h, "hold")
    /\ hold' = [hold EXCEPT ![job[h].user][job[h].code] = "live"]
    /\ Continue(h)
    /\ UNCHANGED <<tenantVars, redeemedCount, stripeVars, boundVars>>

\* The profile names the new subscription, which has its discount from the start.
Save(h) ==
    /\ At(h, "save")
    /\ sub' = [sub EXCEPT ![job[h].user] = @ + 1]
    /\ discount' = [discount EXCEPT ![job[h].user] = StripeDiscount(job[h].code)]
    /\ latest' = [latest EXCEPT ![job[h].user] = 0]
    /\ Done(h)
    /\ UNCHANGED <<tenantVars, mainVars, cards, charges, boundVars>>

--------------------------------------------------------------------------------
(* POST /confirm-card and activateRedemption.                              *)

\* A trial that goes on is not charged, nor is a plan that is already paid.
Confirm(h, u, kind) ==
    /\ Asked
    /\ sub[u] # 0
    /\ cards' = cards \cup {u}
    /\ \/ kind = "buy" /\ latest[u] = 0 /\ Pays(u)
       \/ kind = "buy" /\ latest[u] # 0 /\ UNCHANGED <<discount, latest, charges>>
       \/ kind = "trial" /\ latest[u] = 0 /\ UNCHANGED <<discount, latest, charges>>
    /\ StartsWith(h, kind, u, NoCode, "findPending", 0, latest'[u])
    /\ UNCHANGED <<tenantVars, mainVars, sub, faults>>

Activates(h, c, row) == Become(h, [job[h] EXCEPT !.step = "activate", !.code = c, !.row = row])

\* Nothing to activate: the caller goes on without a coupon.
NotActivated(h) == IF job[h].kind = "buy" THEN Goto(h, "live") ELSE Done(h)

\* The newest reservation, or else the coupon the subscription carries.
FindPending(h) ==
    LET u == job[h].user
        pending == {c \in Codes : redemption[u][c].status = "pending"}
    IN  /\ At(h, "findPending")
        /\ \/ \E c \in pending :
                 /\ \A d \in pending : redemption[u][d].id <= redemption[u][c].id
                 /\ Activates(h, c, redemption[u][c].id)
           \/ /\ pending = {}
              /\ discount[u] \in Codes
              /\ Become(h, [job[h] EXCEPT !.step = "rebuild", !.code = discount[u]])
           \/ /\ pending = {}
              /\ discount[u] \notin Codes
              /\ NotActivated(h)
        /\ UNCHANGED <<tenantVars, mainVars, stripeVars, boundVars>>

\* recoverRedemptionFromSubscription; the unique key refuses a second row.
Rebuild(h) ==
    LET u == job[h].user
        c == job[h].code
    IN  /\ At(h, "rebuild")
        /\ IF redemption[u][c].status = "none"
           THEN /\ redemption' = [redemption EXCEPT ![u][c] = NewRow(u, "pending")]
                /\ made' = [made EXCEPT ![u] = @ + 1]
                /\ Activates(h, c, made[u] + 1)
           ELSE NotActivated(h) /\ UNCHANGED <<redemption, made>>
        /\ UNCHANGED <<pointer, mainVars, stripeVars, boundVars>>

\* The two transactions that begin a redemption, activateRedemption's and
\* grantCoupon's, hold the lock on the customer's profile to their end.
Locks(h, u) == job[h].step \in {"apply", "replace"} /\ job[h].user = u

\* Mutant: the transaction does not wait for the lock.
LockNothing(h) ==
    /\ job[h].step \in {"activate", "grant"}
    /\ Become(h, [job[h] EXCEPT !.step = IF @ = "activate" THEN "apply" ELSE "replace",
                                !.ends = LiveCodes(job[h].user)])
    /\ UNCHANGED <<tenantVars, mainVars, stripeVars, boundVars>>

\* lockUserCouponState, and the update that ends every redemption it finds live:
\* nobody sees it before the transaction commits, and it is lost with it.
LockProfile(h) ==
    /\ job[h].step \in {"activate", "grant"}
    /\ \A k \in Handlers : ~Locks(k, job[h].user)
    /\ Become(h, [job[h] EXCEPT !.step = IF @ = "activate" THEN "apply" ELSE "replace",
                                !.ends = LiveCodes(job[h].user)])
    /\ UNCHANGED <<tenantVars, mainVars, stripeVars, boundVars>>

\* What commits: the redemptions found live are over, row r begins.
Supersede(h, r) ==
    LET u == job[h].user
    IN  redemption' = [redemption EXCEPT ![u] = [d \in Codes |->
            IF d = job[h].code THEN r
            ELSE IF d \in job[h].ends /\ @[d].status = "active"
            THEN [@[d] EXCEPT !.status = "revoked"] ELSE @[d]]]

Begun(h) == Become(h, [job[h] EXCEPT !.step = "countUp", !.ends = {}])

\* Mutant: an upsert, that does not mind a row that is gone.
ActivateUpserts(h) ==
    LET u == job[h].user
        c == job[h].code
    IN  /\ At(h, "apply")
        /\ Supersede(h, [redemption[u][c] EXCEPT !.status = "active", !.stale = FALSE])
        /\ pointer' = [pointer EXCEPT ![u] = job[h].row]
        /\ Begun(h)
        /\ UNCHANGED <<made, mainVars, stripeVars, boundVars>>

\* Updates the row it has found, whatever has become of it; throws if it is gone.
Activate(h) ==
    LET u == job[h].user
        c == job[h].code
    IN  /\ At(h, "apply")
        /\ IF redemption[u][c].id = job[h].row
           THEN /\ Supersede(h, [redemption[u][c] EXCEPT !.status = "active", !.stale = FALSE])
                /\ pointer' = [pointer EXCEPT ![u] = job[h].row]
                /\ Begun(h)
           ELSE Done(h) /\ UNCHANGED <<redemption, pointer>>
        /\ UNCHANGED <<made, mainVars, stripeVars, boundVars>>

CountUp(h) ==
    /\ At(h, "countUp")
    /\ redeemedCount' = [redeemedCount EXCEPT ![job[h].code] = @ + 1]
    /\ Goto(h, "dropHold")
    /\ UNCHANGED <<tenantVars, hold, stripeVars, boundVars>>

DropHold(h) ==
    /\ At(h, "dropHold")
    /\ hold' = [hold EXCEPT ![job[h].user][job[h].code] = "none"]
    /\ Continue(h)
    /\ UNCHANGED <<tenantVars, redeemedCount, stripeVars, boundVars>>

\* syncStripeDiscountTo: the coupon's discount, or none if it has none.
Sync(h) ==
    /\ At(h, "sync")
    /\ Discounts(h, StripeDiscount(job[h].code))
    /\ Continue(h)
    /\ UNCHANGED <<tenantVars, mainVars, sub, latest, cards, charges, boundVars>>

--------------------------------------------------------------------------------
(* grantCoupon.                                                            *)

\* It looks at the tally alone, not at the holds.
GrantRead(h, u, c) ==
    /\ Asked
    /\ redemption[u][c].status \in {"none", "pending"}
    /\ redeemedCount[c] < Supply[c]
    /\ c \in Percent => sub[u] # 0
    /\ StartsWith(h, "grant", u, c, "grant", redemption[u][c].id, 0)
    /\ UNCHANGED <<tenantVars, mainVars, stripeVars, faults>>

\* Replaces the row it has read.  Throws if that is gone, or another is there.
Grant(h) ==
    LET u == job[h].user
        c == job[h].code
    IN  /\ At(h, "replace")
        /\ IF redemption[u][c].id = job[h].row
           THEN /\ Supersede(h, NewRow(u, "active"))
                /\ made' = [made EXCEPT ![u] = @ + 1]
                /\ pointer' = [pointer EXCEPT ![u] = made[u] + 1]
                /\ Begun(h)
           ELSE Done(h) /\ UNCHANGED tenantVars
        /\ UNCHANGED <<mainVars, stripeVars, boundVars>>

--------------------------------------------------------------------------------
(* getActiveRedemption, and consumeCycle, revokeRedemption and             *)
(* healDiscountDrift on what it answers.                                   *)

\* The webhook and the reconcile after a charge.
Settle(h, u) ==
    /\ latest[u] # 0
    /\ StartsWith(h, "settle", u, NoCode, "live", 0, latest[u])
    /\ UNCHANGED <<tenantVars, mainVars, stripeVars, boundVars>>

RevokeRequest(h, u, kind) ==
    /\ Asked
    /\ Starts(h, kind, u, NoCode, "live")
    /\ UNCHANGED <<tenantVars, mainVars, stripeVars, faults>>


\* Only an account whose discount has ended can drift.
Reconcile(h, u) ==
    /\ latest[u] # 0
    /\ \E c \in Codes : redemption[u][c].status \in Ended
    /\ Starts(h, "heal", u, NoCode, "live")
    /\ UNCHANGED <<tenantVars, mainVars, stripeVars, boundVars>>

\* The row the pointer names if that is live, else any live row, repointed.
LiveRead(h) ==
    LET u == job[h].user
        pointed == {c \in LiveCodes(u) : redemption[u][c].id = pointer[u]}
        next == IF pointed = {} THEN "repoint" ELSE WithLive(job[h].kind)
    IN  /\ At(h, "live")
        /\ \/ \E c \in IF pointed = {} THEN LiveCodes(u) ELSE pointed :
                 IF next = "idle"
                 THEN Done(h)
                 ELSE Become(h, [job[h] EXCEPT !.step = next, !.code = c,
                                   !.row = redemption[u][c].id,
                                   !.used = redemption[u][c].used,
                                   !.inv = redemption[u][c].inv])
           \/ /\ LiveCodes(u) = {}
              /\ IF job[h].kind = "heal" THEN Goto(h, "drift") ELSE Done(h)
        /\ UNCHANGED <<tenantVars, mainVars, stripeVars, boundVars>>

\* Every live row but the one it has read is ended, and the pointer follows.
Repoint(h) ==
    LET u == job[h].user
    IN  /\ At(h, "repoint")
        /\ redemption' = [redemption EXCEPT ![u] = [c \in Codes |->
               IF @[c].status = "active" /\ @[c].id # job[h].row
               THEN [@[c] EXCEPT !.status = "revoked"] ELSE @[c]]]
        /\ pointer' = [pointer EXCEPT ![u] = job[h].row]
        /\ Continue(h)
        /\ UNCHANGED <<made, mainVars, stripeVars, boundVars>>

\* consumeCycle writes what it has read, plus one, to the row it has read.
CountCycle(h) ==
    LET u == job[h].user
        c == job[h].code
        counted == [redemption[u][c] EXCEPT !.used = job[h].used + 1, !.inv = job[h].bill]
    IN  /\ At(h, "countCycle")
        /\ \/ /\ job[h].inv = job[h].bill \/ redemption[u][c].id # job[h].row
              /\ Done(h)
              /\ UNCHANGED <<redemption, pointer>>
           \/ /\ job[h].inv # job[h].bill /\ redemption[u][c].id = job[h].row
              /\ job[h].used + 1 < Cycles[c]
              /\ redemption' = [redemption EXCEPT ![u][c] = counted]
              /\ IF c \in Percent THEN Goto(h, "ensure") ELSE Done(h)
              /\ UNCHANGED pointer
           \/ /\ job[h].inv # job[h].bill /\ redemption[u][c].id = job[h].row
              /\ job[h].used + 1 >= Cycles[c]
              /\ redemption' = [redemption EXCEPT ![u][c] =
                                    [counted EXCEPT !.status = "exhausted"]]
              /\ pointer' = [pointer EXCEPT ![u] = 0]
              /\ IF Cycles[c] > 1 THEN Goto(h, "detach") ELSE Done(h)
        /\ UNCHANGED <<made, mainVars, stripeVars, boundVars>>

\* ensureDiscountAttached.
Ensure(h) ==
    /\ At(h, "ensure")
    /\ Discounts(h, job[h].code)
    /\ Continue(h)
    /\ UNCHANGED <<tenantVars, mainVars, sub, latest, cards, charges, boundVars>>

\* Clears whatever discount is there.
Detach(h) ==
    /\ At(h, "detach")
    /\ Discounts(h, NoCode)
    /\ Continue(h)
    /\ UNCHANGED <<tenantVars, mainVars, sub, latest, cards, charges, boundVars>>

\* Mutant: a row that is gone is deleted once more, and given back once more.
RemoveAgain(h) ==
    LET u == job[h].user
        c == job[h].code
        release == job[h].kind = "release"
    IN  /\ At(h, "remove")
        /\ redemption' = [redemption EXCEPT ![u][c] =
               IF @.id # job[h].row THEN @
               ELSE IF release THEN NoRow ELSE [@ EXCEPT !.status = "revoked"]]
        /\ pointer' = [pointer EXCEPT ![u] = 0]
        /\ Become(h, [job[h] EXCEPT !.step = IF release THEN "giveBack" ELSE "detach",
                                    !.sub = sub[u]])
        /\ UNCHANGED <<made, mainVars, stripeVars, boundVars>>

\* revokeRedemption: the row is deleted to release the code, or else it ends.
Remove(h) ==
    LET u == job[h].user
        c == job[h].code
        release == job[h].kind = "release"
    IN  /\ At(h, "remove")
        /\ IF redemption[u][c].id = job[h].row
           THEN /\ redemption' = [redemption EXCEPT ![u][c] =
                       IF release THEN NoRow ELSE [@ EXCEPT !.status = "revoked"]]
                /\ pointer' = [pointer EXCEPT ![u] = 0]
                /\ Become(h, [job[h] EXCEPT !.step = IF release THEN "giveBack" ELSE "detach",
                                            !.sub = sub[u]])
           ELSE Done(h) /\ UNCHANGED <<redemption, pointer>>
        /\ UNCHANGED <<made, mainVars, stripeVars, boundVars>>

GiveBack(h) ==
    /\ At(h, "giveBack")
    /\ redeemedCount' = [redeemedCount EXCEPT ![job[h].code] = @ - 1]
    /\ Continue(h)
    /\ UNCHANGED <<tenantVars, hold, stripeVars, boundVars>>

\* healDiscountDrift: no live redemption, and one of our coupons at Stripe.
Drift(h) ==
    LET u == job[h].user
    IN  /\ At(h, "drift")
        /\ IF sub[u] = job[h].sub /\ discount[u] \in Codes THEN Goto(h, "detach") ELSE Done(h)
        /\ UNCHANGED <<tenantVars, mainVars, stripeVars, boundVars>>

--------------------------------------------------------------------------------
(* sweepStalePendingRedemptions, led by the holds.                         *)

Sweep(h) ==
    /\ At(h, "idle")
    /\ \E u \in Users, c \in Codes : hold[u][c] = "stale"
    /\ redemption' = [u \in Users |-> [c \in Codes |->
           IF redemption[u][c].status = "pending" /\ redemption[u][c].stale
           THEN NoRow ELSE redemption[u][c]]]
    /\ Become(h, [Idle EXCEPT !.step = "sweepHolds", !.kind = "sweep"])
    /\ UNCHANGED <<pointer, made, mainVars, stripeVars, boundVars>>

SweepHolds(h) ==
    /\ At(h, "sweepHolds")
    /\ hold' = [u \in Users |-> [c \in Codes |->
                   IF hold[u][c] = "stale" THEN "none" ELSE hold[u][c]]]
    /\ Done(h)
    /\ UNCHANGED <<tenantVars, redeemedCount, stripeVars, boundVars>>

--------------------------------------------------------------------------------
(* Faults.                                                                 *)

\* The server dies, or a call fails that nothing catches.
Stops(h) ==
    /\ ~At(h, "idle")
    /\ faults < MaxFaults
    /\ faults' = faults + 1
    /\ Done(h)
    /\ UNCHANGED <<tenantVars, mainVars, stripeVars, requests>>

\* A best-effort call fails.
PassedOver(h) ==
    /\ job[h].step \in {"clearHolds", "attach", "hold", "dropHold", "sync", "repoint",
                        "ensure", "detach", "giveBack"}
    /\ faults < MaxFaults
    /\ faults' = faults + 1
    /\ Continue(h)
    /\ UNCHANGED <<tenantVars, mainVars, stripeVars, requests>>

--------------------------------------------------------------------------------
Request(h, u) ==
    \/ \E c \in Codes \cup {NoCode} : Subscribe(h, u, c)
    \/ \E kind \in {"buy", "trial"} : Confirm(h, u, kind)
    \/ \E kind \in {"revoke", "release"} : RevokeRequest(h, u, kind)
    \/ \E c \in Codes : GrantRead(h, u, c)

Hook(h) == Sweep(h) \/ \E u \in Users : Settle(h, u) \/ Reconcile(h, u)

HandlerStep(h) ==
    \/ ClearRows(h)   \/ ClearHolds(h) \/ Attach(h)   \/ ReadSupply(h) \/ Reserve(h)
    \/ Hold(h)        \/ Save(h)       \/ FindPending(h) \/ Rebuild(h)
    \/ LockProfile(h) \/ Activate(h)
    \/ CountUp(h)     \/ DropHold(h)   \/ Sync(h)     \/ Grant(h)      \/ LiveRead(h)
    \/ Repoint(h)     \/ CountCycle(h) \/ Ensure(h)   \/ Detach(h)     \/ Remove(h)
    \/ GiveBack(h)    \/ Drift(h)      \/ SweepHolds(h)

Next ==
    \/ \E u \in Users : Charge(u) \/ \E c \in Codes : Expire(u, c)
    \/ \E h \in Requests, u \in Users : Request(h, u)
    \/ \E h \in Hooks : Hook(h)
    \/ \E h \in Handlers : HandlerStep(h) \/ Stops(h) \/ PassedOver(h)

Spec == Init /\ [][Next]_vars

\* A running handler goes on, and the customer keeps coming back.
Fairness ==
    /\ \A h \in Handlers : WF_vars(HandlerStep(h))
    /\ \A u \in Users : SF_vars(\E h \in Hooks : Reconcile(h, u))

FairSpec == Spec /\ Fairness

--------------------------------------------------------------------------------
(* Properties.                                                             *)

Rows == [id : Nat, status : {"none", "pending"} \cup Spent, stale : BOOLEAN, used : Nat, inv : Nat]

Jobs == [step : Steps \cup {"idle"}, kind : Kinds \cup {"none"}, user : Users \cup {"none"},
         sub : Nat, code : Codes \cup {NoCode}, row : Nat, used : Nat, inv : Nat, seen : Int,
         bill : Nat, ends : SUBSET Codes]

TenantOK ==
    /\ redemption \in [Users -> [Codes -> Rows]]
    /\ made \in [Users -> Nat]
    /\ pointer \in [Users -> Nat]
    /\ \A u \in Users : \A c \in Codes :
          /\ redemption[u][c].id <= made[u]
          /\ redemption[u][c].status = "none" <=> redemption[u][c].id = 0

MainOK ==
    /\ hold \in [Users -> [Codes -> {"none", "live", "stale"}]]
    /\ redeemedCount \in [Codes -> Int]

StripeOK ==
    /\ sub \in [Users -> Nat]
    /\ discount \in [Users -> Codes \cup {NoCode}]
    /\ latest \in [Users -> Nat]
    /\ cards \subseteq Users
    /\ charges \in 0..MaxCharges

\* Every row, count and handler keeps its shape: a row has an identity exactly
\* while it is there, and none is ahead of the rows created.  The tally is an
\* integer: it is below zero while a release overtakes a count.
TypeOK ==
    /\ TenantOK
    /\ MainOK
    /\ StripeOK
    /\ job \in [Handlers -> Jobs]
    /\ requests \in 0..MaxRequests
    /\ faults \in 0..MaxFaults

Redeemed(c)   == {u \in Users : redemption[u][c].status \in Spent}
Owing(c)      == {h \in Handlers : At(h, "countUp") /\ job[h].code = c}
GivingBack(c) == {h \in Handlers : At(h, "giveBack") /\ job[h].code = c}

\* One discount at a time: whatever confirmations, grants and repairs cross, a
\* customer never has two live redemptions (coupons.ts "a concurrent activate
\* and grant can't both read 'no live discount' and both apply").
OneLiveDiscount == \A u \in Users : \A c, d \in LiveCodes(u) : c = d

\* The tally in the control plane, which the supply is checked against, is
\* short of the redemptions in the tenants by no more than the handlers that
\* have still to count, and the calls that failed.
TallyCoversRedemptions ==
    \A c \in Codes :
        Cardinality(Redeemed(c)) + Cardinality(GivingBack(c))
            <= redeemedCount[c] + Cardinality(Owing(c)) + faults

\* The coupon Stripe still takes off a paying customer's invoices is one whose
\* redemption has ended, and no other redemption is live.
Drifted(u) ==
    /\ discount[u] \in Codes
    /\ redemption[u][discount[u]].status \in Ended
    /\ LiveCodes(u) = {}
    /\ latest[u] # 0


\* schema.prisma:439 "so an in-flight checkout can't oversell it".
NotOversold == \A c \in Codes : Cardinality(Redeemed(c)) <= Supply[c]
================================================================================
