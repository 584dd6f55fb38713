------------------------------ MODULE PhoneNumbers ------------------------------
(***************************************************************************)
(* The phone numbers of one brand: what the account holds at Twilio, the   *)
(* rows of the inventory (Main's phone_numbers) and the number each        *)
(* customer's profile shows (the brand's own database).                    *)
(*                                                                         *)
(* Claims and purchases (routes/profile.routes.ts, markNumberAssignedToUser*)
(* in services/phones.ts), an admin's approval (routes/admin.routes.ts),   *)
(* assignment and release (reassign), the pool's replenishment, the orphan *)
(* cleanup, and the grace sweep (services/scheduler.ts, services/grace.ts) *)
(* that gives the number of a lapsed customer back to Twilio.              *)
(*                                                                         *)
(* Every statement of either database and every call to Twilio is a step   *)
(* of its own.  The brand's pool and the shared pool are one pool, and the *)
(* routing of a number at Vapi is only the refusal a claim rolls back on.  *)
(***************************************************************************)
EXTENDS Integers, FiniteSets

CONSTANTS
    Users,          \* customers of the brand
    Numbers,        \* numbers Twilio sells
    NoUser,         \* a number nobody holds
    NoNumber,       \* a profile without a number
    HeldAtFirst,    \* who holds each number to begin with
    Handlers,       \* requests and timer ticks at work at the same time
    Target,         \* numbers the pool is topped up to (phones.poolTarget)
    MaxRequests,    \* bound on what customers, admins and the pool's timer start
    MaxLapses,      \* bound on plans and trials that end
    MaxFaults       \* bound on dead handlers and refused calls

NumbersAssumption ==
    /\ NoUser \notin Users
    /\ NoNumber \notin Numbers
    /\ Users \cap Numbers = {}
    /\ Users \cap {NoNumber} = {}
    /\ Numbers \cap {NoUser} = {}
    /\ HeldAtFirst \in [Numbers -> Users \cup {NoUser}]
    /\ \A n, m \in Numbers : HeldAtFirst[n] = HeldAtFirst[m] => n = m \/ HeldAtFirst[n] = NoUser
    /\ IsFiniteSet(Numbers)
    /\ Target \in Nat
    /\ MaxRequests \in Nat
    /\ MaxLapses \in Nat
    /\ MaxFaults \in Nat

ASSUME NumbersAssumption

VARIABLES
    number,         \* the number each profile shows (receptionistNumber)
    status,         \* whether a customer is entitled, blocked or suspended
    grace,          \* the reservation of a lapsed customer's number
    consumed,       \* customers whose graceConsumedAt is set
    approved,       \* customers whose conversion is approved
    owned,          \* numbers the account pays Twilio for
    tracked,        \* numbers with a row in the inventory
    holder,         \* the userId of each row
    back,           \* rows returned to the pool by a customer
    job,            \* what each handler is doing
    torn,           \* history: customers and numbers a race, a death or a
                    \* refusal may have left half done
    requests,       \* requests so far
    lapses,         \* plans and trials ended so far
    faults          \* faults so far

profileVars == <<number, status, grace, consumed, approved>>
rowVars == <<tracked, holder, back>>
vars == <<profileVars, owned, rowVars, job, torn, requests, lapses, faults>>

--------------------------------------------------------------------------------
ClaimSteps    == {"buy", "prev", "hold", "route", "free", "take"}
ApproveSteps  == {"pick", "seat", "accept", "post"}
AssignSteps   == {"others", "swap", "letgo", "show"}
UnassignSteps == {"clear", "pool"}
ReleaseSteps  == {"rows", "hand", "strike", "blank", "close"}
PoolSteps     == {"list", "import", "find", "purchase", "record"}
SweepSteps == {"entitle", "lift", "open"} \cup ReleaseSteps
Steps == {"idle", "apply", "orphans"} \cup ClaimSteps \cup ApproveSteps \cup AssignSteps
         \cup UnassignSteps \cup SweepSteps \cup PoolSteps

\* user, number: whom and what the handler works on.  other: the number or the
\* customer that has to let go.  rows: ids of rows it read, while they exist;
\* dead: those deleted since.  seen: numbers a Twilio listing returned.
\* need: what the pool lacks.  window, lapsed: what the sweep listed of the
\* customer.  late: the customer paid after the sweep read the entitlement.
Idle == [step |-> "idle", user |-> NoUser, number |-> NoNumber, prev |-> NoNumber,
         other |-> NoUser, rows |-> {}, dead |-> {}, seen |-> {}, need |-> 0,
         window |-> "none", lapsed |-> FALSE, late |-> FALSE]

\* The customers and numbers whose holding a handler may be about to change.
Touches(j) ==
    IF j.step \in ClaimSteps \cup ApproveSteps \cup AssignSteps \cup UnassignSteps
                 \cup ReleaseSteps \cup {"purchase", "record"}
    THEN ({j.user, j.other, j.number, j.prev} \cup j.rows) \cap (Users \cup Numbers)
    ELSE CASE j.step = "orphans" -> Numbers \ j.seen
           [] j.step = "import" -> j.seen
           [] OTHER -> {}

\* What two handlers touch at once.
Clashes(jobs) ==
    {x \in Users \cup Numbers :
        \E v, w \in Handlers : v # w /\ x \in Touches(jobs[v]) /\ x \in Touches(jobs[w])}

\* A row's id is gone from the handlers that had read it.
Forget(jobs, gone) ==
    [w \in Handlers |->
        [jobs[w] EXCEPT !.rows = @ \ gone,
                        !.dead = IF jobs[w].step \in {"hand", "strike"}
                                 THEN @ \cup (jobs[w].rows \cap gone) ELSE @]]

Available == {n \in tracked : holder[n] = NoUser}
RowsOf(u) == {n \in tracked : holder[n] = u}

\* The handlers' places: a handler's next state, and the end of its work.
Go(w, j)  == job' = [job EXCEPT ![w] = j]
Step(w, s) == [job[w] EXCEPT !.step = s]
Done(w)   == Go(w, Idle)
Start(w, j) == job[w].step = "idle" /\ Go(w, j)
Request(w, j) ==
    /\ Start(w, j)
    /\ requests < MaxRequests /\ requests' = requests + 1

Free(rows) ==
    /\ holder' = [n \in Numbers |-> IF n \in rows THEN NoUser ELSE holder[n]]
    /\ back' = back \cup rows

Give(n, u) ==
    /\ holder' = [holder EXCEPT ![n] = u]
    /\ back' = back \ {n}

Delete(rows) ==
    /\ tracked' = tracked \ rows
    /\ holder' = [n \in Numbers |-> IF n \in rows THEN NoUser ELSE holder[n]]
    /\ back' = back \ rows

ShowNumber(u, n) == number' = [number EXCEPT ![u] = n]

Tears(xs) == torn' = torn \cup (xs \cap (Users \cup Numbers)) \cup Clashes(job')
Fault == faults < MaxFaults /\ faults' = faults + 1

--------------------------------------------------------------------------------
\* Nobody is at work, profiles and inventory agree, and the pool may have
\* numbers to spare.
Init ==
    /\ holder = HeldAtFirst
    /\ number \in [Users -> Numbers \cup {NoNumber}]
    /\ \A u \in Users, n \in Numbers : number[u] = n <=> holder[n] = u
    /\ tracked \in {rows \in SUBSET Numbers : \A n \in Numbers \ rows : holder[n] = NoUser}
    /\ back = {}
    /\ owned = tracked
    /\ Cardinality({n \in tracked : holder[n] = NoUser}) <= Target
    /\ status = [u \in Users |-> "active"]
    /\ grace = [u \in Users |-> "none"]
    /\ consumed = {}
    /\ approved = {u \in Users : number[u] # NoNumber}
    /\ job = [w \in Handlers |-> Idle]
    /\ torn = {}
    /\ requests = 0
    /\ lapses = 0
    /\ faults = 0

--------------------------------------------------------------------------------
(* A customer claims a number of the account, or buys one.                 *)

HeldByAnother(u, n) == \E v \in Users \ {u} : number[v] = n

\* POST /claim-number: the number is the account's and no other profile's.
Claim(w, u, n) ==
    /\ status[u] # "suspended"
    /\ n \in owned
    /\ ~HeldByAnother(u, n)
    /\ Request(w, [Idle EXCEPT !.step = "prev", !.user = u, !.number = n])
    /\ Tears({})
    /\ UNCHANGED <<profileVars, owned, rowVars, lapses, faults>>

\* POST /buy-number.
Buy(w, u, n) ==
    /\ status[u] # "suspended"
    /\ ~HeldByAnother(u, n)
    /\ Request(w, [Idle EXCEPT !.step = "buy", !.user = u, !.number = n])
    /\ Tears({})
    /\ UNCHANGED <<profileVars, owned, rowVars, lapses, faults>>

\* purchaseNumber, which Twilio refuses for a number that is sold.  One whose row
\* still stands (it has just been given back) may lose the row next.
BuyNumber(w) ==
    /\ job[w].step = "buy"
    /\ IF job[w].number \in owned
       THEN Done(w) /\ UNCHANGED owned
       ELSE Go(w, Step(w, "prev")) /\ owned' = owned \cup {job[w].number}
    /\ Tears({job[w].number} \cap (tracked \ owned))
    /\ UNCHANGED <<profileVars, rowVars, requests, lapses, faults>>

\* assignNumberToUser charges a customer on trial first.  A declined card ends the
\* request, and leaves a number just bought without a row.
ChargeDeclined(w) ==
    /\ job[w].step = "prev"
    /\ Done(w)
    /\ Tears({job[w].number} \ tracked)
    /\ UNCHANGED <<profileVars, owned, rowVars, requests, lapses, faults>>

ReadPrevious(w) ==
    /\ job[w].step = "prev"
    /\ Go(w, [Step(w, "hold") EXCEPT !.prev = number[job[w].user]])
    /\ Tears({})
    /\ UNCHANGED <<profileVars, owned, rowVars, requests, lapses, faults>>

HoldNumber(w) ==
    /\ job[w].step = "hold"
    /\ ShowNumber(job[w].user, job[w].number)
    /\ Go(w, Step(w, "route"))
    /\ Tears({})
    /\ UNCHANGED <<status, grace, consumed, approved, owned, rowVars, requests, lapses, faults>>

\* The assistant is created and the number routed to it.
RouteNumber(w) ==
    /\ job[w].step = "route"
    /\ approved' = approved \cup {job[w].user}
    /\ Go(w, Step(w, "free"))
    /\ Tears({})
    /\ UNCHANGED <<number, status, grace, consumed, owned, rowVars, requests, lapses, faults>>

\* Vapi answers that another organisation has the number: the profile goes back
\* to its previous number, and a number just bought is left without a row.
RouteRefused(w) ==
    /\ job[w].step = "route"
    /\ approved' = approved \cup {job[w].user}
    /\ ShowNumber(job[w].user, job[w].prev)
    /\ Done(w)
    /\ Tears({job[w].number} \ tracked)
    /\ UNCHANGED <<status, grace, consumed, owned, rowVars, requests, lapses, faults>>

\* markNumberAssignedToUser: the customer's other numbers go to the pool, ...
FreeOthers(w) ==
    /\ job[w].step = "free"
    /\ Free(RowsOf(job[w].user) \ {job[w].number})
    /\ Go(w, Step(w, "take"))
    /\ Tears({})
    /\ UNCHANGED <<profileVars, owned, tracked, requests, lapses, faults>>

\* ... then this number's row is the customer's, whoever had it.
TakeRow(w) ==
    /\ job[w].step = "take"
    /\ tracked' = tracked \cup {job[w].number}
    /\ Give(job[w].number, job[w].user)
    /\ Done(w)
    /\ Tears({})
    /\ UNCHANGED <<profileVars, owned, requests, lapses, faults>>

--------------------------------------------------------------------------------
(* POST /agent-requests/:id/approve: the next number of the pool.          *)

Approve(w, u) ==
    /\ u \notin approved
    /\ Request(w, [Idle EXCEPT !.step = IF number[u] = NoNumber THEN "pick" ELSE "accept",
                             !.user = u, !.number = number[u]])
    /\ Tears({})
    /\ UNCHANGED <<profileVars, owned, rowVars, lapses, faults>>

PickAvailable(w) ==
    /\ job[w].step = "pick"
    /\ \/ \E n \in Available : Go(w, [Step(w, "seat") EXCEPT !.number = n, !.rows = {n}])
       \/ Available = {} /\ Go(w, Step(w, "accept"))
    /\ Tears({})
    /\ UNCHANGED <<profileVars, owned, rowVars, requests, lapses, faults>>

\* The row is updated by its id alone; one that is gone, or a number that does
\* not route, leaves the request approved without a number.
SeatCustomer(w) ==
    /\ job[w].step = "seat"
    /\ \/ /\ job[w].number \in job[w].rows
          /\ Give(job[w].number, job[w].user)
          /\ Go(w, Step(w, "accept"))
       \/ /\ Go(w, [Step(w, "accept") EXCEPT !.number = NoNumber])
          /\ UNCHANGED <<holder, back>>
    /\ Tears({})
    /\ UNCHANGED <<profileVars, owned, tracked, requests, lapses, faults>>

AcceptRequest(w) ==
    /\ job[w].step = "accept"
    /\ approved' = approved \cup {job[w].user}
    /\ IF job[w].number = NoNumber THEN Done(w) ELSE Go(w, Step(w, "post"))
    /\ Tears({})
    /\ UNCHANGED <<number, status, grace, consumed, owned, rowVars, requests, lapses, faults>>

PostNumber(w) ==
    /\ job[w].step = "post"
    /\ ShowNumber(job[w].user, job[w].number)
    /\ Done(w)
    /\ Tears({})
    /\ UNCHANGED <<status, grace, consumed, approved, owned, rowVars, requests, lapses, faults>>

--------------------------------------------------------------------------------
(* reassign: an admin routes a number to a customer, or releases it.       *)

Reassign(w, u, n) ==
    /\ n \in tracked
    /\ Request(w, [Idle EXCEPT !.step = IF u = NoUser THEN "clear" ELSE "others", !.user = u,
                             !.number = n, !.other = holder[n], !.rows = {n}])
    /\ Tears({})
    /\ UNCHANGED <<profileVars, owned, rowVars, lapses, faults>>

\* clearHolder: the profile lets go of the number if it still shows it.
LetsGo(w) ==
    number' = [u \in Users |->
                  IF u = job[w].other /\ number[u] = job[w].number THEN NoNumber ELSE number[u]]

ClearHolder(w) ==
    /\ job[w].step = "clear"
    /\ LetsGo(w)
    /\ Go(w, Step(w, "pool"))
    /\ Tears({})
    /\ UNCHANGED <<status, grace, consumed, approved, owned, rowVars, requests, lapses, faults>>

\* releasedToBrandPool; the update of a row that is gone throws.
PoolRow(w) ==
    /\ job[w].step = "pool"
    /\ Free(job[w].rows)
    /\ Done(w)
    /\ Tears({})
    /\ UNCHANGED <<profileVars, owned, tracked, requests, lapses, faults>>

\* The rows the new holder has, read before the number is routed.
ReadOthers(w) ==
    /\ job[w].step = "others"
    /\ Go(w, [Step(w, "swap") EXCEPT !.rows = @ \cup RowsOf(job[w].user)])
    /\ Tears({})
    /\ UNCHANGED <<profileVars, owned, rowVars, requests, lapses, faults>>

\* Mutant: the previous holder's profile is forgotten.
SwapRowsOnly(w) ==
    LET n == job[w].number
        others == job[w].rows \ {n}
    IN  /\ job[w].step = "swap"
        /\ n \in job[w].rows
        /\ holder' = [m \in Numbers |-> IF m = n THEN job[w].user
                                        ELSE IF m \in others THEN NoUser ELSE holder[m]]
        /\ back' = (back \cup others) \ {n}
        /\ Go(w, Step(w, "show"))
        /\ Tears({})
        /\ UNCHANGED <<profileVars, owned, tracked, requests, lapses, faults>>

\* One transaction over the rows that were read; it fails whole when the
\* number's row is gone, and is never reached when Vapi refuses the number.
SwapRows(w) ==
    LET n == job[w].number
        others == job[w].rows \ {n}
    IN  /\ job[w].step = "swap"
        /\ \/ /\ n \in job[w].rows
              /\ holder' = [m \in Numbers |-> IF m = n THEN job[w].user
                                              ELSE IF m \in others THEN NoUser ELSE holder[m]]
              /\ back' = (back \cup others) \ {n}
              /\ Go(w, Step(w, IF job[w].other \in {NoUser, job[w].user} THEN "show" ELSE "letgo"))
           \/ Done(w) /\ UNCHANGED <<holder, back>>
        /\ Tears({})
        /\ UNCHANGED <<profileVars, owned, tracked, requests, lapses, faults>>

OldHolderLetsGo(w) ==
    /\ job[w].step = "letgo"
    /\ LetsGo(w)
    /\ Go(w, Step(w, "show"))
    /\ Tears({})
    /\ UNCHANGED <<status, grace, consumed, approved, owned, rowVars, requests, lapses, faults>>

ShowAssigned(w) ==
    /\ job[w].step = "show"
    /\ ShowNumber(job[w].user, job[w].number)
    /\ Done(w)
    /\ Tears({})
    /\ UNCHANGED <<status, grace, consumed, approved, owned, rowVars, requests, lapses, faults>>

--------------------------------------------------------------------------------
(* Paying, and the ends of plans and windows.                              *)

\* The profile is activated, and a sweep past its entitlement read is late.
Pay(w, u) ==
    /\ status[u] # "active"
    /\ status' = [status EXCEPT ![u] = "active"]
    /\ job[w].step = "idle"
    /\ requests < MaxRequests /\ requests' = requests + 1
    /\ job' = [v \in Handlers |->
                  IF v = w THEN [Idle EXCEPT !.step = "apply", !.user = u]
                  ELSE IF job[v].user = u /\ job[v].step \in ReleaseSteps
                  THEN [job[v] EXCEPT !.late = TRUE] ELSE job[v]]
    /\ Tears({})
    /\ UNCHANGED <<number, grace, consumed, approved, owned, rowVars, lapses, faults>>

\* applyActivePlanMinutes lifts the reservation.
ApplyPlan(w) ==
    /\ job[w].step = "apply"
    /\ grace' = [grace EXCEPT ![job[w].user] = "none"]
    /\ Done(w)
    /\ Tears({})
    /\ UNCHANGED <<number, status, consumed, approved, owned, rowVars, requests, lapses, faults>>

\* A sweep reads the clock once, and takes far less than a period; a window
\* lasts days, and no handler works that long.
NotSwept(u) ==
    \A w \in Handlers : job[w].user = u => job[w].step \notin SweepSteps

Quiet(u) ==
    \A w \in Handlers :
        \/ job[w].step \in {"idle", "entitle"}
        \/ job[w].step \in SweepSteps /\ job[w].user # u

\* A trial ends, or a plan that does not renew.
Lapse(u) ==
    /\ lapses < MaxLapses
    /\ status[u] = "active"
    /\ NotSwept(u)
    /\ status' = [status EXCEPT ![u] = "lapsed"]
    /\ lapses' = lapses + 1
    /\ UNCHANGED <<number, grace, consumed, approved, owned, rowVars, job, torn, requests, faults>>

GraceEnds(u) ==
    /\ grace[u] = "open"
    /\ Quiet(u)
    /\ grace' = [grace EXCEPT ![u] = "over"]
    /\ UNCHANGED <<number, status, consumed, approved, owned, rowVars, job, torn, requests, lapses, faults>>

--------------------------------------------------------------------------------
(* The grace sweep.                                                        *)

\* Mutant: only customers who show a number and have no window are listed.
ListUnreserved(w, u) ==
    /\ \A v \in Handlers : job[v].step \notin SweepSteps
    /\ u \notin consumed
    /\ grace[u] = "none" /\ number[u] # NoNumber
    /\ Start(w, [Idle EXCEPT !.step = "entitle", !.user = u, !.window = grace[u],
                             !.lapsed = status[u] = "lapsed"])
    /\ Tears({})
    /\ UNCHANGED <<profileVars, owned, rowVars, requests, lapses, faults>>

\* sweepGraceIn takes its candidates one after the other, each modelled as a
\* sweep of its own, and ticks an hour apart.
ListCandidate(w, u) ==
    /\ \A v \in Handlers : job[v].step \notin SweepSteps
    /\ u \notin consumed
    /\ grace[u] # "none" \/ number[u] # NoNumber
    /\ Start(w, [Idle EXCEPT !.step = "entitle", !.user = u, !.window = grace[u],
                             !.lapsed = status[u] = "lapsed"])
    /\ Tears({})
    /\ UNCHANGED <<profileVars, owned, rowVars, requests, lapses, faults>>

\* Mutant: the entitlement is taken from the listing.
DecideAsListed(w) ==
    LET blocked == job[w].lapsed
        window == job[w].window
    IN  /\ job[w].step = "entitle"
        /\ \/ blocked /\ window = "over" /\ Go(w, Step(w, "rows"))
           \/ blocked /\ window = "none" /\ Go(w, Step(w, "open"))
           \/ ~blocked /\ Done(w)
        /\ Tears({})
        /\ UNCHANGED <<profileVars, owned, rowVars, requests, lapses, faults>>

\* decideGraceAction, on the customer as listed and the entitlement read now.
Decide(w) ==
    LET blocked == status[job[w].user] # "active"
        window == job[w].window
    IN  /\ job[w].step = "entitle"
        /\ \/ ~blocked /\ window # "none" /\ Go(w, Step(w, "lift"))
           \/ blocked /\ window = "none" /\ job[w].lapsed /\ Go(w, Step(w, "open"))
           \/ blocked /\ window = "over" /\ Go(w, Step(w, "rows"))
           \/ /\ IF blocked THEN window = "open" \/ (window = "none" /\ ~job[w].lapsed)
                            ELSE window = "none"
              /\ Done(w)
        /\ Tears({})
        /\ UNCHANGED <<profileVars, owned, rowVars, requests, lapses, faults>>

WriteWindow(w) ==
    /\ job[w].step \in {"lift", "open"}
    /\ grace' = [grace EXCEPT ![job[w].user] = IF job[w].step = "open" THEN "open" ELSE "none"]
    /\ Done(w)
    /\ Tears({})
    /\ UNCHANGED <<number, status, consumed, approved, owned, rowVars, requests, lapses, faults>>

\* releaseNumberPermanently reads the customer's rows, ...
ReadRows(w) ==
    /\ job[w].step = "rows"
    /\ Go(w, [Step(w, "hand") EXCEPT !.rows = RowsOf(job[w].user)])
    /\ Tears({})
    /\ UNCHANGED <<profileVars, owned, rowVars, requests, lapses, faults>>

\* ... gives each number back to Twilio, which may no longer have it, ...
HandBack(w, n) ==
    /\ job[w].step = "hand"
    /\ n \in job[w].rows
    /\ owned' = owned \ {n}
    /\ Go(w, [Step(w, "strike") EXCEPT !.number = n])
    /\ Tears({})
    /\ UNCHANGED <<profileVars, rowVars, requests, lapses, faults>>

\* Mutant: the row is deleted all the same.
RefusedIsStruck(w, n) ==
    /\ Fault
    /\ job[w].step = "hand"
    /\ n \in job[w].rows
    /\ Go(w, [Step(w, "strike") EXCEPT !.number = n])
    /\ Tears({job[w].user})
    /\ UNCHANGED <<profileVars, owned, rowVars, requests, lapses>>

\* ... keeps the row when Twilio fails, ...
HandBackRefused(w, n) ==
    /\ Fault
    /\ job[w].step = "hand"
    /\ n \in job[w].rows
    /\ Go(w, [job[w] EXCEPT !.rows = @ \ {n}])
    /\ Tears({job[w].user})
    /\ UNCHANGED <<profileVars, owned, rowVars, requests, lapses>>

\* ... and deletes it otherwise.
StrikeRow(w) ==
    LET n == job[w].number
    IN  /\ job[w].step = "strike"
        /\ n \in job[w].rows
        /\ Delete({n})
        /\ job' = [Forget(job, {n}) EXCEPT
                      ![w] = [Step(w, "hand") EXCEPT !.number = NoNumber, !.rows = @ \ {n}]]
        /\ Tears({})
        /\ UNCHANGED <<profileVars, owned, requests, lapses, faults>>

\* A row that is gone (its sid too) makes the delete throw, which ends the sweep
\* with the customer half done.
RowIsGone(w) ==
    /\ \/ job[w].step = "hand" /\ job[w].dead # {}
       \/ job[w].step = "strike" /\ job[w].number \notin job[w].rows
    /\ Done(w)
    /\ Tears({job[w].user})
    /\ UNCHANGED <<profileVars, owned, rowVars, requests, lapses, faults>>

HandedBack(w) ==
    /\ job[w].step = "hand"
    /\ job[w].rows = {} /\ job[w].dead = {}
    /\ Go(w, Step(w, "blank"))
    /\ Tears({})
    /\ UNCHANGED <<profileVars, owned, rowVars, requests, lapses, faults>>

BlankProfile(w) ==
    /\ job[w].step = "blank"
    /\ ShowNumber(job[w].user, NoNumber)
    /\ Go(w, Step(w, "close"))
    /\ Tears({})
    /\ UNCHANGED <<status, grace, consumed, approved, owned, rowVars, requests, lapses, faults>>

\* The customer is suspended, and never swept again.
CloseGrace(w) ==
    /\ job[w].step = "close"
    /\ consumed' = consumed \cup {job[w].user}
    /\ grace' = [grace EXCEPT ![job[w].user] = "none"]
    /\ status' = [status EXCEPT ![job[w].user] = "suspended"]
    /\ Done(w)
    /\ Tears({})
    /\ UNCHANGED <<number, approved, owned, rowVars, requests, lapses, faults>>

--------------------------------------------------------------------------------
(* The pool: replenishPool and cleanupOrphaned.                            *)

\* Mutant: the flag is not checked.
ReplenishAnyway(w) ==
    /\ Cardinality(Available) < Target
    /\ Request(w, [Idle EXCEPT !.step = "list", !.need = Target - Cardinality(Available)])
    /\ Tears({})
    /\ UNCHANGED <<profileVars, owned, rowVars, lapses, faults>>

\* One run per process (the flag replenishing); the deficit is counted once.
Replenish(w) ==
    /\ \A v \in Handlers : job[v].step \notin PoolSteps
    /\ Cardinality(Available) < Target
    /\ Request(w, [Idle EXCEPT !.step = "list", !.need = Target - Cardinality(Available)])
    /\ Tears({})
    /\ UNCHANGED <<profileVars, owned, rowVars, lapses, faults>>

ListUntracked(w) ==
    /\ job[w].step = "list"
    /\ Go(w, [Step(w, "import") EXCEPT !.seen = owned \ tracked])
    /\ Tears({})
    /\ UNCHANGED <<profileVars, owned, rowVars, requests, lapses, faults>>

\* A number whose row was created meanwhile is skipped (the unique number).
ImportNumber(w, n) ==
    LET fresh == n \notin tracked
    IN  /\ job[w].step = "import"
        /\ job[w].need > 0
        /\ n \in job[w].seen
        /\ tracked' = tracked \cup {n}
        /\ Go(w, [job[w] EXCEPT !.seen = @ \ {n}, !.need = IF fresh THEN @ - 1 ELSE @])
        /\ Tears({})
        /\ UNCHANGED <<profileVars, owned, holder, back, requests, lapses, faults>>

Imported(w) ==
    /\ job[w].step = "import"
    /\ job[w].need = 0 \/ job[w].seen = {}
    /\ Go(w, [Step(w, "find") EXCEPT !.seen = {}])
    /\ Tears({})
    /\ UNCHANGED <<profileVars, owned, rowVars, requests, lapses, faults>>

\* A number on sale without a row.
FindNumber(w, n) ==
    /\ job[w].step = "find"
    /\ job[w].need > 0
    /\ n \notin owned \cup tracked
    /\ Go(w, [Step(w, "purchase") EXCEPT !.number = n])
    /\ Tears({})
    /\ UNCHANGED <<profileVars, owned, rowVars, requests, lapses, faults>>

\* Nothing is needed, or on sale.
Replenished(w) ==
    /\ job[w].step = "find"
    /\ Done(w)
    /\ Tears({})
    /\ UNCHANGED <<profileVars, owned, rowVars, requests, lapses, faults>>

PurchaseForPool(w) ==
    /\ job[w].step = "purchase"
    /\ IF job[w].number \in owned
       THEN Go(w, [Step(w, "find") EXCEPT !.number = NoNumber]) /\ UNCHANGED owned
       ELSE Go(w, Step(w, "record")) /\ owned' = owned \cup {job[w].number}
    /\ Tears({job[w].number} \cap (tracked \ owned))
    /\ UNCHANGED <<profileVars, rowVars, requests, lapses, faults>>

RecordPurchase(w) ==
    LET n == job[w].number
    IN  /\ job[w].step = "record"
        /\ tracked' = tracked \cup {n}
        /\ Go(w, [Step(w, "find") EXCEPT !.number = NoNumber,
                                         !.need = IF n \in tracked THEN @ ELSE @ - 1])
        /\ Tears({})
        /\ UNCHANGED <<profileVars, owned, holder, back, requests, lapses, faults>>

\* A row that cannot be written leaves the number without one; the run goes on to
\* the next candidate, and needs as many as before.
RecordFails(w) ==
    /\ Fault
    /\ job[w].step = "record"
    /\ Go(w, [Step(w, "find") EXCEPT !.number = NoNumber])
    /\ Tears({job[w].number} \ tracked)
    /\ UNCHANGED <<profileVars, owned, rowVars, requests, lapses>>

CleanupOrphans(w) ==
    /\ Request(w, [Idle EXCEPT !.step = "orphans", !.seen = owned])
    /\ Tears({})
    /\ UNCHANGED <<profileVars, owned, rowVars, lapses, faults>>

\* The rows Twilio did not list, those of numbers bought since included.
DeleteOrphans(w) ==
    LET orphans == tracked \ job[w].seen
    IN  /\ job[w].step = "orphans"
        /\ Delete(orphans)
        /\ job' = [Forget(job, orphans) EXCEPT ![w] = Idle]
        /\ Tears({})
        /\ UNCHANGED <<profileVars, owned, requests, lapses, faults>>

--------------------------------------------------------------------------------
(* Faults.                                                                 *)

\* A handler dies, or one of its writes throws.
Crash(w) ==
    /\ Fault
    /\ job[w].step # "idle"
    /\ Done(w)
    /\ Tears(Touches(job[w]))
    /\ UNCHANGED <<profileVars, owned, rowVars, requests, lapses>>

\* clearHolder and the sweep go on when the profile's write fails.
ProfileWriteFails(w) ==
    /\ Fault
    /\ job[w].step \in {"clear", "letgo", "blank"}
    /\ Go(w, Step(w, CASE job[w].step = "clear" -> "pool"
                       [] job[w].step = "letgo" -> "show"
                       [] OTHER -> "close"))
    /\ Tears(Touches(job[w]))
    /\ UNCHANGED <<profileVars, owned, rowVars, requests, lapses>>

--------------------------------------------------------------------------------
Requests(w) ==
    \/ \E u \in Users : Approve(w, u) \/ Pay(w, u)
    \/ \E u \in Users, n \in Numbers : Claim(w, u, n) \/ Buy(w, u, n)
    \/ \E u \in Users \cup {NoUser}, n \in Numbers : Reassign(w, u, n)
    \/ Replenish(w) \/ CleanupOrphans(w)

Sweep(u) == \E w \in Handlers : ListCandidate(w, u)

Work(w) ==
    \/ BuyNumber(w) \/ ChargeDeclined(w) \/ ReadPrevious(w) \/ HoldNumber(w)
    \/ RouteNumber(w) \/ RouteRefused(w) \/ FreeOthers(w) \/ TakeRow(w)
    \/ PickAvailable(w) \/ SeatCustomer(w) \/ AcceptRequest(w) \/ PostNumber(w)
    \/ ClearHolder(w) \/ PoolRow(w) \/ ReadOthers(w) \/ SwapRows(w) \/ OldHolderLetsGo(w)
    \/ ShowAssigned(w)
    \/ ApplyPlan(w)
    \/ Decide(w) \/ WriteWindow(w) \/ ReadRows(w) \/ StrikeRow(w) \/ RowIsGone(w)
    \/ HandedBack(w) \/ BlankProfile(w) \/ CloseGrace(w)
    \/ ListUntracked(w) \/ Imported(w) \/ Replenished(w) \/ PurchaseForPool(w)
    \/ RecordPurchase(w) \/ DeleteOrphans(w)
    \/ \E n \in Numbers : HandBack(w, n) \/ ImportNumber(w, n) \/ FindNumber(w, n)

Faults(w) ==
    \/ Crash(w) \/ ProfileWriteFails(w) \/ RecordFails(w)
    \/ \E n \in Numbers : HandBackRefused(w, n)

Next ==
    \/ \E w \in Handlers : Requests(w) \/ Work(w) \/ Faults(w)
    \/ \E u \in Users : Sweep(u) \/ Lapse(u) \/ GraceEnds(u)

Spec == Init /\ [][Next]_vars

\* A handler that has begun goes on, and time passes.  The sweep comes to each
\* candidate in turn and is not queued behind requests: strong fairness keeps
\* the bound on Handlers, and the sweeps of others, from starving one.
Fairness ==
    /\ \A w \in Handlers : WF_vars(Work(w))
    /\ \A u \in Users : SF_vars(Sweep(u)) /\ WF_vars(GraceEnds(u))

FairSpec == Spec /\ Fairness

--------------------------------------------------------------------------------
(* Properties.                                                             *)

Jobs == [step : Steps, user : Users \cup {NoUser}, number : Numbers \cup {NoNumber},
         prev : Numbers \cup {NoNumber}, other : Users \cup {NoUser}, rows : SUBSET Numbers,
         dead : SUBSET Numbers, seen : SUBSET Numbers, need : Nat,
         window : {"none", "open", "over"}, lapsed : BOOLEAN, late : BOOLEAN]

\* Every profile, row and handler keeps its shape, and a number without a row
\* has no holder.
TypeOK ==
    /\ number \in [Users -> Numbers \cup {NoNumber}]
    /\ status \in [Users -> {"active", "lapsed", "suspended"}]
    /\ grace \in [Users -> {"none", "open", "over"}]
    /\ consumed \subseteq Users
    /\ approved \subseteq Users
    /\ owned \subseteq Numbers
    /\ tracked \subseteq Numbers
    /\ holder \in [Numbers -> Users \cup {NoUser}]
    /\ \A n \in Numbers \ tracked : holder[n] = NoUser
    /\ back \subseteq tracked
    /\ job \in [Handlers -> Jobs]
    /\ torn \subseteq Users \cup Numbers
    /\ requests \in 0..MaxRequests
    /\ lapses \in 0..MaxLapses
    /\ faults \in 0..MaxFaults

\* A sweep takes neither number nor access from a customer who is entitled, unless
\* they paid after it had read the entitlement (late); and it gives back only
\* numbers of the customer it swept, as long as nobody else is at that number or
\* that customer while it works: claims and assignments that do cross it are in
\* torn, and its rows may then be another's.
NumberIsReserved ==
    \A w \in Handlers : job[w].step \in ReleaseSteps =>
        /\ status[job[w].user] # "active" \/ job[w].late
        /\ \A n \in job[w].rows : holder[n] = job[w].user \/ {n, job[w].user} \cap torn # {}

Recording(w, n) ==
    job[w].number = n /\ job[w].step \in {"prev", "hold", "route", "free", "take", "record"}

\* A number the account pays for has a row, or is about to get it (phones.ts "so
\* a number we still pay for stays on the books").  Left out, in torn: numbers that
\* two handlers were at, and purchases cut off before the row was written.
OnTheBooks ==
    \A n \in owned \ tracked : n \in torn \/ \E w \in Handlers : Recording(w, n)

Busy == UNION {Touches(job[w]) : w \in Handlers}

\* Between operations the inventory and the profiles name the same holder
\* (schema.prisma "who holds it is recorded here"), unless a race, a death or
\* a failed write came between their two databases.
Agreement ==
    \A u \in Users, n \in Numbers :
        {u, n} \cap (torn \cup Busy) = {} =>
            (number[u] = n <=> n \in tracked /\ holder[n] = u)

Needed(w) == IF job[w].step \in PoolSteps THEN job[w].need ELSE 0

\* The pool buys no more than its target: what it bought and nobody has used,
\* with what is still to be bought.
PoolWithinTarget ==
    \A w \in Handlers : Cardinality(Available \ back) + Needed(w) <= Target

Held(u, n) == number[u] = n /\ n \in tracked /\ holder[n] = u /\ n \in owned

\* A lapsed customer does not keep a number for ever: they pay, lose it, or it
\* moves on, whatever sweep died over it (scheduler.ts "reserve-then-release").
ReservationEnds ==
    \A u \in Users :
        []<>~(status[u] = "lapsed" /\ u \notin consumed /\ \E n \in Numbers : Held(u, n))
================================================================================
