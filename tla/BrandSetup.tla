------------------------------- MODULE BrandSetup -------------------------------
(***************************************************************************)
(* How one main-domain customer becomes a Brand Admin, and a customer      *)
(* again: the request is filed, claimed by a super admin, set up on the    *)
(* customer's own row, perhaps kept waiting for a domain of its own, and   *)
(* declined or taken back along the way.                                   *)
(*                                                                         *)
(* services/brandRequests.ts, services/brandLifecycle.ts, updateBrand      *)
(* (services/brands.ts), verifyBrandDomain and sweepPendingDomains         *)
(* (services/brandDomains.ts), with the routes that call them              *)
(* (routes/brandRequests.routes.ts, routes/brands.routes.ts).              *)
(*                                                                         *)
(* Every database call, DNS lookup and call to the tenant's database is a  *)
(* step of its own.  A token stands for a domain claim and its ownership   *)
(* nonce: it is published when the domain's records have landed and the    *)
(* edge serves it.                                                         *)
(***************************************************************************)
EXTENDS Integers, FiniteSets

CONSTANTS
    Requests,       \* requests the customer may file, each once
    Handlers,       \* handlers at work at the same time
    Domains,        \* domains of the customer's own
    NoDomain,       \* the platform's subdomain only
    NoRequest,      \* a handler without a request
    MaxClaims,      \* bound on domain claims
    MaxFaults       \* bound on failed calls and dead handlers

SetupAssumption ==
    /\ NoDomain \notin Domains
    /\ NoRequest \notin Requests
    /\ MaxClaims \in Nat
    /\ MaxFaults \in Nat

ASSUME SetupAssumption

VARIABLES
    row,            \* the account's brand row: kind, domain, token, domain status
    role,           \* the owner's role in the tenant's database
    request,        \* status of every request, "none" before it is filed
    stale,          \* requests whose last update is older than the limit
    published,      \* tokens whose domain is proven, routed and served
    claims,         \* tokens given out so far
    job,            \* what each handler is doing
    promotions,     \* history: times the row became a brand
    downgrades,     \* history: times it became a customer again
    promotedFor,    \* history: the request it last became a brand for
    takenOver,      \* history: requests whose stale claim was taken over
    overtaken,      \* history: a domain verdict was written over another claim
    faults          \* faults so far

historyVars == <<promotions, downgrades, promotedFor, takenOver, overtaken>>
vars == <<row, role, request, stale, published, claims, job, historyVars, faults>>

--------------------------------------------------------------------------------
Open == {"pending", "approving", "awaiting"}

Closed == {"approved", "declined"}

Statuses == {"none"} \cup Open \cup Closed

Doors == Domains \cup {NoDomain}

Steps == {"idle", "create", "applicant", "setupRead", "setupWrite", "await", "release", "flip",
          "role", "findOpen", "approve", "existing", "decline", "cancelRead", "cancelWrite",
          "lookup", "verdict", "live", "waiting", "downFlip", "downRole"}

\* kind: what the handler does.  request, door: whom and what it sets up.
\* before: the request's status, as the decline route read it.  known: the
\* row's domain, as updateBrand read it.  token, customer, ok: the claim and
\* the row's kind as the domain check read them, and its verdict.
Idle == [step |-> "idle", kind |-> "none", request |-> NoRequest, door |-> NoDomain,
         before |-> "none", known |-> NoDomain, token |-> 0, customer |-> FALSE, ok |-> FALSE]

At(w, step) == job[w].step = step

Become(w, r) == job' = [job EXCEPT ![w] = r]

Goto(w, step) == Become(w, [job[w] EXCEPT !.step = step])

Done(w) == Become(w, Idle)

\* A request's row is written: its updatedAt is now.
Mark(r, status) ==
    /\ request' = [request EXCEPT ![r] = status]
    /\ stale' = stale \ {r}

Init ==
    /\ row = [kind |-> "customer", domain |-> NoDomain, token |-> 0, check |-> "none"]
    /\ role = "USER"
    /\ request = [r \in Requests |-> "none"]
    /\ stale = {}
    /\ published = {}
    /\ claims = 0
    /\ job = [w \in Handlers |-> Idle]
    /\ promotions = 0
    /\ downgrades = 0
    /\ promotedFor = NoRequest
    /\ takenOver = {}
    /\ overtaken = FALSE
    /\ faults = 0

--------------------------------------------------------------------------------
(* The customer files a request.                                           *)

\* Only a customer's own row may ask, and only with no request open.
File(w, r) ==
    /\ At(w, "idle")
    /\ row.kind = "customer"
    /\ \A q \in Requests : request[q] \notin Open
    /\ request[r] = "none"
    /\ \A v \in Handlers : job[v].kind = "file" => job[v].request # r
    /\ Become(w, [Idle EXCEPT !.step = "create", !.kind = "file", !.request = r])
    /\ UNCHANGED <<row, role, request, stale, published, claims, historyVars, faults>>

Create(w) ==
    /\ At(w, "create")
    /\ Mark(job[w].request, "pending")
    /\ Done(w)
    /\ UNCHANGED <<row, role, published, claims, historyVars, faults>>

--------------------------------------------------------------------------------
(* A super admin completes the setup.                                      *)

\* Mutant: whoever holds the claim, another admin takes it.
ClaimableAnyway(r) == request[r] \in {"pending", "approving"}

Claimable(r) == request[r] = "pending" \/ (request[r] = "approving" /\ r \in stale)

\* claimBrandRequest: one updateMany decides who sets the request up.
Claim(w, r, d) ==
    /\ At(w, "idle")
    /\ Claimable(r)
    /\ Mark(r, "approving")
    /\ takenOver' = IF r \in stale THEN takenOver \cup {r} ELSE takenOver
    /\ Become(w, [Idle EXCEPT !.step = "applicant", !.kind = "approve",
                              !.request = r, !.door = d])
    /\ UNCHANGED <<row, role, published, claims, promotions, downgrades, promotedFor,
                   overtaken, faults>>

\* approveAdminRequest: the applicant's row is still a customer's.
Applicant(w) ==
    /\ At(w, "applicant")
    /\ Goto(w, IF row.kind = "customer" THEN "setupRead" ELSE "release")
    /\ UNCHANGED <<row, role, request, stale, published, claims, historyVars, faults>>

\* The domain route gives a row without a domain its one domain.
ClaimDomain(w, d) ==
    /\ At(w, "idle")
    /\ row.domain = NoDomain
    /\ claims < MaxClaims
    /\ Become(w, [Idle EXCEPT !.step = "setupRead", !.kind = "domain", !.door = d])
    /\ UNCHANGED <<row, role, request, stale, published, claims, historyVars, faults>>

SetupRead(w) ==
    /\ At(w, "setupRead")
    /\ Become(w, [job[w] EXCEPT !.step = "setupWrite", !.known = row.domain])
    /\ UNCHANGED <<row, role, request, stale, published, claims, historyVars, faults>>

\* Mutant: a changed domain keeps the verdict of the one before it.
ClaimedKeepsCheck(d) ==
    [row EXCEPT !.domain = d,
                !.token = IF d = NoDomain THEN 0 ELSE claims + 1,
                !.check = IF d = NoDomain THEN "none" ELSE IF @ = "none" THEN "pending" ELSE @]

\* A changed domain has proven nothing yet.
Claimed(d) ==
    [row EXCEPT !.domain = d,
                !.token = IF d = NoDomain THEN 0 ELSE claims + 1,
                !.check = IF d = NoDomain THEN "none" ELSE "pending"]

\* Where approveAdminRequest goes with the row updateBrand returned.
AfterSetup(w) ==
    IF job[w].kind = "approve"
    THEN Goto(w, IF row'.domain # NoDomain /\ row'.check # "verified" THEN "await" ELSE "flip")
    ELSE Done(w)

SetupWrite(w) ==
    /\ At(w, "setupWrite")
    /\ LET d == job[w].door
       IN  IF d = job[w].known
           THEN row' = [row EXCEPT !.domain = d] /\ claims' = claims
           ELSE /\ d = NoDomain \/ claims < MaxClaims
                /\ claims' = IF d = NoDomain THEN claims ELSE claims + 1
                /\ row' = Claimed(d)
    /\ AfterSetup(w)
    /\ UNCHANGED <<role, request, stale, published, historyVars, faults>>

\* updateBrand refuses the setup: a taken subdomain or domain, a bad colour.
Refuse(w) ==
    /\ At(w, "setupWrite")
    /\ IF job[w].kind = "approve" THEN Goto(w, "release") ELSE Done(w)
    /\ UNCHANGED <<row, role, request, stale, published, claims, historyVars, faults>>

\* Mutant: the status is a plain string, and is misspelt.
AwaitMisspelt(w) ==
    /\ At(w, "await")
    /\ Mark(job[w].request, "awaiting_dns")
    /\ Done(w)
    /\ UNCHANGED <<row, role, published, claims, historyVars, faults>>

Await(w) ==
    /\ At(w, "await")
    /\ Mark(job[w].request, "awaiting")
    /\ Done(w)
    /\ UNCHANGED <<row, role, published, claims, historyVars, faults>>

Release(w) ==
    /\ At(w, "release")
    /\ IF request[job[w].request] = "approving"
       THEN Mark(job[w].request, "pending")
       ELSE UNCHANGED <<request, stale>>
    /\ Done(w)
    /\ UNCHANGED <<row, role, published, claims, historyVars, faults>>

--------------------------------------------------------------------------------
(* promoteToBrand.                                                         *)

\* Mutant: the row is promoted by id, whatever it is by now.
FlipAgain(w) ==
    /\ At(w, "flip")
    /\ row' = [row EXCEPT !.kind = "brand"]
    /\ promotions' = promotions + 1
    /\ promotedFor' = job[w].request
    /\ Goto(w, "role")
    /\ UNCHANGED <<role, request, stale, published, claims, downgrades, takenOver, overtaken,
                   faults>>

\* Only one caller's updateMany finds a customer; the others do nothing.
Flip(w) ==
    /\ At(w, "flip")
    /\ IF row.kind = "customer"
       THEN /\ row' = [row EXCEPT !.kind = "brand"]
            /\ promotions' = promotions + 1
            /\ promotedFor' = job[w].request
            /\ Goto(w, "role")
       ELSE /\ Done(w)
            /\ UNCHANGED <<row, promotions, promotedFor>>
    /\ UNCHANGED <<role, request, stale, published, claims, downgrades, takenOver, overtaken,
                   faults>>

BecomeAdmin(w) ==
    /\ At(w, "role")
    /\ role' = "ADMIN"
    /\ Goto(w, "findOpen")
    /\ UNCHANGED <<row, request, stale, published, claims, historyVars, faults>>

\* Mutant: only a request that waited for its domain is looked for.
FindAwaiting(w) ==
    /\ At(w, "findOpen")
    /\ IF request[job[w].request] = "awaiting" THEN Goto(w, "approve") ELSE Done(w)
    /\ UNCHANGED <<row, role, request, stale, published, claims, historyVars, faults>>

FindOpen(w) ==
    /\ At(w, "findOpen")
    /\ IF request[job[w].request] \in Open THEN Goto(w, "approve") ELSE Done(w)
    /\ UNCHANGED <<row, role, request, stale, published, claims, historyVars, faults>>

Approve(w) ==
    /\ At(w, "approve")
    /\ Mark(job[w].request, "approved")
    /\ Done(w)
    /\ UNCHANGED <<row, role, published, claims, historyVars, faults>>

--------------------------------------------------------------------------------
(* A super admin declines.                                                 *)

Decline(w, r) ==
    /\ At(w, "idle")
    /\ request[r] # "none"
    /\ Become(w, [Idle EXCEPT !.step = "existing", !.kind = "decline", !.request = r,
                              !.before = request[r]])
    /\ UNCHANGED <<row, role, request, stale, published, claims, historyVars, faults>>

\* closedReason: settled, or being set up by a claim that is still fresh.
ClosedReason(r) == request[r] \in Closed \/ (request[r] = "approving" /\ r \notin stale)

Existing(w) ==
    /\ At(w, "existing")
    /\ IF ClosedReason(job[w].request) THEN Done(w) ELSE Goto(w, "decline")
    /\ UNCHANGED <<row, role, request, stale, published, claims, historyVars, faults>>

\* The update is by id: whatever the request is by now.
DeclineWrite(w) ==
    /\ At(w, "decline")
    /\ Mark(job[w].request, "declined")
    /\ IF job[w].before = "awaiting" THEN Goto(w, "cancelRead") ELSE Done(w)
    /\ UNCHANGED <<row, role, published, claims, historyVars, faults>>

CancelRead(w) ==
    /\ At(w, "cancelRead")
    /\ IF row.kind = "customer" THEN Goto(w, "cancelWrite") ELSE Done(w)
    /\ UNCHANGED <<row, role, request, stale, published, claims, historyVars, faults>>

NoClaim(kind) == [kind |-> kind, domain |-> NoDomain, token |-> 0, check |-> "none"]

CancelWrite(w) ==
    /\ At(w, "cancelWrite")
    /\ row' = NoClaim(row.kind)
    /\ Done(w)
    /\ UNCHANGED <<role, request, stale, published, claims, historyVars, faults>>

--------------------------------------------------------------------------------
(* Domain checks: the sweep over pending domains, and Check now.           *)

Snapshot(w) ==
    Become(w, [Idle EXCEPT !.step = "lookup", !.kind = "check", !.token = row.token,
                           !.customer = row.kind = "customer"])

SweepDomain(w) ==
    /\ At(w, "idle")
    /\ row.domain # NoDomain /\ row.check = "pending"
    /\ Snapshot(w)
    /\ UNCHANGED <<row, role, request, stale, published, claims, historyVars, faults>>

CheckNow(w) ==
    /\ At(w, "idle")
    /\ row.domain # NoDomain
    /\ Snapshot(w)
    /\ UNCHANGED <<row, role, request, stale, published, claims, historyVars, faults>>

Lookup(w) ==
    /\ At(w, "lookup")
    /\ Become(w, [job[w] EXCEPT !.step = "verdict", !.ok = job[w].token \in published])
    /\ UNCHANGED <<row, role, request, stale, published, claims, historyVars, faults>>

\* The verdict is written by id, over whatever claim the row has by now.
Verdict(w) ==
    /\ At(w, "verdict")
    /\ row' = [row EXCEPT !.check = IF job[w].ok THEN "verified" ELSE "pending"]
    /\ overtaken' = (overtaken \/ job[w].token # row.token)
    /\ IF job[w].ok /\ job[w].customer THEN Goto(w, "live") ELSE Done(w)
    /\ UNCHANGED <<role, request, stale, published, claims, promotions, downgrades, promotedFor,
                   takenOver, faults>>

\* promoteIfDomainLive.
LiveDomain(w) ==
    /\ At(w, "live")
    /\ IF row.kind = "customer" /\ row.check = "verified" THEN Goto(w, "waiting") ELSE Done(w)
    /\ UNCHANGED <<row, role, request, stale, published, claims, historyVars, faults>>

\* Mutant: the verdict is kept, the request goes on waiting.
WaitingLeft(w) ==
    /\ At(w, "waiting")
    /\ Done(w)
    /\ UNCHANGED <<row, role, request, stale, published, claims, historyVars, faults>>

Waiting(w) ==
    /\ At(w, "waiting")
    /\ \/ \E r \in Requests :
             /\ request[r] = "awaiting"
             /\ Become(w, [job[w] EXCEPT !.step = "flip", !.request = r])
       \/ (\A r \in Requests : request[r] # "awaiting") /\ Done(w)
    /\ UNCHANGED <<row, role, request, stale, published, claims, historyVars, faults>>

--------------------------------------------------------------------------------
(* downgradeToCustomer: the super admin's button and the eligibility pass. *)

Downgrade(w) ==
    /\ At(w, "idle")
    /\ row.kind = "brand"
    /\ Become(w, [Idle EXCEPT !.step = "downFlip", !.kind = "downgrade"])
    /\ UNCHANGED <<row, role, request, stale, published, claims, historyVars, faults>>

DownFlip(w) ==
    /\ At(w, "downFlip")
    /\ IF row.kind = "brand"
       THEN /\ row' = NoClaim("customer")
            /\ downgrades' = downgrades + 1
            /\ Goto(w, "downRole")
       ELSE /\ Done(w)
            /\ UNCHANGED <<row, downgrades>>
    /\ UNCHANGED <<role, request, stale, published, claims, promotions, promotedFor, takenOver,
                   overtaken, faults>>

BecomeUser(w) ==
    /\ At(w, "downRole")
    /\ role' = "USER"
    /\ Done(w)
    /\ UNCHANGED <<row, request, stale, published, claims, historyVars, faults>>

--------------------------------------------------------------------------------
(* The world: records land, claims age, calls fail, servers die.           *)

Publish ==
    /\ row.token \in 1..claims
    /\ row.token \notin published
    /\ published' = published \cup {row.token}
    /\ UNCHANGED <<row, role, request, stale, claims, job, historyVars, faults>>

ClaimAges(r) ==
    /\ request[r] = "approving"
    /\ r \notin stale
    /\ stale' = stale \cup {r}
    /\ UNCHANGED <<row, role, request, published, claims, job, historyVars, faults>>

\* Where a call that fails leaves its handler: a failed setup hands its claim
\* back, an edge that cannot be asked is not ready, the rest returns.
AfterError(w) ==
    IF job[w].kind = "approve" /\ ~At(w, "release")
    THEN Goto(w, "release")
    ELSE IF At(w, "lookup")
         THEN Become(w, [job[w] EXCEPT !.step = "verdict", !.ok = FALSE])
         ELSE Done(w)

CallFails(w) ==
    /\ ~At(w, "idle")
    /\ faults < MaxFaults
    /\ faults' = faults + 1
    /\ AfterError(w)
    /\ UNCHANGED <<row, role, request, stale, published, claims, historyVars>>

Crash(w) ==
    /\ ~At(w, "idle")
    /\ faults < MaxFaults
    /\ faults' = faults + 1
    /\ Done(w)
    /\ UNCHANGED <<row, role, request, stale, published, claims, historyVars>>

--------------------------------------------------------------------------------
Begin(w) ==
    \/ SweepDomain(w) \/ CheckNow(w) \/ Downgrade(w)
    \/ \E r \in Requests : File(w, r) \/ Decline(w, r) \/ \E d \in Doors : Claim(w, r, d)
    \/ \E d \in Domains : ClaimDomain(w, d)

HandlerStep(w) ==
    \/ Create(w)     \/ Applicant(w) \/ SetupRead(w)    \/ SetupWrite(w)  \/ Refuse(w)
    \/ Await(w)      \/ Release(w)   \/ Flip(w)         \/ BecomeAdmin(w) \/ FindOpen(w)
    \/ Approve(w)    \/ Existing(w)  \/ DeclineWrite(w) \/ CancelRead(w)  \/ CancelWrite(w)
    \/ Lookup(w)     \/ Verdict(w)   \/ LiveDomain(w)   \/ Waiting(w)     \/ DownFlip(w)
    \/ BecomeUser(w)

Next ==
    \/ Publish
    \/ \E r \in Requests : ClaimAges(r)
    \/ \E w \in Handlers : Begin(w) \/ HandlerStep(w) \/ CallFails(w) \/ Crash(w)

Spec == Init /\ [][Next]_vars

\* A running handler goes on, and the five-minute timer starts a sweep whatever
\* the other handlers are doing.
Fairness ==
    /\ \A w \in Handlers : WF_vars(HandlerStep(w))
    /\ SF_vars(\E w \in Handlers : SweepDomain(w))

FairSpec == Spec /\ Fairness

--------------------------------------------------------------------------------
(* Properties.                                                             *)

Rows == [kind : {"customer", "brand"}, domain : Doors, token : Nat,
         check : {"none", "pending", "verified"}]

Jobs == [step : Steps,
         kind : {"none", "file", "approve", "domain", "decline", "check", "downgrade"},
         request : Requests \cup {NoRequest}, door : Doors, before : Statuses, known : Doors,
         token : Nat, customer : BOOLEAN, ok : BOOLEAN]

\* Every row and every handler keeps its shape.
TypeOK ==
    /\ row \in Rows
    /\ role \in {"USER", "ADMIN"}
    /\ request \in [Requests -> Statuses]
    /\ stale \subseteq Requests
    /\ published \subseteq 1..claims
    /\ claims \in 0..MaxClaims
    /\ job \in [Handlers -> Jobs]
    /\ promotions \in Nat
    /\ downgrades \in Nat
    /\ promotedFor \in Requests \cup {NoRequest}
    /\ takenOver \subseteq Requests
    /\ overtaken \in BOOLEAN
    /\ faults \in 0..MaxFaults

InSetup(w, r) == job[w].kind = "approve" /\ job[w].request = r

\* Two admins never set up one request at the same time, unless the first
\* one's claim had outlived its ten minutes: neither a release nor a decline
\* of another handler opens it again meanwhile (brandRequests.ts "so a second
\* 'Complete setup' can't create a second brand").
OneSetupAtATime ==
    \A v, w \in Handlers : \A r \in Requests :
        InSetup(v, r) /\ InSetup(w, r) /\ v # w => r \in takenOver

\* Every promotion but the current one was followed by one downgrade: domain
\* checks and approvals that race promote the row once (promoteToBrand "a
\* second call finds a brand already and does nothing").
PromotedOnce == promotions = downgrades + (IF row.kind = "brand" THEN 1 ELSE 0)

\* A domain counts as verified only when the records of that very claim have
\* been seen, unless the row was claimed anew while a check was looking
\* (brands.ts "A changed domain has proven nothing yet").
VerifiedIsProven == row.check = "verified" => row.token \in published \/ overtaken

\* The request a row was promoted for does not stay open: when every handler
\* is done, it is approved, or was declined, unless a call failed or its claim
\* was taken over.
PromotionClosesRequest ==
    (/\ promotedFor # NoRequest
     /\ promotedFor \notin takenOver
     /\ faults = 0
     /\ \A w \in Handlers : At(w, "idle"))
    => request[promotedFor] \in Closed

AwaitsDomain(r) == request[r] = "awaiting" /\ row.kind = "customer" /\ row.token \in published

\* A request that waits for a domain whose records have landed, and which no
\* check has seen yet, does not wait for ever, unless a call failed or a check
\* wrote over another claim.
AwaitingIsPromoted ==
    \A r \in Requests :
        AwaitsDomain(r) /\ row.check = "pending"
            ~> ~AwaitsDomain(r) \/ faults > 0 \/ overtaken
================================================================================
