----------------------------- MODULE CouponsProofs -----------------------------
(***************************************************************************)
(* Theorems about Coupons, for every set of customers, coupons and         *)
(* handlers, every duration and every supply.                              *)
(***************************************************************************)
EXTENDS Coupons, FiniteSetTheorems, TLAPS

--------------------------------------------------------------------------------
(* The inductive invariant: a handler that carries a live row it has read  *)
(* finds that row, or none with its identity, whatever happened since.     *)

CodeSteps == {"readSupply", "reserve", "hold", "rebuild", "activate", "apply", "countUp",
              "dropHold", "sync", "grant", "replace", "repoint", "countCycle", "ensure",
              "remove", "giveBack"}

RowSteps == {"repoint", "countCycle", "remove"}

\* What a handler's record says of the rows and of the rows created so far.
JobOK(j, rows, mk) ==
    /\ j.step \notin {"idle", "sweepHolds"} => j.user \in Users /\ j.row <= mk[j.user]
    /\ j.step \in CodeSteps => j.code \in Codes
    /\ j.step \in RowSteps \cup {"activate", "apply"} => j.row > 0
    /\ j.step \in RowSteps /\ rows[j.user][j.code].id = j.row =>
           rows[j.user][j.code].status \in Spent

HandlerInv == \A h \in Handlers : JobOK(job[h], redemption, made)

IInv == TypeOK /\ HandlerInv

\* A row keeps its identity and, once it is spent, stays so; or it goes; or it
\* is new.
RowStep(u, c) ==
    \/ /\ redemption'[u][c].id = redemption[u][c].id
       /\ redemption[u][c].status \in Spent => redemption'[u][c].status \in Spent
    \/ redemption'[u][c].id = 0
    \/ redemption'[u][c].id = made[u] + 1

RowsEvolve ==
    /\ \A u \in Users : made'[u] >= made[u]
    /\ \A u \in Users : \A c \in Codes : RowStep(u, c)

--------------------------------------------------------------------------------
(* Handlers.                                                               *)

LEMMA IdleType == Idle \in Jobs /\ \A rows, mk : JobOK(Idle, rows, mk)
BY DEF Idle, Jobs, JobOK, CodeSteps, RowSteps, NoCode

\* What holds of a handler's record holds after rows have gone or come.
LEMMA JobKept ==
    ASSUME TypeOK, TenantOK', RowsEvolve, NEW j \in Jobs, JobOK(j, redemption, made)
    PROVE  JobOK(j, redemption', made')
<1>1. CASE j.step \in {"idle", "sweepHolds"}
  BY <1>1 DEF JobOK, CodeSteps, RowSteps
<1>2. CASE j.step \notin {"idle", "sweepHolds"}
  <2>1. j.user \in Users /\ j.row <= made[j.user] /\ j.row \in Nat
    BY <1>2 DEF JobOK, Jobs
  <2>2. made[j.user] \in Nat /\ made'[j.user] \in Nat /\ made'[j.user] >= made[j.user]
    BY <2>1 DEF TypeOK, TenantOK, RowsEvolve
  <2>3. j.row <= made'[j.user]
    BY <2>1, <2>2
  <2>4. ASSUME j.step \in RowSteps, redemption'[j.user][j.code].id = j.row
        PROVE  redemption'[j.user][j.code].status \in Spent
    <3>1. j.code \in Codes /\ j.row > 0
      BY <2>4 DEF JobOK, CodeSteps, RowSteps
    <3>2. RowStep(j.user, j.code)
      BY <2>1, <3>1 DEF RowsEvolve
    <3>3. /\ redemption'[j.user][j.code].id = redemption[j.user][j.code].id
          /\ redemption[j.user][j.code].status \in Spent =>
                 redemption'[j.user][j.code].status \in Spent
      BY <3>1, <3>2, <2>1, <2>2, <2>4 DEF RowStep
    <3>4. QED
      BY <3>3, <2>4 DEF JobOK
  <2>5. QED
    BY <2>1, <2>3, <2>4 DEF JobOK
<1>3. QED
  BY <1>1, <1>2

\* A handler goes on; the others keep what they know.
LEMMA Frame ==
    ASSUME IInv, NEW h \in Handlers, NEW j \in Jobs, Become(h, j),
           RowsEvolve, JobOK(j, redemption', made'), TenantOK', MainOK', StripeOK',
           requests' \in 0..MaxRequests, faults' \in 0..MaxFaults
    PROVE  IInv'
<1>1. job' = [job EXCEPT ![h] = j] /\ job \in [Handlers -> Jobs]
  BY DEF Become, IInv, TypeOK
<1>2. job' \in [Handlers -> Jobs] /\ job'[h] = j
  BY <1>1
<1>3. ASSUME NEW k \in Handlers, k # h
      PROVE  JobOK(job'[k], redemption', made')
  <2>1. job'[k] = job[k] /\ job[k] \in Jobs
    BY <1>1, <1>3
  <2>2. JobOK(job[k], redemption, made)
    BY DEF IInv, HandlerInv
  <2>3. JobOK(job[k], redemption', made')
    BY <2>1, <2>2, JobKept DEF IInv
  <2>4. QED
    BY <2>1, <2>3
<1>4. TypeOK'
  BY <1>2 DEF TypeOK
<1>5. \A k \in Handlers : JobOK(job'[k], redemption', made')
  BY <1>2, <1>3
<1>6. QED
  BY <1>4, <1>5 DEF IInv, HandlerInv

\* Where the rows are left alone.
LEMMA FrameRows ==
    ASSUME IInv, NEW h \in Handlers, NEW j \in Jobs, Become(h, j),
           UNCHANGED tenantVars, JobOK(j, redemption, made), MainOK', StripeOK',
           requests' \in 0..MaxRequests, faults' \in 0..MaxFaults
    PROVE  IInv'
<1>1. redemption' = redemption /\ made' = made /\ pointer' = pointer
  BY DEF tenantVars
<1>2. TenantOK'
  BY <1>1 DEF IInv, TypeOK, TenantOK
<1>3. RowsEvolve
  <2>1. \A u \in Users : made[u] \in Nat
    BY DEF IInv, TypeOK, TenantOK
  <2>2. QED
    BY <1>1, <2>1 DEF RowsEvolve, RowStep
<1>4. JobOK(j, redemption', made')
  BY <1>1
<1>5. QED
  BY <1>2, <1>3, <1>4, Frame

LEMMA Same ==
    ASSUME IInv
    PROVE  /\ UNCHANGED mainVars => MainOK'
           /\ UNCHANGED stripeVars => StripeOK'
           /\ requests' = requests => requests' \in 0..MaxRequests
           /\ faults' = faults => faults' \in 0..MaxFaults
BY DEF IInv, TypeOK, MainOK, StripeOK, mainVars, stripeVars

\* A running handler has a customer, and knows of no row ahead of those made.
LEMMA Running ==
    ASSUME IInv, NEW h \in Handlers, job[h].step \notin {"idle", "sweepHolds"}
    PROVE  /\ job[h] \in Jobs
           /\ job[h].user \in Users
           /\ job[h].row \in Nat
           /\ job[h].row <= made[job[h].user]
           /\ job[h].step \in CodeSteps => job[h].code \in Codes
           /\ JobOK(job[h], redemption, made)
BY DEF IInv, TypeOK, HandlerInv, JobOK, Jobs

\* A step that needs neither a coupon nor a row.
LEMMA GotoOK ==
    ASSUME IInv, NEW h \in Handlers, NEW s \in Steps,
           job[h].step \notin {"idle", "sweepHolds"},
           s \in CodeSteps => job[h].code \in Codes,
           s \notin RowSteps \cup {"activate", "apply"}
    PROVE  /\ [job[h] EXCEPT !.step = s] \in Jobs
           /\ JobOK([job[h] EXCEPT !.step = s], redemption, made)
<1>1. job[h] \in Jobs /\ job[h].user \in Users /\ job[h].row <= made[job[h].user]
  BY Running
<1>2. [job[h] EXCEPT !.step = s] \in Jobs
  BY <1>1 DEF Jobs
<1>3. JobOK([job[h] EXCEPT !.step = s], redemption, made)
  BY <1>1 DEF JobOK, Jobs
<1>4. QED
  BY <1>2, <1>3

\* The best-effort steps lead on to steps whose needs they have met.
BestEffort == {"clearHolds", "attach", "hold", "dropHold", "sync", "repoint", "ensure",
               "detach", "giveBack"}

LEMMA ContinueOK ==
    ASSUME IInv, NEW h \in Handlers, job[h].step \in BestEffort, Continue(h)
    PROVE  \E j \in Jobs : Become(h, j) /\ JobOK(j, redemption, made)
<1>1. /\ job[h] \in Jobs /\ job[h].user \in Users
      /\ job[h].step \in CodeSteps => job[h].code \in Codes
      /\ JobOK(job[h], redemption, made)
  BY Running DEF BestEffort
<1>2. CASE Following(job[h]) = "idle"
  BY <1>2, IdleType DEF Continue, Done
<1>3. CASE Following(job[h]) # "idle"
  <2>1. Become(h, [job[h] EXCEPT !.step = Following(job[h])])
    BY <1>3 DEF Continue, Goto
  <2>2. CASE job[h].step # "repoint"
    <3>1. /\ Following(job[h]) \in {"attach", "readSupply", "save", "sync", "live", "detach"}
          /\ Following(job[h]) \in {"readSupply", "sync"} => job[h].code \in Codes
      BY <1>1, <1>3, <2>2 DEF Following, BestEffort, CodeSteps, Jobs, NoCode
    <3>2. [job[h] EXCEPT !.step = Following(job[h])] \in Jobs
          /\ JobOK([job[h] EXCEPT !.step = Following(job[h])], redemption, made)
      <4> DEFINE s == Following(job[h])
      <4>1. s \in Steps /\ s \notin RowSteps \cup {"activate", "apply"} /\ (s \in CodeSteps => job[h].code \in Codes)
        BY <3>1 DEF Steps, RowSteps, CodeSteps
      <4>2. job[h].step \notin {"idle", "sweepHolds"}
        BY DEF BestEffort
      <4> HIDE DEF s
      <4>3. [job[h] EXCEPT !.step = s] \in Jobs /\ JobOK([job[h] EXCEPT !.step = s], redemption, made)
        BY <4>1, <4>2, GotoOK
      <4>4. QED
        BY <4>3 DEF s
    <3>3. QED
      BY <2>1, <3>2
  <2>3. CASE job[h].step = "repoint"
    <3>1. Following(job[h]) \in {"countCycle", "remove"}
      BY <1>1, <1>3, <2>3 DEF Following, WithLive
    <3>2. [job[h] EXCEPT !.step = Following(job[h])] \in Jobs
      BY <1>1, <3>1 DEF Jobs, Steps
    <3>3. JobOK([job[h] EXCEPT !.step = Following(job[h])], redemption, made)
      BY <1>1, <2>3, <3>1 DEF JobOK, Jobs, RowSteps, CodeSteps
    <3>4. QED
      BY <2>1, <3>2, <3>3
  <2>4. QED
    BY <2>2, <2>3
<1>4. QED
  BY <1>2, <1>3

--------------------------------------------------------------------------------
(* Calls that leave the rows alone.                                        *)

LEMMA DiscountsType ==
    ASSUME IInv, NEW h \in Handlers, job[h].step \notin {"idle", "sweepHolds"},
           NEW d \in Codes \cup {NoCode}, Discounts(h, d), UNCHANGED <<sub, latest, cards, charges>>
    PROVE  StripeOK'
<1>1. job[h].user \in Users
  BY Running
<1>2. discount \in [Users -> Codes \cup {NoCode}]
  BY DEF IInv, TypeOK, StripeOK
<1>3. discount' \in [Users -> Codes \cup {NoCode}]
  BY <1>1, <1>2 DEF Discounts
<1>4. QED
  BY <1>3 DEF IInv, TypeOK, StripeOK

LEMMA PaysType ==
    ASSUME IInv, NEW u \in Users, Pays(u), UNCHANGED sub, cards' \subseteq Users
    PROVE  StripeOK'
<1>1. /\ charges \in 0..MaxCharges /\ charges < MaxCharges /\ MaxCharges \in Nat
      /\ charges' = charges + 1
      /\ latest' = [latest EXCEPT ![u] = charges + 1]
      /\ latest \in [Users -> Nat]
      /\ discount \in [Users -> Codes \cup {NoCode}]
  BY CouponAssumption DEF IInv, TypeOK, StripeOK, Pays, CouponAssumption
<1>2. charges' \in 0..MaxCharges /\ charges + 1 \in Nat
  BY <1>1
<1>3. latest' \in [Users -> Nat]
  BY <1>1, <1>2
<1>4. discount' \in [Users -> Codes \cup {NoCode}]
  BY <1>1 DEF Pays
<1>5. QED
  BY <1>2, <1>3, <1>4 DEF IInv, TypeOK, StripeOK

LEMMA HoldType ==
    ASSUME IInv, NEW u \in Users, NEW c \in Codes, NEW v \in {"none", "live", "stale"},
           hold' = [hold EXCEPT ![u][c] = v], UNCHANGED redeemedCount
    PROVE  MainOK'
<1>1. hold \in [Users -> [Codes -> {"none", "live", "stale"}]]
  BY DEF IInv, TypeOK, MainOK
<1>2. hold' = [hold EXCEPT ![u] = [hold[u] EXCEPT ![c] = v]]
  OBVIOUS
<1>3. [hold[u] EXCEPT ![c] = v] \in [Codes -> {"none", "live", "stale"}]
  BY <1>1
<1>4. QED
  BY <1>1, <1>2, <1>3 DEF IInv, TypeOK, MainOK

\* A best-effort call, made or passed over.
LEMMA BestEffortStep ==
    ASSUME IInv, NEW h \in Handlers, job[h].step \in BestEffort, Continue(h),
           UNCHANGED tenantVars, MainOK', StripeOK',
           requests' \in 0..MaxRequests, faults' \in 0..MaxFaults
    PROVE  IInv'
<1>1. PICK j \in Jobs : Become(h, j) /\ JobOK(j, redemption, made)
  BY ContinueOK
<1>2. QED
  BY <1>1, FrameRows

\* A handler that returns.
LEMMA DoneStep ==
    ASSUME IInv, NEW h \in Handlers, Done(h), UNCHANGED tenantVars, MainOK', StripeOK',
           requests' \in 0..MaxRequests, faults' \in 0..MaxFaults
    PROVE  IInv'
BY IdleType, FrameRows DEF Done

\* A handler that goes on to a step without needs.
LEMMA GotoStep ==
    ASSUME IInv, NEW h \in Handlers, NEW s \in Steps,
           job[h].step \notin {"idle", "sweepHolds"},
           s \in CodeSteps => job[h].code \in Codes,
           s \notin RowSteps \cup {"activate", "apply"}, Goto(h, s),
           UNCHANGED tenantVars, MainOK', StripeOK',
           requests' \in 0..MaxRequests, faults' \in 0..MaxFaults
    PROVE  IInv'
<1>1. /\ [job[h] EXCEPT !.step = s] \in Jobs
      /\ JobOK([job[h] EXCEPT !.step = s], redemption, made)
  BY GotoOK
<1>2. Become(h, [job[h] EXCEPT !.step = s])
  BY DEF Goto
<1>3. QED
  BY <1>1, <1>2, FrameRows

LEMMA ClearHoldsStep ==
    ASSUME IInv, NEW h \in Handlers, ClearHolds(h) PROVE IInv'
<1>1. job[h].step \in BestEffort /\ job[h].step \notin {"idle", "sweepHolds"}
  BY DEF ClearHolds, At, BestEffort
<1>2. job[h].user \in Users
  BY <1>1, Running
<1>3. hold \in [Users -> [Codes -> {"none", "live", "stale"}]]
  BY DEF IInv, TypeOK, MainOK
<1>4. hold' \in [Users -> [Codes -> {"none", "live", "stale"}]]
  BY <1>2, <1>3 DEF ClearHolds
<1>5. MainOK'
  BY <1>4 DEF ClearHolds, IInv, TypeOK, MainOK
<1>6. QED
  BY <1>1, <1>5, Same, BestEffortStep DEF ClearHolds, boundVars

LEMMA HoldStep ==
    ASSUME IInv, NEW h \in Handlers, Hold(h) \/ DropHold(h) PROVE IInv'
<1>1. job[h].step \in BestEffort /\ job[h].step \in CodeSteps
      /\ job[h].step \notin {"idle", "sweepHolds"}
  BY DEF Hold, DropHold, At, BestEffort, CodeSteps
<1>2. job[h].user \in Users /\ job[h].code \in Codes
  BY <1>1, Running
<1>3. MainOK'
  BY <1>2, HoldType DEF Hold, DropHold
<1>4. QED
  BY <1>1, <1>3, Same, BestEffortStep DEF Hold, DropHold, boundVars

LEMMA DiscountStep ==
    ASSUME IInv, NEW h \in Handlers, Attach(h) \/ Sync(h) \/ Ensure(h) \/ Detach(h)
    PROVE  IInv'
<1>1. job[h].step \in {"attach", "sync", "ensure", "detach"}
  BY DEF Attach, Sync, Ensure, Detach, At
<1>2. job[h].step \in BestEffort /\ job[h].step \notin {"idle", "sweepHolds"}
  BY <1>1 DEF BestEffort
<1>3. job[h].step = "ensure" => job[h].code \in Codes
  BY <1>2, Running DEF CodeSteps
<1>4. StripeDiscount(job[h].code) \in Codes \cup {NoCode}
  BY CouponAssumption DEF StripeDiscount, CouponAssumption
<1>5. StripeOK'
  BY <1>2, <1>3, <1>4, DiscountsType DEF Attach, Sync, Ensure, Detach, At
<1>6. QED
  BY <1>2, <1>5, Same, BestEffortStep DEF Attach, Sync, Ensure, Detach, boundVars

LEMMA TallyStep ==
    ASSUME IInv, NEW h \in Handlers, CountUp(h) \/ GiveBack(h) PROVE IInv'
<1>1. job[h].step \in {"countUp", "giveBack"}
  BY DEF CountUp, GiveBack, At
<1>2. job[h].code \in Codes
  BY <1>1, Running DEF CodeSteps
<1>3. redeemedCount \in [Codes -> Int]
  BY DEF IInv, TypeOK, MainOK
<1>4. redeemedCount' \in [Codes -> Int]
  BY <1>2, <1>3 DEF CountUp, GiveBack
<1>5. MainOK'
  BY <1>4 DEF CountUp, GiveBack, IInv, TypeOK, MainOK
<1>6. CASE CountUp(h)
  BY <1>1, <1>2, <1>5, <1>6, Same, GotoStep DEF CountUp, boundVars, Steps, CodeSteps, RowSteps
<1>7. CASE GiveBack(h)
  <2>1. job[h].step \in BestEffort
    BY <1>7 DEF GiveBack, At, BestEffort
  <2>2. QED
    BY <2>1, <1>5, <1>7, Same, BestEffortStep DEF GiveBack, boundVars
<1>8. QED
  BY <1>6, <1>7

LEMMA SaveStep ==
    ASSUME IInv, NEW h \in Handlers, Save(h) PROVE IInv'
<1>1. job[h].user \in Users
  BY Running DEF Save, At
<1>2. StripeDiscount(job[h].code) \in Codes \cup {NoCode}
  <2>1. job[h].code \in Codes \cup {NoCode}
    BY DEF IInv, TypeOK, Jobs
  <2>2. QED
    BY <2>1 DEF StripeDiscount
<1>3. /\ sub \in [Users -> Nat] /\ latest \in [Users -> Nat]
      /\ discount \in [Users -> Codes \cup {NoCode}]
  BY DEF IInv, TypeOK, StripeOK
<1>4. /\ sub' \in [Users -> Nat] /\ latest' \in [Users -> Nat]
      /\ discount' \in [Users -> Codes \cup {NoCode}]
  BY <1>1, <1>2, <1>3 DEF Save
<1>5. StripeOK'
  BY <1>4 DEF Save, IInv, TypeOK, StripeOK
<1>6. QED
  BY <1>5, Same, DoneStep DEF Save, boundVars

LEMMA SweepHoldsStep ==
    ASSUME IInv, NEW h \in Handlers, SweepHolds(h) PROVE IInv'
<1>1. hold \in [Users -> [Codes -> {"none", "live", "stale"}]]
  BY DEF IInv, TypeOK, MainOK
<1>2. hold' \in [Users -> [Codes -> {"none", "live", "stale"}]]
  BY <1>1 DEF SweepHolds
<1>3. MainOK'
  BY <1>2 DEF SweepHolds, IInv, TypeOK, MainOK
<1>4. QED
  BY <1>3, Same, DoneStep DEF SweepHolds, boundVars

LEMMA FaultStep ==
    ASSUME IInv, NEW h \in Handlers, Stops(h) \/ PassedOver(h) PROVE IInv'
<1>1. faults' \in 0..MaxFaults
  BY CouponAssumption DEF Stops, PassedOver, IInv, TypeOK, CouponAssumption
<1>2. MainOK' /\ StripeOK' /\ requests' \in 0..MaxRequests /\ UNCHANGED tenantVars
  BY Same DEF Stops, PassedOver
<1>3. CASE Stops(h)
  BY <1>1, <1>2, <1>3, DoneStep DEF Stops
<1>4. CASE PassedOver(h)
  BY <1>1, <1>2, <1>4, BestEffortStep DEF PassedOver, BestEffort
<1>5. QED
  BY <1>3, <1>4

--------------------------------------------------------------------------------
(* Handlers that start.                                                    *)

LEMMA StartStep ==
    ASSUME IInv, NEW h \in Handlers, NEW kind \in Kinds, NEW u \in Users,
           NEW c \in Codes \cup {NoCode}, NEW s \in {"clearRows", "findPending", "live", "grant"},
           NEW row \in Nat, NEW bill \in Nat,
           s = "grant" => c \in Codes, row <= made[u],
           StartsWith(h, kind, u, c, s, row, bill),
           UNCHANGED tenantVars, MainOK', StripeOK',
           requests' \in 0..MaxRequests, faults' \in 0..MaxFaults
    PROVE  IInv'
<1> DEFINE j == [Idle EXCEPT !.step = s, !.kind = kind, !.user = u, !.sub = sub[u],
                             !.code = c, !.row = row, !.bill = bill]
<1>1. sub[u] \in Nat
  BY DEF IInv, TypeOK, StripeOK
<1>2. Idle \in Jobs
  BY IdleType
<1>3. j \in Jobs
  BY <1>1, <1>2 DEF Jobs, Steps
<1>4. JobOK(j, redemption, made)
  <2>1. j.step = s /\ j.user = u /\ j.code = c /\ j.row = row
    BY <1>2 DEF Jobs
  <2>2. QED
    BY <2>1 DEF JobOK, CodeSteps, RowSteps
<1>5. Become(h, j)
  BY DEF StartsWith
<1> HIDE DEF j
<1>6. QED
  BY <1>3, <1>4, <1>5, FrameRows

LEMMA RequestStep ==
    ASSUME IInv, NEW h \in Requests, NEW u \in Users, Request(h, u) PROVE IInv'
<1>1. h \in Handlers
  BY DEF Handlers
<1>2. Asked /\ requests' \in 0..MaxRequests
  BY CouponAssumption
     DEF Request, Subscribe, Confirm, RevokeRequest, GrantRead, Asked, IInv, TypeOK, CouponAssumption
<1>3. made[u] \in Nat /\ 0 <= made[u]
  BY DEF IInv, TypeOK, TenantOK
<1>4. ASSUME NEW c \in Codes \cup {NoCode}, Subscribe(h, u, c) PROVE IInv'
  <2>1. PICK kind \in {"create", "swap"} : StartsWith(h, kind, u, c, "clearRows", 0, 0)
    BY <1>4 DEF Subscribe, Starts
  <2>2. kind \in Kinds
    BY DEF Kinds
  <2>3. QED
    BY <1>1, <1>2, <1>3, <1>4, <2>1, <2>2, Same, StartStep DEF Subscribe
<1>5. ASSUME NEW kind \in {"buy", "trial"}, Confirm(h, u, kind) PROVE IInv'
  <2>1. cards' \subseteq Users /\ sub' = sub
    BY <1>5 DEF Confirm, IInv, TypeOK, StripeOK
  <2>2. StripeOK'
    <3>1. CASE Pays(u)
      BY <2>1, <3>1, PaysType
    <3>2. CASE UNCHANGED <<discount, latest, charges>>
      BY <2>1, <3>2 DEF IInv, TypeOK, StripeOK
    <3>3. QED
      BY <1>5, <3>1, <3>2 DEF Confirm
  <2>3. latest'[u] \in Nat
    BY <2>2 DEF StripeOK
  <2>4. kind \in Kinds /\ NoCode \in Codes \cup {NoCode} /\ 0 \in Nat
    BY DEF Kinds
  <2>5. StartsWith(h, kind, u, NoCode, "findPending", 0, latest'[u])
    BY <1>5 DEF Confirm
  <2> DEFINE b == latest'[u]
  <2> HIDE DEF b
  <2>6. StartsWith(h, kind, u, NoCode, "findPending", 0, b) /\ b \in Nat
    BY <2>3, <2>5 DEF b
  <2>7. MainOK' /\ UNCHANGED tenantVars /\ faults' \in 0..MaxFaults
    BY <1>5, Same DEF Confirm
  <2>8. QED
    BY <1>1, <1>2, <1>3, <2>2, <2>4, <2>6, <2>7, StartStep
<1>6. ASSUME NEW kind \in {"revoke", "release"}, RevokeRequest(h, u, kind) PROVE IInv'
  <2>1. kind \in Kinds /\ StartsWith(h, kind, u, NoCode, "live", 0, 0)
    BY <1>6 DEF RevokeRequest, Starts, Kinds
  <2>2. QED
    BY <1>1, <1>2, <1>3, <1>6, <2>1, Same, StartStep DEF RevokeRequest
<1>7. ASSUME NEW c \in Codes, GrantRead(h, u, c) PROVE IInv'
  <2>1. redemption[u][c].id \in Nat /\ redemption[u][c].id <= made[u]
    BY DEF IInv, TypeOK, TenantOK, Rows
  <2>2. "grant" \in Kinds /\ StartsWith(h, "grant", u, c, "grant", redemption[u][c].id, 0)
    BY <1>7 DEF GrantRead, Kinds
  <2>3. QED
    BY <1>1, <1>2, <1>7, <2>1, <2>2, Same, StartStep DEF GrantRead
<1>8. QED
  BY <1>4, <1>5, <1>6, <1>7 DEF Request

LEMMA SettleStep ==
    ASSUME IInv, NEW h \in Handlers, NEW u \in Users, Settle(h, u) \/ Reconcile(h, u)
    PROVE  IInv'
<1>1. latest[u] \in Nat /\ made[u] \in Nat /\ 0 <= made[u]
  BY DEF IInv, TypeOK, StripeOK, TenantOK
<1>2. PICK kind \in {"settle", "heal"}, b \in Nat : StartsWith(h, kind, u, NoCode, "live", 0, b)
  BY <1>1 DEF Settle, Reconcile, Starts
<1>3. kind \in Kinds
  BY DEF Kinds
<1>4. QED
  BY <1>1, <1>2, <1>3, Same, StartStep DEF Settle, Reconcile, boundVars

--------------------------------------------------------------------------------
(* Handlers that read.                                                     *)

LEMMA ReadSupplyStep ==
    ASSUME IInv, NEW h \in Handlers, ReadSupply(h) PROVE IInv'
<1> DEFINE j == [job[h] EXCEPT !.step = "reserve", !.seen = redeemedCount[job[h].code]]
<1>1. /\ job[h] \in Jobs /\ job[h].user \in Users /\ job[h].row <= made[job[h].user]
      /\ job[h].code \in Codes
  BY Running DEF ReadSupply, At, CodeSteps
<1>2. redeemedCount[job[h].code] \in Int
  BY <1>1 DEF IInv, TypeOK, MainOK
<1>3. j \in Jobs
  BY <1>1, <1>2 DEF Jobs, Steps
<1>4. JobOK(j, redemption, made)
  BY <1>1 DEF JobOK, Jobs, RowSteps
<1>5. Become(h, j)
  BY DEF ReadSupply
<1> HIDE DEF j
<1>6. QED
  BY <1>3, <1>4, <1>5, Same, FrameRows DEF ReadSupply, boundVars

\* A confirmation that has found the row it is to activate.
LEMMA ActivatesOK ==
    ASSUME IInv, NEW h \in Handlers, job[h].step \in {"findPending", "rebuild"},
           NEW c \in Codes, NEW row \in Nat, row > 0, Activates(h, c, row),
           NEW rows, NEW mk, row <= mk[job[h].user]
    PROVE  \E j \in Jobs : Become(h, j) /\ JobOK(j, rows, mk)
<1> DEFINE j == [job[h] EXCEPT !.step = "activate", !.code = c, !.row = row]
<1>1. job[h] \in Jobs /\ job[h].user \in Users
  BY Running
<1>2. j \in Jobs
  BY <1>1 DEF Jobs, Steps
<1>3. JobOK(j, rows, mk)
  BY <1>1 DEF JobOK, Jobs, RowSteps
<1>4. QED
  BY <1>2, <1>3 DEF Activates

LEMMA NotActivatedStep ==
    ASSUME IInv, NEW h \in Handlers, job[h].step \in {"findPending", "rebuild"},
           NotActivated(h), UNCHANGED <<tenantVars, mainVars, stripeVars, boundVars>>
    PROVE  IInv'
<1>1. CASE Done(h)
  BY <1>1, Same, DoneStep DEF boundVars
<1>2. CASE Goto(h, "live")
  BY <1>2, Same, GotoStep DEF boundVars, Steps, CodeSteps, RowSteps
<1>3. QED
  BY <1>1, <1>2 DEF NotActivated

LEMMA FindPendingStep ==
    ASSUME IInv, NEW h \in Handlers, FindPending(h) PROVE IInv'
<1>1. job[h].step = "findPending" /\ job[h].user \in Users /\ job[h] \in Jobs
      /\ job[h].row <= made[job[h].user]
  BY Running DEF FindPending, At
<1>2. ASSUME NEW c \in Codes, redemption[job[h].user][c].status = "pending",
             Activates(h, c, redemption[job[h].user][c].id)
      PROVE  IInv'
  <2> DEFINE row == redemption[job[h].user][c].id
  <2>1. row \in Nat /\ row > 0 /\ row <= made[job[h].user]
    BY <1>1, <1>2 DEF IInv, TypeOK, TenantOK, Rows
  <2>2. Activates(h, c, row)
    BY <1>2
  <2> HIDE DEF row
  <2>3. PICK j \in Jobs : Become(h, j) /\ JobOK(j, redemption, made)
    BY <1>1, <2>1, <2>2, ActivatesOK
  <2>4. QED
    BY <2>3, Same, FrameRows DEF FindPending, boundVars
<1>3. ASSUME discount[job[h].user] \in Codes,
             Become(h, [job[h] EXCEPT !.step = "rebuild", !.code = discount[job[h].user]])
      PROVE  IInv'
  <2> DEFINE j == [job[h] EXCEPT !.step = "rebuild", !.code = discount[job[h].user]]
  <2>1. j \in Jobs
    BY <1>1, <1>3 DEF Jobs, Steps
  <2>2. JobOK(j, redemption, made)
    BY <1>1, <1>3 DEF JobOK, Jobs, RowSteps
  <2>3. Become(h, j)
    BY <1>3
  <2> HIDE DEF j
  <2>4. QED
    BY <2>1, <2>2, <2>3, Same, FrameRows DEF FindPending, boundVars
<1>4. CASE NotActivated(h)
  BY <1>1, <1>4, NotActivatedStep DEF FindPending
<1>5. QED
  BY <1>2, <1>3, <1>4 DEF FindPending

LEMMA LiveReadStep ==
    ASSUME IInv, NEW h \in Handlers, LiveRead(h) PROVE IInv'
<1>1. job[h].step = "live" /\ job[h].user \in Users /\ job[h] \in Jobs
      /\ job[h].row <= made[job[h].user]
  BY Running DEF LiveRead, At
<1>2. CASE Done(h)
  BY <1>2, Same, DoneStep DEF LiveRead, boundVars
<1>3. CASE Goto(h, "drift")
  BY <1>1, <1>3, Same, GotoStep DEF LiveRead, boundVars, Steps, CodeSteps, RowSteps
<1>4. ASSUME NEW c \in LiveCodes(job[h].user), NEW s \in RowSteps,
             Become(h, [job[h] EXCEPT !.step = s, !.code = c,
                                      !.row = redemption[job[h].user][c].id,
                                      !.used = redemption[job[h].user][c].used,
                                      !.inv = redemption[job[h].user][c].inv])
      PROVE  IInv'
  <2> DEFINE r == redemption[job[h].user][c]
             j == [job[h] EXCEPT !.step = s, !.code = c, !.row = r.id, !.used = r.used,
                                 !.inv = r.inv]
  <2>1. c \in Codes /\ r.status = "active"
    BY DEF LiveCodes
  <2>2. r.id \in Nat /\ r.used \in Nat /\ r.inv \in Nat /\ r.id <= made[job[h].user] /\ r.id > 0
    BY <1>1, <2>1 DEF IInv, TypeOK, TenantOK, Rows
  <2>3. j \in Jobs
    BY <1>1, <2>1, <2>2 DEF Jobs, Steps, RowSteps
  <2>4. JobOK(j, redemption, made)
    BY <1>1, <2>1, <2>2 DEF JobOK, Jobs, Spent
  <2>5. Become(h, j)
    BY <1>4
  <2> HIDE DEF j
  <2>6. QED
    BY <2>3, <2>4, <2>5, Same, FrameRows DEF LiveRead, boundVars
<1>5. ASSUME NEW c \in LiveCodes(job[h].user), NEW s \in {"repoint", WithLive(job[h].kind)},
             s # "idle"
      PROVE  s \in RowSteps
  BY <1>5 DEF WithLive, RowSteps
<1>6. QED
  BY <1>2, <1>3, <1>4, <1>5 DEF LiveRead

LEMMA DriftStep ==
    ASSUME IInv, NEW h \in Handlers, Drift(h) PROVE IInv'
<1>1. job[h].step = "drift"
  BY DEF Drift, At
<1>2. CASE Done(h)
  BY <1>2, Same, DoneStep DEF Drift, boundVars
<1>3. CASE Goto(h, "detach")
  BY <1>1, <1>3, Same, GotoStep DEF Drift, boundVars, Steps, CodeSteps, RowSteps
<1>4. QED
  BY <1>2, <1>3 DEF Drift

--------------------------------------------------------------------------------
(* Handlers that change rows.                                              *)

\* Row r may take the place of row old, of a customer with mk rows so far.
Replaces(r, old, mk) ==
    /\ r \in Rows
    /\ r.status = "none" <=> r.id = 0
    /\ \/ r.id = old.id /\ (old.status \in Spent => r.status \in Spent)
       \/ r.id = 0
       \/ r.id = mk + 1

LEMMA CustomerRows ==
    ASSUME TypeOK, NEW u \in Users, NEW f \in [Codes -> Rows],
           redemption' = [redemption EXCEPT ![u] = f],
           made' = made \/ made' = [made EXCEPT ![u] = @ + 1],
           pointer' \in [Users -> Nat],
           \A c \in Codes : Replaces(f[c], redemption[u][c], made[u]) /\ f[c].id <= made'[u]
    PROVE  TenantOK' /\ RowsEvolve
<1>1. /\ redemption \in [Users -> [Codes -> Rows]] /\ made \in [Users -> Nat]
      /\ \A v \in Users : \A c \in Codes :
            /\ redemption[v][c].id <= made[v]
            /\ redemption[v][c].status = "none" <=> redemption[v][c].id = 0
  BY DEF TypeOK, TenantOK
<1>2. made' \in [Users -> Nat] /\ \A v \in Users : made'[v] >= made[v]
  <2>1. CASE made' = made
    BY <1>1, <2>1
  <2>2. CASE made' = [made EXCEPT ![u] = @ + 1]
    BY <1>1, <2>2
  <2>3. QED
    BY <2>1, <2>2
<1>3. /\ redemption' \in [Users -> [Codes -> Rows]]
      /\ redemption'[u] = f
      /\ \A v \in Users : v # u => redemption'[v] = redemption[v] /\ made'[v] = made[v]
  BY <1>1
<1>4. ASSUME NEW v \in Users, NEW c \in Codes
      PROVE  /\ redemption'[v][c].id <= made'[v]
             /\ redemption'[v][c].status = "none" <=> redemption'[v][c].id = 0
             /\ RowStep(v, c)
  <2>1. CASE v = u
    BY <1>3, <2>1 DEF Replaces, RowStep
  <2>2. CASE v # u
    BY <1>1, <1>3, <2>2 DEF RowStep
  <2>3. QED
    BY <2>1, <2>2
<1>5. QED
  BY <1>2, <1>3, <1>4 DEF TenantOK, RowsEvolve

\* One row of a customer changes.
LEMMA OneRow ==
    ASSUME TypeOK, NEW u \in Users, NEW c \in Codes, NEW r,
           redemption' = [redemption EXCEPT ![u][c] = r],
           made' = made \/ made' = [made EXCEPT ![u] = @ + 1],
           pointer' \in [Users -> Nat],
           Replaces(r, redemption[u][c], made[u]), r.id <= made'[u]
    PROVE  TenantOK' /\ RowsEvolve
<1> DEFINE f == [redemption[u] EXCEPT ![c] = r]
<1>1. /\ redemption[u] \in [Codes -> Rows] /\ made \in [Users -> Nat]
      /\ \A d \in Codes :
            /\ redemption[u][d].id <= made[u]
            /\ redemption[u][d].status = "none" <=> redemption[u][d].id = 0
  BY DEF TypeOK, TenantOK
<1>2. f \in [Codes -> Rows] /\ f[c] = r /\ \A d \in Codes : d # c => f[d] = redemption[u][d]
  BY <1>1 DEF Replaces
<1>3. redemption' = [redemption EXCEPT ![u] = f]
  OBVIOUS
<1>4. made[u] <= made'[u] /\ made[u] \in Nat /\ made'[u] \in Nat
  BY <1>1
<1>5. ASSUME NEW d \in Codes
      PROVE  Replaces(f[d], redemption[u][d], made[u]) /\ f[d].id <= made'[u]
  <2>1. CASE d = c
    BY <1>2, <2>1
  <2>2. CASE d # c
    <3>1. f[d] = redemption[u][d] /\ redemption[u][d] \in Rows /\ redemption[u][d].id \in Nat
      BY <1>1, <1>2, <2>2 DEF Rows
    <3>2. QED
      BY <1>1, <1>4, <3>1 DEF Replaces
  <2>3. QED
    BY <2>1, <2>2
<1> HIDE DEF f
<1>6. QED
  BY <1>2, <1>3, <1>5, CustomerRows

\* Row r begins and the rows that were found live end.
LEMMA Superseded ==
    ASSUME TypeOK, NEW h \in Handlers, NEW u \in Users, NEW c \in Codes, NEW r,
           Supersede(h, r), u = job[h].user, c = job[h].code,
           made' = made \/ made' = [made EXCEPT ![u] = @ + 1],
           pointer' \in [Users -> Nat],
           Replaces(r, redemption[u][c], made[u]), r.id <= made'[u]
    PROVE  TenantOK' /\ RowsEvolve
<1> DEFINE rows == redemption[u]
           f == [d \in Codes |->
                    IF d = c THEN r
                    ELSE IF d \in job[h].ends /\ rows[d].status = "active"
                    THEN [rows[d] EXCEPT !.status = "revoked"]
                    ELSE rows[d]]
<1>1. /\ rows \in [Codes -> Rows] /\ made \in [Users -> Nat]
      /\ \A d \in Codes :
            /\ rows[d].id <= made[u]
            /\ rows[d].status = "none" <=> rows[d].id = 0
  BY DEF TypeOK, TenantOK
<1>2. redemption' = [redemption EXCEPT ![u] = f]
  BY DEF Supersede
<1>3. made[u] <= made'[u] /\ made[u] \in Nat /\ made'[u] \in Nat
  BY <1>1
<1>4. ASSUME NEW d \in Codes
      PROVE  Replaces(f[d], rows[d], made[u]) /\ f[d].id <= made'[u]
  <2>1. CASE d = c
    BY <2>1
  <2>2. CASE d # c
    <3>1. rows[d] \in Rows /\ rows[d].id \in Nat
      BY <1>1 DEF Rows
    <3>2. CASE d \in job[h].ends /\ rows[d].status = "active"
      <4>1. f[d] = [rows[d] EXCEPT !.status = "revoked"]
        BY <2>2, <3>2
      <4>2. f[d] \in Rows /\ f[d].id = rows[d].id /\ f[d].status = "revoked"
        BY <3>1, <4>1 DEF Rows, Spent, Ended
      <4> HIDE DEF f
      <4>3. QED
        BY <1>1, <1>3, <3>1, <3>2, <4>2 DEF Replaces, Spent, Ended
    <3>3. CASE ~(d \in job[h].ends /\ rows[d].status = "active")
      <4>1. f[d] = rows[d]
        BY <2>2, <3>3
      <4> HIDE DEF f
      <4>2. QED
        BY <1>1, <1>3, <3>1, <4>1 DEF Replaces
    <3>4. QED
      BY <3>2, <3>3
  <2>3. QED
    BY <2>1, <2>2
<1>5. f \in [Codes -> Rows]
  <2>1. \A d \in Codes : f[d] \in Rows
    BY <1>4 DEF Replaces
  <2>2. QED
    BY <2>1
<1> HIDE DEF f
<1>6. QED
  BY <1>2, <1>4, <1>5, CustomerRows

\* A handler that has changed rows, and goes on with what it knew or returns.
LEMMA FrameKept ==
    ASSUME IInv, NEW h \in Handlers, NEW j \in Jobs, Become(h, j),
           JobOK(j, redemption, made), TenantOK', RowsEvolve,
           UNCHANGED <<mainVars, stripeVars, boundVars>>
    PROVE  IInv'
<1>1. JobOK(j, redemption', made')
  BY JobKept DEF IInv
<1>2. QED
  BY <1>1, Same, Frame DEF boundVars

LEMMA RowsDone ==
    ASSUME IInv, NEW h \in Handlers, Done(h), TenantOK', RowsEvolve,
           UNCHANGED <<mainVars, stripeVars, boundVars>>
    PROVE  IInv'
BY IdleType, FrameKept DEF Done

LEMMA RowsGoto ==
    ASSUME IInv, NEW h \in Handlers, NEW s \in Steps,
           job[h].step \notin {"idle", "sweepHolds"},
           s \in CodeSteps => job[h].code \in Codes,
           s \notin RowSteps \cup {"activate", "apply"}, Goto(h, s), TenantOK', RowsEvolve,
           UNCHANGED <<mainVars, stripeVars, boundVars>>
    PROVE  IInv'
<1> DEFINE j == [job[h] EXCEPT !.step = s]
<1>1. j \in Jobs /\ JobOK(j, redemption, made)
  BY GotoOK
<1>2. Become(h, j)
  BY DEF Goto
<1> HIDE DEF j
<1>3. QED
  BY <1>1, <1>2, FrameKept

\* A handler that has begun a redemption goes on to count it.
LEMMA RowsBegun ==
    ASSUME IInv, NEW h \in Handlers, job[h].step \in {"apply", "replace"}, Begun(h),
           TenantOK', RowsEvolve, UNCHANGED <<mainVars, stripeVars, boundVars>>
    PROVE  IInv'
<1> DEFINE j == [job[h] EXCEPT !.step = "countUp", !.ends = {}]
<1>1. job[h] \in Jobs /\ job[h].user \in Users /\ job[h].row <= made[job[h].user]
      /\ job[h].code \in Codes
  BY Running DEF CodeSteps
<1>2. j \in Jobs
  BY <1>1 DEF Jobs, Steps
<1>3. JobOK(j, redemption, made)
  BY <1>1 DEF JobOK, Jobs, RowSteps
<1>4. Become(h, j)
  BY DEF Begun
<1> HIDE DEF j
<1>5. QED
  BY <1>2, <1>3, <1>4, FrameKept

LEMMA NoRowType == NoRow \in Rows /\ NoRow.id = 0 /\ NoRow.status = "none"
BY DEF NoRow, Rows

LEMMA ClearRowsStep ==
    ASSUME IInv, NEW h \in Handlers, ClearRows(h) PROVE IInv'
<1>1. job[h].step = "clearRows" /\ job[h].user \in Users
  BY Running DEF ClearRows, At
<1> DEFINE u == job[h].user
           f == [c \in Codes |->
                    IF redemption[u][c].status = "pending" /\ c # job[h].code THEN NoRow
                    ELSE redemption[u][c]]
<1>2. /\ redemption[u] \in [Codes -> Rows] /\ made[u] \in Nat
      /\ \A c \in Codes :
            /\ redemption[u][c].id <= made[u]
            /\ redemption[u][c].status = "none" <=> redemption[u][c].id = 0
  BY <1>1 DEF IInv, TypeOK, TenantOK
<1>3. ASSUME NEW c \in Codes
      PROVE  Replaces(f[c], redemption[u][c], made[u]) /\ f[c].id <= made'[u]
  <2>1. made' = made
    BY DEF ClearRows
  <2>2. f[c] = NoRow \/ f[c] = redemption[u][c]
    OBVIOUS
  <2> HIDE DEF f
  <2>3. QED
    <3>1. CASE f[c] = NoRow
      BY <1>2, <2>1, <3>1, NoRowType DEF Replaces
    <3>2. CASE f[c] = redemption[u][c]
      BY <1>2, <2>1, <3>2 DEF Replaces
    <3>3. QED
      BY <2>2, <3>1, <3>2
<1>4. f \in [Codes -> Rows]
  <2>1. \A c \in Codes : f[c] \in Rows
    BY <1>3 DEF Replaces
  <2>2. QED
    BY <2>1
<1>5. redemption' = [redemption EXCEPT ![u] = f]
  BY DEF ClearRows
<1>6. pointer' \in [Users -> Nat] /\ made' = made
  BY DEF ClearRows, IInv, TypeOK, TenantOK
<1> HIDE DEF f
<1>7. TenantOK' /\ RowsEvolve
  BY <1>1, <1>3, <1>4, <1>5, <1>6, CustomerRows DEF IInv
<1>8. "clearHolds" \in Steps /\ "clearHolds" \notin CodeSteps \cup RowSteps \cup {"activate", "apply"}
  BY DEF Steps, CodeSteps, RowSteps
<1>9. QED
  BY <1>1, <1>7, <1>8, RowsGoto DEF ClearRows

LEMMA NewRowType ==
    ASSUME TypeOK, NEW u \in Users, NEW status \in {"pending", "active"}
    PROVE  /\ NewRow(u, status) \in Rows
           /\ NewRow(u, status).id = made[u] + 1
           /\ NewRow(u, status).status = status
<1> DEFINE id == made[u] + 1
<1>1. id \in Nat /\ NewRow(u, status) = [NoRow EXCEPT !.id = id, !.status = status]
  BY DEF NewRow, TypeOK, TenantOK
<1> HIDE DEF id
<1>2. /\ [NoRow EXCEPT !.id = id, !.status = status] \in Rows
      /\ [NoRow EXCEPT !.id = id, !.status = status].id = id
      /\ [NoRow EXCEPT !.id = id, !.status = status].status = status
  BY <1>1, NoRowType DEF Rows, Spent, Ended
<1>3. QED
  BY <1>1, <1>2 DEF id

\* A row that is new.
LEMMA Created ==
    ASSUME TypeOK, NEW u \in Users, NEW c \in Codes, NEW status \in {"pending", "active"},
           made' = [made EXCEPT ![u] = @ + 1]
    PROVE  /\ Replaces(NewRow(u, status), redemption[u][c], made[u])
           /\ NewRow(u, status).id <= made'[u]
           /\ made'[u] = made[u] + 1
<1>1. made[u] \in Nat /\ made'[u] = made[u] + 1
  BY DEF TypeOK, TenantOK
<1>2. QED
  BY <1>1, NewRowType DEF Replaces

LEMMA ReserveStep ==
    ASSUME IInv, NEW h \in Handlers, Reserve(h) PROVE IInv'
<1>1. job[h].step = "reserve" /\ job[h].user \in Users /\ job[h].code \in Codes
  BY Running DEF Reserve, At, CodeSteps
<1>2. "hold" \in Steps /\ "save" \in Steps
      /\ "hold" \notin RowSteps \cup {"activate", "apply"} /\ "save" \notin RowSteps \cup {"activate", "apply"}
  BY DEF Steps, RowSteps
<1>3. CASE UNCHANGED <<redemption, made>>
  <2>1. UNCHANGED tenantVars
    BY <1>3 DEF Reserve, tenantVars
  <2>2. Goto(h, "hold") \/ Goto(h, "save") \/ Done(h)
    BY DEF Reserve
  <2>3. QED
    BY <1>1, <1>2, <2>1, <2>2, Same, DoneStep, GotoStep DEF Reserve, boundVars
<1>4. CASE /\ redemption' = [redemption EXCEPT ![job[h].user][job[h].code] =
                                NewRow(job[h].user, "pending")]
           /\ made' = [made EXCEPT ![job[h].user] = @ + 1]
           /\ Goto(h, "hold")
  <2> DEFINE r == NewRow(job[h].user, "pending")
             u == job[h].user
             c == job[h].code
  <2>1. Replaces(r, redemption[u][c], made[u]) /\ r.id <= made'[u]
    BY <1>1, <1>4, Created DEF IInv
  <2>2. redemption' = [redemption EXCEPT ![u][c] = r]
    BY <1>4
  <2>3. pointer' \in [Users -> Nat]
    BY DEF Reserve, IInv, TypeOK, TenantOK
  <2> HIDE DEF r
  <2>4. TenantOK' /\ RowsEvolve
    BY <1>1, <1>4, <2>1, <2>2, <2>3, OneRow DEF IInv
  <2>5. QED
    BY <1>1, <1>2, <1>4, <2>4, RowsGoto DEF Reserve
<1>5. QED
  BY <1>3, <1>4 DEF Reserve

LEMMA RebuildStep ==
    ASSUME IInv, NEW h \in Handlers, Rebuild(h) PROVE IInv'
<1>1. job[h].step = "rebuild" /\ job[h].user \in Users /\ job[h].code \in Codes
  BY Running DEF Rebuild, At, CodeSteps
<1>2. CASE NotActivated(h) /\ UNCHANGED <<redemption, made>>
  BY <1>1, <1>2, NotActivatedStep DEF Rebuild, tenantVars
<1>3. CASE /\ redemption' = [redemption EXCEPT ![job[h].user][job[h].code] =
                                NewRow(job[h].user, "pending")]
           /\ made' = [made EXCEPT ![job[h].user] = @ + 1]
           /\ Activates(h, job[h].code, made[job[h].user] + 1)
  <2> DEFINE r == NewRow(job[h].user, "pending")
             u == job[h].user
             c == job[h].code
             id == made[u] + 1
  <2>1. /\ Replaces(r, redemption[u][c], made[u]) /\ r.id <= made'[u]
        /\ made'[u] = id
    BY <1>1, <1>3, Created DEF IInv
  <2>2. redemption' = [redemption EXCEPT ![u][c] = r]
    BY <1>3
  <2>3. pointer' \in [Users -> Nat]
    BY DEF Rebuild, IInv, TypeOK, TenantOK
  <2>4. made[u] \in Nat
    BY <1>1 DEF IInv, TypeOK, TenantOK
  <2>5. id \in Nat /\ id > 0 /\ id <= made'[u] /\ Activates(h, c, id)
    BY <1>3, <2>1, <2>4
  <2> HIDE DEF r, id
  <2>6. TenantOK' /\ RowsEvolve
    BY <1>1, <1>3, <2>1, <2>2, <2>3, OneRow DEF IInv
  <2>7. PICK j \in Jobs : Become(h, j) /\ JobOK(j, redemption', made')
    BY <1>1, <2>5, ActivatesOK
  <2>8. QED
    BY <2>6, <2>7, Same, Frame DEF Rebuild, boundVars
<1>4. QED
  BY <1>2, <1>3 DEF Rebuild

LEMMA LockStep ==
    ASSUME IInv, NEW h \in Handlers, LockProfile(h) PROVE IInv'
<1>1. /\ job[h].step \in {"activate", "grant"} /\ job[h] \in Jobs /\ job[h].user \in Users
      /\ job[h].row <= made[job[h].user] /\ job[h].code \in Codes
      /\ JobOK(job[h], redemption, made)
  BY Running DEF LockProfile, CodeSteps
<1>2. PICK s \in {"apply", "replace"} :
          /\ job[h].step = "grant" => s = "replace"
          /\ Become(h, [job[h] EXCEPT !.step = s, !.ends = LiveCodes(job[h].user)])
  BY <1>1 DEF LockProfile
<1>3. PICK es \in SUBSET Codes : es = LiveCodes(job[h].user)
  BY DEF LiveCodes
<1> DEFINE j == [job[h] EXCEPT !.step = s, !.ends = es]
<1>4. j \in Jobs
  BY <1>1 DEF Jobs, Steps
<1>5. JobOK(j, redemption, made)
  BY <1>1, <1>2 DEF JobOK, Jobs, RowSteps
<1>6. Become(h, j)
  BY <1>2, <1>3
<1> HIDE DEF j
<1>7. QED
  BY <1>4, <1>5, <1>6, Same, FrameRows DEF LockProfile, boundVars

LEMMA ActivateStep ==
    ASSUME IInv, NEW h \in Handlers, Activate(h) PROVE IInv'
<1>1. /\ job[h].step = "apply" /\ job[h].user \in Users /\ job[h].code \in Codes
      /\ job[h] \in Jobs /\ job[h].row \in Nat /\ job[h].row > 0
  BY Running DEF Activate, At, CodeSteps, JobOK
<1>2. CASE Done(h) /\ UNCHANGED <<redemption, pointer>>
  BY <1>2, Same, DoneStep DEF Activate, tenantVars, boundVars
<1>3. CASE /\ redemption[job[h].user][job[h].code].id = job[h].row
           /\ Supersede(h, [redemption[job[h].user][job[h].code] EXCEPT !.status = "active",
                                                                        !.stale = FALSE])
           /\ pointer' = [pointer EXCEPT ![job[h].user] = job[h].row]
           /\ Begun(h)
  <2> DEFINE u == job[h].user
             c == job[h].code
             old == redemption[u][c]
             r == [old EXCEPT !.status = "active", !.stale = FALSE]
  <2>1. old \in Rows /\ old.id = job[h].row /\ old.id <= made[u] /\ made' = made
    BY <1>1, <1>3 DEF IInv, TypeOK, TenantOK, Activate
  <2> HIDE DEF old
  <2>2. r \in Rows /\ r.id = old.id /\ r.status = "active"
    BY <2>1 DEF Rows, Spent, Ended
  <2>3. Supersede(h, r)
    BY <1>3 DEF old
  <2>4. pointer' \in [Users -> Nat]
    BY <1>1, <1>3 DEF IInv, TypeOK, TenantOK
  <2> HIDE DEF r
  <2>5. Replaces(r, redemption[u][c], made[u]) /\ r.id <= made'[u]
    BY <1>1, <2>1, <2>2 DEF Replaces, Spent, old
  <2>6. TenantOK' /\ RowsEvolve
    BY <1>1, <2>1, <2>3, <2>4, <2>5, Superseded DEF IInv
  <2>7. QED
    BY <1>1, <1>3, <2>6, RowsBegun DEF Activate
<1>4. QED
  BY <1>2, <1>3 DEF Activate

LEMMA GrantStep ==
    ASSUME IInv, NEW h \in Handlers, Grant(h) PROVE IInv'
<1>1. job[h].step = "replace" /\ job[h].user \in Users /\ job[h].code \in Codes
  BY Running DEF Grant, At, CodeSteps
<1>2. CASE Done(h) /\ UNCHANGED tenantVars
  BY <1>2, Same, DoneStep DEF Grant, boundVars
<1>3. CASE /\ Supersede(h, NewRow(job[h].user, "active"))
           /\ made' = [made EXCEPT ![job[h].user] = @ + 1]
           /\ pointer' = [pointer EXCEPT ![job[h].user] = made[job[h].user] + 1]
           /\ Begun(h)
  <2> DEFINE u == job[h].user
             c == job[h].code
             r == NewRow(u, "active")
  <2>1. Replaces(r, redemption[u][c], made[u]) /\ r.id <= made'[u]
    BY <1>1, <1>3, Created DEF IInv
  <2>2. Supersede(h, r)
    BY <1>3
  <2>3. pointer' \in [Users -> Nat]
    BY <1>1, <1>3 DEF IInv, TypeOK, TenantOK
  <2> HIDE DEF r
  <2>4. TenantOK' /\ RowsEvolve
    BY <1>1, <1>3, <2>1, <2>2, <2>3, Superseded DEF IInv
  <2>5. QED
    BY <1>1, <1>3, <2>4, RowsBegun DEF Grant
<1>4. QED
  BY <1>2, <1>3 DEF Grant

LEMMA RepointStep ==
    ASSUME IInv, NEW h \in Handlers, Repoint(h) PROVE IInv'
<1>1. /\ job[h].step = "repoint" /\ job[h].step \in BestEffort
      /\ job[h].user \in Users /\ job[h] \in Jobs /\ job[h].row \in Nat
  BY Running DEF Repoint, At, BestEffort
<1> DEFINE u == job[h].user
           rows == redemption[u]
           f == [c \in Codes |->
                    IF rows[c].status = "active" /\ rows[c].id # job[h].row
                    THEN [rows[c] EXCEPT !.status = "revoked"] ELSE rows[c]]
<1>2. /\ rows \in [Codes -> Rows] /\ made \in [Users -> Nat] /\ made' = made
      /\ \A c \in Codes :
            /\ rows[c].id <= made[u]
            /\ rows[c].status = "none" <=> rows[c].id = 0
  BY <1>1 DEF IInv, TypeOK, TenantOK, Repoint
<1>3. redemption' = [redemption EXCEPT ![u] = f]
  BY DEF Repoint
<1>4. ASSUME NEW c \in Codes
      PROVE  Replaces(f[c], rows[c], made[u]) /\ f[c].id <= made'[u]
  <2>1. CASE rows[c].status = "active" /\ rows[c].id # job[h].row
    <3>1. f[c] = [rows[c] EXCEPT !.status = "revoked"]
      BY <2>1
    <3>2. f[c] \in Rows /\ f[c].id = rows[c].id /\ f[c].status = "revoked"
      BY <1>2, <3>1 DEF Rows, Spent, Ended
    <3> HIDE DEF f
    <3>3. QED
      BY <1>2, <2>1, <3>2 DEF Replaces, Spent, Ended
  <2>2. CASE ~(rows[c].status = "active" /\ rows[c].id # job[h].row)
    <3>1. f[c] = rows[c]
      BY <2>2
    <3> HIDE DEF f
    <3>2. QED
      BY <1>2, <3>1 DEF Replaces
  <2>3. QED
    BY <2>1, <2>2
<1>5. f \in [Codes -> Rows]
  <2>1. \A c \in Codes : f[c] \in Rows
    BY <1>4 DEF Replaces
  <2>2. QED
    BY <2>1
<1>6. pointer' \in [Users -> Nat]
  BY <1>1 DEF Repoint, IInv, TypeOK, TenantOK
<1> HIDE DEF f
<1>7. TenantOK' /\ RowsEvolve
  BY <1>1, <1>2, <1>3, <1>4, <1>5, <1>6, CustomerRows DEF IInv
<1>8. PICK j \in Jobs : Become(h, j) /\ JobOK(j, redemption, made)
  BY <1>1, ContinueOK DEF Repoint
<1>9. QED
  BY <1>7, <1>8, FrameKept DEF Repoint

LEMMA CountCycleStep ==
    ASSUME IInv, NEW h \in Handlers, CountCycle(h) PROVE IInv'
<1>1. /\ job[h].step = "countCycle" /\ job[h].user \in Users /\ job[h].code \in Codes
      /\ job[h] \in Jobs /\ job[h].used \in Nat /\ job[h].bill \in Nat /\ job[h].row > 0
      /\ JobOK(job[h], redemption, made)
  BY Running DEF CountCycle, At, CodeSteps, RowSteps, JobOK, Jobs
<1> DEFINE u == job[h].user
           c == job[h].code
           old == redemption[u][c]
           counted == [old EXCEPT !.used = job[h].used + 1, !.inv = job[h].bill]
           ended == [counted EXCEPT !.status = "exhausted"]
<1>2. CASE Done(h) /\ UNCHANGED <<redemption, pointer>>
  BY <1>2, Same, DoneStep DEF CountCycle, tenantVars, boundVars
<1>3. ASSUME old.id = job[h].row, NEW r \in {counted, ended},
             redemption' = [redemption EXCEPT ![u][c] = r],
             pointer' = pointer \/ pointer' = [pointer EXCEPT ![u] = 0],
             Done(h) \/ Goto(h, "ensure") \/ Goto(h, "detach")
      PROVE  IInv'
  <2>1. old \in Rows /\ old.status \in Spent /\ old.id <= made[u] /\ made' = made
    BY <1>1, <1>3 DEF IInv, TypeOK, TenantOK, JobOK, RowSteps, CountCycle
  <2> HIDE DEF old
  <2> DEFINE n == job[h].used + 1
             b == job[h].bill
  <2> n \in Nat /\ b \in Nat
    BY <1>1
  <2> HIDE DEF n, b
  <2>2. /\ [old EXCEPT !.used = n, !.inv = b] \in Rows
        /\ [old EXCEPT !.used = n, !.inv = b].id = old.id
        /\ [old EXCEPT !.used = n, !.inv = b].status = old.status
    BY <2>1 DEF Rows
  <2>3. counted \in Rows /\ counted.id = old.id /\ counted.status = old.status
    BY <2>2 DEF n, b
  <2> HIDE DEF counted
  <2>4. ended \in Rows /\ ended.id = old.id /\ ended.status = "exhausted"
    BY <2>3 DEF Rows, Spent, Ended
  <2> HIDE DEF ended
  <2>5. r \in Rows /\ r.id = old.id /\ r.status \in Spent
    BY <1>3, <2>1, <2>3, <2>4 DEF Spent, Ended
  <2>6. Replaces(r, redemption[u][c], made[u]) /\ r.id <= made'[u]
    BY <1>1, <1>3, <2>1, <2>5 DEF Replaces, Spent, Ended, old
  <2>7. pointer' \in [Users -> Nat]
    BY <1>1, <1>3 DEF IInv, TypeOK, TenantOK
  <2>8. TenantOK' /\ RowsEvolve
    BY <1>1, <1>3, <2>1, <2>6, <2>7, OneRow DEF IInv
  <2>9. {"ensure", "detach"} \subseteq Steps \ (RowSteps \cup {"activate", "apply"})
    BY DEF Steps, RowSteps
  <2>10. QED
    BY <1>1, <1>3, <2>8, <2>9, RowsDone, RowsGoto DEF CountCycle
<1>4. QED
  BY <1>2, <1>3 DEF CountCycle

LEMMA RemoveStep ==
    ASSUME IInv, NEW h \in Handlers, Remove(h) PROVE IInv'
<1>1. /\ job[h].step = "remove" /\ job[h].user \in Users /\ job[h].code \in Codes
      /\ job[h] \in Jobs /\ job[h].row > 0 /\ job[h].row <= made[job[h].user]
  BY Running DEF Remove, At, CodeSteps, RowSteps, JobOK
<1> DEFINE u == job[h].user
           c == job[h].code
           old == redemption[u][c]
           revoked == [old EXCEPT !.status = "revoked"]
<1>2. CASE Done(h) /\ UNCHANGED <<redemption, pointer>>
  BY <1>2, Same, DoneStep DEF Remove, tenantVars, boundVars
<1>3. ASSUME old.id = job[h].row, NEW r \in {NoRow, revoked}, NEW s \in {"giveBack", "detach"},
             redemption' = [redemption EXCEPT ![u][c] = r],
             pointer' = [pointer EXCEPT ![u] = 0],
             Become(h, [job[h] EXCEPT !.step = s, !.sub = sub[u]])
      PROVE  IInv'
  <2>1. old \in Rows /\ old.id <= made[u] /\ made[u] \in Nat /\ made' = made
    BY <1>1, <1>3 DEF IInv, TypeOK, TenantOK, Remove
  <2> HIDE DEF old
  <2>2. revoked \in Rows /\ revoked.id = old.id /\ revoked.status = "revoked"
    BY <2>1 DEF Rows, Spent, Ended
  <2> HIDE DEF revoked
  <2>3. Replaces(r, redemption[u][c], made[u]) /\ r.id <= made'[u]
    <3>1. CASE r = NoRow
      BY <2>1, <3>1, NoRowType DEF Replaces
    <3>2. CASE r = revoked
      BY <1>1, <1>3, <2>1, <2>2, <3>2 DEF Replaces, Spent, Ended, old
    <3>3. QED
      BY <1>3, <3>1, <3>2
  <2>4. pointer' \in [Users -> Nat]
    BY <1>1, <1>3 DEF IInv, TypeOK, TenantOK
  <2>5. TenantOK' /\ RowsEvolve
    BY <1>1, <1>3, <2>1, <2>3, <2>4, OneRow DEF IInv
  <2> DEFINE n == sub[u]
             j == [job[h] EXCEPT !.step = s, !.sub = n]
  <2>6. n \in Nat
    BY <1>1 DEF IInv, TypeOK, StripeOK
  <2>7. Become(h, j)
    BY <1>3
  <2> HIDE DEF n
  <2>8. j \in Jobs /\ j.step = s /\ j.user = u /\ j.code = c /\ j.row = job[h].row
    BY <1>1, <2>6 DEF Jobs, Steps
  <2> HIDE DEF j
  <2>9. JobOK(j, redemption, made)
    BY <1>1, <2>8 DEF JobOK, CodeSteps, RowSteps
  <2>10. QED
    BY <2>5, <2>7, <2>8, <2>9, FrameKept DEF Remove
<1>4. QED
  BY <1>2, <1>3 DEF Remove

LEMMA SweepStep ==
    ASSUME IInv, NEW h \in Handlers, Sweep(h) PROVE IInv'
<1> DEFINE row(u, c) == IF redemption[u][c].status = "pending" /\ redemption[u][c].stale
                        THEN NoRow ELSE redemption[u][c]
<1>1. /\ redemption \in [Users -> [Codes -> Rows]] /\ made \in [Users -> Nat]
      /\ made' = made /\ pointer' = pointer /\ pointer \in [Users -> Nat]
      /\ \A u \in Users : \A c \in Codes :
            /\ redemption[u][c].id <= made[u]
            /\ redemption[u][c].status = "none" <=> redemption[u][c].id = 0
  BY DEF IInv, TypeOK, TenantOK, Sweep
<1>2. redemption' = [u \in Users |-> [c \in Codes |-> row(u, c)]]
  BY DEF Sweep
<1>3. ASSUME NEW u \in Users, NEW c \in Codes
      PROVE  /\ row(u, c) \in Rows
             /\ row(u, c).id <= made[u]
             /\ row(u, c).status = "none" <=> row(u, c).id = 0
             /\ row(u, c).id = 0 \/ row(u, c) = redemption[u][c]
  BY <1>1, NoRowType
<1> HIDE DEF row
<1>4. TenantOK'
  BY <1>1, <1>2, <1>3 DEF TenantOK
<1>5. RowsEvolve
  BY <1>1, <1>2, <1>3 DEF RowsEvolve, RowStep
<1> DEFINE j == [Idle EXCEPT !.step = "sweepHolds", !.kind = "sweep"]
<1>6. j \in Jobs /\ j.step = "sweepHolds"
  BY IdleType DEF Jobs, Steps, Kinds
<1>7. JobOK(j, redemption, made)
  BY <1>6 DEF JobOK, CodeSteps, RowSteps
<1>8. Become(h, j)
  BY DEF Sweep
<1> HIDE DEF j
<1>9. QED
  BY <1>4, <1>5, <1>6, <1>7, <1>8, FrameKept DEF Sweep

LEMMA OutsideStep ==
    ASSUME IInv, NEW u \in Users, Charge(u) \/ \E c \in Codes : Expire(u, c)
    PROVE  IInv'
<1>1. CASE Charge(u)
  <2>1. StripeOK'
    <3>1. cards' \subseteq Users
      BY <1>1 DEF Charge, IInv, TypeOK, StripeOK
    <3>2. QED
      BY <1>1, <3>1, PaysType DEF Charge
  <2>2. TypeOK'
    BY <1>1, <2>1 DEF Charge, tenantVars, mainVars, boundVars, IInv, TypeOK, TenantOK, MainOK
  <2>3. HandlerInv'
    BY <1>1 DEF Charge, tenantVars, IInv, HandlerInv, JobOK
  <2>4. QED
    BY <2>2, <2>3 DEF IInv
<1>2. ASSUME NEW c \in Codes, Expire(u, c) PROVE IInv'
  <2> DEFINE old == redemption[u][c]
             stale == old.status = "pending"
             r == [old EXCEPT !.stale = stale]
  <2>1. old \in Rows /\ old.id <= made[u] /\ (old.status = "none" <=> old.id = 0)
    BY DEF IInv, TypeOK, TenantOK
  <2>2. redemption' = [redemption EXCEPT ![u][c].stale = stale]
    BY <1>2 DEF Expire
  <2>3. redemption' = [redemption EXCEPT ![u][c] = r]
    BY <2>2
  <2>4. stale \in BOOLEAN
    OBVIOUS
  <2> HIDE DEF old, stale
  <2>5. r \in Rows /\ r.id = old.id /\ r.status = old.status
    BY <2>1, <2>4 DEF Rows
  <2> HIDE DEF r
  <2>6. Replaces(r, redemption[u][c], made[u]) /\ r.id <= made'[u] /\ made' = made
    BY <1>2, <2>1, <2>5 DEF Replaces, Expire, old
  <2>7. pointer' \in [Users -> Nat]
    BY <1>2 DEF IInv, TypeOK, TenantOK, Expire
  <2>8. TenantOK' /\ RowsEvolve
    BY <2>3, <2>6, <2>7, OneRow DEF IInv
  <2>9. MainOK'
    BY <1>2, HoldType DEF Expire, IInv, TypeOK, MainOK
  <2>10. TypeOK'
    BY <1>2, <2>8, <2>9, Same DEF Expire, IInv, TypeOK, boundVars
  <2>11. \A k \in Handlers : JobOK(job[k], redemption', made')
    BY <2>8, JobKept DEF IInv, HandlerInv, TypeOK
  <2>12. QED
    BY <1>2, <2>10, <2>11 DEF IInv, HandlerInv, Expire
<1>3. QED
  BY <1>1, <1>2

--------------------------------------------------------------------------------
(* The invariant, and the types.                                           *)

LEMMA InitIInv == Init => IInv
<1> SUFFICES ASSUME Init PROVE IInv
  OBVIOUS
<1>1. TenantOK
  BY NoRowType DEF Init, TenantOK
<1>2. MainOK
  BY DEF Init, MainOK
<1>3. StripeOK
  BY CouponAssumption DEF Init, StripeOK, CouponAssumption
<1>4. job \in [Handlers -> Jobs] /\ HandlerInv
  BY IdleType DEF Init, HandlerInv
<1>5. requests \in 0..MaxRequests /\ faults \in 0..MaxFaults
  BY CouponAssumption DEF Init, CouponAssumption
<1>6. QED
  BY <1>1, <1>2, <1>3, <1>4, <1>5 DEF IInv, TypeOK

LEMMA HandlerStepIInv ==
    ASSUME IInv, NEW h \in Handlers, HandlerStep(h) PROVE IInv'
BY ClearRowsStep, ClearHoldsStep, DiscountStep, ReadSupplyStep, ReserveStep, HoldStep, SaveStep,
   FindPendingStep, RebuildStep, LockStep, ActivateStep, TallyStep, GrantStep, LiveReadStep, RepointStep,
   CountCycleStep, RemoveStep, DriftStep, SweepHoldsStep
   DEF HandlerStep

LEMMA NextIInv == IInv /\ [Next]_vars => IInv'
<1> SUFFICES ASSUME IInv, [Next]_vars PROVE IInv'
  OBVIOUS
<1>1. CASE UNCHANGED vars
  BY <1>1 DEF vars, tenantVars, mainVars, stripeVars, boundVars, IInv, TypeOK, TenantOK, MainOK,
              StripeOK, HandlerInv, JobOK
<1>2. ASSUME NEW u \in Users, Charge(u) \/ \E c \in Codes : Expire(u, c) PROVE IInv'
  BY <1>2, OutsideStep
<1>3. ASSUME NEW h \in Requests, NEW u \in Users, Request(h, u) PROVE IInv'
  BY <1>3, RequestStep
<1>4. ASSUME NEW h \in Hooks, Hook(h) PROVE IInv'
  BY <1>4, SweepStep, SettleStep DEF Hook, Handlers
<1>5. ASSUME NEW h \in Handlers, HandlerStep(h) PROVE IInv'
  BY <1>5, HandlerStepIInv
<1>6. ASSUME NEW h \in Handlers, Stops(h) \/ PassedOver(h) PROVE IInv'
  BY <1>6, FaultStep
<1>7. QED
  BY <1>1, <1>2, <1>3, <1>4, <1>5, <1>6 DEF Next

LEMMA SpecIInv == Spec => []IInv
BY InitIInv, NextIInv, PTL DEF Spec

\* Every row, count and handler keeps its shape, whatever handlers cross and
\* calls fail: a row's identity is there exactly while the row is, and none is
\* ahead of the rows created (prisma model BrandCouponRedemption).
THEOREM TypeCorrect == Spec => []TypeOK
<1>1. IInv => TypeOK
  BY DEF IInv
<1>2. QED
  BY <1>1, SpecIInv, PTL

--------------------------------------------------------------------------------
(* Where redemptions begin and are spent.                                  *)

\* No row becomes live, and none is spent that was not.
Calm ==
    \A u \in Users : \A c \in Codes :
        /\ redemption'[u][c].status = "active" => redemption[u][c].status = "active"
        /\ redemption'[u][c].status \in Spent => redemption[u][c].status \in Spent

Begins(h) == Activate(h) \/ Grant(h)

\* A row that may be taken for another's.
Calms(r, old) ==
    /\ r.status = "active" => old.status = "active"
    /\ r.status \in Spent => old.status \in Spent

LEMMA CalmRows ==
    ASSUME TypeOK, NEW u \in Users, NEW f, redemption' = [redemption EXCEPT ![u] = f],
           \A c \in Codes : Calms(f[c], redemption[u][c])
    PROVE  Calm
<1>1. redemption \in [Users -> [Codes -> Rows]]
  BY DEF TypeOK, TenantOK
<1>2. redemption'[u] = f /\ \A v \in Users : v # u => redemption'[v] = redemption[v]
  BY <1>1
<1>3. QED
  BY <1>2 DEF Calm, Calms

LEMMA CalmRow ==
    ASSUME TypeOK, NEW u \in Users, NEW c \in Codes, NEW r,
           redemption' = [redemption EXCEPT ![u][c] = r], Calms(r, redemption[u][c])
    PROVE  Calm
<1> DEFINE f == [redemption[u] EXCEPT ![c] = r]
<1>1. redemption[u] \in [Codes -> Rows]
  BY DEF TypeOK, TenantOK
<1>2. f[c] = r /\ \A d \in Codes : d # c => f[d] = redemption[u][d]
  BY <1>1
<1>3. redemption' = [redemption EXCEPT ![u] = f]
  OBVIOUS
<1> HIDE DEF f
<1>4. \A d \in Codes : Calms(f[d], redemption[u][d])
  BY <1>2 DEF Calms
<1>5. QED
  BY <1>3, <1>4, CalmRows

LEMMA CalmCreate ==
    ASSUME IInv, NEW h \in Handlers, Reserve(h) \/ Rebuild(h) PROVE Calm
<1>1. job[h].user \in Users /\ job[h].code \in Codes
  BY Running DEF Reserve, Rebuild, At, CodeSteps
<1>2. CASE UNCHANGED redemption
  BY <1>2 DEF Calm
<1>3. CASE redemption' = [redemption EXCEPT ![job[h].user][job[h].code] =
                              NewRow(job[h].user, "pending")]
  <2>1. NewRow(job[h].user, "pending").status = "pending"
    BY <1>1, NewRowType DEF IInv
  <2>2. Calms(NewRow(job[h].user, "pending"), redemption[job[h].user][job[h].code])
    BY <2>1 DEF Calms, Spent, Ended
  <2>3. QED
    BY <1>1, <1>3, <2>2, CalmRow DEF IInv
<1>4. QED
  BY <1>2, <1>3 DEF Reserve, Rebuild

LEMMA CalmClear ==
    ASSUME IInv, NEW h \in Handlers, ClearRows(h) PROVE Calm
<1> DEFINE u == job[h].user
           f == [c \in Codes |->
                    IF redemption[u][c].status = "pending" /\ c # job[h].code THEN NoRow
                    ELSE redemption[u][c]]
<1>1. u \in Users
  BY Running DEF ClearRows, At
<1>2. ASSUME NEW c \in Codes PROVE Calms(f[c], redemption[u][c])
  <2>1. f[c] = NoRow \/ f[c] = redemption[u][c]
    OBVIOUS
  <2> HIDE DEF f
  <2>2. QED
    BY <2>1, NoRowType DEF Calms, Spent, Ended
<1>3. redemption' = [redemption EXCEPT ![u] = f]
  BY DEF ClearRows
<1> HIDE DEF f
<1>4. QED
  BY <1>1, <1>2, <1>3, CalmRows DEF IInv

LEMMA CalmRepoint ==
    ASSUME IInv, NEW h \in Handlers, Repoint(h) PROVE Calm
<1> DEFINE u == job[h].user
           rows == redemption[u]
           f == [c \in Codes |->
                    IF rows[c].status = "active" /\ rows[c].id # job[h].row
                    THEN [rows[c] EXCEPT !.status = "revoked"] ELSE rows[c]]
<1>1. u \in Users
  BY Running DEF Repoint, At
<1>2. rows \in [Codes -> Rows]
  BY <1>1 DEF IInv, TypeOK, TenantOK
<1>3. ASSUME NEW c \in Codes PROVE Calms(f[c], rows[c])
  <2>1. CASE rows[c].status = "active"
    BY <2>1 DEF Calms, Spent
  <2>2. CASE rows[c].status # "active"
    BY <2>2 DEF Calms
  <2>3. QED
    BY <2>1, <2>2
<1>4. redemption' = [redemption EXCEPT ![u] = f]
  BY DEF Repoint
<1> HIDE DEF f
<1>5. QED
  BY <1>1, <1>3, <1>4, CalmRows DEF IInv

LEMMA CalmCount ==
    ASSUME IInv, NEW h \in Handlers, CountCycle(h) PROVE Calm
<1>1. job[h].user \in Users /\ job[h].code \in Codes /\ JobOK(job[h], redemption, made)
  BY Running DEF CountCycle, At, CodeSteps
<1> DEFINE u == job[h].user
           c == job[h].code
           old == redemption[u][c]
           counted == [old EXCEPT !.used = job[h].used + 1, !.inv = job[h].bill]
           ended == [counted EXCEPT !.status = "exhausted"]
<1>2. CASE UNCHANGED redemption
  BY <1>2 DEF Calm
<1>3. ASSUME old.id = job[h].row, NEW r \in {counted, ended},
             redemption' = [redemption EXCEPT ![u][c] = r]
      PROVE  Calm
  <2>1. old \in Rows /\ old.status \in Spent
    BY <1>1, <1>3 DEF IInv, TypeOK, TenantOK, JobOK, RowSteps, CountCycle, At
  <2> HIDE DEF old
  <2>2. counted.status = old.status
    BY <2>1 DEF Rows
  <2>3. ended.status = "exhausted"
    BY <2>1 DEF Rows
  <2> HIDE DEF counted, ended
  <2>4. Calms(r, old)
    BY <1>3, <2>1, <2>2, <2>3 DEF Calms
  <2>5. QED
    BY <1>1, <1>3, <2>4, CalmRow DEF IInv, old
<1>4. QED
  BY <1>2, <1>3 DEF CountCycle

LEMMA CalmRemove ==
    ASSUME IInv, NEW h \in Handlers, Remove(h) PROVE Calm
<1>1. job[h].user \in Users /\ job[h].code \in Codes /\ JobOK(job[h], redemption, made)
  BY Running DEF Remove, At, CodeSteps
<1> DEFINE u == job[h].user
           c == job[h].code
           old == redemption[u][c]
           revoked == [old EXCEPT !.status = "revoked"]
<1>2. CASE UNCHANGED redemption
  BY <1>2 DEF Calm
<1>3. ASSUME old.id = job[h].row, NEW r \in {NoRow, revoked},
             redemption' = [redemption EXCEPT ![u][c] = r]
      PROVE  Calm
  <2>1. old \in Rows /\ old.status \in Spent
    BY <1>1, <1>3 DEF IInv, TypeOK, TenantOK, JobOK, RowSteps, Remove, At
  <2> HIDE DEF old
  <2>2. revoked.status = "revoked"
    BY <2>1 DEF Rows
  <2> HIDE DEF revoked
  <2>3. Calms(r, old)
    BY <1>3, <2>1, <2>2, NoRowType DEF Calms, Spent, Ended
  <2>4. QED
    BY <1>1, <1>3, <2>3, CalmRow DEF IInv, old
<1>4. QED
  BY <1>2, <1>3 DEF Remove

LEMMA CalmSweep ==
    ASSUME IInv, NEW h \in Handlers, Sweep(h) PROVE Calm
<1>1. \A u \in Users : \A c \in Codes :
          redemption'[u][c] = NoRow \/ redemption'[u][c] = redemption[u][c]
  BY DEF Sweep
<1>2. QED
  BY <1>1, NoRowType DEF Calm, Spent, Ended

LEMMA CalmExpire ==
    ASSUME IInv, NEW u \in Users, NEW c \in Codes, Expire(u, c) PROVE Calm
<1> DEFINE stale == redemption[u][c].status = "pending"
           r == [redemption[u][c] EXCEPT !.stale = stale]
<1>1. redemption' = [redemption EXCEPT ![u][c].stale = stale]
  BY DEF Expire
<1>2. redemption' = [redemption EXCEPT ![u][c] = r]
  BY <1>1
<1>3. redemption[u][c] \in Rows
  BY DEF IInv, TypeOK, TenantOK
<1> HIDE DEF stale
<1>4. r.status = redemption[u][c].status
  BY <1>3 DEF Rows
<1> HIDE DEF r
<1>5. QED
  BY <1>2, <1>4, CalmRow DEF IInv, Calms

\* Only a confirmation and a grant begin a redemption.
LEMMA CalmStep ==
    ASSUME IInv, [Next]_vars PROVE Calm \/ \E h \in Handlers : Begins(h)
<1>1. ASSUME UNCHANGED redemption PROVE Calm
  BY <1>1 DEF Calm
<1>2. ASSUME NEW h \in Handlers, HandlerStep(h) PROVE Calm \/ Begins(h)
  <2>1. \/ UNCHANGED redemption \/ ClearRows(h) \/ Reserve(h) \/ Rebuild(h) \/ Begins(h)
        \/ Repoint(h) \/ CountCycle(h) \/ Remove(h)
    BY <1>2 DEF HandlerStep, ClearHolds, Attach, ReadSupply, Hold, Save, FindPending, LockProfile, CountUp,
                DropHold, Sync, LiveRead, Ensure, Detach, GiveBack, Drift, SweepHolds, Begins,
                tenantVars
  <2>2. QED
    BY <2>1, <1>1, CalmClear, CalmCreate, CalmRepoint, CalmCount, CalmRemove
<1>3. ASSUME NEW h \in Requests, NEW u \in Users, Request(h, u) PROVE Calm
  BY <1>1, <1>3 DEF Request, Subscribe, Confirm, RevokeRequest, GrantRead, tenantVars
<1>4. ASSUME NEW h \in Hooks, Hook(h) PROVE Calm
  BY <1>1, <1>4, CalmSweep DEF Hook, Handlers, Settle, Reconcile, tenantVars
<1>5. ASSUME NEW u \in Users, Charge(u) \/ \E c \in Codes : Expire(u, c) PROVE Calm
  BY <1>1, <1>5, CalmExpire DEF Charge, tenantVars
<1>6. ASSUME NEW h \in Handlers, Stops(h) \/ PassedOver(h) PROVE Calm
  BY <1>1, <1>6 DEF Stops, PassedOver, tenantVars
<1>7. ASSUME UNCHANGED vars PROVE Calm
  BY <1>1, <1>7 DEF vars, tenantVars
<1>8. QED
  BY <1>2, <1>3, <1>4, <1>5, <1>6, <1>7 DEF Next

\* What begins a redemption spends no other.
LEMMA BeginsRows ==
    ASSUME IInv, NEW h \in Handlers, Begins(h)
    PROVE  \/ Calm /\ Done(h)
           \/ /\ \A u \in Users : \A c \in Codes : (u # job[h].user \/ c # job[h].code) =>
                     /\ redemption'[u][c].status = "active" =>
                            redemption[u][c].status = "active"
                            /\ (u = job[h].user => c \notin job[h].ends)
                     /\ redemption'[u][c].status \in Spent => redemption[u][c].status \in Spent
              /\ job[h].step # "countUp" /\ Begun(h)
<1>1. job[h].user \in Users /\ job[h].code \in Codes /\ job[h].step # "countUp"
  BY Running DEF Begins, Activate, Grant, At, CodeSteps
<1>2. ASSUME UNCHANGED redemption PROVE Calm
  BY <1>2 DEF Calm
<1>3. ASSUME NEW r, Supersede(h, r)
      PROVE  \A u \in Users : \A c \in Codes : (u # job[h].user \/ c # job[h].code) =>
                /\ redemption'[u][c].status = "active" =>
                       redemption[u][c].status = "active"
                       /\ (u = job[h].user => c \notin job[h].ends)
                /\ redemption'[u][c].status \in Spent => redemption[u][c].status \in Spent
  <2> DEFINE v == job[h].user
             f == [d \in Codes |->
                      IF d = job[h].code THEN r
                      ELSE IF d \in job[h].ends /\ redemption[v][d].status = "active"
                           THEN [redemption[v][d] EXCEPT !.status = "revoked"]
                           ELSE redemption[v][d]]
  <2>1. redemption \in [Users -> [Codes -> Rows]]
    BY DEF IInv, TypeOK, TenantOK
  <2>2. redemption' = [redemption EXCEPT ![v] = f]
    BY <1>3 DEF Supersede
  <2>3. redemption'[v] = f /\ \A u \in Users : u # v => redemption'[u] = redemption[u]
    BY <1>1, <2>1, <2>2
  <2>4. ASSUME NEW c \in Codes, c # job[h].code
        PROVE  /\ f[c].status = "active" =>
                      redemption[v][c].status = "active" /\ c \notin job[h].ends
               /\ f[c].status \in Spent => redemption[v][c].status \in Spent
    <3>1. redemption[v][c] \in Rows
      BY <1>1, <2>1
    <3>2. CASE c \in job[h].ends /\ redemption[v][c].status = "active"
      <4>1. f[c] = [redemption[v][c] EXCEPT !.status = "revoked"]
        BY <2>4, <3>2
      <4> HIDE DEF f
      <4>2. f[c].status = "revoked"
        BY <3>1, <4>1 DEF Rows
      <4>3. QED
        BY <3>2, <4>2 DEF Spent
    <3>3. CASE ~(c \in job[h].ends /\ redemption[v][c].status = "active")
      <4>1. f[c] = redemption[v][c]
        BY <2>4, <3>3
      <4> HIDE DEF f
      <4>2. QED
        BY <3>3, <4>1
    <3>4. QED
      BY <3>2, <3>3
  <2> HIDE DEF f
  <2>5. QED
    BY <2>3, <2>4
<1>4. QED
  BY <1>1, <1>2, <1>3 DEF Begins, Activate, Grant, tenantVars

--------------------------------------------------------------------------------
(* The tally covers the redemptions.                                       *)

Covered(c) == Cardinality(Redeemed(c)) + Cardinality(GivingBack(c))
                  <= redeemedCount[c] + Cardinality(Owing(c)) + faults

LEMMA AtMostOneMore ==
    ASSUME NEW S, NEW T, NEW x, IsFiniteSet(S), T \subseteq S \cup {x}
    PROVE  /\ IsFiniteSet(T) /\ Cardinality(T) \in Nat /\ Cardinality(S) \in Nat
           /\ Cardinality(T) <= Cardinality(S) + 1
<1>1. /\ IsFiniteSet(S \cup {x})
      /\ Cardinality(S \cup {x}) \in Nat /\ Cardinality(S) \in Nat
      /\ Cardinality(S \cup {x}) <= Cardinality(S) + 1
  BY FS_AddElement, FS_CardinalityType
<1>2. IsFiniteSet(T) /\ Cardinality(T) <= Cardinality(S \cup {x}) /\ Cardinality(T) \in Nat
  BY <1>1, FS_Subset, FS_CardinalityType
<1>3. QED
  BY <1>1, <1>2

LEMMA OneLess ==
    ASSUME NEW S, NEW T, NEW x \in S, IsFiniteSet(S), T \subseteq S \ {x}
    PROVE  IsFiniteSet(T) /\ Cardinality(T) + 1 <= Cardinality(S)
<1>1. /\ IsFiniteSet(S \ {x}) /\ Cardinality(S \ {x}) = Cardinality(S) - 1
      /\ Cardinality(S) \in Nat
  BY FS_RemoveElement, FS_CardinalityType
<1>2. IsFiniteSet(T) /\ Cardinality(T) <= Cardinality(S \ {x}) /\ Cardinality(T) \in Nat
  BY <1>1, FS_Subset, FS_CardinalityType
<1>3. QED
  BY <1>1, <1>2

LEMMA NoMore ==
    ASSUME NEW S, NEW T, IsFiniteSet(S), T \subseteq S
    PROVE  Cardinality(T) <= Cardinality(S)
BY FS_Subset

LEMMA FiniteDebts ==
    ASSUME NEW c
    PROVE  /\ IsFiniteSet(Redeemed(c)) /\ IsFiniteSet(Redeemed(c)')
           /\ IsFiniteSet(Owing(c)) /\ IsFiniteSet(Owing(c)')
           /\ IsFiniteSet(GivingBack(c)) /\ IsFiniteSet(GivingBack(c)')
           /\ Cardinality(Redeemed(c)) \in Nat /\ Cardinality(Redeemed(c)') \in Nat
           /\ Cardinality(Owing(c)) \in Nat /\ Cardinality(Owing(c)') \in Nat
           /\ Cardinality(GivingBack(c)) \in Nat /\ Cardinality(GivingBack(c)') \in Nat
<1>1. IsFiniteSet(Users) /\ IsFiniteSet(Handlers)
  BY CouponAssumption, FS_Union DEF CouponAssumption, Handlers
<1>2. /\ Redeemed(c) \subseteq Users /\ Redeemed(c)' \subseteq Users
      /\ Owing(c) \subseteq Handlers /\ Owing(c)' \subseteq Handlers
      /\ GivingBack(c) \subseteq Handlers /\ GivingBack(c)' \subseteq Handlers
  BY DEF Redeemed, Owing, GivingBack
<1>3. /\ IsFiniteSet(Redeemed(c)) /\ IsFiniteSet(Redeemed(c)')
      /\ IsFiniteSet(Owing(c)) /\ IsFiniteSet(Owing(c)')
      /\ IsFiniteSet(GivingBack(c)) /\ IsFiniteSet(GivingBack(c)')
  BY <1>1, <1>2, FS_Subset
<1>4. QED
  BY <1>3, FS_CardinalityType

\* What a handler owes, and what it is giving back, once it has gone on to j.
LEMMA Debts ==
    ASSUME IInv, NEW h \in Handlers, NEW j, Become(h, j), NEW c \in Codes
    PROVE  /\ \A k \in Handlers : k # h =>
                  /\ k \in Owing(c)' <=> k \in Owing(c)
                  /\ k \in GivingBack(c)' <=> k \in GivingBack(c)
           /\ h \in Owing(c)' <=> j.step = "countUp" /\ j.code = c
           /\ h \in GivingBack(c)' <=> j.step = "giveBack" /\ j.code = c
           /\ h \in Owing(c) <=> job[h].step = "countUp" /\ job[h].code = c
           /\ h \in GivingBack(c) <=> job[h].step = "giveBack" /\ job[h].code = c
<1>1. job \in [Handlers -> Jobs]
  BY DEF IInv, TypeOK
<1>2. job'[h] = j /\ \A k \in Handlers : k # h => job'[k] = job[k]
  BY <1>1 DEF Become
<1>3. QED
  BY <1>2 DEF Owing, GivingBack, At

\* Nothing is redeemed, nothing is owed less and nothing is given back more.
LEMMA QuietCovered ==
    ASSUME NEW c \in Codes, Covered(c), IInv, TypeOK',
           Redeemed(c)' \subseteq Redeemed(c), Owing(c) \subseteq Owing(c)',
           GivingBack(c)' \subseteq GivingBack(c),
           redeemedCount'[c] = redeemedCount[c], faults' >= faults
    PROVE  Covered(c)'
<1>1. /\ Cardinality(Redeemed(c)') <= Cardinality(Redeemed(c))
      /\ Cardinality(Owing(c)) <= Cardinality(Owing(c)')
      /\ Cardinality(GivingBack(c)') <= Cardinality(GivingBack(c))
  BY FiniteDebts, NoMore
<1>2. redeemedCount[c] \in Int /\ faults \in Int /\ faults' \in Int
  BY DEF IInv, TypeOK, MainOK
<1>3. QED
  BY <1>1, <1>2, FiniteDebts DEF Covered

LEMMA CalmRedeemed == ASSUME Calm, NEW c \in Codes PROVE Redeemed(c)' \subseteq Redeemed(c)
BY DEF Calm, Redeemed

Lock == {"apply", "replace"}
Weighty == {"countUp", "giveBack"} \cup Lock
USE DEF Lock, Weighty

\* A handler that neither leaves its debts nor takes one on, nor a lock.
Quietly(h) ==
    \E j : /\ Become(h, j)
           /\ job[h].step \notin {"countUp", "giveBack"}
           /\ j.step \notin Weighty

LEMMA QuietlyCovered ==
    ASSUME IInv, TypeOK', NEW h \in Handlers, Quietly(h), Calm, NEW c \in Codes, Covered(c),
           redeemedCount'[c] = redeemedCount[c], faults' >= faults
    PROVE  Covered(c)'
<1>1. PICK j : /\ Become(h, j)
               /\ job[h].step \notin {"countUp", "giveBack"}
               /\ j.step \notin Weighty
  BY DEF Quietly
<1>2. Owing(c) \subseteq Owing(c)' /\ GivingBack(c)' \subseteq GivingBack(c)
  <2>1. Owing(c) \subseteq Handlers /\ GivingBack(c)' \subseteq Handlers
    BY DEF Owing, GivingBack
  <2>2. QED
    BY <1>1, <2>1, Debts
<1>3. QED
  BY <1>2, CalmRedeemed, QuietCovered

LEMMA QuietMoves ==
    ASSUME IInv, NEW h \in Handlers, job[h].step \notin {"countUp", "giveBack"}
    PROVE  /\ Done(h) => Quietly(h)
           /\ \A s : s \notin Weighty /\ Goto(h, s) => Quietly(h)
           /\ Continue(h) => Quietly(h)
<1>1. Idle.step = "idle"
  BY DEF Idle
<1>2. ASSUME Done(h) PROVE Quietly(h)
  BY <1>1, <1>2 DEF Done, Quietly
<1>3. job[h] \in Jobs
  BY DEF IInv, TypeOK
<1>4. ASSUME NEW s, s \notin Weighty, Goto(h, s) PROVE Quietly(h)
  <2> DEFINE j == [job[h] EXCEPT !.step = s]
  <2>1. j.step = s
    BY <1>3 DEF Jobs
  <2>2. Become(h, j)
    BY <1>4 DEF Goto
  <2> HIDE DEF j
  <2>3. QED
    BY <1>4, <2>1, <2>2 DEF Quietly
<1>5. Following(job[h]) \notin Weighty
  BY DEF Following, WithLive
<1>6. QED
  BY <1>2, <1>4, <1>5 DEF Continue

\* The steps of a handler that touch neither the tally nor a redemption.
LEMMA QuietSteps ==
    ASSUME IInv, NEW h \in Handlers, HandlerStep(h)
    PROVE  \/ Quietly(h) /\ UNCHANGED <<redeemedCount, faults>>
           \/ LockProfile(h) \/ Begins(h) \/ CountUp(h) \/ Remove(h) \/ GiveBack(h)
<1>1. job[h] \in Jobs
  BY DEF IInv, TypeOK
<1>2. CASE \/ ClearRows(h) \/ ClearHolds(h) \/ Attach(h) \/ Reserve(h) \/ Hold(h) \/ Save(h)
           \/ DropHold(h) \/ Sync(h) \/ Ensure(h) \/ Detach(h) \/ Drift(h) \/ SweepHolds(h)
           \/ Repoint(h) \/ CountCycle(h)
  <2>1. job[h].step \notin {"countUp", "giveBack"} /\ UNCHANGED <<redeemedCount, faults>>
    BY <1>2 DEF ClearRows, ClearHolds, Attach, Reserve, Hold, Save, DropHold, Sync, Ensure, Detach,
                Drift, SweepHolds, Repoint, CountCycle, At, mainVars, boundVars
  <2>2. \/ Continue(h) \/ Done(h)
        \/ \E s \in {"clearHolds", "hold", "save", "detach", "ensure"} : Goto(h, s)
    BY <1>2 DEF ClearRows, ClearHolds, Attach, Reserve, Hold, Save, DropHold, Sync, Ensure, Detach,
                Drift, SweepHolds, Repoint, CountCycle
  <2>3. QED
    BY <2>1, <2>2, QuietMoves
<1>3. CASE ReadSupply(h)
  <2> DEFINE j == [job[h] EXCEPT !.step = "reserve", !.seen = redeemedCount[job[h].code]]
  <2>1. j.step = "reserve"
    BY <1>1 DEF Jobs
  <2>2. Become(h, j) /\ job[h].step = "readSupply" /\ UNCHANGED <<redeemedCount, faults>>
    BY <1>3 DEF ReadSupply, At, mainVars, boundVars
  <2> HIDE DEF j
  <2>3. QED
    BY <2>1, <2>2 DEF Quietly
<1>4. ASSUME NEW c, NEW row, Activates(h, c, row), job[h].step \notin {"countUp", "giveBack"}
      PROVE  Quietly(h)
  <2> DEFINE j == [job[h] EXCEPT !.step = "activate", !.code = c, !.row = row]
  <2>1. j.step = "activate"
    BY <1>1 DEF Jobs
  <2>2. Become(h, j)
    BY <1>4 DEF Activates
  <2> HIDE DEF j
  <2>3. QED
    BY <1>4, <2>1, <2>2 DEF Quietly
<1>5. ASSUME NotActivated(h), job[h].step \notin {"countUp", "giveBack"} PROVE Quietly(h)
  BY <1>5, QuietMoves DEF NotActivated
<1>6. CASE FindPending(h) \/ Rebuild(h)
  <2>1. job[h].step \notin {"countUp", "giveBack"} /\ UNCHANGED <<redeemedCount, faults>>
    BY <1>6 DEF FindPending, Rebuild, At, mainVars, boundVars
  <2>2. ASSUME Become(h, [job[h] EXCEPT !.step = "rebuild", !.code = discount[job[h].user]])
        PROVE  Quietly(h)
    <3> DEFINE j == [job[h] EXCEPT !.step = "rebuild", !.code = discount[job[h].user]]
    <3>1. j.step = "rebuild"
      BY <1>1 DEF Jobs
    <3>2. Become(h, j)
      BY <2>2
    <3> HIDE DEF j
    <3>3. QED
      BY <2>1, <3>1, <3>2 DEF Quietly
  <2>3. CASE FindPending(h)
    BY <1>4, <1>5, <2>1, <2>2, <2>3 DEF FindPending
  <2>4. CASE Rebuild(h)
    BY <1>4, <1>5, <2>1, <2>4 DEF Rebuild
  <2>5. QED
    BY <1>6, <2>3, <2>4
<1>7. CASE LiveRead(h)
  <2>1. job[h].step = "live" /\ UNCHANGED <<redeemedCount, faults>>
    BY <1>7 DEF LiveRead, At, mainVars, boundVars
  <2>2. ASSUME NEW s \in {"repoint", WithLive(job[h].kind)}, NEW c, NEW row, NEW used, NEW inv,
               Become(h, [job[h] EXCEPT !.step = s, !.code = c, !.row = row, !.used = used,
                                        !.inv = inv])
        PROVE  Quietly(h)
    <3> DEFINE j == [job[h] EXCEPT !.step = s, !.code = c, !.row = row, !.used = used,
                                   !.inv = inv]
    <3>1. j.step = s
      BY <1>1 DEF Jobs
    <3>2. Become(h, j)
      BY <2>2
    <3>3. s \notin Weighty
      BY DEF WithLive
    <3> HIDE DEF j
    <3>4. QED
      BY <2>1, <3>1, <3>2, <3>3 DEF Quietly
  <2>3. Done(h) => Quietly(h)
    BY <2>1, QuietMoves
  <2>4. Goto(h, "drift") => Quietly(h)
    BY <2>1, QuietMoves
  <2>5. QED
    BY <1>7, <2>1, <2>2, <2>3, <2>4 DEF LiveRead
<1>8. QED
  BY <1>2, <1>3, <1>6, <1>7 DEF HandlerStep, Begins

\* A handler that starts owes nothing.
LEMMA QuietStart ==
    ASSUME NEW h \in Handlers, NEW kind, NEW u, NEW c, NEW s, NEW row, NEW bill,
           s \notin Weighty, StartsWith(h, kind, u, c, s, row, bill)
    PROVE  Quietly(h)
<1> DEFINE n == sub[u]
           j == [Idle EXCEPT !.step = s, !.kind = kind, !.user = u, !.sub = n,
                             !.code = c, !.row = row, !.bill = bill]
<1>1. Become(h, j) /\ job[h].step = "idle"
  BY DEF StartsWith, At
<1> HIDE DEF n
<1>2. j.step = s
  BY IdleType DEF Jobs
<1> HIDE DEF j
<1>3. QED
  BY <1>1, <1>2 DEF Quietly

LEMMA QuietRequests ==
    ASSUME NEW h \in Handlers,
           (\E u \in Users : Request(h, u)) \/ Hook(h)
    PROVE  Quietly(h) /\ UNCHANGED <<redeemedCount, faults>>
<1>1. UNCHANGED <<redeemedCount, faults>>
  BY DEF Request, Hook, Subscribe, Confirm, RevokeRequest, GrantRead, Sweep, Settle, Reconcile,
         mainVars, boundVars
<1>2. CASE Sweep(h)
  <2> DEFINE j == [Idle EXCEPT !.step = "sweepHolds", !.kind = "sweep"]
  <2>1. j.step = "sweepHolds"
    BY IdleType DEF Jobs
  <2>2. Become(h, j) /\ job[h].step = "idle"
    BY <1>2 DEF Sweep, At
  <2> HIDE DEF j
  <2>3. QED
    BY <1>1, <2>1, <2>2 DEF Quietly
<1>3. ASSUME NEW u \in Users, Settle(h, u) \/ Reconcile(h, u) PROVE Quietly(h)
  BY <1>3, QuietStart DEF Settle, Reconcile, Starts
<1>4. ASSUME NEW u \in Users, Request(h, u) PROVE Quietly(h)
  BY <1>4, QuietStart DEF Request, Subscribe, Confirm, RevokeRequest, GrantRead, Starts
<1>5. QED
  BY <1>1, <1>2, <1>3, <1>4 DEF Hook

\* A redemption that begins is owed for.
LEMMA BeginsCovered ==
    ASSUME IInv, TypeOK', NEW h \in Handlers, Begins(h), NEW c \in Codes, Covered(c)
    PROVE  Covered(c)'
<1>1. /\ job[h].step \notin {"countUp", "giveBack"} /\ UNCHANGED <<redeemedCount, faults>>
      /\ job[h] \in Jobs /\ job[h].user \in Users
  BY Running DEF Begins, Activate, Grant, At, mainVars, boundVars
<1>2. faults' >= faults
  BY <1>1 DEF IInv, TypeOK
<1>3. CASE Calm /\ Done(h)
  BY <1>1, <1>2, <1>3, QuietMoves, QuietlyCovered
<1>4. CASE /\ \A u \in Users : \A d \in Codes : (u # job[h].user \/ d # job[h].code) =>
                  (redemption'[u][d].status \in Spent => redemption[u][d].status \in Spent)
           /\ Begun(h)
  <2> DEFINE j == [job[h] EXCEPT !.step = "countUp", !.ends = {}]
  <2>1. j.step = "countUp" /\ j.code = job[h].code
    BY <1>1 DEF Jobs
  <2>2. Become(h, j)
    BY <1>4 DEF Begun
  <2> HIDE DEF j
  <2>3. /\ Owing(c) \subseteq Owing(c)' /\ h \notin Owing(c)
        /\ c = job[h].code => h \in Owing(c)'
        /\ GivingBack(c)' \subseteq GivingBack(c)
    <3>1. /\ Owing(c) \subseteq Handlers /\ Owing(c)' \subseteq Handlers
          /\ GivingBack(c)' \subseteq Handlers
      BY DEF Owing, GivingBack
    <3>2. QED
      BY <1>1, <2>1, <2>2, <3>1, Debts
  <2>4. CASE c # job[h].code
    <3>1. Redeemed(c)' \subseteq Redeemed(c)
      BY <1>4, <2>4 DEF Redeemed
    <3>2. QED
      BY <1>1, <1>2, <2>3, <3>1, QuietCovered
  <2>5. CASE c = job[h].code
    <3>1. Redeemed(c)' \subseteq Redeemed(c) \cup {job[h].user}
      BY <1>4 DEF Redeemed
    <3>2. Cardinality(Redeemed(c)') <= Cardinality(Redeemed(c)) + 1
      BY <3>1, AtMostOneMore, FiniteDebts
    <3>3. Cardinality(Owing(c)) + 1 <= Cardinality(Owing(c)')
      <4>1. h \in Owing(c)' /\ Owing(c) \subseteq Owing(c)' \ {h}
        BY <2>3, <2>5
      <4>2. QED
        BY <4>1, OneLess, FiniteDebts
    <3>4. Cardinality(GivingBack(c)') <= Cardinality(GivingBack(c))
      BY <2>3, NoMore, FiniteDebts
    <3>5. redeemedCount[c] \in Int /\ faults \in Int
      BY DEF IInv, TypeOK, MainOK
    <3>6. QED
      BY <1>1, <3>2, <3>3, <3>4, <3>5, FiniteDebts DEF Covered
  <2>6. QED
    BY <2>4, <2>5
<1>5. QED
  BY <1>3, <1>4, BeginsRows

\* A count that is made is no longer owed.
LEMMA CountUpCovered ==
    ASSUME IInv, TypeOK', NEW h \in Handlers, CountUp(h), NEW c \in Codes, Covered(c)
    PROVE  Covered(c)'
<1>1. /\ job[h].step = "countUp" /\ job[h] \in Jobs /\ job[h].code \in Codes
      /\ redemption' = redemption /\ faults' = faults
  BY Running DEF CountUp, At, CodeSteps, tenantVars, boundVars
<1> DEFINE j == [job[h] EXCEPT !.step = "dropHold"]
<1>2. j.step = "dropHold"
  BY <1>1 DEF Jobs
<1>3. Become(h, j)
  BY DEF CountUp, Goto
<1> HIDE DEF j
<1>4. /\ Redeemed(c)' = Redeemed(c) /\ GivingBack(c)' \subseteq GivingBack(c)
      /\ Owing(c) \subseteq Owing(c)' \cup {h}
      /\ c # job[h].code => Owing(c) \subseteq Owing(c)'
  <2>1. Owing(c) \subseteq Handlers /\ GivingBack(c)' \subseteq Handlers
    BY DEF Owing, GivingBack
  <2>2. Redeemed(c)' = Redeemed(c)
    BY <1>1 DEF Redeemed
  <2>3. QED
    BY <1>1, <1>2, <1>3, <2>1, <2>2, Debts
<1>5. redeemedCount \in [Codes -> Int] /\ faults \in Int
  BY DEF IInv, TypeOK, MainOK
<1>6. CASE c # job[h].code
  <2>1. redeemedCount'[c] = redeemedCount[c] /\ faults' >= faults
    BY <1>1, <1>5, <1>6 DEF CountUp
  <2>2. QED
    BY <1>4, <1>6, <2>1, QuietCovered
<1>7. CASE c = job[h].code
  <2>1. redeemedCount'[c] = redeemedCount[c] + 1
    BY <1>5, <1>7 DEF CountUp
  <2>2. Cardinality(Owing(c)) <= Cardinality(Owing(c)') + 1
    BY <1>4, AtMostOneMore, FiniteDebts
  <2>3. Cardinality(GivingBack(c)') <= Cardinality(GivingBack(c))
    BY <1>4, NoMore, FiniteDebts
  <2>4. QED
    BY <1>1, <1>4, <1>5, <2>1, <2>2, <2>3, FiniteDebts DEF Covered
<1>8. QED
  BY <1>6, <1>7

\* A redemption that goes is given back for.
LEMMA RemoveCovered ==
    ASSUME IInv, TypeOK', NEW h \in Handlers, Remove(h), NEW c \in Codes, Covered(c)
    PROVE  Covered(c)'
<1>1. /\ job[h].step = "remove" /\ job[h] \in Jobs /\ job[h].user \in Users
      /\ job[h].code \in Codes /\ JobOK(job[h], redemption, made)
      /\ UNCHANGED <<redeemedCount, faults>>
  BY Running DEF Remove, At, CodeSteps, mainVars, boundVars
<1>2. faults' >= faults /\ redeemedCount[c] \in Int /\ faults \in Int
  BY <1>1 DEF IInv, TypeOK, MainOK
<1>3. Calm
  BY CalmRemove
<1>4. CASE Done(h)
  BY <1>1, <1>2, <1>3, <1>4, QuietMoves, QuietlyCovered
<1>5. ASSUME NEW s \in {"giveBack", "detach"},
             Become(h, [job[h] EXCEPT !.step = s, !.sub = sub[job[h].user]]),
             redemption[job[h].user][job[h].code].id = job[h].row,
             s = "giveBack" =>
                 redemption' = [redemption EXCEPT ![job[h].user][job[h].code] = NoRow]
      PROVE  Covered(c)'
  <2> DEFINE n == sub[job[h].user]
             j == [job[h] EXCEPT !.step = s, !.sub = n]
  <2>1. Become(h, j)
    BY <1>5
  <2> HIDE DEF n
  <2>2. j.step = s /\ j.code = job[h].code
    BY <1>1 DEF Jobs
  <2> HIDE DEF j
  <2>3. CASE s = "detach"
    <3>1. Quietly(h)
      BY <1>1, <2>1, <2>2, <2>3 DEF Quietly
    <3>2. QED
      BY <1>1, <1>2, <1>3, <3>1, QuietlyCovered
  <2>4. CASE s = "giveBack"
    <3>1. /\ Owing(c) \subseteq Owing(c)'
          /\ GivingBack(c)' \subseteq GivingBack(c) \cup {h}
          /\ c # job[h].code => GivingBack(c)' \subseteq GivingBack(c)
      <4>1. Owing(c) \subseteq Handlers /\ GivingBack(c)' \subseteq Handlers
        BY DEF Owing, GivingBack
      <4>2. QED
        BY <1>1, <2>1, <2>2, <2>4, <4>1, Debts
    <3>2. Redeemed(c)' \subseteq Redeemed(c)
      BY <1>3, CalmRedeemed
    <3>3. CASE c # job[h].code
      BY <1>1, <1>2, <3>1, <3>2, <3>3, QuietCovered
    <3>4. CASE c = job[h].code
      <4>1. job[h].user \in Redeemed(c)
        BY <1>1, <1>5, <3>4 DEF Redeemed, JobOK, RowSteps
      <4>2. redemption'[job[h].user][c] = NoRow
        BY <1>1, <1>5, <2>4, <3>4 DEF IInv, TypeOK, TenantOK
      <4>3. job[h].user \notin Redeemed(c)'
        BY <4>2, NoRowType DEF Redeemed, Spent, Ended
      <4>4. Cardinality(Redeemed(c)') + 1 <= Cardinality(Redeemed(c))
        <5>1. Redeemed(c)' \subseteq Redeemed(c) \ {job[h].user}
          BY <3>2, <4>3
        <5>2. QED
          BY <4>1, <5>1, OneLess, FiniteDebts
      <4>5. Cardinality(GivingBack(c)') <= Cardinality(GivingBack(c)) + 1
        BY <3>1, AtMostOneMore, FiniteDebts
      <4>6. Cardinality(Owing(c)) <= Cardinality(Owing(c)')
        BY <3>1, NoMore, FiniteDebts
      <4>7. QED
        BY <1>1, <1>2, <4>4, <4>5, <4>6, FiniteDebts DEF Covered
    <3>5. QED
      BY <3>3, <3>4
  <2>5. QED
    BY <2>3, <2>4
<1>6. QED
  BY <1>4, <1>5 DEF Remove

\* What is given back was owed no longer.
LEMMA GiveBackCovered ==
    ASSUME IInv, TypeOK', NEW h \in Handlers, GiveBack(h), NEW c \in Codes, Covered(c)
    PROVE  Covered(c)'
<1>1. /\ job[h].step = "giveBack" /\ job[h] \in Jobs /\ job[h].code \in Codes
      /\ redemption' = redemption /\ faults' = faults
  BY Running DEF GiveBack, At, CodeSteps, tenantVars, boundVars
<1> DEFINE j == [job[h] EXCEPT !.step = "detach"]
<1>2. j.step = "detach"
  BY <1>1 DEF Jobs
<1>3. Become(h, j)
  BY <1>1 DEF GiveBack, Continue, Following, Goto
<1> HIDE DEF j
<1>4. /\ Redeemed(c)' = Redeemed(c) /\ Owing(c) \subseteq Owing(c)'
      /\ GivingBack(c)' \subseteq GivingBack(c)
      /\ c = job[h].code => h \in GivingBack(c) /\ h \notin GivingBack(c)'
  <2>1. Owing(c) \subseteq Handlers /\ GivingBack(c)' \subseteq Handlers
    BY DEF Owing, GivingBack
  <2>2. Redeemed(c)' = Redeemed(c)
    BY <1>1 DEF Redeemed
  <2>3. QED
    BY <1>1, <1>2, <1>3, <2>1, <2>2, Debts
<1>5. redeemedCount \in [Codes -> Int] /\ faults \in Int
  BY DEF IInv, TypeOK, MainOK
<1>6. CASE c # job[h].code
  <2>1. redeemedCount'[c] = redeemedCount[c] /\ faults' >= faults
    BY <1>1, <1>5, <1>6 DEF GiveBack
  <2>2. QED
    BY <1>4, <2>1, QuietCovered
<1>7. CASE c = job[h].code
  <2>1. redeemedCount'[c] = redeemedCount[c] - 1
    BY <1>5, <1>7 DEF GiveBack
  <2>2. Cardinality(GivingBack(c)') + 1 <= Cardinality(GivingBack(c))
    <3>1. h \in GivingBack(c) /\ GivingBack(c)' \subseteq GivingBack(c) \ {h}
      BY <1>4, <1>7
    <3>2. QED
      BY <3>1, OneLess, FiniteDebts
  <2>3. Cardinality(Owing(c)) <= Cardinality(Owing(c)')
    BY <1>4, NoMore, FiniteDebts
  <2>4. QED
    BY <1>1, <1>4, <1>5, <2>1, <2>2, <2>3, FiniteDebts DEF Covered
<1>8. QED
  BY <1>6, <1>7

\* A count that is never made is a failed call.
LEMMA FaultCovered ==
    ASSUME IInv, TypeOK', NEW h \in Handlers, Stops(h) \/ PassedOver(h),
           NEW c \in Codes, Covered(c)
    PROVE  Covered(c)'
<1>1. /\ redemption' = redemption /\ redeemedCount' = redeemedCount
      /\ faults' = faults + 1 /\ faults \in Nat
  BY DEF Stops, PassedOver, tenantVars, mainVars, IInv, TypeOK
<1>2. PICK j : Become(h, j) /\ j.step # "giveBack"
  <2>1. CASE Done(h)
    BY <2>1 DEF Done, Idle
  <2>2. CASE Goto(h, Following(job[h]))
    <3> DEFINE s == Following(job[h])
               j == [job[h] EXCEPT !.step = s]
    <3>1. s # "giveBack"
      BY DEF Following, WithLive
    <3>2. Become(h, j)
      BY <2>2 DEF Goto
    <3> HIDE DEF s
    <3>3. j.step = s
      BY DEF IInv, TypeOK, Jobs
    <3> HIDE DEF j
    <3>4. QED
      BY <3>1, <3>2, <3>3
  <2>3. QED
    BY <2>1, <2>2 DEF Stops, PassedOver, Continue
<1>3. /\ Redeemed(c)' = Redeemed(c) /\ Owing(c) \subseteq Owing(c)' \cup {h}
      /\ GivingBack(c)' \subseteq GivingBack(c)
  <2>1. Owing(c) \subseteq Handlers /\ GivingBack(c)' \subseteq Handlers
    BY DEF Owing, GivingBack
  <2>2. Redeemed(c)' = Redeemed(c)
    BY <1>1 DEF Redeemed
  <2>3. QED
    BY <1>2, <2>1, <2>2, Debts
<1>4. Cardinality(Owing(c)) <= Cardinality(Owing(c)') + 1
  BY <1>3, AtMostOneMore, FiniteDebts
<1>5. Cardinality(GivingBack(c)') <= Cardinality(GivingBack(c))
  BY <1>3, NoMore, FiniteDebts
<1>6. redeemedCount[c] \in Int
  BY DEF IInv, TypeOK, MainOK
<1>7. QED
  BY <1>1, <1>3, <1>4, <1>5, <1>6, FiniteDebts DEF Covered

\* The lock is neither a redemption nor a debt.
LEMMA LockCovered ==
    ASSUME IInv, TypeOK', NEW h \in Handlers, LockProfile(h), NEW c \in Codes, Covered(c)
    PROVE  Covered(c)'
<1>1. /\ job[h].step \in {"activate", "grant"} /\ job[h] \in Jobs
      /\ UNCHANGED <<redemption, redeemedCount, faults>>
  BY DEF LockProfile, IInv, TypeOK, tenantVars, mainVars, boundVars
<1>2. PICK s \in Lock : Become(h, [job[h] EXCEPT !.step = s, !.ends = LiveCodes(job[h].user)])
  BY DEF LockProfile
<1> DEFINE es == LiveCodes(job[h].user)
           j == [job[h] EXCEPT !.step = s, !.ends = es]
<1>3. Become(h, j)
  BY <1>2
<1> HIDE DEF es
<1>4. j.step = s
  BY <1>1 DEF Jobs
<1> HIDE DEF j
<1>5. Owing(c) \subseteq Owing(c)' /\ GivingBack(c)' \subseteq GivingBack(c)
  <2>1. Owing(c) \subseteq Handlers /\ GivingBack(c)' \subseteq Handlers
    BY DEF Owing, GivingBack
  <2>2. QED
    BY <1>1, <1>3, <1>4, <2>1, Debts
<1>6. Redeemed(c)' = Redeemed(c) /\ faults' >= faults
  BY <1>1 DEF Redeemed, IInv, TypeOK
<1>7. QED
  BY <1>1, <1>5, <1>6, QuietCovered

LEMMA CoveredStep ==
    ASSUME IInv, [Next]_vars, NEW c \in Codes, Covered(c) PROVE Covered(c)'
<1>1. TypeOK' /\ faults \in Nat
  BY NextIInv DEF IInv, TypeOK
<1>2. CASE \E h \in Handlers : Begins(h)
  BY <1>1, <1>2, BeginsCovered
<1>3. CASE ~\E h \in Handlers : Begins(h)
  <2>1. Calm
    BY <1>3, CalmStep
  <2>2. ASSUME NEW h \in Handlers, Quietly(h), UNCHANGED <<redeemedCount, faults>>
        PROVE  Covered(c)'
    BY <1>1, <2>1, <2>2, QuietlyCovered
  <2>3. ASSUME NEW h \in Handlers, HandlerStep(h) PROVE Covered(c)'
    BY <1>1, <1>3, <2>2, <2>3, QuietSteps, LockCovered, CountUpCovered, RemoveCovered,
       GiveBackCovered
  <2>4. ASSUME NEW h \in Handlers, (\E u \in Users : Request(h, u)) \/ Hook(h)
        PROVE  Covered(c)'
    BY <2>2, <2>4, QuietRequests
  <2>5. ASSUME NEW h \in Handlers, Stops(h) \/ PassedOver(h) PROVE Covered(c)'
    BY <1>1, <2>5, FaultCovered
  <2>6. ASSUME UNCHANGED <<job, redeemedCount, faults>> PROVE Covered(c)'
    <3>1. Owing(c)' = Owing(c) /\ GivingBack(c)' = GivingBack(c)
      BY <2>6 DEF Owing, GivingBack, At
    <3>2. QED
      BY <1>1, <2>1, <2>6, <3>1, CalmRedeemed, QuietCovered
  <2>7. ASSUME NEW u \in Users, Charge(u) \/ \E d \in Codes : Expire(u, d) PROVE Covered(c)'
    BY <2>6, <2>7 DEF Charge, Expire, mainVars, boundVars
  <2>8. ASSUME UNCHANGED vars PROVE Covered(c)'
    BY <2>6, <2>8 DEF vars, mainVars, boundVars
  <2>9. QED
    BY <2>3, <2>4, <2>5, <2>7, <2>8 DEF Next, Handlers
<1>4. QED
  BY <1>2, <1>3

\* The tally that the supply of a coupon is checked against is short of the
\* redemptions in the tenants by no more than the handlers that have still to
\* count and the calls that failed, however handlers cross: no release and no
\* activation is counted twice or not at all (countRedeemed, revokeRedemption).
THEOREM TallyCovers == Spec => []TallyCoversRedemptions
<1>1. Init => TallyCoversRedemptions
  <2> SUFFICES ASSUME Init, NEW c \in Codes PROVE Covered(c)
    BY DEF TallyCoversRedemptions, Covered
  <2>1. Redeemed(c) = {} /\ Owing(c) = {} /\ GivingBack(c) = {}
    BY NoRowType DEF Init, Redeemed, Owing, GivingBack, At, Idle, Spent, Ended
  <2>2. redeemedCount[c] = 0 /\ faults = 0
    BY DEF Init
  <2>3. QED
    BY <2>1, <2>2, FS_EmptySet DEF Covered
<1>2. IInv /\ TallyCoversRedemptions /\ [Next]_vars => TallyCoversRedemptions'
  BY CoveredStep DEF TallyCoversRedemptions, Covered
<1>3. QED
  BY <1>1, <1>2, SpecIInv, PTL DEF Spec

--------------------------------------------------------------------------------
(* One discount at a time.                                                 *)

Holding(h) == job[h].step \in Lock

\* At most one handler holds the lock on a profile, and it has found every
\* redemption of the customer that is live.
LockInv ==
    /\ \A h, k \in Handlers : Holding(h) /\ Holding(k) /\ job[h].user = job[k].user => h = k
    /\ \A h \in Handlers : Holding(h) => LiveCodes(job[h].user) \subseteq job[h].ends

\* A handler that goes on without a lock.
Unlocks(h) == \E j : Become(h, j) /\ j.step \notin Lock

LEMMA UnlockMoves ==
    ASSUME IInv, NEW h \in Handlers
    PROVE  /\ Done(h) => Unlocks(h)
           /\ \A s : s \notin Lock /\ Goto(h, s) => Unlocks(h)
           /\ Continue(h) => Unlocks(h)
<1>1. Idle.step = "idle"
  BY DEF Idle
<1>2. ASSUME Done(h) PROVE Unlocks(h)
  BY <1>1, <1>2 DEF Done, Unlocks
<1>3. job[h] \in Jobs
  BY DEF IInv, TypeOK
<1>4. ASSUME NEW s, s \notin Lock, Goto(h, s) PROVE Unlocks(h)
  <2> DEFINE j == [job[h] EXCEPT !.step = s]
  <2>1. j.step = s
    BY <1>3 DEF Jobs
  <2>2. Become(h, j)
    BY <1>4 DEF Goto
  <2> HIDE DEF j
  <2>3. QED
    BY <1>4, <2>1, <2>2 DEF Unlocks
<1>5. Following(job[h]) \notin Lock
  BY DEF Following, WithLive
<1>6. QED
  BY <1>2, <1>4, <1>5 DEF Continue

LEMMA BeginsUnlocks ==
    ASSUME IInv, NEW h \in Handlers, Begins(h) PROVE Unlocks(h)
<1>1. CASE Done(h)
  BY <1>1, UnlockMoves
<1>2. CASE Begun(h)
  <2> DEFINE j == [job[h] EXCEPT !.step = "countUp", !.ends = {}]
  <2>1. j.step = "countUp"
    BY DEF IInv, TypeOK, Jobs
  <2>2. Become(h, j)
    BY <1>2 DEF Begun
  <2> HIDE DEF j
  <2>3. QED
    BY <2>1, <2>2 DEF Unlocks
<1>3. QED
  BY <1>1, <1>2 DEF Begins, Activate, Grant

LEMMA RemoveUnlocks ==
    ASSUME IInv, NEW h \in Handlers, Remove(h) PROVE Unlocks(h)
<1>1. CASE Done(h)
  BY <1>1, UnlockMoves
<1>2. ASSUME NEW s \in {"giveBack", "detach"},
             Become(h, [job[h] EXCEPT !.step = s, !.sub = sub[job[h].user]])
      PROVE  Unlocks(h)
  <2> DEFINE n == sub[job[h].user]
             j == [job[h] EXCEPT !.step = s, !.sub = n]
  <2>1. Become(h, j)
    BY <1>2
  <2> HIDE DEF n
  <2>2. j.step = s
    BY DEF IInv, TypeOK, Jobs
  <2> HIDE DEF j
  <2>3. QED
    BY <2>1, <2>2 DEF Unlocks
<1>3. QED
  BY <1>1, <1>2 DEF Remove

LEMMA LockMoves ==
    ASSUME IInv, [Next]_vars
    PROVE  UNCHANGED job \/ \E h \in Handlers : Unlocks(h) \/ LockProfile(h)
<1>1. ASSUME NEW h \in Handlers, Quietly(h) PROVE Unlocks(h)
  BY <1>1 DEF Quietly, Unlocks
<1>2. ASSUME NEW h \in Handlers, CountUp(h) \/ GiveBack(h) PROVE Unlocks(h)
  BY <1>2, UnlockMoves DEF CountUp, GiveBack
<1>3. ASSUME NEW h \in Handlers, HandlerStep(h) PROVE Unlocks(h) \/ LockProfile(h)
  BY <1>1, <1>2, <1>3, QuietSteps, BeginsUnlocks, RemoveUnlocks
<1>4. ASSUME NEW h \in Handlers, (\E u \in Users : Request(h, u)) \/ Hook(h) PROVE Unlocks(h)
  BY <1>1, <1>4, QuietRequests
<1>5. ASSUME NEW h \in Handlers, Stops(h) \/ PassedOver(h) PROVE Unlocks(h)
  BY <1>5, UnlockMoves DEF Stops, PassedOver
<1>6. ASSUME NEW u \in Users, Charge(u) \/ \E c \in Codes : Expire(u, c) PROVE UNCHANGED job
  BY <1>6 DEF Charge, Expire
<1>7. CASE UNCHANGED vars
  BY <1>7 DEF vars
<1>8. QED
  BY <1>3, <1>4, <1>5, <1>6, <1>7 DEF Next, Handlers

\* What a handler that goes on holding the lock has found stays all there is.
LEMMA StillAll ==
    ASSUME IInv, LockInv, [Next]_vars, NEW k \in Handlers, Holding(k), job'[k] = job[k]
    PROVE  LiveCodes(job[k].user)' \subseteq job'[k].ends
<1>1. LiveCodes(job[k].user) \subseteq job[k].ends /\ job[k].user \in Users
  BY Running DEF LockInv, Holding
<1>2. CASE Calm
  BY <1>1, <1>2 DEF Calm, LiveCodes
<1>3. ASSUME NEW h \in Handlers, Begins(h),
             \A u \in Users : \A c \in Codes : (u # job[h].user \/ c # job[h].code) =>
                 (redemption'[u][c].status = "active" => redemption[u][c].status = "active")
      PROVE  LiveCodes(job[k].user)' \subseteq job'[k].ends
  <2>1. PICK j : Become(h, j) /\ j.step \notin Lock
    BY <1>3, BeginsUnlocks DEF Unlocks
  <2>2. job'[h].step \notin Lock
    BY <2>1 DEF Become, IInv, TypeOK
  <2>3. k # h
    BY <2>2 DEF Holding
  <2>4. Holding(h)
    BY <1>3 DEF Begins, Activate, Grant, At, Holding
  <2>5. job[k].user # job[h].user
    BY <2>3, <2>4 DEF LockInv
  <2>6. QED
    BY <1>1, <1>3, <2>5 DEF LiveCodes
<1>4. QED
  BY <1>2, <1>3, CalmStep, BeginsRows

LEMMA LockInvStep ==
    ASSUME IInv, LockInv, [Next]_vars PROVE LockInv'
<1>1. job \in [Handlers -> Jobs]
  BY DEF IInv, TypeOK
<1>2. CASE UNCHANGED job
  <2>1. \A h \in Handlers : Holding(h)' => LiveCodes(job[h].user)' \subseteq job'[h].ends
    BY <1>2, StillAll DEF Holding
  <2>2. QED
    BY <1>2, <2>1 DEF LockInv, Holding, LiveCodes
<1>3. ASSUME NEW h \in Handlers, Unlocks(h) PROVE LockInv'
  <2>1. PICK j : Become(h, j) /\ j.step \notin Lock
    BY <1>3 DEF Unlocks
  <2>2. job'[h].step \notin Lock /\ \A k \in Handlers : k # h => job'[k] = job[k]
    BY <1>1, <2>1 DEF Become
  <2>3. \A k \in Handlers : Holding(k)' => Holding(k) /\ job'[k] = job[k]
    BY <2>2 DEF Holding
  <2>4. \A k \in Handlers : Holding(k)' => LiveCodes(job[k].user)' \subseteq job'[k].ends
    BY <2>3, StillAll
  <2>5. \A k, l \in Handlers :
            Holding(k)' /\ Holding(l)' /\ job'[k].user = job'[l].user => k = l
    BY <2>3 DEF LockInv
  <2>6. QED
    BY <2>4, <2>5 DEF LockInv, LiveCodes
<1>4. ASSUME NEW h \in Handlers, LockProfile(h) PROVE LockInv'
  <2>1. /\ job[h] \in Jobs /\ redemption' = redemption
        /\ \A k \in Handlers : ~Locks(k, job[h].user)
    BY <1>1, <1>4 DEF LockProfile, tenantVars
  <2>2. PICK s \in Lock : Become(h, [job[h] EXCEPT !.step = s, !.ends = LiveCodes(job[h].user)])
    BY <1>4 DEF LockProfile
  <2> DEFINE es == LiveCodes(job[h].user)
             j == [job[h] EXCEPT !.step = s, !.ends = es]
  <2>3. Become(h, j)
    BY <2>2
  <2>4. es = {c \in Codes : redemption[job[h].user][c].status = "active"}
    BY DEF LiveCodes
  <2> HIDE DEF es
  <2>5. j.user = job[h].user /\ j.ends = es
    BY <2>1 DEF Jobs
  <2> HIDE DEF j
  <2>6. /\ job'[h].user = job[h].user /\ job'[h].ends = es
        /\ \A k \in Handlers : k # h => job'[k] = job[k]
    BY <1>1, <2>3, <2>5 DEF Become
  <2>7. \A k \in Handlers : k # h /\ Holding(k)' => Holding(k) /\ job[k].user # job[h].user
    BY <2>1, <2>6 DEF Holding, Locks
  <2>8. \A k, l \in Handlers :
            Holding(k)' /\ Holding(l)' /\ job'[k].user = job'[l].user => k = l
    BY <2>6, <2>7 DEF LockInv
  <2>9. \A k \in Handlers : Holding(k)' =>
            {c \in Codes : redemption[job'[k].user][c].status = "active"} \subseteq job'[k].ends
    BY <2>4, <2>6, <2>7 DEF LockInv, LiveCodes
  <2>10. QED
    BY <2>1, <2>8, <2>9 DEF LockInv, LiveCodes
<1>5. QED
  BY <1>2, <1>3, <1>4, LockMoves

LEMMA OneLiveStep ==
    ASSUME IInv, LockInv, OneLiveDiscount, [Next]_vars PROVE OneLiveDiscount'
<1>1. CASE Calm
  BY <1>1 DEF Calm, OneLiveDiscount, LiveCodes
<1>2. ASSUME NEW h \in Handlers, Begins(h), ~Calm PROVE OneLiveDiscount'
  <2>1. LiveCodes(job[h].user) \subseteq job[h].ends /\ job[h].user \in Users
    BY <1>2, Running DEF LockInv, Holding, Begins, Activate, Grant, At
  <2>2. \A u \in Users : \A c \in Codes : (u # job[h].user \/ c # job[h].code) =>
            (redemption'[u][c].status = "active" =>
                 redemption[u][c].status = "active" /\ u # job[h].user)
    BY <1>2, <2>1, BeginsRows DEF LiveCodes
  <2>3. QED
    BY <2>2 DEF OneLiveDiscount, LiveCodes
<1>3. QED
  BY <1>1, <1>2, CalmStep

\* One discount at a time: whatever confirmations, grants, webhooks and repairs cross, and
\* wherever they stop, a customer never has two live redemptions, because activateRedemption
\* and grantCoupon look for live ones under the lock on the profile (lockUserCouponState).
THEOREM OneDiscountAtATime == Spec => []OneLiveDiscount
<1>1. Init => LockInv /\ OneLiveDiscount
  BY NoRowType DEF Init, LockInv, Holding, Idle, OneLiveDiscount, LiveCodes
<1>2. IInv /\ LockInv /\ OneLiveDiscount /\ [Next]_vars => LockInv' /\ OneLiveDiscount'
  BY LockInvStep, OneLiveStep
<1>3. QED
  BY <1>1, <1>2, SpecIInv, PTL DEF Spec
================================================================================
