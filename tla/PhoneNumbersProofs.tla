-------------------------- MODULE PhoneNumbersProofs --------------------------
(***************************************************************************)
(* Theorems about PhoneNumbers, for any customers, numbers and handlers.   *)
(***************************************************************************)
EXTENDS PhoneNumbers, TLAPS, FiniteSetTheorems

UserSteps == ClaimSteps \cup ApproveSteps \cup AssignSteps \cup SweepSteps \cup {"apply"}

NumberSteps ==
    ClaimSteps \cup {"seat", "post", "strike", "purchase", "record"} \cup AssignSteps
    \cup UnassignSteps

RecordSteps == {"prev", "hold", "route", "free", "take", "record"}

\* What a handler's step says of what it carries.
Fits(j) ==
    /\ j.rows \subseteq tracked
    /\ j.step \in UserSteps => j.user \in Users
    /\ j.step \in NumberSteps => j.number \in Numbers
    /\ j.step \in {"purchase", "record"} => j.need > 0
    /\ j.step \in {"entitle", "rows"} => j.rows = {}

\* A number goes back to Twilio before its row goes, and the rows about to be
\* deleted as orphans are of numbers Twilio does not have.
Returned(j) ==
    /\ j.step = "strike" => j.number \notin owned \/ j.number \in torn
    /\ j.step = "orphans" => owned \subseteq j.seen \cup torn

\* NumberIsReserved, of one handler.
Reserved(j) ==
    j.step \in ReleaseSteps =>
        /\ status[j.user] # "active" \/ j.late
        /\ \A n \in j.rows : holder[n] = j.user \/ {n, j.user} \cap torn # {}

Own(j) == Fits(j) /\ Returned(j) /\ Reserved(j)

IInv ==
    /\ TypeOK
    /\ Clashes(job) \subseteq torn
    /\ \A w \in Handlers : Own(job[w])
    /\ OnTheBooks

\* What a step of another handler leaves of a job: all but the rows it deletes
\* and the news that the customer has paid.
Kept(v) ==
    /\ job'[v].step = job[v].step
    /\ job'[v].user = job[v].user
    /\ job'[v].number = job[v].number
    /\ job'[v].prev = job[v].prev
    /\ job'[v].other = job[v].other
    /\ job'[v].seen = job[v].seen
    /\ job'[v].need = job[v].need
    /\ job'[v].rows \subseteq job[v].rows
    /\ job'[v].rows \cap (tracked \ tracked') = {}
    /\ job[v].late => job'[v].late

\* What a step of w may do to the others: it buys and moves only what it
\* touches, lets nobody be entitled unnoticed, and leaves no number unrecorded.
Effect(w) ==
    /\ torn \subseteq torn'
    /\ Clashes(job') \subseteq torn'
    /\ \A v \in Handlers \ {w} : Kept(v)
    /\ owned' \subseteq owned \cup Touches(job'[w])
    /\ \A v \in Handlers \ {w} : job[v].step \in ReleaseSteps /\ status[job[v].user] # "active"
           => status'[job[v].user] # "active" \/ job'[v].late
    /\ \A n \in Numbers :
           holder'[n] = holder[n] \/ n \notin tracked' \/ {n, holder[n]} \cap Touches(job[w]) # {}
    /\ \A n \in owned' \ tracked' :
           \/ n \in torn'
           \/ job'[w].number = n /\ job'[w].step \in RecordSteps
           \/ n \in owned \ tracked /\ ~Recording(w, n)

Facts(w) == TypeOK' /\ Effect(w) /\ Own(job[w])'

ProfileType ==
    /\ number \in [Users -> Numbers \cup {NoNumber}]
    /\ grace \in [Users -> {"none", "open", "over"}]
    /\ consumed \subseteq Users
    /\ approved \subseteq Users

--------------------------------------------------------------------------------
(* Types.                                                                  *)

LEMMA IdleType == Idle \in Jobs
BY DEF Idle, Jobs, Steps

LEMMA IdleOwn == Own(Idle)
BY DEF Idle, Own, Fits, Returned, Reserved, UserSteps, NumberSteps, ReleaseSteps, SweepSteps,
       ClaimSteps, ApproveSteps, AssignSteps, UnassignSteps

LEMMA GoType ==
    ASSUME TypeOK, NEW w \in Handlers, NEW j \in Jobs, Go(w, j)
    PROVE  /\ job' \in [Handlers -> Jobs]
           /\ job'[w] = j
           /\ \A v \in Handlers \ {w} : job'[v] = job[v]
BY DEF TypeOK, Go

LEMMA JobTypes ==
    ASSUME NEW j \in Jobs
    PROVE  /\ j.step \in Steps /\ j.user \in Users \cup {NoUser}
           /\ j.number \in Numbers \cup {NoNumber} /\ j.prev \in Numbers \cup {NoNumber}
           /\ j.other \in Users \cup {NoUser} /\ j.rows \subseteq Numbers
           /\ j.dead \subseteq Numbers /\ j.seen \subseteq Numbers /\ j.need \in Nat
           /\ \A s \in Steps : [j EXCEPT !.step = s] \in Jobs
BY DEF Jobs

\* A handler that goes on with what it has.
LEMMA StepType ==
    ASSUME TypeOK, NEW w \in Handlers, NEW s \in Steps
    PROVE  /\ Step(w, s) \in Jobs
           /\ Step(w, s).step = s
           /\ Step(w, s).user = job[w].user
           /\ Step(w, s).number = job[w].number
           /\ Step(w, s).prev = job[w].prev
           /\ Step(w, s).other = job[w].other
           /\ Step(w, s).rows = job[w].rows
           /\ Step(w, s).dead = job[w].dead
           /\ Step(w, s).seen = job[w].seen
           /\ Step(w, s).need = job[w].need
           /\ Step(w, s).late = job[w].late
<1>1. job[w] \in Jobs
  BY DEF TypeOK
<1>2. QED
  BY <1>1 DEF Step, Jobs

LEMMA TearsType ==
    ASSUME TypeOK, NEW xs, Tears(xs)
    PROVE  /\ torn' \subseteq Users \cup Numbers
           /\ torn \subseteq torn'
           /\ Clashes(job') \subseteq torn'
           /\ xs \cap (Users \cup Numbers) \subseteq torn'
BY DEF TypeOK, Tears, Clashes

LEMMA InitInv == Init => IInv
<1> SUFFICES ASSUME Init PROVE IInv
  OBVIOUS
<1>1. job \in [Handlers -> Jobs]
  BY IdleType DEF Init
<1>2. \A w \in Handlers : Own(job[w])
  BY IdleOwn DEF Init
<1>3. TypeOK
  BY <1>1, NumbersAssumption DEF Init, TypeOK, NumbersAssumption
<1>4. Clashes(job) \subseteq torn
  BY DEF Init, Clashes, Touches, Idle, ClaimSteps, ApproveSteps, AssignSteps, UnassignSteps,
         ReleaseSteps
<1>5. OnTheBooks
  BY DEF Init, OnTheBooks
<1>6. QED
  BY <1>2, <1>3, <1>4, <1>5 DEF IInv

--------------------------------------------------------------------------------
(* One handler's step and the invariant of the others.                     *)

LEMMA TouchesOfRelease ==
    ASSUME NEW j \in Jobs, j.step \in ReleaseSteps
    PROVE  /\ j.user \in Users => j.user \in Touches(j)
           /\ j.rows \subseteq Touches(j)
           /\ j.number \in Numbers => j.number \in Touches(j)
BY JobTypes DEF Touches

LEMMA TouchesOfOrphans ==
    ASSUME NEW j \in Jobs, j.step = "orphans"
    PROVE  Touches(j) = Numbers \ j.seen
BY DEF Touches, ClaimSteps, ApproveSteps, AssignSteps, UnassignSteps, ReleaseSteps

LEMMA Clash ==
    ASSUME NEW jobs, NEW v \in Handlers, NEW w \in Handlers, v # w,
           NEW x \in Users \cup Numbers, x \in Touches(jobs[v]), x \in Touches(jobs[w])
    PROVE  x \in Clashes(jobs)
BY DEF Clashes

LEMMA OthersKept ==
    ASSUME IInv, NEW w \in Handlers, TypeOK', Effect(w), NEW v \in Handlers \ {w}
    PROVE  Own(job[v])'
<1> DEFINE j == job[v]
<1> DEFINE k == job'[v]
<1>1. j \in Jobs /\ k \in Jobs
  BY DEF IInv, TypeOK
<1>2. Kept(v) /\ Own(j)
  BY DEF Effect, IInv
<1>3. Fits(job[v])'
  BY <1>2 DEF Kept, Own, Fits
<1>4. Returned(job[v])'
  <2>1. ASSUME NEW n \in Numbers, n \in owned', n \notin owned, n \in Touches(k)
        PROVE  n \in torn'
    <3>1. n \in Touches(job'[w])
      BY <2>1 DEF Effect
    <3>2. n \in Clashes(job')
      BY <2>1, <3>1, Clash
    <3>3. QED
      BY <3>2 DEF Effect
  <2>2. CASE k.step = "strike"
    <3>1. k.number \in Numbers /\ k.number = j.number
      BY <1>2, <1>3, <2>2 DEF Kept, Fits, NumberSteps
    <3>2. k.number \in Touches(k)
      BY <1>1, <2>2, <3>1, TouchesOfRelease DEF ReleaseSteps
    <3>3. k.number \notin owned \/ k.number \in torn
      BY <1>2, <2>2 DEF Kept, Own, Returned
    <3>4. QED
      BY <2>1, <2>2, <3>1, <3>2, <3>3 DEF Returned, Effect
  <2>3. CASE k.step = "orphans"
    <3>1. owned \subseteq k.seen \cup torn
      BY <1>2, <2>3 DEF Kept, Own, Returned
    <3>2. Touches(k) = Numbers \ k.seen
      BY <1>1, <2>3, TouchesOfOrphans
    <3>3. owned' \subseteq Numbers
      BY DEF TypeOK
    <3>4. ASSUME NEW n \in owned' PROVE n \in k.seen \cup torn'
      BY <2>1, <3>1, <3>2, <3>3 DEF Effect
    <3>5. QED
      BY <2>3, <3>4 DEF Returned
  <2>4. QED
    BY <2>2, <2>3 DEF Returned
<1>5. Reserved(job[v])'
  <2> SUFFICES ASSUME k.step \in ReleaseSteps
               PROVE  /\ status'[k.user] # "active" \/ k.late
                      /\ \A n \in k.rows : holder'[n] = k.user \/ {n, k.user} \cap torn' # {}
    BY DEF Reserved
  <2>1. j.step \in ReleaseSteps /\ j.user = k.user /\ k.rows \subseteq j.rows
        /\ (j.late => k.late)
    BY <1>2 DEF Kept
  <2>2. status'[k.user] # "active" \/ k.late
    BY <1>2, <2>1 DEF Own, Reserved, Effect
  <2>3. ASSUME NEW n \in k.rows, holder'[n] # k.user PROVE {n, k.user} \cap torn' # {}
    <3>1. n \in Numbers /\ n \in tracked' /\ n \in j.rows
      BY <1>1, <1>3, <2>1, JobTypes DEF Fits
    <3>2. CASE holder[n] # j.user
      BY <1>2, <2>1, <3>1, <3>2 DEF Own, Reserved, Effect
    <3>3. CASE holder[n] = j.user
      <4>1. {n, j.user} \cap Touches(job[w]) # {}
        BY <2>1, <2>3, <3>1, <3>3 DEF Effect
      <4>2. j.user \in Users
        BY <1>2, <2>1 DEF Own, Fits, UserSteps, SweepSteps
      <4>3. {n, j.user} \subseteq Touches(j)
        BY <1>1, <2>1, <3>1, <4>2, TouchesOfRelease
      <4>4. {n, j.user} \cap Clashes(job) # {}
        BY <3>1, <4>1, <4>2, <4>3, Clash
      <4>5. QED
        BY <2>1, <4>4 DEF IInv, Effect
    <3>4. QED
      BY <3>2, <3>3
  <2>4. QED
    BY <2>2, <2>3
<1>6. QED
  BY <1>3, <1>4, <1>5 DEF Own

LEMMA BooksKept ==
    ASSUME IInv, NEW w \in Handlers, Effect(w)
    PROVE  OnTheBooks'
<1> SUFFICES ASSUME NEW n \in owned' \ tracked', n \notin torn'
             PROVE  \E v \in Handlers : job'[v].number = n /\ job'[v].step \in RecordSteps
  BY DEF OnTheBooks, Recording, RecordSteps
<1>1. CASE n \in owned \ tracked /\ ~Recording(w, n)
  <2>1. PICK v \in Handlers : Recording(v, n)
    BY <1>1 DEF IInv, OnTheBooks, Effect
  <2>2. v # w /\ Kept(v)
    BY <1>1, <2>1 DEF Effect
  <2>3. QED
    BY <2>1, <2>2 DEF Recording, Kept, RecordSteps
<1>2. QED
  BY <1>1 DEF Effect

LEMMA StepKeeps ==
    ASSUME IInv, NEW w \in Handlers, Facts(w)
    PROVE  IInv'
<1>1. \A v \in Handlers : Own(job[v])'
  BY OthersKept DEF Facts
<1>2. OnTheBooks'
  BY BooksKept DEF Facts
<1>3. Clashes(job)' \subseteq torn'
  BY DEF Facts, Effect, Clashes
<1>4. QED
  BY <1>1, <1>2, <1>3 DEF IInv, Facts

--------------------------------------------------------------------------------
(* The steps that leave the account, the inventory and entitlements alone. *)

Bounds == requests' \in 0..MaxRequests /\ lapses' \in 0..MaxLapses /\ faults' \in 0..MaxFaults

LEMMA BoundsHold ==
    ASSUME TypeOK
    PROVE  /\ UNCHANGED <<requests, lapses, faults>> => Bounds
           /\ UNCHANGED <<requests, lapses>> /\ Fault => Bounds
           /\ \A w \in Handlers : \A j : Request(w, j) /\ UNCHANGED <<lapses, faults>> => Bounds
BY NumbersAssumption DEF NumbersAssumption, TypeOK, Bounds, Fault, Request

LEMMA QuietStep ==
    ASSUME IInv, NEW w \in Handlers, NEW j \in Jobs, NEW xs, Go(w, j), Tears(xs), Bounds,
           UNCHANGED <<status, owned, rowVars>>, ProfileType', Own(j),
           \A n \in owned \ tracked : Recording(w, n) =>
               n \in xs \/ (j.number = n /\ j.step \in RecordSteps)
    PROVE  Facts(w)
<1>1. /\ job' \in [Handlers -> Jobs] /\ job'[w] = j
      /\ \A v \in Handlers \ {w} : job'[v] = job[v]
  BY GoType DEF IInv
<1>2. /\ torn' \subseteq Users \cup Numbers
      /\ torn \subseteq torn' /\ Clashes(job') \subseteq torn'
      /\ xs \cap (Users \cup Numbers) \subseteq torn'
  BY TearsType DEF IInv
<1>3. TypeOK'
  BY <1>1, <1>2 DEF IInv, TypeOK, ProfileType, Bounds, rowVars
<1>4. Effect(w)
  <2>1. \A v \in Handlers \ {w} : Kept(v)
    BY <1>1 DEF Kept, rowVars
  <2>2. ASSUME NEW n \in owned' \ tracked', n \notin torn'
        PROVE  \/ job'[w].number = n /\ job'[w].step \in RecordSteps
               \/ n \in owned \ tracked /\ ~Recording(w, n)
    BY <1>1, <1>2, <2>2 DEF IInv, TypeOK, rowVars
  <2>3. QED
    BY <1>1, <1>2, <2>1, <2>2 DEF Effect, rowVars
<1>5. Own(job[w])'
  BY <1>1, <1>2 DEF Own, Fits, Returned, Reserved, rowVars
<1>6. QED
  BY <1>3, <1>4, <1>5 DEF Facts

\* The ways such a step begins a job, ends it, or goes on.
LEMMA QuietRequest ==
    ASSUME IInv, NEW w \in Handlers, NEW j \in Jobs, Start(w, j), Tears({}), Bounds,
           UNCHANGED <<profileVars, owned, rowVars>>, Own(j)
    PROVE  Facts(w)
<1>1. \A n \in Numbers : ~Recording(w, n)
  BY DEF Start, Recording
<1>2. ProfileType' /\ owned \subseteq Numbers
  BY DEF IInv, TypeOK, ProfileType, profileVars
<1>3. Go(w, j)
  BY DEF Start
<1>4. QED
  BY <1>1, <1>2, <1>3, QuietStep DEF profileVars

LEMMA QuietDone ==
    ASSUME IInv, NEW w \in Handlers, NEW xs, Done(w), Tears(xs), Bounds,
           UNCHANGED <<status, owned, rowVars>>, ProfileType',
           \A n \in owned \ tracked : Recording(w, n) => n \in xs
    PROVE  Facts(w)
BY IdleType, IdleOwn, QuietStep DEF Done

LEMMA QuietGoOn ==
    ASSUME IInv, NEW w \in Handlers, NEW xs, NEW s \in Steps, Go(w, Step(w, s)), Tears(xs),
           Bounds, UNCHANGED <<status, owned, rowVars>>, ProfileType', Own(Step(w, s)),
           \A n \in owned \ tracked : Recording(w, n) => s \in RecordSteps
    PROVE  Facts(w)
<1>1. Step(w, s) \in Jobs /\ Step(w, s).number = job[w].number /\ Step(w, s).step = s
  BY StepType DEF IInv
<1>2. \A n \in owned \ tracked : Recording(w, n) =>
          n \in xs \/ (Step(w, s).number = n /\ Step(w, s).step \in RecordSteps)
  BY <1>1 DEF Recording
<1> HIDE DEF Step
<1>3. QED
  BY <1>1, <1>2, QuietStep

\* Going on to a step that asks nothing new of what is carried.
LEMMA PlainOwn ==
    ASSUME IInv, NEW w \in Handlers, NEW s \in Steps \ (ReleaseSteps \cup {"entitle", "orphans"}),
           s \in UserSteps => job[w].user \in Users,
           s \in NumberSteps => job[w].number \in Numbers,
           s \in {"purchase", "record"} => job[w].need > 0
    PROVE  Own(Step(w, s))
<1>1. Own(job[w]) /\ TypeOK
  BY DEF IInv
<1>2. QED
  BY <1>1, StepType DEF Own, Fits, Returned, Reserved, ReleaseSteps

\* Going on within a release, without new rows.
LEMMA ReleaseOwn ==
    ASSUME IInv, NEW w \in Handlers, NEW s \in {"blank", "close"},
           job[w].step \in ReleaseSteps
    PROVE  Own(Step(w, s))
<1>1. Own(job[w]) /\ TypeOK
  BY DEF IInv
<1>2. job[w].user \in Users
  BY <1>1 DEF Own, Fits, UserSteps, SweepSteps
<1>3. s \in Steps /\ s \in ReleaseSteps /\ s \notin NumberSteps
  BY DEF Steps, SweepSteps, ReleaseSteps, NumberSteps, ClaimSteps, AssignSteps, UnassignSteps
<1>4. QED
  BY <1>1, <1>2, <1>3, StepType DEF Own, Fits, Returned, Reserved, ReleaseSteps

--------------------------------------------------------------------------------
(* Claims and approvals.                                                   *)

LEMMA ClaimFacts ==
    ASSUME IInv, NEW w \in Handlers,
           \/ \E u \in Users, n \in Numbers : Claim(w, u, n) \/ Buy(w, u, n)
           \/ ChargeDeclined(w) \/ ReadPrevious(w) \/ HoldNumber(w) \/ RouteNumber(w)
           \/ RouteRefused(w)
    PROVE  Facts(w)
<1>0. TypeOK /\ job[w] \in Jobs /\ Own(job[w]) /\ ProfileType
  BY DEF IInv, TypeOK, ProfileType
<1> USE <1>0
<1> USE DEF ProfileType, profileVars, rowVars
<1>1. ASSUME NEW u \in Users, NEW n \in Numbers, Claim(w, u, n) \/ Buy(w, u, n)
      PROVE  Facts(w)
  <2>1. PICK s \in {"prev", "buy"} : Request(w, [Idle EXCEPT !.step = s, !.user = u, !.number = n])
    BY <1>1 DEF Claim, Buy
  <2> DEFINE j == [Idle EXCEPT !.step = s, !.user = u, !.number = n]
  <2>2. j \in Jobs
    BY DEF Idle, Jobs, Steps, ClaimSteps
  <2>3. Own(j)
    BY DEF Idle, Own, Fits, Returned, Reserved, ReleaseSteps
  <2>4. Bounds
    BY <1>1, <2>1, BoundsHold DEF Claim, Buy
  <2>5. QED
    BY <1>1, <2>1, <2>2, <2>3, <2>4, QuietRequest DEF Claim, Buy, Request
<1>2. ASSUME ReadPrevious(w) PROVE Facts(w)
  <2> DEFINE j == [Step(w, "hold") EXCEPT !.prev = number[job[w].user]]
  <2>1. job[w].user \in Users /\ job[w].number \in Numbers /\ "hold" \in Steps
    BY <1>2 DEF ReadPrevious, Own, Fits, UserSteps, NumberSteps, ClaimSteps, Steps
  <2>2. j \in Jobs /\ j.number = job[w].number /\ j.step = "hold"
        /\ j.user = job[w].user /\ j.rows = job[w].rows
    <3>1. /\ Step(w, "hold") \in Jobs /\ Step(w, "hold").step = "hold"
          /\ Step(w, "hold").number = job[w].number /\ Step(w, "hold").user = job[w].user
          /\ Step(w, "hold").rows = job[w].rows
      BY <2>1, StepType
    <3>2. number[job[w].user] \in Numbers \cup {NoNumber}
      BY <2>1 DEF TypeOK
    <3> HIDE DEF Step
    <3>3. QED
      BY <3>1, <3>2 DEF Jobs
  <2>3. Own(j)
    BY <2>1, <2>2 DEF Own, Fits, Returned, Reserved, ReleaseSteps
  <2>4. Bounds
    BY <1>2, BoundsHold DEF ReadPrevious
  <2> HIDE DEF j
  <2>5. Go(w, j)
    BY <1>2 DEF ReadPrevious, j
  <2>6. QED
    BY <1>2, <2>2, <2>3, <2>4, <2>5, QuietStep DEF ReadPrevious, Recording, RecordSteps
<1>3. ASSUME HoldNumber(w) PROVE Facts(w)
  <2>1. job[w].user \in Users /\ job[w].number \in Numbers
        /\ "route" \in Steps \ (ReleaseSteps \cup {"entitle", "orphans"})
    BY <1>3 DEF HoldNumber, Own, Fits, UserSteps, NumberSteps, ClaimSteps, Steps, ReleaseSteps
  <2>2. ProfileType'
    BY <1>3, <2>1 DEF HoldNumber, ShowNumber
  <2>3. QED
    BY <1>3, <2>1, <2>2, BoundsHold, PlainOwn, QuietGoOn DEF HoldNumber, RecordSteps
<1>4. ASSUME RouteNumber(w) PROVE Facts(w)
  <2>1. job[w].user \in Users /\ job[w].number \in Numbers
        /\ "free" \in Steps \ (ReleaseSteps \cup {"entitle", "orphans"})
    BY <1>4 DEF RouteNumber, Own, Fits, UserSteps, NumberSteps, ClaimSteps, Steps, ReleaseSteps
  <2>2. ProfileType'
    BY <1>4, <2>1 DEF RouteNumber
  <2>3. QED
    BY <1>4, <2>1, <2>2, BoundsHold, PlainOwn, QuietGoOn DEF RouteNumber, RecordSteps
<1>5. ASSUME RouteRefused(w) PROVE Facts(w)
  <2>1. job[w].user \in Users /\ job[w].prev \in Numbers \cup {NoNumber}
    BY <1>5, JobTypes DEF RouteRefused, Own, Fits, UserSteps, ClaimSteps
  <2>2. ProfileType'
    BY <1>5, <2>1 DEF RouteRefused, ShowNumber
  <2>3. QED
    BY <1>5, <2>2, BoundsHold, QuietDone DEF RouteRefused, Recording
<1>6. ASSUME ChargeDeclined(w) PROVE Facts(w)
  BY <1>6, BoundsHold, QuietDone DEF ChargeDeclined, Recording
<1>7. QED
  BY <1>1, <1>2, <1>3, <1>4, <1>5, <1>6

LEMMA ApproveFacts ==
    ASSUME IInv, NEW w \in Handlers,
           \/ \E u \in Users : Approve(w, u)
           \/ PickAvailable(w) \/ AcceptRequest(w) \/ PostNumber(w)
    PROVE  Facts(w)
<1>0. TypeOK /\ job[w] \in Jobs /\ Own(job[w]) /\ ProfileType
  BY DEF IInv, TypeOK, ProfileType
<1> USE <1>0
<1> USE DEF ProfileType, profileVars, rowVars
<1>1. ASSUME NEW u \in Users, Approve(w, u) PROVE Facts(w)
  <2>1. PICK s \in {"pick", "accept"} :
            Request(w, [Idle EXCEPT !.step = s, !.user = u, !.number = number[u]])
    BY <1>1 DEF Approve
  <2> DEFINE j == [Idle EXCEPT !.step = s, !.user = u, !.number = number[u]]
  <2>2. j \in Jobs
    BY DEF Idle, Jobs, Steps, ApproveSteps
  <2>3. Own(j)
    BY DEF Idle, Own, Fits, Returned, Reserved, ReleaseSteps, NumberSteps, ClaimSteps,
           AssignSteps, UnassignSteps
  <2>4. Bounds
    BY <1>1, <2>1, BoundsHold DEF Approve
  <2>5. QED
    BY <1>1, <2>1, <2>2, <2>3, <2>4, QuietRequest DEF Approve, Request
<1>2. ASSUME PickAvailable(w) PROVE Facts(w)
  <2>1. job[w].user \in Users /\ "seat" \in Steps /\ "accept" \in Steps
        /\ "accept" \notin ReleaseSteps \cup {"entitle", "orphans"} \cup NumberSteps
        /\ Bounds
    BY <1>2, BoundsHold
       DEF PickAvailable, Own, Fits, UserSteps, ApproveSteps, Steps, ReleaseSteps, NumberSteps,
           ClaimSteps, AssignSteps, UnassignSteps
  <2>2. \A n \in Numbers : ~Recording(w, n)
    BY <1>2 DEF PickAvailable, Recording
  <2>3. ASSUME NEW n \in Available, Go(w, [Step(w, "seat") EXCEPT !.number = n, !.rows = {n}])
        PROVE  Facts(w)
    <3> DEFINE j == [Step(w, "seat") EXCEPT !.number = n, !.rows = {n}]
    <3>1. n \in Numbers /\ n \in tracked
      BY DEF Available, TypeOK
    <3>2. Step(w, "seat") \in Jobs /\ Step(w, "seat").step = "seat"
          /\ Step(w, "seat").user = job[w].user
      BY <2>1, StepType
    <3> HIDE DEF Step
    <3>3. j \in Jobs /\ j.number = n /\ j.rows = {n} /\ j.step = "seat" /\ j.user = job[w].user
      BY <3>1, <3>2 DEF Jobs
    <3>4. Own(j)
      BY <2>1, <3>1, <3>3 DEF Own, Fits, Returned, Reserved, ReleaseSteps
    <3> HIDE DEF j
    <3>5. Go(w, j)
      BY <2>3 DEF j
    <3>6. QED
      BY <1>2, <2>1, <2>2, <3>3, <3>4, <3>5, QuietStep DEF PickAvailable, TypeOK
  <2>4. ASSUME Go(w, Step(w, "accept")) PROVE Facts(w)
    <3>1. Own(Step(w, "accept"))
      BY <2>1, PlainOwn
    <3>2. QED
      BY <1>2, <2>1, <2>2, <2>4, <3>1, QuietGoOn DEF PickAvailable, TypeOK
  <2>5. QED
    BY <1>2, <2>3, <2>4 DEF PickAvailable
<1>3. ASSUME AcceptRequest(w) PROVE Facts(w)
  <2>1. job[w].user \in Users /\ "post" \in Steps \ (ReleaseSteps \cup {"entitle", "orphans"})
    BY <1>3 DEF AcceptRequest, Own, Fits, UserSteps, ApproveSteps, Steps, ReleaseSteps
  <2>2. ProfileType' /\ Bounds
    BY <1>3, <2>1, BoundsHold DEF AcceptRequest
  <2>3. \A n \in Numbers : ~Recording(w, n)
    BY <1>3 DEF AcceptRequest, Recording
  <2>4. CASE Done(w)
    BY <1>3, <2>2, <2>3, <2>4, QuietDone DEF AcceptRequest, TypeOK
  <2>5. CASE job[w].number # NoNumber /\ Go(w, Step(w, "post"))
    <3>1. Own(Step(w, "post"))
      BY <2>1, <2>5, PlainOwn, JobTypes
    <3>2. QED
      BY <1>3, <2>1, <2>2, <2>3, <2>5, <3>1, QuietGoOn DEF AcceptRequest, TypeOK
  <2>6. QED
    BY <1>3, <2>4, <2>5 DEF AcceptRequest
<1>4. ASSUME PostNumber(w) PROVE Facts(w)
  <2>1. job[w].user \in Users /\ job[w].number \in Numbers
    BY <1>4 DEF PostNumber, Own, Fits, UserSteps, NumberSteps, ApproveSteps
  <2>2. ProfileType'
    BY <1>4, <2>1 DEF PostNumber, ShowNumber
  <2>3. QED
    BY <1>4, <2>2, BoundsHold, QuietDone DEF PostNumber, Recording
<1>5. QED
  BY <1>1, <1>2, <1>3, <1>4

LEMMA AssignFacts ==
    ASSUME IInv, NEW w \in Handlers,
           \/ \E u \in Users \cup {NoUser}, n \in Numbers : Reassign(w, u, n)
           \/ ClearHolder(w) \/ ReadOthers(w) \/ OldHolderLetsGo(w) \/ ShowAssigned(w)
    PROVE  Facts(w)
<1>0. TypeOK /\ job[w] \in Jobs /\ Own(job[w]) /\ ProfileType
  BY DEF IInv, TypeOK, ProfileType
<1> USE <1>0
<1> USE DEF ProfileType, profileVars, rowVars
<1>1. ASSUME NEW u \in Users \cup {NoUser}, NEW n \in Numbers, Reassign(w, u, n)
      PROVE  Facts(w)
  <2>1. PICK s \in {"clear", "others"} :
            /\ s = "others" => u \in Users
            /\ Request(w, [Idle EXCEPT !.step = s, !.user = u, !.number = n,
                                       !.other = holder[n], !.rows = {n}])
    BY <1>1 DEF Reassign
  <2> DEFINE j == [Idle EXCEPT !.step = s, !.user = u, !.number = n, !.other = holder[n],
                               !.rows = {n}]
  <2>2. j \in Jobs
    BY DEF Idle, Jobs, Steps, AssignSteps, UnassignSteps, TypeOK
  <2>3. Own(j)
    BY <1>1, <2>1
       DEF Reassign, Idle, Own, Fits, Returned, Reserved, ReleaseSteps, UserSteps, ClaimSteps,
           ApproveSteps, AssignSteps, SweepSteps
  <2>4. Bounds
    BY <1>1, <2>1, BoundsHold DEF Reassign
  <2>5. QED
    BY <1>1, <2>1, <2>2, <2>3, <2>4, QuietRequest DEF Reassign, Request
<1>2. ASSUME LetsGo(w), UNCHANGED <<grace, consumed, approved>> PROVE ProfileType'
  BY <1>2 DEF LetsGo
<1>3. ASSUME ClearHolder(w) PROVE Facts(w)
  <2>1. job[w].number \in Numbers
        /\ "pool" \in Steps \ (ReleaseSteps \cup {"entitle", "orphans"} \cup UserSteps)
    BY <1>3 DEF ClearHolder, Own, Fits, NumberSteps, UnassignSteps, Steps, ReleaseSteps,
                UserSteps, ClaimSteps, ApproveSteps, AssignSteps, SweepSteps
  <2>2. QED
    BY <1>2, <1>3, <2>1, BoundsHold, PlainOwn, QuietGoOn DEF ClearHolder, Recording
<1>4. ASSUME ReadOthers(w) PROVE Facts(w)
  <2> DEFINE j == [Step(w, "swap") EXCEPT !.rows = @ \cup RowsOf(job[w].user)]
  <2>1. job[w].user \in Users /\ job[w].number \in Numbers /\ "swap" \in Steps
        /\ RowsOf(job[w].user) \subseteq tracked /\ tracked \subseteq Numbers
    BY <1>4 DEF ReadOthers, Own, Fits, UserSteps, NumberSteps, AssignSteps, Steps, RowsOf, TypeOK
  <2>2. j \in Jobs /\ j.number = job[w].number /\ j.step = "swap" /\ j.user = job[w].user
        /\ j.rows = job[w].rows \cup RowsOf(job[w].user)
    BY <2>1, StepType DEF Jobs
  <2>3. Own(j)
    BY <2>1, <2>2 DEF Own, Fits, Returned, Reserved, ReleaseSteps
  <2> HIDE DEF j
  <2>4. Go(w, j) /\ Bounds
    BY <1>4, BoundsHold DEF ReadOthers, j
  <2>5. QED
    BY <1>4, <2>2, <2>3, <2>4, QuietStep DEF ReadOthers, Recording
<1>5. ASSUME OldHolderLetsGo(w) PROVE Facts(w)
  <2>1. job[w].number \in Numbers /\ job[w].user \in Users
        /\ "show" \in Steps \ (ReleaseSteps \cup {"entitle", "orphans"})
    BY <1>5 DEF OldHolderLetsGo, Own, Fits, NumberSteps, AssignSteps, Steps, ReleaseSteps,
                UserSteps
  <2>2. QED
    BY <1>2, <1>5, <2>1, BoundsHold, PlainOwn, QuietGoOn DEF OldHolderLetsGo, Recording
<1>6. ASSUME ShowAssigned(w) PROVE Facts(w)
  <2>1. job[w].user \in Users /\ job[w].number \in Numbers
    BY <1>6 DEF ShowAssigned, Own, Fits, UserSteps, NumberSteps, AssignSteps
  <2>2. ProfileType'
    BY <1>6, <2>1 DEF ShowAssigned, ShowNumber
  <2>3. QED
    BY <1>6, <2>2, BoundsHold, QuietDone DEF ShowAssigned, Recording
<1>7. QED
  BY <1>1, <1>3, <1>4, <1>5, <1>6

--------------------------------------------------------------------------------
(* The sweep, the pool and faults, where they change no row.               *)

LEMMA SweepFacts ==
    ASSUME IInv, NEW w \in Handlers,
           \/ \E u \in Users : ListCandidate(w, u)
           \/ ApplyPlan(w) \/ Decide(w) \/ WriteWindow(w)
    PROVE  Facts(w)
<1>0. TypeOK /\ job[w] \in Jobs /\ Own(job[w]) /\ ProfileType
  BY DEF IInv, TypeOK, ProfileType
<1> USE <1>0
<1> USE DEF ProfileType, profileVars, rowVars
<1>1. ASSUME NEW u \in Users, ListCandidate(w, u) PROVE Facts(w)
  <2> DEFINE j == [Idle EXCEPT !.step = "entitle", !.user = u, !.window = grace[u],
                               !.lapsed = status[u] = "lapsed"]
  <2>1. j \in Jobs
    <3>1. ASSUME NEW g \in {"none", "open", "over"}, NEW l \in BOOLEAN
          PROVE  [Idle EXCEPT !.step = "entitle", !.user = u, !.window = g, !.lapsed = l] \in Jobs
      BY DEF Idle, Jobs, Steps, SweepSteps
    <3>2. grace[u] \in {"none", "open", "over"} /\ (status[u] = "lapsed") \in BOOLEAN
      OBVIOUS
    <3>3. QED
      BY <3>1, <3>2
  <2>2. Own(j)
    BY DEF Idle, Own, Fits, Returned, Reserved, ReleaseSteps, NumberSteps, ClaimSteps,
           AssignSteps, UnassignSteps
  <2>3. Start(w, j) /\ Bounds
    BY <1>1, BoundsHold DEF ListCandidate
  <2> HIDE DEF j
  <2>4. QED
    BY <1>1, <2>1, <2>2, <2>3, QuietRequest DEF ListCandidate
<1>2. ASSUME ApplyPlan(w) PROVE Facts(w)
  <2>1. job[w].user \in Users
    BY <1>2 DEF ApplyPlan, Own, Fits, UserSteps
  <2>2. ProfileType'
    BY <1>2, <2>1 DEF ApplyPlan
  <2>3. QED
    BY <1>2, <2>2, BoundsHold, QuietDone DEF ApplyPlan, Recording
<1>3. ASSUME WriteWindow(w) PROVE Facts(w)
  <2>1. ProfileType'
    BY <1>3 DEF WriteWindow
  <2>2. QED
    BY <1>3, <2>1, BoundsHold, QuietDone DEF WriteWindow, Recording
<1>4. ASSUME Decide(w) PROVE Facts(w)
  <2>1. job[w].user \in Users /\ job[w].rows = {} /\ Bounds
    BY <1>4, BoundsHold DEF Decide, Own, Fits, UserSteps, SweepSteps
  <2>2. \A n \in Numbers : ~Recording(w, n)
    BY <1>4 DEF Decide, Recording
  <2>3. CASE Done(w)
    BY <1>4, <2>1, <2>2, <2>3, QuietDone DEF Decide, TypeOK
  <2>4. ASSUME NEW s \in {"lift", "open"}, Go(w, Step(w, s)) PROVE Facts(w)
    <3>1. s \in Steps \ (ReleaseSteps \cup {"entitle", "orphans"} \cup NumberSteps)
      BY DEF Steps, SweepSteps, ReleaseSteps, NumberSteps, ClaimSteps, AssignSteps, UnassignSteps
    <3>2. Own(Step(w, s))
      BY <2>1, <3>1, PlainOwn
    <3>3. QED
      BY <1>4, <2>1, <2>2, <2>4, <3>1, <3>2, QuietGoOn DEF Decide, TypeOK
  <2>5. ASSUME status[job[w].user] # "active", Go(w, Step(w, "rows")) PROVE Facts(w)
    <3>1. "rows" \in Steps /\ "rows" \notin NumberSteps
      BY DEF Steps, SweepSteps, ReleaseSteps, NumberSteps, ClaimSteps, AssignSteps, UnassignSteps
    <3>2. Own(Step(w, "rows"))
      BY <2>1, <2>5, <3>1, StepType DEF Own, Fits, Returned, Reserved
    <3>3. QED
      BY <1>4, <2>1, <2>2, <2>5, <3>1, <3>2, QuietGoOn DEF Decide, TypeOK
  <2>6. QED
    BY <1>4, <2>3, <2>4, <2>5 DEF Decide
<1>5. QED
  BY <1>1, <1>2, <1>3, <1>4

LEMMA ReleaseFacts ==
    ASSUME IInv, NEW w \in Handlers,
           \/ \E n \in Numbers : HandBackRefused(w, n)
           \/ ReadRows(w) \/ RowIsGone(w) \/ HandedBack(w) \/ BlankProfile(w)
    PROVE  Facts(w)
<1>0. TypeOK /\ job[w] \in Jobs /\ Own(job[w]) /\ ProfileType
  BY DEF IInv, TypeOK, ProfileType
<1> USE <1>0
<1> USE DEF ProfileType, profileVars, rowVars
<1>1. job[w].step \in ReleaseSteps /\ job[w].user \in Users
  BY DEF HandBackRefused, ReadRows, RowIsGone, HandedBack, BlankProfile, ReleaseSteps, Own, Fits,
         UserSteps, SweepSteps
<1>2. \A n \in Numbers : ~Recording(w, n)
  BY <1>1 DEF Recording, ReleaseSteps
<1>3. Bounds
  BY BoundsHold DEF HandBackRefused, ReadRows, RowIsGone, HandedBack, BlankProfile
<1>4. ASSUME NEW n \in Numbers, HandBackRefused(w, n) PROVE Facts(w)
  <2> DEFINE j == [job[w] EXCEPT !.rows = @ \ {n}]
  <2>1. j \in Jobs /\ j.number = job[w].number /\ j.step = "hand" /\ j.user = job[w].user
        /\ j.rows \subseteq job[w].rows /\ j.late = job[w].late
    BY <1>4 DEF HandBackRefused, Jobs
  <2>2. Own(j)
    BY <1>1, <1>4, <2>1
       DEF HandBackRefused, Own, Fits, Returned, Reserved, NumberSteps, ClaimSteps, AssignSteps,
           UnassignSteps
  <2> HIDE DEF j
  <2>3. Go(w, j)
    BY <1>4 DEF HandBackRefused, j
  <2>4. QED
    BY <1>2, <1>3, <1>4, <2>1, <2>2, <2>3, QuietStep DEF HandBackRefused, TypeOK
<1>5. ASSUME ReadRows(w) PROVE Facts(w)
  <2> DEFINE j == [Step(w, "hand") EXCEPT !.rows = RowsOf(job[w].user)]
  <2>1. Step(w, "hand") \in Jobs /\ Step(w, "hand").step = "hand"
        /\ Step(w, "hand").user = job[w].user /\ Step(w, "hand").late = job[w].late
    BY StepType DEF Steps, SweepSteps, ReleaseSteps
  <2>2. RowsOf(job[w].user) \subseteq tracked /\ tracked \subseteq Numbers
        /\ \A n \in RowsOf(job[w].user) : holder[n] = job[w].user
    BY DEF RowsOf, TypeOK
  <2> HIDE DEF Step
  <2>3. j \in Jobs /\ j.step = "hand" /\ j.user = job[w].user /\ j.late = job[w].late
        /\ j.rows = RowsOf(job[w].user)
    BY <2>1, <2>2 DEF Jobs
  <2>4. Own(j)
    BY <1>1, <1>5, <2>2, <2>3
       DEF ReadRows, Own, Fits, Returned, Reserved, NumberSteps, ClaimSteps, AssignSteps,
           UnassignSteps
  <2> HIDE DEF j
  <2>5. Go(w, j)
    BY <1>5 DEF ReadRows, j
  <2>6. QED
    BY <1>2, <1>3, <1>5, <2>3, <2>4, <2>5, QuietStep DEF ReadRows, TypeOK
<1>6. ASSUME RowIsGone(w) PROVE Facts(w)
  BY <1>2, <1>3, <1>6, QuietDone DEF RowIsGone, TypeOK
<1>7. "blank" \in Steps /\ "close" \in Steps
  BY DEF Steps, SweepSteps, ReleaseSteps
<1>8. ASSUME HandedBack(w) PROVE Facts(w)
  <2>1. Own(Step(w, "blank"))
    BY <1>1, ReleaseOwn
  <2>2. QED
    BY <1>2, <1>3, <1>7, <1>8, <2>1, QuietGoOn DEF HandedBack, TypeOK
<1>9. ASSUME BlankProfile(w) PROVE Facts(w)
  <2>1. Own(Step(w, "close"))
    BY <1>1, ReleaseOwn
  <2>2. ProfileType'
    BY <1>1, <1>9 DEF BlankProfile, ShowNumber
  <2>3. QED
    BY <1>2, <1>3, <1>7, <1>9, <2>1, <2>2, QuietGoOn DEF BlankProfile, TypeOK
<1>10. QED
  BY <1>4, <1>5, <1>6, <1>8, <1>9

LEMMA Deficit ==
    ASSUME TypeOK, Cardinality(Available) < Target
    PROVE  Target - Cardinality(Available) \in Nat
<1>1. Available \subseteq Numbers
  BY DEF Available, TypeOK
<1>2. Cardinality(Available) \in Nat
  BY <1>1, NumbersAssumption, FS_Subset, FS_CardinalityType DEF NumbersAssumption
<1>3. QED
  BY <1>2, NumbersAssumption DEF NumbersAssumption

LEMMA PoolFacts ==
    ASSUME IInv, NEW w \in Handlers,
           \/ Replenish(w) \/ ListUntracked(w) \/ Imported(w) \/ Replenished(w)
           \/ CleanupOrphans(w) \/ \E n \in Numbers : FindNumber(w, n)
    PROVE  Facts(w)
<1>0. TypeOK /\ job[w] \in Jobs /\ Own(job[w]) /\ ProfileType
  BY DEF IInv, TypeOK, ProfileType
<1> USE <1>0
<1> USE DEF ProfileType, profileVars, rowVars
<1>1. Bounds
  BY BoundsHold DEF Replenish, ListUntracked, Imported, Replenished, CleanupOrphans, FindNumber
<1>2. ASSUME Replenish(w) PROVE Facts(w)
  <2> DEFINE j == [Idle EXCEPT !.step = "list", !.need = Target - Cardinality(Available)]
  <2>1. j \in Jobs
    BY <1>2, Deficit DEF Replenish, Idle, Jobs, Steps, PoolSteps
  <2>2. Own(j)
    BY DEF Idle, Own, Fits, Returned, Reserved, ReleaseSteps, NumberSteps, ClaimSteps,
           AssignSteps, UnassignSteps, UserSteps, ApproveSteps, SweepSteps
  <2> HIDE DEF j
  <2>3. Start(w, j)
    BY <1>2 DEF Replenish, Request, j
  <2>4. QED
    BY <1>1, <1>2, <2>1, <2>2, <2>3, QuietRequest DEF Replenish
<1>3. ASSUME CleanupOrphans(w) PROVE Facts(w)
  <2> DEFINE j == [Idle EXCEPT !.step = "orphans", !.seen = owned]
  <2>1. j \in Jobs
    BY DEF Idle, Jobs, Steps, TypeOK
  <2>2. Own(j)
    BY DEF Idle, Own, Fits, Returned, Reserved, ReleaseSteps, NumberSteps, ClaimSteps,
           AssignSteps, UnassignSteps, UserSteps, ApproveSteps, SweepSteps
  <2> HIDE DEF j
  <2>3. Start(w, j)
    BY <1>3 DEF CleanupOrphans, Request, j
  <2>4. QED
    BY <1>1, <1>3, <2>1, <2>2, <2>3, QuietRequest DEF CleanupOrphans
<1>4. ASSUME NEW s \in {"import", "find", "purchase"}, NEW j \in Jobs, Go(w, j), j.step = s,
             j.rows = job[w].rows, s = "purchase" => j.number \in Numbers /\ j.need > 0,
             job[w].step \in PoolSteps, job[w].step # "record", Tears({}),
             UNCHANGED <<profileVars, owned, rowVars>>
      PROVE  Facts(w)
  <2>1. Own(j)
    BY <1>4 DEF Own, Fits, Returned, Reserved, ReleaseSteps, NumberSteps, ClaimSteps,
                AssignSteps, UnassignSteps, UserSteps, ApproveSteps, SweepSteps
  <2>2. \A n \in Numbers : ~Recording(w, n)
    BY <1>4 DEF Recording, PoolSteps
  <2>3. QED
    BY <1>1, <1>4, <2>1, <2>2, QuietStep DEF TypeOK
<1>5. \A s \in {"import", "find", "purchase"} :
          /\ Step(w, s) \in Jobs /\ Step(w, s).step = s /\ Step(w, s).rows = job[w].rows
          /\ Step(w, s).need = job[w].need
  BY StepType DEF Steps, PoolSteps
<1> HIDE DEF Step
<1>6. ASSUME ListUntracked(w) PROVE Facts(w)
  <2> DEFINE j == [Step(w, "import") EXCEPT !.seen = owned \ tracked]
  <2>1. j \in Jobs /\ j.step = "import" /\ j.rows = job[w].rows
    BY <1>5 DEF Jobs, TypeOK
  <2> HIDE DEF j
  <2>2. Go(w, j)
    BY <1>6 DEF ListUntracked, j
  <2>3. QED
    BY <1>4, <1>6, <2>1, <2>2 DEF ListUntracked, PoolSteps
<1>7. ASSUME Imported(w) PROVE Facts(w)
  <2> DEFINE j == [Step(w, "find") EXCEPT !.seen = {}]
  <2>1. j \in Jobs /\ j.step = "find" /\ j.rows = job[w].rows
    BY <1>5 DEF Jobs
  <2> HIDE DEF j
  <2>2. Go(w, j)
    BY <1>7 DEF Imported, j
  <2>3. QED
    BY <1>4, <1>7, <2>1, <2>2 DEF Imported, PoolSteps
<1>8. ASSUME NEW n \in Numbers, FindNumber(w, n) PROVE Facts(w)
  <2> DEFINE j == [Step(w, "purchase") EXCEPT !.number = n]
  <2>1. j \in Jobs /\ j.step = "purchase" /\ j.rows = job[w].rows /\ j.number = n
        /\ j.need = job[w].need
    BY <1>5 DEF Jobs
  <2> HIDE DEF j
  <2>2. Go(w, j)
    BY <1>8 DEF FindNumber, j
  <2>3. QED
    BY <1>4, <1>8, <2>1, <2>2 DEF FindNumber, PoolSteps
<1>9. ASSUME Replenished(w) PROVE Facts(w)
  <2>1. \A n \in Numbers : ~Recording(w, n)
    BY <1>9 DEF Replenished, Recording
  <2>2. QED
    BY <1>1, <1>9, <2>1, QuietDone DEF Replenished, TypeOK
<1>10. QED
  BY <1>2, <1>3, <1>6, <1>7, <1>8, <1>9

LEMMA FaultFacts ==
    ASSUME IInv, NEW w \in Handlers, Crash(w) \/ ProfileWriteFails(w) \/ RecordFails(w)
    PROVE  Facts(w)
<1>0. TypeOK /\ job[w] \in Jobs /\ Own(job[w]) /\ ProfileType
  BY DEF IInv, TypeOK, ProfileType
<1> USE <1>0
<1> USE DEF ProfileType, profileVars, rowVars
<1>1. Bounds
  BY BoundsHold DEF Crash, ProfileWriteFails, RecordFails
<1>2. ASSUME Crash(w) PROVE Facts(w)
  <2>1. \A n \in Numbers : Recording(w, n) => n \in Touches(job[w])
    BY DEF Recording, Touches, ClaimSteps
  <2>2. QED
    BY <1>1, <1>2, <2>1, QuietDone DEF Crash, TypeOK
<1>3. ASSUME ProfileWriteFails(w) PROVE Facts(w)
  <2>1. \A n \in Numbers : ~Recording(w, n)
    BY <1>3 DEF ProfileWriteFails, Recording
  <2>2. CASE job[w].step = "clear"
    <3>1. job[w].number \in Numbers
          /\ "pool" \in Steps \ (ReleaseSteps \cup {"entitle", "orphans"} \cup UserSteps)
      BY <2>2 DEF Own, Fits, NumberSteps, UnassignSteps, Steps, ReleaseSteps, UserSteps,
                  ClaimSteps, ApproveSteps, AssignSteps, SweepSteps
    <3>2. Own(Step(w, "pool")) /\ Go(w, Step(w, "pool"))
      BY <1>3, <2>2, <3>1, PlainOwn DEF ProfileWriteFails
    <3>3. QED
      BY <1>1, <1>3, <2>1, <3>1, <3>2, QuietGoOn DEF ProfileWriteFails, TypeOK
  <2>3. CASE job[w].step = "letgo"
    <3>1. job[w].number \in Numbers /\ job[w].user \in Users
          /\ "show" \in Steps \ (ReleaseSteps \cup {"entitle", "orphans"})
      BY <2>3 DEF Own, Fits, NumberSteps, AssignSteps, Steps, ReleaseSteps, UserSteps
    <3>2. Own(Step(w, "show")) /\ Go(w, Step(w, "show"))
      BY <1>3, <2>3, <3>1, PlainOwn DEF ProfileWriteFails
    <3>3. QED
      BY <1>1, <1>3, <2>1, <3>1, <3>2, QuietGoOn DEF ProfileWriteFails, TypeOK
  <2>4. CASE job[w].step = "blank"
    <3>1. "close" \in Steps /\ job[w].step \in ReleaseSteps
      BY <2>4 DEF Steps, SweepSteps, ReleaseSteps
    <3>2. Own(Step(w, "close")) /\ Go(w, Step(w, "close"))
      BY <1>3, <2>4, <3>1, ReleaseOwn DEF ProfileWriteFails
    <3>3. QED
      BY <1>1, <1>3, <2>1, <3>1, <3>2, QuietGoOn DEF ProfileWriteFails, TypeOK
  <2>5. QED
    BY <1>3, <2>2, <2>3, <2>4 DEF ProfileWriteFails
<1>4. ASSUME RecordFails(w) PROVE Facts(w)
  <2> DEFINE j == [Step(w, "find") EXCEPT !.number = NoNumber]
  <2>1. Step(w, "find") \in Jobs /\ Step(w, "find").step = "find"
        /\ Step(w, "find").rows = job[w].rows
    BY StepType DEF Steps, PoolSteps
  <2>2. Go(w, j)
    BY <1>4 DEF RecordFails
  <2> HIDE DEF Step
  <2>3. j \in Jobs /\ j.step = "find" /\ j.rows = job[w].rows
    BY <2>1 DEF Jobs
  <2> HIDE DEF j
  <2>4. job[w].step \notin ReleaseSteps
    BY <1>4 DEF RecordFails, ReleaseSteps
  <2>5. Own(j)
    BY <2>3 DEF Own, Fits, Returned, Reserved, ReleaseSteps, UserSteps, NumberSteps, ClaimSteps,
               ApproveSteps, AssignSteps, UnassignSteps, SweepSteps
  <2>6. \A n \in owned \ tracked : Recording(w, n) => n \in {job[w].number} \ tracked
    BY DEF Recording
  <2>7. QED
    BY <1>1, <1>4, <2>2, <2>3, <2>5, <2>6, QuietStep DEF RecordFails, TypeOK
<1>5. QED
  BY <1>2, <1>3, <1>4

--------------------------------------------------------------------------------
(* The steps that buy, record and move numbers.                            *)

LEMMA RowStep ==
    ASSUME IInv, NEW w \in Handlers, NEW j \in Jobs, NEW xs, Go(w, j), Tears(xs), Bounds,
           UNCHANGED profileVars, owned' \subseteq Numbers,
           tracked \subseteq tracked', tracked' \subseteq Numbers, back' \subseteq tracked',
           holder' \in [Numbers -> Users \cup {NoUser}],
           \A n \in Numbers \ tracked' : holder'[n] = NoUser,
           owned' \subseteq owned \cup Touches(j),
           \A n \in Numbers : holder'[n] = holder[n] \/ {n, holder[n]} \cap Touches(job[w]) # {},
           \A n \in owned' \ tracked' :
               \/ n \in xs
               \/ j.number = n /\ j.step \in RecordSteps
               \/ n \in owned \ tracked /\ ~Recording(w, n),
           Own(j)'
    PROVE  Facts(w)
<1>1. /\ job' \in [Handlers -> Jobs] /\ job'[w] = j
      /\ \A v \in Handlers \ {w} : job'[v] = job[v]
  BY GoType DEF IInv
<1>2. /\ torn' \subseteq Users \cup Numbers
      /\ torn \subseteq torn' /\ Clashes(job') \subseteq torn'
      /\ xs \cap (Users \cup Numbers) \subseteq torn'
  BY TearsType DEF IInv
<1>3. TypeOK'
  BY <1>1, <1>2 DEF IInv, TypeOK, Bounds, profileVars
<1>4. Effect(w)
  <2>1. \A v \in Handlers \ {w} : Kept(v)
    BY <1>1 DEF Kept
  <2>2. QED
    BY <1>1, <1>2, <2>1 DEF Effect, profileVars
<1>5. Own(job[w])'
  BY <1>1 DEF Own, Fits, Returned, Reserved
<1>6. QED
  BY <1>3, <1>4, <1>5 DEF Facts

\* The end of a job, and a step that asks nothing of stores.
LEMMA IdleOwnNext == Own(Idle)'
BY DEF Idle, Own, Fits, Returned, Reserved, UserSteps, NumberSteps, ReleaseSteps, SweepSteps,
       ClaimSteps, ApproveSteps, AssignSteps, UnassignSteps

LEMMA PlainOwnNext ==
    ASSUME NEW j \in Jobs, j.rows \subseteq tracked',
           j.step \notin ReleaseSteps \cup {"entitle", "orphans"},
           j.step \in UserSteps => j.user \in Users,
           j.step \in NumberSteps => j.number \in Numbers,
           j.step \in {"purchase", "record"} => j.need > 0
    PROVE  Own(j)'
BY DEF Own, Fits, Returned, Reserved, ReleaseSteps

LEMMA GiveType ==
    ASSUME TypeOK, NEW n \in Numbers, NEW u \in Users, Give(n, u), tracked \subseteq tracked',
           n \in tracked'
    PROVE  /\ holder' \in [Numbers -> Users \cup {NoUser}]
           /\ \A m \in Numbers \ tracked' : holder'[m] = NoUser
           /\ \A m \in Numbers \ {n} : holder'[m] = holder[m]
           /\ back' \subseteq tracked'
BY DEF TypeOK, Give

LEMMA FreeType ==
    ASSUME TypeOK, NEW rows, rows \subseteq tracked, Free(rows), UNCHANGED tracked
    PROVE  /\ holder' \in [Numbers -> Users \cup {NoUser}]
           /\ \A m \in Numbers \ tracked' : holder'[m] = NoUser
           /\ \A m \in Numbers \ rows : holder'[m] = holder[m]
           /\ back' \subseteq tracked'
BY DEF TypeOK, Free

LEMMA MoveFacts ==
    ASSUME IInv, NEW w \in Handlers,
           FreeOthers(w) \/ TakeRow(w) \/ SeatCustomer(w) \/ PoolRow(w) \/ SwapRows(w)
    PROVE  Facts(w)
<1>0. TypeOK /\ job[w] \in Jobs /\ Own(job[w]) /\ ProfileType
  BY DEF IInv, TypeOK, ProfileType
<1> USE <1>0
<1>1. Bounds
  BY BoundsHold DEF FreeOthers, TakeRow, SeatCustomer, PoolRow, SwapRows
<1>2. /\ job[w].step \in UserSteps => job[w].user \in Users
      /\ job[w].step \in NumberSteps => job[w].number \in Numbers
      /\ job[w].rows \subseteq tracked /\ tracked \subseteq Numbers /\ owned \subseteq Numbers
      /\ back \subseteq tracked /\ \A n \in Numbers \ tracked : holder[n] = NoUser
      /\ holder \in [Numbers -> Users \cup {NoUser}]
  BY DEF Own, Fits, TypeOK
<1>3. /\ {"free", "take", "seat", "swap"} \subseteq UserSteps
      /\ {"free", "take", "seat", "swap", "pool"} \subseteq NumberSteps
  BY DEF UserSteps, NumberSteps, ClaimSteps, ApproveSteps, AssignSteps, UnassignSteps
<1>4. job[w].step \in {"free", "take", "seat", "swap", "pool"} =>
          ({job[w].user, job[w].number} \cup job[w].rows) \cap (Users \cup Numbers)
              \subseteq Touches(job[w])
  BY DEF Touches, ClaimSteps, ApproveSteps, AssignSteps, UnassignSteps
<1>5. {"take", "accept", "show", "letgo"} \subseteq Steps \ (ReleaseSteps \cup {"entitle", "orphans"})
      /\ "accept" \notin NumberSteps
  BY DEF Steps, ReleaseSteps, ClaimSteps, ApproveSteps, AssignSteps, NumberSteps, UnassignSteps
<1>6. ASSUME FreeOthers(w) PROVE Facts(w)
  <2> DEFINE rows == RowsOf(job[w].user) \ {job[w].number}
  <2>1. job[w].user \in Users /\ job[w].number \in Numbers
    BY <1>2, <1>3, <1>6 DEF FreeOthers
  <2>2. rows \subseteq tracked /\ \A n \in rows : holder[n] = job[w].user
    BY DEF RowsOf
  <2> HIDE DEF rows
  <2>3. Free(rows) /\ UNCHANGED tracked
    BY <1>6 DEF FreeOthers, rows
  <2>4. PICK j \in Jobs : /\ j = Step(w, "take") /\ j.step = "take" /\ j.user = job[w].user
                          /\ j.number = job[w].number /\ j.rows = job[w].rows
    BY <1>5, StepType
  <2>5. Own(j)'
    BY <1>2, <1>5, <2>1, <2>3, <2>4, PlainOwnNext
  <2>6. \A n \in Numbers : holder'[n] = holder[n] \/ {n, holder[n]} \cap Touches(job[w]) # {}
    BY <1>4, <1>6, <2>1, <2>2, <2>3, FreeType DEF FreeOthers
  <2>7. QED
    BY <1>1, <1>2, <1>6, <2>2, <2>3, <2>4, <2>5, <2>6, FreeType, RowStep
    DEF FreeOthers, Recording, RecordSteps
<1>7. ASSUME TakeRow(w) PROVE Facts(w)
  <2>1. job[w].user \in Users /\ job[w].number \in Numbers
    BY <1>2, <1>3, <1>7 DEF TakeRow
  <2>2. tracked \subseteq tracked' /\ job[w].number \in tracked' /\ tracked' \subseteq Numbers
        /\ Give(job[w].number, job[w].user)
    BY <1>2, <1>7, <2>1 DEF TakeRow
  <2>3. \A n \in Numbers : holder'[n] = holder[n] \/ {n, holder[n]} \cap Touches(job[w]) # {}
    BY <1>4, <1>7, <2>1, <2>2, GiveType DEF TakeRow
  <2>4. \A n \in owned' \ tracked' : n \in owned \ tracked /\ ~Recording(w, n)
    BY <1>7, <2>2 DEF TakeRow, Recording
  <2>5. QED
    BY <1>1, <1>2, <1>7, <2>1, <2>2, <2>3, <2>4, GiveType, IdleType, IdleOwnNext, RowStep
    DEF TakeRow, Done
<1>8. ASSUME SeatCustomer(w) PROVE Facts(w)
  <2>1. job[w].user \in Users /\ job[w].number \in Numbers
    BY <1>2, <1>3, <1>8 DEF SeatCustomer
  <2>2. \A n \in Numbers : ~Recording(w, n)
    BY <1>8 DEF SeatCustomer, Recording
  <2>3. CASE /\ job[w].number \in job[w].rows
             /\ Give(job[w].number, job[w].user)
             /\ Go(w, Step(w, "accept"))
    <3>1. UNCHANGED tracked /\ job[w].number \in tracked
      BY <1>2, <1>8, <2>3 DEF SeatCustomer
    <3>2. PICK j \in Jobs : /\ j = Step(w, "accept") /\ j.step = "accept" /\ j.user = job[w].user
                            /\ j.number = job[w].number /\ j.rows = job[w].rows
      BY <1>5, StepType
    <3>3. Own(j)'
      BY <1>2, <1>5, <2>1, <3>1, <3>2, PlainOwnNext
    <3>4. \A n \in Numbers : holder'[n] = holder[n] \/ {n, holder[n]} \cap Touches(job[w]) # {}
      BY <1>4, <1>8, <2>1, <2>3, <3>1, GiveType DEF SeatCustomer
    <3>5. QED
      BY <1>1, <1>2, <1>8, <2>1, <2>2, <2>3, <3>1, <3>2, <3>3, <3>4, GiveType, RowStep
      DEF SeatCustomer
  <2>4. CASE /\ Go(w, [Step(w, "accept") EXCEPT !.number = NoNumber])
             /\ UNCHANGED <<holder, back>>
    <3>1. Step(w, "accept") \in Jobs /\ Step(w, "accept").step = "accept"
          /\ Step(w, "accept").user = job[w].user /\ Step(w, "accept").rows = job[w].rows
      BY <1>5, StepType
    <3> DEFINE k == [Step(w, "accept") EXCEPT !.number = NoNumber]
    <3> HIDE DEF Step
    <3>2. k \in Jobs /\ k.step = "accept" /\ k.user = job[w].user /\ k.rows = job[w].rows
      BY <3>1 DEF Jobs
    <3>3. PICK j \in Jobs : j = k /\ j.step = "accept" /\ j.user = job[w].user
                            /\ j.rows = job[w].rows
      BY <3>2
    <3>4. UNCHANGED tracked
      BY <1>8 DEF SeatCustomer
    <3>5. Own(j)'
      BY <1>2, <1>5, <2>1, <3>3, <3>4, PlainOwnNext
    <3>6. QED
      BY <1>1, <1>2, <1>8, <2>2, <2>4, <3>3, <3>4, <3>5, RowStep DEF SeatCustomer
  <2>5. QED
    BY <1>8, <2>3, <2>4 DEF SeatCustomer
<1>9. ASSUME PoolRow(w) PROVE Facts(w)
  <2>1. Free(job[w].rows) /\ UNCHANGED tracked
    BY <1>9 DEF PoolRow
  <2>2. \A n \in Numbers : holder'[n] = holder[n] \/ {n, holder[n]} \cap Touches(job[w]) # {}
    BY <1>2, <1>4, <1>9, <2>1, FreeType DEF PoolRow
  <2>3. \A n \in Numbers : ~Recording(w, n)
    BY <1>9 DEF PoolRow, Recording
  <2>4. QED
    BY <1>1, <1>2, <1>9, <2>1, <2>2, <2>3, FreeType, IdleType, IdleOwnNext, RowStep
    DEF PoolRow, Done
<1>10. ASSUME SwapRows(w) PROVE Facts(w)
  <2>1. job[w].user \in Users /\ job[w].number \in Numbers /\ UNCHANGED tracked
    BY <1>2, <1>3, <1>10 DEF SwapRows
  <2>2. \A n \in Numbers : ~Recording(w, n)
    BY <1>10 DEF SwapRows, Recording
  <2>3. CASE Done(w) /\ UNCHANGED <<holder, back>>
    BY <1>1, <1>2, <1>10, <2>1, <2>2, <2>3, IdleType, IdleOwnNext, RowStep DEF SwapRows, Done
  <2>4. ASSUME NEW s \in {"show", "letgo"}, job[w].number \in job[w].rows,
               holder' = [m \in Numbers |->
                   IF m = job[w].number THEN job[w].user
                   ELSE IF m \in job[w].rows \ {job[w].number} THEN NoUser ELSE holder[m]],
               back' = (back \cup (job[w].rows \ {job[w].number})) \ {job[w].number},
               Go(w, Step(w, s))
        PROVE  Facts(w)
    <3>1. PICK j \in Jobs : /\ j = Step(w, s) /\ j.step = s /\ j.user = job[w].user
                            /\ j.number = job[w].number /\ j.rows = job[w].rows
      BY <1>5, StepType
    <3>2. Own(j)'
      BY <1>2, <1>5, <2>1, <3>1, PlainOwnNext
    <3>3. /\ holder' \in [Numbers -> Users \cup {NoUser}]
          /\ back' \subseteq tracked'
          /\ \A n \in Numbers \ tracked' : holder'[n] = NoUser
          /\ \A n \in Numbers \ job[w].rows : holder'[n] = holder[n]
      BY <1>2, <2>1, <2>4
    <3>4. \A n \in Numbers : holder'[n] = holder[n] \/ {n, holder[n]} \cap Touches(job[w]) # {}
      BY <1>2, <1>4, <1>10, <3>3 DEF SwapRows
    <3>5. QED
      BY <1>1, <1>2, <1>10, <2>1, <2>2, <2>4, <3>1, <3>2, <3>3, <3>4, RowStep DEF SwapRows
  <2>5. QED
    BY <1>10, <2>3, <2>4 DEF SwapRows
<1>11. QED
  BY <1>6, <1>7, <1>8, <1>9, <1>10

LEMMA BuyFacts ==
    ASSUME IInv, NEW w \in Handlers,
           \/ BuyNumber(w) \/ PurchaseForPool(w) \/ RecordPurchase(w)
           \/ \E n \in Numbers : HandBack(w, n) \/ ImportNumber(w, n)
    PROVE  Facts(w)
<1>0. TypeOK /\ job[w] \in Jobs /\ Own(job[w]) /\ ProfileType
  BY DEF IInv, TypeOK, ProfileType
<1> USE <1>0
<1>1. Bounds
  BY BoundsHold DEF BuyNumber, PurchaseForPool, RecordPurchase, HandBack, ImportNumber
<1>2. /\ tracked \subseteq Numbers /\ owned \subseteq Numbers /\ back \subseteq tracked
      /\ holder \in [Numbers -> Users \cup {NoUser}]
      /\ \A n \in Numbers \ tracked : holder[n] = NoUser
      /\ job[w].rows \subseteq tracked /\ job[w].need \in Nat
  BY JobTypes DEF Own, Fits, TypeOK
<1>3. /\ {"prev", "record", "find", "strike", "hand"} \subseteq Steps
      /\ {"prev", "record"} \cap (ReleaseSteps \cup {"entitle", "orphans"}) = {}
      /\ {"find", "import"} \cap (ReleaseSteps \cup UserSteps \cup NumberSteps) = {}
      /\ "record" \notin UserSteps
  BY DEF Steps, ReleaseSteps, UserSteps, NumberSteps, ClaimSteps, ApproveSteps, AssignSteps,
         UnassignSteps, SweepSteps, PoolSteps
<1>4. \A j \in Jobs : j.step \in {"prev", "record"} /\ j.number \in Numbers
          => j.number \in Touches(j)
  BY DEF Touches, ClaimSteps
<1>5. ASSUME NEW s \in {"prev", "record"}, Go(w, Step(w, s)), job[w].number \in Numbers,
             owned' = owned \cup {job[w].number}, UNCHANGED <<profileVars, rowVars>>,
             s = "prev" => job[w].user \in Users, s = "record" => job[w].need > 0,
             job[w].step \in {"buy", "purchase"}, NEW xs, Tears(xs)
      PROVE  Facts(w)
  <2>1. PICK j \in Jobs : /\ j = Step(w, s) /\ j.step = s /\ j.user = job[w].user
                          /\ j.number = job[w].number /\ j.rows = job[w].rows
                          /\ j.need = job[w].need
    BY <1>3, StepType
  <2>2. Own(j)'
    BY <1>2, <1>3, <1>5, <2>1, PlainOwnNext DEF rowVars
  <2>3. j.number \in Touches(j)
    BY <1>4, <1>5, <2>1
  <2>4. \A n \in owned' \ tracked' :
               \/ j.number = n /\ j.step \in RecordSteps
               \/ n \in owned \ tracked /\ ~Recording(w, n)
    BY <1>5, <2>1 DEF rowVars, Recording, RecordSteps
  <2>5. Go(w, j)
    BY <1>5, <2>1
  <2>6. QED
    BY <1>1, <1>2, <1>5, <2>1, <2>2, <2>3, <2>4, <2>5, RowStep DEF rowVars
<1>6. ASSUME BuyNumber(w) PROVE Facts(w)
  <2>1. job[w].user \in Users /\ job[w].number \in Numbers
    BY <1>6 DEF BuyNumber, Own, Fits, UserSteps, NumberSteps, ClaimSteps
  <2>2. CASE Done(w) /\ UNCHANGED owned
    BY <1>1, <1>6, <2>2, QuietDone DEF BuyNumber, Recording, ProfileType, profileVars
  <2>3. CASE Go(w, Step(w, "prev")) /\ owned' = owned \cup {job[w].number}
    BY <1>5, <1>6, <2>1, <2>3 DEF BuyNumber
  <2>4. QED
    BY <1>6, <2>2, <2>3 DEF BuyNumber
<1>7. ASSUME PurchaseForPool(w) PROVE Facts(w)
  <2>1. job[w].number \in Numbers /\ job[w].need > 0
    BY <1>7 DEF PurchaseForPool, Own, Fits, NumberSteps
  <2> DEFINE j == [Step(w, "find") EXCEPT !.number = NoNumber]
  <2>2. CASE Go(w, j) /\ UNCHANGED owned
    <3>1. j \in Jobs /\ j.step = "find" /\ j.rows = job[w].rows
      BY <1>3, StepType DEF Jobs
    <3>2. Own(j)
      BY <1>2, <1>3, <3>1 DEF Own, Fits, Returned, Reserved
    <3> HIDE DEF j
    <3>3. QED
      BY <1>1, <1>7, <2>2, <3>1, <3>2, QuietStep
      DEF PurchaseForPool, Recording, ProfileType, profileVars
  <2>3. CASE Go(w, Step(w, "record")) /\ owned' = owned \cup {job[w].number}
    BY <1>5, <1>7, <2>1, <2>3 DEF PurchaseForPool
  <2>4. QED
    BY <1>7, <2>2, <2>3 DEF PurchaseForPool
<1>8. ASSUME NEW n \in Numbers, NEW j \in Jobs, Go(w, j), j.step \in {"find", "import"},
             j.rows = job[w].rows, tracked' = tracked \cup {n}, Tears({}),
             UNCHANGED <<profileVars, owned, holder, back>>,
             \A m \in Numbers : Recording(w, m) => m = n
      PROVE  Facts(w)
  <2>1. Own(j)'
    BY <1>2, <1>3, <1>8, PlainOwnNext
  <2>2. QED
    BY <1>1, <1>2, <1>8, <2>1, RowStep
<1>9. ASSUME RecordPurchase(w) PROVE Facts(w)
  <2>1. job[w].number \in Numbers /\ job[w].need > 0
    BY <1>9 DEF RecordPurchase, Own, Fits, NumberSteps
  <2> DEFINE m == IF job[w].number \in tracked THEN job[w].need ELSE job[w].need - 1
  <2> DEFINE j == [Step(w, "find") EXCEPT !.number = NoNumber, !.need = m]
  <2>2. Step(w, "find") \in Jobs /\ Step(w, "find").step = "find"
        /\ Step(w, "find").rows = job[w].rows /\ Step(w, "find").need = job[w].need
    BY <1>3, StepType
  <2>3. m \in Nat
    BY <1>2, <2>1
  <2>4. Go(w, j)
    BY <1>9, <2>2 DEF RecordPurchase, Step
  <2> HIDE DEF m, Step
  <2>5. j \in Jobs /\ j.step = "find" /\ j.rows = job[w].rows
    BY <2>2, <2>3 DEF Jobs
  <2> HIDE DEF j
  <2>6. QED
    BY <1>8, <1>9, <2>1, <2>4, <2>5 DEF RecordPurchase, Recording
<1>10. ASSUME NEW n \in Numbers, ImportNumber(w, n) PROVE Facts(w)
  <2> DEFINE m == IF n \notin tracked THEN job[w].need - 1 ELSE job[w].need
  <2> DEFINE j == [job[w] EXCEPT !.seen = @ \ {n}, !.need = m]
  <2>1. job[w].need > 0 /\ job[w].step = "import"
    BY <1>10 DEF ImportNumber
  <2>2. m \in Nat
    BY <1>2, <2>1
  <2>3. Go(w, j)
    BY <1>10 DEF ImportNumber
  <2> HIDE DEF m
  <2>4. j \in Jobs /\ j.step = "import" /\ j.rows = job[w].rows
    BY <2>2, <2>1 DEF Jobs
  <2> HIDE DEF j
  <2>5. QED
    BY <1>8, <1>10, <2>3, <2>4 DEF ImportNumber, Recording
<1>11. ASSUME NEW n \in Numbers, HandBack(w, n) PROVE Facts(w)
  <2> DEFINE k == [Step(w, "strike") EXCEPT !.number = n]
  <2>1. Step(w, "strike") \in Jobs /\ Step(w, "strike").step = "strike"
        /\ Step(w, "strike").user = job[w].user /\ Step(w, "strike").rows = job[w].rows
        /\ Step(w, "strike").late = job[w].late
    BY <1>3, StepType
  <2> HIDE DEF Step
  <2>2. k \in Jobs /\ k.step = "strike" /\ k.number = n /\ k.user = job[w].user
        /\ k.rows = job[w].rows /\ k.late = job[w].late
    BY <2>1 DEF Jobs
  <2> HIDE DEF k
  <2>3. PICK j \in Jobs : /\ j = k /\ j.step = "strike" /\ j.number = n /\ j.user = job[w].user
                          /\ j.rows = job[w].rows /\ j.late = job[w].late
    BY <2>2
  <2>4. Go(w, j)
    BY <1>11, <2>3 DEF HandBack, k
  <2>5. torn \subseteq torn'
    BY <1>11, TearsType DEF HandBack
  <2>6. job[w].user \in Users /\ job[w].step \in ReleaseSteps
    BY <1>11 DEF HandBack, Own, Fits, UserSteps, SweepSteps, ReleaseSteps
  <2>7. Own(j)'
    <3>1. Fits(j)'
      BY <1>2, <1>11, <2>3, <2>6 DEF HandBack, Fits, rowVars
    <3>2. Returned(j)'
      BY <1>11, <2>3 DEF HandBack, Returned
    <3>3. Reserved(j)'
      BY <1>11, <2>3, <2>5, <2>6 DEF HandBack, Own, Reserved, rowVars, profileVars
    <3>4. QED
      BY <3>1, <3>2, <3>3 DEF Own
  <2>8. QED
    BY <1>1, <1>2, <1>11, <2>3, <2>4, <2>7, RowStep DEF HandBack, Recording, rowVars
<1>12. QED
  BY <1>6, <1>7, <1>9, <1>10, <1>11

--------------------------------------------------------------------------------
(* The steps that delete rows, entitle a customer or suspend one.          *)

LEMMA ForgetType ==
    ASSUME TypeOK, NEW w \in Handlers, NEW gone, NEW j \in Jobs,
           job' = [Forget(job, gone) EXCEPT ![w] = j], tracked' = tracked \ gone
    PROVE  /\ job' \in [Handlers -> Jobs]
           /\ job'[w] = j
           /\ \A v \in Handlers \ {w} :
                  Kept(v) /\ job'[v].rows = job[v].rows \ gone /\ job'[v].late = job[v].late
<1>1. ASSUME NEW v \in Handlers \ {w}
      PROVE  /\ job'[v] \in Jobs
             /\ Kept(v) /\ job'[v].rows = job[v].rows \ gone /\ job'[v].late = job[v].late
  <2>1. job[v] \in Jobs
    BY DEF TypeOK
  <2> DEFINE dead == IF job[v].step \in {"hand", "strike"}
                     THEN job[v].dead \cup (job[v].rows \cap gone) ELSE job[v].dead
  <2>2. job'[v] = [job[v] EXCEPT !.rows = job[v].rows \ gone, !.dead = dead]
    BY DEF Forget
  <2>3. dead \in SUBSET Numbers /\ job[v].rows \ gone \in SUBSET Numbers
    BY <2>1, JobTypes
  <2> HIDE DEF dead
  <2>4. /\ job'[v] \in Jobs
        /\ job'[v].rows = job[v].rows \ gone
        /\ job'[v].late = job[v].late
        /\ job'[v].step = job[v].step /\ job'[v].user = job[v].user
        /\ job'[v].number = job[v].number /\ job'[v].prev = job[v].prev
        /\ job'[v].other = job[v].other /\ job'[v].seen = job[v].seen
        /\ job'[v].need = job[v].need
    <3> DEFINE rows == job[v].rows \ gone
    <3>1. rows \in SUBSET Numbers /\ job'[v] = [job[v] EXCEPT !.rows = rows, !.dead = dead]
      BY <2>2, <2>3
    <3> HIDE DEF rows
    <3>2. PICK o \in Jobs, r \in SUBSET Numbers, d \in SUBSET Numbers, k \in {job'[v]} :
              /\ o = job[v] /\ r = rows /\ d = dead
              /\ k = [o EXCEPT !.rows = r, !.dead = d]
      BY <2>1, <2>3, <3>1
    <3>3. /\ k \in Jobs
          /\ k.rows = r /\ k.late = o.late /\ k.step = o.step /\ k.user = o.user
          /\ k.number = o.number /\ k.prev = o.prev /\ k.other = o.other
          /\ k.seen = o.seen /\ k.need = o.need
      BY <3>2 DEF Jobs
    <3>4. QED
      BY <3>2, <3>3 DEF rows
  <2>5. QED
    BY <2>4 DEF Kept
<1>2. job'[w] = j /\ job' = [v \in Handlers |-> job'[v]]
  BY DEF Forget
<1>3. QED
  BY <1>1, <1>2

LEMMA DeleteType ==
    ASSUME TypeOK, NEW rows, Delete(rows)
    PROVE  /\ tracked' \subseteq Numbers /\ back' \subseteq tracked'
           /\ holder' \in [Numbers -> Users \cup {NoUser}]
           /\ \A n \in Numbers \ tracked' : holder'[n] = NoUser
           /\ \A n \in Numbers \ rows : holder'[n] = holder[n]
           /\ tracked' = tracked \ rows
BY DEF TypeOK, Delete

LEMMA DeleteFacts ==
    ASSUME IInv, NEW w \in Handlers, NEW gone, NEW j \in Jobs, Delete(gone), Tears({}), Bounds,
           job' = [Forget(job, gone) EXCEPT ![w] = j], UNCHANGED <<profileVars, owned>>,
           gone \cap owned \subseteq torn, job[w].step \in {"strike", "orphans"}, Own(j)'
    PROVE  Facts(w)
<1>0. TypeOK
  BY DEF IInv
<1>1. /\ torn' \subseteq Users \cup Numbers
      /\ torn \subseteq torn' /\ Clashes(job') \subseteq torn'
  BY <1>0, TearsType
<1>2. TypeOK'
  BY <1>0, <1>1, DeleteType, ForgetType DEF TypeOK, Bounds, profileVars
<1>3. Effect(w)
  <2>1. \A n \in owned' \ tracked' : n \in torn' \/ (n \in owned \ tracked /\ ~Recording(w, n))
    BY <1>0, <1>1, DeleteType DEF Recording
  <2>2. \A n \in Numbers : holder'[n] = holder[n] \/ n \notin tracked'
    BY <1>0, DeleteType
  <2>3. \A v \in Handlers \ {w} : Kept(v)
    BY <1>0, DeleteType, ForgetType
  <2>4. QED
    BY <1>1, <2>1, <2>2, <2>3 DEF Effect, profileVars
<1>4. Own(job[w])'
  <2>1. job'[w] = j
    BY <1>0, DeleteType, ForgetType
  <2>2. QED
    BY <2>1 DEF Own, Fits, Returned, Reserved
<1>5. QED
  BY <1>2, <1>3, <1>4 DEF Facts

LEMMA StrikeFacts ==
    ASSUME IInv, NEW w \in Handlers, StrikeRow(w) \/ DeleteOrphans(w)
    PROVE  Facts(w)
<1>0. TypeOK /\ job[w] \in Jobs /\ Own(job[w])
  BY DEF IInv, TypeOK
<1> USE <1>0
<1>1. Bounds
  BY BoundsHold DEF StrikeRow, DeleteOrphans
<1>2. ASSUME StrikeRow(w) PROVE Facts(w)
  <2> DEFINE n == job[w].number
  <2> DEFINE k == [Step(w, "hand") EXCEPT !.number = NoNumber, !.rows = @ \ {n}]
  <2>1. /\ job[w].step = "strike" /\ job[w].rows \subseteq tracked
        /\ job[w].user \in Users /\ n \in Numbers /\ (n \notin owned \/ n \in torn)
    BY <1>2 DEF StrikeRow, Own, Fits, Returned, UserSteps, NumberSteps, SweepSteps, ReleaseSteps
  <2>2. Step(w, "hand") \in Jobs /\ Step(w, "hand").step = "hand"
        /\ Step(w, "hand").user = job[w].user /\ Step(w, "hand").rows = job[w].rows
        /\ Step(w, "hand").late = job[w].late
    BY StepType DEF Steps, SweepSteps, ReleaseSteps
  <2>3. Delete({n}) /\ job' = [Forget(job, {n}) EXCEPT ![w] = k] /\ Tears({})
        /\ UNCHANGED <<profileVars, owned>>
    BY <1>2 DEF StrikeRow
  <2> HIDE DEF Step
  <2>4. k \in Jobs /\ k.step = "hand" /\ k.user = job[w].user /\ k.late = job[w].late
        /\ k.rows = job[w].rows \ {n}
    BY <2>2 DEF Jobs
  <2> HIDE DEF k
  <2>5. PICK m : m = n
    OBVIOUS
  <2>6. PICK j \in Jobs : /\ j = k /\ j.step = "hand" /\ j.user = job[w].user
                          /\ j.late = job[w].late /\ j.rows = job[w].rows \ {m}
    BY <2>4, <2>5
  <2>7. Own(j)'
    <3>1. Fits(j)'
      BY <2>1, <2>3, <2>5, <2>6, DeleteType
      DEF Fits, NumberSteps, ClaimSteps, AssignSteps, UnassignSteps
    <3>2. Returned(j)'
      BY <2>6 DEF Returned
    <3>3. Reserved(j)'
      <4>1. torn \subseteq torn'
        BY <2>3, TearsType
      <4>2. status[j.user] # "active" \/ j.late
        BY <2>1, <2>6 DEF Own, Reserved, ReleaseSteps
      <4>3. \A i \in j.rows : holder[i] = j.user \/ {i, j.user} \cap torn # {}
        BY <2>1, <2>6 DEF Own, Reserved, ReleaseSteps
      <4>4. \A i \in j.rows : holder'[i] = holder[i]
        BY <2>1, <2>3, <2>5, <2>6, DeleteType DEF TypeOK
      <4>5. UNCHANGED status
        BY <2>3 DEF profileVars
      <4>6. QED
        BY <4>1, <4>2, <4>3, <4>4, <4>5 DEF Reserved
    <3>4. QED
      BY <3>1, <3>2, <3>3 DEF Own
  <2>8. QED
    BY <1>1, <2>1, <2>3, <2>6, <2>7, DeleteFacts
<1>3. ASSUME DeleteOrphans(w) PROVE Facts(w)
  <2> DEFINE gone == tracked \ job[w].seen
  <2>1. job[w].step = "orphans" /\ gone \cap owned \subseteq torn
    BY <1>3 DEF DeleteOrphans, Own, Returned
  <2>2. Delete(gone) /\ job' = [Forget(job, gone) EXCEPT ![w] = Idle] /\ Tears({})
        /\ UNCHANGED <<profileVars, owned>>
    BY <1>3 DEF DeleteOrphans
  <2> HIDE DEF gone
  <2>3. QED
    BY <1>1, <2>1, <2>2, IdleType, IdleOwnNext, DeleteFacts
<1>4. QED
  BY <1>2, <1>3

LEMMA PayFacts ==
    ASSUME IInv, NEW w \in Handlers, NEW u \in Users, Pay(w, u)
    PROVE  Facts(w)
<1>0. TypeOK /\ Bounds
  BY NumbersAssumption DEF IInv, TypeOK, Pay, Bounds, NumbersAssumption
<1> DEFINE j == [Idle EXCEPT !.step = "apply", !.user = u]
<1>1. j \in Jobs /\ j.step = "apply" /\ j.rows = {} /\ j.user = u
  BY DEF Idle, Jobs, Steps
<1> HIDE DEF j
<1>2. /\ torn' \subseteq Users \cup Numbers
      /\ torn \subseteq torn' /\ Clashes(job') \subseteq torn'
  BY <1>0, TearsType DEF Pay
<1>3. job'[w] = j
  BY DEF Pay, j
<1>4. ASSUME NEW v \in Handlers \ {w}
      PROVE  /\ job'[v] \in Jobs /\ Kept(v)
             /\ job[v].step \in ReleaseSteps /\ job[v].user = u => job'[v].late
  <2>1. job[v] \in Jobs
    BY <1>0 DEF TypeOK
  <2>2. tracked' = tracked /\ tracked \ tracked' = {}
    BY DEF Pay, rowVars
  <2>3. CASE job'[v] = [job[v] EXCEPT !.late = TRUE]
    <3>1. /\ job'[v] \in Jobs /\ job'[v].late
          /\ job'[v].step = job[v].step /\ job'[v].user = job[v].user
          /\ job'[v].number = job[v].number /\ job'[v].prev = job[v].prev
          /\ job'[v].other = job[v].other /\ job'[v].seen = job[v].seen
          /\ job'[v].need = job[v].need /\ job'[v].rows = job[v].rows
      BY <2>1, <2>3 DEF Jobs
    <3>2. QED
      BY <2>2, <3>1 DEF Kept
  <2>4. CASE job'[v] = job[v] /\ ~(job[v].step \in ReleaseSteps /\ job[v].user = u)
    BY <2>1, <2>2, <2>4 DEF Kept
  <2>5. QED
    BY <2>3, <2>4 DEF Pay
<1>5. TypeOK'
  <2>1. job' \in [Handlers -> Jobs]
    <3>1. \A v \in Handlers : job'[v] \in Jobs
      BY <1>1, <1>3, <1>4
    <3>2. job' = [v \in Handlers |-> job'[v]]
      BY DEF Pay
    <3>3. QED
      BY <3>1, <3>2
  <2>2. QED
    BY <1>0, <1>2, <2>1 DEF Pay, TypeOK, Bounds, rowVars
<1>6. Effect(w)
  <2>1. \A n \in owned' \ tracked' : n \in owned \ tracked /\ ~Recording(w, n)
    BY DEF Pay, Recording, rowVars
  <2>2. \A v \in Handlers \ {w} : job[v].step \in ReleaseSteps /\ status[job[v].user] # "active"
            => status'[job[v].user] # "active" \/ job'[v].late
    BY <1>0, <1>4 DEF Pay, TypeOK
  <2>3. owned' = owned /\ holder' = holder
    BY DEF Pay, rowVars
  <2>4. QED
    BY <1>2, <1>4, <2>1, <2>2, <2>3 DEF Effect
<1>7. Own(job[w])'
  <2>1. "apply" \notin ReleaseSteps \cup NumberSteps
    BY DEF ReleaseSteps, NumberSteps, ClaimSteps, AssignSteps, UnassignSteps
  <2>2. QED
    BY <1>1, <1>3, <2>1 DEF Own, Fits, Returned, Reserved
<1>8. QED
  BY <1>5, <1>6, <1>7 DEF Facts

LEMMA CloseFacts ==
    ASSUME IInv, NEW w \in Handlers, CloseGrace(w)
    PROVE  Facts(w)
<1>0. TypeOK /\ Own(job[w])
  BY DEF IInv
<1>1. Bounds
  BY <1>0, BoundsHold DEF CloseGrace
<1>2. job[w].user \in Users
  BY <1>0 DEF CloseGrace, Own, Fits, UserSteps, SweepSteps, ReleaseSteps
<1>3. /\ torn' \subseteq Users \cup Numbers
      /\ torn \subseteq torn' /\ Clashes(job') \subseteq torn'
  BY <1>0, TearsType DEF CloseGrace
<1>4. /\ job' \in [Handlers -> Jobs] /\ job'[w] = Idle
      /\ \A v \in Handlers \ {w} : job'[v] = job[v]
  BY <1>0, IdleType, GoType DEF CloseGrace, Done
<1>5. TypeOK'
  BY <1>0, <1>1, <1>2, <1>3, <1>4 DEF CloseGrace, TypeOK, Bounds, rowVars
<1>6. Effect(w)
  <2>1. \A n \in owned' \ tracked' : n \in owned \ tracked /\ ~Recording(w, n)
    BY DEF CloseGrace, Recording, rowVars
  <2>2. \A v \in Handlers \ {w} : Kept(v)
    BY <1>4 DEF CloseGrace, Kept, rowVars
  <2>3. \A u \in Users : status[u] # "active" => status'[u] # "active"
    BY <1>0 DEF CloseGrace, TypeOK
  <2>4. \A v \in Handlers : job[v].step \in ReleaseSteps => job[v].user \in Users
    BY DEF IInv, Own, Fits, UserSteps, SweepSteps
  <2>5. owned' = owned /\ holder' = holder
    BY DEF CloseGrace, rowVars
  <2>6. QED
    BY <1>3, <2>1, <2>2, <2>3, <2>4, <2>5 DEF Effect
<1>7. Own(job[w])'
  BY <1>4, IdleOwnNext DEF Own, Fits, Returned, Reserved
<1>8. QED
  BY <1>5, <1>6, <1>7 DEF Facts

\* Time passes: a plan or a window ends.
LEMMA TimeKeeps ==
    ASSUME IInv, NEW u \in Users, Lapse(u) \/ GraceEnds(u)
    PROVE  IInv'
<1>0. TypeOK
  BY DEF IInv
<1>1. TypeOK'
  <2>1. CASE Lapse(u)
    <3>1. lapses' \in 0..MaxLapses
      BY <1>0, <2>1, NumbersAssumption DEF Lapse, TypeOK, NumbersAssumption
    <3>2. QED
      BY <1>0, <2>1, <3>1 DEF Lapse, TypeOK, rowVars
  <2>2. CASE GraceEnds(u)
    BY <1>0, <2>2 DEF GraceEnds, TypeOK, rowVars
  <2>3. QED
    BY <2>1, <2>2
<1>2. UNCHANGED <<owned, tracked, holder, job, torn>>
  BY DEF Lapse, GraceEnds, rowVars
<1>3. \A v \in Users : status[v] # "active" => status'[v] # "active"
  BY <1>0 DEF Lapse, GraceEnds, TypeOK
<1>4. ASSUME NEW w \in Handlers PROVE Own(job[w])'
  <2>1. Own(job[w]) /\ (job[w].step \in ReleaseSteps => job[w].user \in Users)
    BY DEF IInv, Own, Fits, UserSteps, SweepSteps
  <2>2. QED
    BY <1>2, <1>3, <2>1 DEF Own, Fits, Returned, Reserved
<1>5. OnTheBooks' /\ (Clashes(job) \subseteq torn)'
  BY <1>2 DEF IInv, OnTheBooks, Recording, Clashes
<1>6. QED
  BY <1>1, <1>4, <1>5 DEF IInv

--------------------------------------------------------------------------------
LEMMA WorkFacts ==
    ASSUME IInv, NEW w \in Handlers, Requests(w) \/ Work(w) \/ Faults(w)
    PROVE  Facts(w)
<1>1. CASE Requests(w)
  BY <1>1, ClaimFacts, ApproveFacts, AssignFacts, PoolFacts, PayFacts DEF Requests
<1>2. CASE Work(w)
  BY <1>2, ClaimFacts, ApproveFacts, AssignFacts, SweepFacts, ReleaseFacts, PoolFacts, MoveFacts,
     BuyFacts, StrikeFacts, CloseFacts DEF Work
<1>3. CASE Faults(w)
  BY <1>3, ReleaseFacts, FaultFacts DEF Faults
<1>4. QED
  BY <1>1, <1>2, <1>3

LEMMA StepInv == IInv /\ [Next]_vars => IInv'
<1> SUFFICES ASSUME IInv, [Next]_vars PROVE IInv'
  OBVIOUS
<1>1. ASSUME NEW w \in Handlers, Requests(w) \/ Work(w) \/ Faults(w) PROVE IInv'
  BY <1>1, WorkFacts, StepKeeps
<1>2. ASSUME NEW u \in Users, NEW w \in Handlers, ListCandidate(w, u) PROVE IInv'
  BY <1>2, SweepFacts, StepKeeps
<1>3. ASSUME NEW u \in Users, Lapse(u) \/ GraceEnds(u) PROVE IInv'
  BY <1>3, TimeKeeps
<1>4. CASE UNCHANGED vars
  BY <1>4 DEF vars, profileVars, rowVars, IInv, TypeOK, Own, Fits, Returned, Reserved, OnTheBooks,
              Recording, Clashes
<1>5. QED
  BY <1>1, <1>2, <1>3, <1>4 DEF Next, Sweep

LEMMA Inductive == Spec => []IInv
BY InitInv, StepInv, PTL DEF Spec

\* Every profile, row and handler keeps its shape.
THEOREM TypeCorrect == Spec => []TypeOK
<1>1. IInv => TypeOK
  BY DEF IInv
<1>2. QED
  BY <1>1, Inductive, PTL

\* A sweep that has begun to give a number back (releaseNumberPermanently) works for a
\* customer who is not entitled, unless they paid after it had looked.  The rows it read
\* are still that customer's, except where another handler was at the number or the
\* customer while it worked: what it does not cross it does not lose, and nothing is
\* claimed of a number that a claim, an assignment or a cleanup did cross.
THEOREM NumbersReserved == Spec => []NumberIsReserved
<1>1. IInv => NumberIsReserved
  BY DEF IInv, Own, Reserved, NumberIsReserved
<1>2. QED
  BY <1>1, Inductive, PTL

\* A number bought (purchaseNumber) gets its row, or a refusal, a death or a race over it
\* is on record; and no row is deleted while the number is still paid for.
THEOREM NumbersRecorded == Spec => []OnTheBooks
<1>1. IInv => OnTheBooks
  BY DEF IInv
<1>2. QED
  BY <1>1, Inductive, PTL

--------------------------------------------------------------------------------
(* The pool's target.                                                      *)

\* Numbers to hand out that no customer has returned.
Spare == Available \ back

OnePool == \A v, w \in Handlers : {job[v].step, job[w].step} \subseteq PoolSteps => v = w

PoolInv == OnePool /\ PoolWithinTarget

LEMMA SpareIsFinite ==
    ASSUME TypeOK
    PROVE  IsFiniteSet(Spare) /\ Cardinality(Spare) \in Nat
<1>1. Spare \subseteq Numbers
  BY DEF TypeOK, Spare, Available
<1>2. QED
  BY <1>1, NumbersAssumption, FS_Subset, FS_CardinalityType DEF NumbersAssumption

\* A step that adds nothing to the pool and asks for nothing more.
LEMMA PoolKept ==
    ASSUME TypeOK, PoolInv, NEW w \in Handlers, Facts(w), Spare' \subseteq Spare,
           job'[w].step \in PoolSteps => job[w].step \in PoolSteps /\ job'[w].need <= job[w].need
    PROVE  PoolInv'
<1>1. \A v \in Handlers : job[v] \in Jobs /\ job'[v] \in Jobs
  BY DEF Facts, TypeOK
<1>2. \A v \in Handlers : job[v].need \in Nat /\ job'[v].need \in Nat
  BY <1>1, JobTypes
<1>3. \A v \in Handlers \ {w} : job'[v].step = job[v].step /\ job'[v].need = job[v].need
  BY DEF Facts, Effect, Kept
<1>4. OnePool'
  BY <1>3 DEF PoolInv, OnePool
<1>5. TypeOK'
  BY DEF Facts
<1>6. /\ Cardinality(Spare') <= Cardinality(Spare)
      /\ Cardinality(Spare) \in Nat /\ Cardinality(Spare') \in Nat
  <2>1. IsFiniteSet(Spare) /\ Cardinality(Spare) \in Nat
    BY SpareIsFinite
  <2>2. Cardinality(Spare') <= Cardinality(Spare) /\ IsFiniteSet(Spare')
    BY <2>1, FS_Subset
  <2>3. QED
    BY <2>1, <2>2, FS_CardinalityType
<1>7. ASSUME NEW v \in Handlers PROVE Cardinality(Spare') + Needed(v)' <= Target
  <2>1. Cardinality(Spare) + Needed(v) <= Target
    BY DEF PoolInv, PoolWithinTarget, Spare
  <2>2. Needed(v)' <= Needed(v) /\ Needed(v) \in Nat /\ Needed(v)' \in Nat
    BY <1>2, <1>3 DEF Needed
  <2>3. QED
    BY <1>6, <2>1, <2>2, NumbersAssumption DEF NumbersAssumption
<1>8. QED
  BY <1>4, <1>7 DEF PoolInv, PoolWithinTarget, Spare

LEMMA FreeSpare ==
    ASSUME TypeOK, NEW rows, Free(rows), UNCHANGED tracked
    PROVE  Spare' \subseteq Spare
BY DEF TypeOK, Spare, Available, Free

LEMMA GiveSpare ==
    ASSUME TypeOK, NEW n \in Numbers, NEW u \in Users, Give(n, u), tracked' \subseteq tracked \cup {n}
    PROVE  Spare' \subseteq Spare
BY NumbersAssumption DEF NumbersAssumption, TypeOK, Spare, Available, Give

LEMMA DeleteSpare ==
    ASSUME TypeOK, NEW rows, Delete(rows)
    PROVE  Spare' \subseteq Spare
BY DEF TypeOK, Spare, Available, Delete

LEMMA SameSpare ==
    ASSUME UNCHANGED rowVars
    PROVE  Spare' \subseteq Spare
BY DEF Spare, Available, rowVars

\* The handler's next step in the actions outside the pool's run.
LEMMA StepOf ==
    ASSUME TypeOK, NEW w \in Handlers
    PROVE  /\ Done(w) => job'[w].step = "idle"
           /\ \A s \in Steps : Go(w, Step(w, s)) => job'[w].step = s
           /\ \A j : Go(w, j) => job'[w] = j
<1>1. \A j : Go(w, j) => job'[w] = j
  BY DEF TypeOK, Go
<1>2. \A s \in Steps : Step(w, s).step = s
  BY StepType
<1>3. Idle.step = "idle"
  BY DEF Idle
<1>4. QED
  BY <1>1, <1>2, <1>3 DEF Done

LEMMA OutOfPool ==
    ASSUME IInv, NEW w \in Handlers, job[w].step \notin PoolSteps,
           Requests(w) \/ Work(w) \/ Faults(w) \/ \E u \in Users : ListCandidate(w, u),
           ~Replenish(w)
    PROVE  job'[w].step \notin PoolSteps
<1>0. TypeOK /\ job[w] \in Jobs
  BY DEF IInv, TypeOK
<1> USE <1>0
<1>1. \A s \in Steps : Step(w, s).step = s /\ Step(w, s) \in Jobs
  BY StepType
<1>2. Steps \ PoolSteps = Steps \ {"list", "import", "find", "purchase", "record"}
  BY DEF PoolSteps
<1>3. ASSUME NEW u \in Users, Approve(w, u) \/ Pay(w, u) \/ ListCandidate(w, u)
      PROVE  job'[w].step \notin PoolSteps
  <2>1. CASE Approve(w, u)
    <3>1. PICK s \in {"pick", "accept"} :
              Go(w, [Idle EXCEPT !.step = s, !.user = u, !.number = number[u]])
      BY <2>1 DEF Approve, Request, Start
    <3>2. job'[w] = [Idle EXCEPT !.step = s, !.user = u, !.number = number[u]]
      BY <3>1, StepOf
    <3>3. QED
      BY <3>2 DEF Idle, PoolSteps
  <2>2. CASE Pay(w, u)
    BY <2>2 DEF Pay, Idle, PoolSteps
  <2>3. CASE ListCandidate(w, u)
    <3> DEFINE j == [Idle EXCEPT !.step = "entitle", !.user = u, !.window = grace[u],
                                 !.lapsed = status[u] = "lapsed"]
    <3>1. Go(w, j)
      BY <2>3 DEF ListCandidate, Start
    <3>2. j.step \notin PoolSteps
      BY DEF Idle, PoolSteps
    <3> HIDE DEF j
    <3>3. QED
      BY <3>1, <3>2, StepOf
  <2>4. QED
    BY <1>3, <2>1, <2>2, <2>3
<1>4. ASSUME NEW u \in Users \cup {NoUser}, NEW n \in Numbers,
             Claim(w, u, n) \/ Buy(w, u, n) \/ Reassign(w, u, n)
      PROVE  job'[w].step \notin PoolSteps
  <2>1. CASE Claim(w, u, n) \/ Buy(w, u, n)
    <3>1. PICK s \in {"prev", "buy"} : Go(w, [Idle EXCEPT !.step = s, !.user = u, !.number = n])
      BY <2>1 DEF Claim, Buy, Request, Start
    <3>2. job'[w] = [Idle EXCEPT !.step = s, !.user = u, !.number = n]
      BY <3>1, StepOf
    <3>3. QED
      BY <3>2 DEF Idle, PoolSteps
  <2>2. CASE Reassign(w, u, n)
    <3>1. PICK s \in {"clear", "others"} :
              Go(w, [Idle EXCEPT !.step = s, !.user = u, !.number = n, !.other = holder[n],
                                 !.rows = {n}])
      BY <2>2 DEF Reassign, Request, Start
    <3>2. job'[w] = [Idle EXCEPT !.step = s, !.user = u, !.number = n, !.other = holder[n],
                                 !.rows = {n}]
      BY <3>1, StepOf
    <3>3. QED
      BY <3>2 DEF Idle, PoolSteps
  <2>3. QED
    BY <1>4, <2>1, <2>2
<1>5. CASE CleanupOrphans(w)
  BY <1>5, StepOf DEF CleanupOrphans, Request, Start, Idle, PoolSteps
<1>6. ASSUME NEW s \in Steps \ PoolSteps, Go(w, Step(w, s)) PROVE job'[w].step \notin PoolSteps
  BY <1>6, StepOf
<1>7. CASE Done(w)
  BY <1>7, StepOf DEF PoolSteps
<1>8. {"prev", "hold", "route", "free", "take", "seat", "accept", "post", "pool", "swap", "letgo",
       "show", "lift", "open", "rows", "hand", "strike", "blank", "close"} \subseteq Steps \ PoolSteps
  BY DEF Steps, PoolSteps, ClaimSteps, ApproveSteps, AssignSteps, UnassignSteps, SweepSteps,
         ReleaseSteps
<1>9. CASE \/ BuyNumber(w) \/ ChargeDeclined(w) \/ HoldNumber(w) \/ RouteNumber(w)
           \/ RouteRefused(w) \/ FreeOthers(w) \/ TakeRow(w) \/ AcceptRequest(w) \/ PostNumber(w)
  BY <1>6, <1>7, <1>8, <1>9
  DEF BuyNumber, ChargeDeclined, HoldNumber, RouteNumber, RouteRefused, FreeOthers, TakeRow, AcceptRequest,
      PostNumber
<1>10. CASE \/ ClearHolder(w) \/ PoolRow(w) \/ SwapRows(w) \/ OldHolderLetsGo(w)
            \/ ShowAssigned(w) \/ ApplyPlan(w) \/ Decide(w) \/ WriteWindow(w)
  BY <1>6, <1>7, <1>8, <1>10
  DEF ClearHolder, PoolRow, SwapRows, OldHolderLetsGo, ShowAssigned, ApplyPlan, Decide, WriteWindow
<1>11. CASE \/ RowIsGone(w) \/ HandedBack(w) \/ BlankProfile(w) \/ CloseGrace(w)
            \/ Crash(w) \/ ProfileWriteFails(w)
  BY <1>6, <1>7, <1>8, <1>11
  DEF RowIsGone, HandedBack, BlankProfile, CloseGrace, Crash, ProfileWriteFails
<1>12. ASSUME NEW n \in Numbers, HandBackRefused(w, n) \/ HandBack(w, n)
       PROVE  job'[w].step \notin PoolSteps
  <2>1. CASE HandBackRefused(w, n)
    <3>1. [job[w] EXCEPT !.rows = @ \ {n}].step = job[w].step
      BY DEF Jobs
    <3>2. QED
      BY <2>1, <3>1, StepOf DEF HandBackRefused
  <2>2. CASE HandBack(w, n)
    <3> DEFINE j == [Step(w, "strike") EXCEPT !.number = n]
    <3>1. j.step = "strike"
      BY <1>1, <1>8 DEF Jobs
    <3>2. Go(w, j)
      BY <2>2 DEF HandBack
    <3> HIDE DEF j
    <3>3. QED
      BY <1>8, <3>1, <3>2, StepOf
  <2>3. QED
    BY <1>12, <2>1, <2>2
<1>13. ASSUME NEW j, Go(w, j), j.step \notin PoolSteps PROVE job'[w].step \notin PoolSteps
  BY <1>13, StepOf
<1>14. CASE ReadPrevious(w)
  <2>1. [Step(w, "hold") EXCEPT !.prev = number[job[w].user]].step \notin PoolSteps
    BY <1>1, <1>8 DEF Jobs
  <2>2. QED
    BY <1>13, <1>14, <2>1 DEF ReadPrevious
<1>15. CASE PickAvailable(w)
  <2>1. \A n : [Step(w, "seat") EXCEPT !.number = n, !.rows = {n}].step \notin PoolSteps
    BY <1>1, <1>8 DEF Jobs
  <2>2. QED
    BY <1>6, <1>8, <1>13, <1>15, <2>1 DEF PickAvailable
<1>16. CASE SeatCustomer(w)
  <2>1. [Step(w, "accept") EXCEPT !.number = NoNumber].step \notin PoolSteps
    BY <1>1, <1>8 DEF Jobs
  <2>2. QED
    BY <1>6, <1>8, <1>13, <1>16, <2>1 DEF SeatCustomer
<1>17. CASE ReadOthers(w)
  <2>1. [Step(w, "swap") EXCEPT !.rows = @ \cup RowsOf(job[w].user)].step \notin PoolSteps
    BY <1>1, <1>8 DEF Jobs
  <2>2. QED
    BY <1>13, <1>17, <2>1 DEF ReadOthers
<1>18. CASE ReadRows(w)
  <2>1. [Step(w, "hand") EXCEPT !.rows = RowsOf(job[w].user)].step \notin PoolSteps
    BY <1>1, <1>8 DEF Jobs
  <2>2. QED
    BY <1>13, <1>18, <2>1 DEF ReadRows
<1>19. CASE StrikeRow(w)
  <2>1. [Step(w, "hand") EXCEPT !.number = NoNumber, !.rows = @ \ {job[w].number}].step
            \notin PoolSteps
    BY <1>1, <1>8 DEF Jobs
  <2>2. QED
    BY <1>19, <2>1 DEF StrikeRow, Forget, TypeOK
<1>20. CASE DeleteOrphans(w)
  BY <1>20 DEF DeleteOrphans, Forget, TypeOK, Idle, PoolSteps
<1>21. ~ListUntracked(w) /\ ~Imported(w) /\ ~Replenished(w) /\ ~PurchaseForPool(w)
       /\ ~RecordPurchase(w) /\ ~RecordFails(w)
       /\ \A n \in Numbers : ~ImportNumber(w, n) /\ ~FindNumber(w, n)
  BY DEF ListUntracked, Imported, Replenished, PurchaseForPool, RecordPurchase, RecordFails,
         ImportNumber, FindNumber, PoolSteps
<1>22. CASE Requests(w)
  BY <1>3, <1>4, <1>5, <1>22 DEF Requests
<1>23. CASE Work(w)
  BY <1>9, <1>10, <1>11, <1>12, <1>14, <1>15, <1>16, <1>17, <1>18, <1>19, <1>20, <1>21, <1>23
  DEF Work
<1>24. CASE Faults(w)
  BY <1>11, <1>12, <1>21, <1>24 DEF Faults
<1>25. QED
  BY <1>3, <1>22, <1>23, <1>24

LEMMA SpareShrinks ==
    ASSUME IInv, NEW w \in Handlers,
           Requests(w) \/ Work(w) \/ Faults(w) \/ \E u \in Users : ListCandidate(w, u),
           ~RecordPurchase(w), \A n \in Numbers : ~ImportNumber(w, n)
    PROVE  Spare' \subseteq Spare
<1>0. TypeOK /\ Own(job[w])
  BY DEF IInv
<1> USE <1>0
<1>1. ASSUME UNCHANGED rowVars PROVE Spare' \subseteq Spare
  BY <1>1, SameSpare
<1>2. job[w].step \in {"take", "seat", "swap"} => job[w].user \in Users /\ job[w].number \in Numbers
  BY DEF Own, Fits, UserSteps, NumberSteps, ClaimSteps, ApproveSteps, AssignSteps
<1>3. CASE FreeOthers(w) \/ PoolRow(w)
  BY <1>3, FreeSpare DEF FreeOthers, PoolRow
<1>4. CASE TakeRow(w)
  BY <1>2, <1>4, GiveSpare DEF TakeRow
<1>5. CASE SeatCustomer(w)
  <2>1. CASE Give(job[w].number, job[w].user)
    BY <1>2, <1>5, <2>1, GiveSpare DEF SeatCustomer
  <2>2. CASE UNCHANGED <<holder, back>>
    BY <1>5, <2>2, SameSpare DEF SeatCustomer, rowVars
  <2>3. QED
    BY <1>5, <2>1, <2>2 DEF SeatCustomer
<1>6. CASE SwapRows(w)
  <2>1. job[w].user # NoUser /\ job[w].number \in Numbers /\ UNCHANGED tracked
    BY <1>2, <1>6, NumbersAssumption DEF SwapRows, NumbersAssumption
  <2>2. CASE UNCHANGED <<holder, back>>
    BY <1>6, <2>1, <2>2, SameSpare DEF rowVars
  <2>3. ASSUME holder' = [m \in Numbers |->
                   IF m = job[w].number THEN job[w].user
                   ELSE IF m \in job[w].rows \ {job[w].number} THEN NoUser ELSE holder[m]],
               back' = (back \cup (job[w].rows \ {job[w].number})) \ {job[w].number}
        PROVE  Spare' \subseteq Spare
    BY <2>1, <2>3 DEF TypeOK, Spare, Available
  <2>4. QED
    BY <1>6, <2>2, <2>3 DEF SwapRows
<1>7. CASE StrikeRow(w) \/ DeleteOrphans(w)
  BY <1>7, DeleteSpare DEF StrikeRow, DeleteOrphans
<1>8. CASE Requests(w)
  BY <1>1, <1>8
  DEF Requests, Approve, Pay, Claim, Buy, Reassign, Replenish, CleanupOrphans
<1>9. CASE Faults(w)
  BY <1>1, <1>9 DEF Faults, Crash, ProfileWriteFails, RecordFails, HandBackRefused
<1>10. CASE \E u \in Users : ListCandidate(w, u)
  BY <1>1, <1>10 DEF ListCandidate
<1>11. CASE \/ BuyNumber(w) \/ ChargeDeclined(w) \/ ReadPrevious(w) \/ HoldNumber(w)
            \/ RouteNumber(w) \/ RouteRefused(w) \/ PickAvailable(w) \/ AcceptRequest(w) \/ PostNumber(w)
            \/ ClearHolder(w) \/ ReadOthers(w) \/ OldHolderLetsGo(w) \/ ShowAssigned(w)
  BY <1>1, <1>11
  DEF BuyNumber, ChargeDeclined, ReadPrevious, HoldNumber, RouteNumber, RouteRefused, PickAvailable,
      AcceptRequest, PostNumber, ClearHolder, ReadOthers, OldHolderLetsGo, ShowAssigned
<1>12. CASE \/ ApplyPlan(w) \/ Decide(w) \/ WriteWindow(w) \/ ReadRows(w) \/ RowIsGone(w)
            \/ HandedBack(w) \/ BlankProfile(w) \/ CloseGrace(w)
            \/ ListUntracked(w) \/ Imported(w) \/ Replenished(w) \/ PurchaseForPool(w)
            \/ \E n \in Numbers : HandBack(w, n) \/ FindNumber(w, n)
  BY <1>1, <1>12
  DEF ApplyPlan, Decide, WriteWindow, ReadRows, RowIsGone, HandedBack, BlankProfile, CloseGrace,
      ListUntracked, Imported, Replenished, PurchaseForPool, HandBack, FindNumber
<1>13. CASE Work(w)
  BY <1>3, <1>4, <1>5, <1>6, <1>7, <1>11, <1>12, <1>13 DEF Work
<1>14. QED
  BY <1>8, <1>9, <1>10, <1>13

\* A run that goes on without a new row needs no more than it did.
LEMMA NeedKept ==
    ASSUME IInv, NEW w \in Handlers, job[w].step \in PoolSteps,
           Requests(w) \/ Work(w) \/ Faults(w) \/ \E u \in Users : ListCandidate(w, u),
           ~RecordPurchase(w), \A n \in Numbers : ~ImportNumber(w, n)
    PROVE  job'[w].step \notin PoolSteps \/ job'[w].need = job[w].need
<1>0. TypeOK /\ job[w] \in Jobs
  BY DEF IInv, TypeOK
<1> USE <1>0
<1>1. \/ ListUntracked(w) \/ Imported(w) \/ Replenished(w) \/ PurchaseForPool(w) \/ Crash(w)
      \/ RecordFails(w) \/ \E n \in Numbers : FindNumber(w, n)
  <2>1. job[w].step \in {"list", "import", "find", "purchase", "record"}
    BY DEF PoolSteps
  <2>2. CASE Requests(w)
    BY <2>1, <2>2
    DEF Requests, Approve, Pay, Claim, Buy, Reassign, Replenish, CleanupOrphans, Request, Start
  <2>3. CASE Faults(w)
    BY <2>1, <2>3 DEF Faults, ProfileWriteFails, HandBackRefused
  <2>4. CASE \E u \in Users : ListCandidate(w, u)
    BY <2>1, <2>4 DEF ListCandidate, Start
  <2>5. CASE Work(w)
    BY <2>1, <2>5
    DEF Work, BuyNumber, ChargeDeclined, ReadPrevious, HoldNumber, RouteNumber, RouteRefused, PickAvailable,
        AcceptRequest, PostNumber, ClearHolder, ReadOthers, OldHolderLetsGo, ShowAssigned,
        FreeOthers, TakeRow, SeatCustomer, PoolRow, SwapRows, StrikeRow, DeleteOrphans, ApplyPlan,
        Decide, WriteWindow, ReadRows, RowIsGone, HandedBack, BlankProfile, CloseGrace, HandBack
  <2>6. QED
    BY <2>2, <2>3, <2>4, <2>5
<1>2. \A s \in {"import", "find", "purchase", "record"} :
          Step(w, s) \in Jobs /\ Step(w, s).need = job[w].need
  BY StepType DEF Steps, PoolSteps
<1>3. ASSUME NEW j, Go(w, j), j.need = job[w].need PROVE job'[w].need = job[w].need
  BY <1>3, StepOf
<1>4. CASE Replenished(w) \/ Crash(w)
  BY <1>4, StepOf DEF Replenished, Crash, PoolSteps
<1>5. CASE ListUntracked(w)
  <2>1. [Step(w, "import") EXCEPT !.seen = owned \ tracked].need = job[w].need
    BY <1>2 DEF Jobs
  <2>2. QED
    BY <1>3, <1>5, <2>1 DEF ListUntracked
<1>6. CASE Imported(w)
  <2>1. [Step(w, "find") EXCEPT !.seen = {}].need = job[w].need
    BY <1>2 DEF Jobs
  <2>2. QED
    BY <1>3, <1>6, <2>1 DEF Imported
<1>7. ASSUME NEW n \in Numbers, FindNumber(w, n) PROVE job'[w].need = job[w].need
  <2>1. [Step(w, "purchase") EXCEPT !.number = n].need = job[w].need
    BY <1>2 DEF Jobs
  <2>2. QED
    BY <1>3, <1>7, <2>1 DEF FindNumber
<1>8. CASE PurchaseForPool(w)
  <2>1. [Step(w, "find") EXCEPT !.number = NoNumber].need = job[w].need
    BY <1>2 DEF Jobs
  <2>2. QED
    BY <1>2, <1>3, <1>8, <2>1 DEF PurchaseForPool
<1>9. CASE RecordFails(w)
  <2>1. [Step(w, "find") EXCEPT !.number = NoNumber].need = job[w].need
    BY <1>2 DEF Jobs
  <2>2. QED
    BY <1>3, <1>9, <2>1 DEF RecordFails
<1>10. QED
  BY <1>1, <1>4, <1>5, <1>6, <1>7, <1>8, <1>9

LEMMA OneMore ==
    ASSUME NEW S, NEW T, NEW x, IsFiniteSet(S), T \subseteq S \cup {x}
    PROVE  /\ Cardinality(T) \in Nat /\ Cardinality(S) \in Nat
           /\ Cardinality(T) <= Cardinality(S) + 1
<1>1. /\ IsFiniteSet(S \cup {x})
      /\ Cardinality(S \cup {x}) \in Nat /\ Cardinality(S) \in Nat
      /\ Cardinality(S \cup {x}) <= Cardinality(S) + 1
  BY FS_AddElement, FS_CardinalityType
<1>2. Cardinality(T) <= Cardinality(S \cup {x}) /\ Cardinality(T) \in Nat
  BY <1>1, FS_Subset, FS_CardinalityType
<1>3. QED
  BY <1>1, <1>2

\* A number is added to the pool, one needed less.
LEMMA PoolGrows ==
    ASSUME TypeOK, PoolInv, NEW w \in Handlers, Facts(w), NEW n \in Numbers,
           job[w].step \in PoolSteps, job'[w].step \in PoolSteps,
           tracked' = tracked \cup {n}, UNCHANGED <<holder, back>>,
           job'[w].need = IF n \in tracked THEN job[w].need ELSE job[w].need - 1
    PROVE  PoolInv'
<1>1. /\ \A v \in Handlers : job[v] \in Jobs /\ job'[v] \in Jobs
      /\ \A v \in Handlers \ {w} : job'[v].step = job[v].step
  BY DEF Facts, Effect, Kept, TypeOK
<1>2. job[w].need \in Nat /\ job'[w].need \in Nat
  BY <1>1, JobTypes
<1>3. OnePool'
  BY <1>1 DEF PoolInv, OnePool
<1>4. \A v \in Handlers \ {w} : job'[v].step \notin PoolSteps
  BY <1>1 DEF PoolInv, OnePool
<1>5. IsFiniteSet(Spare) /\ Cardinality(Spare) \in Nat
  BY SpareIsFinite
<1>6. Cardinality(Spare) + job[w].need <= Target
  BY DEF PoolInv, PoolWithinTarget, Spare, Needed
<1>7. Cardinality(Spare') \in Nat /\ Cardinality(Spare') + job'[w].need <= Target
  <2>1. CASE n \in tracked
    <3>1. Spare' = Spare
      BY <2>1 DEF Spare, Available
    <3>2. QED
      BY <1>5, <1>6, <2>1, <3>1
  <2>2. CASE n \notin tracked
    <3>1. Spare' \subseteq Spare \cup {n}
      BY DEF Spare, Available
    <3>2. Cardinality(Spare') <= Cardinality(Spare) + 1 /\ Cardinality(Spare') \in Nat
      BY <1>5, <3>1, OneMore
    <3>3. QED
      BY <1>2, <1>5, <1>6, <2>2, <3>2, NumbersAssumption DEF NumbersAssumption
  <2>3. QED
    BY <2>1, <2>2
<1>8. ASSUME NEW v \in Handlers PROVE Cardinality(Spare') + Needed(v)' <= Target
  <2>1. CASE v = w
    BY <1>7, <2>1 DEF Needed
  <2>2. CASE v # w
    <3>1. Needed(v)' = 0
      BY <1>4, <2>2 DEF Needed
    <3>2. QED
      BY <1>2, <1>7, <3>1, NumbersAssumption DEF NumbersAssumption
  <2>3. QED
    BY <2>1, <2>2
<1>9. QED
  BY <1>3, <1>8 DEF PoolInv, PoolWithinTarget, Spare

\* A run begins: the deficit is what the pool lacks, and no other run is under way.
LEMMA PoolBegins ==
    ASSUME TypeOK, PoolInv, NEW w \in Handlers, Facts(w), Replenish(w)
    PROVE  PoolInv'
<1> DEFINE deficit == Target - Cardinality(Available)
<1> DEFINE j == [Idle EXCEPT !.step = "list", !.need = deficit]
<1>1. Go(w, j) /\ job[w].step = "idle"
  BY DEF Replenish, Request, Start
<1>2. job'[w].step = "list" /\ job'[w].need = deficit
  <2>1. j.step = "list" /\ j.need = deficit
    BY DEF Idle
  <2> HIDE DEF j
  <2>2. QED
    BY <1>1, <2>1, StepOf
<1> HIDE DEF j
<1>3. \A v \in Handlers \ {w} : job'[v].step \notin PoolSteps
  BY DEF Replenish, Facts, Effect, Kept
<1>4. Available \subseteq Numbers /\ Spare \subseteq Available
  BY DEF TypeOK, Available, Spare
<1>5. /\ Cardinality(Spare) \in Nat /\ Cardinality(Available) \in Nat
      /\ Cardinality(Spare) <= Cardinality(Available)
  <2>1. IsFiniteSet(Available)
    BY <1>4, NumbersAssumption, FS_Subset DEF NumbersAssumption
  <2>2. QED
    BY <1>4, <2>1, SpareIsFinite, FS_Subset, FS_CardinalityType
<1>6. Cardinality(Spare) <= Target
  <2>1. Needed(w) = 0
    BY <1>1 DEF Needed, PoolSteps
  <2>2. QED
    BY <1>5, <2>1 DEF PoolInv, PoolWithinTarget, Spare
<1>7. Spare' = Spare
  BY DEF Replenish, Spare, Available, rowVars
<1>8. ASSUME NEW v \in Handlers PROVE Cardinality(Spare') + Needed(v)' <= Target
  <2>1. CASE v = w
    <3>1. Needed(v)' = deficit
      BY <1>2, <2>1 DEF Needed, PoolSteps
    <3>2. QED
      BY <1>5, <1>7, <3>1, NumbersAssumption DEF NumbersAssumption
  <2>2. CASE v # w
    <3>1. Needed(v)' = 0
      BY <1>3, <2>2 DEF Needed
    <3>2. QED
      BY <1>5, <1>6, <1>7, <3>1, NumbersAssumption DEF NumbersAssumption
  <2>3. QED
    BY <2>1, <2>2
<1>9. OnePool'
  BY <1>3 DEF OnePool
<1>10. QED
  BY <1>8, <1>9 DEF PoolInv, PoolWithinTarget, Spare

LEMMA PoolInit == Init => PoolInv
<1> SUFFICES ASSUME Init PROVE PoolInv
  OBVIOUS
<1>1. TypeOK
  BY InitInv DEF IInv
<1>2. \A w \in Handlers : job[w].step = "idle"
  BY DEF Init, Idle
<1>3. OnePool /\ \A w \in Handlers : Needed(w) = 0
  BY <1>2 DEF OnePool, Needed, PoolSteps
<1>4. Spare = {n \in tracked : holder[n] = NoUser}
  BY DEF Init, Spare, Available
<1>5. Cardinality(Spare) <= Target /\ Cardinality(Spare) \in Nat
  BY <1>1, <1>4, SpareIsFinite DEF Init
<1>6. QED
  BY <1>3, <1>5 DEF PoolInv, PoolWithinTarget, Spare

LEMMA PoolStep == IInv /\ PoolInv /\ [Next]_vars => PoolInv'
<1> SUFFICES ASSUME IInv, PoolInv, [Next]_vars PROVE PoolInv'
  OBVIOUS
<1>0. TypeOK /\ \A w \in Handlers : Own(job[w]) /\ job[w] \in Jobs
  BY DEF IInv, TypeOK
<1>1. CASE UNCHANGED <<rowVars, job>>
  BY <1>1 DEF PoolInv, OnePool, PoolWithinTarget, Available, Needed, rowVars
<1>2. CASE UNCHANGED vars
  BY <1>1, <1>2 DEF vars
<1>3. CASE \E u \in Users : Lapse(u) \/ GraceEnds(u)
  BY <1>1, <1>3 DEF Lapse, GraceEnds
<1>4. ASSUME NEW w \in Handlers,
             Requests(w) \/ Work(w) \/ Faults(w) \/ \E u \in Users : ListCandidate(w, u)
      PROVE  PoolInv'
  <2>1. Facts(w)
    BY <1>4, WorkFacts, SweepFacts
  <2>2. CASE Replenish(w)
    BY <1>0, <2>1, <2>2, PoolBegins
  <2>3. CASE RecordPurchase(w)
    <3> DEFINE m == IF job[w].number \in tracked THEN job[w].need ELSE job[w].need - 1
    <3> DEFINE j == [Step(w, "find") EXCEPT !.number = NoNumber, !.need = m]
    <3>1. job[w].number \in Numbers
      BY <1>0, <2>3 DEF RecordPurchase, Own, Fits, NumberSteps
    <3>2. Step(w, "find") \in Jobs /\ Step(w, "find").step = "find"
          /\ Step(w, "find").need = job[w].need
      BY <1>0, StepType DEF Steps, PoolSteps
    <3>3. Go(w, j)
      BY <2>3, <3>2 DEF RecordPurchase, Step
    <3> HIDE DEF m, Step
    <3>4. j.step = "find" /\ j.need = m
      BY <3>2 DEF Jobs
    <3> HIDE DEF j
    <3>5. job'[w].step = "find" /\ job'[w].need = m
      BY <1>0, <3>3, <3>4, StepOf
    <3>6. QED
      BY <1>0, <2>1, <2>3, <3>1, <3>5, PoolGrows DEF RecordPurchase, PoolSteps, m
  <2>4. ASSUME NEW n \in Numbers, ImportNumber(w, n) PROVE PoolInv'
    <3> DEFINE m == IF n \notin tracked THEN job[w].need - 1 ELSE job[w].need
    <3> DEFINE j == [job[w] EXCEPT !.seen = @ \ {n}, !.need = m]
    <3>1. Go(w, j) /\ job[w].step = "import"
      BY <2>4 DEF ImportNumber
    <3> HIDE DEF m
    <3>2. j.step = "import" /\ j.need = m
      BY <1>0, <3>1 DEF Jobs
    <3> HIDE DEF j
    <3>3. job'[w].step = "import" /\ job'[w].need = m
      BY <1>0, <3>1, <3>2, StepOf
    <3>4. QED
      BY <1>0, <2>1, <2>4, <3>1, <3>3, PoolGrows DEF ImportNumber, PoolSteps, m
  <2>5. CASE ~Replenish(w) /\ ~RecordPurchase(w) /\ \A n \in Numbers : ~ImportNumber(w, n)
    <3>1. Spare' \subseteq Spare
      BY <1>4, <2>5, SpareShrinks
    <3>2. job[w].need \in Nat
      BY <1>0, JobTypes
    <3>3. job'[w].step \in PoolSteps => job[w].step \in PoolSteps /\ job'[w].need <= job[w].need
      BY <1>4, <2>5, <3>2, OutOfPool, NeedKept
    <3>4. QED
      BY <1>0, <2>1, <3>1, <3>3, PoolKept
  <2>6. QED
    BY <2>2, <2>3, <2>4, <2>5
<1>5. QED
  BY <1>2, <1>3, <1>4 DEF Next, Sweep

\* However replenishPool's runs, returns and assignments cross, the pool holds no more numbers
\* that it bought and nobody has used than its target, those still to be bought included.
THEOREM PoolIsBounded == Spec => []PoolWithinTarget
<1>1. PoolInv => PoolWithinTarget
  BY DEF PoolInv
<1>2. QED
  BY <1>1, InitInv, StepInv, PoolInit, PoolStep, PTL DEF Spec

================================================================================
