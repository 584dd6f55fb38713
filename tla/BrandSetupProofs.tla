---------------------------- MODULE BrandSetupProofs ----------------------------
(***************************************************************************)
(* Theorems about BrandSetup, for any requests, handlers and domains.      *)
(***************************************************************************)
EXTENDS BrandSetup, TLAPS

\* The steps of a promotion that come after the row has become a brand.
Promoting == {"role", "findOpen", "approve"}

\* A handler's step tells what it does, and whether it has a request.
Fits(j) ==
    /\ j.step = "idle" => j.kind = "none" /\ j.request = NoRequest
    /\ j.step = "create" => j.kind = "file"
    /\ j.step \in {"applicant", "await", "release"} => j.kind = "approve"
    /\ j.step \in {"setupRead", "setupWrite"} => j.kind \in {"approve", "domain"}
    /\ j.step \in {"flip"} \cup Promoting => j.kind \in {"approve", "check"} /\ j.request # NoRequest
    /\ j.step \in {"existing", "decline", "cancelRead", "cancelWrite"} => j.kind = "decline"
    /\ j.step \in {"lookup", "verdict", "live", "waiting"} => j.kind = "check" /\ j.request = NoRequest
    /\ j.step \in {"downFlip", "downRole"} => j.kind = "downgrade"
    /\ j.kind \in {"file", "approve", "decline"} => j.request # NoRequest
    /\ j.kind \in {"none", "domain", "downgrade"} => j.request = NoRequest

\* What a handler knows of its request and of its token stays true.
Known(j) ==
    /\ j.request # NoRequest => (request[j.request] = "none" <=> j.kind = "file")
    /\ j.step = "verdict" /\ j.ok => j.token \in published

\* Each request has one handler that files it.
OneFiler ==
    \A v, w \in Handlers :
        job[v].kind = "file" /\ job[w].kind = "file" /\ job[v].request = job[w].request => v = w

Sound == (\A w \in Handlers : Fits(job[w]) /\ Known(job[w])) /\ OneFiler

\* A domain check has found request r waiting, and promotes its row.
Checks(w, r) == job[w].kind = "check" /\ job[w].request = r

\* While a claim is held its request is not handed to anyone else, be it by a
\* release, a decline or a domain check.
ClaimHeld ==
    \A r \in Requests \ takenOver : \A v, w \in Handlers :
        /\ InSetup(w, r) => request[r] \in {"approving", "declined"}
        /\ Checks(w, r) => request[r] \in {"awaiting"} \cup Closed
        /\ InSetup(v, r) /\ InSetup(w, r) => v = w
        /\ ~(InSetup(v, r) /\ Checks(w, r))

\* Handler w promotes, or has promoted, for request r and is not done.
Promotes(w, r) == job[w].request = r /\ job[w].step \in Promoting

\* The promotion of the last request is closed, or under way; no other setup
\* of that request is.
Promotion ==
    (promotedFor # NoRequest /\ promotedFor \notin takenOver /\ faults = 0) =>
        /\ request[promotedFor] \in Closed \/ \E w \in Handlers : Promotes(w, promotedFor)
        /\ \A w \in Handlers : InSetup(w, promotedFor) => job[w].step \in Promoting

IInv == TypeOK /\ Sound /\ ClaimHeld /\ Promotion

--------------------------------------------------------------------------------
(* Types.                                                                  *)

LEMMA IdleType == Idle \in Jobs
BY DEF Idle, Jobs, Steps, Statuses, Doors

\* A handler's cell is replaced by a job.
LEMMA BecomeType ==
    ASSUME TypeOK, NEW w \in Handlers, NEW j \in Jobs, Become(w, j)
    PROVE  /\ job' \in [Handlers -> Jobs]
           /\ job'[w] = j
           /\ \A v \in Handlers \ {w} : job'[v] = job[v]
BY DEF TypeOK, Become

LEMMA GotoType ==
    ASSUME TypeOK, NEW w \in Handlers, NEW s \in Steps, Goto(w, s)
    PROVE  /\ job' \in [Handlers -> Jobs]
           /\ job'[w] = [job[w] EXCEPT !.step = s]
           /\ \A v \in Handlers \ {w} : job'[v] = job[v]
<1>1. [job[w] EXCEPT !.step = s] \in Jobs
  BY DEF TypeOK, Jobs
<1>2. QED
  BY <1>1, BecomeType DEF Goto

LEMMA DoneType ==
    ASSUME TypeOK, NEW w \in Handlers, Done(w)
    PROVE  /\ job' \in [Handlers -> Jobs]
           /\ job'[w] = Idle
           /\ \A v \in Handlers \ {w} : job'[v] = job[v]
BY IdleType, BecomeType DEF Done

\* A request's row is written.
LEMMA MarkType ==
    ASSUME TypeOK, NEW r \in Requests, NEW s \in Statuses, Mark(r, s)
    PROVE  request' \in [Requests -> Statuses] /\ stale' \subseteq Requests
BY DEF TypeOK, Mark

LEMMA ClaimedType ==
    ASSUME TypeOK, NEW d \in Doors
    PROVE  Claimed(d) \in Rows
<1>1. row \in Rows /\ claims + 1 \in Nat
  BY SetupAssumption DEF TypeOK, SetupAssumption
<1>2. QED
  BY <1>1 DEF Claimed, Rows

LEMMA InitType == Init => TypeOK
<1> SUFFICES ASSUME Init PROVE TypeOK
  OBVIOUS
<1>1. row \in Rows
  BY DEF Init, Rows, Doors
<1>2. request \in [Requests -> Statuses] /\ job \in [Handlers -> Jobs]
  BY IdleType DEF Init, Statuses
<1>3. claims \in 0..MaxClaims /\ faults \in 0..MaxFaults
  BY SetupAssumption DEF Init, SetupAssumption
<1>4. QED
  BY <1>1, <1>2, <1>3 DEF Init, TypeOK

--------------------------------------------------------------------------------
(* Beginnings: what a handler may become.                                  *)

LEMMA BeginType ==
    ASSUME TypeOK, NEW w \in Handlers, Begin(w)
    PROVE  TypeOK'
<1> USE DEF historyVars
<1>0. Idle \in Jobs /\ row \in Rows /\ NoDomain \in Doors
  BY IdleType DEF TypeOK, Doors
<1>a. ASSUME NEW j \in Jobs, Become(w, j),
             UNCHANGED <<row, role, request, stale, published, claims, historyVars, faults>>
      PROVE  TypeOK'
  BY <1>a, BecomeType DEF TypeOK
<1>1. ASSUME Snapshot(w) PROVE \E j \in Jobs : Become(w, j)
  <2>1. [Idle EXCEPT !.step = "lookup", !.kind = "check", !.token = row.token,
                     !.customer = row.kind = "customer"] \in Jobs
    BY <1>0 DEF Jobs, Steps, Rows
  <2>2. QED
    BY <1>1, <2>1 DEF Snapshot
<1>2. CASE SweepDomain(w)
  BY <1>1, <1>2, <1>a DEF SweepDomain
<1>3. CASE CheckNow(w)
  BY <1>1, <1>3, <1>a DEF CheckNow
<1>4. CASE Downgrade(w)
  <2>1. [Idle EXCEPT !.step = "downFlip", !.kind = "downgrade"] \in Jobs
    BY <1>0 DEF Jobs, Steps
  <2>2. QED
    BY <1>4, <1>a, <2>1 DEF Downgrade
<1>5. ASSUME NEW r \in Requests, File(w, r) PROVE TypeOK'
  <2>1. [Idle EXCEPT !.step = "create", !.kind = "file", !.request = r] \in Jobs
    BY <1>0 DEF Jobs, Steps
  <2>2. QED
    BY <1>5, <1>a, <2>1 DEF File
<1>6. ASSUME NEW r \in Requests, Decline(w, r) PROVE TypeOK'
  <2>1. [Idle EXCEPT !.step = "existing", !.kind = "decline", !.request = r,
                     !.before = request[r]] \in Jobs
    BY <1>0 DEF Jobs, Steps, TypeOK
  <2>2. QED
    BY <1>6, <1>a, <2>1 DEF Decline
<1>7. ASSUME NEW r \in Requests, NEW d \in Doors, Claim(w, r, d) PROVE TypeOK'
  <2>1. [Idle EXCEPT !.step = "applicant", !.kind = "approve",
                     !.request = r, !.door = d] \in Jobs
    BY <1>0 DEF Jobs, Steps
  <2>2. job' \in [Handlers -> Jobs]
    BY <1>7, <2>1, BecomeType DEF Claim
  <2>3. request' \in [Requests -> Statuses] /\ stale' \subseteq Requests
    BY <1>7, MarkType DEF Claim, Statuses, Open
  <2>4. QED
    BY <1>7, <2>2, <2>3 DEF TypeOK, Claim
<1>8. ASSUME NEW d \in Domains, ClaimDomain(w, d) PROVE TypeOK'
  <2>1. [Idle EXCEPT !.step = "setupRead", !.kind = "domain", !.door = d] \in Jobs
    BY <1>0 DEF Jobs, Steps, Doors
  <2>2. QED
    BY <1>8, <1>a, <2>1 DEF ClaimDomain
<1>9. QED
  BY <1>2, <1>3, <1>4, <1>5, <1>6, <1>7, <1>8 DEF Begin

--------------------------------------------------------------------------------
(* The steps of a handler.                                                 *)

LEMMA StepType ==
    ASSUME TypeOK, NEW w \in Handlers, HandlerStep(w), Fits(job[w])
    PROVE  TypeOK'
<1> USE DEF historyVars
<1>0. /\ Idle \in Jobs /\ row \in Rows /\ job[w] \in Jobs
      /\ job[w].request \in Requests \cup {NoRequest}
  BY IdleType DEF TypeOK, Jobs
\* A step that changes no more than the job.
<1>a. ASSUME NEW j \in Jobs, Become(w, j),
             UNCHANGED <<row, role, request, stale, published, claims, historyVars, faults>>
      PROVE  TypeOK'
  BY <1>a, BecomeType DEF TypeOK
<1>b. ASSUME NEW s \in Steps, Goto(w, s),
             UNCHANGED <<row, role, request, stale, published, claims, historyVars, faults>>
      PROVE  TypeOK'
  BY <1>b, GotoType DEF TypeOK
<1>c. ASSUME Done(w),
             UNCHANGED <<row, role, request, stale, published, claims, historyVars, faults>>
      PROVE  TypeOK'
  BY <1>c, DoneType DEF TypeOK
\* A step that marks the handler's request.
<1>d. ASSUME NEW s \in Statuses, Mark(job[w].request, s), job[w].request \in Requests,
             job' \in [Handlers -> Jobs],
             UNCHANGED <<row, role, published, claims, historyVars, faults>>
      PROVE  TypeOK'
  BY <1>d, MarkType DEF TypeOK
<1>e. job[w].step \in {"create", "await", "release", "findOpen", "approve", "existing", "decline"}
      => job[w].request \in Requests
  BY <1>0 DEF Fits, Promoting
<1>1. CASE Create(w)
  <2>1. job[w].request \in Requests /\ "pending" \in Statuses
    BY <1>1, <1>e DEF Create, At, Statuses, Open
  <2>2. QED
    BY <1>1, <1>d, <2>1, DoneType DEF Create
<1>2. CASE Applicant(w)
  BY <1>2, <1>b DEF Applicant, Steps
<1>3. CASE SetupRead(w)
  <2>1. [job[w] EXCEPT !.step = "setupWrite", !.known = row.domain] \in Jobs
    BY <1>0 DEF Jobs, Steps, Rows
  <2>2. QED
    BY <1>3, <1>a, <2>1 DEF SetupRead
<1>4. CASE SetupWrite(w)
  <2>0. job[w].door \in Doors
    BY <1>0 DEF Jobs
  <2>1. row' \in Rows
    <3>1. [row EXCEPT !.domain = job[w].door] \in Rows
      BY <1>0, <2>0 DEF Rows
    <3>2. QED
      BY <1>4, <2>0, <3>1, ClaimedType DEF SetupWrite
  <2>2. claims' \in 0..MaxClaims /\ claims <= claims'
    BY <1>4, SetupAssumption DEF SetupWrite, TypeOK, SetupAssumption
  <2>3. job' \in [Handlers -> Jobs]
    BY <1>4, GotoType, DoneType DEF SetupWrite, AfterSetup, Steps
  <2>4. published' \subseteq 1..claims'
    BY <1>4, <2>2, SetupAssumption DEF SetupWrite, TypeOK, SetupAssumption
  <2>5. QED
    BY <1>4, <2>1, <2>2, <2>3, <2>4 DEF TypeOK, SetupWrite
<1>5. CASE Refuse(w)
  BY <1>5, <1>b, <1>c DEF Refuse, Steps
<1>6. CASE Await(w)
  <2>1. job[w].request \in Requests /\ "awaiting" \in Statuses
    BY <1>6, <1>e DEF Await, At, Statuses, Open
  <2>2. QED
    BY <1>6, <1>d, <2>1, DoneType DEF Await
<1>7. CASE Release(w)
  <2>1. job[w].request \in Requests /\ "pending" \in Statuses
    BY <1>7, <1>e DEF Release, At, Statuses, Open
  <2>2. CASE request[job[w].request] = "approving"
    BY <1>7, <1>d, <2>1, <2>2, DoneType DEF Release
  <2>3. CASE request[job[w].request] # "approving"
    BY <1>7, <1>c, <2>3 DEF Release
  <2>4. QED
    BY <2>2, <2>3
<1>8. CASE Flip(w)
  <2>1. job' \in [Handlers -> Jobs]
    BY <1>8, GotoType, DoneType DEF Flip, Steps
  <2>2. row' \in Rows /\ promotions' \in Nat /\ promotedFor' \in Requests \cup {NoRequest}
    BY <1>0, <1>8 DEF Flip, Rows, TypeOK
  <2>3. QED
    BY <1>8, <2>1, <2>2 DEF TypeOK, Flip
<1>9. CASE BecomeAdmin(w)
  <2>1. job' \in [Handlers -> Jobs]
    BY <1>9, GotoType DEF BecomeAdmin, Steps
  <2>2. QED
    BY <1>9, <2>1 DEF TypeOK, BecomeAdmin
<1>10. CASE FindOpen(w)
  BY <1>10, <1>b, <1>c DEF FindOpen, Steps
<1>11. CASE Approve(w)
  <2>1. job[w].request \in Requests /\ "approved" \in Statuses
    BY <1>11, <1>e DEF Approve, At, Statuses, Closed
  <2>2. QED
    BY <1>11, <1>d, <2>1, DoneType DEF Approve
<1>12. CASE Existing(w)
  BY <1>12, <1>b, <1>c DEF Existing, Steps
<1>13. CASE DeclineWrite(w)
  <2>1. job[w].request \in Requests /\ "declined" \in Statuses
    BY <1>13, <1>e DEF DeclineWrite, At, Statuses, Closed
  <2>2. job' \in [Handlers -> Jobs]
    BY <1>13, GotoType, DoneType DEF DeclineWrite, Steps
  <2>3. QED
    BY <1>13, <1>d, <2>1, <2>2 DEF DeclineWrite
<1>14. CASE CancelRead(w)
  BY <1>14, <1>b, <1>c DEF CancelRead, Steps
<1>15. CASE CancelWrite(w)
  <2>1. row' \in Rows
    BY <1>0, <1>15 DEF CancelWrite, NoClaim, Rows, Doors
  <2>2. QED
    BY <1>15, <2>1, DoneType DEF TypeOK, CancelWrite
<1>16. CASE Lookup(w)
  <2> DEFINE ok == job[w].token \in published
  <2>1. ok \in BOOLEAN /\ Become(w, [job[w] EXCEPT !.step = "verdict", !.ok = ok])
    BY <1>16 DEF Lookup
  <2> HIDE DEF ok
  <2>2. [job[w] EXCEPT !.step = "verdict", !.ok = ok] \in Jobs
    BY <1>0, <2>1 DEF Jobs, Steps
  <2>3. QED
    BY <1>16, <1>a, <2>1, <2>2 DEF Lookup
<1>17. CASE Verdict(w)
  <2>1. row' \in Rows
    BY <1>0, <1>17 DEF Verdict, Rows
  <2>2. overtaken' \in BOOLEAN
    BY <1>17 DEF Verdict, TypeOK
  <2>3. job' \in [Handlers -> Jobs]
    BY <1>17, GotoType, DoneType DEF Verdict, Steps
  <2>4. QED
    BY <1>17, <2>1, <2>2, <2>3 DEF TypeOK, Verdict
<1>18. CASE LiveDomain(w)
  BY <1>18, <1>b, <1>c DEF LiveDomain, Steps
<1>19. CASE Waiting(w)
  <2>1. \A r \in Requests : [job[w] EXCEPT !.step = "flip", !.request = r] \in Jobs
    BY <1>0 DEF Jobs, Steps
  <2>2. QED
    BY <1>19, <1>a, <1>c, <2>1 DEF Waiting
<1>20. CASE DownFlip(w)
  <2>1. job' \in [Handlers -> Jobs]
    BY <1>20, GotoType, DoneType DEF DownFlip, Steps
  <2>2. row' \in Rows /\ downgrades' \in Nat
    BY <1>0, <1>20 DEF DownFlip, NoClaim, Rows, Doors, TypeOK
  <2>3. QED
    BY <1>20, <2>1, <2>2 DEF TypeOK, DownFlip
<1>21. CASE BecomeUser(w)
  BY <1>21, DoneType DEF TypeOK, BecomeUser
<1>22. QED
  BY <1>1, <1>2, <1>3, <1>4, <1>5, <1>6, <1>7, <1>8, <1>9, <1>10, <1>11, <1>12, <1>13,
     <1>14, <1>15, <1>16, <1>17, <1>18, <1>19, <1>20, <1>21 DEF HandlerStep

\* A failed call leaves its handler at another step, or done.
LEMMA ErrorType ==
    ASSUME TypeOK, NEW w \in Handlers, AfterError(w)
    PROVE  job' \in [Handlers -> Jobs]
<1>1. [job[w] EXCEPT !.step = "verdict", !.ok = FALSE] \in Jobs
  BY DEF TypeOK, Jobs, Steps
<1>2. QED
  BY <1>1, BecomeType, GotoType, DoneType DEF AfterError, Steps

LEMMA NextType ==
    ASSUME TypeOK, Sound, [Next]_vars
    PROVE  TypeOK'
<1> USE DEF historyVars
<1>1. CASE Publish
  <2>1. published' \subseteq 1..claims
    BY <1>1 DEF Publish, TypeOK
  <2>2. QED
    BY <1>1, <2>1 DEF TypeOK, Publish
<1>2. ASSUME NEW r \in Requests, ClaimAges(r) PROVE TypeOK'
  BY <1>2 DEF TypeOK, ClaimAges
<1>3. ASSUME NEW w \in Handlers, CallFails(w) PROVE TypeOK'
  <2>1. job' \in [Handlers -> Jobs]
    BY <1>3, ErrorType DEF CallFails
  <2>2. faults' \in 0..MaxFaults
    BY <1>3, SetupAssumption DEF CallFails, TypeOK, SetupAssumption
  <2>3. QED
    BY <1>3, <2>1, <2>2 DEF TypeOK, CallFails
<1>4. ASSUME NEW w \in Handlers, Crash(w) PROVE TypeOK'
  <2>1. job' \in [Handlers -> Jobs]
    BY <1>4, DoneType DEF Crash
  <2>2. faults' \in 0..MaxFaults
    BY <1>4, SetupAssumption DEF Crash, TypeOK, SetupAssumption
  <2>3. QED
    BY <1>4, <2>1, <2>2 DEF TypeOK, Crash
<1>5. CASE UNCHANGED vars
  BY <1>5 DEF TypeOK, vars
<1>6. QED
  BY <1>1, <1>2, <1>3, <1>4, <1>5, BeginType, StepType DEF Next, Sound

--------------------------------------------------------------------------------
(* Handlers and their requests.                                            *)

LEMMA IdleFits == Fits(Idle) /\ Idle.request = NoRequest /\ Idle.kind = "none" /\ Idle.step = "idle"
BY DEF Fits, Idle, Promoting

\* Handler w becomes j, the others stay, and no request of theirs is filed
\* meanwhile.
LEMMA SoundKept ==
    ASSUME TypeOK, Sound, NEW w \in Handlers, NEW j,
           job'[w] = j, \A v \in Handlers \ {w} : job'[v] = job[v],
           published \subseteq published',
           Fits(j),
           j.request # NoRequest => (request'[j.request] = "none" <=> j.kind = "file"),
           j.step = "verdict" /\ j.ok => j.token \in published',
           \A v \in Handlers \ {w} : job[v].request # NoRequest =>
               (request'[job[v].request] = "none" <=> request[job[v].request] = "none"),
           j.kind = "file" => \A v \in Handlers \ {w} :
               ~(job[v].kind = "file" /\ job[v].request = j.request)
    PROVE  Sound'
<1>1. ASSUME NEW v \in Handlers PROVE Fits(job'[v])
  <2>1. CASE v = w
    BY <2>1
  <2>2. CASE v # w
    <3>1. job'[v] = job[v] /\ Fits(job[v])
      BY <2>2 DEF Sound
    <3>2. QED
      BY <3>1
  <2>3. QED
    BY <2>1, <2>2
<1>2. ASSUME NEW v \in Handlers PROVE Known(job[v])'
  <2>1. CASE v = w
    BY <2>1 DEF Known
  <2>2. CASE v # w
    BY <2>2 DEF Sound, Known
  <2>3. QED
    BY <2>1, <2>2
<1>3. OneFiler'
  BY DEF Sound, OneFiler
<1>4. QED
  BY <1>1, <1>2, <1>3 DEF Sound

\* Handler w becomes j, and no request is written.
LEMMA SoundQuiet ==
    ASSUME TypeOK, Sound, NEW w \in Handlers, NEW j,
           job'[w] = j, \A v \in Handlers \ {w} : job'[v] = job[v],
           UNCHANGED <<request, published>>,
           Fits(j), j.kind # "file",
           j.request # NoRequest => request[j.request] # "none",
           j.step = "verdict" /\ j.ok => j.token \in published
    PROVE  Sound'
BY SoundKept

\* The same, when it becomes idle.
LEMMA SoundDone ==
    ASSUME TypeOK, Sound, NEW w \in Handlers, Done(w), UNCHANGED <<request, published>>
    PROVE  Sound'
BY DoneType, IdleFits, SoundQuiet

\* The same, when it goes to another step of what it does.
LEMMA SoundGoto ==
    ASSUME TypeOK, Sound, NEW w \in Handlers, NEW s \in Steps, Goto(w, s),
           Fits([job[w] EXCEPT !.step = s]), job[w].kind # "file", s # "verdict",
           UNCHANGED <<request, published>>
    PROVE  Sound'
<1>1. job[w] \in Jobs /\ Known(job[w])
  BY DEF TypeOK, Sound
<1>2. [job[w] EXCEPT !.step = s].kind = job[w].kind
      /\ [job[w] EXCEPT !.step = s].request = job[w].request
      /\ [job[w] EXCEPT !.step = s].step = s
  BY <1>1 DEF Jobs
<1>3. QED
  BY <1>1, <1>2, GotoType, SoundQuiet DEF Known

\* The same, when it marks its request and becomes j.
LEMMA SoundMarked ==
    ASSUME TypeOK, Sound, NEW w \in Handlers, NEW j, NEW r \in Requests, NEW s \in Statuses \ {"none"},
           job'[w] = j, \A v \in Handlers \ {w} : job'[v] = job[v],
           Mark(r, s), UNCHANGED published,
           Fits(j), j.kind # "file", j.step # "verdict", j.request \in {r, NoRequest},
           request[r] # "none" \/ (job[w].kind = "file" /\ job[w].request = r)
    PROVE  Sound'
<1>1. request' = [request EXCEPT ![r] = s] /\ request \in [Requests -> Statuses]
  BY DEF Mark, TypeOK
<1>2. j.request # NoRequest => (request'[j.request] = "none" <=> j.kind = "file")
  BY <1>1
<1>3. ASSUME NEW v \in Handlers \ {w}, job[v].request # NoRequest
      PROVE  request'[job[v].request] = "none" <=> request[job[v].request] = "none"
  <2>1. job[v].request \in Requests /\ Known(job[v]) /\ Known(job[w])
    BY <1>3 DEF TypeOK, Jobs, Sound
  <2>2. CASE job[v].request # r
    BY <1>1, <2>1, <2>2
  <2>3. CASE job[v].request = r
    <3>1. request[r] # "none"
      <4>1. SUFFICES ASSUME request[r] = "none" PROVE FALSE
        OBVIOUS
      <4>2. job[w].kind = "file" /\ job[w].request = r
        BY <4>1
      <4>3. job[v].kind = "file"
        BY <1>3, <2>1, <2>3, <4>1 DEF Known
      <4>4. QED
        BY <2>3, <4>2, <4>3 DEF Sound, OneFiler
    <3>2. QED
      BY <1>1, <2>3, <3>1
  <2>4. QED
    BY <2>2, <2>3
<1>4. QED
  BY <1>2, <1>3, SoundKept

LEMMA BeginSound ==
    ASSUME TypeOK, Sound, NEW w \in Handlers, Begin(w)
    PROVE  Sound'
<1>0. At(w, "idle")
  BY DEF Begin, SweepDomain, CheckNow, Downgrade, File, Decline, Claim, ClaimDomain
<1>1. ASSUME Snapshot(w), UNCHANGED <<request, published>> PROVE Sound'
  <2> DEFINE j == [Idle EXCEPT !.step = "lookup", !.kind = "check", !.token = row.token,
                               !.customer = row.kind = "customer"]
  <2>1. j \in Jobs
    BY IdleType DEF TypeOK, Rows, Jobs, Steps
  <2>2. j.step = "lookup" /\ j.kind = "check" /\ j.request = NoRequest
    BY DEF Idle
  <2>3. Fits(j)
    BY <2>2 DEF Fits, Promoting
  <2>4. Become(w, j)
    BY <1>1 DEF Snapshot
  <2> HIDE DEF j
  <2>5. QED
    BY <1>1, <2>1, <2>2, <2>3, <2>4, BecomeType, SoundQuiet
<1>2. CASE SweepDomain(w)
  BY <1>1, <1>2 DEF SweepDomain
<1>3. CASE CheckNow(w)
  BY <1>1, <1>3 DEF CheckNow
<1>4. CASE Downgrade(w)
  <2> DEFINE j == [Idle EXCEPT !.step = "downFlip", !.kind = "downgrade"]
  <2>1. j \in Jobs
    BY IdleType DEF Jobs, Steps
  <2>2. j.step = "downFlip" /\ j.kind = "downgrade" /\ j.request = NoRequest
    BY DEF Idle
  <2>3. Fits(j)
    BY <2>2 DEF Fits, Promoting
  <2>4. Become(w, j) /\ UNCHANGED <<request, published>>
    BY <1>4 DEF Downgrade
  <2> HIDE DEF j
  <2>5. QED
    BY <2>1, <2>2, <2>3, <2>4, BecomeType, SoundQuiet
<1>5. ASSUME NEW r \in Requests, File(w, r) PROVE Sound'
  <2> DEFINE j == [Idle EXCEPT !.step = "create", !.kind = "file", !.request = r]
  <2>1. j \in Jobs
    BY IdleType DEF Jobs, Steps
  <2>2. j.step = "create" /\ j.kind = "file" /\ j.request = r /\ r # NoRequest
    BY SetupAssumption DEF Idle, SetupAssumption
  <2>3. Fits(j)
    BY <2>2 DEF Fits, Promoting
  <2>4. Become(w, j) /\ UNCHANGED <<request, published>> /\ request[r] = "none"
    BY <1>5 DEF File
  <2>5. \A v \in Handlers : job[v].kind = "file" => job[v].request # r
    BY <1>5 DEF File
  <2> HIDE DEF j
  <2>6. QED
    BY <2>1, <2>2, <2>3, <2>4, <2>5, BecomeType, SoundKept
<1>6. ASSUME NEW r \in Requests, Decline(w, r) PROVE Sound'
  <2> DEFINE j == [Idle EXCEPT !.step = "existing", !.kind = "decline", !.request = r,
                               !.before = request[r]]
  <2>1. j \in Jobs
    BY IdleType DEF TypeOK, Jobs, Steps
  <2>2. j.step = "existing" /\ j.kind = "decline" /\ j.request = r /\ r # NoRequest
    BY SetupAssumption DEF Idle, SetupAssumption
  <2>3. Fits(j)
    BY <2>2 DEF Fits, Promoting
  <2>4. Become(w, j) /\ UNCHANGED <<request, published>> /\ request[r] # "none"
    BY <1>6 DEF Decline
  <2> HIDE DEF j
  <2>5. QED
    BY <2>1, <2>2, <2>3, <2>4, BecomeType, SoundQuiet
<1>7. ASSUME NEW r \in Requests, NEW d \in Doors, Claim(w, r, d) PROVE Sound'
  <2> DEFINE j == [Idle EXCEPT !.step = "applicant", !.kind = "approve",
                               !.request = r, !.door = d]
  <2>1. j \in Jobs
    BY IdleType DEF Jobs, Steps
  <2>2. j.step = "applicant" /\ j.kind = "approve" /\ j.request = r /\ r # NoRequest
    BY SetupAssumption DEF Idle, SetupAssumption
  <2>3. Fits(j)
    BY <2>2 DEF Fits, Promoting
  <2>4. Become(w, j) /\ Mark(r, "approving") /\ UNCHANGED published /\ request[r] # "none"
    BY <1>7 DEF Claim, Claimable
  <2>5. "approving" \in Statuses \ {"none"}
    BY DEF Statuses, Open
  <2> HIDE DEF j
  <2>6. QED
    BY <2>1, <2>2, <2>3, <2>4, <2>5, BecomeType, SoundMarked
<1>8. ASSUME NEW d \in Domains, ClaimDomain(w, d) PROVE Sound'
  <2> DEFINE j == [Idle EXCEPT !.step = "setupRead", !.kind = "domain", !.door = d]
  <2>1. j \in Jobs
    BY IdleType DEF Jobs, Steps, Doors
  <2>2. j.step = "setupRead" /\ j.kind = "domain" /\ j.request = NoRequest
    BY DEF Idle
  <2>3. Fits(j)
    BY <2>2 DEF Fits, Promoting
  <2>4. Become(w, j) /\ UNCHANGED <<request, published>>
    BY <1>8 DEF ClaimDomain
  <2> HIDE DEF j
  <2>5. QED
    BY <2>1, <2>2, <2>3, <2>4, BecomeType, SoundQuiet
<1>9. QED
  BY <1>2, <1>3, <1>4, <1>5, <1>6, <1>7, <1>8 DEF Begin

\* The step names that a kind of handler goes on with.
LEMMA FitsNext ==
    ASSUME NEW j \in Jobs, NEW s \in Steps, Fits(j)
    PROVE  /\ (/\ j.kind = "approve"
               /\ s \in {"applicant", "setupRead", "setupWrite", "await", "release", "flip"} \cup Promoting)
              => Fits([j EXCEPT !.step = s])
           /\ (/\ j.kind = "check" /\ j.request # NoRequest
               /\ s \in Promoting) => Fits([j EXCEPT !.step = s])
           /\ (j.kind = "check" /\ j.request = NoRequest /\ s \in {"lookup", "verdict", "live", "waiting"})
              => Fits([j EXCEPT !.step = s])
           /\ (j.kind = "decline" /\ s \in {"existing", "decline", "cancelRead", "cancelWrite"})
              => Fits([j EXCEPT !.step = s])
           /\ (j.kind = "domain" /\ s = "setupWrite") => Fits([j EXCEPT !.step = s])
           /\ (j.kind = "downgrade" /\ s = "downRole") => Fits([j EXCEPT !.step = s])
<1> DEFINE n == [j EXCEPT !.step = s]
<1>1. n.step = s /\ n.kind = j.kind /\ n.request = j.request
  BY DEF Jobs
<1> HIDE DEF n
<1>2. QED
  <2>1. \/ Fits(n)
        \/ ~Fits(n)
    OBVIOUS
  <2>2. /\ (/\ j.kind = "approve"
            /\ s \in {"applicant", "setupRead", "setupWrite", "await", "release", "flip"} \cup Promoting)
           => Fits(n)
        /\ (j.kind = "check" /\ j.request # NoRequest /\ s \in Promoting) => Fits(n)
        /\ (j.kind = "check" /\ j.request = NoRequest /\ s \in {"lookup", "verdict", "live", "waiting"})
           => Fits(n)
        /\ (j.kind = "decline" /\ s \in {"existing", "decline", "cancelRead", "cancelWrite"}) => Fits(n)
        /\ (j.kind = "domain" /\ s = "setupWrite") => Fits(n)
        /\ (j.kind = "downgrade" /\ s = "downRole") => Fits(n)
    BY <1>1 DEF Fits, Promoting
  <2>3. QED
    BY <2>2 DEF n

LEMMA StepSound ==
    ASSUME TypeOK, Sound, NEW w \in Handlers, HandlerStep(w)
    PROVE  Sound'
<1>0. /\ job[w] \in Jobs /\ Fits(job[w]) /\ Known(job[w])
      /\ job[w].request \in Requests \cup {NoRequest}
  BY DEF TypeOK, Jobs, Sound
<1> USE DEF At
<1>a. ASSUME Done(w), UNCHANGED <<request, published>> PROVE Sound'
  BY <1>a, SoundDone
<1>b. ASSUME NEW s \in Steps \ {"verdict"}, Goto(w, s), Fits([job[w] EXCEPT !.step = s]),
             job[w].kind # "file", UNCHANGED <<request, published>>
      PROVE  Sound'
  BY <1>b, SoundGoto
<1>c. ASSUME NEW s \in Statuses \ {"none"}, job[w].request \in Requests, Mark(job[w].request, s),
             Done(w), UNCHANGED published
      PROVE  Sound'
  <2>1. request[job[w].request] # "none" \/ job[w].kind = "file"
    BY <1>0, <1>c, SetupAssumption DEF Known, SetupAssumption
  <2>2. QED
    BY <1>c, <2>1, DoneType, IdleFits, SoundMarked
<1>d. /\ {"approved", "declined", "pending", "awaiting"} \subseteq Statuses \ {"none"}
      /\ job[w].kind = "approve" => job[w].request \in Requests
      /\ job[w].step \in {"create", "flip", "decline"} \cup Promoting => job[w].request \in Requests
  BY <1>0 DEF Fits, Statuses, Open, Closed, Promoting
<1>1. CASE Create(w)
  BY <1>1, <1>c, <1>d DEF Create
<1>2. CASE Applicant(w)
  BY <1>0, <1>2, <1>b, FitsNext DEF Applicant, Steps, Fits
<1>3. CASE SetupRead(w)
  <2> DEFINE j == [job[w] EXCEPT !.step = "setupWrite", !.known = row.domain]
  <2>1. j \in Jobs
    BY <1>0 DEF Jobs, Steps, TypeOK, Rows
  <2>2. j.step = "setupWrite" /\ j.kind = job[w].kind /\ j.request = job[w].request
    BY <1>0 DEF Jobs
  <2>3. job[w].kind \in {"approve", "domain"} /\ Fits(j)
    BY <1>0, <1>3, <2>2 DEF SetupRead, Fits, Promoting
  <2>4. Become(w, j) /\ UNCHANGED <<request, published>>
    BY <1>3 DEF SetupRead
  <2> HIDE DEF j
  <2>5. QED
    BY <1>0, <2>1, <2>2, <2>3, <2>4, BecomeType, SoundQuiet DEF Known
<1>4. CASE SetupWrite(w)
  <2>1. (job[w].kind = "approve" /\ (Goto(w, "await") \/ Goto(w, "flip"))) \/ Done(w)
    BY <1>4 DEF SetupWrite, AfterSetup
  <2>2. UNCHANGED <<request, published>>
    BY <1>4 DEF SetupWrite
  <2>3. QED
    BY <1>0, <1>a, <1>b, <2>1, <2>2, FitsNext DEF Steps
<1>5. CASE Refuse(w)
  BY <1>0, <1>5, <1>a, <1>b, FitsNext DEF Refuse, Steps
<1>6. CASE Await(w)
  BY <1>0, <1>6, <1>c, <1>d DEF Await, Fits
<1>7. CASE Release(w)
  <2>1. CASE request[job[w].request] = "approving"
    BY <1>0, <1>7, <1>c, <1>d, <2>1 DEF Release, Fits
  <2>2. CASE request[job[w].request] # "approving"
    BY <1>7, <1>a, <2>2 DEF Release
  <2>3. QED
    BY <2>1, <2>2
<1>8. CASE Flip(w)
  <2>1. Goto(w, "role") \/ Done(w)
    BY <1>8 DEF Flip
  <2>2. UNCHANGED <<request, published>>
    BY <1>8 DEF Flip
  <2>3. job[w].kind \in {"approve", "check"} /\ job[w].request # NoRequest
    BY <1>0, <1>8 DEF Flip, Fits
  <2>4. QED
    BY <1>0, <1>a, <1>b, <2>1, <2>2, <2>3, FitsNext DEF Steps, Promoting
<1>9. CASE BecomeAdmin(w)
  <2>1. job[w].kind \in {"approve", "check"} /\ job[w].request # NoRequest
    BY <1>0, <1>9 DEF BecomeAdmin, Fits, Promoting
  <2>2. QED
    BY <1>0, <1>9, <1>b, <2>1, FitsNext DEF BecomeAdmin, Steps, Promoting
<1>10. CASE FindOpen(w)
  <2>1. job[w].kind \in {"approve", "check"} /\ job[w].request # NoRequest
    BY <1>0, <1>10 DEF FindOpen, Fits, Promoting
  <2>2. QED
    BY <1>0, <1>10, <1>a, <1>b, <2>1, FitsNext DEF FindOpen, Steps, Promoting
<1>11. CASE Approve(w)
  BY <1>11, <1>c, <1>d DEF Approve, Promoting
<1>12. CASE Existing(w)
  BY <1>0, <1>12, <1>a, <1>b, FitsNext DEF Existing, Steps, Fits
<1>13. CASE DeclineWrite(w)
  <2>0. job[w].kind = "decline" /\ job[w].request \in Requests
    BY <1>0, <1>13, <1>d DEF DeclineWrite, Fits
  <2>1. CASE Done(w)
    BY <1>13, <1>c, <1>d, <2>0, <2>1 DEF DeclineWrite
  <2>2. CASE Goto(w, "cancelRead")
    <3> DEFINE j == [job[w] EXCEPT !.step = "cancelRead"]
    <3>1. Fits(j)
      BY <1>0, <2>0, FitsNext DEF Steps
    <3>2. j.kind = "decline" /\ j.step = "cancelRead" /\ j.request = job[w].request
      BY <1>0, <2>0 DEF Jobs
    <3>3. job'[w] = j /\ \A v \in Handlers \ {w} : job'[v] = job[v]
      BY <2>2, GotoType DEF Steps
    <3>4. request[job[w].request] # "none"
      BY <1>0, <2>0, SetupAssumption DEF Known, SetupAssumption
    <3> HIDE DEF j
    <3>5. QED
      BY <1>13, <1>d, <2>0, <3>1, <3>2, <3>3, <3>4, SoundMarked DEF DeclineWrite
  <2>3. QED
    BY <1>13, <2>1, <2>2 DEF DeclineWrite
<1>14. CASE CancelRead(w)
  BY <1>0, <1>14, <1>a, <1>b, FitsNext DEF CancelRead, Steps, Fits
<1>15. CASE CancelWrite(w)
  BY <1>15, <1>a DEF CancelWrite
<1>16. CASE Lookup(w)
  <2>1. ASSUME NEW ok \in BOOLEAN, Become(w, [job[w] EXCEPT !.step = "verdict", !.ok = ok]),
               ok => job[w].token \in published
        PROVE  Sound'
    <3> DEFINE j == [job[w] EXCEPT !.step = "verdict", !.ok = ok]
    <3>1. j \in Jobs
      BY <1>0 DEF Jobs, Steps
    <3>2. j.step = "verdict" /\ j.kind = "check" /\ j.request = NoRequest
          /\ j.token = job[w].token
      BY <1>0, <1>16 DEF Lookup, Fits, Jobs
    <3>3. j.ok => ok
      BY <1>0 DEF Jobs
    <3> HIDE DEF j
    <3>4. Fits(j)
      BY <3>2 DEF Fits, Promoting
    <3>5. Become(w, j) /\ UNCHANGED <<request, published>>
      BY <1>16, <2>1 DEF Lookup, j
    <3>6. j.ok => j.token \in published
      BY <2>1, <3>2, <3>3
    <3>7. QED
      BY <3>1, <3>2, <3>4, <3>5, <3>6, BecomeType, SoundQuiet
  <2>2. CASE job[w].token \in published
    <3>1. Become(w, [job[w] EXCEPT !.step = "verdict", !.ok = TRUE])
      BY <1>16, <2>2 DEF Lookup, Become
    <3>2. QED
      BY <2>1, <2>2, <3>1
  <2>3. CASE job[w].token \notin published
    <3>1. (job[w].token \in published) = FALSE
      BY <2>3
    <3>2. Become(w, [job[w] EXCEPT !.step = "verdict", !.ok = FALSE])
      BY <1>16, <3>1 DEF Lookup, Become
    <3>3. QED
      BY <2>1, <3>2
  <2>4. QED
    BY <2>2, <2>3
<1>17. CASE Verdict(w)
  BY <1>0, <1>17, <1>a, <1>b, FitsNext DEF Verdict, Steps, Fits
<1>18. CASE LiveDomain(w)
  BY <1>0, <1>18, <1>a, <1>b, FitsNext DEF LiveDomain, Steps, Fits
<1>19. CASE Waiting(w)
  <2>0. job[w].kind = "check"
    BY <1>0, <1>19 DEF Waiting, Fits
  <2>1. ASSUME NEW r \in Requests, request[r] = "awaiting",
               Become(w, [job[w] EXCEPT !.step = "flip", !.request = r])
        PROVE  Sound'
    <3> DEFINE j == [job[w] EXCEPT !.step = "flip", !.request = r]
    <3>1. j \in Jobs
      BY <1>0 DEF Jobs, Steps
    <3>2. j.step = "flip" /\ j.kind = "check" /\ j.request = r /\ r # NoRequest
      BY <1>0, <2>0, SetupAssumption DEF Jobs, SetupAssumption
    <3> HIDE DEF j
    <3>3. Fits(j)
      BY <3>2 DEF Fits, Promoting
    <3>4. Become(w, j) /\ UNCHANGED <<request, published>>
      BY <1>19, <2>1 DEF Waiting, j
    <3>5. QED
      BY <2>1, <3>1, <3>2, <3>3, <3>4, BecomeType, SoundQuiet
  <2>2. CASE Done(w)
    BY <1>19, <1>a, <2>2 DEF Waiting
  <2>3. QED
    BY <1>19, <2>1, <2>2 DEF Waiting
<1>20. CASE DownFlip(w)
  BY <1>0, <1>20, <1>a, <1>b, FitsNext DEF DownFlip, Steps, Fits
<1>21. CASE BecomeUser(w)
  BY <1>21, <1>a DEF BecomeUser
<1>22. QED
  BY <1>1, <1>2, <1>3, <1>4, <1>5, <1>6, <1>7, <1>8, <1>9, <1>10, <1>11, <1>12, <1>13,
     <1>14, <1>15, <1>16, <1>17, <1>18, <1>19, <1>20, <1>21 DEF HandlerStep

\* A handler that a call failed releases its claim, reports an edge that is
\* not ready, or is done.
LEMMA ErrorBecomes ==
    ASSUME TypeOK, Sound, NEW w \in Handlers, AfterError(w)
    PROVE  \E j \in Jobs :
             /\ job' \in [Handlers -> Jobs]
             /\ job'[w] = j /\ \A v \in Handlers \ {w} : job'[v] = job[v]
             /\ Fits(j) /\ j.kind # "file" /\ ~(j.step = "verdict" /\ j.ok)
             /\ j = Idle \/ (j.kind = job[w].kind /\ j.request = job[w].request)
<1>0. job[w] \in Jobs /\ Fits(job[w])
  BY DEF TypeOK, Sound
<1>1. CASE Done(w)
  BY <1>1, DoneType, IdleType, IdleFits
<1>2. CASE job[w].kind = "approve" /\ Goto(w, "release")
  <2> DEFINE j == [job[w] EXCEPT !.step = "release"]
  <2>1. j \in Jobs /\ j.step = "release" /\ j.kind = "approve" /\ j.request = job[w].request
    BY <1>0, <1>2 DEF Jobs, Steps
  <2>2. Fits(j)
    BY <1>0, <1>2, FitsNext DEF Steps
  <2>3. job' \in [Handlers -> Jobs] /\ job'[w] = j /\ \A v \in Handlers \ {w} : job'[v] = job[v]
    BY <1>2, GotoType DEF Steps
  <2> HIDE DEF j
  <2>4. QED
    BY <1>2, <2>1, <2>2, <2>3
<1>3. CASE At(w, "lookup") /\ Become(w, [job[w] EXCEPT !.step = "verdict", !.ok = FALSE])
  <2> DEFINE j == [job[w] EXCEPT !.step = "verdict", !.ok = FALSE]
  <2>1. j \in Jobs /\ j.step = "verdict" /\ j.ok = FALSE /\ j.kind = job[w].kind
        /\ j.request = job[w].request
    BY <1>0 DEF Jobs, Steps
  <2>2. job[w].kind = "check" /\ job[w].request = NoRequest
    BY <1>0, <1>3 DEF At, Fits
  <2>3. job' \in [Handlers -> Jobs] /\ job'[w] = j /\ \A v \in Handlers \ {w} : job'[v] = job[v]
    BY <1>3, <2>1, BecomeType
  <2> HIDE DEF j
  <2>4. Fits(j)
    BY <2>1, <2>2 DEF Fits, Promoting
  <2>5. QED
    BY <2>1, <2>2, <2>3, <2>4
<1>4. QED
  BY <1>1, <1>2, <1>3 DEF AfterError

LEMMA NextSound ==
    ASSUME TypeOK, Sound, [Next]_vars
    PROVE  Sound'
<1>1. CASE Publish
  <2>1. UNCHANGED <<request, job>> /\ published \subseteq published'
    BY <1>1 DEF Publish
  <2>2. QED
    BY <2>1 DEF Sound, OneFiler, Known
<1>2. ASSUME NEW r \in Requests, ClaimAges(r) PROVE Sound'
  BY <1>2 DEF ClaimAges, Sound, OneFiler, Known
<1>3. ASSUME NEW w \in Handlers, CallFails(w) PROVE Sound'
  <2>1. UNCHANGED <<request, published>> /\ AfterError(w)
    BY <1>3 DEF CallFails
  <2>2. PICK j \in Jobs :
          /\ job'[w] = j /\ \A v \in Handlers \ {w} : job'[v] = job[v]
          /\ Fits(j) /\ j.kind # "file" /\ ~(j.step = "verdict" /\ j.ok)
          /\ j = Idle \/ (j.kind = job[w].kind /\ j.request = job[w].request)
    BY <2>1, ErrorBecomes
  <2>3. j.request # NoRequest => request[j.request] # "none"
    BY <2>2, IdleFits DEF Sound, Known
  <2>4. QED
    BY <2>1, <2>2, <2>3, SoundQuiet
<1>4. ASSUME NEW w \in Handlers, Crash(w) PROVE Sound'
  BY <1>4, SoundDone DEF Crash
<1>5. CASE UNCHANGED vars
  BY <1>5 DEF vars, Sound, OneFiler, Known
<1>6. QED
  BY <1>1, <1>2, <1>3, <1>4, <1>5, BeginSound, StepSound DEF Next

--------------------------------------------------------------------------------
(* Claims and promotions.                                                  *)

\* Handler w becomes j and gains no claim and no request to promote.
NoGain(w, j) ==
    \/ j.kind # "approve" /\ (j.kind = "check" => j.request = NoRequest)
    \/ j.kind = job[w].kind /\ j.request = job[w].request

LEMMA HeldQuiet ==
    ASSUME ClaimHeld, NEW w \in Handlers, NEW j, NoGain(w, j),
           job'[w] = j, \A v \in Handlers \ {w} : job'[v] = job[v],
           UNCHANGED request, takenOver \subseteq takenOver'
    PROVE  ClaimHeld'
<1>0. NoRequest \notin Requests
  BY SetupAssumption DEF SetupAssumption
<1>1. \A v \in Handlers, r \in Requests :
        (InSetup(v, r)' => InSetup(v, r)) /\ (Checks(v, r)' => Checks(v, r))
  BY <1>0 DEF NoGain, InSetup, Checks
<1>2. QED
  BY <1>1 DEF ClaimHeld

\* Handler w becomes j, and its promotion goes on or finds its request closed.
LEMMA PromotionQuiet ==
    ASSUME Promotion, Sound, NEW w \in Handlers, NEW j,
           job'[w] = j, \A v \in Handlers \ {w} : job'[v] = job[v],
           UNCHANGED <<request, promotedFor, faults>>, takenOver \subseteq takenOver',
           \/ j.kind = job[w].kind /\ j.request = job[w].request
              /\ (job[w].step \in Promoting => j.step \in Promoting)
           \/ j.kind # "approve"
              /\ (job[w].step \in Promoting => request[job[w].request] \in Closed)
    PROVE  Promotion'
<1> SUFFICES ASSUME promotedFor # NoRequest, promotedFor \notin takenOver, faults = 0
             PROVE  /\ request[promotedFor] \in Closed
                       \/ \E v \in Handlers : Promotes(v, promotedFor)'
                    /\ \A v \in Handlers : InSetup(v, promotedFor)' => job'[v].step \in Promoting
  BY DEF Promotion, Promotes, InSetup
<1>1. /\ request[promotedFor] \in Closed \/ \E v \in Handlers : Promotes(v, promotedFor)
      /\ \A v \in Handlers : InSetup(v, promotedFor) => job[v].step \in Promoting
  BY DEF Promotion
<1>2. ASSUME NEW v \in Handlers, Promotes(v, promotedFor)
      PROVE  request[promotedFor] \in Closed \/ Promotes(v, promotedFor)'
  BY <1>2 DEF Promotes
<1>3. ASSUME NEW v \in Handlers, InSetup(v, promotedFor)'
      PROVE  job'[v].step \in Promoting
  BY <1>1, <1>3 DEF InSetup
<1>4. QED
  BY <1>1, <1>2, <1>3

\* No other handler holds a claim of r, or promotes for it.
Alone(w, r) == \A v \in Handlers \ {w} : ~InSetup(v, r) /\ ~Checks(v, r)

\* Handler w marks request r, and is done with it.
LEMMA HeldMarked ==
    ASSUME TypeOK, ClaimHeld, NEW w \in Handlers, NEW r \in Requests, NEW s \in Statuses, NEW j,
           job'[w] = j, \A v \in Handlers \ {w} : job'[v] = job[v],
           j.kind \in {"none", "decline"}, Mark(r, s), UNCHANGED takenOver,
           \/ s = "declined" \/ r \in takenOver \/ Alone(w, r)
           \/ s = "approved" /\ \A v \in Handlers \ {w} : ~InSetup(v, r)
    PROVE  ClaimHeld'
<1>1. request' = [request EXCEPT ![r] = s] /\ request \in [Requests -> Statuses]
  BY DEF Mark, TypeOK
<1>2. \A v \in Handlers, q \in Requests :
        /\ InSetup(v, q)' => InSetup(v, q) /\ v # w
        /\ Checks(v, q)' => Checks(v, q) /\ v # w
  BY DEF InSetup, Checks
<1>3. ASSUME NEW q \in Requests \ takenOver, NEW v \in Handlers
      PROVE  /\ InSetup(v, q)' => request'[q] \in {"approving", "declined"}
             /\ Checks(v, q)' => request'[q] \in {"awaiting"} \cup Closed
  <2>1. CASE q # r
    BY <1>1, <1>2, <2>1 DEF ClaimHeld
  <2>2. CASE q = r /\ s = "declined"
    BY <1>1, <2>2 DEF Closed
  <2>3. CASE q = r /\ Alone(w, r)
    BY <1>2, <2>3 DEF Alone
  <2>4. CASE q = r /\ s = "approved" /\ \A u \in Handlers \ {w} : ~InSetup(u, r)
    BY <1>1, <1>2, <2>4 DEF Closed
  <2>5. QED
    BY <2>1, <2>2, <2>3, <2>4
<1>4. QED
  BY <1>2, <1>3 DEF ClaimHeld

LEMMA PromotionMarked ==
    ASSUME TypeOK, Sound, Promotion, NEW w \in Handlers, NEW s \in Statuses, NEW j,
           job[w].request \in Requests,
           job'[w] = j, \A v \in Handlers \ {w} : job'[v] = job[v],
           j.kind \in {"none", "decline"}, Mark(job[w].request, s),
           UNCHANGED <<promotedFor, faults, takenOver>>,
           \/ s \in Closed
           \/ promotedFor \in takenOver \/ faults # 0
           \/ promotedFor # job[w].request
    PROVE  Promotion'
<1> DEFINE r == job[w].request
<1>1. request' = [request EXCEPT ![r] = s] /\ request \in [Requests -> Statuses]
  BY DEF Mark, TypeOK
<1> SUFFICES ASSUME promotedFor # NoRequest, promotedFor \notin takenOver, faults = 0
             PROVE  /\ request'[promotedFor] \in Closed
                       \/ \E v \in Handlers : Promotes(v, promotedFor)'
                    /\ \A v \in Handlers : InSetup(v, promotedFor)' => job'[v].step \in Promoting
  BY DEF Promotion, Promotes, InSetup
<1>2. /\ request[promotedFor] \in Closed \/ \E v \in Handlers : Promotes(v, promotedFor)
      /\ \A v \in Handlers : InSetup(v, promotedFor) => job[v].step \in Promoting
  BY DEF Promotion
<1>3. \A v \in Handlers : InSetup(v, promotedFor)' => job'[v].step \in Promoting
  BY <1>2 DEF InSetup
<1>4. CASE promotedFor = r
  BY <1>1, <1>3, <1>4
<1>5. CASE promotedFor # r
  <2>1. request'[promotedFor] = request[promotedFor]
    BY <1>1, <1>5
  <2>2. \A v \in Handlers : Promotes(v, promotedFor) => Promotes(v, promotedFor)'
    BY <1>5 DEF Promotes
  <2>3. QED
    BY <1>2, <1>3, <2>1, <2>2
<1>6. QED
  BY <1>4, <1>5

\* After a fault nothing is promised of the promotion.
LEMMA PromotionFault ==
    ASSUME TypeOK, faults' = faults + 1
    PROVE  Promotion'
<1>1. faults \in Nat
  BY SetupAssumption DEF TypeOK, SetupAssumption
<1>2. faults' # 0
  BY <1>1
<1>3. QED
  BY <1>2 DEF Promotion

\* A request that is claimed is claimed by nobody else and promoted for by
\* nobody, unless its claim was stale.
LEMMA ClaimKeeps ==
    ASSUME IInv, NEW w \in Handlers, NEW r \in Requests, NEW d \in Doors, Claim(w, r, d)
    PROVE  ClaimHeld' /\ Promotion'
<1> DEFINE j == [Idle EXCEPT !.step = "applicant", !.kind = "approve", !.request = r, !.door = d]
<1>1. j \in Jobs /\ j.kind = "approve" /\ j.request = r /\ j.step = "applicant"
  BY IdleType DEF Jobs, Steps
<1>2. /\ job'[w] = j /\ \A v \in Handlers \ {w} : job'[v] = job[v]
      /\ request' = [request EXCEPT ![r] = "approving"] /\ request \in [Requests -> Statuses]
      /\ At(w, "idle") /\ job[w].request = NoRequest /\ job[w].kind = "none"
      /\ UNCHANGED <<promotedFor, faults>>
      /\ request[r] = "pending" \/ r \in takenOver'
      /\ takenOver \subseteq takenOver' /\ takenOver' \ {r} = takenOver \ {r}
      /\ request[r] \notin Closed
  <2>1. Become(w, j)
    BY DEF Claim
  <2> HIDE DEF j
  <2>2. job'[w] = j /\ \A v \in Handlers \ {w} : job'[v] = job[v]
    BY <1>1, <2>1, BecomeType DEF IInv
  <2>3. Fits(job[w])
    BY DEF IInv, Sound
  <2>4. QED
    BY <2>2, <2>3 DEF Claim, Claimable, Mark, At, Fits, Closed, IInv, TypeOK
<1> HIDE DEF j
\* Nobody else works for a request that is pending.
<1>3. request[r] = "pending" /\ r \notin takenOver =>
        \A v \in Handlers : ~InSetup(v, r) /\ ~Checks(v, r)
  BY DEF IInv, ClaimHeld, Closed
<1>4. \A v \in Handlers, q \in Requests :
        /\ InSetup(v, q)' <=> (v = w /\ q = r) \/ (v # w /\ InSetup(v, q))
        /\ Checks(v, q)' <=> v # w /\ Checks(v, q)
  BY <1>1, <1>2 DEF InSetup, Checks
<1>5. ClaimHeld'
  <2>1. ASSUME NEW q \in Requests \ takenOver', NEW u \in Handlers, NEW v \in Handlers
        PROVE  /\ InSetup(v, q)' => request'[q] \in {"approving", "declined"}
               /\ Checks(v, q)' => request'[q] \in {"awaiting"} \cup Closed
               /\ InSetup(u, q)' /\ InSetup(v, q)' => u = v
               /\ ~(InSetup(u, q)' /\ Checks(v, q)')
    <3>1. CASE q = r
      <4>1. request[r] = "pending" /\ r \notin takenOver
        BY <1>2, <2>1, <3>1
      <4>2. QED
        BY <1>2, <1>3, <1>4, <3>1, <4>1
    <3>2. CASE q # r
      <4>1. q \notin takenOver /\ request'[q] = request[q]
        BY <1>2, <2>1, <3>2
      <4>2. QED
        BY <1>4, <3>2, <4>1 DEF IInv, ClaimHeld
    <3>3. QED
      BY <3>1, <3>2
  <2>2. QED
    BY <2>1 DEF ClaimHeld
<1>6. Promotion'
  <2> SUFFICES ASSUME promotedFor # NoRequest, promotedFor \notin takenOver', faults = 0
               PROVE  /\ request'[promotedFor] \in Closed
                         \/ \E v \in Handlers : Promotes(v, promotedFor)'
                      /\ \A v \in Handlers : InSetup(v, promotedFor)' => job'[v].step \in Promoting
    BY <1>2 DEF Promotion, Promotes, InSetup
  <2>1. /\ request[promotedFor] \in Closed \/ \E v \in Handlers : Promotes(v, promotedFor)
        /\ \A v \in Handlers : InSetup(v, promotedFor) => job[v].step \in Promoting
    BY <1>2 DEF IInv, Promotion
  <2>2. promotedFor # r
    <3>1. SUFFICES ASSUME promotedFor = r PROVE FALSE
      OBVIOUS
    <3>2. request[r] = "pending" /\ r \notin takenOver
      BY <1>2, <3>1
    <3>3. PICK v \in Handlers : Promotes(v, r)
      BY <1>2, <2>1, <3>1
    <3>4. InSetup(v, r) \/ Checks(v, r)
      BY <3>3 DEF IInv, Sound, Fits, Promotes, InSetup, Checks
    <3>5. QED
      BY <1>3, <3>2, <3>4
  <2>3. request'[promotedFor] = request[promotedFor]
    BY <1>2, <2>2
  <2>4. \A v \in Handlers : Promotes(v, promotedFor) => Promotes(v, promotedFor)'
    BY <1>2 DEF Promotes
  <2>5. \A v \in Handlers : InSetup(v, promotedFor)' => job'[v].step \in Promoting
    BY <1>1, <1>2, <2>1, <2>2 DEF InSetup
  <2>6. QED
    BY <2>1, <2>3, <2>4, <2>5
<1>7. QED
  BY <1>5, <1>6

LEMMA BeginHeld ==
    ASSUME IInv, NEW w \in Handlers, Begin(w)
    PROVE  ClaimHeld' /\ Promotion'
<1>0. At(w, "idle") /\ job[w].step \notin Promoting
  BY DEF Begin, SweepDomain, CheckNow, Downgrade, File, Decline, Claim, ClaimDomain, At, Promoting
<1>a. ASSUME NEW j \in Jobs, Become(w, j), j.kind # "approve", j.kind = "check" => j.request = NoRequest,
             UNCHANGED <<request, promotedFor, faults, takenOver>>
      PROVE  ClaimHeld' /\ Promotion'
  <2>1. job'[w] = j /\ \A v \in Handlers \ {w} : job'[v] = job[v]
    BY <1>a, BecomeType DEF IInv
  <2>2. NoGain(w, j)
    BY <1>a DEF NoGain
  <2>3. QED
    BY <1>0, <1>a, <2>1, <2>2, HeldQuiet, PromotionQuiet DEF IInv
<1> USE DEF historyVars
<1>1. ASSUME Snapshot(w), UNCHANGED <<request, promotedFor, faults, takenOver>>
      PROVE  ClaimHeld' /\ Promotion'
  <2> DEFINE j == [Idle EXCEPT !.step = "lookup", !.kind = "check", !.token = row.token,
                               !.customer = row.kind = "customer"]
  <2>1. j \in Jobs
    BY IdleType DEF IInv, TypeOK, Rows, Jobs, Steps
  <2>2. j.kind = "check" /\ j.request = NoRequest /\ Become(w, j)
    BY <1>1 DEF Idle, Snapshot
  <2> HIDE DEF j
  <2>3. QED
    BY <1>1, <1>a, <2>1, <2>2
<1>2. CASE SweepDomain(w)
  BY <1>1, <1>2 DEF SweepDomain
<1>3. CASE CheckNow(w)
  BY <1>1, <1>3 DEF CheckNow
<1>4. CASE Downgrade(w)
  <2>1. [Idle EXCEPT !.step = "downFlip", !.kind = "downgrade"] \in Jobs
    BY IdleType DEF Jobs, Steps
  <2>2. [Idle EXCEPT !.step = "downFlip", !.kind = "downgrade"].kind = "downgrade"
    BY DEF Idle
  <2>3. QED
    BY <1>4, <1>a, <2>1, <2>2 DEF Downgrade
<1>5. ASSUME NEW r \in Requests, File(w, r) PROVE ClaimHeld' /\ Promotion'
  <2>1. [Idle EXCEPT !.step = "create", !.kind = "file", !.request = r] \in Jobs
    BY IdleType DEF Jobs, Steps
  <2>2. [Idle EXCEPT !.step = "create", !.kind = "file", !.request = r].kind = "file"
    BY DEF Idle
  <2>3. QED
    BY <1>5, <1>a, <2>1, <2>2 DEF File
<1>6. ASSUME NEW r \in Requests, Decline(w, r) PROVE ClaimHeld' /\ Promotion'
  <2> DEFINE j == [Idle EXCEPT !.step = "existing", !.kind = "decline", !.request = r,
                               !.before = request[r]]
  <2>1. j \in Jobs
    BY IdleType DEF IInv, TypeOK, Jobs, Steps
  <2>2. j.kind = "decline" /\ Become(w, j)
    BY <1>6 DEF Idle, Decline
  <2> HIDE DEF j
  <2>3. QED
    BY <1>6, <1>a, <2>1, <2>2 DEF Decline
<1>7. ASSUME NEW d \in Domains, ClaimDomain(w, d) PROVE ClaimHeld' /\ Promotion'
  <2>1. [Idle EXCEPT !.step = "setupRead", !.kind = "domain", !.door = d] \in Jobs
    BY IdleType DEF Jobs, Steps, Doors
  <2>2. [Idle EXCEPT !.step = "setupRead", !.kind = "domain", !.door = d].kind = "domain"
    BY DEF Idle
  <2>3. QED
    BY <1>7, <1>a, <2>1, <2>2 DEF ClaimDomain
<1>8. QED
  BY <1>2, <1>3, <1>4, <1>5, <1>6, <1>7, ClaimKeeps DEF Begin

\* The row is promoted for the request of the handler that flips it.
LEMMA FlipKeeps ==
    ASSUME IInv, NEW w \in Handlers, Flip(w), row.kind = "customer"
    PROVE  ClaimHeld' /\ Promotion'
<1> DEFINE r == job[w].request
           j == [job[w] EXCEPT !.step = "role"]
<1>0. /\ job[w] \in Jobs /\ Fits(job[w]) /\ At(w, "flip") /\ Goto(w, "role")
      /\ promotedFor' = r /\ UNCHANGED <<request, takenOver, faults>>
  BY DEF IInv, TypeOK, Sound, Flip
<1>1. /\ job'[w] = j /\ \A v \in Handlers \ {w} : job'[v] = job[v]
      /\ j.step = "role" /\ j.kind = job[w].kind /\ j.request = r
  BY <1>0, GotoType DEF IInv, Jobs, Steps
<1>2. InSetup(w, r) \/ Checks(w, r)
  BY <1>0 DEF At, Fits, InSetup, Checks
<1> HIDE DEF j
<1>3. ClaimHeld'
  <2>1. NoGain(w, j)
    BY <1>1 DEF NoGain
  <2>2. QED
    BY <1>0, <1>1, <2>1, HeldQuiet DEF IInv
<1>4. Promotion'
  <2>1. Promotes(w, r)'
    BY <1>1 DEF Promotes, Promoting
  <2>2. ASSUME r \in Requests \ takenOver, NEW v \in Handlers \ {w} PROVE ~InSetup(v, r)'
    <3>1. ~InSetup(v, r)
      BY <1>2, <2>2 DEF IInv, ClaimHeld
    <3>2. QED
      BY <1>1, <3>1 DEF InSetup
  <2>3. r \in Requests
    BY <1>0 DEF Jobs, Fits, At
  <2>4. QED
    BY <1>0, <1>1, <2>1, <2>2, <2>3 DEF Promotion, InSetup, Promoting, Promotes
<1>5. QED
  BY <1>3, <1>4

\* A domain check finds a request waiting, which nobody claims.
LEMMA WaitingKeeps ==
    ASSUME IInv, NEW w \in Handlers, Waiting(w)
    PROVE  ClaimHeld' /\ Promotion'
<1> USE DEF historyVars
<1>0. /\ job[w] \in Jobs /\ job[w].kind = "check" /\ job[w].step \notin Promoting
      /\ UNCHANGED <<request, takenOver, promotedFor, faults>>
  BY DEF IInv, TypeOK, Sound, Fits, Waiting, At, Promoting
<1>1. CASE Done(w)
  <2>1. job'[w] = Idle /\ \A v \in Handlers \ {w} : job'[v] = job[v]
    BY <1>1, DoneType DEF IInv
  <2>2. NoGain(w, Idle)
    BY IdleFits DEF NoGain
  <2>3. QED
    BY <1>0, <2>1, <2>2, IdleFits, HeldQuiet, PromotionQuiet DEF IInv
<1>2. ASSUME NEW r \in Requests, request[r] = "awaiting",
             Become(w, [job[w] EXCEPT !.step = "flip", !.request = r])
      PROVE  ClaimHeld' /\ Promotion'
  <2> DEFINE j == [job[w] EXCEPT !.step = "flip", !.request = r]
  <2>1. j \in Jobs /\ j.kind = "check" /\ j.request = r
    BY <1>0 DEF Jobs, Steps
  <2>2. job'[w] = j /\ \A v \in Handlers \ {w} : job'[v] = job[v]
    BY <1>2, <2>1, BecomeType DEF IInv
  <2> HIDE DEF j
  <2>3. \A v \in Handlers, q \in Requests :
          /\ InSetup(v, q)' => InSetup(v, q)
          /\ Checks(v, q)' => Checks(v, q) \/ (v = w /\ q = r)
    BY <2>1, <2>2 DEF InSetup, Checks
  <2>4. r \notin takenOver => \A v \in Handlers : ~InSetup(v, r)
    BY <1>2 DEF IInv, ClaimHeld
  <2>5. ClaimHeld'
    BY <1>0, <1>2, <2>3, <2>4 DEF IInv, ClaimHeld
  <2>6. Promotion'
    BY <1>0, <2>1, <2>2, PromotionQuiet DEF IInv
  <2>7. QED
    BY <2>5, <2>6
<1>3. QED
  BY <1>1, <1>2 DEF Waiting

\* The steps of a handler that mark its request.
LEMMA MarkKeeps ==
    ASSUME IInv, NEW w \in Handlers, NEW s \in Statuses, NEW j,
           job'[w] = j, \A v \in Handlers \ {w} : job'[v] = job[v],
           j.kind \in {"none", "decline"}, Mark(job[w].request, s),
           UNCHANGED <<promotedFor, faults, takenOver>>,
           \/ At(w, "create") /\ s = "pending"
           \/ At(w, "await") /\ s = "awaiting"
           \/ At(w, "release") /\ s = "pending"
           \/ At(w, "approve") /\ s = "approved"
           \/ At(w, "decline") /\ s = "declined"
    PROVE  ClaimHeld' /\ Promotion'
<1> DEFINE r == job[w].request
<1>0. job[w] \in Jobs /\ Fits(job[w]) /\ Known(job[w]) /\ r \in Requests
  BY DEF IInv, TypeOK, Sound, Jobs, Fits, At, Promoting
<1>1. CASE At(w, "create") /\ s = "pending"
  <2>1. request[r] = "none"
    BY <1>0, <1>1, SetupAssumption DEF At, Fits, Known, SetupAssumption
  <2>2. r \in takenOver \/ Alone(w, r)
    BY <1>0, <2>1 DEF IInv, ClaimHeld, Alone, Closed
  <2>3. promotedFor \in takenOver \/ faults # 0 \/ promotedFor # r
    <3>1. SUFFICES ASSUME promotedFor \notin takenOver, faults = 0, promotedFor = r PROVE FALSE
      OBVIOUS
    <3>2. promotedFor # NoRequest
      BY <1>0, <3>1, SetupAssumption DEF SetupAssumption
    <3>3. PICK v \in Handlers : Promotes(v, r)
      BY <2>1, <3>1, <3>2 DEF IInv, Promotion, Closed
    <3>4. request[r] # "none"
      BY <1>0, <3>3, SetupAssumption DEF IInv, Sound, Fits, Known, Promotes, SetupAssumption
    <3>5. QED
      BY <2>1, <3>4
  <2>4. QED
    BY <1>0, <2>2, <2>3, HeldMarked, PromotionMarked DEF IInv
<1>2. CASE s \in {"awaiting", "pending"} /\ (At(w, "await") \/ At(w, "release"))
  <2>1. InSetup(w, r) /\ job[w].step \notin Promoting
    BY <1>0, <1>2 DEF At, Fits, InSetup, Promoting
  <2>2. r \in takenOver \/ Alone(w, r)
    BY <1>0, <2>1 DEF IInv, ClaimHeld, Alone
  <2>3. promotedFor \in takenOver \/ faults # 0 \/ promotedFor # r
    BY <1>0, <2>1, SetupAssumption DEF IInv, Promotion, SetupAssumption
  <2>4. QED
    BY <1>0, <2>2, <2>3, HeldMarked, PromotionMarked DEF IInv
<1>3. CASE At(w, "approve") /\ s = "approved"
  <2>1. InSetup(w, r) \/ Checks(w, r)
    BY <1>0, <1>3 DEF At, Fits, InSetup, Checks, Promoting
  <2>2. r \in takenOver \/ \A v \in Handlers \ {w} : ~InSetup(v, r)
    BY <1>0, <2>1 DEF IInv, ClaimHeld
  <2>3. QED
    BY <1>0, <1>3, <2>2, HeldMarked, PromotionMarked DEF IInv, Closed
<1>4. CASE s = "declined"
  BY <1>0, <1>4, HeldMarked, PromotionMarked DEF IInv, Closed
<1>5. QED
  BY <1>1, <1>2, <1>3, <1>4

LEMMA StepHeld ==
    ASSUME IInv, NEW w \in Handlers, HandlerStep(w)
    PROVE  ClaimHeld' /\ Promotion'
<1> USE DEF historyVars, At
<1>0. /\ job[w] \in Jobs /\ Fits(job[w]) /\ Known(job[w])
      /\ job[w].request \in Requests \cup {NoRequest}
  BY DEF IInv, TypeOK, Jobs, Sound
<1>a. ASSUME Done(w), UNCHANGED <<request, promotedFor, faults, takenOver>>,
             job[w].step \notin Promoting \/ request[job[w].request] \in Closed
      PROVE  ClaimHeld' /\ Promotion'
  <2>1. job'[w] = Idle /\ \A v \in Handlers \ {w} : job'[v] = job[v]
    BY <1>a, DoneType DEF IInv
  <2>2. NoGain(w, Idle)
    BY IdleFits DEF NoGain
  <2>3. QED
    BY <1>a, <2>1, <2>2, IdleFits, HeldQuiet, PromotionQuiet DEF IInv
\* The handler goes on with what it does.
<1>b. ASSUME NEW j \in Jobs, Become(w, j), j.kind = job[w].kind, j.request = job[w].request,
             job[w].step \in Promoting => j.step \in Promoting,
             UNCHANGED <<request, promotedFor, faults, takenOver>>
      PROVE  ClaimHeld' /\ Promotion'
  <2>1. job'[w] = j /\ \A v \in Handlers \ {w} : job'[v] = job[v]
    BY <1>b, BecomeType DEF IInv
  <2>2. NoGain(w, j)
    BY <1>b DEF NoGain
  <2>3. QED
    BY <1>b, <2>1, <2>2, HeldQuiet, PromotionQuiet DEF IInv
<1>c. ASSUME NEW s \in Steps, Goto(w, s), job[w].step \in Promoting => s \in Promoting,
             UNCHANGED <<request, promotedFor, faults, takenOver>>
      PROVE  ClaimHeld' /\ Promotion'
  <2>1. [job[w] EXCEPT !.step = s] \in Jobs /\ [job[w] EXCEPT !.step = s].step = s
        /\ [job[w] EXCEPT !.step = s].kind = job[w].kind
        /\ [job[w] EXCEPT !.step = s].request = job[w].request
    BY <1>0 DEF Jobs
  <2>2. QED
    BY <1>b, <1>c, <2>1 DEF Goto
<1>d. {"pending", "awaiting", "approved", "declined"} \subseteq Statuses
  BY DEF Statuses, Open, Closed
<1>1. CASE Create(w)
  BY <1>1, <1>d, DoneType, IdleFits, MarkKeeps DEF Create, IInv
<1>2. CASE Applicant(w)
  BY <1>2, <1>c DEF Applicant, Steps, Promoting
<1>3. CASE SetupRead(w)
  <2>1. [job[w] EXCEPT !.step = "setupWrite", !.known = row.domain] \in Jobs
    BY <1>0 DEF Jobs, Steps, IInv, TypeOK, Rows
  <2>2. /\ [job[w] EXCEPT !.step = "setupWrite", !.known = row.domain].kind = job[w].kind
        /\ [job[w] EXCEPT !.step = "setupWrite", !.known = row.domain].request = job[w].request
    BY <1>0 DEF Jobs
  <2>3. QED
    BY <1>3, <1>b, <2>1, <2>2 DEF SetupRead, Promoting
<1>4. CASE SetupWrite(w)
  <2>1. Goto(w, "await") \/ Goto(w, "flip") \/ Done(w)
    BY <1>4 DEF SetupWrite, AfterSetup
  <2>2. UNCHANGED <<request, promotedFor, faults, takenOver>> /\ job[w].step \notin Promoting
    BY <1>4 DEF SetupWrite, Promoting
  <2>3. QED
    BY <1>a, <1>c, <2>1, <2>2 DEF Steps
<1>5. CASE Refuse(w)
  BY <1>5, <1>a, <1>c DEF Refuse, Steps, Promoting
<1>6. CASE Await(w)
  BY <1>6, <1>d, DoneType, IdleFits, MarkKeeps DEF Await, IInv
<1>7. CASE Release(w)
  <2>1. CASE request[job[w].request] = "approving"
    BY <1>7, <1>d, <2>1, DoneType, IdleFits, MarkKeeps DEF Release, IInv
  <2>2. CASE request[job[w].request] # "approving"
    BY <1>7, <1>a, <2>2 DEF Release, Promoting
  <2>3. QED
    BY <2>1, <2>2
<1>8. CASE Flip(w)
  <2>1. CASE row.kind = "customer"
    BY <1>8, <2>1, FlipKeeps
  <2>2. CASE row.kind # "customer"
    BY <1>8, <1>a, <2>2 DEF Flip, Promoting
  <2>3. QED
    BY <2>1, <2>2
<1>9. CASE BecomeAdmin(w)
  BY <1>9, <1>c DEF BecomeAdmin, Steps, Promoting
<1>10. CASE FindOpen(w)
  <2>1. CASE request[job[w].request] \in Open
    BY <1>10, <1>c, <2>1 DEF FindOpen, Steps, Promoting
  <2>2. CASE request[job[w].request] \notin Open
    <3>1. job[w].request \in Requests /\ request[job[w].request] # "none"
      BY <1>0, <1>10, SetupAssumption DEF FindOpen, Fits, Known, Promoting, SetupAssumption
    <3>2. request[job[w].request] \in Closed
      BY <2>2, <3>1 DEF IInv, TypeOK, Statuses
    <3>3. QED
      BY <1>10, <1>a, <2>2, <3>2 DEF FindOpen
  <2>3. QED
    BY <2>1, <2>2
<1>11. CASE Approve(w)
  BY <1>11, <1>d, DoneType, IdleFits, MarkKeeps DEF Approve, IInv
<1>12. CASE Existing(w)
  BY <1>12, <1>a, <1>c DEF Existing, Steps, Promoting
<1>13. CASE DeclineWrite(w)
  <2>1. CASE Done(w)
    BY <1>13, <1>d, <2>1, DoneType, IdleFits, MarkKeeps DEF DeclineWrite, IInv
  <2>2. CASE Goto(w, "cancelRead")
    <3> DEFINE j == [job[w] EXCEPT !.step = "cancelRead"]
    <3>1. j.kind = "decline"
      BY <1>0, <1>13 DEF DeclineWrite, Fits, Jobs
    <3>2. job'[w] = j /\ \A v \in Handlers \ {w} : job'[v] = job[v]
      BY <2>2, GotoType DEF IInv, Steps
    <3>3. /\ Mark(job[w].request, "declined") /\ At(w, "decline")
          /\ UNCHANGED <<promotedFor, faults, takenOver>>
      BY <1>13 DEF DeclineWrite
    <3> HIDE DEF j
    <3>4. QED
      BY <1>d, <3>1, <3>2, <3>3, MarkKeeps
  <2>3. QED
    BY <1>13, <2>1, <2>2 DEF DeclineWrite
<1>14. CASE CancelRead(w)
  BY <1>14, <1>a, <1>c DEF CancelRead, Steps, Promoting
<1>15. CASE CancelWrite(w)
  BY <1>15, <1>a DEF CancelWrite, Promoting
<1>16. CASE Lookup(w)
  <2> DEFINE ok == job[w].token \in published
  <2>1. ok \in BOOLEAN /\ Become(w, [job[w] EXCEPT !.step = "verdict", !.ok = ok])
    BY <1>16 DEF Lookup
  <2> HIDE DEF ok
  <2>2. [job[w] EXCEPT !.step = "verdict", !.ok = ok] \in Jobs
    BY <1>0, <2>1 DEF Jobs, Steps
  <2>3. /\ [job[w] EXCEPT !.step = "verdict", !.ok = ok].kind = job[w].kind
        /\ [job[w] EXCEPT !.step = "verdict", !.ok = ok].request = job[w].request
    BY <1>0 DEF Jobs
  <2>4. QED
    BY <1>16, <1>b, <2>1, <2>2, <2>3 DEF Lookup, Promoting
<1>17. CASE Verdict(w)
  BY <1>17, <1>a, <1>c DEF Verdict, Steps, Promoting
<1>18. CASE LiveDomain(w)
  BY <1>18, <1>a, <1>c DEF LiveDomain, Steps, Promoting
<1>19. CASE Waiting(w)
  BY <1>19, WaitingKeeps
<1>20. CASE DownFlip(w)
  BY <1>20, <1>a, <1>c DEF DownFlip, Steps, Promoting
<1>21. CASE BecomeUser(w)
  BY <1>21, <1>a DEF BecomeUser, Promoting
<1>22. QED
  BY <1>1, <1>2, <1>3, <1>4, <1>5, <1>6, <1>7, <1>8, <1>9, <1>10, <1>11, <1>12, <1>13,
     <1>14, <1>15, <1>16, <1>17, <1>18, <1>19, <1>20, <1>21 DEF HandlerStep

LEMMA NextHeld ==
    ASSUME IInv, [Next]_vars
    PROVE  ClaimHeld' /\ Promotion'
<1> USE DEF historyVars
<1>1. CASE Publish
  BY <1>1 DEF Publish, IInv, ClaimHeld, Promotion, InSetup, Checks, Promotes
<1>2. ASSUME NEW r \in Requests, ClaimAges(r) PROVE ClaimHeld' /\ Promotion'
  BY <1>2 DEF ClaimAges, IInv, ClaimHeld, Promotion, InSetup, Checks, Promotes
<1>3. ASSUME NEW w \in Handlers, CallFails(w) PROVE ClaimHeld' /\ Promotion'
  <2>1. UNCHANGED <<request, takenOver>> /\ AfterError(w) /\ faults' = faults + 1
    BY <1>3 DEF CallFails
  <2>2. PICK j \in Jobs :
          /\ job'[w] = j /\ \A v \in Handlers \ {w} : job'[v] = job[v]
          /\ j = Idle \/ (j.kind = job[w].kind /\ j.request = job[w].request)
    BY <2>1, ErrorBecomes DEF IInv
  <2>3. NoGain(w, j)
    BY <2>2, IdleFits DEF NoGain
  <2>4. QED
    BY <2>1, <2>2, <2>3, HeldQuiet, PromotionFault DEF IInv
<1>4. ASSUME NEW w \in Handlers, Crash(w) PROVE ClaimHeld' /\ Promotion'
  <2>1. UNCHANGED <<request, takenOver>> /\ Done(w) /\ faults' = faults + 1
    BY <1>4 DEF Crash
  <2>2. job'[w] = Idle /\ \A v \in Handlers \ {w} : job'[v] = job[v]
    BY <2>1, DoneType DEF IInv
  <2>3. NoGain(w, Idle)
    BY IdleFits DEF NoGain
  <2>4. QED
    BY <2>1, <2>2, <2>3, HeldQuiet, PromotionFault DEF IInv
<1>5. CASE UNCHANGED vars
  BY <1>5 DEF vars, IInv, ClaimHeld, Promotion, InSetup, Checks, Promotes
<1>6. QED
  BY <1>1, <1>2, <1>3, <1>4, <1>5, BeginHeld, StepHeld DEF Next

LEMMA InitInv == Init => IInv
<1> SUFFICES ASSUME Init PROVE IInv
  OBVIOUS
<1>1. TypeOK
  BY InitType
<1>2. \A w \in Handlers : job[w] = Idle
  BY DEF Init
<1>3. Sound
  BY <1>2, IdleFits DEF Sound, OneFiler, Known
<1>4. ClaimHeld
  BY <1>2, IdleFits DEF ClaimHeld, InSetup, Checks
<1>5. Promotion
  BY DEF Promotion, Init
<1>6. QED
  BY <1>1, <1>3, <1>4, <1>5 DEF IInv

LEMMA NextInv == IInv /\ [Next]_vars => IInv'
BY NextType, NextSound, NextHeld DEF IInv

LEMMA Invariant == Spec => []IInv
BY InitInv, NextInv, PTL DEF Spec

--------------------------------------------------------------------------------
(* Theorems.                                                               *)

\* The brand row, the requests and the handlers keep their shape.
THEOREM TypeCorrect == Spec => []TypeOK
<1>1. IInv => TypeOK
  BY DEF IInv
<1>2. QED
  BY <1>1, Invariant, PTL

\* However many admins complete, decline and check at once, and whatever
\* fails, a request is set up by one handler at a time, unless its claim had
\* outlived its ten minutes.
THEOREM ClaimsAreExclusive == Spec => []OneSetupAtATime
<1>1. IInv => OneSetupAtATime
  BY DEF IInv, ClaimHeld, OneSetupAtATime
<1>2. QED
  BY <1>1, Invariant, PTL

\* When every handler is done, the request that the row became a brand for is
\* approved, or was declined, unless a call failed or its claim was taken over.
THEOREM PromotionsClose == Spec => []PromotionClosesRequest
<1>1. IInv => PromotionClosesRequest
  BY DEF IInv, Promotion, PromotionClosesRequest, Promotes, Promoting, At
<1>2. QED
  BY <1>1, Invariant, PTL

\* The row becomes a brand once, and once more after each downgrade, whatever
\* domain checks and approvals race for it.
THEOREM PromotionsAlternate == Spec => []PromotedOnce
<1> USE DEF historyVars
<1>1. Init => PromotedOnce
  BY DEF Init, PromotedOnce
<1>2. ASSUME IInv, PromotedOnce, [Next]_vars PROVE PromotedOnce'
  <2>0. /\ row \in Rows /\ row.kind \in {"customer", "brand"}
        /\ promotions \in Nat /\ downgrades \in Nat
    BY <1>2 DEF IInv, TypeOK, Rows
  <2>a. ASSUME row'.kind = row.kind, UNCHANGED <<promotions, downgrades>> PROVE PromotedOnce'
    BY <1>2, <2>a DEF PromotedOnce
  <2>1. ASSUME NEW w \in Handlers, Flip(w) PROVE PromotedOnce'
    <3>1. CASE row.kind = "customer"
      <4>1. row'.kind = "brand" /\ promotions' = promotions + 1 /\ downgrades' = downgrades
        BY <2>0, <2>1, <3>1 DEF Flip, Rows
      <4>2. QED
        BY <1>2, <2>0, <3>1, <4>1 DEF PromotedOnce
    <3>2. CASE row.kind # "customer"
      BY <2>1, <2>a, <3>2 DEF Flip
    <3>3. QED
      BY <3>1, <3>2
  <2>2. ASSUME NEW w \in Handlers, DownFlip(w) PROVE PromotedOnce'
    <3>1. CASE row.kind = "brand"
      <4>1. row'.kind = "customer" /\ promotions' = promotions /\ downgrades' = downgrades + 1
        BY <2>2, <3>1 DEF DownFlip, NoClaim
      <4>2. QED
        BY <1>2, <2>0, <3>1, <4>1 DEF PromotedOnce
    <3>2. CASE row.kind # "brand"
      BY <2>2, <2>a, <3>2 DEF DownFlip
    <3>3. QED
      BY <3>1, <3>2
  <2>3. ASSUME NEW w \in Handlers, SetupWrite(w) PROVE PromotedOnce'
    <3>1. row'.kind = row.kind
      BY <2>0, <2>3 DEF SetupWrite, Claimed, Rows
    <3>2. QED
      BY <2>3, <2>a, <3>1 DEF SetupWrite
  <2>4. ASSUME NEW w \in Handlers, CancelWrite(w) PROVE PromotedOnce'
    <3>1. row'.kind = row.kind
      BY <2>4 DEF CancelWrite, NoClaim
    <3>2. QED
      BY <2>4, <2>a, <3>1 DEF CancelWrite
  <2>5. ASSUME NEW w \in Handlers, Verdict(w) PROVE PromotedOnce'
    <3>1. row'.kind = row.kind
      BY <2>0, <2>5 DEF Verdict, Rows
    <3>2. QED
      BY <2>5, <2>a, <3>1 DEF Verdict
  \* The other steps leave the row alone.
  <2>6. ASSUME UNCHANGED <<row, promotions, downgrades>> PROVE PromotedOnce'
    BY <2>6, <2>a
  <2>7. ASSUME NEW w \in Handlers, Begin(w) PROVE PromotedOnce'
    BY <2>6, <2>7 DEF Begin, SweepDomain, CheckNow, Downgrade, File, Decline, Claim, ClaimDomain
  <2>8. ASSUME NEW w \in Handlers, HandlerStep(w) PROVE PromotedOnce'
    BY <2>1, <2>2, <2>3, <2>4, <2>5, <2>6, <2>8
       DEF HandlerStep, Create, Applicant, SetupRead, Refuse, Await, Release, BecomeAdmin,
           FindOpen, Approve, Existing, DeclineWrite, CancelRead, Lookup, LiveDomain, Waiting,
           BecomeUser
  <2>9. QED
    BY <1>2, <2>6, <2>7, <2>8 DEF Next, vars, Publish, ClaimAges, CallFails, Crash
<1>3. QED
  BY <1>1, <1>2, Invariant, PTL DEF Spec

\* A domain is verified only when that very claim's records have been seen,
\* unless a check wrote over another claim.
THEOREM VerdictsAreEarned == Spec => []VerifiedIsProven
<1> USE DEF historyVars
<1>1. Init => VerifiedIsProven
  BY DEF Init, VerifiedIsProven
<1>2. ASSUME IInv, VerifiedIsProven, [Next]_vars PROVE VerifiedIsProven'
  <2>0. row \in Rows /\ \A w \in Handlers : Known(job[w])
    BY <1>2 DEF IInv, TypeOK, Sound
  <2>a. ASSUME row'.check = row.check \/ row'.check # "verified",
               row'.check = "verified" => row'.token = row.token,
               published \subseteq published', UNCHANGED overtaken
        PROVE  VerifiedIsProven'
    BY <1>2, <2>a DEF VerifiedIsProven
  <2>1. ASSUME NEW w \in Handlers, Flip(w) PROVE VerifiedIsProven'
    <3>1. row'.check = row.check /\ row'.token = row.token
      BY <2>0, <2>1 DEF Flip, Rows
    <3>2. QED
      BY <2>1, <2>a, <3>1 DEF Flip
  <2>2. ASSUME NEW w \in Handlers, DownFlip(w) PROVE VerifiedIsProven'
    <3>1. row' = row \/ row'.check = "none"
      BY <2>2 DEF DownFlip, NoClaim
    <3>2. QED
      BY <2>2, <2>a, <3>1 DEF DownFlip
  <2>3. ASSUME NEW w \in Handlers, SetupWrite(w) PROVE VerifiedIsProven'
    <3>1. \/ row'.check = row.check /\ row'.token = row.token
          \/ row'.check \in {"none", "pending"}
      BY <2>0, <2>3 DEF SetupWrite, Claimed, Rows
    <3>2. QED
      BY <2>3, <2>a, <3>1 DEF SetupWrite
  <2>4. ASSUME NEW w \in Handlers, CancelWrite(w) PROVE VerifiedIsProven'
    <3>1. row'.check = "none"
      BY <2>4 DEF CancelWrite, NoClaim
    <3>2. QED
      BY <2>4, <2>a, <3>1 DEF CancelWrite
  <2>5. ASSUME NEW w \in Handlers, Verdict(w) PROVE VerifiedIsProven'
    <3>1. /\ row'.check = (IF job[w].ok THEN "verified" ELSE "pending")
          /\ row'.token = row.token
          /\ overtaken' = (overtaken \/ job[w].token # row.token)
          /\ UNCHANGED published
      BY <2>0, <2>5 DEF Verdict, Rows
    <3>2. job[w].ok => job[w].token \in published
      BY <2>0, <2>5 DEF Verdict, At, Known
    <3>3. QED
      BY <3>1, <3>2 DEF VerifiedIsProven
  <2>6. ASSUME UNCHANGED <<row, published, overtaken>> PROVE VerifiedIsProven'
    BY <2>6, <2>a
  <2>7. ASSUME NEW w \in Handlers, Begin(w) PROVE VerifiedIsProven'
    BY <2>6, <2>7 DEF Begin, SweepDomain, CheckNow, Downgrade, File, Decline, Claim, ClaimDomain
  <2>8. ASSUME NEW w \in Handlers, HandlerStep(w) PROVE VerifiedIsProven'
    BY <2>1, <2>2, <2>3, <2>4, <2>5, <2>6, <2>8
       DEF HandlerStep, Create, Applicant, SetupRead, Refuse, Await, Release, BecomeAdmin,
           FindOpen, Approve, Existing, DeclineWrite, CancelRead, Lookup, LiveDomain, Waiting,
           BecomeUser
  <2>9. CASE Publish
    BY <2>9, <2>a DEF Publish
  <2>10. QED
    BY <1>2, <2>6, <2>7, <2>8, <2>9 DEF Next, vars, ClaimAges, CallFails, Crash
<1>3. QED
  BY <1>1, <1>2, Invariant, PTL DEF Spec

================================================================================
