--------------------------- MODULE PlanRenewalProofs ---------------------------
(***************************************************************************)
(* Theorems about PlanRenewal, for any number of handlers, any allowance   *)
(* and any calls.                                                          *)
(***************************************************************************)
EXTENDS PlanRenewal, FiniteSetTheorems, TLAPS

\* An exhausted plan is one claim waiting to be made.
Pending == IF Exhausted THEN 1 ELSE 0

\* OneClaimPerCall, with the claim that the present counter allows: the call
\* that exhausts a plan pays for its claim, and a grant never exhausts it.
ClaimsBacked == claims + Pending <= calls

\* Stripe answers a key once, whatever the answer is.
AnswersAgree == \A a, b \in answers : a.key = b.key => a = b

IInv == TypeOK /\ ClaimsBacked /\ AnswersAgree

--------------------------------------------------------------------------------
(* Types.                                                                  *)

Profiles == [status : Statuses, autoRenew : BOOLEAN, used : Nat, end : Nat]

LEMMA IdleType == Idle \in Jobs
BY DEF Idle, NoSub, Jobs, Snapshots, Steps, Statuses, Live

\* A handler's cell is replaced by a job.
LEMMA BecomeType ==
    ASSUME TypeOK, NEW w \in Workers, NEW r \in Jobs, Become(w, r)
    PROVE  job' \in [Workers -> Jobs]
BY DEF TypeOK, Become

LEMMA DoneType ==
    ASSUME TypeOK, NEW w \in Workers, Done(w)
    PROVE  job' \in [Workers -> Jobs]
BY IdleType, BecomeType DEF Done

LEMMA GotoType ==
    ASSUME TypeOK, NEW w \in Workers, NEW s \in Steps, Goto(w, s)
    PROVE  job' \in [Workers -> Jobs]
<1>1. job[w] \in Jobs
  BY DEF TypeOK
<1>2. [job[w] EXCEPT !.step = s] \in Jobs
  BY <1>1 DEF Jobs
<1>3. QED
  BY <1>2, BecomeType DEF Goto

LEMMA FlipNextType ==
    ASSUME TypeOK, NEW w \in Workers, FlipNext(w)
    PROVE  job' \in [Workers -> Jobs]
<1>1. [Idle EXCEPT !.step = "flip", !.kind = "renew"] \in Jobs
  BY IdleType DEF Jobs, Steps
<1>2. QED
  BY <1>1, BecomeType DEF FlipNext

LEMMA ReconciledType ==
    ASSUME TypeOK, NEW w \in Workers, NEW auto \in BOOLEAN, Reconciled(w, auto)
    PROVE  job' \in [Workers -> Jobs]
<1>1. job[w] \in Jobs
  BY DEF TypeOK
<1>2. [Idle EXCEPT !.step = "freshRead", !.kind = "renew", !.off = job[w].off] \in Jobs
  BY <1>1, IdleType DEF Jobs, Steps
<1>3. [Idle EXCEPT !.step = "stripeFetch", !.kind = "reactivate"] \in Jobs
  BY IdleType DEF Jobs, Steps
<1>4. QED
  BY <1>2, <1>3, BecomeType, DoneType DEF Reconciled

\* Stripe's charge keeps the subscription and the answers in shape.
LEMMA NewAnswerType ==
    ASSUME TypeOK, NEW key \in Nat, NEW a \in PossibleAnswers(key), NewAnswer(key, a)
    PROVE  /\ a \in Answers
           /\ sub' \in Snapshots
           /\ answers' \subseteq Answers
           /\ sent' \subseteq Snapshots
<1>1. sub \in Snapshots /\ sub.end \in Nat
  BY DEF TypeOK, Snapshots
<1>2. a \in Answers /\ a.end \in Nat
  BY <1>1 DEF PossibleAnswers, Answers
<1>3. sub' \in Snapshots
  BY <1>1, <1>2 DEF NewAnswer, Snapshots
<1>4. QED
  BY <1>2, <1>3 DEF NewAnswer, Announce, TypeOK

LEMMA AnsweredType ==
    ASSUME TypeOK, NEW w \in Workers, NEW a \in Answers, Answered(w, a)
    PROVE  job' \in [Workers -> Jobs]
<1>1. job[w] \in Jobs
  BY DEF TypeOK
<1>2. [Idle EXCEPT !.step = "grantRead", !.kind = "renew", !.over = job[w].over,
                   !.reset = TRUE, !.sub.end = a.end] \in Jobs
  BY <1>1, IdleType DEF Jobs, Steps, Snapshots, Answers
<1>3. QED
  BY <1>2, BecomeType, FlipNextType DEF Answered

\* What is carried into a new period leaves a minute of it.
LEMMA CarriedBounds ==
    ASSUME NEW r \in Jobs
    PROVE  CarriedOverage(r) \in 0..(Alloc - 1)
<1>1. Alloc \in Nat /\ Alloc > 0 /\ r.over \in Nat /\ r.used \in Nat
  BY RenewalAssumption DEF RenewalAssumption, Jobs
<1>2. QED
  BY <1>1 DEF CarriedOverage, LesserOf, GreaterOf

LEMMA InitType == Init => TypeOK
BY IdleType, RenewalAssumption
   DEF Init, TypeOK, Snapshots, Statuses, Live, RenewalAssumption

\* A fault leaves its handler somewhere.
LEMMA ErrorType ==
    ASSUME TypeOK, NEW w \in Workers, AfterError(w)
    PROVE  job' \in [Workers -> Jobs]
<1>1. job[w].auto \in BOOLEAN
  BY DEF TypeOK, Jobs
<1>2. Reconciled(w, job[w].auto) \/ Goto(w, "claim") \/ FlipNext(w) \/ Done(w)
  BY DEF AfterError
<1>3. QED
  BY <1>1, <1>2, ReconciledType, GotoType, FlipNextType, DoneType DEF Steps

\* The handlers of Next, one by one.
LEMMA HandlerType ==
    ASSUME TypeOK, NEW w \in Workers, HandlerStep(w)
    PROVE  TypeOK'
<1> USE DEF stripeVars, countVars, boundVars
<1>0. /\ job[w] \in Jobs
      /\ profile \in Profiles
      /\ sub \in Snapshots /\ sub.status \in Statuses /\ sub.end \in Nat /\ sub.cancel \in BOOLEAN
  BY DEF TypeOK, Profiles, Snapshots
\* A step that changes the job and the profile at most.
<1>a. ASSUME job' \in [Workers -> Jobs], profile' \in Profiles,
             UNCHANGED <<stripeVars, countVars, boundVars>>
      PROVE  TypeOK'
  BY <1>a DEF TypeOK, Profiles
<1>b. ASSUME job' \in [Workers -> Jobs], UNCHANGED <<stripeVars, profile, countVars, boundVars>>
      PROVE  TypeOK'
  BY <1>0, <1>a, <1>b
<1>1. CASE MeterRead(w)
  BY <1>1, <1>b, GotoType DEF MeterRead, Steps
<1>2. CASE MeterAdd(w)
  <2>1. [job[w] EXCEPT !.step = "profileRead", !.minutes = 0] \in Jobs
    BY <1>0 DEF Jobs, Steps
  <2>2. job' \in [Workers -> Jobs]
    BY <1>2, <2>1, BecomeType DEF MeterAdd
  <2>3. job[w].minutes \in Nat
    BY <1>0 DEF Jobs
  <2>4. QED
    BY <1>2, <2>2, <2>3 DEF TypeOK, MeterAdd
<1>3. CASE ProfileRead(w)
  <2>1. [Idle EXCEPT !.step = "portalFetch", !.kind = "reconcile", !.status = profile.status,
                     !.auto = profile.autoRenew, !.off = sub.cancel] \in Jobs
    BY <1>0, IdleType DEF Jobs, Steps, Profiles
  <2>2. QED
    BY <1>3, <1>b, <2>1, BecomeType, DoneType DEF ProfileRead
<1>4. CASE PortalFetch(w)
  <2>1. [job[w] EXCEPT !.step = "portalWrite", !.sub = sub] \in Jobs /\ job[w].auto \in BOOLEAN
    BY <1>0 DEF Jobs, Steps
  <2>2. QED
    BY <1>4, <1>b, <2>1, BecomeType, ReconciledType DEF PortalFetch
<1>5. CASE PortalWrite(w)
  <2>1. (~job[w].sub.cancel) \in BOOLEAN
    BY <1>0 DEF Jobs, Snapshots
  <2>2. job' \in [Workers -> Jobs]
    BY <1>5, <2>1, DoneType, ReconciledType DEF PortalWrite
  <2>3. profile' \in Profiles
    BY <1>0, <1>5, <2>1 DEF PortalWrite, Profiles, Statuses
  <2>4. QED
    BY <1>5, <1>a, <2>2, <2>3 DEF PortalWrite
<1>6. CASE FreshRead(w)
  <2>1. CASE profile.status # "active" \/ profile.used < Alloc
    BY <1>6, <1>b, <2>1, DoneType DEF FreshRead
  <2>2. CASE ~(profile.status # "active" \/ profile.used < Alloc)
    <3>1. profile.used - Alloc \in Nat
      BY <1>0, <2>2, RenewalAssumption DEF Profiles, RenewalAssumption
    <3>2. [job[w] EXCEPT !.step = "liveCheck", !.over = profile.used - Alloc] \in Jobs
      BY <1>0, <3>1 DEF Jobs, Steps
    <3>3. QED
      BY <1>6, <1>b, <2>2, <3>2, BecomeType DEF FreshRead
  <2>3. QED
    BY <2>1, <2>2
<1>7. CASE LiveCheck(w)
  BY <1>7, <1>b, GotoType DEF LiveCheck, Steps
<1>8. CASE AutoOff(w)
  BY <1>0, <1>8, <1>a, DoneType DEF AutoOff, Profiles
<1>9. CASE Claim(w)
  <2>1. job' \in [Workers -> Jobs]
    BY <1>9, DoneType, GotoType DEF Claim, Steps
  <2>2. profile' \in Profiles
    BY <1>0, <1>9 DEF Claim, Profiles
  <2>3. QED
    BY <1>9, <2>1, <2>2 DEF TypeOK, Claim, Profiles
<1>10. CASE Retrieve(w)
  <2>1. [job[w] EXCEPT !.step = "charge", !.sub.end = sub.end] \in Jobs
    BY <1>0 DEF Jobs, Steps, Snapshots
  <2>2. QED
    BY <1>10, <1>b, <2>1, BecomeType DEF Retrieve
<1>11. CASE Charge(w)
  <2> DEFINE key == job[w].sub.end
             past == {a \in answers : a.key = key}
  <2>1. key \in Nat
    BY <1>0 DEF Jobs, Snapshots
  <2>2. CASE (\E a \in past : Answered(w, a)) /\ UNCHANGED stripeVars
    <3>1. job' \in [Workers -> Jobs]
      BY <2>2, AnsweredType DEF TypeOK
    <3>2. QED
      BY <1>11, <1>b, <2>2, <3>1 DEF Charge
  <2>3. CASE FlipNext(w) /\ UNCHANGED stripeVars
    BY <1>11, <1>b, <2>3, FlipNextType DEF Charge
  <2>4. CASE \E a \in PossibleAnswers(key) : NewAnswer(key, a) /\ Answered(w, a)
    <3>1. PICK a \in PossibleAnswers(key) : NewAnswer(key, a) /\ Answered(w, a)
      BY <2>4
    <3>2. /\ a \in Answers /\ sub' \in Snapshots
          /\ answers' \subseteq Answers /\ sent' \subseteq Snapshots
      BY <2>1, <3>1, NewAnswerType
    <3>3. job' \in [Workers -> Jobs]
      BY <3>1, <3>2, AnsweredType
    <3>4. QED
      BY <1>11, <3>2, <3>3 DEF TypeOK, Charge
  <2>5. QED
    BY <1>11, <2>2, <2>3, <2>4 DEF Charge
<1>12. CASE GrantRead(w)
  <2>1. [job[w] EXCEPT !.step = "grantWrite", !.used = profile.used, !.end = profile.end] \in Jobs
    BY <1>0 DEF Jobs, Steps, Profiles
  <2>2. QED
    BY <1>12, <1>b, <2>1, BecomeType DEF GrantRead
<1>13. CASE GrantWrite(w)
  <2>1. CarriedOverage(job[w]) \in Nat /\ job[w].sub.end \in Nat
    BY <1>0, CarriedBounds, RenewalAssumption DEF Jobs, Snapshots, RenewalAssumption
  <2>2. profile' \in Profiles
    BY <1>0, <1>13, <2>1 DEF GrantWrite, Profiles
  <2>3. [Idle EXCEPT !.step = "settle", !.kind = "renew"] \in Jobs
    BY IdleType DEF Jobs, Steps
  <2>4. job' \in [Workers -> Jobs]
    BY <1>13, <2>3, BecomeType, DoneType DEF GrantWrite
  <2>5. QED
    BY <1>13, <1>a, <2>2, <2>4 DEF GrantWrite
<1>14. CASE Settle(w)
  BY <1>14, <1>b, DoneType DEF Settle
<1>15. CASE Flip(w)
  BY <1>0, <1>15, <1>a, DoneType DEF Flip, Profiles, Statuses, Live
<1>16. CASE StripeFetch(w)
  <2>1. \A s \in {"activate", "mirror"} : [job[w] EXCEPT !.sub = sub, !.step = s] \in Jobs
    BY <1>0 DEF Jobs, Steps
  <2>2. QED
    BY <1>16, <1>b, <2>1, BecomeType DEF StripeFetch
<1>17. CASE Activate(w)
  <2>1. [job[w] EXCEPT !.step = "grantRead", !.reset = TRUE] \in Jobs
    BY <1>0 DEF Jobs, Steps
  <2>2. QED
    BY <1>0, <1>17, <1>a, <2>1, BecomeType DEF Activate, Profiles, Statuses, Live
<1>18. CASE Mirror(w)
  BY <1>0, <1>18, <1>a, DoneType DEF Mirror, Profiles, Jobs, Snapshots
<1>19. CASE HookRead(w)
  <2>1. \A b \in BOOLEAN : [job[w] EXCEPT !.step = "hookWrite", !.reset = b] \in Jobs
    BY <1>0 DEF Jobs, Steps
  <2>2. QED
    BY <1>19, <1>b, <2>1, BecomeType DEF HookRead
<1>20. CASE HookWrite(w)
  <2>1. job' \in [Workers -> Jobs]
    BY <1>20, GotoType, DoneType DEF HookWrite, Steps
  <2>2. profile' \in Profiles
    BY <1>0, <1>20 DEF HookWrite, Profiles, Jobs, Snapshots
  <2>3. QED
    BY <1>20, <1>a, <2>1, <2>2 DEF HookWrite
<1>21. CASE ToggleWrite(w)
  BY <1>0, <1>21, <1>a, DoneType DEF ToggleWrite, Profiles, Jobs
<1>22. QED
  BY <1>1, <1>2, <1>3, <1>4, <1>5, <1>6, <1>7, <1>8, <1>9, <1>10, <1>11, <1>12, <1>13,
     <1>14, <1>15, <1>16, <1>17, <1>18, <1>19, <1>20, <1>21 DEF HandlerStep

LEMMA NextType == TypeOK /\ [Next]_vars => TypeOK'
<1> SUFFICES ASSUME TypeOK, [Next]_vars
             PROVE  TypeOK'
  OBVIOUS
<1> USE DEF stripeVars, countVars, boundVars
<1>0. /\ RenewalAssumption
      /\ sub \in Snapshots
      /\ \A w \in Workers : job[w] \in Jobs
  BY RenewalAssumption DEF TypeOK
<1>1. CASE PeriodEnds
  <2> DEFINE end == IF sub.cancel THEN sub.end ELSE sub.end + 1
  <2>a. PICK s \in Statuses : sub' = [sub EXCEPT !.status = s, !.end = end]
    BY <1>1 DEF PeriodEnds
  <2>b. end \in Nat
    BY <1>0 DEF Snapshots
  <2> HIDE DEF end
  <2>1. sub' \in Snapshots
    BY <1>0, <2>a, <2>b DEF Snapshots
  <2>2. QED
    BY <1>0, <1>1, <2>1 DEF TypeOK, PeriodEnds, Announce, RenewalAssumption
<1>2. CASE DunningEnds
  BY <1>0, <1>2 DEF TypeOK, DunningEnds, Announce, Snapshots, Statuses, Live
<1>3. ASSUME NEW cancel \in BOOLEAN, SetCancel(cancel)
      PROVE  /\ sub' \in Snapshots /\ sent' \subseteq Snapshots
             /\ changes' \in 0..MaxChanges
             /\ StillOff \in [Workers -> Jobs]
  <2>1. sub' \in Snapshots /\ sub'.cancel \in BOOLEAN
    BY <1>0, <1>3 DEF SetCancel, Snapshots
  <2>2. \A w \in Workers : [job[w] EXCEPT !.off = @ /\ sub'.cancel] \in Jobs
    BY <1>0, <2>1 DEF Jobs
  <2>3. StillOff \in [Workers -> Jobs]
    BY <2>2 DEF StillOff
  <2>4. sent' \subseteq Snapshots /\ changes' \in 0..MaxChanges
    BY <1>0, <1>3, <2>1 DEF TypeOK, SetCancel, Announce, RenewalAssumption
  <2>5. QED
    BY <2>1, <2>3, <2>4
<1>4. ASSUME NEW cancel \in BOOLEAN, PortalToggle(cancel)
      PROVE  TypeOK'
  BY <1>3, <1>4 DEF TypeOK, PortalToggle
<1>5. ASSUME NEW cancel \in BOOLEAN, NEW w \in Requests, Toggle(w, ~cancel)
      PROVE  TypeOK'
  <2>1. (~cancel) \in BOOLEAN /\ (~~cancel) \in BOOLEAN
    OBVIOUS
  <2>2. /\ sub' \in Snapshots /\ sent' \subseteq Snapshots
        /\ changes' \in 0..MaxChanges
        /\ StillOff \in [Workers -> Jobs]
    BY <1>3, <1>5, <2>1 DEF Toggle
  <2>3. [Idle EXCEPT !.step = "toggleWrite", !.kind = "toggle", !.auto = ~cancel] \in Jobs
    BY <2>1, IdleType DEF Jobs, Steps
  <2>4. job' \in [Workers -> Jobs]
    BY <1>5, <2>2, <2>3 DEF Toggle
  <2>5. QED
    BY <1>5, <2>2, <2>4 DEF TypeOK, Toggle
<1>6. ASSUME NEW w \in Requests, Load(w)
      PROVE  TypeOK'
  <2>1. [Idle EXCEPT !.step = "profileRead", !.kind = "reconcile"] \in Jobs
    BY IdleType DEF Jobs, Steps
  <2>2. job' \in [Workers -> Jobs]
    BY <1>6, <2>1, BecomeType DEF Load, Workers
  <2>3. QED
    BY <1>6, <2>2 DEF TypeOK, Load
<1>7. ASSUME NEW w \in Requests, NEW n \in CallMinutes, CallEnds(w, n)
      PROVE  TypeOK'
  <2>1. [Idle EXCEPT !.step = "meterRead", !.kind = "reconcile", !.minutes = n] \in Jobs
    BY <1>0, IdleType DEF Jobs, Steps, RenewalAssumption
  <2>2. job' \in [Workers -> Jobs]
    BY <1>7, <2>1, BecomeType DEF CallEnds, Workers
  <2>3. QED
    BY <1>7, <2>2 DEF TypeOK, CallEnds
<1>8. ASSUME NEW w \in Hooks, NEW e \in sent, Deliver(w, e)
      PROVE  TypeOK'
  <2>1. [Idle EXCEPT !.step = "hookRead", !.kind = "hook", !.sub = e] \in Jobs
    BY IdleType DEF TypeOK, Jobs, Steps
  <2>2. job' \in [Workers -> Jobs]
    BY <1>8, <2>1, BecomeType DEF Deliver, Workers
  <2>3. QED
    BY <1>8, <2>2 DEF TypeOK, Deliver
<1>9. ASSUME NEW w \in Workers, CallFails(w)
      PROVE  TypeOK'
  <2>1. job' \in [Workers -> Jobs]
    BY <1>9, ErrorType DEF CallFails
  <2>2. QED
    BY <1>0, <1>9, <2>1 DEF TypeOK, CallFails, RenewalAssumption
<1>10. ASSUME NEW w \in Workers, AnswerLost(w)
       PROVE  TypeOK'
  <2>1. job[w].sub.end \in Nat
    BY <1>0 DEF Jobs, Snapshots
  <2>2. /\ sub' \in Snapshots /\ answers' \subseteq Answers /\ sent' \subseteq Snapshots
    BY <1>10, <2>1, NewAnswerType DEF AnswerLost
  <2>3. job' \in [Workers -> Jobs]
    BY <1>10, FlipNextType DEF AnswerLost
  <2>4. QED
    BY <1>0, <1>10, <2>2, <2>3 DEF TypeOK, AnswerLost, RenewalAssumption
<1>11. ASSUME NEW w \in Workers, Crash(w)
       PROVE  TypeOK'
  <2>1. job' \in [Workers -> Jobs]
    BY <1>11, DoneType DEF Crash
  <2>2. QED
    BY <1>0, <1>11, <2>1 DEF TypeOK, Crash, RenewalAssumption
<1>12. CASE UNCHANGED vars
  BY <1>12 DEF TypeOK, vars
<1>13. QED
  BY <1>1, <1>2, <1>4, <1>5, <1>6, <1>7, <1>8, <1>9, <1>10, <1>11, <1>12, HandlerType
     DEF Next, Customer, Request

--------------------------------------------------------------------------------
(* Claims are backed by calls.                                             *)

\* Only three steps touch the counter: a call that is recorded, a claim, and
\* a grant.
LEMMA CounterSteps ==
    ASSUME TypeOK, [Next]_vars
    PROVE  \/ \E w \in Workers : MeterAdd(w) \/ Claim(w) \/ GrantWrite(w)
           \/ UNCHANGED <<profile.used, claims, calls>>
<1> USE DEF stripeVars, countVars, boundVars
<1>1. ASSUME NEW w \in Workers, HandlerStep(w), ~(MeterAdd(w) \/ Claim(w) \/ GrantWrite(w))
      PROVE  UNCHANGED <<profile.used, claims, calls>>
  <2>1. profile \in Profiles
    BY DEF TypeOK, Profiles
  <2>2. CASE PortalWrite(w) \/ AutoOff(w) \/ Flip(w) \/ Activate(w) \/ Mirror(w)
                \/ HookWrite(w) \/ ToggleWrite(w)
    BY <2>1, <2>2
       DEF Profiles, PortalWrite, AutoOff, Flip, Activate, Mirror, HookWrite, ToggleWrite
  <2>3. CASE MeterRead(w) \/ ProfileRead(w) \/ PortalFetch(w) \/ FreshRead(w) \/ LiveCheck(w)
                \/ Retrieve(w) \/ Charge(w) \/ GrantRead(w) \/ Settle(w) \/ StripeFetch(w)
                \/ HookRead(w)
    BY <2>3, Zenon
       DEF MeterRead, ProfileRead, PortalFetch, FreshRead, LiveCheck, Retrieve, Charge,
           GrantRead, Settle, StripeFetch, HookRead
  <2>4. QED
    BY <1>1, <2>2, <2>3 DEF HandlerStep
<1>2. CASE ~\E w \in Workers : HandlerStep(w)
  BY <1>2
     DEF Next, PeriodEnds, DunningEnds, Customer, PortalToggle, Toggle, Request, Load, CallEnds,
         Deliver, CallFails, AnswerLost, Crash, vars
<1>3. QED
  BY <1>1, <1>2

LEMMA NextBacked == TypeOK /\ ClaimsBacked /\ [Next]_vars => ClaimsBacked'
<1> SUFFICES ASSUME TypeOK, ClaimsBacked, [Next]_vars
             PROVE  ClaimsBacked'
  OBVIOUS
<1> USE DEF ClaimsBacked, Pending, Exhausted
<1>0. /\ profile \in Profiles /\ profile.used \in Nat
      /\ claims \in Nat /\ calls \in Nat /\ Alloc \in Nat /\ Alloc > 0
  BY RenewalAssumption DEF TypeOK, Profiles, RenewalAssumption
<1>1. ASSUME NEW w \in Workers, MeterAdd(w)
      PROVE  ClaimsBacked'
  <2>1. job[w].minutes \in Nat
    BY DEF TypeOK, Jobs
  <2>2. calls' = calls + 1 /\ claims' = claims
    BY <1>1 DEF MeterAdd
  <2>3. Pending' \in {0, 1} /\ Pending \in {0, 1}
    OBVIOUS
  <2>4. QED
    BY <1>0, <2>2, <2>3
<1>2. ASSUME NEW w \in Workers, Claim(w)
      PROVE  ClaimsBacked'
  <2>1. CASE profile.used >= Alloc
    <3>1. profile'.used = 0 /\ claims' = claims + 1 /\ calls' = calls
      BY <1>0, <1>2, <2>1 DEF Claim, Profiles
    <3>2. QED
      BY <1>0, <2>1, <3>1
  <2>2. CASE ~(profile.used >= Alloc)
    BY <1>2, <2>2 DEF Claim
  <2>3. QED
    BY <2>1, <2>2
<1>3. ASSUME NEW w \in Workers, GrantWrite(w)
      PROVE  ClaimsBacked'
  <2>1. CarriedOverage(job[w]) \in 0..(Alloc - 1)
    BY CarriedBounds DEF TypeOK
  <2>2. /\ claims' = claims /\ calls' = calls
        /\ profile'.used = IF IsNewPeriod(job[w]) THEN CarriedOverage(job[w]) ELSE profile.used
    BY <1>0, <1>3 DEF GrantWrite, countVars, Profiles
  <2>3. Pending' <= Pending
    BY <1>0, <2>1, <2>2
  <2>4. Pending' \in {0, 1} /\ Pending \in {0, 1}
    OBVIOUS
  <2>5. QED
    BY <1>0, <2>2, <2>3, <2>4
<1>4. CASE UNCHANGED <<profile.used, claims, calls>>
  BY <1>4
<1>5. QED
  BY <1>1, <1>2, <1>3, <1>4, CounterSteps

--------------------------------------------------------------------------------
(* A key is answered once.                                                 *)

LEMMA NextAgree == TypeOK /\ AnswersAgree /\ [Next]_vars => AnswersAgree'
<1> SUFFICES ASSUME TypeOK, AnswersAgree, [Next]_vars
             PROVE  AnswersAgree'
  OBVIOUS
<1> USE DEF stripeVars, countVars, boundVars
<1>1. ASSUME NEW key, NEW a \in PossibleAnswers(key), NewAnswer(key, a),
             \A b \in answers : b.key # key
      PROVE  AnswersAgree'
  <2>1. a.key = key /\ answers' = answers \cup {a}
    BY <1>1 DEF NewAnswer, PossibleAnswers
  <2>2. QED
    BY <1>1, <2>1 DEF AnswersAgree
<1>2. ASSUME NEW w \in Workers, Charge(w)
      PROVE  AnswersAgree'
  <2>1. CASE UNCHANGED answers
    BY <2>1 DEF AnswersAgree
  <2>2. CASE ~UNCHANGED answers
    <3>1. PICK a \in PossibleAnswers(job[w].sub.end) :
              NewAnswer(job[w].sub.end, a) /\ \A b \in answers : b.key # job[w].sub.end
      BY <1>2, <2>2 DEF Charge
    <3>2. QED
      BY <1>1, <3>1
  <2>3. QED
    BY <2>1, <2>2
<1>3. ASSUME NEW w \in Workers, AnswerLost(w)
      PROVE  AnswersAgree'
  BY <1>1, <1>3 DEF AnswerLost
<1>4. CASE UNCHANGED answers
  BY <1>4 DEF AnswersAgree
<1>5. QED
  BY <1>2, <1>3, <1>4, Zenon
     DEF Next, PeriodEnds, DunningEnds, Customer, PortalToggle, Toggle, Request, Load, CallEnds,
         Deliver, CallFails, Crash, HandlerStep, MeterRead, MeterAdd, ProfileRead, PortalFetch,
         PortalWrite, FreshRead, LiveCheck, AutoOff, Claim, Retrieve, GrantRead, GrantWrite,
         Settle, Flip, StripeFetch, Activate, Mirror, HookRead, HookWrite, ToggleWrite, vars

--------------------------------------------------------------------------------
(* A cancelled renewal is not charged.                                     *)

\* Where a handler of a renewal that is off may be: it has not claimed the
\* allowance, since the live check stops it.
BeforeClaim == {"portalFetch", "portalWrite", "freshRead", "liveCheck", "autoOff"}

\* Off is never stale: Stripe has the renewal cancelled now.  Only a live
\* check that failed lets such a handler go on.
OffFits(w) == job[w].off => sub.cancel /\ (faults = 0 => job[w].step \in BeforeClaim)

OffInv == \A w \in Workers : OffFits(w)

\* One cell changes, and Stripe's flag does not.
LEMMA OffCell ==
    ASSUME TypeOK, OffInv, NEW w \in Workers, NEW r, Become(w, r),
           sub'.cancel = sub.cancel, faults' = 0 => faults = 0,
           r.off => sub.cancel /\ (faults' = 0 => r.step \in BeforeClaim)
    PROVE  OffInv'
<1>1. job'[w] = r /\ \A v \in Workers : v # w => job'[v] = job[v]
  BY DEF TypeOK, Become
<1>2. OffFits(w)'
  BY <1>1 DEF OffFits
<1>3. \A v \in Workers : v # w => OffFits(v)'
  BY <1>1 DEF OffInv, OffFits
<1>4. QED
  BY <1>2, <1>3 DEF OffInv

\* A handler that forgets, or keeps, what it knew of the cancellation.
LEMMA OffForgotten ==
    ASSUME TypeOK, OffInv, NEW w \in Workers, NEW r, Become(w, r), ~r.off,
           sub'.cancel = sub.cancel, faults' = 0 => faults = 0
    PROVE  OffInv'
BY OffCell

LEMMA OffKept ==
    ASSUME TypeOK, OffInv, NEW w \in Workers, NEW r, Become(w, r), r.off = job[w].off,
           job[w].step \in BeforeClaim => r.step \in BeforeClaim,
           sub'.cancel = sub.cancel, faults' = 0 => faults = 0
    PROVE  OffInv'
<1>1. r.off => sub.cancel /\ (faults' = 0 => r.step \in BeforeClaim)
  BY DEF OffInv, OffFits
<1>2. QED
  BY <1>1, OffCell

LEMMA OffDone ==
    ASSUME TypeOK, OffInv, NEW w \in Workers, Done(w) \/ FlipNext(w),
           sub'.cancel = sub.cancel, faults' = 0 => faults = 0
    PROVE  OffInv'
<1>1. ~Idle.off /\ ~[Idle EXCEPT !.step = "flip", !.kind = "renew"].off
  BY DEF Idle
<1>2. QED
  BY <1>1, OffForgotten DEF Done, FlipNext

\* The portal sync goes on to the fresh read, which is before the claim.
LEMMA OffReconciled ==
    ASSUME TypeOK, OffInv, NEW w \in Workers, NEW auto, Reconciled(w, auto),
           job[w].step \in BeforeClaim,
           sub'.cancel = sub.cancel, faults' = 0 => faults = 0
    PROVE  OffInv'
<1> DEFINE fresh == [Idle EXCEPT !.step = "freshRead", !.kind = "renew", !.off = job[w].off]
           fetch == [Idle EXCEPT !.step = "stripeFetch", !.kind = "reactivate"]
<1>1. CASE Done(w)
  BY <1>1, OffDone
<1>2. CASE Become(w, fresh)
  <2>1. fresh.off = job[w].off /\ fresh.step \in BeforeClaim
    BY DEF Idle, BeforeClaim
  <2>2. QED
    BY <1>2, <2>1, OffKept
<1>3. CASE Become(w, fetch)
  <2>1. ~fetch.off
    BY DEF Idle
  <2>2. QED
    BY <1>3, <2>1, OffForgotten
<1>4. QED
  BY <1>1, <1>2, <1>3 DEF Reconciled

\* Stripe answers a handler: the flag stays.
LEMMA AnswerKeepsCancel ==
    ASSUME TypeOK, NEW key, NEW a, NewAnswer(key, a)
    PROVE  sub'.cancel = sub.cancel
BY DEF TypeOK, NewAnswer, Snapshots

LEMMA OffAnswered ==
    ASSUME TypeOK, OffInv, NEW w \in Workers, NEW a, Answered(w, a),
           sub'.cancel = sub.cancel, faults' = 0 => faults = 0
    PROVE  OffInv'
<1> DEFINE r == [Idle EXCEPT !.step = "grantRead", !.kind = "renew", !.over = job[w].over,
                             !.reset = TRUE, !.sub.end = a.end]
<1>1. ~r.off
  BY DEF Idle
<1>2. QED
  BY <1>1, OffForgotten, OffDone DEF Answered

\* A step that keeps the cell but for its place, and what it has read.
LEMMA OffHandler ==
    ASSUME TypeOK, OffInv, NEW w \in Workers, HandlerStep(w)
    PROVE  OffInv'
<1> USE DEF stripeVars, countVars, boundVars
<1>0. job[w] \in Jobs
  BY DEF TypeOK
<1>1. CASE MeterRead(w) \/ MeterAdd(w)
  <2>1. \A s \in Steps : /\ [job[w] EXCEPT !.step = s].off = job[w].off
                         /\ [job[w] EXCEPT !.step = s, !.minutes = 0].off = job[w].off
    BY <1>0 DEF Jobs
  <2>2. job[w].step \notin BeforeClaim
    BY <1>1 DEF MeterRead, MeterAdd, At, BeforeClaim
  <2>3. QED
    BY <1>1, <2>1, <2>2, OffKept DEF MeterRead, MeterAdd, Goto, Steps
<1>2. CASE ProfileRead(w)
  <2> DEFINE r == [Idle EXCEPT !.step = "portalFetch", !.kind = "reconcile",
                               !.status = profile.status, !.auto = profile.autoRenew,
                               !.off = sub.cancel]
  <2>1. r.off = sub.cancel /\ r.step \in BeforeClaim
    BY DEF Idle, BeforeClaim
  <2>2. QED
    BY <1>2, <2>1, OffCell, OffDone DEF ProfileRead
<1>3. CASE PortalFetch(w) \/ PortalWrite(w)
  <2>1. job[w].step \in BeforeClaim
    BY <1>3 DEF PortalFetch, PortalWrite, At, BeforeClaim
  <2> DEFINE r == [job[w] EXCEPT !.step = "portalWrite", !.sub = sub]
  <2>2. r.off = job[w].off /\ r.step \in BeforeClaim
    BY <1>0 DEF Jobs, BeforeClaim
  <2>3. QED
    BY <1>3, <2>1, <2>2, OffKept, OffDone, OffReconciled DEF PortalFetch, PortalWrite
<1>4. CASE FreshRead(w)
  <2> DEFINE r == [job[w] EXCEPT !.step = "liveCheck", !.over = profile.used - Alloc]
  <2>1. r.off = job[w].off /\ r.step \in BeforeClaim
    BY <1>0 DEF Jobs, BeforeClaim
  <2>2. QED
    BY <1>4, <2>1, OffKept, OffDone DEF FreshRead
\* The live check: a handler that is off finds the renewal off.
<1>5. CASE LiveCheck(w)
  <2> DEFINE s == IF sub.status = "active" /\ ~sub.cancel THEN "claim" ELSE "autoOff"
             r == [job[w] EXCEPT !.step = s]
  <2>1. r.off = job[w].off /\ r.step = s
    BY <1>0 DEF Jobs
  <2>2. r.off => sub.cancel /\ r.step \in BeforeClaim
    BY <2>1 DEF OffInv, OffFits, BeforeClaim
  <2>3. QED
    BY <1>5, <2>2, OffCell DEF LiveCheck, Goto
<1>6. CASE AutoOff(w) \/ Settle(w) \/ Flip(w) \/ Mirror(w) \/ ToggleWrite(w)
  BY <1>6, OffDone DEF AutoOff, Settle, Flip, Mirror, ToggleWrite
<1>7. CASE Claim(w) \/ HookWrite(w)
  <2>1. job[w].step \notin BeforeClaim
    BY <1>7 DEF Claim, HookWrite, At, BeforeClaim
  <2>2. \A s \in Steps : [job[w] EXCEPT !.step = s].off = job[w].off
    BY <1>0 DEF Jobs
  <2>3. QED
    BY <1>7, <2>1, <2>2, OffKept, OffDone DEF Claim, HookWrite, Goto, Steps
<1>8. CASE Retrieve(w) \/ GrantRead(w) \/ StripeFetch(w) \/ Activate(w) \/ HookRead(w)
  <2>1. job[w].step \notin BeforeClaim
    BY <1>8 DEF Retrieve, GrantRead, StripeFetch, Activate, HookRead, At, BeforeClaim
  <2>2. \E r : Become(w, r) /\ r.off = job[w].off
    <3> DEFINE charge == [job[w] EXCEPT !.step = "charge", !.sub.end = sub.end]
               write == [job[w] EXCEPT !.step = "grantWrite", !.used = profile.used,
                                       !.end = profile.end]
               fetched(s) == [job[w] EXCEPT !.sub = sub, !.step = s]
               grant == [job[w] EXCEPT !.step = "grantRead", !.reset = TRUE]
               hooked(b) == [job[w] EXCEPT !.step = "hookWrite", !.reset = b]
    <3>1. /\ charge.off = job[w].off /\ write.off = job[w].off /\ grant.off = job[w].off
          /\ \A s : fetched(s).off = job[w].off
          /\ \A b : hooked(b).off = job[w].off
      BY <1>0 DEF Jobs
    <3>2. \/ Become(w, charge) \/ Become(w, write) \/ Become(w, grant)
          \/ (\E s : Become(w, fetched(s))) \/ (\E b : Become(w, hooked(b)))
      BY <1>8 DEF Retrieve, GrantRead, StripeFetch, Activate, HookRead
    <3> HIDE DEF charge, write, grant, fetched, hooked
    <3>3. QED
      BY <3>1, <3>2
  <2>3. sub' = sub /\ faults' = faults
    BY <1>8 DEF Retrieve, GrantRead, StripeFetch, Activate, HookRead
  <2>4. QED
    BY <2>1, <2>2, <2>3, OffKept
<1>9. CASE Charge(w)
  <2>1. faults' = faults /\ (UNCHANGED stripeVars \/ \E key, a : NewAnswer(key, a))
    BY <1>9 DEF Charge
  <2>2. sub'.cancel = sub.cancel
    BY <2>1, AnswerKeepsCancel
  <2>3. FlipNext(w) \/ \E a : Answered(w, a)
    BY <1>9 DEF Charge
  <2>4. QED
    BY <2>1, <2>2, <2>3, OffAnswered, OffDone
<1>10. CASE GrantWrite(w)
  <2>1. ~[Idle EXCEPT !.step = "settle", !.kind = "renew"].off
    BY DEF Idle
  <2>2. QED
    BY <1>10, <2>1, OffForgotten, OffDone DEF GrantWrite
<1>11. QED
  BY <1>1, <1>2, <1>3, <1>4, <1>5, <1>6, <1>7, <1>8, <1>9, <1>10 DEF HandlerStep

LEMMA NextOff == TypeOK /\ OffInv /\ [Next]_vars => OffInv'
<1> SUFFICES ASSUME TypeOK, OffInv, [Next]_vars
             PROVE  OffInv'
  OBVIOUS
<1> USE DEF stripeVars, countVars, boundVars
<1>0. faults \in Nat /\ sub \in Snapshots /\ \A w \in Workers : job[w] \in Jobs
  BY RenewalAssumption DEF TypeOK, RenewalAssumption
<1>1. CASE PeriodEnds \/ DunningEnds
  <2>1. sub'.cancel = sub.cancel /\ UNCHANGED <<job, faults>>
    BY <1>0, <1>1 DEF PeriodEnds, DunningEnds, Snapshots
  <2>2. QED
    BY <2>1 DEF OffInv, OffFits
\* The flag is turned: whoever worked under a cancellation no longer does.
<1>2. ASSUME NEW w \in Workers
      PROVE  /\ StillOff[w].step = job[w].step
             /\ StillOff[w].off => job[w].off /\ sub'.cancel
  <2>1. StillOff[w] = [job[w] EXCEPT !.off = @ /\ sub'.cancel]
    BY DEF StillOff
  <2>2. QED
    BY <1>0, <2>1 DEF Jobs
<1>3. ASSUME NEW cancel \in BOOLEAN, PortalToggle(cancel)
      PROVE  OffInv'
  <2>1. job' = StillOff /\ faults' = faults
    BY <1>3 DEF PortalToggle
  <2>2. QED
    BY <1>2, <2>1 DEF OffInv, OffFits
<1>4. ASSUME NEW cancel \in BOOLEAN, NEW v \in Requests, Toggle(v, ~cancel)
      PROVE  OffInv'
  <2> DEFINE r == [Idle EXCEPT !.step = "toggleWrite", !.kind = "toggle", !.auto = ~cancel]
  <2>1. job' = [StillOff EXCEPT ![v] = r] /\ faults' = faults
    BY <1>4 DEF Toggle
  <2>2. ~r.off
    BY DEF Idle
  <2>3. DOMAIN StillOff = Workers
    BY DEF StillOff
  <2>4. \A w \in Workers : job'[w] = IF w = v THEN r ELSE StillOff[w]
    BY <2>1, <2>3
  <2> HIDE DEF r
  <2>5. QED
    BY <1>2, <2>1, <2>2, <2>4 DEF OffInv, OffFits
<1>5. ASSUME NEW w \in Workers,
             (\E e \in sent : Deliver(w, e)) \/ Load(w) \/ \E n \in CallMinutes : CallEnds(w, n)
      PROVE  OffInv'
  <2> DEFINE hook(e) == [Idle EXCEPT !.step = "hookRead", !.kind = "hook", !.sub = e]
             load == [Idle EXCEPT !.step = "profileRead", !.kind = "reconcile"]
             call(n) == [Idle EXCEPT !.step = "meterRead", !.kind = "reconcile", !.minutes = n]
  <2>a. (\A e : ~hook(e).off) /\ ~load.off /\ (\A n : ~call(n).off)
    BY DEF Idle
  <2>b. (\E e : Become(w, hook(e))) \/ Become(w, load) \/ \E n : Become(w, call(n))
    BY <1>5 DEF Deliver, Load, CallEnds
  <2> HIDE DEF hook, load, call
  <2>1. \E r : Become(w, r) /\ ~r.off
    BY <2>a, <2>b
  <2>2. sub' = sub /\ faults' = faults
    BY <1>5 DEF Deliver, Load, CallEnds
  <2>3. QED
    BY <2>1, <2>2, OffForgotten
<1>6. ASSUME NEW w \in Workers, CallFails(w)
      PROVE  OffInv'
  <2>1. faults' = faults + 1 /\ sub' = sub
    BY <1>6 DEF CallFails
  <2>2. faults' # 0
    BY <1>0, <2>1
  <2>3. CASE job[w].step \in {"portalFetch", "portalWrite"} /\ Reconciled(w, job[w].auto)
    BY <2>1, <2>2, <2>3, OffReconciled DEF BeforeClaim
  <2>4. CASE Goto(w, "claim")
    <3>1. [job[w] EXCEPT !.step = "claim"].off = job[w].off
      BY <1>0 DEF Jobs
    <3>2. job[w].off => sub.cancel
      BY DEF OffInv, OffFits
    <3>3. QED
      BY <2>1, <2>2, <2>4, <3>1, <3>2, OffCell DEF Goto
  <2>5. CASE Done(w) \/ FlipNext(w)
    BY <2>1, <2>2, <2>5, OffDone
  <2>6. QED
    BY <1>6, <2>3, <2>4, <2>5 DEF CallFails, AfterError
<1>7. ASSUME NEW w \in Workers, AnswerLost(w) \/ Crash(w)
      PROVE  OffInv'
  <2>1. faults' # 0
    BY <1>0, <1>7 DEF AnswerLost, Crash
  <2>2. sub'.cancel = sub.cancel
    BY <1>7, AnswerKeepsCancel DEF AnswerLost, Crash
  <2>3. QED
    BY <1>7, <2>1, <2>2, OffDone DEF AnswerLost, Crash
<1>8. CASE UNCHANGED vars
  BY <1>8 DEF OffInv, OffFits, vars
<1>9. QED
  BY <1>1, <1>3, <1>4, <1>5, <1>6, <1>7, <1>8, OffHandler
     DEF Next, Customer, Request, Workers

--------------------------------------------------------------------------------
(* Early renewal as promised.  A claim is used by one charge at most: what  *)
(* was charged, and the handlers that still hold a claim, are no more than  *)
(* the claims.                                                              *)

Claiming == {"retrieve", "charge"}

Claimants == {w \in Workers : job[w].step \in Claiming}

ClaimsCover ==
    /\ IsFiniteSet(Claimants)
    /\ IsFiniteSet(Charged)
    /\ Cardinality(Charged) + Cardinality(Claimants) <= claims

\* The key of a charge is a period end that the subscription has reached.
KeysReached == \A w \in Workers : At(w, "charge") => job[w].sub.end <= sub.end

PlanInv == ClaimsCover /\ KeysReached

\* The handler is past its charge, or not on its way to one.
Leaves(w) == job'[w].step \notin Claiming /\ \A v \in Workers \ {w} : job'[v] = job[v]

LEMMA BecomeLeaves ==
    ASSUME TypeOK, NEW w \in Workers, NEW r, Become(w, r), r.step \notin Claiming
    PROVE  Leaves(w)
BY DEF TypeOK, Become, Leaves

LEMMA DoneLeaves ==
    ASSUME TypeOK, NEW w \in Workers, Done(w) \/ FlipNext(w)
    PROVE  Leaves(w)
<1>1. Idle.step \notin Claiming /\ [Idle EXCEPT !.step = "flip", !.kind = "renew"].step \notin Claiming
  BY DEF Idle, Claiming
<1>2. QED
  BY <1>1, BecomeLeaves DEF Done, FlipNext

LEMMA GotoLeaves ==
    ASSUME TypeOK, NEW w \in Workers, NEW s, s \notin Claiming, Goto(w, s)
    PROVE  Leaves(w)
<1>1. [job[w] EXCEPT !.step = s].step = s
  BY DEF TypeOK, Jobs
<1>2. QED
  BY <1>1, BecomeLeaves DEF Goto

LEMMA ReconciledLeaves ==
    ASSUME TypeOK, NEW w \in Workers, NEW auto, Reconciled(w, auto)
    PROVE  Leaves(w)
<1>1. /\ [Idle EXCEPT !.step = "freshRead", !.kind = "renew", !.off = job[w].off].step
            \notin Claiming
      /\ [Idle EXCEPT !.step = "stripeFetch", !.kind = "reactivate"].step \notin Claiming
  BY DEF Idle, Claiming
<1>2. QED
  BY <1>1, BecomeLeaves, DoneLeaves DEF Reconciled

LEMMA AnsweredLeaves ==
    ASSUME TypeOK, NEW w \in Workers, NEW a, Answered(w, a)
    PROVE  Leaves(w)
<1>1. [Idle EXCEPT !.step = "grantRead", !.kind = "renew", !.over = job[w].over,
                   !.reset = TRUE, !.sub.end = a.end].step \notin Claiming
  BY DEF Idle, Claiming
<1>2. QED
  BY <1>1, BecomeLeaves, DoneLeaves DEF Answered

LEMMA ErrorLeaves ==
    ASSUME TypeOK, NEW w \in Workers, AfterError(w)
    PROVE  Leaves(w)
<1>1. Reconciled(w, job[w].auto) \/ Goto(w, "claim") \/ FlipNext(w) \/ Done(w)
  BY DEF AfterError
<1>2. QED
  BY <1>1, ReconciledLeaves, GotoLeaves, DoneLeaves DEF Claiming

\* What every handler step does but the three on the way to a charge.
LEMMA HandlerLeaves ==
    ASSUME TypeOK, NEW w \in Workers, HandlerStep(w)
    PROVE  \/ Claim(w) \/ Retrieve(w) \/ Charge(w)
           \/ Leaves(w) /\ UNCHANGED <<sub, answers, claims>>
<1> USE DEF stripeVars, countVars
<1>0. job[w] \in Jobs
  BY DEF TypeOK
<1>1. CASE MeterRead(w) \/ LiveCheck(w) \/ HookWrite(w)
  BY <1>1, GotoLeaves, DoneLeaves DEF MeterRead, LiveCheck, HookWrite, Claiming
<1>2. CASE PortalFetch(w) \/ PortalWrite(w)
  <2> DEFINE r == [job[w] EXCEPT !.step = "portalWrite", !.sub = sub]
  <2>1. r.step \notin Claiming
    BY <1>0 DEF Jobs, Claiming
  <2> HIDE DEF r
  <2>2. (Become(w, r) \/ Done(w) \/ \E auto : Reconciled(w, auto)) /\ UNCHANGED <<sub, answers, claims>>
    BY <1>2 DEF PortalFetch, PortalWrite, r
  <2>3. QED
    BY <2>1, <2>2, BecomeLeaves, ReconciledLeaves, DoneLeaves
<1>3. CASE AutoOff(w) \/ Settle(w) \/ Flip(w) \/ Mirror(w) \/ ToggleWrite(w)
  BY <1>3, DoneLeaves DEF AutoOff, Settle, Flip, Mirror, ToggleWrite
<1>4. CASE \/ MeterAdd(w) \/ ProfileRead(w) \/ FreshRead(w) \/ GrantRead(w) \/ GrantWrite(w)
           \/ StripeFetch(w) \/ Activate(w) \/ HookRead(w)
  <2> DEFINE add == [job[w] EXCEPT !.step = "profileRead", !.minutes = 0]
             fetch == [Idle EXCEPT !.step = "portalFetch", !.kind = "reconcile",
                                   !.status = profile.status, !.auto = profile.autoRenew,
                                   !.off = sub.cancel]
             check == [job[w] EXCEPT !.step = "liveCheck", !.over = profile.used - Alloc]
             write == [job[w] EXCEPT !.step = "grantWrite", !.used = profile.used,
                                     !.end = profile.end]
             settle == [Idle EXCEPT !.step = "settle", !.kind = "renew"]
             fetched == [job[w] EXCEPT !.sub = sub,
                            !.step = IF sub.status = "active" THEN "activate" ELSE "mirror"]
             grant == [job[w] EXCEPT !.step = "grantRead", !.reset = TRUE]
             hooked == [job[w] EXCEPT !.step = "hookWrite", !.reset = profile.status # "active"]
  <2>1. \A r \in {add, fetch, check, write, settle, fetched, grant, hooked} :
            r.step \notin Claiming
    BY <1>0 DEF Jobs, Idle, Claiming
  <2>2. /\ \/ Done(w)
           \/ Become(w, add) \/ Become(w, fetch) \/ Become(w, check) \/ Become(w, write)
           \/ Become(w, settle) \/ Become(w, fetched) \/ Become(w, grant) \/ Become(w, hooked)
        /\ UNCHANGED <<sub, answers, claims>>
    BY <1>4
       DEF MeterAdd, ProfileRead, FreshRead, GrantRead, GrantWrite, StripeFetch, Activate, HookRead
  <2> HIDE DEF add, fetch, check, write, settle, fetched, grant, hooked
  <2>3. QED
    BY <2>1, <2>2, BecomeLeaves, DoneLeaves
<1>5. QED
  BY <1>1, <1>2, <1>3, <1>4 DEF HandlerStep

\* One claimant less, and one charge more at most.
LEMMA CoverLeaves ==
    ASSUME TypeOK, PlanInv, NEW w \in Workers, Leaves(w), NEW K,
           Charged' \subseteq Charged \cup K,
           K = {} \/ (w \in Claimants /\ \E k : K = {k}),
           claims' \in Nat, claims <= claims'
    PROVE  ClaimsCover'
<1>1. Claimants' = Claimants \ {w}
  BY DEF Leaves, Claimants
<1>2. /\ IsFiniteSet(Claimants) /\ IsFiniteSet(Charged) /\ claims \in Nat
      /\ Cardinality(Charged) + Cardinality(Claimants) <= claims
  BY DEF PlanInv, ClaimsCover, TypeOK
<1>3. /\ Cardinality(Claimants) \in Nat /\ Cardinality(Charged) \in Nat
      /\ IsFiniteSet(Claimants')
      /\ Cardinality(Claimants') = IF w \in Claimants THEN Cardinality(Claimants) - 1
                                                      ELSE Cardinality(Claimants)
  BY <1>1, <1>2, FS_CardinalityType, FS_RemoveElement
<1>4. /\ IsFiniteSet(Charged \cup K)
      /\ Cardinality(Charged \cup K) \in Nat
      /\ Cardinality(Charged \cup K)
           <= Cardinality(Charged) + (IF w \in Claimants THEN 1 ELSE 0)
  <2>1. CASE K = {}
    <3>1. Charged \cup K = Charged
      BY <2>1
    <3>2. Cardinality(Charged)
            <= Cardinality(Charged) + (IF w \in Claimants THEN 1 ELSE 0)
      BY <1>3
    <3>3. QED
      BY <1>2, <1>3, <3>1, <3>2, Zenon
  <2>2. ASSUME NEW k, K = {k}, w \in Claimants
        PROVE  /\ IsFiniteSet(Charged \cup K)
               /\ Cardinality(Charged \cup K) \in Nat
               /\ Cardinality(Charged \cup K)
                    <= Cardinality(Charged) + (IF w \in Claimants THEN 1 ELSE 0)
    <3>1. /\ IsFiniteSet(Charged \cup {k})
          /\ Cardinality(Charged \cup {k}) \in {Cardinality(Charged),
                                                        Cardinality(Charged) + 1}
      BY <1>2, FS_AddElement
    <3>2. QED
      BY <1>3, <2>2, <3>1
  <2>3. QED
    BY <2>1, <2>2
<1>5. /\ IsFiniteSet(Charged')
      /\ Cardinality(Charged') \in Nat
      /\ Cardinality(Charged') <= Cardinality(Charged \cup K)
  BY <1>4, FS_Subset, FS_CardinalityType
<1>6. QED
  BY <1>2, <1>3, <1>4, <1>5 DEF ClaimsCover

LEMMA KeysLeave ==
    ASSUME TypeOK, PlanInv, NEW w \in Workers, Leaves(w), sub'.end \in Nat, sub.end <= sub'.end
    PROVE  KeysReached'
<1>1. /\ sub.end \in Nat /\ \A v \in Workers : job[v].sub.end \in Nat
      /\ \A v \in Workers : job[v].step = "charge" => job[v].sub.end <= sub.end
  BY DEF TypeOK, Jobs, Snapshots, PlanInv, KeysReached, At
<1>2. \A v \in Workers : job'[v].step = "charge" => v # w /\ job'[v] = job[v]
  BY DEF Leaves, Claiming
<1>3. QED
  BY <1>1, <1>2 DEF KeysReached, At

\* Nobody is on the way to a charge who was not.
LEMMA CalmKeepsPlan ==
    ASSUME TypeOK, PlanInv, NEW w \in Workers, Leaves(w), UNCHANGED <<answers, claims>>,
           sub'.end = sub.end
    PROVE  PlanInv'
<1>1. Charged' \subseteq Charged \cup {}
  BY DEF Charged
<1>2. sub.end \in Nat /\ claims \in Nat /\ claims' = claims
  BY DEF TypeOK, Snapshots
<1>3. claims' \in Nat /\ claims <= claims' /\ sub'.end \in Nat /\ sub.end <= sub'.end
  BY <1>2
<1>4. ClaimsCover'
  BY <1>1, <1>3, CoverLeaves
<1>5. QED
  BY <1>3, <1>4, KeysLeave DEF PlanInv

\* A charge: one period more at most, and the handler's claim is used up.
LEMMA ChargesPeriod ==
    ASSUME TypeOK, NEW key, NEW a \in PossibleAnswers(key), NewAnswer(key, a)
    PROVE  /\ sub'.end \in Nat
           /\ \/ sub'.end = sub.end /\ Charged' = Charged
              \/ /\ sub'.end = sub.end + 1
                 /\ Charged' = Charged \cup {a}
                 /\ ChargedPeriods' = ChargedPeriods \cup {key}
<1>1. sub \in Snapshots /\ sub.end \in Nat
  BY DEF TypeOK, Snapshots
<1>2. a.key = key /\ a.end \in {sub.end, sub.end + 1}
      /\ a.end = IF a.result = "declined" THEN sub.end ELSE sub.end + 1
  BY DEF NewAnswer, PossibleAnswers
<1>3. sub'.end = a.end
  BY <1>1 DEF NewAnswer, Snapshots
<1>4. answers' = answers \cup {a}
  BY DEF NewAnswer
<1>5. CASE a.result = "declined"
  <2>1. Charged' = Charged
    BY <1>4, <1>5 DEF Charged
  <2>2. QED
    BY <1>1, <1>2, <1>3, <1>5, <2>1
<1>6. CASE a.result # "declined"
  <2>1. Charged' = Charged \cup {a}
    BY <1>4, <1>6 DEF Charged
  <2>2. ChargedPeriods' = ChargedPeriods \cup {key}
    BY <1>2, <2>1 DEF ChargedPeriods
  <2>3. QED
    BY <1>1, <1>2, <1>3, <1>6, <2>1, <2>2
<1>7. QED
  BY <1>5, <1>6

\* What a step at the charge does: it answers as before, or answers anew a
\* key that has no answer yet.
LEMMA ChargeStep ==
    ASSUME TypeOK, NEW w \in Workers, Charge(w) \/ AnswerLost(w)
    PROVE  /\ At(w, "charge") /\ Leaves(w) /\ claims' = claims /\ calls' = calls
           /\ \/ UNCHANGED <<sub, answers>>
              \/ /\ \A a \in answers : a.key # job[w].sub.end
                 /\ \E a \in PossibleAnswers(job[w].sub.end) : NewAnswer(job[w].sub.end, a)
<1>1. CASE Charge(w)
  <2>1. FlipNext(w) \/ \E a : Answered(w, a)
    BY <1>1 DEF Charge
  <2>2. Leaves(w)
    BY <2>1, DoneLeaves, AnsweredLeaves
  <2>3. QED
    BY <1>1, <2>2 DEF Charge, stripeVars, countVars
<1>2. CASE AnswerLost(w)
  BY <1>2, DoneLeaves DEF AnswerLost, countVars
<1>3. QED
  BY <1>1, <1>2

LEMMA ChargeKeepsPlan ==
    ASSUME TypeOK, PlanInv, NEW w \in Workers, Charge(w) \/ AnswerLost(w)
    PROVE  PlanInv'
<1>1. At(w, "charge") /\ Leaves(w) /\ claims' = claims
  BY ChargeStep
<1>2. w \in Claimants
  BY <1>1 DEF At, Claimants, Claiming
<1>3. sub.end \in Nat /\ claims \in Nat
  BY DEF TypeOK, Snapshots
<1>4. CASE UNCHANGED <<sub, answers>>
  BY <1>1, <1>4, CalmKeepsPlan
<1>5. ASSUME NEW a \in PossibleAnswers(job[w].sub.end), NewAnswer(job[w].sub.end, a)
      PROVE  PlanInv'
  <2>1. /\ Charged' \subseteq Charged \cup {a}
        /\ sub'.end \in Nat /\ sub.end <= sub'.end
    BY <1>3, <1>5, ChargesPeriod
  <2>2. claims' \in Nat /\ claims <= claims'
    BY <1>1, <1>3
  <2>3. ClaimsCover'
    BY <1>1, <1>2, <2>1, <2>2, CoverLeaves
  <2>4. QED
    BY <1>1, <2>1, <2>3, KeysLeave DEF PlanInv
<1>6. QED
  BY <1>4, <1>5, ChargeStep

\* A step that leaves the places of the handlers as they are.
LEMMA PlacesKeepPlan ==
    ASSUME TypeOK, PlanInv, UNCHANGED <<answers, claims>>,
           \A w \in Workers : /\ job'[w].step \in Claiming => job[w].step = job'[w].step
                              /\ job[w].step \in Claiming => job[w].step = job'[w].step
                              /\ job'[w].step = "charge" => job'[w].sub.end = job[w].sub.end,
           sub'.end \in Nat, sub.end <= sub'.end
    PROVE  PlanInv'
<1>1. Claimants' = Claimants
  BY DEF Claimants
<1>2. Charged' = Charged
  BY DEF Charged
<1>3. ClaimsCover'
  BY <1>1, <1>2 DEF PlanInv, ClaimsCover
<1>4. /\ sub.end \in Nat /\ \A v \in Workers : job[v].sub.end \in Nat
      /\ \A v \in Workers : job[v].step = "charge" => job[v].sub.end <= sub.end
  BY DEF TypeOK, Jobs, Snapshots, PlanInv, KeysReached, At
<1>5. KeysReached'
  BY <1>4 DEF KeysReached, At, Claiming
<1>6. QED
  BY <1>3, <1>5 DEF PlanInv

\* The claim that wins adds a claimant; one that is read by the subscription
\* keeps it.
LEMMA ClaimKeepsPlan ==
    ASSUME TypeOK, PlanInv, NEW w \in Workers, Claim(w)
    PROVE  PlanInv'
<1>1. CASE Done(w) /\ claims' = claims
  <2>1. Leaves(w) /\ UNCHANGED <<sub, answers, claims>>
    BY <1>1, DoneLeaves DEF Claim, stripeVars
  <2>2. QED
    BY <2>1, CalmKeepsPlan
<1>2. CASE Goto(w, "retrieve") /\ claims' = claims + 1
  <2>1. /\ job'[w].step = "retrieve"
        /\ \A v \in Workers \ {w} : job'[v] = job[v]
    BY <1>2 DEF Goto, Become, TypeOK, Jobs
  <2>2. Claimants' = Claimants \cup {w}
    BY <2>1 DEF Claimants, Claiming
  <2>3. Charged' = Charged /\ sub' = sub
    BY <1>2 DEF Claim, stripeVars, Charged
  <2>4. /\ IsFiniteSet(Claimants) /\ IsFiniteSet(Charged) /\ claims \in Nat
        /\ Cardinality(Charged) + Cardinality(Claimants) <= claims
    BY DEF PlanInv, ClaimsCover, TypeOK
  <2>5. /\ Cardinality(Claimants) \in Nat /\ Cardinality(Charged) \in Nat
        /\ IsFiniteSet(Claimants')
        /\ Cardinality(Claimants') \in {Cardinality(Claimants), Cardinality(Claimants) + 1}
    BY <2>2, <2>4, FS_CardinalityType, FS_AddElement
  <2>6. ClaimsCover'
    BY <1>2, <2>3, <2>4, <2>5 DEF ClaimsCover
  <2>7. KeysReached'
    BY <2>1, <2>3 DEF PlanInv, KeysReached, At
  <2>8. QED
    BY <2>6, <2>7 DEF PlanInv
<1>3. QED
  BY <1>1, <1>2 DEF Claim

LEMMA RetrieveKeepsPlan ==
    ASSUME TypeOK, PlanInv, NEW w \in Workers, Retrieve(w)
    PROVE  PlanInv'
<1>1. /\ job[w].step = "retrieve" /\ job'[w].step = "charge" /\ job'[w].sub.end = sub.end
      /\ \A v \in Workers \ {w} : job'[v] = job[v]
  BY DEF Retrieve, Become, At, TypeOK, Jobs, Snapshots
<1>2. Claimants' = Claimants
  BY <1>1 DEF Claimants, Claiming
<1>3. UNCHANGED <<sub, answers, claims>>
  BY DEF Retrieve, stripeVars, countVars
<1>4. Charged' = Charged
  BY <1>3 DEF Charged
<1>5. ClaimsCover'
  BY <1>2, <1>3, <1>4 DEF PlanInv, ClaimsCover
<1>6. sub.end \in Nat
  BY DEF TypeOK, Snapshots
<1>7. KeysReached'
  BY <1>1, <1>3, <1>6 DEF PlanInv, KeysReached, At
<1>8. QED
  BY <1>5, <1>7 DEF PlanInv

\* A request, a webhook or a toggle begins: its handler was idle.
LEMMA BeginningLeaves ==
    ASSUME TypeOK, NEW w \in Workers,
           (\E e : Deliver(w, e)) \/ Load(w) \/ (\E n : CallEnds(w, n))
    PROVE  Leaves(w) /\ UNCHANGED <<sub, answers, claims, calls>>
<1> DEFINE hook(e) == [Idle EXCEPT !.step = "hookRead", !.kind = "hook", !.sub = e]
           load == [Idle EXCEPT !.step = "profileRead", !.kind = "reconcile"]
           call(n) == [Idle EXCEPT !.step = "meterRead", !.kind = "reconcile", !.minutes = n]
<1>1. /\ load.step \notin Claiming
      /\ \A e : hook(e).step \notin Claiming /\ call(e).step \notin Claiming
  BY DEF Idle, Claiming
<1>2. /\ (\E e : Become(w, hook(e))) \/ Become(w, load) \/ \E n : Become(w, call(n))
      /\ UNCHANGED <<sub, answers, claims, calls>>
  BY DEF Deliver, Load, CallEnds, stripeVars, countVars
<1> HIDE DEF hook, load, call
<1>3. QED
  BY <1>1, <1>2, BecomeLeaves

\* A flag that is turned moves no handler but the toggle that begins.
LEMMA FlagKeepsPlaces ==
    ASSUME TypeOK, NEW cancel \in BOOLEAN,
           PortalToggle(cancel) \/ (\E v \in Requests : Toggle(v, ~cancel))
    PROVE  /\ UNCHANGED <<answers, claims, calls>> /\ sub'.end = sub.end
           /\ \A w \in Workers : /\ job'[w].step \in Claiming => job[w].step = job'[w].step
                                 /\ job[w].step \in Claiming => job[w].step = job'[w].step
                                 /\ job'[w].step = "charge" => job'[w].sub.end = job[w].sub.end
<1>0. sub \in Snapshots /\ \A w \in Workers : job[w] \in Jobs
  BY DEF TypeOK
<1>1. UNCHANGED <<answers, claims, calls>>
  BY DEF PortalToggle, Toggle, countVars
<1>2. sub'.end = sub.end
  BY <1>0 DEF PortalToggle, Toggle, SetCancel, Snapshots
<1>3. ASSUME NEW w \in Workers
      PROVE  StillOff[w].step = job[w].step /\ StillOff[w].sub = job[w].sub
  <2>1. StillOff[w] = [job[w] EXCEPT !.off = @ /\ sub'.cancel]
    BY DEF StillOff
  <2>2. QED
    BY <1>0, <2>1 DEF Jobs
<1>4. CASE job' = StillOff
  BY <1>1, <1>2, <1>3, <1>4
<1>5. ASSUME NEW v \in Requests, Toggle(v, ~cancel)
      PROVE  \A w \in Workers : /\ job'[w].step \in Claiming => job[w].step = job'[w].step
                                /\ job[w].step \in Claiming => job[w].step = job'[w].step
                                /\ job'[w].step = "charge" => job'[w].sub.end = job[w].sub.end
  <2> DEFINE r == [Idle EXCEPT !.step = "toggleWrite", !.kind = "toggle", !.auto = ~cancel]
  <2>1. job' = [StillOff EXCEPT ![v] = r] /\ job[v].step = "idle"
    BY <1>5 DEF Toggle, At
  <2>2. r.step = "toggleWrite"
    BY DEF Idle
  <2>3. DOMAIN StillOff = Workers
    BY DEF StillOff
  <2>4. \A w \in Workers : job'[w] = IF w = v THEN r ELSE StillOff[w]
    BY <2>1, <2>3
  <2> HIDE DEF r
  <2>5. QED
    BY <1>3, <2>1, <2>2, <2>4 DEF Claiming
<1>6. QED
  BY <1>1, <1>2, <1>4, <1>5 DEF PortalToggle

LEMMA NextPlan == TypeOK /\ TypeOK' /\ PlanInv /\ [Next]_vars => PlanInv'
<1> SUFFICES ASSUME TypeOK, TypeOK', PlanInv, [Next]_vars
             PROVE  PlanInv'
  OBVIOUS
<1>0. sub.end \in Nat /\ sub'.end \in Nat /\ claims \in Nat /\ claims' \in Nat
  BY DEF TypeOK, Snapshots
<1>1. CASE PeriodEnds \/ DunningEnds
  <2>1. UNCHANGED <<answers, claims, job>> /\ sub'.end \in {sub.end, sub.end + 1}
    BY <1>1 DEF PeriodEnds, DunningEnds, countVars, TypeOK, Snapshots
  <2>2. QED
    BY <1>0, <2>1, PlacesKeepPlan
<1>2. CASE Customer
  BY <1>0, <1>2, FlagKeepsPlaces, PlacesKeepPlan DEF Customer
<1>3. CASE Request
  <2>1. PICK w \in Workers : \/ (\E e : Deliver(w, e)) \/ Load(w) \/ (\E n : CallEnds(w, n))
    BY <1>3 DEF Request, Workers
  <2>2. Leaves(w) /\ UNCHANGED <<sub, answers, claims>>
    BY <2>1, BeginningLeaves
  <2>3. QED
    BY <2>2, CalmKeepsPlan
<1>4. ASSUME NEW w \in Workers, HandlerStep(w)
      PROVE  PlanInv'
  BY <1>4, HandlerLeaves, ClaimKeepsPlan, RetrieveKeepsPlan, ChargeKeepsPlan, CalmKeepsPlan
<1>5. ASSUME NEW w \in Workers, CallFails(w) \/ Crash(w)
      PROVE  PlanInv'
  <2>1. Leaves(w) /\ UNCHANGED <<sub, answers, claims>>
    BY <1>5, ErrorLeaves, DoneLeaves DEF CallFails, Crash, stripeVars, countVars
  <2>2. QED
    BY <2>1, CalmKeepsPlan
<1>6. ASSUME NEW w \in Workers, AnswerLost(w)
      PROVE  PlanInv'
  BY <1>6, ChargeKeepsPlan
<1>7. CASE UNCHANGED vars
  <2>1. UNCHANGED <<sub, answers, claims, job>>
    BY <1>7 DEF vars, stripeVars, countVars
  <2>2. QED
    BY <1>0, <2>1, PlacesKeepPlan
<1>8. QED
  BY <1>1, <1>2, <1>3, <1>4, <1>5, <1>6, <1>7 DEF Next

--------------------------------------------------------------------------------
(* Each step is one of EarlyRenewal or a stutter.                           *)

\* A step that changes none of the four, or the period end alone.
LEMMA QuietStep ==
    ASSUME UNCHANGED <<answers, claims, calls>>, sub'.end \in {sub.end, sub.end + 1}
    PROVE  [Plan!PlanNext]_(Plan!planVars)
<1>1. Charged' = Charged /\ ChargedPeriods' = ChargedPeriods
  BY DEF ChargedPeriods, Charged
<1>2. QED
  BY <1>1 DEF Plan!PlanNext, Plan!PeriodPasses, Plan!planVars

\* The charge is for a claim, under a key that has not been charged.
LEMMA ChargeIsEarly ==
    ASSUME TypeOK, PlanInv, NEW w \in Workers, Charge(w) \/ AnswerLost(w)
    PROVE  [Plan!PlanNext]_(Plan!planVars)
<1>1. At(w, "charge") /\ claims' = claims /\ calls' = calls
  BY ChargeStep
<1>2. CASE UNCHANGED <<sub, answers>>
  BY <1>1, <1>2, QuietStep
<1>3. ASSUME NEW a \in PossibleAnswers(job[w].sub.end), NewAnswer(job[w].sub.end, a),
             \A b \in answers : b.key # job[w].sub.end
      PROVE  [Plan!PlanNext]_(Plan!planVars)
  <2>1. CASE sub'.end = sub.end /\ Charged' = Charged
    <3>1. ChargedPeriods' = ChargedPeriods
      BY <2>1 DEF ChargedPeriods
    <3>2. QED
      BY <1>1, <2>1, <3>1 DEF Plan!planVars
  <2>2. CASE /\ sub'.end = sub.end + 1
             /\ Charged' = Charged \cup {a}
             /\ ChargedPeriods' = ChargedPeriods \cup {job[w].sub.end}
    <3>1. job[w].sub.end \in 0..sub.end
      BY <1>1 DEF TypeOK, Jobs, Snapshots, PlanInv, KeysReached
    <3>2. job[w].sub.end \notin ChargedPeriods /\ a \notin Charged
      BY <1>3 DEF ChargedPeriods, Charged, PossibleAnswers
    <3>3. w \in Claimants
      BY <1>1 DEF At, Claimants, Claiming
    <3>4. /\ IsFiniteSet(Claimants) /\ IsFiniteSet(Charged) /\ claims \in Nat
          /\ Cardinality(Charged) + Cardinality(Claimants) <= claims
      BY DEF PlanInv, ClaimsCover, TypeOK
    <3>5. /\ Cardinality(Charged) \in Nat /\ Cardinality(Claimants) \in Nat
          /\ Cardinality(Claimants) # 0
      BY <3>3, <3>4, FS_CardinalityType, FS_EmptySet
    <3>6. Cardinality(Charged) < claims
      BY <3>4, <3>5
    <3>7. Cardinality(Charged') = Cardinality(Charged) + 1
      BY <2>2, <3>2, <3>4, FS_AddElement
    <3>8. \E k \in 0..sub.end : k \notin ChargedPeriods /\ ChargedPeriods' = ChargedPeriods \cup {k}
      BY <2>2, <3>1, <3>2
    <3>9. Plan!ChargeEarly
      BY <1>1, <2>2, <3>6, <3>7, <3>8 DEF Plan!ChargeEarly
    <3>10. QED
      BY <3>9 DEF Plan!PlanNext
  <2>3. QED
    BY <1>3, <2>1, <2>2, ChargesPeriod
<1>4. QED
  BY <1>2, <1>3, ChargeStep

LEMMA NextRenews == IInv /\ IInv' /\ PlanInv /\ [Next]_vars => [Plan!PlanNext]_(Plan!planVars)
<1> SUFFICES ASSUME IInv, IInv', PlanInv, [Next]_vars
             PROVE  [Plan!PlanNext]_(Plan!planVars)
  OBVIOUS
<1>0. TypeOK /\ TypeOK' /\ sub \in Snapshots /\ sub.end \in Nat
  BY DEF IInv, TypeOK, Snapshots
<1>1. CASE PeriodEnds \/ DunningEnds
  BY <1>0, <1>1, QuietStep DEF PeriodEnds, DunningEnds, countVars, Snapshots
<1>2. CASE Customer
  BY <1>0, <1>2, FlagKeepsPlaces, QuietStep DEF Customer
<1>3. CASE Request
  BY <1>0, <1>3, BeginningLeaves, QuietStep DEF Request, Workers
<1>4. ASSUME NEW w \in Workers, MeterAdd(w)
      PROVE  [Plan!PlanNext]_(Plan!planVars)
  <2>1. Charged' = Charged /\ ChargedPeriods' = ChargedPeriods
    BY <1>4 DEF MeterAdd, stripeVars, ChargedPeriods, Charged
  <2>2. QED
    BY <1>4, <2>1 DEF MeterAdd, stripeVars, Plan!PlanNext, Plan!Call
\* A claim needs an exhausted allowance, and that a call that no claim was for.
<1>5. ASSUME NEW w \in Workers, Claim(w)
      PROVE  [Plan!PlanNext]_(Plan!planVars)
  <2>1. Charged' = Charged /\ ChargedPeriods' = ChargedPeriods /\ UNCHANGED <<sub, calls>>
    BY <1>5 DEF Claim, stripeVars, ChargedPeriods, Charged
  <2>2. CASE profile.used >= Alloc
    <3>1. claims < calls /\ claims' = claims + 1
      BY <1>5, <2>2 DEF Claim, IInv, ClaimsBacked, Pending, Exhausted, TypeOK
    <3>2. QED
      BY <2>1, <3>1 DEF Plan!PlanNext, Plan!GiveUp
  <2>3. CASE ~(profile.used >= Alloc)
    BY <1>5, <2>1, <2>3 DEF Claim, Plan!planVars
  <2>4. QED
    BY <2>2, <2>3
<1>6. ASSUME NEW w \in Workers, HandlerStep(w)
      PROVE  [Plan!PlanNext]_(Plan!planVars)
  <2>1. CASE ~MeterAdd(w) /\ ~Claim(w) /\ ~Charge(w)
    <3>1. UNCHANGED <<sub, answers, claims, calls>>
      BY <1>6, <2>1, Zenon
         DEF HandlerStep, MeterRead, ProfileRead, PortalFetch, PortalWrite, FreshRead, LiveCheck,
             AutoOff, Retrieve, GrantRead, GrantWrite, Settle, Flip, StripeFetch, Activate,
             Mirror, HookRead, HookWrite, ToggleWrite, stripeVars, countVars
    <3>2. QED
      BY <3>1, QuietStep
  <2>2. QED
    BY <1>0, <1>4, <1>5, <2>1, ChargeIsEarly
<1>7. ASSUME NEW w \in Workers, CallFails(w) \/ AnswerLost(w) \/ Crash(w)
      PROVE  [Plan!PlanNext]_(Plan!planVars)
  <2>1. CASE CallFails(w) \/ Crash(w)
    BY <2>1, QuietStep DEF CallFails, Crash, stripeVars, countVars
  <2>2. QED
    BY <1>0, <1>7, <2>1, ChargeIsEarly
<1>8. CASE UNCHANGED vars
  BY <1>8, QuietStep DEF vars, stripeVars, countVars
<1>9. QED
  BY <1>1, <1>2, <1>3, <1>6, <1>7, <1>8 DEF Next

--------------------------------------------------------------------------------
(* The theorems.                                                           *)

\* The invariant holds at the start and every step keeps it.
LEMMA Invariance == Spec => []IInv
<1>1. Init => IInv
  BY InitType, RenewalAssumption
     DEF IInv, Init, ClaimsBacked, Pending, Exhausted, AnswersAgree, RenewalAssumption
<1>2. IInv /\ [Next]_vars => IInv'
  BY NextType, NextBacked, NextAgree DEF IInv
<1>3. QED
  BY <1>1, <1>2, PTL DEF Spec

\* Every row, snapshot and handler keeps its shape.
THEOREM TypeCorrect == Spec => []TypeOK
<1>1. IInv => TypeOK
  BY DEF IInv
<1>2. QED
  BY <1>1, Invariance, PTL

\* However many requests see one exhausted plan, whatever overage they carry
\* and however stale their webhooks are, each claim costs a recorded call.
THEOREM ClaimsCostCalls == Spec => []OneClaimPerCall
<1>1. IInv => OneClaimPerCall
  BY DEF IInv, TypeOK, ClaimsBacked, Pending, OneClaimPerCall
<1>2. QED
  BY <1>1, Invariance, PTL

\* However many requests renew early, crash or lose Stripe's answer, one
\* period end is replaced by one charge.
THEOREM PeriodsChargedOnce == Spec => []OneChargePerPeriod
<1>1. IInv => OneChargePerPeriod
  BY DEF IInv, AnswersAgree, OneChargePerPeriod, Charged
<1>2. QED
  BY <1>1, Invariance, PTL

\* Unless a call to Stripe failed, a handler that began under a cancellation
\* which stands never gets to make a charge.
THEOREM CancelledIsNotCharged == Spec => CancelStopsRenewal
<1>1. Init => OffInv
  BY DEF Init, OffInv, OffFits, Idle
<1>2. TypeOK /\ OffInv /\ [Next]_vars => OffInv'
  BY NextOff
<1>3. TypeOK /\ OffInv /\ TypeOK' /\ [Next]_vars
          => [\A w \in Workers : At(w, "charge") /\ job'[w] # job[w] /\ job[w].off
                 => answers' = answers \/ faults' > 0]_vars
  <2> SUFFICES ASSUME TypeOK, TypeOK', OffInv, Next, NEW w \in Workers,
                      At(w, "charge"), job[w].off
               PROVE  faults' > 0
    OBVIOUS
  <2>1. faults # 0 /\ faults \in Nat /\ faults' \in Nat
    BY RenewalAssumption DEF At, OffInv, OffFits, BeforeClaim, TypeOK, RenewalAssumption
  <2>2. faults' = faults \/ faults' = faults + 1
    BY Zenon
       DEF Next, PeriodEnds, DunningEnds, Customer, PortalToggle, Toggle, SetCancel, Request,
           Load, CallEnds, Deliver, CallFails, AnswerLost, Crash, HandlerStep, MeterRead,
           MeterAdd, ProfileRead, PortalFetch, PortalWrite, FreshRead, LiveCheck, AutoOff,
           Claim, Retrieve, Charge, GrantRead, GrantWrite, Settle, Flip, StripeFetch, Activate,
           Mirror, HookRead, HookWrite, ToggleWrite, boundVars
  <2>3. QED
    BY <2>1, <2>2
<1>4. QED
  BY <1>1, <1>2, <1>3, TypeCorrect, PTL DEF Spec, CancelStopsRenewal

\* However many requests and webhooks cross, crash or lose Stripe's answer, the
\* customer is charged early only for an allowance that a call has used up,
\* once for each, and once for a period, and gets a period for it.
THEOREM RenewsAsPromised == Spec => ImplementsEarlyRenewal
<1>1. Init => Plan!PlanInit /\ PlanInv
  <2> SUFFICES ASSUME Init
               PROVE  Plan!PlanInit /\ PlanInv
    OBVIOUS
  <2>1. Charged = {} /\ ChargedPeriods = {} /\ sub.end = 0
    BY DEF Init, ChargedPeriods, Charged
  <2>2. Claimants = {}
    BY DEF Init, Claimants, Claiming, Idle
  <2>3. ClaimsCover
    BY <2>1, <2>2, FS_EmptySet DEF Init, ClaimsCover
  <2>4. KeysReached
    BY DEF Init, KeysReached, At, Idle
  <2>5. QED
    BY <2>1, <2>3, <2>4, FS_EmptySet DEF Init, Plan!PlanInit, PlanInv
<1>2. IInv /\ IInv' /\ PlanInv /\ [Next]_vars => PlanInv'
  BY NextPlan DEF IInv
<1>3. IInv /\ IInv' /\ PlanInv /\ [Next]_vars => [Plan!PlanNext]_(Plan!planVars)
  BY NextRenews
<1>4. QED
  BY <1>1, <1>2, <1>3, Invariance, PTL DEF Spec, ImplementsEarlyRenewal, Plan!PlanSpec

================================================================================
