------------------------- MODULE PhoneNumbersAgreement -------------------------
(***************************************************************************)
(* The inventory and the profiles name the same holder, for any customers, *)
(* numbers and handlers.                                                   *)
(*                                                                         *)
(* Rows and profiles are in two databases, so a job is half way (Mid)      *)
(* between its writes.  AInv says that all else agrees, and what a job in  *)
(* flight knows that makes its next write right (Flight).  Two jobs at the *)
(* same customer or number tear it, so a job's knowledge of what is not    *)
(* torn stands while the others work (FlightKept), and each step brings it *)
(* from one flight to the next (the lemmas ...Moved).                      *)
(***************************************************************************)
EXTENDS PhoneNumbersProofs

Agree(u, m) == number[u] = m <=> holder[m] = u

\* Of what is not torn, u holds p and nothing else, or nothing beyond ms.
Sole(u, p) == u \in torn \/ \A m \in Numbers \ torn : holder[m] = u <=> m = p
Within(u, ms) == u \in torn \/ \A m \in Numbers \ torn : holder[m] = u => m \in ms

\* The customers and numbers a job is half way through.
Mid(j, u, m) ==
    \/ j.step \in {"route", "free", "take"} /\ j.user = u /\ m \in {j.number, j.prev}
    \/ j.step \in {"accept", "post"} /\ j.user = u /\ m = j.number
    \/ j.step = "pool" /\ j.other = u /\ m = j.number
    \/ j.step \in {"letgo", "show"} /\ j.user = u /\ m \in j.rows \cup {j.number}
    \/ j.step = "letgo" /\ j.other = u /\ m = j.number
    \/ j.step \in {"hand", "strike", "blank"} /\ j.user = u

\* Everything agrees, but where a job is half way.
Pairs ==
    \A u \in Users \ torn, m \in Numbers \ torn :
        Agree(u, m) \/ \E w \in Handlers : Mid(job[w], u, m)

\* A row is of a number the account pays for, until it is struck.
Paid ==
    \A n \in tracked \ owned :
        n \in torn \/ \E w \in Handlers : job[w].step = "strike" /\ job[w].number = n

\* What a job relies on, of profiles and rows that are not torn.
ClaimFlight(j) ==
    /\ j.step \in ClaimSteps =>
           j.number \in torn \/ \A v \in Users \ {j.user} : number[v] # j.number
    /\ j.step \in RecordSteps => j.number \in owned \cup torn
    /\ j.step = "hold" => j.user \in torn \/ number[j.user] = j.prev
    /\ j.step \in {"route", "free", "take"} => j.user \in torn \/ number[j.user] = j.number
    /\ j.step \in {"route", "free"} => Sole(j.user, j.prev)
    /\ j.step = "take" => Within(j.user, {j.number})
    /\ j.step = "import" => j.seen \subseteq owned \cup torn

ApproveFlight(j) ==
    /\ j.step = "pick" => j.number = NoNumber
    /\ j.step \in {"pick", "seat"} => j.user \in torn \/ number[j.user] = NoNumber
    /\ j.step = "seat" => j.number \in torn \/ holder[j.number] = NoUser
    /\ j.step \in {"accept", "post"} /\ j.number # NoNumber => Sole(j.user, j.number)

AssignFlight(j) ==
    /\ j.step \in {"clear", "pool", "others", "swap"} =>
           \/ j.number \in torn
           \/ /\ j.number \in j.rows
              /\ holder[j.number] = j.other \/ (holder[j.number] = NoUser /\ j.other \in torn)
    /\ j.step \in {"clear", "pool", "others"} => j.rows \subseteq {j.number}
    /\ j.step = "pool" =>
           {j.other, j.number} \cap torn # {} \/ j.other = NoUser \/ number[j.other] # j.number
    /\ j.step = "swap" =>
           /\ Within(j.user, j.rows)
           /\ \A m \in j.rows \ (torn \cup {j.number}) : holder[m] \in {j.user, NoUser}
    /\ j.step = "letgo" =>
           /\ j.other \in Users \ {j.user}
           /\ j.number \in torn \/ holder[j.number] \in {j.user, NoUser}
    /\ j.step \in {"letgo", "show"} => Sole(j.user, j.number)

ReleaseFlight(j) ==
    /\ j.step \in {"hand", "strike", "blank"} => Within(j.user, j.rows)
    /\ j.step \in ReleaseSteps =>
           \A m \in j.rows \ torn : holder[m] = j.user \/ (holder[m] = NoUser /\ j.user \in torn)
    /\ j.step = "strike" => j.number \in torn \/ j.number \in j.rows
    /\ j.step = "blank" => j.rows = {}

Flight(j) == ClaimFlight(j) /\ ApproveFlight(j) /\ AssignFlight(j) /\ ReleaseFlight(j)

AInv == Pairs /\ Paid /\ \A w \in Handlers : Flight(job[w])

\* A step changes the number or the row only of what it touches, and gives what it touches.
Reach(w) ==
    /\ \A u \in Users : number'[u] # number[u] =>
           u \in Touches(job[w]) /\ number'[u] \in Touches(job[w]) \cup {NoNumber}
    /\ \A n \in Numbers : holder'[n] # holder[n] =>
           /\ holder'[n] \in Touches(job[w]) \cup {NoUser}
           /\ n \in Touches(job[w]) \/ (holder'[n] = NoUser /\ holder[n] \in Touches(job[w]))
    /\ owned \ owned' \subseteq Touches(job[w])
    /\ \A v \in Handlers \ {w} : job[v].rows \cap tracked' \subseteq job'[v].rows
    /\ tracked \ tracked' \subseteq Touches(job[w])

\* What a step of w does to pairs and rows.
Moves(w) ==
    /\ \A u \in Users \ torn', m \in Numbers \ torn' :
           Agree(u, m) \/ Mid(job[w], u, m) => Agree(u, m)' \/ Mid(job'[w], u, m)
    /\ \A n \in tracked' \ owned' :
           \/ n \in torn'
           \/ job'[w].step = "strike" /\ job'[w].number = n
           \/ n \in tracked \ owned /\ ~(job[w].step = "strike" /\ job[w].number = n)

Moved(w) == Reach(w) /\ Moves(w) /\ Flight(job[w])'

--------------------------------------------------------------------------------
(* One handler's step and the invariant of the others.                     *)

\* What two handlers touch is torn.
LEMMA Apart ==
    ASSUME IInv, NEW w \in Handlers, Effect(w), NEW v \in Handlers \ {w},
           NEW x \in Users \cup Numbers, x \in Touches(job[v]), x \in Touches(job[w])
    PROVE  x \in torn'
BY Clash DEF IInv, Effect

LEMMA MidTouches ==
    ASSUME NEW j \in Jobs, NEW u \in Users, NEW m \in Numbers, Mid(j, u, m)
    PROVE  u \in Touches(j)
BY DEF Mid, Touches, ClaimSteps, ApproveSteps, AssignSteps, UnassignSteps, ReleaseSteps

LEMMA MidKept ==
    ASSUME IInv, NEW w \in Handlers, TypeOK', Effect(w), Reach(w), NEW v \in Handlers \ {w},
           NEW u \in Users, NEW m \in Numbers \ torn', Mid(job[v], u, m)
    PROVE  Mid(job'[v], u, m)
<1>1. Kept(v) /\ job[v] \in Jobs /\ job[v].rows \subseteq tracked
  BY DEF Effect, IInv, TypeOK, Own, Fits
<1>2. ASSUME job[v].step \in {"letgo", "show"}, m \in job[v].rows PROVE m \in job'[v].rows
  <2>1. m \in Touches(job[v])
    BY <1>2 DEF Touches, AssignSteps
  <2>2. m \notin Touches(job[w])
    BY <2>1, Apart
  <2>3. QED
    BY <1>1, <1>2, <2>2 DEF Reach
<1>3. QED
  BY <1>1, <1>2 DEF Kept, Mid

LEMMA PairsStep ==
    ASSUME IInv, AInv, NEW w \in Handlers, TypeOK', Effect(w), Reach(w), Moves(w)
    PROVE  Pairs'
<1> SUFFICES ASSUME NEW u \in Users \ torn', NEW m \in Numbers \ torn', ~Agree(u, m)'
             PROVE  \E v \in Handlers : Mid(job'[v], u, m)
  BY DEF Pairs, Mid
<1>1. u \notin torn /\ m \notin torn
  BY DEF Effect
<1>2. CASE \E v \in Handlers \ {w} : Mid(job[v], u, m)
  BY <1>2, MidKept
<1>3. CASE Agree(u, m) \/ Mid(job[w], u, m)
  BY <1>3 DEF Moves
<1>4. QED
  BY <1>1, <1>2, <1>3 DEF AInv, Pairs

LEMMA PaidStep ==
    ASSUME IInv, AInv, NEW w \in Handlers, Effect(w), Moves(w)
    PROVE  Paid'
<1> SUFFICES ASSUME NEW n \in tracked' \ owned', n \notin torn'
             PROVE  \E v \in Handlers : job'[v].step = "strike" /\ job'[v].number = n
  BY DEF Paid
<1>1. CASE n \in tracked \ owned /\ ~(job[w].step = "strike" /\ job[w].number = n)
  <2>1. PICK v \in Handlers : job[v].step = "strike" /\ job[v].number = n
    BY <1>1 DEF AInv, Paid, Effect
  <2>2. v # w /\ Kept(v)
    BY <1>1, <2>1 DEF Effect
  <2>3. QED
    BY <2>1, <2>2 DEF Kept
<1>2. QED
  BY <1>1 DEF Moves

TouchSteps == ClaimSteps \cup ApproveSteps \cup AssignSteps \cup UnassignSteps \cup ReleaseSteps
              \cup {"purchase", "record"}

LEMMA TouchesAll ==
    ASSUME NEW j \in Jobs, j.step \in TouchSteps
    PROVE  /\ \A x \in {j.user, j.other, j.number, j.prev} \cup j.rows :
                  x \in Users \cup Numbers => x \in Touches(j)
           /\ j.rows \subseteq Numbers
BY JobTypes DEF TouchSteps, Touches

\* What a step of w leaves of the profiles, rows and numbers that the job of v touches.
LEMMA Left ==
    ASSUME IInv, NEW w \in Handlers, TypeOK', Effect(w), Reach(w), NEW v \in Handlers \ {w}
    PROVE  /\ \A u \in Users : u \in Touches(job[v]) => u \in torn' \/ number'[u] = number[u]
           /\ \A n \in Numbers, u \in Users : n \in Touches(job[v]) /\ number'[u] = n
                  => n \in torn' \/ number[u] = n
           /\ \A n \in Numbers : n \in Touches(job[v]) =>
                  \/ n \in torn' \/ holder'[n] = holder[n]
                  \/ holder'[n] = NoUser /\ holder[n] \in Touches(job[w])
           /\ \A u \in Users, m \in Numbers : u \in Touches(job[v]) /\ holder'[m] = u
                  => u \in torn' \/ holder[m] = u
           /\ \A u \in Users, m \in Numbers : {u, m} \subseteq Touches(job[v]) /\ holder[m] = u
                  => {u, m} \cap torn' # {} \/ holder'[m] = u
           /\ \A n \in Numbers : n \in Touches(job[v]) /\ n \in owned => n \in owned' \cup torn'
           /\ \A n \in Numbers : n \in Touches(job[v]) /\ n \in tracked => n \in tracked' \cup torn'
<1>1. \A x \in Users \cup Numbers : x \in Touches(job[v]) /\ x \in Touches(job[w]) => x \in torn'
  BY Apart
<1>2. NoUser \notin Users /\ NoNumber \notin Numbers
  BY NumbersAssumption DEF NumbersAssumption
<1>3. /\ \A u \in Users : u \in Touches(job[v]) => u \in torn' \/ number'[u] = number[u]
      /\ \A n \in Numbers, u \in Users : n \in Touches(job[v]) /\ number'[u] = n
             => n \in torn' \/ number[u] = n
  BY <1>1, <1>2 DEF Reach
<1>4. \A n \in Numbers : n \in Touches(job[v]) =>
          \/ n \in torn' \/ holder'[n] = holder[n]
          \/ holder'[n] = NoUser /\ holder[n] \in Touches(job[w])
  BY <1>1 DEF Reach
<1>5. \A u \in Users, m \in Numbers : u \in Touches(job[v]) /\ holder'[m] = u
          => u \in torn' \/ holder[m] = u
  BY <1>1, <1>2 DEF Reach
<1>6. \A u \in Users, m \in Numbers : {u, m} \subseteq Touches(job[v]) /\ holder[m] = u
          => {u, m} \cap torn' # {} \/ holder'[m] = u
  BY <1>1, <1>4
<1>7. /\ \A n \in Numbers : n \in Touches(job[v]) /\ n \in owned => n \in owned' \cup torn'
      /\ \A n \in Numbers : n \in Touches(job[v]) /\ n \in tracked => n \in tracked' \cup torn'
  BY <1>1 DEF Reach
<1>8. QED
  BY <1>3, <1>4, <1>5, <1>6, <1>7

LEMMA SoleKept ==
    ASSUME IInv, NEW w \in Handlers, TypeOK', Effect(w), Reach(w), NEW v \in Handlers \ {w},
           NEW u \in Users, NEW p \in Numbers \cup {NoNumber}, u \in Touches(job[v]),
           p \in Numbers => p \in Touches(job[v]), Sole(u, p)
    PROVE  Sole(u, p)'
<1> SUFFICES ASSUME u \notin torn', NEW m \in Numbers \ torn'
             PROVE  holder'[m] = u <=> m = p
  BY DEF Sole
<1>1. u \notin torn /\ m \notin torn
  BY DEF Effect
<1>2. holder[m] = u <=> m = p
  BY <1>1 DEF Sole
<1>3. holder'[m] = u => holder[m] = u
  BY Left
<1>4. m = p => holder'[m] = u
  BY <1>2, Left
<1>5. QED
  BY <1>2, <1>3, <1>4

LEMMA WithinKept ==
    ASSUME IInv, NEW w \in Handlers, TypeOK', Effect(w), Reach(w), NEW v \in Handlers \ {w},
           NEW u \in Users, u \in Touches(job[v]), NEW ms, Within(u, ms)
    PROVE  u \in torn' \/ \A m \in Numbers \ torn' : holder'[m] = u => m \in ms /\ m \in tracked'
<1> SUFFICES ASSUME u \notin torn', NEW m \in Numbers \ torn', holder'[m] = u
             PROVE  m \in ms /\ m \in tracked'
  OBVIOUS
<1>1. u \notin torn /\ m \notin torn
  BY DEF Effect
<1>2. holder[m] = u
  BY Left
<1>3. m \in tracked'
  BY NumbersAssumption DEF TypeOK, NumbersAssumption
<1>4. QED
  BY <1>1, <1>2, <1>3 DEF Within

LEMMA ClaimKept ==
    ASSUME IInv, NEW w \in Handlers, TypeOK', Effect(w), Reach(w), NEW v \in Handlers \ {w},
           Flight(job[v])
    PROVE  ClaimFlight(job[v])'
<1>0. PICK j \in Jobs, k \in Jobs : j = job[v] /\ k = job'[v]
  BY DEF IInv, TypeOK
<1>00. Kept(v) /\ Own(j) /\ torn \subseteq torn'
  BY <1>0 DEF IInv, Effect
<1>1. /\ j.step \in ClaimSteps => j.user \in Users /\ j.number \in Numbers
      /\ j.step = "record" => j.number \in Numbers
  BY <1>00 DEF Own, Fits, UserSteps, NumberSteps
<1>2. /\ k.step = j.step /\ k.user = j.user /\ k.number = j.number /\ k.prev = j.prev
      /\ k.seen = j.seen /\ j.prev \in Numbers \cup {NoNumber} /\ j.seen \subseteq Numbers
  BY <1>0, <1>00, JobTypes DEF Kept
<1>3. /\ j.step \in ClaimSteps => {j.user, j.number} \subseteq Touches(j)
      /\ j.step \in ClaimSteps /\ j.prev \in Numbers => j.prev \in Touches(j)
      /\ j.step = "record" => j.number \in Touches(j)
      /\ j.step = "import" => j.seen \subseteq Touches(j)
  <2>1. /\ j.step \in ClaimSteps => {j.user, j.number} \subseteq Touches(j)
        /\ j.step \in ClaimSteps /\ j.prev \in Numbers => j.prev \in Touches(j)
        /\ j.step = "record" => j.number \in Touches(j)
    BY <1>0, <1>00, <1>1, TouchesAll DEF TouchSteps
  <2>2. j.step = "import" => j.seen \subseteq Touches(j)
    BY DEF Touches, ClaimSteps, ApproveSteps, AssignSteps, UnassignSteps, ReleaseSteps
  <2>3. QED
    BY <2>1, <2>2
<1>4. {"prev", "hold", "route", "free", "take"} \subseteq ClaimSteps
      /\ RecordSteps \subseteq ClaimSteps \cup {"record"}
  BY DEF ClaimSteps, RecordSteps
<1>5. ClaimFlight(j)
  BY <1>0 DEF Flight
<1>6. k.step \in ClaimSteps =>
          k.number \in torn' \/ \A x \in Users \ {k.user} : number'[x] # k.number
  BY <1>0, <1>00, <1>1, <1>2, <1>3, <1>5, Left DEF ClaimFlight, RecordSteps
<1>7. k.step \in RecordSteps => k.number \in owned' \cup torn'
  BY <1>0, <1>00, <1>1, <1>2, <1>3, <1>4, <1>5, Left DEF ClaimFlight, RecordSteps
<1>8. k.step = "hold" => k.user \in torn' \/ number'[k.user] = k.prev
  BY <1>0, <1>00, <1>1, <1>2, <1>3, <1>4, <1>5, Left DEF ClaimFlight, RecordSteps
<1>9. k.step \in {"route", "free", "take"} => k.user \in torn' \/ number'[k.user] = k.number
  BY <1>0, <1>00, <1>1, <1>2, <1>3, <1>4, <1>5, Left DEF ClaimFlight, RecordSteps
<1>10. ASSUME k.step \in {"route", "free"} PROVE Sole(k.user, k.prev)'
  BY <1>0, <1>1, <1>2, <1>3, <1>4, <1>5, <1>10, SoleKept DEF ClaimFlight, RecordSteps
<1>11. ASSUME k.step = "take" PROVE Within(k.user, {k.number})'
  <2>1. PICK u \in Users, n \in Numbers :
            u = j.user /\ n = j.number /\ u \in Touches(job[v]) /\ Within(u, {n})
    BY <1>0, <1>1, <1>2, <1>3, <1>4, <1>5, <1>11 DEF ClaimFlight, RecordSteps
  <2>2. u \in torn' \/ \A m \in Numbers \ torn' : holder'[m] = u => m \in {n} /\ m \in tracked'
    BY <2>1, WithinKept
  <2>3. QED
    BY <1>2, <2>1, <2>2 DEF Within
<1>12. k.step = "import" => k.seen \subseteq owned' \cup torn'
  BY <1>0, <1>00, <1>2, <1>3, <1>5, Left DEF ClaimFlight, RecordSteps
<1>13. ClaimFlight(k)'
  BY <1>6, <1>7, <1>8, <1>9, <1>10, <1>11, <1>12 DEF ClaimFlight, RecordSteps
<1>14. QED
  BY <1>0, <1>13 DEF ClaimFlight, RecordSteps, Sole, Within

LEMMA KeptJob ==
    ASSUME IInv, NEW w \in Handlers, TypeOK', Effect(w), Reach(w), NEW v \in Handlers \ {w}
    PROVE  \E j \in Jobs, k \in Jobs :
               /\ j = job[v] /\ k = job'[v]
               /\ k.step = j.step /\ k.user = j.user /\ k.number = j.number /\ k.other = j.other
               /\ k.rows \subseteq j.rows /\ j.rows \cap tracked' \subseteq k.rows
               /\ j.rows \subseteq tracked
               /\ j.step \in UserSteps => j.user \in Users
               /\ j.step \in NumberSteps => j.number \in Numbers
               /\ j.number \in Numbers \cup {NoNumber} /\ j.other \in Users \cup {NoUser}
               /\ j.step \in TouchSteps =>
                      /\ \A x \in {j.user, j.other, j.number} \cup j.rows :
                             x \in Users \cup Numbers => x \in Touches(job[v])
                      /\ j.rows \subseteq Numbers
<1>1. job[v] \in Jobs /\ job'[v] \in Jobs /\ Kept(v) /\ Own(job[v])
  BY DEF IInv, TypeOK, Effect
<1>2. job[v].rows \cap tracked' \subseteq job'[v].rows
  BY DEF Reach
<1>3. /\ job[v].number \in Numbers \cup {NoNumber} /\ job[v].other \in Users \cup {NoUser}
      /\ job[v].step \in TouchSteps =>
             /\ \A x \in {job[v].user, job[v].other, job[v].number} \cup job[v].rows :
                    x \in Users \cup Numbers => x \in Touches(job[v])
             /\ job[v].rows \subseteq Numbers
  BY <1>1, JobTypes, TouchesAll
<1>4. QED
  BY <1>1, <1>2, <1>3 DEF Kept, Own, Fits

LEMMA NoTouch == \A j \in Jobs : NoUser \notin Touches(j) /\ NoNumber \notin Touches(j)
<1>1. NoUser \notin Users \cup Numbers /\ NoNumber \notin Users \cup Numbers
  BY NumbersAssumption DEF NumbersAssumption
<1>2. QED
  BY <1>1, JobTypes DEF Touches

LEMMA ApproveKept ==
    ASSUME IInv, NEW w \in Handlers, TypeOK', Effect(w), Reach(w), NEW v \in Handlers \ {w},
           Flight(job[v])
    PROVE  ApproveFlight(job[v])'
<1>1. PICK j \in Jobs, k \in Jobs :
               /\ j = job[v] /\ k = job'[v]
               /\ k.step = j.step /\ k.user = j.user /\ k.number = j.number
               /\ j.step \in UserSteps => j.user \in Users
               /\ j.step \in NumberSteps => j.number \in Numbers
               /\ j.number \in Numbers \cup {NoNumber}
               /\ j.step \in TouchSteps =>
                      \A x \in {j.user, j.other, j.number} \cup j.rows :
                          x \in Users \cup Numbers => x \in Touches(job[v])
  BY KeptJob
<1>2. ApproveFlight(j) /\ torn \subseteq torn' /\ job[w] \in Jobs
  BY <1>1 DEF Flight, Effect, IInv, TypeOK
<1>3. {"pick", "seat", "accept", "post"} \subseteq UserSteps \cap TouchSteps
      /\ "seat" \in NumberSteps
  BY DEF UserSteps, TouchSteps, ApproveSteps, NumberSteps
<1>4. k.step = "pick" => k.number = NoNumber
  BY <1>1, <1>2 DEF ApproveFlight
<1>5. k.step \in {"pick", "seat"} => k.user \in torn' \/ number'[k.user] = NoNumber
  BY <1>1, <1>2, <1>3, Left DEF ApproveFlight
<1>6. k.step = "seat" => k.number \in torn' \/ holder'[k.number] = NoUser
  BY <1>1, <1>2, <1>3, Left DEF ApproveFlight
<1>7. ASSUME k.step \in {"accept", "post"}, k.number # NoNumber PROVE Sole(k.user, k.number)'
  <2>1. Sole(j.user, j.number) /\ j.user \in Users /\ j.number \in Numbers
        /\ {j.user, j.number} \subseteq Touches(job[v])
    BY <1>1, <1>2, <1>3, <1>7 DEF ApproveFlight
  <2>2. QED
    BY <1>1, <2>1, SoleKept
<1>8. ApproveFlight(k)'
  BY <1>4, <1>5, <1>6, <1>7 DEF ApproveFlight
<1>9. QED
  BY <1>1, <1>8 DEF ApproveFlight, Sole

LEMMA AssignKept ==
    ASSUME IInv, NEW w \in Handlers, TypeOK', Effect(w), Reach(w), NEW v \in Handlers \ {w},
           Flight(job[v])
    PROVE  AssignFlight(job[v])'
<1>1. PICK j \in Jobs, k \in Jobs :
               /\ j = job[v] /\ k = job'[v]
               /\ k.step = j.step /\ k.user = j.user /\ k.number = j.number /\ k.other = j.other
               /\ k.rows \subseteq j.rows /\ j.rows \cap tracked' \subseteq k.rows
               /\ j.rows \subseteq tracked
               /\ j.step \in UserSteps => j.user \in Users
               /\ j.step \in NumberSteps => j.number \in Numbers
               /\ j.number \in Numbers \cup {NoNumber} /\ j.other \in Users \cup {NoUser}
               /\ j.step \in TouchSteps =>
                      /\ \A x \in {j.user, j.other, j.number} \cup j.rows :
                             x \in Users \cup Numbers => x \in Touches(job[v])
                      /\ j.rows \subseteq Numbers
  BY KeptJob
<1>2. AssignFlight(j) /\ torn \subseteq torn' /\ NoUser \notin Touches(job[w])
  BY <1>1, NoTouch DEF Flight, Effect, IInv, TypeOK
<1>3. /\ {"others", "swap", "letgo", "show"} \subseteq UserSteps \cap NumberSteps \cap TouchSteps
      /\ {"clear", "pool"} \subseteq NumberSteps \cap TouchSteps
  BY DEF UserSteps, TouchSteps, AssignSteps, UnassignSteps, NumberSteps
<1>4. \A n \in Numbers : n \in Touches(job[v]) =>
          /\ n \in tracked => n \in tracked' \cup torn'
          /\ \/ n \in torn' \/ holder'[n] = holder[n]
             \/ holder'[n] = NoUser /\ holder[n] \in Touches(job[w])
  BY Left
<1>5. ASSUME k.step \in {"clear", "pool", "others", "swap"}, k.number \notin torn'
      PROVE  /\ k.number \in k.rows
             /\ holder'[k.number] = k.other \/ (holder'[k.number] = NoUser /\ k.other \in torn')
  <2>1. /\ j.number \in Numbers /\ j.number \in Touches(job[v]) /\ j.number \in j.rows
        /\ holder[j.number] = j.other \/ (holder[j.number] = NoUser /\ j.other \in torn)
    BY <1>1, <1>2, <1>3, <1>5 DEF AssignFlight
  <2>2. j.other \in Users => j.other \in Touches(job[v])
    BY <1>1, <1>3, <1>5
  <2>3. k.number \in k.rows
    BY <1>1, <1>4, <1>5, <2>1
  <2>4. CASE holder'[j.number] = holder[j.number]
    BY <1>1, <1>2, <2>1, <2>3, <2>4
  <2>5. CASE holder'[j.number] = NoUser /\ holder[j.number] \in Touches(job[w])
    <3>1. holder[j.number] = j.other /\ j.other \in Users
      BY <1>1, <1>2, <2>1, <2>5
    <3>2. j.other \in torn'
      BY <2>2, <2>5, <3>1, Apart
    <3>3. QED
      BY <1>1, <2>3, <2>5, <3>2
  <2>6. QED
    BY <1>1, <1>4, <1>5, <2>1, <2>4, <2>5
<1>6. k.step \in {"clear", "pool", "others"} => k.rows \subseteq {k.number}
  BY <1>1, <1>2 DEF AssignFlight
<1>7. k.step = "pool" =>
           {k.other, k.number} \cap torn' # {} \/ k.other = NoUser \/ number'[k.other] # k.number
  BY <1>1, <1>2, <1>3, Left DEF AssignFlight
<1>8. ASSUME k.step = "swap"
      PROVE  /\ Within(k.user, k.rows)'
             /\ \A m \in k.rows \ (torn' \cup {k.number}) : holder'[m] \in {k.user, NoUser}
  <2>1. PICK u \in Users, ms \in SUBSET Numbers :
            u = j.user /\ ms = j.rows /\ u \in Touches(job[v]) /\ Within(u, ms)
            /\ \A m \in ms : m \in Touches(job[v])
    BY <1>1, <1>2, <1>3, <1>8 DEF AssignFlight
  <2>2. u \in torn' \/ \A m \in Numbers \ torn' : holder'[m] = u => m \in ms /\ m \in tracked'
    BY <2>1, WithinKept
  <2>3. \A m \in ms \ (torn' \cup {k.number}) : holder'[m] \in {u, NoUser}
    BY <1>1, <1>2, <1>4, <1>8, <2>1 DEF AssignFlight
  <2>4. QED
    BY <1>1, <2>1, <2>2, <2>3 DEF Within
<1>9. k.step = "letgo" =>
           /\ k.other \in Users \ {k.user}
           /\ k.number \in torn' \/ holder'[k.number] \in {k.user, NoUser}
  BY <1>1, <1>2, <1>3, <1>4 DEF AssignFlight
<1>10. ASSUME k.step \in {"letgo", "show"} PROVE Sole(k.user, k.number)'
  <2>1. Sole(j.user, j.number) /\ j.user \in Users /\ j.number \in Numbers
        /\ {j.user, j.number} \subseteq Touches(job[v])
    BY <1>1, <1>2, <1>3, <1>10 DEF AssignFlight
  <2>2. QED
    BY <1>1, <2>1, SoleKept
<1>11. AssignFlight(k)'
  BY <1>5, <1>6, <1>7, <1>8, <1>9, <1>10 DEF AssignFlight
<1>12. QED
  BY <1>1, <1>11 DEF AssignFlight, Sole, Within

LEMMA ReleaseKept ==
    ASSUME IInv, NEW w \in Handlers, TypeOK', Effect(w), Reach(w), NEW v \in Handlers \ {w},
           Flight(job[v])
    PROVE  ReleaseFlight(job[v])'
<1>1. PICK j \in Jobs, k \in Jobs :
               /\ j = job[v] /\ k = job'[v]
               /\ k.step = j.step /\ k.user = j.user /\ k.number = j.number
               /\ k.rows \subseteq j.rows /\ j.rows \cap tracked' \subseteq k.rows
               /\ j.rows \subseteq tracked
               /\ j.step \in UserSteps => j.user \in Users
               /\ j.step \in NumberSteps => j.number \in Numbers
               /\ j.step \in TouchSteps =>
                      /\ \A x \in {j.user, j.other, j.number} \cup j.rows :
                             x \in Users \cup Numbers => x \in Touches(job[v])
                      /\ j.rows \subseteq Numbers
  BY KeptJob
<1>2. ReleaseFlight(j) /\ torn \subseteq torn' /\ NoUser \notin Touches(job[w])
  BY <1>1, NoTouch DEF Flight, Effect, IInv, TypeOK
<1>3. /\ ReleaseSteps \subseteq UserSteps \cap TouchSteps
      /\ {"hand", "strike", "blank"} \subseteq ReleaseSteps
      /\ "strike" \in NumberSteps
  BY DEF UserSteps, TouchSteps, SweepSteps, ReleaseSteps, NumberSteps
<1>4. \A n \in Numbers : n \in Touches(job[v]) =>
          /\ n \in tracked => n \in tracked' \cup torn'
          /\ \/ n \in torn' \/ holder'[n] = holder[n]
             \/ holder'[n] = NoUser /\ holder[n] \in Touches(job[w])
  BY Left
<1>5. ASSUME k.step \in {"hand", "strike", "blank"} PROVE Within(k.user, k.rows)'
  <2>1. PICK u \in Users, ms \in SUBSET Numbers :
            u = j.user /\ ms = j.rows /\ u \in Touches(job[v]) /\ Within(u, ms)
    BY <1>1, <1>2, <1>3, <1>5 DEF ReleaseFlight
  <2>2. u \in torn' \/ \A m \in Numbers \ torn' : holder'[m] = u => m \in ms /\ m \in tracked'
    BY <2>1, WithinKept
  <2>3. QED
    BY <1>1, <2>1, <2>2 DEF Within
<1>6. ASSUME k.step \in ReleaseSteps, NEW m \in k.rows \ torn'
      PROVE  holder'[m] = k.user \/ (holder'[m] = NoUser /\ k.user \in torn')
  <2>1. /\ j.user \in Users /\ j.user \in Touches(job[v]) /\ m \in Numbers /\ m \in Touches(job[v])
        /\ holder[m] = j.user \/ (holder[m] = NoUser /\ j.user \in torn)
    BY <1>1, <1>2, <1>3, <1>6 DEF ReleaseFlight
  <2>2. holder[m] = j.user /\ j.user \in Touches(job[w]) => j.user \in torn'
    BY <2>1, Apart
  <2>3. QED
    BY <1>1, <1>2, <1>4, <1>6, <2>1, <2>2
<1>7. k.step = "strike" => k.number \in torn' \/ k.number \in k.rows
  BY <1>1, <1>2, <1>3, <1>4 DEF ReleaseFlight
<1>8. ReleaseFlight(k)'
  BY <1>1, <1>2, <1>5, <1>6, <1>7 DEF ReleaseFlight
<1>9. QED
  BY <1>1, <1>8 DEF ReleaseFlight, Within

LEMMA FlightKept ==
    ASSUME IInv, NEW w \in Handlers, TypeOK', Effect(w), Reach(w), NEW v \in Handlers \ {w},
           Flight(job[v])
    PROVE  Flight(job[v])'
<1>1. ClaimFlight(job[v])' /\ ApproveFlight(job[v])' /\ AssignFlight(job[v])'
      /\ ReleaseFlight(job[v])'
  BY ClaimKept, ApproveKept, AssignKept, ReleaseKept
<1>2. QED
  BY <1>1 DEF Flight

LEMMA StepAgrees ==
    ASSUME IInv, AInv, NEW w \in Handlers, Facts(w), Moved(w)
    PROVE  AInv'
<1>1. Pairs' /\ Paid'
  BY PairsStep, PaidStep DEF Facts, Moved
<1>2. \A v \in Handlers : Flight(job[v])'
  BY FlightKept DEF Facts, Moved, AInv
<1>3. QED
  BY <1>1, <1>2 DEF AInv

--------------------------------------------------------------------------------
(* What a step has to show.                                                *)

\* Nobody else is half way through a customer whom only w touches.
LEMMA AloneAgree ==
    ASSUME IInv, AInv, NEW w \in Handlers, Facts(w), Reach(w),
           NEW u \in Users \ torn', u \in Touches(job[w]) \cup Touches(job'[w]),
           NEW m \in Numbers \ torn', ~Mid(job[w], u, m)
    PROVE  Agree(u, m)
<1>1. u \notin torn /\ m \notin torn /\ Clashes(job') \subseteq torn'
  BY DEF Facts, Effect
<1>2. ASSUME NEW v \in Handlers \ {w}, Mid(job[v], u, m) PROVE FALSE
  <2>1. u \in Touches(job[v])
    BY <1>2, MidTouches DEF IInv, TypeOK
  <2>2. u \in Touches(job'[v])
    <3>1. Mid(job'[v], u, m) /\ job'[v] \in Jobs
      BY <1>2, MidKept DEF Facts, TypeOK
    <3>2. QED
      BY <3>1, MidTouches
  <2>3. u \notin Touches(job[w])
    BY <2>1, Apart DEF Facts
  <2>4. u \notin Touches(job'[w])
    BY <1>1, <2>2, Clash
  <2>5. QED
    BY <2>3, <2>4
<1>3. QED
  BY <1>1, <1>2 DEF AInv, Pairs

\* A step relies on what its next job says.
LEMMA FlightOf ==
    ASSUME NEW w \in Handlers, NEW j, job'[w] = j, Flight(j)'
    PROVE  Flight(job[w])'
BY DEF Flight, ClaimFlight, RecordSteps, ApproveFlight, AssignFlight, ReleaseFlight, Sole, Within

LEMMA FlightOfStep ==
    ASSUME NEW j
    PROVE  /\ j.step \in ClaimSteps \cup {"record", "import"} /\ ClaimFlight(j)' => Flight(j)'
           /\ j.step \in ApproveSteps /\ ApproveFlight(j)' => Flight(j)'
           /\ j.step \in AssignSteps \cup UnassignSteps /\ AssignFlight(j)' => Flight(j)'
           /\ j.step \in ReleaseSteps /\ ReleaseFlight(j)' => Flight(j)'
           /\ j.step \notin TouchSteps \ {"purchase"} /\ j.step # "import" => Flight(j)'
<1>1. ASSUME j.step \notin ClaimSteps \cup {"record", "import"} PROVE ClaimFlight(j)'
  BY <1>1 DEF ClaimFlight, RecordSteps, ClaimSteps
<1>2. ASSUME j.step \notin ApproveSteps PROVE ApproveFlight(j)'
  BY <1>2 DEF ApproveFlight, ApproveSteps
<1>3. ASSUME j.step \notin AssignSteps \cup UnassignSteps PROVE AssignFlight(j)'
  BY <1>3 DEF AssignFlight, AssignSteps, UnassignSteps
<1>4. ASSUME j.step \notin ReleaseSteps PROVE ReleaseFlight(j)'
  BY <1>4 DEF ReleaseFlight, ReleaseSteps
<1>5. /\ j.step \in ClaimSteps \cup {"record", "import"} =>
             j.step \notin ApproveSteps \cup AssignSteps \cup UnassignSteps \cup ReleaseSteps
      /\ j.step \in ApproveSteps =>
             j.step \notin ClaimSteps \cup {"record", "import"} \cup AssignSteps \cup UnassignSteps
                           \cup ReleaseSteps
      /\ j.step \in AssignSteps \cup UnassignSteps =>
             j.step \notin ClaimSteps \cup {"record", "import"} \cup ApproveSteps \cup ReleaseSteps
      /\ j.step \in ReleaseSteps =>
             j.step \notin ClaimSteps \cup {"record", "import"} \cup ApproveSteps \cup AssignSteps
                           \cup UnassignSteps
  BY DEF ClaimSteps, ApproveSteps, AssignSteps, UnassignSteps, ReleaseSteps
<1>6. j.step \notin TouchSteps \ {"purchase"} /\ j.step # "import" =>
          j.step \notin ClaimSteps \cup {"record", "import"} \cup ApproveSteps \cup AssignSteps
                        \cup UnassignSteps \cup ReleaseSteps
  BY DEF TouchSteps, ClaimSteps, ApproveSteps, AssignSteps, UnassignSteps, ReleaseSteps
<1>7. QED
  BY <1>1, <1>2, <1>3, <1>4, <1>5, <1>6 DEF Flight

\* A step that moves no number, and records only numbers that are paid for.
LEMMA StillReach ==
    ASSUME NEW w \in Handlers, UNCHANGED <<number, holder>>, owned \subseteq owned',
           tracked \subseteq tracked', \A v \in Handlers \ {w} : job'[v].rows = job[v].rows
    PROVE  Reach(w)
BY DEF Reach

LEMMA StillMoved ==
    ASSUME IInv, NEW w \in Handlers, UNCHANGED <<number, holder>>, owned \subseteq owned',
           tracked \subseteq tracked', \A v \in Handlers \ {w} : job'[v].rows = job[v].rows,
           tracked' \ tracked \subseteq owned' \cup torn',
           job[w].step = "strike" => job[w].number \in torn',
           \A u \in Users \ torn', m \in Numbers \ torn' :
               Mid(job[w], u, m) => Mid(job'[w], u, m),
           Flight(job[w])'
    PROVE  Moved(w)
<1>1. Reach(w)
  BY StillReach
<1>2. Moves(w)
  BY DEF Moves, Agree
<1>3. QED
  BY <1>1, <1>2 DEF Moved

LEMMA NotMid ==
    ASSUME NEW j, j.step \notin {"route", "free", "take", "accept", "post", "pool", "letgo", "show",
                                 "hand", "strike", "blank"}, NEW u, NEW m
    PROVE  ~Mid(j, u, m)
BY DEF Mid

LEMMA QuietMoved ==
    ASSUME IInv, NEW w \in Handlers, NEW j \in Jobs, Go(w, j), UNCHANGED <<number, rowVars>>,
           owned \subseteq owned', job[w].step = "strike" => job[w].number \in torn',
           \A u \in Users \ torn', m \in Numbers \ torn' : Mid(job[w], u, m) => Mid(j, u, m),
           Flight(j)'
    PROVE  Moved(w)
<1>1. /\ job'[w] = j
      /\ \A v \in Handlers \ {w} : job'[v] = job[v]
  BY GoType DEF IInv
<1>2. Flight(job[w])'
  BY <1>1, FlightOf
<1>3. QED
  BY <1>1, <1>2, StillMoved DEF rowVars

\* A job that ends, or goes on to a step that relies on nothing.
LEMMA PlainMoved ==
    ASSUME IInv, NEW w \in Handlers, NEW j \in Jobs, Go(w, j), UNCHANGED <<number, rowVars>>,
           owned \subseteq owned', job[w].step = "strike" => job[w].number \in torn',
           \A u \in Users \ torn', m \in Numbers \ torn' : ~Mid(job[w], u, m),
           j.step \notin TouchSteps \ {"purchase"}, j.step # "import"
    PROVE  Moved(w)
<1>1. Flight(j)'
  BY FlightOfStep
<1>2. QED
  BY <1>1, QuietMoved

LEMMA IdleIsPlain == Idle.step \notin TouchSteps \ {"purchase"} /\ Idle.step # "import"
BY DEF Idle, TouchSteps, ClaimSteps, ApproveSteps, AssignSteps, UnassignSteps, ReleaseSteps

LEMMA DoneMoved ==
    ASSUME IInv, NEW w \in Handlers, Done(w), UNCHANGED <<number, rowVars>>,
           owned \subseteq owned', job[w].step = "strike" => job[w].number \in torn',
           \A u \in Users \ torn', m \in Numbers \ torn' : ~Mid(job[w], u, m)
    PROVE  Moved(w)
BY IdleType, IdleIsPlain, PlainMoved DEF Done

--------------------------------------------------------------------------------
(* Claims.                                                                 *)

LEMMA StartClaimMoved ==
    ASSUME IInv, AInv, NEW w \in Handlers, NEW u \in Users, NEW n \in Numbers,
           Claim(w, u, n) \/ Buy(w, u, n)
    PROVE  Moved(w)
<1>1. PICK s \in {"prev", "buy"} :
          /\ Request(w, [Idle EXCEPT !.step = s, !.user = u, !.number = n])
          /\ s = "prev" => n \in owned
  BY DEF Claim, Buy
<1>2. PICK j \in Jobs :
          /\ j = [Idle EXCEPT !.step = s, !.user = u, !.number = n]
          /\ j.step = s /\ j.user = u /\ j.number = n
  <2>1. [Idle EXCEPT !.step = s, !.user = u, !.number = n] \in Jobs
    BY DEF Idle, Jobs, Steps, ClaimSteps
  <2>2. QED
    BY <2>1 DEF Idle
<1>3. ~HeldByAnother(u, n) /\ UNCHANGED <<number, rowVars, owned>>
  BY DEF Claim, Buy, profileVars
<1>4. Go(w, j) /\ job[w].step = "idle"
  BY <1>1, <1>2 DEF Request, Start
<1>5. ClaimFlight(j)'
  BY <1>1, <1>2, <1>3 DEF ClaimFlight, RecordSteps, HeldByAnother
<1>6. Flight(j)'
  BY <1>2, <1>5, FlightOfStep DEF ClaimSteps
<1>7. \A v \in Users, m \in Numbers : ~Mid(job[w], v, m)
  BY <1>4, NotMid
<1>8. QED
  BY <1>3, <1>4, <1>6, <1>7, QuietMoved

LEMMA BuyNumberMoved ==
    ASSUME IInv, AInv, NEW w \in Handlers, BuyNumber(w)
    PROVE  Moved(w)
<1>1. job[w].step = "buy" /\ UNCHANGED <<number, rowVars>> /\ torn \subseteq torn'
  BY TearsType DEF BuyNumber, IInv, profileVars
<1>2. \A v \in Users, m \in Numbers : ~Mid(job[w], v, m)
  BY <1>1, NotMid
<1>3. CASE Done(w) /\ UNCHANGED owned
  BY <1>1, <1>2, <1>3, DoneMoved
<1>4. CASE Go(w, Step(w, "prev")) /\ owned' = owned \cup {job[w].number}
  <2>1. PICK j \in Jobs : /\ j = Step(w, "prev") /\ j.step = "prev" /\ j.user = job[w].user
                          /\ j.number = job[w].number
    BY StepType DEF IInv, Steps, ClaimSteps
  <2>2. ClaimFlight(job[w])
    BY DEF AInv, Flight
  <2>3. ClaimFlight(j)'
    BY <1>1, <1>4, <2>1, <2>2 DEF ClaimFlight, RecordSteps, ClaimSteps
  <2>4. Flight(j)'
    BY <2>1, <2>3, FlightOfStep DEF ClaimSteps
  <2>5. QED
    BY <1>1, <1>2, <1>4, <2>1, <2>4, QuietMoved
<1>5. QED
  BY <1>3, <1>4 DEF BuyNumber

LEMMA ReadPreviousMoved ==
    ASSUME IInv, AInv, NEW w \in Handlers, ReadPrevious(w)
    PROVE  Moved(w)
<1>1. job[w].step = "prev" /\ UNCHANGED <<number, rowVars, owned>> /\ torn \subseteq torn'
  BY TearsType DEF ReadPrevious, IInv, profileVars
<1>2. \A v \in Users, m \in Numbers : ~Mid(job[w], v, m)
  BY <1>1, NotMid
<1>3. job[w].user \in Users /\ number[job[w].user] \in Numbers \cup {NoNumber}
  BY <1>1 DEF IInv, TypeOK, Own, Fits, UserSteps, ClaimSteps
<1>4. PICK j \in Jobs : /\ j = [Step(w, "hold") EXCEPT !.prev = number[job[w].user]]
                        /\ j.step = "hold" /\ j.user = job[w].user /\ j.number = job[w].number
                        /\ j.prev = number[job[w].user]
  <2>1. Step(w, "hold") \in Jobs /\ Step(w, "hold").step = "hold"
        /\ Step(w, "hold").user = job[w].user /\ Step(w, "hold").number = job[w].number
    BY StepType DEF IInv, Steps, ClaimSteps
  <2> DEFINE k == [Step(w, "hold") EXCEPT !.prev = number[job[w].user]]
  <2> HIDE DEF Step
  <2>2. k \in Jobs /\ k.step = "hold" /\ k.user = job[w].user /\ k.number = job[w].number
        /\ k.prev = number[job[w].user]
    BY <1>3, <2>1 DEF Jobs
  <2>3. QED
    BY <2>2 DEF k
<1>5. ClaimFlight(job[w])
  BY DEF AInv, Flight
<1>6. ClaimFlight(j)'
  BY <1>1, <1>4, <1>5 DEF ClaimFlight, RecordSteps, ClaimSteps
<1>7. Flight(j)'
  BY <1>4, <1>6, FlightOfStep DEF ClaimSteps
<1>8. Go(w, j)
  BY <1>4 DEF ReadPrevious
<1>9. QED
  BY <1>1, <1>2, <1>7, <1>8, QuietMoved

LEMMA RouteNumberMoved ==
    ASSUME IInv, AInv, NEW w \in Handlers, RouteNumber(w)
    PROVE  Moved(w)
<1>1. job[w].step = "route" /\ UNCHANGED <<number, rowVars, owned>> /\ torn \subseteq torn'
  BY TearsType DEF RouteNumber, IInv
<1>2. PICK j \in Jobs : /\ j = Step(w, "free") /\ j.step = "free" /\ j.user = job[w].user
                        /\ j.number = job[w].number /\ j.prev = job[w].prev
  BY StepType DEF IInv, Steps, ClaimSteps
<1>3. \A v \in Users, m \in Numbers : Mid(job[w], v, m) => Mid(j, v, m)
  BY <1>1, <1>2 DEF Mid
<1>4. ClaimFlight(job[w])
  BY DEF AInv, Flight
<1>5. ClaimFlight(j)'
  BY <1>1, <1>2, <1>4 DEF ClaimFlight, RecordSteps, ClaimSteps, Sole, rowVars
<1>6. Flight(j)'
  BY <1>2, <1>5, FlightOfStep DEF ClaimSteps
<1>7. Go(w, j)
  BY <1>2 DEF RouteNumber
<1>8. QED
  BY <1>1, <1>3, <1>6, <1>7, QuietMoved

\* A step that changes only the number of the customer it is at work for.
LEMMA ShowReach ==
    ASSUME IInv, NEW w \in Handlers, NEW j \in Jobs, Go(w, j), UNCHANGED <<owned, rowVars>>,
           NEW u \in Users, NEW n \in Numbers \cup {NoNumber}, ShowNumber(u, n),
           u \in Touches(job[w]), n \in Touches(job[w]) \cup {NoNumber}
    PROVE  Reach(w)
<1>1. \A v \in Handlers \ {w} : job'[v] = job[v]
  BY GoType DEF IInv
<1>2. \A v \in Users : number'[v] # number[v] => v = u /\ number'[v] = n
  BY DEF ShowNumber, IInv, TypeOK
<1>3. QED
  BY <1>1, <1>2 DEF Reach, rowVars

LEMMA HoldNumberMoved ==
    ASSUME IInv, AInv, NEW w \in Handlers, HoldNumber(w)
    PROVE  Moved(w)
<1>1. job[w].step = "hold" /\ UNCHANGED <<rowVars, owned>> /\ torn \subseteq torn' /\ Facts(w)
  BY TearsType, ClaimFacts DEF HoldNumber, IInv
<1>2. PICK u \in Users, n \in Numbers, p \in Numbers \cup {NoNumber} :
          u = job[w].user /\ n = job[w].number /\ p = job[w].prev
  BY <1>1, JobTypes DEF IInv, TypeOK, Own, Fits, UserSteps, NumberSteps, ClaimSteps
<1>3. u \in Touches(job[w]) /\ n \in Touches(job[w])
  BY <1>1, <1>2 DEF Touches, ClaimSteps
<1>4. PICK j \in Jobs : /\ j = Step(w, "route") /\ j.step = "route" /\ j.user = u
                        /\ j.number = n /\ j.prev = p
  BY <1>2, StepType DEF IInv, Steps, ClaimSteps
<1>5. Go(w, j) /\ ShowNumber(u, n)
  BY <1>2, <1>4 DEF HoldNumber
<1>6. Reach(w)
  BY <1>1, <1>2, <1>3, <1>5, ShowReach
<1>7. job'[w] = j
  BY <1>5, GoType DEF IInv
<1>8. number'[u] = n /\ \A v \in Users \ {u} : number'[v] = number[v]
  BY <1>5 DEF ShowNumber, IInv, TypeOK
<1>9. \A v \in Users, m \in Numbers : ~Mid(job[w], v, m)
  BY <1>1, NotMid
<1>10. u \in torn \/ number[u] = p
  BY <1>1, <1>2 DEF AInv, Flight, ClaimFlight, RecordSteps
<1>11. Moves(w)
  <2>1. ASSUME NEW v \in Users \ torn', NEW m \in Numbers \ torn', Agree(v, m)
        PROVE  Agree(v, m)' \/ Mid(j, v, m)
    <3>1. CASE v # u
      BY <1>1, <1>8, <2>1, <3>1 DEF Agree, rowVars
    <3>2. CASE v = u /\ m \in {n, p}
      BY <1>4, <3>2 DEF Mid
    <3>3. CASE v = u /\ m \notin {n, p}
      BY <1>1, <1>8, <1>10, <2>1, <3>3 DEF Agree, rowVars
    <3>4. QED
      BY <3>1, <3>2, <3>3
  <2>2. QED
    BY <1>1, <1>7, <1>9, <2>1 DEF Moves, rowVars
<1>12. Sole(u, p)'
  <2> SUFFICES ASSUME u \notin torn', NEW m \in Numbers \ torn'
               PROVE  holder'[m] = u <=> m = p
    BY DEF Sole
  <2>1. Agree(u, m)
    BY <1>1, <1>3, <1>6, <1>9, AloneAgree
  <2>2. QED
    BY <1>1, <1>10, <2>1 DEF Agree, rowVars
<1>13. Flight(j)'
  <2>1. ClaimFlight(job[w])
    BY DEF AInv, Flight
  <2>2. ClaimFlight(j)'
    BY <1>1, <1>2, <1>4, <1>8, <1>12, <2>1 DEF ClaimFlight, RecordSteps, ClaimSteps
  <2>3. QED
    BY <1>4, <2>2, FlightOfStep DEF ClaimSteps
<1>14. QED
  BY <1>6, <1>7, <1>11, <1>13, FlightOf DEF Moved

\* The profile shows the number whose rows are the customer's, and the job ends.
LEMMA ShowMoved ==
    ASSUME IInv, AInv, NEW w \in Handlers, NEW u \in Users, NEW n \in Numbers \cup {NoNumber},
           UNCHANGED <<rowVars, owned>>, torn \subseteq torn', ShowNumber(u, n), Reach(w),
           Sole(u, n), job[w].step \in {"route", "post", "show", "blank"},
           \A v \in Users, m \in Numbers : Mid(job[w], v, m) => v = u
    PROVE  Moves(w)
<1>1. number'[u] = n /\ \A v \in Users \ {u} : number'[v] = number[v]
  BY DEF ShowNumber, IInv, TypeOK
<1>2. ASSUME NEW v \in Users \ torn', NEW m \in Numbers \ torn',
             Agree(v, m) \/ Mid(job[w], v, m)
      PROVE  Agree(v, m)'
  <2>1. CASE v = u
    BY <1>1, <2>1 DEF Agree, Sole, rowVars
  <2>2. CASE v # u
    BY <1>1, <1>2, <2>2 DEF Agree, rowVars
  <2>3. QED
    BY <2>1, <2>2
<1>3. QED
  BY <1>2 DEF Moves, rowVars

LEMMA RouteRefusedMoved ==
    ASSUME IInv, AInv, NEW w \in Handlers, RouteRefused(w)
    PROVE  Moved(w)
<1>1. job[w].step = "route" /\ UNCHANGED <<rowVars, owned>> /\ torn \subseteq torn' /\ Done(w)
  BY TearsType DEF RouteRefused, IInv
<1>2. PICK u \in Users, p \in Numbers \cup {NoNumber} : u = job[w].user /\ p = job[w].prev
  BY <1>1, JobTypes DEF IInv, TypeOK, Own, Fits, UserSteps, ClaimSteps
<1>3. u \in Touches(job[w]) /\ p \in Touches(job[w]) \cup {NoNumber}
  BY <1>1, <1>2 DEF Touches, ClaimSteps
<1>4. ShowNumber(u, p)
  BY <1>2 DEF RouteRefused
<1>5. Reach(w)
  BY <1>1, <1>2, <1>3, <1>4, IdleType, ShowReach DEF Done
<1>6. Sole(u, p)
  BY <1>1, <1>2 DEF AInv, Flight, ClaimFlight, RecordSteps
<1>7. \A v \in Users, m \in Numbers : Mid(job[w], v, m) => v = u
  BY <1>1, <1>2 DEF Mid
<1>8. Moves(w)
  BY <1>1, <1>4, <1>5, <1>6, <1>7, ShowMoved
<1>9. Flight(job[w])'
  BY <1>1, IdleType, IdleIsPlain, GoType, FlightOf, FlightOfStep DEF Done, IInv
<1>10. QED
  BY <1>5, <1>8, <1>9 DEF Moved

LEMMA ChargeDeclinedMoved ==
    ASSUME IInv, AInv, NEW w \in Handlers, ChargeDeclined(w)
    PROVE  Moved(w)
<1>1. job[w].step = "prev" /\ UNCHANGED <<number, rowVars, owned>> /\ torn \subseteq torn'
      /\ Done(w)
  BY TearsType DEF ChargeDeclined, IInv, profileVars
<1>2. \A v \in Users, m \in Numbers : ~Mid(job[w], v, m)
  BY <1>1, NotMid
<1>3. QED
  BY <1>1, <1>2, DoneMoved

LEMMA FreeOthersMoved ==
    ASSUME IInv, AInv, NEW w \in Handlers, FreeOthers(w)
    PROVE  Moved(w)
<1>1. job[w].step = "free" /\ UNCHANGED <<number, owned, tracked>> /\ torn \subseteq torn'
  BY TearsType DEF FreeOthers, IInv, profileVars
<1>2. PICK u \in Users, n \in Numbers : u = job[w].user /\ n = job[w].number
  BY <1>1 DEF IInv, Own, Fits, UserSteps, NumberSteps, ClaimSteps
<1>3. u \in Touches(job[w]) /\ n \in Touches(job[w])
  BY <1>1, <1>2 DEF Touches, ClaimSteps
<1>4. PICK j \in Jobs : /\ j = Step(w, "take") /\ j.step = "take" /\ j.user = u /\ j.number = n
                        /\ j.prev = job[w].prev
  BY <1>2, StepType DEF IInv, Steps, ClaimSteps
<1>5. job'[w] = j /\ \A v \in Handlers \ {w} : job'[v] = job[v]
  BY <1>4, GoType DEF FreeOthers, IInv
<1>6. \A m \in Numbers : holder'[m] = IF m \in tracked /\ holder[m] = u /\ m # n
                                      THEN NoUser ELSE holder[m]
  BY <1>2 DEF FreeOthers, Free, RowsOf
<1>7. NoUser \notin Users
  BY NumbersAssumption DEF NumbersAssumption
<1>8. Reach(w)
  BY <1>1, <1>3, <1>5, <1>6 DEF Reach
<1>9. u \in torn \/ number[u] = n
  BY <1>1, <1>2 DEF AInv, Flight, ClaimFlight, RecordSteps
<1>10. Moves(w)
  <2>1. ASSUME NEW v \in Users \ torn', NEW m \in Numbers \ torn',
               Agree(v, m) \/ Mid(job[w], v, m)
        PROVE  Agree(v, m)' \/ Mid(j, v, m)
    <3>1. CASE Mid(job[w], v, m)
      BY <1>1, <1>2, <1>4, <3>1 DEF Mid
    <3>2. CASE v # u /\ Agree(v, m)
      BY <1>1, <1>6, <1>7, <3>2 DEF Agree
    <3>3. CASE v = u /\ m = n
      BY <1>4, <3>3 DEF Mid
    <3>4. CASE v = u /\ m # n /\ Agree(v, m)
      BY <1>1, <1>6, <1>7, <1>9, <3>4 DEF Agree
    <3>5. QED
      BY <2>1, <3>1, <3>2, <3>3, <3>4
  <2>2. QED
    BY <1>1, <1>5, <2>1 DEF Moves
<1>11. Flight(j)'
  <2>1. ClaimFlight(job[w])
    BY DEF AInv, Flight
  <2>2. Within(u, {n})'
    <3>1. \A m \in Numbers : holder[m] = u => m \in tracked
      BY <1>7 DEF IInv, TypeOK
    <3>2. QED
      BY <1>6, <1>7, <3>1 DEF Within
  <2>3. ClaimFlight(j)'
    BY <1>1, <1>2, <1>4, <2>1, <2>2 DEF ClaimFlight, RecordSteps, ClaimSteps
  <2>4. QED
    BY <1>4, <2>3, FlightOfStep DEF ClaimSteps
<1>12. QED
  BY <1>5, <1>8, <1>10, <1>11, FlightOf DEF Moved

LEMMA TakeRowMoved ==
    ASSUME IInv, AInv, NEW w \in Handlers, TakeRow(w)
    PROVE  Moved(w)
<1>1. job[w].step = "take" /\ UNCHANGED <<number, owned>> /\ torn \subseteq torn' /\ Done(w)
  BY TearsType DEF TakeRow, IInv, profileVars
<1>2. PICK u \in Users, n \in Numbers : u = job[w].user /\ n = job[w].number
  BY <1>1 DEF IInv, Own, Fits, UserSteps, NumberSteps, ClaimSteps
<1>3. u \in Touches(job[w]) /\ n \in Touches(job[w])
  BY <1>1, <1>2 DEF Touches, ClaimSteps
<1>4. job'[w] = Idle /\ \A v \in Handlers \ {w} : job'[v] = job[v]
  BY <1>1, IdleType, GoType DEF Done, IInv
<1>5. /\ tracked' = tracked \cup {n} /\ holder'[n] = u
      /\ \A m \in Numbers \ {n} : holder'[m] = holder[m]
  BY <1>2 DEF TakeRow, Give, IInv, TypeOK
<1>6. Reach(w)
  BY <1>1, <1>3, <1>4, <1>5 DEF Reach
<1>7. /\ n \in torn \/ \A v \in Users \ {u} : number[v] # n
      /\ u \in torn \/ number[u] = n
      /\ Within(u, {n})
      /\ n \in owned \cup torn
  BY <1>1, <1>2 DEF AInv, Flight, ClaimFlight, RecordSteps, ClaimSteps
<1>8. Moves(w)
  <2>1. ASSUME NEW v \in Users \ torn', NEW m \in Numbers \ torn',
               Agree(v, m) \/ Mid(job[w], v, m)
        PROVE  Agree(v, m)'
    <3>1. CASE v = u
      BY <1>1, <1>5, <1>7, <3>1 DEF Agree, Within
    <3>2. CASE v # u /\ m = n
      BY <1>1, <1>5, <1>7, <3>2 DEF Agree
    <3>3. CASE v # u /\ m # n
      <4>1. ~Mid(job[w], v, m)
        BY <1>1, <1>2, <3>3 DEF Mid
      <4>2. QED
        BY <1>1, <1>5, <2>1, <3>3, <4>1 DEF Agree
    <3>4. QED
      BY <3>1, <3>2, <3>3
  <2>2. QED
    BY <1>1, <1>5, <1>7, <2>1 DEF Moves
<1>9. Flight(job[w])'
  BY <1>4, IdleIsPlain, FlightOf, FlightOfStep
<1>10. QED
  BY <1>6, <1>8, <1>9 DEF Moved

--------------------------------------------------------------------------------
(* Approvals.                                                              *)

LEMMA ApproveMoved ==
    ASSUME IInv, AInv, NEW w \in Handlers, NEW u \in Users, Approve(w, u)
    PROVE  Moved(w)
<1>1. UNCHANGED <<number, rowVars, owned>> /\ Facts(w)
  BY ApproveFacts DEF Approve, profileVars
<1>2. number[u] \in Numbers \cup {NoNumber}
  BY DEF IInv, TypeOK
<1>3. PICK s \in {"pick", "accept"} :
          /\ Request(w, [Idle EXCEPT !.step = s, !.user = u, !.number = number[u]])
          /\ s = "pick" <=> number[u] = NoNumber
  BY DEF Approve
<1>4. PICK n : n = number[u]
  OBVIOUS
<1>5. PICK j \in Jobs :
          /\ j = [Idle EXCEPT !.step = s, !.user = u, !.number = n]
          /\ j.step = s /\ j.user = u /\ j.number = n
  <2>1. [Idle EXCEPT !.step = s, !.user = u, !.number = n] \in Jobs
    BY <1>2, <1>4 DEF Idle, Jobs, Steps, ApproveSteps
  <2>2. QED
    BY <2>1 DEF Idle
<1>6. Go(w, j) /\ job[w].step = "idle"
  BY <1>3, <1>4, <1>5 DEF Request, Start
<1>7. job'[w] = j /\ \A v \in Handlers \ {w} : job'[v] = job[v]
  BY <1>6, GoType DEF IInv
<1>8. \A v \in Users, m \in Numbers : ~Mid(job[w], v, m)
  BY <1>6, NotMid
<1>9. Reach(w)
  BY <1>1, <1>7, StillReach DEF rowVars
<1>10. u \in Touches(j)
  BY <1>5 DEF Touches, ApproveSteps
<1>11. Sole(u, n)'
  <2> SUFFICES ASSUME u \notin torn', NEW m \in Numbers \ torn'
               PROVE  holder'[m] = u <=> m = n
    BY DEF Sole
  <2>1. Agree(u, m)
    BY <1>1, <1>7, <1>8, <1>9, <1>10, AloneAgree
  <2>2. QED
    BY <1>1, <1>4, <2>1 DEF Agree, rowVars
<1>12. ApproveFlight(j)'
  BY <1>1, <1>3, <1>4, <1>5, <1>11 DEF ApproveFlight
<1>13. Flight(j)'
  BY <1>5, <1>12, FlightOfStep DEF ApproveSteps
<1>14. QED
  BY <1>1, <1>6, <1>8, <1>13, QuietMoved

LEMMA PickAvailableMoved ==
    ASSUME IInv, AInv, NEW w \in Handlers, PickAvailable(w)
    PROVE  Moved(w)
<1>1. job[w].step = "pick" /\ UNCHANGED <<number, rowVars, owned>> /\ torn \subseteq torn'
  BY TearsType DEF PickAvailable, IInv, profileVars
<1>2. \A v \in Users, m \in Numbers : ~Mid(job[w], v, m)
  BY <1>1, NotMid
<1>3. ApproveFlight(job[w])
  BY DEF AInv, Flight
<1>4. ASSUME NEW n \in Available, Go(w, [Step(w, "seat") EXCEPT !.number = n, !.rows = {n}])
      PROVE  Moved(w)
  <2> DEFINE k == [Step(w, "seat") EXCEPT !.number = n, !.rows = {n}]
  <2>1. n \in Numbers /\ n \in tracked /\ holder[n] = NoUser
    BY DEF Available, IInv, TypeOK
  <2>2. Step(w, "seat") \in Jobs /\ Step(w, "seat").step = "seat"
        /\ Step(w, "seat").user = job[w].user
    BY StepType DEF IInv, Steps, ApproveSteps
  <2> HIDE DEF Step
  <2>3. k \in Jobs /\ k.step = "seat" /\ k.user = job[w].user /\ k.number = n
    BY <2>1, <2>2 DEF Jobs
  <2> HIDE DEF k
  <2>4. PICK j \in Jobs : j = k /\ j.step = "seat" /\ j.user = job[w].user /\ j.number = n
    BY <2>3
  <2>5. Go(w, j)
    BY <1>4, <2>4 DEF k
  <2>6. ApproveFlight(j)'
    BY <1>1, <1>3, <2>1, <2>4 DEF ApproveFlight, rowVars
  <2>7. Flight(j)'
    BY <2>4, <2>6, FlightOfStep DEF ApproveSteps
  <2>8. QED
    BY <1>1, <1>2, <2>5, <2>7, QuietMoved
<1>5. ASSUME Go(w, Step(w, "accept")) PROVE Moved(w)
  <2>1. PICK j \in Jobs : j = Step(w, "accept") /\ j.step = "accept" /\ j.number = job[w].number
    BY StepType DEF IInv, Steps, ApproveSteps
  <2>2. ApproveFlight(j)'
    BY <1>1, <1>3, <2>1 DEF ApproveFlight
  <2>3. Flight(j)'
    BY <2>1, <2>2, FlightOfStep DEF ApproveSteps
  <2>4. QED
    BY <1>1, <1>2, <1>5, <2>1, <2>3, QuietMoved
<1>6. QED
  BY <1>4, <1>5 DEF PickAvailable

LEMMA SeatCustomerMoved ==
    ASSUME IInv, AInv, NEW w \in Handlers, SeatCustomer(w)
    PROVE  Moved(w)
<1>1. job[w].step = "seat" /\ UNCHANGED <<number, tracked, owned>>
      /\ torn \subseteq torn' /\ Facts(w)
  BY TearsType, MoveFacts DEF SeatCustomer, IInv, profileVars
<1>2. PICK u \in Users, n \in Numbers : u = job[w].user /\ n = job[w].number
  BY <1>1 DEF IInv, Own, Fits, UserSteps, NumberSteps, ApproveSteps
<1>3. u \in Touches(job[w]) /\ n \in Touches(job[w])
  BY <1>1, <1>2 DEF Touches, ApproveSteps
<1>4. \A v \in Users, m \in Numbers : ~Mid(job[w], v, m)
  BY <1>1, NotMid
<1>5. /\ u \in torn \/ number[u] = NoNumber
      /\ n \in torn \/ holder[n] = NoUser
  BY <1>1, <1>2 DEF AInv, Flight, ApproveFlight
<1>6. NoUser \notin Users /\ NoNumber \notin Numbers
  BY NumbersAssumption DEF NumbersAssumption
<1>7. "accept" \in Steps
  BY DEF Steps, ApproveSteps
<1>8. CASE Give(n, u) /\ Go(w, Step(w, "accept"))
  <2>1. PICK j \in Jobs : j = Step(w, "accept") /\ j.step = "accept" /\ j.number = n /\ j.user = u
    BY <1>2, <1>7, StepType DEF IInv
  <2>2. job'[w] = j /\ \A v \in Handlers \ {w} : job'[v] = job[v]
    BY <1>8, <2>1, GoType DEF IInv
  <2>3. holder'[n] = u /\ \A m \in Numbers \ {n} : holder'[m] = holder[m]
    BY <1>8 DEF Give, IInv, TypeOK
  <2>4. Reach(w)
    BY <1>1, <1>3, <2>2, <2>3 DEF Reach
  <2>5. Moves(w)
    <3>1. ASSUME NEW v \in Users \ torn', NEW m \in Numbers \ torn', Agree(v, m)
          PROVE  Agree(v, m)' \/ Mid(j, v, m)
      <4>1. CASE v = u /\ m = n
        BY <2>1, <4>1 DEF Mid
      <4>2. CASE v # u /\ m = n
        BY <1>1, <1>5, <1>6, <2>3, <3>1, <4>2 DEF Agree
      <4>3. CASE m # n
        BY <1>1, <2>3, <3>1, <4>3 DEF Agree
      <4>4. QED
        BY <4>1, <4>2, <4>3
    <3>2. QED
      BY <1>1, <1>4, <2>2, <3>1 DEF Moves
  <2>6. Sole(u, n)'
    <3> SUFFICES ASSUME u \notin torn', NEW m \in Numbers \ torn'
                 PROVE  holder'[m] = u <=> m = n
      BY DEF Sole
    <3>1. Agree(u, m)
      BY <1>1, <1>3, <1>4, <2>4, AloneAgree
    <3>2. QED
      BY <1>1, <1>5, <1>6, <2>3, <3>1 DEF Agree
  <2>7. ApproveFlight(j)'
    BY <2>1, <2>6 DEF ApproveFlight
  <2>8. Flight(j)'
    BY <2>1, <2>7, FlightOfStep DEF ApproveSteps
  <2>9. QED
    BY <2>2, <2>4, <2>5, <2>8, FlightOf DEF Moved
<1>9. CASE /\ Go(w, [Step(w, "accept") EXCEPT !.number = NoNumber])
           /\ UNCHANGED <<holder, back>>
  <2> DEFINE k == [Step(w, "accept") EXCEPT !.number = NoNumber]
  <2>1. Step(w, "accept") \in Jobs /\ Step(w, "accept").step = "accept"
    BY <1>7, StepType DEF IInv
  <2> HIDE DEF Step
  <2>2. k \in Jobs /\ k.step = "accept" /\ k.number = NoNumber
    BY <2>1 DEF Jobs
  <2> HIDE DEF k
  <2>3. PICK j \in Jobs : j = k /\ j.step = "accept" /\ j.number = NoNumber
    BY <2>2
  <2>4. ApproveFlight(j)'
    BY <2>3 DEF ApproveFlight
  <2>5. Flight(j)'
    BY <2>3, <2>4, FlightOfStep DEF ApproveSteps
  <2>6. Go(w, j)
    BY <1>9, <2>3 DEF k
  <2>7. QED
    BY <1>1, <1>4, <1>9, <2>5, <2>6, QuietMoved DEF rowVars
<1>10. QED
  BY <1>2, <1>8, <1>9 DEF SeatCustomer

LEMMA AcceptRequestMoved ==
    ASSUME IInv, AInv, NEW w \in Handlers, AcceptRequest(w)
    PROVE  Moved(w)
<1>1. job[w].step = "accept" /\ UNCHANGED <<number, rowVars, owned>> /\ torn \subseteq torn'
  BY TearsType DEF AcceptRequest, IInv
<1>2. CASE job[w].number = NoNumber /\ Done(w)
  <2>1. \A v \in Users, m \in Numbers : ~Mid(job[w], v, m)
    BY <1>1, <1>2, NumbersAssumption DEF Mid, NumbersAssumption
  <2>2. QED
    BY <1>1, <1>2, <2>1, DoneMoved
<1>3. CASE job[w].number # NoNumber /\ Go(w, Step(w, "post"))
  <2>1. PICK j \in Jobs : /\ j = Step(w, "post") /\ j.step = "post" /\ j.user = job[w].user
                          /\ j.number = job[w].number
    BY StepType DEF IInv, Steps, ApproveSteps
  <2>2. ApproveFlight(job[w])
    BY DEF AInv, Flight
  <2>3. ApproveFlight(j)'
    BY <1>1, <2>1, <2>2 DEF ApproveFlight, Sole, rowVars
  <2>4. Flight(j)'
    BY <2>1, <2>3, FlightOfStep DEF ApproveSteps
  <2>5. \A v \in Users, m \in Numbers : Mid(job[w], v, m) => Mid(j, v, m)
    BY <1>1, <2>1 DEF Mid
  <2>6. QED
    BY <1>1, <1>3, <2>1, <2>4, <2>5, QuietMoved
<1>4. QED
  BY <1>2, <1>3 DEF AcceptRequest

\* The last step of an approval and of an assignment: the profile shows the number.
LEMMA LastMoved ==
    ASSUME IInv, AInv, NEW w \in Handlers, PostNumber(w) \/ ShowAssigned(w)
    PROVE  Moved(w)
<1>1. job[w].step \in {"post", "show"} /\ UNCHANGED <<rowVars, owned>> /\ torn \subseteq torn'
      /\ Done(w)
  BY TearsType DEF PostNumber, ShowAssigned, IInv
<1>2. PICK u \in Users, n \in Numbers : u = job[w].user /\ n = job[w].number
  BY <1>1 DEF IInv, Own, Fits, UserSteps, NumberSteps, ApproveSteps, AssignSteps
<1>3. u \in Touches(job[w]) /\ n \in Touches(job[w])
  BY <1>1, <1>2 DEF Touches, ApproveSteps, AssignSteps
<1>4. ShowNumber(u, n)
  BY <1>2 DEF PostNumber, ShowAssigned
<1>5. Reach(w)
  BY <1>1, <1>3, <1>4, IdleType, ShowReach DEF Done
<1>6. Sole(u, n)
  <2>1. n # NoNumber
    BY NumbersAssumption DEF NumbersAssumption
  <2>2. QED
    BY <1>1, <1>2, <2>1 DEF AInv, Flight, ApproveFlight, AssignFlight
<1>7. \A v \in Users, m \in Numbers : Mid(job[w], v, m) => v = u
  BY <1>1, <1>2 DEF Mid
<1>8. Moves(w)
  BY <1>1, <1>4, <1>5, <1>6, <1>7, ShowMoved
<1>9. Flight(job[w])'
  BY <1>1, IdleType, IdleIsPlain, GoType, FlightOf, FlightOfStep DEF Done, IInv
<1>10. QED
  BY <1>5, <1>8, <1>9 DEF Moved

--------------------------------------------------------------------------------
(* Assignments and releases by an admin.                                   *)

LEMMA ReassignMoved ==
    ASSUME IInv, AInv, NEW w \in Handlers, NEW u \in Users \cup {NoUser}, NEW n \in Numbers,
           Reassign(w, u, n)
    PROVE  Moved(w)
<1>1. UNCHANGED <<number, rowVars, owned>>
  BY DEF Reassign, profileVars
<1>2. PICK o \in Users \cup {NoUser} : o = holder[n]
  BY DEF IInv, TypeOK
<1>3. PICK s \in {"clear", "others"} :
          Request(w, [Idle EXCEPT !.step = s, !.user = u, !.number = n, !.other = o,
                                  !.rows = {n}])
  BY <1>2 DEF Reassign
<1>4. PICK j \in Jobs :
          /\ j = [Idle EXCEPT !.step = s, !.user = u, !.number = n, !.other = o, !.rows = {n}]
          /\ j.step = s /\ j.user = u /\ j.number = n /\ j.other = o /\ j.rows = {n}
  <2>1. [Idle EXCEPT !.step = s, !.user = u, !.number = n, !.other = o, !.rows = {n}] \in Jobs
    BY DEF Idle, Jobs, Steps, AssignSteps, UnassignSteps
  <2>2. QED
    BY <2>1 DEF Idle
<1>5. Go(w, j) /\ job[w].step = "idle"
  BY <1>3, <1>4 DEF Request, Start
<1>6. AssignFlight(j)'
  BY <1>1, <1>2, <1>4 DEF AssignFlight, rowVars
<1>7. Flight(j)'
  BY <1>4, <1>6, FlightOfStep DEF AssignSteps, UnassignSteps
<1>8. \A v \in Users, m \in Numbers : ~Mid(job[w], v, m)
  BY <1>5, NotMid
<1>9. QED
  BY <1>1, <1>5, <1>7, <1>8, QuietMoved

LEMMA ReadOthersMoved ==
    ASSUME IInv, AInv, NEW w \in Handlers, ReadOthers(w)
    PROVE  Moved(w)
<1>1. job[w].step = "others" /\ UNCHANGED <<number, rowVars, owned>> /\ torn \subseteq torn'
  BY TearsType DEF ReadOthers, IInv, profileVars
<1>2. \A v \in Users, m \in Numbers : ~Mid(job[w], v, m)
  BY <1>1, NotMid
<1>3. PICK u \in Users : u = job[w].user
  BY <1>1 DEF IInv, Own, Fits, UserSteps, AssignSteps
<1>4. PICK rows \in SUBSET Numbers : rows = job[w].rows \cup RowsOf(u)
  BY JobTypes DEF IInv, TypeOK, RowsOf
<1>5. PICK j \in Jobs : /\ j = [Step(w, "swap") EXCEPT !.rows = rows] /\ j.step = "swap"
                        /\ j.user = u /\ j.number = job[w].number /\ j.rows = rows
                        /\ j.other = job[w].other
  <2>1. Step(w, "swap") \in Jobs /\ Step(w, "swap").step = "swap"
        /\ Step(w, "swap").user = u /\ Step(w, "swap").number = job[w].number
        /\ Step(w, "swap").other = job[w].other
    BY <1>3, StepType DEF IInv, Steps, AssignSteps
  <2> DEFINE k == [Step(w, "swap") EXCEPT !.rows = rows]
  <2> HIDE DEF Step
  <2>2. k \in Jobs /\ k.step = "swap" /\ k.user = u /\ k.number = job[w].number /\ k.rows = rows
        /\ k.other = job[w].other
    BY <2>1 DEF Jobs
  <2>3. QED
    BY <2>2 DEF k
<1>6. Go(w, j)
  <2>1. Step(w, "swap").rows = job[w].rows
    BY StepType DEF IInv, Steps, AssignSteps
  <2>2. QED
    BY <1>3, <1>4, <1>5, <2>1 DEF ReadOthers
<1>7. AssignFlight(j)'
  <2>1. AssignFlight(job[w])
    BY DEF AInv, Flight
  <2>2. \A m \in Numbers : holder[m] = u => m \in rows
    BY <1>4, NumbersAssumption DEF IInv, TypeOK, RowsOf, NumbersAssumption
  <2>3. \A m \in rows \ {j.number} : holder[m] = u
    BY <1>1, <1>4, <1>5, <2>1 DEF AssignFlight, RowsOf
  <2>4. QED
    BY <1>1, <1>4, <1>5, <2>1, <2>2, <2>3 DEF AssignFlight, Within, rowVars
<1>8. Flight(j)'
  BY <1>5, <1>7, FlightOfStep DEF AssignSteps
<1>9. QED
  BY <1>1, <1>2, <1>6, <1>8, QuietMoved

\* A step that only takes the number from its previous holder's profile.
LEMMA LetsGoMoved ==
    ASSUME IInv, AInv, NEW w \in Handlers, NEW j \in Jobs, Go(w, j), torn \subseteq torn',
           UNCHANGED <<rowVars, owned>>, LetsGo(w), job[w].step \in {"clear", "letgo"},
           job[w].number \in Numbers, Flight(j)',
           \A v \in Users \ torn', m \in Numbers \ torn' :
               /\ v = job[w].other /\ m = job[w].number =>
                      (holder[m] # v /\ job[w].step = "letgo") \/ Mid(j, v, m)
               /\ Mid(job[w], v, m) => (v = job[w].other /\ m = job[w].number) \/ Mid(j, v, m)
    PROVE  Moved(w)
<1>1. job'[w] = j /\ \A v \in Handlers \ {w} : job'[v] = job[v]
  BY GoType DEF IInv
<1>2. job[w].other \in Users => job[w].other \in Touches(job[w])
  BY DEF Touches, AssignSteps, UnassignSteps
<1>3. NoNumber \notin Numbers
  BY NumbersAssumption DEF NumbersAssumption
<1>4. \A v \in Users : number'[v] = IF v = job[w].other /\ number[v] = job[w].number
                                    THEN NoNumber ELSE number[v]
  BY DEF LetsGo
<1>5. Reach(w)
  BY <1>1, <1>2, <1>4 DEF Reach, rowVars
<1>6. Moves(w)
  <2>1. ASSUME NEW v \in Users \ torn', NEW m \in Numbers \ torn',
               Agree(v, m) \/ Mid(job[w], v, m)
        PROVE  Agree(v, m)' \/ Mid(j, v, m)
    <3>1. CASE v = job[w].other /\ m = job[w].number
      BY <1>3, <1>4, <3>1 DEF Agree, rowVars
    <3>2. CASE ~(v = job[w].other /\ m = job[w].number) /\ Agree(v, m)
      BY <1>3, <1>4, <3>2 DEF Agree, rowVars
    <3>3. QED
      BY <2>1, <3>1, <3>2
  <2>2. QED
    BY <1>1, <2>1 DEF Moves, rowVars
<1>7. QED
  BY <1>1, <1>5, <1>6, FlightOf DEF Moved

LEMMA ClearHolderMoved ==
    ASSUME IInv, AInv, NEW w \in Handlers, ClearHolder(w)
    PROVE  Moved(w)
<1>1. job[w].step = "clear" /\ UNCHANGED <<rowVars, owned>> /\ torn \subseteq torn' /\ LetsGo(w)
  BY TearsType DEF ClearHolder, IInv
<1>2. PICK n \in Numbers, o \in Users \cup {NoUser} : n = job[w].number /\ o = job[w].other
  BY <1>1, JobTypes DEF IInv, TypeOK, Own, Fits, NumberSteps, UnassignSteps
<1>3. PICK j \in Jobs : /\ j = Step(w, "pool") /\ j.step = "pool" /\ j.number = n /\ j.other = o
                        /\ j.rows = job[w].rows
  BY <1>2, StepType DEF IInv, Steps, UnassignSteps
<1>4. Go(w, j)
  BY <1>3 DEF ClearHolder
<1>5. o \in Users => number'[o] # n
  BY <1>1, <1>2, NumbersAssumption DEF LetsGo, NumbersAssumption
<1>6. AssignFlight(job[w])
  BY DEF AInv, Flight
<1>7. AssignFlight(j)'
  BY <1>1, <1>2, <1>3, <1>5, <1>6 DEF AssignFlight, rowVars
<1>8. Flight(j)'
  BY <1>3, <1>7, FlightOfStep DEF UnassignSteps
<1>9. \A v \in Users, m \in Numbers : ~Mid(job[w], v, m)
  BY <1>1, NotMid
<1>10. \A v \in Users, m \in Numbers : v = o /\ m = n => Mid(j, v, m)
  BY <1>3 DEF Mid
<1>11. QED
  BY <1>1, <1>2, <1>4, <1>8, <1>9, <1>10, LetsGoMoved

LEMMA OldHolderLetsGoMoved ==
    ASSUME IInv, AInv, NEW w \in Handlers, OldHolderLetsGo(w)
    PROVE  Moved(w)
<1>1. job[w].step = "letgo" /\ UNCHANGED <<rowVars, owned>> /\ torn \subseteq torn' /\ LetsGo(w)
  BY TearsType DEF OldHolderLetsGo, IInv
<1>2. PICK n \in Numbers, u \in Users : n = job[w].number /\ u = job[w].user
  BY <1>1 DEF IInv, Own, Fits, NumberSteps, UserSteps, AssignSteps
<1>3. PICK j \in Jobs : /\ j = Step(w, "show") /\ j.step = "show" /\ j.number = n /\ j.user = u
                        /\ j.rows = job[w].rows
  BY <1>2, StepType DEF IInv, Steps, AssignSteps
<1>4. Go(w, j)
  BY <1>3 DEF OldHolderLetsGo
<1>5. AssignFlight(job[w])
  BY DEF AInv, Flight
<1>6. AssignFlight(j)'
  BY <1>1, <1>2, <1>3, <1>5 DEF AssignFlight, Sole, rowVars
<1>7. Flight(j)'
  BY <1>3, <1>6, FlightOfStep DEF AssignSteps
<1>8. /\ job[w].other \in Users \ {u}
      /\ n \in torn \/ holder[n] \in {u, NoUser}
  BY <1>1, <1>2, <1>5 DEF AssignFlight
<1>9. NoUser \notin Users
  BY NumbersAssumption DEF NumbersAssumption
<1>10. \A v \in Users \ torn', m \in Numbers \ torn' :
           /\ v = job[w].other /\ m = job[w].number => holder[m] # v
           /\ Mid(job[w], v, m) => (v = job[w].other /\ m = job[w].number) \/ Mid(j, v, m)
  BY <1>1, <1>2, <1>3, <1>8, <1>9 DEF Mid
<1>11. QED
  BY <1>1, <1>2, <1>4, <1>7, <1>10, LetsGoMoved

LEMMA PoolRowMoved ==
    ASSUME IInv, AInv, NEW w \in Handlers, PoolRow(w)
    PROVE  Moved(w)
<1>1. job[w].step = "pool" /\ UNCHANGED <<number, owned, tracked>>
      /\ torn \subseteq torn' /\ Done(w)
  BY TearsType DEF PoolRow, IInv, profileVars
<1>2. PICK n \in Numbers, o \in Users \cup {NoUser}, rows \in SUBSET Numbers :
          n = job[w].number /\ o = job[w].other /\ rows = job[w].rows
  BY <1>1, JobTypes DEF IInv, TypeOK, Own, Fits, NumberSteps, UnassignSteps
<1>3. rows \subseteq Touches(job[w])
  BY <1>1, <1>2 DEF Touches, UnassignSteps
<1>4. job'[w] = Idle /\ \A v \in Handlers \ {w} : job'[v] = job[v]
  BY <1>1, IdleType, GoType DEF Done, IInv
<1>5. \A m \in Numbers : holder'[m] = IF m \in rows THEN NoUser ELSE holder[m]
  BY <1>2 DEF PoolRow, Free
<1>6. Reach(w)
  BY <1>1, <1>3, <1>4, <1>5 DEF Reach
<1>7. /\ n \in torn \/ (n \in rows /\ (holder[n] = o \/ holder[n] = NoUser))
      /\ rows \subseteq {n}
      /\ {o, n} \cap torn # {} \/ o = NoUser \/ number[o] # n
  BY <1>1, <1>2 DEF AInv, Flight, AssignFlight
<1>8. NoUser \notin Users
  BY NumbersAssumption DEF NumbersAssumption
<1>9. Moves(w)
  <2>1. ASSUME NEW v \in Users \ torn', NEW m \in Numbers \ torn',
               Agree(v, m) \/ Mid(job[w], v, m)
        PROVE  Agree(v, m)'
    <3>1. CASE v = o /\ m = n
      BY <1>1, <1>5, <1>7, <1>8, <3>1 DEF Agree
    <3>2. CASE ~(v = o /\ m = n)
      <4>1. ~Mid(job[w], v, m)
        BY <1>1, <1>2, <3>2 DEF Mid
      <4>2. QED
        BY <1>1, <1>5, <1>7, <1>8, <2>1, <3>2, <4>1 DEF Agree
    <3>3. QED
      BY <3>1, <3>2
  <2>2. QED
    BY <1>1, <2>1 DEF Moves
<1>10. Flight(job[w])'
  BY <1>4, IdleIsPlain, FlightOf, FlightOfStep
<1>11. QED
  BY <1>6, <1>9, <1>10 DEF Moved

LEMMA SwapRowsMoved ==
    ASSUME IInv, AInv, NEW w \in Handlers, SwapRows(w)
    PROVE  Moved(w)
<1>1. job[w].step = "swap" /\ UNCHANGED <<number, owned, tracked>> /\ torn \subseteq torn'
  BY TearsType DEF SwapRows, IInv, profileVars
<1>2. PICK u \in Users, n \in Numbers, o \in Users \cup {NoUser}, rows \in SUBSET Numbers :
          u = job[w].user /\ n = job[w].number /\ o = job[w].other /\ rows = job[w].rows
  BY <1>1, JobTypes DEF IInv, TypeOK, Own, Fits, NumberSteps, UserSteps, AssignSteps
<1>3. u \in Touches(job[w]) /\ n \in Touches(job[w]) /\ rows \subseteq Touches(job[w])
  BY <1>1, <1>2 DEF Touches, AssignSteps
<1>4. \A v \in Users, m \in Numbers : ~Mid(job[w], v, m)
  BY <1>1, NotMid
<1>5. NoUser \notin Users
  BY NumbersAssumption DEF NumbersAssumption
<1>6. /\ n \in torn \/ (holder[n] = o \/ (holder[n] = NoUser /\ o \in torn))
      /\ Within(u, rows)
      /\ \A m \in rows \ (torn \cup {n}) : holder[m] \in {u, NoUser}
  BY <1>1, <1>2 DEF AInv, Flight, AssignFlight
<1>7. ASSUME NEW s \in {"show", "letgo"}, Go(w, Step(w, s)), s = "show" <=> o \in {NoUser, u},
             n \in rows,
             holder' = [m \in Numbers |-> IF m = n THEN u
                                          ELSE IF m \in rows \ {n} THEN NoUser ELSE holder[m]]
      PROVE  Moved(w)
  <2>1. PICK j \in Jobs : /\ j = Step(w, s) /\ j.step = s /\ j.user = u /\ j.number = n
                          /\ j.other = o /\ j.rows = rows
    BY <1>2, StepType DEF IInv, Steps, AssignSteps
  <2>2. job'[w] = j /\ \A v \in Handlers \ {w} : job'[v] = job[v]
    BY <1>7, <2>1, GoType DEF IInv
  <2>3. /\ holder'[n] = u
        /\ \A m \in Numbers \ {n} : holder'[m] = IF m \in rows THEN NoUser ELSE holder[m]
    BY <1>7
  <2>4. Reach(w)
    BY <1>1, <1>3, <2>2, <2>3 DEF Reach
  <2>5. Moves(w)
    <3>1. ASSUME NEW v \in Users \ torn', NEW m \in Numbers \ torn', Agree(v, m)
          PROVE  Agree(v, m)' \/ Mid(j, v, m)
      <4>1. CASE v = u /\ m \in rows
        BY <2>1, <4>1 DEF Mid
      <4>2. CASE v = o /\ v # u /\ m = n
        BY <1>5, <1>7, <2>1, <4>2 DEF Mid
      <4>3. CASE v # u /\ v # o /\ m = n
        BY <1>1, <1>5, <1>6, <2>3, <3>1, <4>3 DEF Agree
      <4>4. CASE v # u /\ m \in rows \ {n}
        BY <1>1, <1>5, <1>6, <2>3, <3>1, <4>4 DEF Agree
      <4>5. CASE m \notin rows
        BY <1>1, <1>7, <2>3, <3>1, <4>5 DEF Agree
      <4>6. QED
        BY <4>1, <4>2, <4>3, <4>4, <4>5
    <3>2. QED
      BY <1>1, <1>4, <2>2, <3>1 DEF Moves
  <2>6. Sole(u, n)'
    BY <1>1, <1>5, <1>6, <2>3 DEF Sole, Within
  <2>7. AssignFlight(j)'
    BY <1>7, <2>1, <2>3, <2>6 DEF AssignFlight
  <2>8. Flight(j)'
    BY <2>1, <2>7, FlightOfStep DEF AssignSteps
  <2>9. QED
    BY <2>2, <2>4, <2>5, <2>8, FlightOf DEF Moved
<1>8. CASE Done(w) /\ UNCHANGED <<holder, back>>
  BY <1>1, <1>4, <1>8, DoneMoved DEF rowVars
<1>9. QED
  BY <1>2, <1>7, <1>8 DEF SwapRows

--------------------------------------------------------------------------------
(* The sweep.                                                              *)

LEMMA SweepMoved ==
    ASSUME IInv, AInv, NEW w \in Handlers,
           \/ \E u \in Users : ListCandidate(w, u)
           \/ ApplyPlan(w) \/ WriteWindow(w) \/ CloseGrace(w) \/ Decide(w)
    PROVE  Moved(w)
<1>1. UNCHANGED <<number, rowVars, owned>>
  BY DEF ListCandidate, ApplyPlan, WriteWindow, CloseGrace, Decide, profileVars
<1>2. job[w].step \in {"idle", "apply", "lift", "open", "close", "entitle"}
  BY DEF ListCandidate, Start, ApplyPlan, WriteWindow, CloseGrace, Decide
<1>3. \A v \in Users, m \in Numbers : ~Mid(job[w], v, m)
  BY <1>2, NotMid
<1>4. CASE Done(w)
  BY <1>1, <1>2, <1>3, <1>4, DoneMoved
<1>5. ASSUME NEW j \in Jobs, Go(w, j), j.step \in {"entitle", "lift", "open"}
      PROVE  Moved(w)
  <2>1. j.step \notin TouchSteps /\ j.step # "import"
    BY <1>5 DEF TouchSteps, ClaimSteps, ApproveSteps, AssignSteps, UnassignSteps, ReleaseSteps
  <2>2. QED
    BY <1>1, <1>2, <1>3, <1>5, <2>1, PlainMoved
<1>6. ASSUME NEW u \in Users, ListCandidate(w, u) PROVE Moved(w)
  <2> DEFINE k == [Idle EXCEPT !.step = "entitle", !.user = u, !.window = grace[u],
                               !.lapsed = status[u] = "lapsed"]
  <2>1. k \in Jobs
    <3>1. ASSUME NEW g \in {"none", "open", "over"}, NEW l \in BOOLEAN
          PROVE  [Idle EXCEPT !.step = "entitle", !.user = u, !.window = g, !.lapsed = l] \in Jobs
      BY DEF Idle, Jobs, Steps, SweepSteps
    <3>2. grace[u] \in {"none", "open", "over"} /\ (status[u] = "lapsed") \in BOOLEAN
      BY DEF IInv, TypeOK
    <3>3. QED
      BY <3>1, <3>2
  <2>2. Go(w, k) /\ k.step = "entitle"
    BY <1>6 DEF ListCandidate, Start, Idle
  <2> HIDE DEF k
  <2>3. QED
    BY <1>5, <2>1, <2>2
<1>7. ASSUME NEW s \in {"lift", "open"}, Go(w, Step(w, s)) PROVE Moved(w)
  <2>1. Step(w, s) \in Jobs /\ Step(w, s).step = s
    BY StepType DEF IInv, Steps, SweepSteps
  <2> HIDE DEF Step
  <2>2. QED
    BY <1>5, <1>7, <2>1
<1>8. ASSUME Decide(w), Go(w, Step(w, "rows")) PROVE Moved(w)
  <2>1. job[w].rows = {}
    BY <1>8 DEF Decide, IInv, Own, Fits
  <2>2. PICK j \in Jobs : j = Step(w, "rows") /\ j.step = "rows" /\ j.rows = {}
    BY <2>1, StepType DEF IInv, Steps, SweepSteps, ReleaseSteps
  <2>3. ReleaseFlight(j)'
    BY <2>2 DEF ReleaseFlight
  <2>4. Flight(j)'
    BY <2>2, <2>3, FlightOfStep DEF ReleaseSteps
  <2>5. QED
    BY <1>1, <1>2, <1>3, <1>8, <2>2, <2>4, QuietMoved
<1>9. Decide(w) => \/ Done(w) \/ Go(w, Step(w, "lift")) \/ Go(w, Step(w, "open"))
                   \/ Go(w, Step(w, "rows"))
  BY DEF Decide
<1>10. QED
  BY <1>4, <1>6, <1>7, <1>8, <1>9 DEF ApplyPlan, WriteWindow, CloseGrace

LEMMA PayMoved ==
    ASSUME IInv, NEW w \in Handlers, NEW u \in Users, Pay(w, u)
    PROVE  Moved(w)
<1> DEFINE k == [Idle EXCEPT !.step = "apply", !.user = u]
<1>1. k.step = "apply"
  BY DEF Idle
<1> HIDE DEF k
<1>2. PICK j : j = k /\ j.step = "apply"
  BY <1>1
<1>3. job'[w] = j
  BY <1>2 DEF Pay, k
<1>4. ASSUME NEW v \in Handlers \ {w} PROVE job'[v].rows = job[v].rows
  <2>1. job[v] \in Jobs
    BY DEF IInv, TypeOK
  <2>2. job'[v] = [job[v] EXCEPT !.late = TRUE] \/ job'[v] = job[v]
    BY DEF Pay
  <2>3. QED
    BY <2>1, <2>2 DEF Jobs
<1>5. Flight(j)'
  BY <1>2, FlightOfStep
     DEF TouchSteps, ClaimSteps, ApproveSteps, AssignSteps, UnassignSteps, ReleaseSteps
<1>6. \A v \in Users, m \in Numbers : ~Mid(job[w], v, m)
  BY NotMid DEF Pay
<1>7. UNCHANGED <<number, rowVars, owned>> /\ job[w].step = "idle"
  BY DEF Pay
<1>8. QED
  BY <1>3, <1>4, <1>5, <1>6, <1>7, FlightOf, StillMoved DEF rowVars

LEMMA ReadRowsMoved ==
    ASSUME IInv, AInv, NEW w \in Handlers, ReadRows(w)
    PROVE  Moved(w)
<1>1. job[w].step = "rows" /\ UNCHANGED <<number, rowVars, owned>>
  BY DEF ReadRows, profileVars
<1>2. \A v \in Users, m \in Numbers : ~Mid(job[w], v, m)
  BY <1>1, NotMid
<1>3. PICK u \in Users : u = job[w].user
  BY <1>1 DEF IInv, Own, Fits, UserSteps, SweepSteps, ReleaseSteps
<1>4. PICK rows \in SUBSET Numbers : rows = RowsOf(u)
  BY DEF IInv, TypeOK, RowsOf
<1>5. PICK j \in Jobs : /\ j = [Step(w, "hand") EXCEPT !.rows = rows] /\ j.step = "hand"
                        /\ j.user = u /\ j.rows = rows
  <2>1. Step(w, "hand") \in Jobs /\ Step(w, "hand").step = "hand"
        /\ Step(w, "hand").user = u
    BY <1>3, StepType DEF IInv, Steps, SweepSteps, ReleaseSteps
  <2> DEFINE k == [Step(w, "hand") EXCEPT !.rows = rows]
  <2> HIDE DEF Step
  <2>2. k \in Jobs /\ k.step = "hand" /\ k.user = u /\ k.rows = rows
    BY <2>1 DEF Jobs
  <2>3. QED
    BY <2>2 DEF k
<1>6. Go(w, j)
  BY <1>3, <1>4, <1>5 DEF ReadRows
<1>7. ReleaseFlight(j)'
  <2>1. \A m \in Numbers : holder[m] = u <=> m \in rows
    BY <1>4, NumbersAssumption DEF IInv, TypeOK, RowsOf, NumbersAssumption
  <2>2. QED
    BY <1>1, <1>5, <2>1 DEF ReleaseFlight, Within, rowVars
<1>8. Flight(j)'
  BY <1>5, <1>7, FlightOfStep DEF ReleaseSteps
<1>9. QED
  BY <1>1, <1>2, <1>6, <1>8, QuietMoved

LEMMA HandBackMoved ==
    ASSUME IInv, AInv, NEW w \in Handlers, NEW n \in Numbers, HandBack(w, n)
    PROVE  Moved(w)
<1>1. job[w].step = "hand" /\ UNCHANGED <<number, rowVars>> /\ torn \subseteq torn'
  BY TearsType DEF HandBack, IInv, profileVars
<1>2. n \in job[w].rows /\ owned' = owned \ {n}
  BY DEF HandBack
<1>3. PICK j \in Jobs : /\ j = [Step(w, "strike") EXCEPT !.number = n] /\ j.step = "strike"
                        /\ j.user = job[w].user /\ j.rows = job[w].rows /\ j.number = n
  <2>1. Step(w, "strike") \in Jobs /\ Step(w, "strike").step = "strike"
        /\ Step(w, "strike").user = job[w].user /\ Step(w, "strike").rows = job[w].rows
    BY StepType DEF IInv, Steps, SweepSteps, ReleaseSteps
  <2> DEFINE k == [Step(w, "strike") EXCEPT !.number = n]
  <2> HIDE DEF Step
  <2>2. k \in Jobs /\ k.step = "strike" /\ k.user = job[w].user /\ k.rows = job[w].rows
        /\ k.number = n
    BY <2>1 DEF Jobs
  <2>3. QED
    BY <2>2 DEF k
<1>4. Go(w, j)
  BY <1>3 DEF HandBack
<1>5. job'[w] = j /\ \A v \in Handlers \ {w} : job'[v] = job[v]
  BY <1>4, GoType DEF IInv
<1>6. n \in Touches(job[w])
  BY <1>1, <1>2 DEF Touches, ReleaseSteps
<1>7. Reach(w)
  BY <1>1, <1>2, <1>5, <1>6 DEF Reach, rowVars
<1>8. Moves(w)
  <2>1. \A v \in Users, m \in Numbers : Mid(job[w], v, m) => Mid(j, v, m)
    BY <1>1, <1>3 DEF Mid
  <2>2. QED
    BY <1>1, <1>2, <1>3, <1>5, <2>1 DEF Moves, Agree, rowVars
<1>9. ReleaseFlight(job[w])
  BY DEF AInv, Flight
<1>10. ReleaseFlight(j)'
  BY <1>1, <1>2, <1>3, <1>9 DEF ReleaseFlight, ReleaseSteps, Within, rowVars
<1>11. Flight(j)'
  BY <1>3, <1>10, FlightOfStep DEF ReleaseSteps
<1>12. QED
  BY <1>5, <1>7, <1>8, <1>11, FlightOf DEF Moved

LEMMA HandBackRefusedMoved ==
    ASSUME IInv, AInv, NEW w \in Handlers, NEW n \in Numbers, HandBackRefused(w, n)
    PROVE  Moved(w)
<1>1. job[w].step = "hand" /\ UNCHANGED <<number, rowVars, owned>> /\ torn \subseteq torn'
  BY TearsType DEF HandBackRefused, IInv, profileVars
<1>2. job[w].user \in Users
  BY <1>1 DEF IInv, Own, Fits, UserSteps, SweepSteps, ReleaseSteps
<1>3. job[w].user \in torn'
  BY <1>2, TearsType DEF HandBackRefused, IInv
<1>4. PICK j \in Jobs : /\ j = [job[w] EXCEPT !.rows = @ \ {n}] /\ j.step = "hand"
                        /\ j.user = job[w].user /\ j.rows = job[w].rows \ {n}
  <2> DEFINE k == [job[w] EXCEPT !.rows = @ \ {n}]
  <2>1. job[w] \in Jobs
    BY DEF IInv, TypeOK
  <2>2. k \in Jobs /\ k.step = "hand" /\ k.user = job[w].user /\ k.rows = job[w].rows \ {n}
    BY <1>1, <2>1 DEF Jobs
  <2>3. QED
    BY <2>2 DEF k
<1>5. Go(w, j)
  BY <1>4 DEF HandBackRefused
<1>6. ReleaseFlight(job[w])
  BY DEF AInv, Flight
<1>7. ReleaseFlight(j)'
  BY <1>1, <1>3, <1>4, <1>6 DEF ReleaseFlight, ReleaseSteps, Within, rowVars
<1>8. Flight(j)'
  BY <1>4, <1>7, FlightOfStep DEF ReleaseSteps
<1>9. \A v \in Users, m \in Numbers : Mid(job[w], v, m) => Mid(j, v, m)
  BY <1>1, <1>4 DEF Mid
<1>10. QED
  BY <1>1, <1>5, <1>8, <1>9, QuietMoved

LEMMA StrikeRowMoved ==
    ASSUME IInv, AInv, NEW w \in Handlers, StrikeRow(w)
    PROVE  Moved(w)
<1>1. job[w].step = "strike" /\ UNCHANGED <<number, owned>> /\ torn \subseteq torn'
  BY TearsType DEF StrikeRow, IInv, profileVars
<1>2. PICK u \in Users, n \in Numbers, rows \in SUBSET Numbers :
          u = job[w].user /\ n = job[w].number /\ rows = job[w].rows
  BY <1>1, JobTypes DEF IInv, TypeOK, Own, Fits, NumberSteps, UserSteps, SweepSteps, ReleaseSteps
<1>3. n \in rows /\ Delete({n})
  BY <1>2 DEF StrikeRow
<1>4. PICK j \in Jobs :
          /\ j = [Step(w, "hand") EXCEPT !.number = NoNumber, !.rows = @ \ {n}]
          /\ j.step = "hand" /\ j.user = u /\ j.rows = rows \ {n}
  <2>1. Step(w, "hand") \in Jobs /\ Step(w, "hand").step = "hand" /\ Step(w, "hand").user = u
        /\ Step(w, "hand").rows = rows
    BY <1>2, StepType DEF IInv, Steps, SweepSteps, ReleaseSteps
  <2> DEFINE k == [Step(w, "hand") EXCEPT !.number = NoNumber, !.rows = @ \ {n}]
  <2> HIDE DEF Step
  <2>2. k \in Jobs /\ k.step = "hand" /\ k.user = u /\ k.rows = rows \ {n}
    BY <2>1 DEF Jobs
  <2>3. QED
    BY <2>2 DEF k
<1>5. job' = [Forget(job, {n}) EXCEPT ![w] = j] /\ tracked' = tracked \ {n}
  BY <1>2, <1>3, <1>4 DEF StrikeRow, Delete
<1>6. job'[w] = j /\ \A v \in Handlers \ {w} : job'[v].rows = job[v].rows \ {n}
  BY <1>5, ForgetType DEF IInv
<1>7. \A m \in Numbers : holder'[m] = IF m = n THEN NoUser ELSE holder[m]
  BY <1>3 DEF Delete
<1>8. n \in Touches(job[w])
  BY <1>1, <1>2, <1>3 DEF Touches, ReleaseSteps
<1>9. Reach(w)
  BY <1>1, <1>5, <1>6, <1>7, <1>8 DEF Reach
<1>10. ReleaseFlight(job[w])
  BY DEF AInv, Flight
<1>11. n \in torn \/ holder[n] \in {u, NoUser}
  BY <1>1, <1>2, <1>3, <1>10 DEF ReleaseFlight, ReleaseSteps
<1>12. NoUser \notin Users
  BY NumbersAssumption DEF NumbersAssumption
<1>13. Moves(w)
  <2>1. ASSUME NEW v \in Users \ torn', NEW m \in Numbers \ torn',
               Agree(v, m) \/ Mid(job[w], v, m)
        PROVE  Agree(v, m)' \/ Mid(j, v, m)
    <3>1. CASE v = u
      BY <1>4, <3>1 DEF Mid
    <3>2. CASE v # u
      <4>1. Agree(v, m)
        BY <1>1, <1>2, <2>1, <3>2 DEF Mid
      <4>2. QED
        BY <1>1, <1>7, <1>11, <1>12, <3>2, <4>1 DEF Agree
    <3>3. QED
      BY <3>1, <3>2
  <2>2. QED
    BY <1>1, <1>2, <1>5, <1>6, <2>1 DEF Moves
<1>14. ReleaseFlight(j)'
  BY <1>1, <1>2, <1>4, <1>7, <1>10, <1>12 DEF ReleaseFlight, ReleaseSteps, Within
<1>15. Flight(j)'
  BY <1>4, <1>14, FlightOfStep DEF ReleaseSteps
<1>16. QED
  BY <1>6, <1>9, <1>13, <1>15, FlightOf DEF Moved

LEMMA RowIsGoneMoved ==
    ASSUME IInv, AInv, NEW w \in Handlers, RowIsGone(w)
    PROVE  Moved(w)
<1>1. job[w].step \in {"hand", "strike"} /\ UNCHANGED <<number, rowVars, owned>>
      /\ torn \subseteq torn' /\ Done(w)
  BY TearsType DEF RowIsGone, IInv, profileVars
<1>2. job[w].user \in Users
  BY <1>1 DEF IInv, Own, Fits, UserSteps, SweepSteps, ReleaseSteps
<1>3. job[w].user \in torn'
  BY <1>2, TearsType DEF RowIsGone, IInv
<1>4. job[w].step = "strike" => job[w].number \in torn'
  BY <1>1 DEF RowIsGone, AInv, Flight, ReleaseFlight
<1>5. \A v \in Users \ torn', m \in Numbers \ torn' : ~Mid(job[w], v, m)
  BY <1>1, <1>3 DEF Mid
<1>6. QED
  BY <1>1, <1>4, <1>5, DoneMoved

LEMMA HandedBackMoved ==
    ASSUME IInv, AInv, NEW w \in Handlers, HandedBack(w)
    PROVE  Moved(w)
<1>1. job[w].step = "hand" /\ job[w].rows = {} /\ UNCHANGED <<number, rowVars, owned>>
      /\ torn \subseteq torn'
  BY TearsType DEF HandedBack, IInv, profileVars
<1>2. PICK j \in Jobs : /\ j = Step(w, "blank") /\ j.step = "blank" /\ j.user = job[w].user
                        /\ j.rows = {}
  BY <1>1, StepType DEF IInv, Steps, SweepSteps, ReleaseSteps
<1>3. Go(w, j)
  BY <1>2 DEF HandedBack
<1>4. ReleaseFlight(job[w])
  BY DEF AInv, Flight
<1>5. ReleaseFlight(j)'
  BY <1>1, <1>2, <1>4 DEF ReleaseFlight, Within, rowVars
<1>6. Flight(j)'
  BY <1>2, <1>5, FlightOfStep DEF ReleaseSteps
<1>7. \A v \in Users, m \in Numbers : Mid(job[w], v, m) => Mid(j, v, m)
  BY <1>1, <1>2 DEF Mid
<1>8. QED
  BY <1>1, <1>3, <1>6, <1>7, QuietMoved

LEMMA BlankProfileMoved ==
    ASSUME IInv, AInv, NEW w \in Handlers, BlankProfile(w)
    PROVE  Moved(w)
<1>1. job[w].step = "blank" /\ UNCHANGED <<rowVars, owned>> /\ torn \subseteq torn'
  BY TearsType DEF BlankProfile, IInv
<1>2. PICK u \in Users : u = job[w].user
  BY <1>1 DEF IInv, Own, Fits, UserSteps, SweepSteps, ReleaseSteps
<1>3. u \in Touches(job[w])
  BY <1>1, <1>2 DEF Touches, ReleaseSteps
<1>4. ReleaseFlight(job[w])
  BY DEF AInv, Flight
<1>5. job[w].rows = {} /\ Within(u, {})
  BY <1>1, <1>2, <1>4 DEF ReleaseFlight
<1>6. PICK j \in Jobs : j = Step(w, "close") /\ j.step = "close" /\ j.rows = {}
  BY <1>5, StepType DEF IInv, Steps, SweepSteps, ReleaseSteps
<1>7. Go(w, j) /\ ShowNumber(u, NoNumber)
  BY <1>2, <1>6 DEF BlankProfile
<1>8. Reach(w)
  BY <1>1, <1>3, <1>7, ShowReach
<1>9. Sole(u, NoNumber)
  BY <1>5, NumbersAssumption DEF Within, Sole, NumbersAssumption
<1>10. \A v \in Users, m \in Numbers : Mid(job[w], v, m) => v = u
  BY <1>1, <1>2 DEF Mid
<1>11. Moves(w)
  BY <1>1, <1>7, <1>8, <1>9, <1>10, ShowMoved
<1>12. ReleaseFlight(j)'
  BY <1>6 DEF ReleaseFlight
<1>13. Flight(job[w])'
  <2>1. Flight(j)' /\ job'[w] = j
    BY <1>6, <1>7, <1>12, FlightOfStep, GoType DEF ReleaseSteps, IInv
  <2>2. QED
    BY <2>1, FlightOf
<1>14. QED
  BY <1>8, <1>11, <1>13 DEF Moved

--------------------------------------------------------------------------------
(* The pool.                                                               *)

LEMMA PoolMoved ==
    ASSUME IInv, AInv, NEW w \in Handlers,
           \/ Replenish(w) \/ CleanupOrphans(w) \/ Imported(w) \/ Replenished(w)
           \/ \E n \in Numbers : FindNumber(w, n)
    PROVE  Moved(w)
<1>1. UNCHANGED <<number, rowVars, owned>>
  BY DEF Replenish, CleanupOrphans, Imported, Replenished, FindNumber, profileVars
<1>2. job[w].step \in {"idle", "import", "find"}
  BY DEF Replenish, CleanupOrphans, Request, Start, Imported, Replenished, FindNumber
<1>3. \A v \in Users, m \in Numbers : ~Mid(job[w], v, m)
  BY <1>2, NotMid
<1>4. ASSUME NEW j \in Jobs, Go(w, j), j.step \in {"list", "orphans", "find", "purchase"}
      PROVE  Moved(w)
  <2>1. j.step \notin TouchSteps \ {"purchase"} /\ j.step # "import"
    BY <1>4 DEF TouchSteps, ClaimSteps, ApproveSteps, AssignSteps, UnassignSteps, ReleaseSteps
  <2>2. QED
    BY <1>1, <1>2, <1>3, <1>4, <2>1, PlainMoved
<1>5. ASSUME Replenish(w) PROVE Moved(w)
  <2> DEFINE j == [Idle EXCEPT !.step = "list", !.need = Target - Cardinality(Available)]
  <2>1. j \in Jobs /\ j.step = "list" /\ Go(w, j)
    BY <1>5, Deficit DEF Replenish, Request, Start, IInv, Idle, Jobs, Steps, PoolSteps
  <2> HIDE DEF j
  <2>2. QED
    BY <1>4, <2>1
<1>6. ASSUME CleanupOrphans(w) PROVE Moved(w)
  <2> DEFINE j == [Idle EXCEPT !.step = "orphans", !.seen = owned]
  <2>1. j \in Jobs /\ j.step = "orphans" /\ Go(w, j)
    BY <1>6 DEF CleanupOrphans, Request, Start, IInv, TypeOK, Idle, Jobs, Steps
  <2> HIDE DEF j
  <2>2. QED
    BY <1>4, <2>1
<1>7. \A s \in {"find", "purchase"} : Step(w, s) \in Jobs /\ Step(w, s).step = s
  BY StepType DEF IInv, Steps, PoolSteps
<1> HIDE DEF Step
<1>8. ASSUME Imported(w) PROVE Moved(w)
  <2> DEFINE j == [Step(w, "find") EXCEPT !.seen = {}]
  <2>1. j \in Jobs /\ j.step = "find"
    BY <1>7 DEF Jobs
  <2>2. Go(w, j)
    BY <1>8 DEF Imported
  <2> HIDE DEF j
  <2>3. QED
    BY <1>4, <2>1, <2>2
<1>9. ASSUME NEW n \in Numbers, FindNumber(w, n) PROVE Moved(w)
  <2> DEFINE j == [Step(w, "purchase") EXCEPT !.number = n]
  <2>1. j \in Jobs /\ j.step = "purchase"
    BY <1>7 DEF Jobs
  <2>2. Go(w, j)
    BY <1>9 DEF FindNumber
  <2> HIDE DEF j
  <2>3. QED
    BY <1>4, <2>1, <2>2
<1>10. ASSUME Replenished(w) PROVE Moved(w)
  BY <1>1, <1>2, <1>3, <1>10, DoneMoved DEF Replenished
<1>11. QED
  BY <1>5, <1>6, <1>8, <1>9, <1>10

LEMMA ListUntrackedMoved ==
    ASSUME IInv, NEW w \in Handlers, ListUntracked(w)
    PROVE  Moved(w)
<1>1. job[w].step = "list" /\ UNCHANGED <<number, rowVars, owned>>
  BY DEF ListUntracked, profileVars
<1>2. PICK j \in Jobs : /\ j = [Step(w, "import") EXCEPT !.seen = owned \ tracked]
                        /\ j.step = "import" /\ j.seen \subseteq owned
  <2>1. Step(w, "import") \in Jobs /\ Step(w, "import").step = "import"
    BY StepType DEF IInv, Steps, PoolSteps
  <2>2. owned \ tracked \in SUBSET Numbers
    BY DEF IInv, TypeOK
  <2> DEFINE k == [Step(w, "import") EXCEPT !.seen = owned \ tracked]
  <2> HIDE DEF Step
  <2>3. k \in Jobs /\ k.step = "import" /\ k.seen = owned \ tracked
    BY <2>1, <2>2 DEF Jobs
  <2>4. QED
    BY <2>3 DEF k
<1>3. Go(w, j)
  BY <1>2 DEF ListUntracked
<1>4. ClaimFlight(j)'
  BY <1>1, <1>2 DEF ClaimFlight, RecordSteps, ClaimSteps
<1>5. Flight(j)'
  BY <1>2, <1>4, FlightOfStep
<1>6. \A v \in Users, m \in Numbers : ~Mid(job[w], v, m)
  BY <1>1, NotMid
<1>7. QED
  BY <1>1, <1>3, <1>5, <1>6, QuietMoved

\* A number is recorded.
LEMMA RecordMoved ==
    ASSUME IInv, NEW w \in Handlers, NEW j \in Jobs, Go(w, j), torn \subseteq torn',
           UNCHANGED <<number, holder, owned>>, NEW n \in owned \cup torn,
           tracked' = tracked \cup {n}, job[w].step \in {"import", "record"}, Flight(j)'
    PROVE  Moved(w)
<1>1. job'[w] = j /\ \A v \in Handlers \ {w} : job'[v] = job[v]
  BY GoType DEF IInv
<1>2. Flight(job[w])'
  BY <1>1, FlightOf
<1>3. \A v \in Users, m \in Numbers : ~Mid(job[w], v, m)
  BY NotMid
<1>4. QED
  BY <1>1, <1>2, <1>3, StillMoved

LEMMA ImportNumberMoved ==
    ASSUME IInv, AInv, NEW w \in Handlers, NEW n \in Numbers, ImportNumber(w, n)
    PROVE  Moved(w)
<1> DEFINE m == IF n \notin tracked THEN job[w].need - 1 ELSE job[w].need
<1> DEFINE k == [job[w] EXCEPT !.seen = @ \ {n}, !.need = m]
<1>1. /\ job[w].step = "import" /\ UNCHANGED <<number, holder, owned>> /\ torn \subseteq torn'
      /\ tracked' = tracked \cup {n} /\ n \in job[w].seen /\ job[w].need > 0
  BY TearsType DEF ImportNumber, IInv, profileVars
<1>2. job[w] \in Jobs /\ m \in Nat
  BY <1>1, JobTypes DEF IInv, TypeOK
<1>3. Go(w, k)
  BY DEF ImportNumber
<1> HIDE DEF m
<1>4. k \in Jobs /\ k.step = "import" /\ k.seen = job[w].seen \ {n}
  BY <1>1, <1>2 DEF Jobs
<1> HIDE DEF k
<1>5. PICK j \in Jobs : j = k /\ j.step = "import" /\ j.seen = job[w].seen \ {n}
  BY <1>4
<1>6. ClaimFlight(job[w])
  BY DEF AInv, Flight
<1>7. n \in owned \cup torn
  BY <1>1, <1>6 DEF ClaimFlight, RecordSteps
<1>8. ClaimFlight(j)'
  BY <1>1, <1>5, <1>6 DEF ClaimFlight, RecordSteps, ClaimSteps
<1>9. Flight(j)'
  BY <1>5, <1>8, FlightOfStep
<1>10. QED
  BY <1>1, <1>3, <1>5, <1>7, <1>9, RecordMoved

LEMMA PurchaseMoved ==
    ASSUME IInv, AInv, NEW w \in Handlers, PurchaseForPool(w)
    PROVE  Moved(w)
<1>1. job[w].step = "purchase" /\ UNCHANGED <<number, rowVars>> /\ torn \subseteq torn'
  BY TearsType DEF PurchaseForPool, IInv, profileVars
<1>2. \A v \in Users, m \in Numbers : ~Mid(job[w], v, m)
  BY <1>1, NotMid
<1>3. \A s \in {"find", "record"} :
          Step(w, s) \in Jobs /\ Step(w, s).step = s /\ Step(w, s).number = job[w].number
  BY StepType DEF IInv, Steps, PoolSteps
<1> HIDE DEF Step
<1> DEFINE k == [Step(w, "find") EXCEPT !.number = NoNumber]
<1>4. k \in Jobs /\ k.step = "find"
  BY <1>3 DEF Jobs
<1>5. CASE Go(w, k) /\ UNCHANGED owned
  <2> HIDE DEF k
  <2>1. k.step \notin TouchSteps \ {"purchase"} /\ k.step # "import"
    BY <1>4 DEF TouchSteps, ClaimSteps, ApproveSteps, AssignSteps, UnassignSteps, ReleaseSteps
  <2>2. QED
    BY <1>1, <1>2, <1>4, <1>5, <2>1, PlainMoved
<1>6. CASE Go(w, Step(w, "record")) /\ owned' = owned \cup {job[w].number}
  <2>1. PICK j \in Jobs : j = Step(w, "record") /\ j.step = "record" /\ j.number = job[w].number
    BY <1>3
  <2>2. ClaimFlight(j)'
    BY <1>6, <2>1 DEF ClaimFlight, RecordSteps, ClaimSteps
  <2>3. Flight(j)'
    BY <2>1, <2>2, FlightOfStep
  <2>4. QED
    BY <1>1, <1>2, <1>6, <2>1, <2>3, QuietMoved
<1>7. QED
  BY <1>5, <1>6 DEF PurchaseForPool

LEMMA RecordPurchaseMoved ==
    ASSUME IInv, AInv, NEW w \in Handlers, RecordPurchase(w)
    PROVE  Moved(w)
<1> DEFINE m == IF job[w].number \in tracked THEN job[w].need ELSE job[w].need - 1
<1> DEFINE k == [Step(w, "find") EXCEPT !.number = NoNumber, !.need = m]
<1>1. /\ job[w].step = "record" /\ UNCHANGED <<number, holder, owned>> /\ torn \subseteq torn'
      /\ tracked' = tracked \cup {job[w].number}
  BY TearsType DEF RecordPurchase, IInv, profileVars
<1>2. job[w].need > 0 /\ job[w].need \in Nat
  BY <1>1, JobTypes DEF IInv, TypeOK, Own, Fits
<1>3. Step(w, "find") \in Jobs /\ Step(w, "find").step = "find"
      /\ Step(w, "find").need = job[w].need
  BY StepType DEF IInv, Steps, PoolSteps
<1>4. Go(w, k)
  BY <1>3 DEF RecordPurchase, Step
<1>5. m \in Nat
  BY <1>2
<1> HIDE DEF m, Step
<1>6. k \in Jobs /\ k.step = "find"
  BY <1>3, <1>5 DEF Jobs
<1> HIDE DEF k
<1>7. PICK j \in Jobs : j = k /\ j.step = "find"
  BY <1>6
<1>8. Flight(j)'
  BY <1>7, FlightOfStep
     DEF TouchSteps, ClaimSteps, ApproveSteps, AssignSteps, UnassignSteps, ReleaseSteps
<1>9. job[w].number \in owned \cup torn
  BY <1>1 DEF AInv, Flight, ClaimFlight, RecordSteps
<1>10. QED
  BY <1>1, <1>4, <1>7, <1>8, <1>9, RecordMoved

LEMMA RecordFailsMoved ==
    ASSUME IInv, AInv, NEW w \in Handlers, RecordFails(w)
    PROVE  Moved(w)
<1> DEFINE k == [Step(w, "find") EXCEPT !.number = NoNumber]
<1>1. job[w].step = "record" /\ UNCHANGED <<number, rowVars, owned>> /\ torn \subseteq torn'
  BY TearsType DEF RecordFails, IInv, profileVars
<1>2. Step(w, "find") \in Jobs /\ Step(w, "find").step = "find"
  BY StepType DEF IInv, Steps, PoolSteps
<1>3. Go(w, k)
  BY DEF RecordFails
<1> HIDE DEF Step
<1>4. k \in Jobs /\ k.step = "find"
  BY <1>2 DEF Jobs
<1> HIDE DEF k
<1>5. PICK j \in Jobs : j = k /\ j.step = "find"
  BY <1>4
<1>6. Flight(j)'
  BY <1>5, FlightOfStep
     DEF TouchSteps, ClaimSteps, ApproveSteps, AssignSteps, UnassignSteps, ReleaseSteps
<1>7. \A v \in Users, m \in Numbers : ~Mid(job[w], v, m)
  BY <1>1, NotMid
<1>8. QED
  BY <1>1, <1>3, <1>5, <1>6, <1>7, QuietMoved

\* The rows a cleanup deletes are of numbers that were given back, or torn.
LEMMA DeleteOrphansMoved ==
    ASSUME IInv, AInv, NEW w \in Handlers, DeleteOrphans(w)
    PROVE  Moved(w)
<1>1. job[w].step = "orphans" /\ UNCHANGED <<number, owned>> /\ Facts(w)
  BY StrikeFacts DEF DeleteOrphans, profileVars
<1>2. torn \subseteq torn'
  BY <1>1 DEF Facts, Effect
<1>3. PICK gone \in SUBSET Numbers : gone = tracked \ job[w].seen
  BY DEF IInv, TypeOK
<1>4. Delete(gone) /\ job' = [Forget(job, gone) EXCEPT ![w] = Idle]
  BY <1>3 DEF DeleteOrphans
<1>5. tracked' = tracked \ gone
      /\ \A m \in Numbers : holder'[m] = IF m \in gone THEN NoUser ELSE holder[m]
  BY <1>4 DEF Delete
<1>6. job'[w] = Idle /\ \A v \in Handlers \ {w} : job'[v].rows = job[v].rows \ gone
  BY <1>4, <1>5, IdleType, ForgetType DEF IInv
<1>7. gone \subseteq Touches(job[w])
  BY <1>1, <1>3, TouchesOfOrphans DEF IInv, TypeOK
<1>8. gone \subseteq torn'
  <2> SUFFICES ASSUME NEW n \in gone, n \notin torn' PROVE FALSE
    OBVIOUS
  <2>1. n \in tracked \ owned
    BY <1>1, <1>2, <1>3 DEF IInv, Own, Returned
  <2>2. PICK v \in Handlers : job[v].step = "strike" /\ job[v].number = n
    BY <1>2, <2>1 DEF AInv, Paid
  <2>3. n \in Touches(job[v])
    BY <2>2 DEF Touches, ReleaseSteps
  <2>4. QED
    BY <1>1, <1>7, <2>2, <2>3, Apart DEF Facts
<1>9. Reach(w)
  BY <1>1, <1>5, <1>6, <1>7 DEF Reach
<1>10. \A v \in Users, m \in Numbers : ~Mid(job[w], v, m)
  BY <1>1, NotMid
<1>11. Moves(w)
  BY <1>1, <1>2, <1>5, <1>8, <1>10 DEF Moves, Agree
<1>12. Flight(job[w])'
  BY <1>6, IdleIsPlain, FlightOf, FlightOfStep
<1>13. QED
  BY <1>9, <1>11, <1>12 DEF Moved

--------------------------------------------------------------------------------
(* Faults.                                                                 *)

LEMMA CrashMoved ==
    ASSUME IInv, NEW w \in Handlers, Crash(w)
    PROVE  Moved(w)
<1>1. UNCHANGED <<number, rowVars, owned>> /\ Done(w) /\ job[w] \in Jobs
  BY DEF Crash, IInv, TypeOK, profileVars
<1>2. Touches(job[w]) \cap (Users \cup Numbers) \subseteq torn'
  BY TearsType DEF Crash, IInv
<1>3. \A v \in Users \ torn', m \in Numbers \ torn' : ~Mid(job[w], v, m)
  BY <1>1, <1>2, MidTouches
<1>4. job[w].step = "strike" => job[w].number \in torn'
  <2>1. job[w].step = "strike" => job[w].number \in Numbers
    BY DEF IInv, Own, Fits, NumberSteps
  <2>2. job[w].step = "strike" => job[w].number \in Touches(job[w])
    BY <2>1 DEF Touches, ReleaseSteps
  <2>3. QED
    BY <1>2, <2>1, <2>2
<1>5. QED
  BY <1>1, <1>3, <1>4, DoneMoved

LEMMA ProfileWriteFailsMoved ==
    ASSUME IInv, AInv, NEW w \in Handlers, ProfileWriteFails(w)
    PROVE  Moved(w)
<1>1. UNCHANGED <<number, rowVars, owned>> /\ job[w] \in Jobs /\ torn \subseteq torn'
      /\ job[w].step \in {"clear", "letgo", "blank"}
  BY TearsType DEF ProfileWriteFails, IInv, TypeOK, profileVars
<1>2. Touches(job[w]) \cap (Users \cup Numbers) \subseteq torn'
  BY TearsType DEF ProfileWriteFails, IInv
<1>3. \A v \in Users \ torn', m \in Numbers \ torn' : ~Mid(job[w], v, m)
  BY <1>1, <1>2, MidTouches
<1>4. /\ job[w].step \in {"clear", "letgo"} => job[w].number \in torn'
      /\ job[w].step = "letgo" => job[w].user \in torn'
  <2>1. /\ job[w].step \in {"clear", "letgo"} => job[w].number \in Numbers
        /\ job[w].step = "letgo" => job[w].user \in Users
    BY DEF IInv, Own, Fits, NumberSteps, UserSteps, AssignSteps, UnassignSteps
  <2>2. QED
    BY <1>2, <2>1 DEF Touches, AssignSteps, UnassignSteps
<1>5. ASSUME NEW s \in {"pool", "show", "close"}, Go(w, Step(w, s)),
             s = "pool" => job[w].step = "clear", s = "show" => job[w].step = "letgo",
             s = "close" => job[w].step = "blank"
      PROVE  Moved(w)
  <2>1. PICK j \in Jobs : /\ j = Step(w, s) /\ j.step = s /\ j.user = job[w].user
                          /\ j.number = job[w].number /\ j.rows = job[w].rows
                          /\ j.other = job[w].other
    BY StepType DEF IInv, Steps, UnassignSteps, AssignSteps, SweepSteps, ReleaseSteps
  <2>2. Flight(job[w])
    BY DEF AInv
  <2>3. Flight(j)'
    <3>1. CASE s = "pool"
      <4>1. AssignFlight(j)'
        BY <1>1, <1>4, <1>5, <2>1, <2>2, <3>1 DEF Flight, AssignFlight
      <4>2. QED
        BY <2>1, <3>1, <4>1, FlightOfStep DEF UnassignSteps
    <3>2. CASE s = "show"
      <4>1. AssignFlight(j)'
        BY <1>4, <1>5, <2>1, <3>2 DEF AssignFlight, Sole
      <4>2. QED
        BY <2>1, <3>2, <4>1, FlightOfStep DEF AssignSteps
    <3>3. CASE s = "close"
      <4>1. ReleaseFlight(j)'
        BY <1>5, <2>1, <2>2, <3>3 DEF Flight, ReleaseFlight
      <4>2. QED
        BY <2>1, <3>3, <4>1, FlightOfStep DEF ReleaseSteps
    <3>4. QED
      BY <3>1, <3>2, <3>3
  <2>4. QED
    BY <1>1, <1>3, <1>5, <2>1, <2>3, QuietMoved
<1>6. QED
  BY <1>1, <1>5 DEF ProfileWriteFails

--------------------------------------------------------------------------------
LEMMA WorkMoved ==
    ASSUME IInv, AInv, NEW w \in Handlers,
           Requests(w) \/ Work(w) \/ Faults(w) \/ \E u \in Users : ListCandidate(w, u)
    PROVE  Moved(w)
<1>1. CASE Requests(w)
  BY <1>1, StartClaimMoved, ApproveMoved, ReassignMoved, PoolMoved, PayMoved DEF Requests
<1>2. CASE Work(w)
  <2>1. CASE \/ BuyNumber(w) \/ ChargeDeclined(w) \/ ReadPrevious(w) \/ HoldNumber(w)
             \/ RouteNumber(w) \/ RouteRefused(w) \/ FreeOthers(w) \/ TakeRow(w)
             \/ PickAvailable(w) \/ SeatCustomer(w) \/ AcceptRequest(w) \/ PostNumber(w)
    BY <2>1, BuyNumberMoved, ChargeDeclinedMoved, ReadPreviousMoved, HoldNumberMoved, RouteNumberMoved,
       RouteRefusedMoved, FreeOthersMoved, TakeRowMoved, PickAvailableMoved, SeatCustomerMoved,
       AcceptRequestMoved, LastMoved
  <2>2. CASE \/ ClearHolder(w) \/ PoolRow(w) \/ ReadOthers(w) \/ SwapRows(w)
             \/ OldHolderLetsGo(w) \/ ShowAssigned(w)
    BY <2>2, ClearHolderMoved, PoolRowMoved, ReadOthersMoved, SwapRowsMoved,
       OldHolderLetsGoMoved, LastMoved
  <2>3. CASE \/ ApplyPlan(w) \/ Decide(w) \/ WriteWindow(w) \/ CloseGrace(w)
             \/ ReadRows(w) \/ StrikeRow(w) \/ RowIsGone(w) \/ HandedBack(w) \/ BlankProfile(w)
             \/ \E n \in Numbers : HandBack(w, n)
    BY <2>3, SweepMoved, ReadRowsMoved, StrikeRowMoved, RowIsGoneMoved, HandedBackMoved,
       BlankProfileMoved, HandBackMoved
  <2>4. CASE \/ ListUntracked(w) \/ Imported(w) \/ Replenished(w) \/ PurchaseForPool(w)
             \/ RecordPurchase(w) \/ DeleteOrphans(w)
             \/ \E n \in Numbers : ImportNumber(w, n) \/ FindNumber(w, n)
    BY <2>4, ListUntrackedMoved, PoolMoved, PurchaseMoved, RecordPurchaseMoved,
       DeleteOrphansMoved, ImportNumberMoved
  <2>5. QED
    BY <1>2, <2>1, <2>2, <2>3, <2>4 DEF Work
<1>3. CASE Faults(w)
  BY <1>3, CrashMoved, ProfileWriteFailsMoved, RecordFailsMoved, HandBackRefusedMoved DEF Faults
<1>4. QED
  BY <1>1, <1>2, <1>3, SweepMoved

LEMMA InitAgrees == Init => AInv
<1> SUFFICES ASSUME Init PROVE AInv
  OBVIOUS
<1>1. Pairs /\ Paid
  BY DEF Init, Pairs, Agree, Paid
<1>2. Flight(Idle)
  BY DEF Idle, Flight, ClaimFlight, ApproveFlight, AssignFlight, ReleaseFlight, ClaimSteps,
         RecordSteps, ReleaseSteps
<1>3. \A w \in Handlers : job[w] = Idle
  BY DEF Init
<1>4. QED
  BY <1>1, <1>2, <1>3 DEF AInv

LEMMA StandsStill ==
    ASSUME AInv, UNCHANGED <<number, owned, tracked, holder, job, torn>>
    PROVE  AInv'
<1>1. Pairs' /\ Paid'
  BY DEF AInv, Pairs, Agree, Mid, Paid
<1>2. ASSUME NEW w \in Handlers PROVE Flight(job[w])'
  <2>1. Flight(job[w])
    BY DEF AInv
  <2>2. QED
    BY <2>1 DEF Flight, ClaimFlight, ApproveFlight, AssignFlight, ReleaseFlight, Sole, Within
<1>3. QED
  BY <1>1, <1>2 DEF AInv

LEMMA AgreeStep == IInv /\ AInv /\ [Next]_vars => AInv'
<1> SUFFICES ASSUME IInv, AInv, [Next]_vars PROVE AInv'
  OBVIOUS
<1>1. ASSUME NEW w \in Handlers,
             Requests(w) \/ Work(w) \/ Faults(w) \/ \E u \in Users : ListCandidate(w, u)
      PROVE  AInv'
  BY <1>1, WorkFacts, SweepFacts, WorkMoved, StepAgrees
<1>2. ASSUME NEW u \in Users, Lapse(u) \/ GraceEnds(u) PROVE AInv'
  BY <1>2, StandsStill DEF Lapse, GraceEnds, rowVars
<1>3. CASE UNCHANGED vars
  BY <1>3, StandsStill DEF vars, profileVars, rowVars
<1>4. QED
  BY <1>1, <1>2, <1>3 DEF Next, Sweep

\* A number's row names a customer exactly when the profile shows the number (schema.prisma
\* "who holds it is recorded here"), once no handler is at work on either and if no race, no
\* death and no failed write came between the two databases: however many operations follow
\* one another, each leaves the two stores in step.
THEOREM HoldersAgree == Spec => []Agreement
<1>1. ASSUME IInv, AInv PROVE Agreement
  <2> SUFFICES ASSUME NEW u \in Users, NEW n \in Numbers, {u, n} \cap (torn \cup Busy) = {}
               PROVE  number[u] = n <=> n \in tracked /\ holder[n] = u
    BY DEF Agreement
  <2>1. ASSUME NEW w \in Handlers, Mid(job[w], u, n) PROVE FALSE
    <3>1. u \in Touches(job[w])
      BY <1>1, <2>1, MidTouches DEF IInv, TypeOK
    <3>2. QED
      BY <3>1 DEF Busy
  <2>2. Agree(u, n)
    BY <1>1, <2>1 DEF AInv, Pairs
  <2>3. holder[n] = u => n \in tracked
    BY <1>1, NumbersAssumption DEF IInv, TypeOK, NumbersAssumption
  <2>4. QED
    BY <2>2, <2>3 DEF Agree
<1>2. Spec => [](IInv /\ AInv)
  <2>1. Init => IInv /\ AInv
    BY InitInv, InitAgrees
  <2>2. IInv /\ AInv /\ [Next]_vars => (IInv /\ AInv)'
    BY StepInv, AgreeStep
  <2>3. QED
    BY <2>1, <2>2, PTL DEF Spec
<1>3. QED
  BY <1>1, <1>2, PTL

================================================================================
