------------------------- MODULE TenantDatabasesProofs -------------------------
(***************************************************************************)
(* Theorems about TenantDatabases, for any brands, emails and handlers.    *)
(***************************************************************************)
EXTENDS TenantDatabases, FiniteSetTheorems, TLAPS

Signing == {"findRow", "claimSpare", "createRow"}

Entering == {"consume", "account", "mirror"}

Holding == {"record", "migrate", "seed", "drop"}

\* Steps that work on a brand.
Owned == Provisioning \cup Removing \cup Entering \cup {"look", "stamp"}

Gone(b) == brand[b].status = "gone"

\* What a handler's step says of what it carries.
JobFits(j) ==
    /\ j.step \in Owned => j.brand \in Brands
    /\ j.step \in Signing \cup Entering => j.kind = "signup"
    /\ j.kind = "signup" => j.email \in Emails
    /\ j.kind = "signup" /\ j.step \in Owned => brand[j.brand].email = j.email \/ Gone(j.brand)
    /\ j.step \in Holding => j.project \in 1..made /\ store[j.project].brand = j.brand
    /\ j.planned # 0 => j.planned \in 1..made /\ store[j.planned].planned
    /\ j.kind = "signup" => j.step # "refill" /\ j.listed = {}

Working == Provisioning \cup Removing

\* What it has read of the brand's database still holds, while it is alone.
Holds(j) ==
    LET p == base[j.brand].project
    IN  /\ j.step \notin {"dbRead", "rowFailed"} => Exists(j.brand)
        /\ j.step = "project" => p = 0
        /\ j.step = "record" => p \in {0, j.project}
        /\ j.step = "drop" => p = j.project /\ p # j.planned
        /\ j.step \in {"forget", "dropRow"} => p = 0 \/ ~store[p].live
        /\ j.step = "dropRead" => p # j.planned \/ p = 0

Current(j) == j.step \in Working /\ j.brand \notin raced => Holds(j)

\* Two handlers that work on one brand are noticed, unless both set it up with
\* the database it has.
Alone ==
    \A v, w \in Handlers : \A b \in Brands :
        v # w /\ WorksOn(v, b) /\ WorksOn(w, b) /\ b \notin raced =>
            job[v].step \in Provisioning /\ base[b].project # 0

\* A recorded database is its brand's.
BasesFit ==
    \A b \in Brands :
        /\ base[b].project # 0 =>
              Exists(b) /\ base[b].project \in 1..made /\ store[base[b].project].brand = b
        /\ base[b].project = 0 => base[b].status = "none"

\* The label of an email is unique; a spare has none.
RowsFit ==
    /\ \A b \in Brands : brand[b].spare \/ Unused(b) => brand[b].email = NoEmail
    /\ \A b, c \in Brands :
          brand[b].email \in Emails /\ brand[c].email = brand[b].email /\ Exists(b) /\ Exists(c)
              => b = c

Made == \A p \in Projects : store[p].live => p <= made /\ store[p].brand \in Brands

\* An account is in the database that the row of its email names.
AccountsFit ==
    \A p \in Projects :
        store[p].live /\ store[p].account # NoEmail /\ store[p].brand \notin raced =>
            /\ base[store[p].brand].project = p
            /\ brand[store[p].brand].email = store[p].account

JobsFit == \A w \in Handlers : JobFits(job[w])

JobsCurrent == \A w \in Handlers : Current(job[w])

Inv ==
    /\ JobsFit
    /\ JobsCurrent
    /\ Alone
    /\ BasesFit
    /\ RowsFit
    /\ Made
    /\ AccountsFit
    /\ DatabaseIsRecorded
--------------------------------------------------------------------------------
(* Types, and what a handler becomes.                                      *)

\* Handler w becomes j.
Turns(w, j) ==
    /\ j \in Jobs /\ job' \in [Handlers -> Jobs]
    /\ job'[w] = j /\ \A v \in Handlers \ {w} : job'[v] = job[v]

LEMMA IdleType ==
    /\ Idle \in Jobs /\ Idle.step = "idle" /\ Idle.kind = "none" /\ Idle.brand = NoBrand
    /\ Idle.project = 0 /\ Idle.planned = 0 /\ Idle.listed = {} /\ NoRow \in Rows /\ NoBase \in Bases
    /\ NoStore \in Stores
BY DatabaseAssumption
   DEF Idle, Jobs, Steps, NoRow, NoBase, NoStore, Rows, Bases, Stores, DatabaseAssumption

LEMMA JobTypes ==
    ASSUME NEW j \in Jobs
    PROVE  /\ j.step \in Steps /\ j.brand \in Brands \cup {NoBrand} /\ j.project \in 0..MaxProjects
           /\ j.email \in Emails \cup {NoEmail} /\ j.code \in 0..MaxCodes
           /\ j.planned \in 0..MaxProjects /\ j.listed \subseteq Brands /\ j.short \in 0..Target
BY DEF Jobs

LEMMA BecomeTurns ==
    ASSUME TypeOK, NEW w \in Handlers, NEW j \in Jobs, Become(w, j)
    PROVE  Turns(w, j)
BY DEF TypeOK, Become, Turns

LEMMA DoneTurns ==
    ASSUME TypeOK, NEW w \in Handlers, Done(w)
    PROVE  Turns(w, Idle)
BY IdleType, BecomeTurns DEF Done

LEMMA GotoTurns ==
    ASSUME TypeOK, NEW w \in Handlers, NEW s \in Steps, Goto(w, s)
    PROVE  \E j \in Jobs :
             /\ Turns(w, j) /\ j.step = s /\ j.kind = job[w].kind /\ j.brand = job[w].brand
             /\ j.project = job[w].project /\ j.email = job[w].email
             /\ j.planned = job[w].planned /\ j.listed = job[w].listed
<1> DEFINE j == [job[w] EXCEPT !.step = s]
<1>1. job[w] \in Jobs
  BY DEF TypeOK
<1>2. /\ j \in Jobs /\ j.step = s /\ j.kind = job[w].kind /\ j.brand = job[w].brand
      /\ j.project = job[w].project /\ j.email = job[w].email /\ j.planned = job[w].planned /\ j.listed = job[w].listed
  BY <1>1 DEF Jobs
<1>3. Become(w, j)
  BY DEF Goto
<1> HIDE DEF j
<1>4. QED
  BY <1>2, <1>3, BecomeTurns

\* A handler takes a brand, or a database, and goes on.
LEMMA TakeTurns ==
    ASSUME TypeOK, NEW w \in Handlers, NEW s \in Steps, NEW b \in Brands,
           Become(w, [job[w] EXCEPT !.step = s, !.brand = b])
    PROVE  \E j \in Jobs :
             /\ Turns(w, j) /\ j.step = s /\ j.kind = job[w].kind /\ j.brand = b
             /\ j.project = job[w].project /\ j.email = job[w].email
             /\ j.planned = job[w].planned /\ j.listed = job[w].listed
<1> DEFINE j == [job[w] EXCEPT !.step = s, !.brand = b]
<1>1. job[w] \in Jobs
  BY DEF TypeOK
<1>2. /\ j \in Jobs /\ j.step = s /\ j.kind = job[w].kind /\ j.brand = b
      /\ j.project = job[w].project /\ j.email = job[w].email /\ j.planned = job[w].planned /\ j.listed = job[w].listed
  BY <1>1 DEF Jobs
<1> HIDE DEF j
<1>3. QED
  BY <1>2, BecomeTurns DEF j

LEMMA GetTurns ==
    ASSUME TypeOK, NEW w \in Handlers, NEW s \in Steps, NEW p \in 0..MaxProjects,
           Become(w, [job[w] EXCEPT !.step = s, !.project = p])
    PROVE  \E j \in Jobs :
             /\ Turns(w, j) /\ j.step = s /\ j.kind = job[w].kind /\ j.brand = job[w].brand
             /\ j.project = p /\ j.email = job[w].email
             /\ j.planned = job[w].planned /\ j.listed = job[w].listed
<1> DEFINE j == [job[w] EXCEPT !.step = s, !.project = p]
<1>1. job[w] \in Jobs
  BY DEF TypeOK
<1>2. /\ j \in Jobs /\ j.step = s /\ j.kind = job[w].kind /\ j.brand = job[w].brand
      /\ j.project = p /\ j.email = job[w].email /\ j.planned = job[w].planned /\ j.listed = job[w].listed
  BY <1>1 DEF Jobs
<1> HIDE DEF j
<1>3. QED
  BY <1>2, BecomeTurns DEF j

\* A write to a row that keeps its label.
RowsSame ==
    \A b \in Brands : /\ brand'[b].email = brand[b].email /\ brand'[b].spare = brand[b].spare
                      /\ Exists(b)' <=> Exists(b)
                      /\ Gone(b)' <=> Gone(b)

LEMMA SameRows == UNCHANGED brand => RowsSame
BY DEF RowsSame, Exists, Gone

LEMMA WriteSame ==
    ASSUME TypeOK, NEW b \in Brands, Exists(b), NEW r \in Rows, Write(b, r),
           r.email = brand[b].email, r.spare = brand[b].spare, r.status \notin {"none", "gone"}
    PROVE  RowsSame /\ brand' \in [Brands -> Rows]
<1> DEFINE q == [r EXCEPT !.stuck = FALSE]
<1>1. q \in Rows /\ q.email = r.email /\ q.spare = r.spare /\ q.status = r.status
  BY DEF Rows
<1>2. brand' = [brand EXCEPT ![b] = q] /\ brand \in [Brands -> Rows]
  BY DEF Write, TypeOK
<1> HIDE DEF q
<1>3. brand' \in [Brands -> Rows] /\ brand'[b] = q /\ \A c \in Brands \ {b} : brand'[c] = brand[c]
  BY <1>1, <1>2
<1>4. QED
  BY <1>1, <1>3 DEF RowsSame, Exists, Gone

BasesSame ==
    \A b \in Brands : /\ base'[b].project = base[b].project
                      /\ base'[b].project = 0 => base'[b].status = base[b].status

LEMMA SameBases == UNCHANGED base => BasesSame
BY DEF BasesSame

LEMMA BaseIsSame ==
    ASSUME TypeOK, NEW b \in Brands, NEW s \in {"migrating", "active", "failed"}, BaseIs(b, s)
    PROVE  BasesSame /\ base' \in [Brands -> Bases]
<1>1. base \in [Brands -> Bases]
  BY DEF TypeOK
<1>2. CASE base[b].project = 0
  BY <1>1, <1>2 DEF BaseIs, BasesSame
<1>3. CASE base[b].project # 0
  <2> DEFINE r == [base[b] EXCEPT !.status = s]
  <2>1. base' = [base EXCEPT ![b] = r]
    BY <1>1, <1>3 DEF BaseIs
  <2>2. r \in Bases /\ r.project = base[b].project
    BY <1>1 DEF Bases
  <2> HIDE DEF r
  <2>3. base' \in [Brands -> Bases] /\ base'[b] = r /\ \A c \in Brands \ {b} : base'[c] = base[c]
    BY <1>1, <2>1, <2>2
  <2>4. QED
    BY <1>3, <2>2, <2>3 DEF BasesSame
<1>4. QED
  BY <1>2, <1>3

LEMMA BeginsType ==
    ASSUME TypeOK, NEW w \in Handlers, NEW b \in Brands, Begins(w, b)
    PROVE  raced' \subseteq Brands /\ raced \subseteq raced'
BY DEF TypeOK, Begins

LEMMA BeginsRemovalType ==
    ASSUME TypeOK, NEW w \in Handlers, NEW b \in Brands, BeginsRemoval(w, b)
    PROVE  raced' \subseteq Brands /\ raced \subseteq raced'
BY DEF TypeOK, BeginsRemoval

--------------------------------------------------------------------------------
(* What a step leaves of the invariant.                                    *)

\* What holds of every step: labels and brands of databases stay.
Stable ==
    /\ made' \in 0..MaxProjects /\ made <= made'
    /\ \A b \in Brands : /\ Gone(b) => Gone(b)'
                         /\ brand[b].email \in Emails
                               => brand'[b].email = brand[b].email \/ Gone(b)'
    /\ \A p \in 1..made : /\ store'[p].brand = store[p].brand
                          /\ store[p].planned => store'[p].planned
                          /\ store'[p].live => store[p].live

LEMMA FitsStable ==
    ASSUME TypeOK, Stable, NEW j \in Jobs, JobFits(j)
    PROVE  JobFits(j)'
<1>1. j.step \in Owned => j.brand \in Brands
  BY DEF JobFits
<1>2. \A p \in 1..made : p \in 1..made'
  BY DEF TypeOK, Stable
<1>3. j.kind = "signup" /\ j.step \in Owned => brand'[j.brand].email = j.email \/ Gone(j.brand)'
  BY <1>1 DEF JobFits, Stable
<1>4. QED
  BY <1>1, <1>2, <1>3 DEF JobFits, Stable

LEMMA CurrentStable ==
    ASSUME TypeOK, Stable, BasesFit, NEW j \in Jobs, JobFits(j), Current(j),
           raced \subseteq raced',
           j.step \in Working => \/ j.brand \in raced'
                                 \/ /\ base'[j.brand].project = base[j.brand].project
                                    /\ Exists(j.brand) => Exists(j.brand)'
    PROVE  Current(j)'
<1> SUFFICES ASSUME j.step \in Working, j.brand \notin raced' PROVE Holds(j)'
  BY DEF Current
<1>1. Holds(j) /\ j.brand \in Brands
  BY DEF Current, JobFits, Owned, Working
<1>2. /\ base'[j.brand].project = base[j.brand].project
      /\ Exists(j.brand) => Exists(j.brand)'
  BY <1>1
<1>3. base[j.brand].project = 0 \/ base[j.brand].project \in 1..made
  BY <1>1 DEF BasesFit
<1>4. base[j.brand].project = 0 \/ ~store[base[j.brand].project].live
        => base[j.brand].project = 0 \/ ~store'[base[j.brand].project].live
  BY <1>3 DEF Stable
<1>5. QED
  BY <1>1, <1>2, <1>4 DEF Holds

\* Brand b is in handler w's hands alone, or known to be raced for.
Free(w, b) ==
    WorksOn(w, b) /\ (b \in raced \/ job[w].step \in Removing \/ base[b].project = 0)

\* Handler w becomes j, and changes no other brand than one it is alone with.
LEMMA JobsKept ==
    ASSUME TypeOK, Inv, Stable, NEW w \in Handlers, NEW j, Turns(w, j),
           raced \subseteq raced', JobFits(j)', Current(j)',
           \A b \in Brands : \/ Free(w, b)
                             \/ /\ base'[b].project = base[b].project
                                /\ Exists(b) => Exists(b)'
    PROVE  JobsFit' /\ JobsCurrent'
<1>1. ASSUME NEW v \in Handlers \ {w} PROVE JobFits(job[v])' /\ Current(job[v])'
  <2>1. job[v] \in Jobs /\ JobFits(job[v]) /\ Current(job[v])
    BY DEF TypeOK, Inv, JobsFit, JobsCurrent
  <2>2. PICK i \in Jobs : i = job[v]
    BY <2>1
  <2>3. job'[v] = i /\ JobFits(i) /\ Current(i)
    BY <2>1, <2>2 DEF Turns
  <2>4. ASSUME i.step \in Working
        PROVE  \/ i.brand \in raced'
               \/ /\ base'[i.brand].project = base[i.brand].project
                  /\ Exists(i.brand) => Exists(i.brand)'
    <3>1. i.brand \in Brands /\ WorksOn(v, i.brand)
      BY <2>2, <2>3, <2>4 DEF JobFits, Owned, Working, WorksOn
    <3>2. CASE Free(w, i.brand)
      <4>1. WorksOn(w, i.brand) /\ Provisioning \cap Removing = {}
        BY <3>2 DEF Free, Provisioning, Removing
      <4>2. i.brand \in raced
        BY <3>1, <3>2, <4>1 DEF Inv, Alone, Free
      <4>3. QED
        BY <4>2
    <3>3. CASE ~Free(w, i.brand)
      BY <3>1, <3>3
    <3>4. QED
      BY <3>2, <3>3
  <2>5. JobFits(i)'
    BY <2>3, FitsStable
  <2>6. Current(i)'
    BY <2>3, <2>4, CurrentStable DEF Inv
  <2>7. QED
    BY <2>3, <2>5, <2>6 DEF JobFits, Current, Holds
<1>2. ASSUME NEW v \in Handlers PROVE JobFits(job[v])' /\ Current(job[v])'
  <2>1. CASE v # w
    BY <1>1, <2>1
  <2>2. CASE v = w
    <3>1. job'[v] = j
      BY <2>2 DEF Turns
    <3>2. QED
      BY <3>1 DEF JobFits, Current, Holds
  <2>3. QED
    BY <2>1, <2>2
<1>3. QED
  BY <1>2 DEF JobsFit, JobsCurrent

\* Handler w becomes j, which goes on with its brand or begins with one.
Goes(w, j) ==
    j.step \in Working =>
        \/ WorksOn(w, j.brand) /\ (job[w].step \in Provisioning => j.step \in Provisioning)
        \/ Begins(w, j.brand) /\ j.step \in Provisioning
        \/ BeginsRemoval(w, j.brand)

LEMMA AloneKept ==
    ASSUME TypeOK, Inv, NEW w \in Handlers, NEW j, Turns(w, j), raced \subseteq raced', Goes(w, j),
           \A b \in Brands : \/ base[b].project # 0 => base'[b].project # 0
                             \/ WorksOn(w, b) /\ job[w].step \in Removing
    PROVE  Alone'
<1> SUFFICES ASSUME NEW v \in Handlers, NEW u \in Handlers, NEW b \in Brands, v # u,
                    WorksOn(v, b)', WorksOn(u, b)', b \notin raced'
             PROVE  job'[v].step \in Provisioning /\ base'[b].project # 0
  BY DEF Alone
<1>0. Provisioning \cap Removing = {}
  BY DEF Provisioning, Removing
<1>1. ASSUME NEW x \in Handlers \ {w}, WorksOn(x, b)', WorksOn(w, b)'
      PROVE  /\ job'[x].step \in Provisioning /\ job'[w].step \in Provisioning
             /\ base'[b].project # 0
  <2>1. WorksOn(x, b) /\ j.brand = b /\ j.step \in Working /\ job'[x] = job[x] /\ job'[w] = j
    BY <1>1 DEF Turns, WorksOn, Working
  <2>2. CASE WorksOn(w, b)
    <3>1. /\ job[x].step \in Provisioning /\ job[w].step \in Provisioning
          /\ base[b].project # 0
      BY <2>1, <2>2 DEF Inv, Alone
    <3>2. base'[b].project # 0
      BY <1>0, <3>1
    <3>3. CASE BeginsRemoval(w, b)
      BY <2>1, <3>3 DEF BeginsRemoval, Others
    <3>4. QED
      BY <2>1, <3>1, <3>2, <3>3 DEF Goes
  <2>3. CASE ~WorksOn(w, b)
    <3>1. ~BeginsRemoval(w, b)
      BY <2>1 DEF BeginsRemoval, Others
    <3>2. Begins(w, b) /\ j.step \in Provisioning
      BY <2>1, <2>3, <3>1 DEF Goes
    <3>3. base[b].project # 0 /\ job[x].step \notin Removing
      BY <2>1, <3>2 DEF Begins, Others
    <3>4. job[x].step \in Provisioning
      BY <2>1, <3>3 DEF WorksOn
    <3>5. QED
      BY <2>1, <2>3, <3>2, <3>3, <3>4
  <2>4. QED
    BY <2>2, <2>3
<1>2. CASE v # w /\ u # w
  <2>1. WorksOn(v, b) /\ WorksOn(u, b) /\ job'[v] = job[v]
    BY <1>2 DEF Turns, WorksOn
  <2>2. job[v].step \in Provisioning /\ base[b].project # 0
    BY <2>1 DEF Inv, Alone
  <2>3. ~(WorksOn(w, b) /\ job[w].step \in Removing)
    BY <1>0, <1>2, <2>1 DEF Inv, Alone
  <2>4. QED
    BY <2>1, <2>2, <2>3
<1>3. QED
  BY <1>1, <1>2

\* A step of a handler that changes no database and no label.
LEMMA Quiet ==
    ASSUME TypeOK, Inv, NEW w \in Handlers, NEW j, Turns(w, j), RowsSame, BasesSame,
           UNCHANGED <<store, made>>, raced \subseteq raced', strayed \subseteq strayed',
           At(w, "record") => \/ job[w].project \in strayed'
                              \/ base[job[w].brand].project = job[w].project
                              \/ job[w].brand \in raced,
           Goes(w, j), JobFits(j), j.step \in Working /\ j.brand \notin raced' => Holds(j)
    PROVE  Inv'
<1>1. Stable
  BY DEF RowsSame, Stable, TypeOK
<1>2. j \in Jobs
  BY DEF Turns
<1>3. JobFits(j)'
  BY <1>1, <1>2, FitsStable
<1>4. Current(j)'
  <2> SUFFICES ASSUME j.step \in Working, j.brand \notin raced' PROVE Holds(j)'
    BY DEF Current
  <2>1. Holds(j) /\ j.brand \in Brands
    BY DEF JobFits, Owned, Working
  <2>2. /\ base'[j.brand].project = base[j.brand].project
        /\ Exists(j.brand) => Exists(j.brand)'
    BY <2>1 DEF BasesSame, RowsSame
  <2>3. QED
    BY <2>1, <2>2 DEF Holds
<1>5. JobsFit' /\ JobsCurrent'
  BY <1>1, <1>3, <1>4, JobsKept DEF BasesSame, RowsSame
<1>6. Alone'
  BY AloneKept DEF BasesSame
<1>7. BasesFit'
  BY DEF Inv, BasesFit, BasesSame, RowsSame
<1>8. RowsFit'
  <2>1. \A b \in Brands : Unused(b)' => Unused(b)
    BY DEF RowsSame, Exists, Gone, Unused
  <2>2. QED
    BY <2>1 DEF Inv, RowsFit, RowsSame
<1>9. Made' /\ AccountsFit'
  BY DEF Inv, Made, AccountsFit, BasesSame, RowsSame
<1>10. DatabaseIsRecorded'
  <2> SUFFICES ASSUME NEW p \in Projects, store[p].live, p \notin strayed', store[p].brand \notin raced'
               PROVE  Recorded(p)'
    BY DEF DatabaseIsRecorded
  <2>1. Recorded(p) /\ p \notin strayed /\ store[p].brand \notin raced
    BY DEF Inv, DatabaseIsRecorded
  <2>2. CASE \E b \in Brands : base[b].project = p
    BY <2>2 DEF Recorded, BasesSame
  <2>3. ASSUME NEW v \in Handlers, At(v, "record"), job[v].project = p PROVE Recorded(p)'
    <3>1. CASE v # w
      BY <2>3, <3>1 DEF Turns, At, Recorded
    <3>2. CASE v = w
      <4>1. job[w].brand = store[p].brand /\ job[w].brand \in Brands
        BY <2>3, <3>2 DEF Inv, JobsFit, JobFits, At, Holding, Owned, Provisioning
      <4>2. base[job[w].brand].project = p
        BY <2>1, <2>3, <3>2, <4>1
      <4>3. QED
        BY <4>1, <4>2 DEF Recorded, BasesSame
    <3>3. QED
      BY <3>1, <3>2
  <2>4. QED
    BY <2>1, <2>2, <2>3 DEF Recorded
<1>11. QED
  BY <1>5, <1>6, <1>7, <1>8, <1>9, <1>10 DEF Inv

\* A step of no handler that writes a row.
LEMMA RowStep ==
    ASSUME TypeOK, Inv, RowsSame, UNCHANGED <<base, store, made, job, raced, strayed>>
    PROVE  Inv'
<1>1. Stable
  BY DEF RowsSame, Stable, TypeOK
<1>2. ASSUME NEW v \in Handlers PROVE JobFits(job[v])' /\ Current(job[v])'
  <2>1. job[v] \in Jobs /\ JobFits(job[v]) /\ Current(job[v])
    BY DEF TypeOK, Inv, JobsFit, JobsCurrent
  <2>2. job[v].step \in Owned => job[v].brand \in Brands
    BY <2>1 DEF JobFits
  <2>3. JobFits(job[v])'
    BY <2>1, <2>2 DEF JobFits, RowsSame
  <2>4. Current(job[v])'
    BY <2>1, <2>2 DEF Current, Holds, RowsSame, Working, Owned
  <2>5. QED
    BY <2>3, <2>4
<1>3. JobsFit' /\ JobsCurrent'
  BY <1>2 DEF JobsFit, JobsCurrent
<1>4. Alone' /\ BasesFit'
  BY DEF Inv, Alone, WorksOn, BasesFit, RowsSame
<1>5. RowsFit'
  <2>1. \A b \in Brands : Unused(b)' => Unused(b)
    BY DEF RowsSame, Exists, Gone, Unused
  <2>2. QED
    BY <2>1 DEF Inv, RowsFit, RowsSame
<1>6. Made' /\ AccountsFit'
  BY DEF Inv, Made, AccountsFit, RowsSame
<1>7. DatabaseIsRecorded'
  BY DEF Inv, DatabaseIsRecorded, Recorded, At
<1>8. QED
  BY <1>3, <1>4, <1>5, <1>6, <1>7 DEF Inv

--------------------------------------------------------------------------------
(* Steps that change no database.                                          *)

\* What is known of a handler before its step.
LEMMA Known ==
    ASSUME TypeOK, Inv, NEW w \in Handlers
    PROVE  /\ job[w] \in Jobs /\ JobFits(job[w]) /\ Current(job[w])
           /\ job[w].step \in Owned => job[w].brand \in Brands
           /\ job[w].step \in Working => WorksOn(w, job[w].brand)
BY DEF TypeOK, Inv, JobsFit, JobsCurrent, JobFits, WorksOn, Working

Plain == Steps \ {"project", "record", "drop", "forget", "dropRow", "dropRead"}

\* A handler goes on with the same brand.
LEMMA QuietGo ==
    ASSUME TypeOK, Inv, NEW w \in Handlers, NEW s \in Plain, Goto(w, s), RowsSame, BasesSame,
           UNCHANGED <<store, made, raced>>, strayed \subseteq strayed',
           At(w, "record") => \/ job[w].project \in strayed'
                              \/ base[job[w].brand].project = job[w].project
                              \/ job[w].brand \in raced,
           s \in Owned => job[w].step \in Owned,
           s \in Signing \cup Entering => job[w].kind = "signup",
           s \in Holding => job[w].step \in Holding,
           s \in Working => job[w].step \in Working,
           s \in Working \ {"rowFailed"} => ~At(w, "dbRead") /\ ~At(w, "rowFailed"),
           job[w].kind = "signup" => s # "refill"
    PROVE  Inv' /\ job' \in [Handlers -> Jobs]
<1>1. s \in Steps
  BY DEF Plain
<1>2. PICK j \in Jobs :
        /\ Turns(w, j) /\ j.step = s /\ j.kind = job[w].kind /\ j.brand = job[w].brand
        /\ j.project = job[w].project /\ j.email = job[w].email
        /\ j.planned = job[w].planned /\ j.listed = job[w].listed
  BY <1>1, GotoTurns
<1>3. JobFits(j)
  BY <1>2, Known DEF JobFits
<1>4. j.step \in Working /\ j.brand \notin raced' => Holds(j)
  BY <1>2, Known DEF Current, Holds, Plain, At
<1>5. Goes(w, j)
  <2>1. s \in Working => s \in Provisioning
    BY DEF Plain, Working, Removing
  <2>2. QED
    BY <1>2, <2>1, Known DEF Goes
<1>6. Inv'
  BY <1>2, <1>3, <1>4, <1>5, Quiet
<1>7. QED
  BY <1>2, <1>6 DEF Turns

LEMMA QuietDone ==
    ASSUME TypeOK, Inv, NEW w \in Handlers, Done(w), RowsSame, BasesSame,
           UNCHANGED <<store, made, raced>>, strayed \subseteq strayed',
           At(w, "record") => \/ job[w].project \in strayed'
                              \/ base[job[w].brand].project = job[w].project
                              \/ job[w].brand \in raced
    PROVE  Inv' /\ job' \in [Handlers -> Jobs]
<1>1. Turns(w, Idle)
  BY DoneTurns
<1>2. "idle" \notin Owned \cup Signing \cup Entering \cup Holding \cup Working
  BY DEF Owned, Signing, Entering, Holding, Working, Provisioning, Removing
<1>3. JobFits(Idle) /\ Idle.step \notin Working
  BY <1>2, IdleType DEF JobFits
<1>4. PICK j : j = Idle
  OBVIOUS
<1>5. Turns(w, j) /\ JobFits(j) /\ j.step \notin Working /\ Goes(w, j)
  BY <1>1, <1>3, <1>4 DEF Goes
<1>6. Inv'
  BY <1>5, Quiet
<1>7. QED
  BY <1>1, <1>6 DEF Turns

\* A refill goes on to its next spare.
LEMMA QuietGoOn ==
    ASSUME TypeOK, Inv, NEW w \in Handlers, GoOn(w), job[w].kind # "signup", RowsSame, BasesSame,
           UNCHANGED <<store, made, raced, strayed>>, ~At(w, "record")
    PROVE  Inv' /\ job' \in [Handlers -> Jobs]
<1> DEFINE i == [job[w] EXCEPT !.step = "refill", !.brand = NoBrand, !.project = 0,
                               !.listed = @ \ {job[w].brand}]
<1>1. job[w] \in Jobs /\ JobFits(job[w])
  BY Known
<1>2. "refill" \in Steps /\ 0 \in 0..MaxProjects
  BY DatabaseAssumption DEF Steps, DatabaseAssumption
<1>3. i \in Jobs /\ i.step = "refill" /\ i.kind = job[w].kind /\ i.planned = job[w].planned
  BY <1>1, <1>2 DEF Jobs
<1>4. Become(w, i)
  BY DEF GoOn
<1> HIDE DEF i
<1>5. PICK j \in Jobs : /\ Turns(w, j) /\ j.step = "refill" /\ j.kind = job[w].kind
                       /\ j.planned = job[w].planned
  BY <1>3, <1>4, BecomeTurns
<1>6. "refill" \notin Owned \cup Signing \cup Entering \cup Holding \cup Working
  BY DEF Owned, Signing, Entering, Holding, Working, Provisioning, Removing
<1>7. JobFits(j) /\ Goes(w, j) /\ j.step \notin Working
  BY <1>1, <1>5, <1>6 DEF JobFits, Goes
<1>8. Inv'
  BY <1>5, <1>7, Quiet
<1>9. QED
  BY <1>5, <1>8 DEF Turns

\* A handler starts to work on a brand whose row is there.
LEMMA QuietStart ==
    ASSUME TypeOK, Inv, NEW w \in Handlers, ~At(w, "record"), NEW b \in Brands, Exists(b),
           NEW kind \in {"refill", "retry", "abandoned", "due", "delete"},
           NEW s \in {"dbRead", "dropRead"},
           Become(w, [Idle EXCEPT !.step = s, !.kind = kind, !.brand = b]),
           (s = "dbRead" /\ Begins(w, b)) \/ (s = "dropRead" /\ BeginsRemoval(w, b)),
           UNCHANGED <<brand, base, store, made, strayed>>
    PROVE  Inv' /\ job' \in [Handlers -> Jobs] /\ raced' \subseteq Brands
<1>1. s \in Steps /\ s \in Owned /\ s \notin Signing \cup Entering \cup Holding
  BY DEF Steps, Owned, Signing, Entering, Holding, Provisioning, Removing
<1> DEFINE i == [Idle EXCEPT !.step = s, !.kind = kind, !.brand = b]
<1>a. i \in Jobs /\ i.step = s /\ i.kind = kind /\ i.brand = b /\ i.planned = 0
  BY <1>1, IdleType DEF Jobs
<1> HIDE DEF i
<1>b. Turns(w, i)
  BY <1>a, BecomeTurns DEF i
<1>2. PICK j \in Jobs : Turns(w, j) /\ j.step = s /\ j.kind = kind /\ j.brand = b /\ j.planned = 0
  BY <1>a, <1>b
<1>3. JobFits(j)
  BY <1>1, <1>2 DEF JobFits
<1>4. Holds(j)
  BY <1>2 DEF Holds
<1>5. raced \subseteq raced' /\ raced' \subseteq Brands
  BY BeginsType, BeginsRemovalType
<1>6. RowsSame /\ BasesSame /\ Goes(w, j)
  BY <1>2, SameRows, SameBases DEF Goes, Provisioning
<1>7. Inv'
  BY <1>2, <1>3, <1>4, <1>5, <1>6, Quiet
<1>8. QED
  BY <1>2, <1>5, <1>7 DEF Turns

\* The sign-up takes a row with its label.
LEMMA QuietTake ==
    ASSUME TypeOK, Inv, NEW w \in Handlers, job[w].step \in Signing,
           NEW b \in RowOf(job[w].email), NEW s \in {"dbRead", "consume"},
           Become(w, [job[w] EXCEPT !.step = s, !.brand = b]),
           s = "dbRead" => Begins(w, b), s # "dbRead" => UNCHANGED raced,
           UNCHANGED <<brand, base, store, made, strayed>>
    PROVE  Inv' /\ job' \in [Handlers -> Jobs] /\ raced' \subseteq Brands
<1>1. s \in Steps /\ s \in Owned /\ s \notin Holding /\ "consume" \notin Working
  BY DEF Steps, Owned, Holding, Provisioning, Removing, Entering, Working
<1>2. b \in Brands /\ Exists(b) /\ brand[b].email = job[w].email
  BY DEF RowOf
<1>3. PICK j \in Jobs :
        /\ Turns(w, j) /\ j.step = s /\ j.kind = job[w].kind /\ j.brand = b
        /\ j.project = job[w].project /\ j.email = job[w].email
        /\ j.planned = job[w].planned /\ j.listed = job[w].listed
  BY <1>1, <1>2, TakeTurns
<1>4. JobFits(j)
  BY <1>1, <1>2, <1>3, Known DEF JobFits
<1>5. Holds(j)
  BY <1>2, <1>3 DEF Holds
<1>6. raced \subseteq raced' /\ raced' \subseteq Brands
  BY <1>2, BeginsType DEF TypeOK
<1>7. RowsSame /\ BasesSame /\ ~At(w, "record")
  BY SameRows, SameBases DEF Signing, At
<1>8. Goes(w, j)
  BY <1>1, <1>3 DEF Goes, Provisioning
<1>9. Inv'
  BY <1>3, <1>4, <1>5, <1>6, <1>7, <1>8, Quiet
<1>10. QED
  BY <1>3, <1>6, <1>9 DEF Turns

LEMMA StartStep ==
    ASSUME TypeOK, Inv, NEW e \in Emails, Start(e)
    PROVE  TypeOK' /\ Inv'
<1>1. UNCHANGED <<brand, base, directory, store, made, job, raced, strayed, removals, faults>>
  BY DEF Start
<1>2. code' \in [Emails -> Codes] /\ starts' \in 0..MaxStarts
  <2>1. PICK n \in 1..MaxCodes : code' = [code EXCEPT ![e] = [id |-> n, state |-> "sent"]]
    BY DEF Start, Least
  <2>2. [id |-> n, state |-> "sent"] \in Codes
    BY DatabaseAssumption DEF Codes, Valid, DatabaseAssumption
  <2>3. starts' \in Nat /\ starts' <= MaxStarts
    BY DEF Start, TypeOK
  <2>4. QED
    BY <2>1, <2>2, <2>3, DatabaseAssumption DEF TypeOK, DatabaseAssumption
<1>3. Inv'
  BY <1>1, SameRows, RowStep
<1>4. QED
  BY <1>1, <1>2, <1>3 DEF TypeOK

LEMMA ExpireStep ==
    ASSUME TypeOK, Inv, NEW e \in Emails, Expire(e)
    PROVE  TypeOK' /\ Inv'
<1>1. UNCHANGED <<brand, base, directory, store, made, job, raced, strayed, starts, removals, faults>>
  BY DEF Expire, boundVars
<1>2. code' \in [Emails -> Codes]
  BY DEF Expire, TypeOK, Codes
<1>3. Inv'
  BY <1>1, SameRows, RowStep
<1>4. QED
  BY <1>1, <1>2, <1>3 DEF TypeOK

LEMMA BrandRows ==
    ASSUME TypeOK, NEW b \in Brands,
           Deactivate(b) \/ Reactivate(b) \/ Stuck(b) \/ Ages(b) \/ CountdownEnds(b)
    PROVE  RowsSame /\ brand' \in [Brands -> Rows]
<1>0. brand[b] \in Rows /\ brand \in [Brands -> Rows]
  BY DEF TypeOK
<1>1. CASE Deactivate(b)
  <2> DEFINE r == [brand[b] EXCEPT !.status = "deactivated"]
  <2>1. r \in Rows /\ r.email = brand[b].email /\ r.spare = brand[b].spare /\ r.status = "deactivated"
    BY <1>0 DEF Rows
  <2>2. Write(b, r) /\ Exists(b)
    BY <1>1 DEF Deactivate, Exists
  <2> HIDE DEF r
  <2>3. QED
    BY <2>1, <2>2, WriteSame
<1>2. CASE Reactivate(b)
  <2> DEFINE r == [brand[b] EXCEPT !.status = "active", !.due = FALSE]
  <2>1. r \in Rows /\ r.email = brand[b].email /\ r.spare = brand[b].spare /\ r.status = "active"
    BY <1>0 DEF Rows
  <2>2. Write(b, r) /\ Exists(b)
    BY <1>2 DEF Reactivate, Exists
  <2> HIDE DEF r
  <2>3. QED
    BY <2>1, <2>2, WriteSame
<1>3. CASE Stuck(b) \/ Ages(b) \/ CountdownEnds(b)
  <2>1. \E r \in Rows : /\ brand' = [brand EXCEPT ![b] = r] /\ r.email = brand[b].email
                        /\ r.spare = brand[b].spare /\ r.status = brand[b].status
    <3> DEFINE r1 == [brand[b] EXCEPT !.stuck = TRUE]
               r2 == [brand[b] EXCEPT !.aged = TRUE]
               r3 == [brand[b] EXCEPT !.due = TRUE]
    <3>1. r1 \in Rows /\ r1.email = brand[b].email /\ r1.spare = brand[b].spare /\ r1.status = brand[b].status
      BY <1>0 DEF Rows
    <3>2. r2 \in Rows /\ r2.email = brand[b].email /\ r2.spare = brand[b].spare /\ r2.status = brand[b].status
      BY <1>0 DEF Rows
    <3>3. r3 \in Rows /\ r3.email = brand[b].email /\ r3.spare = brand[b].spare /\ r3.status = brand[b].status
      BY <1>0 DEF Rows
    <3>4. brand' = [brand EXCEPT ![b] = r1] \/ brand' = [brand EXCEPT ![b] = r2]
          \/ brand' = [brand EXCEPT ![b] = r3]
      BY <1>0, <1>3 DEF Stuck, Ages, CountdownEnds
    <3> HIDE DEF r1, r2, r3
    <3>5. QED
      BY <3>1, <3>2, <3>3, <3>4
  <2>2. PICK r \in Rows : /\ brand' = [brand EXCEPT ![b] = r] /\ r.email = brand[b].email
                          /\ r.spare = brand[b].spare /\ r.status = brand[b].status
    BY <2>1
  <2>3. brand'[b] = r /\ \A c \in Brands \ {b} : brand'[c] = brand[c]
    BY <1>0, <2>2
  <2>4. QED
    BY <1>0, <2>2, <2>3 DEF RowsSame, Exists, Gone
<1>4. QED
  BY <1>1, <1>2, <1>3

LEMMA BrandStepType ==
    ASSUME TypeOK, Inv, NEW b \in Brands,
           Deactivate(b) \/ Reactivate(b) \/ Stuck(b) \/ Ages(b) \/ CountdownEnds(b)
    PROVE  TypeOK' /\ Inv'
<1>0. UNCHANGED <<base, directory, store, made, job, raced, strayed, starts, faults>>
  BY DEF Deactivate, Reactivate, Stuck, Ages, CountdownEnds, boundVars
<1>1. removals' \in 0..MaxRemovals
  <2>1. removals \in 0..MaxRemovals /\ MaxRemovals \in Nat
    BY DatabaseAssumption DEF TypeOK, DatabaseAssumption
  <2>2. removals' = removals \/ (removals < MaxRemovals /\ removals' = removals + 1)
    BY DEF Deactivate, Reactivate, Stuck, Ages, CountdownEnds, boundVars
  <2>3. QED
    BY <2>1, <2>2
<1>2. RowsSame /\ brand' \in [Brands -> Rows]
  BY BrandRows
<1>3. Inv'
  BY <1>0, <1>2, RowStep
<1>4. code' \in [Emails -> Codes]
  <2>1. CASE UNCHANGED code
    BY <2>1 DEF TypeOK
  <2>2. CASE Stuck(b)
    <3>1. \A e \in Emails : code[e] \in Codes /\ [code[e] EXCEPT !.state = "expired"] \in Codes
      BY DEF TypeOK, Codes
    <3>2. QED
      BY <2>2, <3>1 DEF Stuck
  <2>3. QED
    BY <2>1, <2>2 DEF Deactivate, Reactivate, Stuck, Ages, CountdownEnds
<1>5. QED
  BY <1>0, <1>1, <1>2, <1>3, <1>4 DEF TypeOK

LEMMA VerifyStep ==
    ASSUME TypeOK, Inv, NEW w \in Handlers, NEW e \in Emails, Verify(w, e)
    PROVE  TypeOK' /\ Inv'
<1>0. UNCHANGED <<brand, base, directory, code, store, made, raced, strayed, starts, removals, faults>>
      /\ ~At(w, "record")
  BY DEF Verify, mainVars, boundVars, At
<1> DEFINE n == code[e].id
           i == [Idle EXCEPT !.step = "findRow", !.kind = "signup", !.email = e, !.code = n]
<1>1. n \in 0..MaxCodes /\ Become(w, i)
  BY DEF TypeOK, Verify, Codes
<1> HIDE DEF n
<1>2. /\ i \in Jobs /\ i.step = "findRow" /\ i.kind = "signup" /\ i.email = e /\ i.planned = 0
      /\ i.listed = {}
  BY <1>1, IdleType DEF Jobs, Steps
<1> HIDE DEF i
<1>3. PICK j \in Jobs : /\ Turns(w, j) /\ j.step = "findRow" /\ j.kind = "signup" /\ j.email = e
                       /\ j.planned = 0 /\ j.listed = {}
  BY <1>1, <1>2, BecomeTurns
<1>4. JobFits(j) /\ j.step \notin Working /\ Goes(w, j)
  BY <1>3 DEF JobFits, Owned, Holding, Provisioning, Removing, Entering, Working, Goes
<1>5. Inv'
  BY <1>0, <1>3, <1>4, SameRows, SameBases, Quiet
<1>6. QED
  BY <1>0, <1>3, <1>5 DEF TypeOK, Turns

LEMMA FindRowStep ==
    ASSUME TypeOK, Inv, NEW w \in Handlers, FindRow(w)
    PROVE  TypeOK' /\ Inv'
<1>0. UNCHANGED <<brand, base, directory, code, store, made, strayed, starts, removals, faults>>
      /\ ~At(w, "record") /\ job[w].step = "findRow" /\ job[w].step \in Signing
  BY DEF FindRow, mainVars, boundVars, At, Signing
<1>1. RowsSame /\ BasesSame
  BY <1>0, SameRows, SameBases
<1>2. job[w].kind = "signup"
  BY <1>0, Known DEF JobFits
<1>3. Inv' /\ job' \in [Handlers -> Jobs] /\ raced' \subseteq Brands
  <2>1. ASSUME NEW b \in RowOf(job[w].email), Found(w, b)
        PROVE  Inv' /\ job' \in [Handlers -> Jobs] /\ raced' \subseteq Brands
    <3>1. CASE Become(w, [job[w] EXCEPT !.step = "dbRead", !.brand = b]) /\ Begins(w, b)
      BY <1>0, <3>1, QuietTake
    <3>2. CASE Become(w, [job[w] EXCEPT !.step = "consume", !.brand = b]) /\ UNCHANGED raced
      BY <1>0, <3>2, QuietTake
    <3>3. CASE Done(w) /\ UNCHANGED raced
      BY <1>0, <1>1, <3>3, QuietDone DEF TypeOK
    <3>4. QED
      BY <2>1, <3>1, <3>2, <3>3 DEF Found
  <2>2. ASSUME Goto(w, "claimSpare"), UNCHANGED raced
        PROVE  Inv' /\ job' \in [Handlers -> Jobs] /\ raced' \subseteq Brands
    <3>1. "claimSpare" \in Plain /\ "claimSpare" \notin Owned \cup Holding \cup Working
      BY DEF Plain, Steps, Owned, Holding, Working, Provisioning, Removing, Entering
    <3>2. QED
      BY <1>0, <1>1, <1>2, <2>2, <3>1, QuietGo DEF TypeOK
  <2>3. QED
    BY <2>1, <2>2 DEF FindRow
<1>4. QED
  BY <1>0, <1>3 DEF TypeOK

LEMMA EnterStep ==
    ASSUME TypeOK, Inv, NEW w \in Handlers, Consume(w) \/ Mirror(w)
    PROVE  TypeOK' /\ Inv'
<1>0. UNCHANGED <<brand, base, store, made, raced, strayed, starts, removals, faults>>
      /\ ~At(w, "record") /\ job[w].step \in Entering /\ job[w].step \in Owned
  BY DEF Consume, Mirror, boundVars, At, Entering, Owned
<1>1. RowsSame /\ BasesSame
  BY <1>0, SameRows, SameBases
<1>2. job[w].kind = "signup" /\ job[w].email \in Emails /\ job[w].brand \in Brands
  BY <1>0, Known DEF JobFits
<1>3. "account" \in Plain /\ "account" \in Owned /\ "account" \notin Holding \cup Working
  BY DEF Plain, Steps, Owned, Holding, Working, Provisioning, Removing, Entering
<1>4. Goto(w, "account") \/ Done(w)
  BY DEF Consume, Mirror
<1>5. Inv' /\ job' \in [Handlers -> Jobs]
  <2>1. CASE Goto(w, "account")
    BY <1>0, <1>1, <1>2, <1>3, <2>1, QuietGo
  <2>2. CASE Done(w)
    BY <1>0, <1>1, <2>2, QuietDone
  <2>3. QED
    BY <1>4, <2>1, <2>2
<1>6. code' \in [Emails -> Codes] /\ directory' \in [Brands -> Emails \cup {NoEmail}]
  BY <1>2 DEF TypeOK, Codes, Consume, Mirror
<1>7. QED
  BY <1>0, <1>5, <1>6 DEF TypeOK

LEMMA DbReadStep ==
    ASSUME TypeOK, Inv, NEW w \in Handlers, DbRead(w)
    PROVE  TypeOK' /\ Inv'
<1> DEFINE b == job[w].brand
           p == base[b].project
           s == IF ~Exists(b) THEN "rowFailed"
                ELSE IF base[b].status = "active" THEN "rowActive"
                ELSE IF p # 0 THEN "record" ELSE "project"
<1>0. UNCHANGED <<brand, base, directory, code, store, made, raced, strayed, starts, removals, faults>>
      /\ ~At(w, "record") /\ job[w].step = "dbRead" /\ "dbRead" \in Provisioning
  BY DEF DbRead, mainVars, boundVars, At, Provisioning
<1>1. b \in Brands /\ p \in 0..MaxProjects
  BY <1>0, Known DEF Owned, TypeOK, Bases
<1>2. s \in Steps /\ s \in Provisioning /\ s \notin Signing \cup Entering /\ s \in Owned
      /\ s \notin Holding \ {"record"} /\ (s = "record" => p # 0)
      /\ (s # "rowFailed" => Exists(b)) /\ s # "refill"
      /\ (s = "project" => p = 0) /\ s \notin Removing
  BY DEF Steps, Provisioning, Signing, Entering, Owned, Holding, Removing
<1>3. Become(w, [job[w] EXCEPT !.step = s, !.project = p])
  BY DEF DbRead
<1> HIDE DEF s
<1>4. PICK j \in Jobs :
        /\ Turns(w, j) /\ j.step = s /\ j.kind = job[w].kind /\ j.brand = job[w].brand
        /\ j.project = p /\ j.email = job[w].email
        /\ j.planned = job[w].planned /\ j.listed = job[w].listed
  BY <1>1, <1>2, <1>3, GetTurns
<1>5. p # 0 => p \in 1..made /\ store[p].brand = b
  BY <1>1 DEF Inv, BasesFit
<1>6. JobFits(j)
  BY <1>0, <1>1, <1>2, <1>4, <1>5, Known DEF JobFits, Owned
<1>7. j.step \in Working /\ j.brand \notin raced' => Holds(j)
  BY <1>0, <1>2, <1>4, Known DEF Current, Holds, Working, Removing
<1>8. Goes(w, j)
  BY <1>0, <1>2, <1>4 DEF WorksOn, Goes
<1>9. Inv'
  BY <1>0, <1>4, <1>6, <1>7, <1>8, SameRows, SameBases, Quiet
<1>10. QED
  BY <1>0, <1>4, <1>9 DEF TypeOK, Turns

\* What a provisioning handler may go on with.
LEMMA ProvisionSteps ==
    /\ {"seed", "cutover", "dbFailed", "rowActive", "rowFailed", "consume", "stamp"} \subseteq Plain
    /\ {"seed", "cutover", "dbFailed", "rowActive", "rowFailed"} \subseteq Working \cap Owned
    /\ {"cutover", "dbFailed", "rowActive", "rowFailed", "consume", "stamp", "look", "dbRead", "dropRead"}
          \cap Holding = {}
    /\ Provisioning \subseteq Working \cap Owned /\ Removing \subseteq Working \cap Owned
    /\ Owned \cap Signing = {} /\ Working \cap (Signing \cup Entering) = {}
    /\ Entering \subseteq Owned /\ "stamp" \notin Working \cup Signing \cup Entering
    /\ Holding \subseteq Working
    /\ "stamp" \in Owned /\ "consume" \in Owned \ Working /\ "look" \in Owned
BY DEF Plain, Steps, Provisioning, Removing, Working, Owned, Entering, Signing, Holding

LEMMA SetupStep ==
    ASSUME TypeOK, Inv, NEW w \in Handlers, Migrate(w) \/ Seed(w) \/ Cutover(w) \/ DbFailed(w)
    PROVE  TypeOK' /\ Inv'
<1>0. /\ UNCHANGED <<brand, code, store, made, raced, strayed, starts, removals, faults>>
      /\ ~At(w, "record") /\ job[w].step \in Provisioning
      /\ job[w].step \in {"migrate", "seed", "cutover", "dbFailed"}
      /\ ~At(w, "dbRead") /\ ~At(w, "rowFailed")
  BY DEF Migrate, Seed, Cutover, DbFailed, boundVars, At, Provisioning
<1>1. job[w].step \in Owned /\ job[w].step \in Working /\ job[w].brand \in Brands
  BY <1>0, ProvisionSteps, Known
<1>2. RowsSame
  BY <1>0, SameRows
<1>3. BasesSame /\ base' \in [Brands -> Bases]
  <2>1. CASE UNCHANGED base
    BY <2>1, SameBases DEF TypeOK
  <2>2. CASE BaseIs(job[w].brand, "migrating") \/ BaseIs(job[w].brand, "active")
             \/ BaseIs(job[w].brand, "failed")
    BY <1>1, <2>2, BaseIsSame
  <2>3. QED
    BY <2>1, <2>2 DEF Migrate, Seed, Cutover, DbFailed
<1>4. directory' \in [Brands -> Emails \cup {NoEmail}]
  <2>1. CASE UNCHANGED directory
    BY <2>1 DEF TypeOK
  <2>2. CASE directory' = [directory EXCEPT ![job[w].brand] = store[job[w].project].account]
                /\ At(w, "seed")
    <3>0. job[w].project \in 1..made /\ made \in 0..MaxProjects
      BY <2>2, Known DEF JobFits, Holding, At, TypeOK
    <3>1. job[w].project \in Projects
      BY <3>0, DatabaseAssumption DEF Projects, DatabaseAssumption
    <3>2. store[job[w].project].account \in Emails \cup {NoEmail}
      BY <3>1 DEF TypeOK, Stores
    <3>3. QED
      BY <2>2, <3>2 DEF TypeOK
  <2>3. QED
    BY <2>1, <2>2 DEF Migrate, Seed, Cutover, DbFailed
<1>5. \/ Goto(w, "seed") /\ At(w, "migrate")
      \/ \E s \in {"cutover", "dbFailed", "rowActive", "rowFailed"} : Goto(w, s)
  BY DEF Migrate, Seed, Cutover, DbFailed
<1>6. Inv' /\ job' \in [Handlers -> Jobs]
  <2>1. CASE Goto(w, "seed") /\ At(w, "migrate")
    <3>1. job[w].step \in Holding /\ "seed" \notin Signing \cup Entering /\ "seed" # "refill"
      BY <2>1 DEF Holding, At, Signing, Entering
    <3>2. QED
      BY <1>0, <1>1, <1>2, <1>3, <2>1, <3>1, ProvisionSteps, QuietGo
  <2>2. ASSUME NEW s \in {"cutover", "dbFailed", "rowActive", "rowFailed"}, Goto(w, s)
        PROVE  Inv' /\ job' \in [Handlers -> Jobs]
    <3>1. s \in Plain /\ s \notin Holding /\ s \notin Signing \cup Entering /\ s # "refill"
      BY ProvisionSteps
    <3>2. QED
      BY <1>0, <1>1, <1>2, <1>3, <2>2, <3>1, QuietGo
  <2>3. QED
    BY <1>5, <2>1, <2>2
<1>7. QED
  BY <1>0, <1>3, <1>4, <1>6 DEF TypeOK

LEMMA WrittenRows ==
    ASSUME TypeOK, Inv, NEW w \in Handlers, RowActive(w) \/ RowFailed(w) \/ Stamp(w)
    PROVE  RowsSame /\ brand' \in [Brands -> Rows]
<1>1. job[w].brand \in Brands /\ brand[job[w].brand] \in Rows
  BY ProvisionSteps, Known DEF RowActive, RowFailed, Stamp, At, Provisioning, Owned, TypeOK
<1>2. CASE UNCHANGED brand
  BY <1>2, SameRows DEF TypeOK
<1>3. PICK b \in Brands : b = job[w].brand
  BY <1>1
<1>4. ASSUME NEW s \in {"active", "failed"}, Exists(b), Write(b, [brand[b] EXCEPT !.status = s])
      PROVE  RowsSame /\ brand' \in [Brands -> Rows]
  <2> DEFINE r == [brand[b] EXCEPT !.status = s]
  <2>1. r \in Rows /\ r.email = brand[b].email /\ r.spare = brand[b].spare /\ r.status = s
    BY <1>1, <1>3 DEF Rows
  <2> HIDE DEF r
  <2>2. QED
    BY <1>4, <2>1, WriteSame DEF r
<1>5. ASSUME Exists(b), Write(b, [brand[b] EXCEPT !.activated = TRUE])
      PROVE  RowsSame /\ brand' \in [Brands -> Rows]
  <2> DEFINE r == [brand[b] EXCEPT !.activated = TRUE]
  <2>1. r \in Rows /\ r.email = brand[b].email /\ r.spare = brand[b].spare /\ r.status = brand[b].status
    BY <1>1, <1>3 DEF Rows
  <2> HIDE DEF r
  <2>2. QED
    BY <1>5, <2>1, WriteSame DEF r, Exists
<1>6. QED
  BY <1>2, <1>3, <1>4, <1>5 DEF RowActive, RowFailed, Stamp

LEMMA RowWriteStep ==
    ASSUME TypeOK, Inv, NEW w \in Handlers, RowActive(w) \/ RowFailed(w) \/ Stamp(w)
    PROVE  TypeOK' /\ Inv'
<1>0. /\ UNCHANGED <<base, directory, code, store, made, raced, strayed, starts, removals, faults>>
      /\ ~At(w, "record") /\ job[w].step \in Owned
  BY ProvisionSteps DEF RowActive, RowFailed, Stamp, boundVars, At, Provisioning, Owned
<1>2. RowsSame /\ brand' \in [Brands -> Rows]
  BY WrittenRows
<1>3. BasesSame
  BY <1>0, SameBases
<1>4. Inv' /\ job' \in [Handlers -> Jobs]
  <2>1. CASE Done(w)
    BY <1>0, <1>2, <1>3, <2>1, QuietDone
  <2>2. CASE Goto(w, "consume") /\ job[w].kind = "signup"
    BY <1>0, <1>2, <1>3, <2>2, ProvisionSteps, QuietGo
  <2>3. CASE GoOn(w) /\ job[w].kind # "signup"
    BY <1>0, <1>2, <1>3, <2>3, QuietGoOn
  <2>4. CASE RowActive(w)
    <3>1. job[w].kind # "signup" => Done(w) \/ GoOn(w)
      BY <2>4 DEF RowActive
    <3>2. job[w].kind = "signup" => Done(w) \/ Goto(w, "consume")
      BY <2>4 DEF RowActive
    <3>3. QED
      BY <2>1, <2>2, <2>3, <3>1, <3>2
  <2>5. CASE RowFailed(w)
    <3>1. Done(w) \/ (GoOn(w) /\ job[w].listed # {})
      BY <2>5 DEF RowFailed
    <3>2. job[w].listed # {} => job[w].kind # "signup"
      BY Known DEF JobFits
    <3>3. QED
      BY <2>1, <2>3, <3>1, <3>2
  <2>6. QED
    BY <2>1, <2>4, <2>5 DEF Stamp
<1>5. QED
  BY <1>0, <1>2, <1>4 DEF TypeOK

LEMMA OpenStep ==
    ASSUME TypeOK, Inv, NEW w \in Handlers, NEW b \in Brands,
           Retry(w, b) \/ ListDue(w, b) \/ Delete(w, b)
    PROVE  TypeOK' /\ Inv'
<1>0. /\ UNCHANGED <<brand, base, directory, code, store, made, strayed, starts, faults>>
      /\ ~At(w, "record")
  BY DEF Retry, ListDue, Delete, mainVars, boundVars, At
<1>1. removals' \in 0..MaxRemovals
  BY DatabaseAssumption DEF Retry, ListDue, Delete, boundVars, TypeOK, DatabaseAssumption
<1>2. Exists(b)
  BY DEF Retry, ListDue, Delete, Exists
<1>3. \E kind \in {"refill", "retry", "abandoned", "due", "delete"} : \E s \in {"dbRead", "dropRead"} :
        /\ Become(w, [Idle EXCEPT !.step = s, !.kind = kind, !.brand = b])
        /\ (s = "dbRead" /\ Begins(w, b)) \/ (s = "dropRead" /\ BeginsRemoval(w, b))
  BY DEF Retry, ListDue, Delete, Remove, Provision
<1>4. Inv' /\ job' \in [Handlers -> Jobs] /\ raced' \subseteq Brands
  BY <1>0, <1>2, <1>3, QuietStart
<1>5. QED
  BY <1>0, <1>1, <1>4 DEF TypeOK

LEMMA ListStep ==
    ASSUME TypeOK, Inv, NEW w \in Handlers, NEW b \in Brands, ListAbandoned(w, b)
    PROVE  TypeOK' /\ Inv'
<1>0. /\ UNCHANGED <<brand, base, directory, code, store, made, strayed, starts, removals, faults>>
      /\ ~At(w, "record")
  BY DEF ListAbandoned, mainVars, boundVars, At
<1>1. CASE brand[b].status = "failed" /\ Remove(w, b, "abandoned")
  <2>1. Exists(b)
    BY <1>1 DEF Exists
  <2>2. Become(w, [Idle EXCEPT !.step = "dropRead", !.kind = "abandoned", !.brand = b])
        /\ BeginsRemoval(w, b)
    BY <1>1 DEF Remove
  <2>3. Inv' /\ job' \in [Handlers -> Jobs] /\ raced' \subseteq Brands
    BY <1>0, <2>1, <2>2, QuietStart
  <2>4. QED
    BY <1>0, <2>3 DEF TypeOK
<1>2. CASE brand[b].status # "failed"
  <2> DEFINE n == IF Opens(b) /\ store[base[b].project].planned THEN base[b].project ELSE 0
             i == [Idle EXCEPT !.step = "look", !.kind = "abandoned", !.brand = b, !.planned = n]
  <2>1. n \in 0..MaxProjects
    BY DatabaseAssumption DEF TypeOK, Bases, DatabaseAssumption
  <2>2. n # 0 => n \in 1..made /\ store[n].planned
    BY DEF Inv, BasesFit
  <2>3. Become(w, i) /\ UNCHANGED raced
    BY <1>2 DEF ListAbandoned
  <2> HIDE DEF n
  <2>4. i \in Jobs /\ i.step = "look" /\ i.kind = "abandoned" /\ i.brand = b /\ i.planned = n
    BY <2>1, IdleType DEF Jobs, Steps
  <2> HIDE DEF i
  <2>5. PICK j \in Jobs : Turns(w, j) /\ j.step = "look" /\ j.kind = "abandoned" /\ j.brand = b /\ j.planned = n
    BY <2>3, <2>4, BecomeTurns
  <2>6. JobFits(j) /\ j.step \notin Working /\ Goes(w, j)
    BY <2>2, <2>5 DEF JobFits, Signing, Entering, Holding, Working, Provisioning, Removing, Goes
  <2>7. Inv'
    BY <1>0, <2>3, <2>5, <2>6, SameRows, SameBases, Quiet
  <2>8. QED
    BY <1>0, <2>3, <2>5, <2>7 DEF TypeOK, Turns
<1>3. QED
  BY <1>1, <1>2 DEF ListAbandoned

LEMMA LookStep ==
    ASSUME TypeOK, Inv, NEW w \in Handlers, Look(w)
    PROVE  TypeOK' /\ Inv'
<1> DEFINE b == job[w].brand
<1>0. /\ UNCHANGED <<brand, base, directory, code, store, made, strayed, starts, removals, faults>>
      /\ ~At(w, "record") /\ job[w].step = "look"
  BY DEF Look, mainVars, boundVars, At
<1>1. b \in Brands /\ job[w] \in Jobs /\ RowsSame /\ BasesSame
  BY <1>0, ProvisionSteps, Known, SameRows, SameBases
<1>2. CASE Done(w) /\ UNCHANGED raced
  BY <1>0, <1>1, <1>2, QuietDone DEF TypeOK
<1>3. CASE Goto(w, "stamp") /\ UNCHANGED raced
  <2>1. Inv' /\ job' \in [Handlers -> Jobs]
    BY <1>0, <1>1, <1>3, ProvisionSteps, QuietGo
  <2>2. QED
    BY <1>0, <1>3, <2>1 DEF TypeOK
<1>4. CASE Opens(b) /\ ~store[base[b].project].planned /\ Goto(w, "dropRead") /\ BeginsRemoval(w, b)
  <2>1. PICK j \in Jobs :
          /\ Turns(w, j) /\ j.step = "dropRead" /\ j.kind = job[w].kind /\ j.brand = job[w].brand
          /\ j.project = job[w].project /\ j.email = job[w].email
          /\ j.planned = job[w].planned /\ j.listed = job[w].listed
    BY <1>4, GotoTurns DEF Steps, Removing
  <2>2. JobFits(job[w]) /\ job[w].step \in Owned /\ "dropRead" \in Owned
        /\ "dropRead" \notin Signing \cup Entering \cup Holding
    BY <1>0, ProvisionSteps, Known DEF Removing, Signing, Entering, Holding
  <2>3. JobFits(j)
    BY <2>1, <2>2 DEF JobFits
  <2>4. base[b].project # 0
    BY <1>1, <1>4 DEF Opens, Inv, BasesFit
  <2>5. Exists(b)
    BY <1>1, <2>4 DEF Inv, BasesFit
  <2>6. base[b].project # j.planned
    BY <1>4, <2>1, <2>2, <2>4 DEF JobFits
  <2>7. Holds(j) /\ Goes(w, j)
    BY <1>4, <2>1, <2>5, <2>6 DEF Holds, Goes
  <2>8. raced \subseteq raced' /\ raced' \subseteq Brands
    BY <1>1, <1>4, BeginsRemovalType
  <2>9. Inv'
    BY <1>0, <1>1, <1>4, <2>1, <2>3, <2>7, <2>8, Quiet
  <2>10. QED
    BY <1>0, <2>1, <2>8, <2>9 DEF TypeOK, Turns
<1>5. QED
  BY <1>2, <1>3, <1>4 DEF Look

LEMMA DropReadStep ==
    ASSUME TypeOK, Inv, NEW w \in Handlers, DropRead(w)
    PROVE  TypeOK' /\ Inv'
<1> DEFINE b == job[w].brand
           p == base[b].project
           s == IF p = 0 THEN "dropRow" ELSE "drop"
<1>0. /\ UNCHANGED <<brand, base, directory, code, store, made, raced, strayed, starts, removals, faults>>
      /\ ~At(w, "record") /\ job[w].step = "dropRead"
      /\ Become(w, [job[w] EXCEPT !.step = s, !.project = p])
  BY DEF DropRead, mainVars, boundVars, At
<1>1. job[w].step \in Working /\ b \in Brands /\ p \in 0..MaxProjects
  BY <1>0, ProvisionSteps, Known DEF Removing, TypeOK, Bases
<1>2. s \in Removing /\ s \in Steps /\ s \in {"dropRow", "drop"}
  BY DEF Removing, Steps
<1>5. s = "drop" => p # 0
  OBVIOUS
<1>5a. s # "drop" => p = 0
  OBVIOUS
<1> HIDE DEF s
<1>3. PICK j \in Jobs :
        /\ Turns(w, j) /\ j.step = s /\ j.kind = job[w].kind /\ j.brand = job[w].brand
        /\ j.project = p /\ j.email = job[w].email
        /\ j.planned = job[w].planned /\ j.listed = job[w].listed
  BY <1>0, <1>1, <1>2, GetTurns
<1>4. p # 0 => p \in 1..made /\ store[p].brand = b
  BY <1>1 DEF Inv, BasesFit
<1>6. JobFits(j)
  <2>1. s \in Owned /\ job[w].step \in Owned /\ s \notin Signing \cup Entering
        /\ (s \in Holding => s = "drop") /\ s # "refill"
    BY <1>0, <1>2, ProvisionSteps DEF Holding, Removing, Signing, Entering
  <2>2. QED
    BY <1>1, <1>3, <1>4, <1>5, <2>1, Known DEF JobFits
<1>7. j.step \in Working /\ j.brand \notin raced' => Holds(j)
  <2>1. b \notin raced => Holds(job[w])
    BY <1>1, Known DEF Current
  <2>2. QED
    BY <1>0, <1>2, <1>3, <1>5, <1>5a, <2>1 DEF Holds
<1>8. Goes(w, j)
  <2>1. job[w].step \notin Provisioning
    BY <1>0 DEF Provisioning
  <2>2. QED
    BY <1>1, <1>3, <2>1, Known DEF Goes
<1>9. Inv'
  BY <1>0, <1>3, <1>6, <1>7, <1>8, SameRows, SameBases, Quiet
<1>10. QED
  BY <1>0, <1>3, <1>9 DEF TypeOK, Turns

LEMMA FaultStep ==
    ASSUME TypeOK, Inv, NEW w \in Handlers, CallFails(w) \/ Crash(w)
    PROVE  TypeOK' /\ Inv'
<1>0. /\ UNCHANGED <<brand, base, directory, code, store, made, raced, starts, removals>>
      /\ Strays(w) /\ ~At(w, "idle")
  BY DEF CallFails, Crash, mainVars
<1>1. faults' \in 0..MaxFaults
  BY DatabaseAssumption DEF CallFails, Crash, TypeOK, DatabaseAssumption
<1>2. RowsSame /\ BasesSame
  BY <1>0, SameRows, SameBases
<1>3. /\ strayed \subseteq strayed' /\ strayed' \subseteq 0..MaxProjects
      /\ At(w, "record") => \/ job[w].project \in strayed'
                            \/ base[job[w].brand].project = job[w].project
  <2>1. job[w].project \in 0..MaxProjects
    BY Known, JobTypes
  <2>2. QED
    BY <1>0, <2>1 DEF Strays, TypeOK
<1>4. Inv' /\ job' \in [Handlers -> Jobs]
  <2>1. CASE Done(w)
    BY <1>0, <1>2, <1>3, <2>1, QuietDone
  <2>2. ASSUME NEW s \in {"dbFailed", "rowFailed"}, job[w].step \in Provisioning, Goto(w, s),
               s = "dbFailed" => ~At(w, "dbRead") /\ ~At(w, "rowFailed")
        PROVE  Inv' /\ job' \in [Handlers -> Jobs]
    <3>1. s \in Plain /\ s \notin Holding /\ s \notin Signing \cup Entering /\ s # "refill"
          /\ job[w].step \in Owned /\ job[w].step \in Working
      BY <2>2, ProvisionSteps
    <3>2. QED
      BY <1>0, <1>2, <1>3, <2>2, <3>1, QuietGo
  <2>3. QED
    BY <2>1, <2>2 DEF CallFails, Crash, AfterError, At, Provisioning
<1>5. QED
  BY <1>0, <1>1, <1>3, <1>4 DEF TypeOK

--------------------------------------------------------------------------------
(* Steps that give a row its label.                                        *)

LEMMA NewRowType ==
    ASSUME NEW e \in Emails \cup {NoEmail}
    PROVE  /\ NewRow(e) \in Rows /\ NewRow(e).status = "provisioning" /\ NewRow(e).email = e
           /\ NewRow(e).spare => e = NoEmail
<1> DEFINE o == e = NoEmail
<1>1. o \in BOOLEAN
  OBVIOUS
<1>2. NewRow(e) = [NoRow EXCEPT !.status = "provisioning", !.email = e, !.spare = o]
  BY DEF NewRow
<1>3. o => e = NoEmail
  OBVIOUS
<1> HIDE DEF o
<1>4. QED
  BY <1>1, <1>2, <1>3 DEF NoRow, Rows

\* Row b gets label e, which no row has.
LEMMA Labelled ==
    ASSUME TypeOK, Inv, NEW w \in Handlers, NEW j, Turns(w, j), ~At(w, "record"),
           j.step # "record", NEW b \in Brands, NEW e \in Emails \cup {NoEmail},
           brand[b].email = NoEmail, ~Gone(b), Unused(b) \/ Exists(b),
           Exists(b)', brand'[b].email = e, brand'[b].spare => e = NoEmail,
           \A c \in Brands \ {b} : brand'[c] = brand[c],
           e = NoEmail \/ RowOf(e) = {},
           UNCHANGED <<base, store, made, strayed>>, raced \subseteq raced',
           Goes(w, j), JobFits(j)', Current(j)'
    PROVE  Inv'
<1>1. NoEmail \notin Emails
  BY DatabaseAssumption DEF DatabaseAssumption
<1>2. \A c \in Brands : (Exists(c) => Exists(c)') /\ (Gone(c) => Gone(c)')
  BY DEF Exists, Gone
<1>3. Stable
  BY <1>1, <1>2 DEF Stable, TypeOK
<1>4. JobsFit' /\ JobsCurrent'
  BY <1>2, <1>3, JobsKept
<1>5. Alone'
  BY AloneKept
<1>6. BasesFit'
  BY <1>2 DEF Inv, BasesFit
<1>7. RowsFit'
  <2>1. \A c \in Brands \ {b} : (Exists(c)' <=> Exists(c)) /\ (Unused(c)' <=> Unused(c))
    BY DEF Exists, Unused
  <2>2. \A c \in Brands : (brand[c].spare \/ Unused(c))' => brand'[c].email = NoEmail
    BY <2>1 DEF Inv, RowsFit, Exists, Unused
  <2>3. \A c \in Brands \ {b} : Exists(c)' /\ brand'[c].email \in Emails => brand'[c].email # e
    BY <1>1, <2>1 DEF RowOf
  <2>4. QED
    BY <2>1, <2>2, <2>3 DEF Inv, RowsFit
<1>8. Made'
  BY DEF Inv, Made
<1>9. AccountsFit'
  <2> SUFFICES ASSUME NEW p \in Projects, store[p].live, store[p].account # NoEmail,
                      store[p].brand \notin raced'
               PROVE  /\ base[store[p].brand].project = p
                      /\ brand'[store[p].brand].email = store[p].account
    BY DEF AccountsFit
  <2>1. /\ base[store[p].brand].project = p /\ brand[store[p].brand].email = store[p].account
        /\ store[p].brand \in Brands
    BY DEF Inv, AccountsFit, Made
  <2>2. QED
    BY <2>1
<1>10. DatabaseIsRecorded'
  BY DEF Inv, DatabaseIsRecorded, Recorded, At, Turns
<1>11. QED
  BY <1>4, <1>5, <1>6, <1>7, <1>8, <1>9, <1>10 DEF Inv

\* A row that is new, and the handler that sets it up.
LEMMA Inserted ==
    ASSUME TypeOK, Inv, NEW w \in Handlers, NEW j \in Jobs, Turns(w, j), ~At(w, "record"),
           NEW b \in Brands, Unused(b), NEW e \in Emails \cup {NoEmail},
           e = NoEmail \/ RowOf(e) = {}, brand' = [brand EXCEPT ![b] = NewRow(e)],
           j.step = "dbRead", j.brand = b, Begins(w, b),
           j.kind = "signup" => j.email = e /\ e \in Emails,
           j.planned # 0 => j.planned \in 1..made /\ store[j.planned].planned,
           j.kind = "signup" => j.listed = {},
           UNCHANGED <<base, store, made, strayed>>
    PROVE  Inv' /\ brand' \in [Brands -> Rows] /\ raced' \subseteq Brands
<1>1. brand' \in [Brands -> Rows] /\ brand'[b] = NewRow(e) /\ \A c \in Brands \ {b} : brand'[c] = brand[c]
  BY NewRowType DEF TypeOK
<1>2. Exists(b)' /\ brand'[b].email = e /\ brand'[b].spare => e = NoEmail
  BY <1>1, NewRowType DEF Exists
<1>3. brand[b].email = NoEmail /\ ~Gone(b)
  BY DEF Unused, Gone, Inv, RowsFit
<1>4. raced \subseteq raced' /\ raced' \subseteq Brands
  BY BeginsType
<1>5. j.step \in Owned /\ j.step \notin Signing \cup Entering /\ j.step \notin Holding
  BY ProvisionSteps DEF Provisioning, Signing, Entering
<1>6. brand'[b].email = e /\ Exists(b)'
  BY <1>1, NewRowType DEF Exists
<1>7. JobFits(j)'
  BY <1>5, <1>6 DEF JobFits
<1>8. Current(j)' /\ Goes(w, j)
  BY <1>6 DEF Current, Holds, Goes, Provisioning
<1>9. Inv'
  BY <1>1, <1>2, <1>3, <1>4, <1>6, <1>7, <1>8, Labelled
<1>10. QED
  BY <1>1, <1>4, <1>9

\* A refill lists the spares once.
LEMMA RefillStep ==
    ASSUME TypeOK, Inv, NEW w \in Handlers, Refill(w)
    PROVE  TypeOK' /\ Inv'
<1> DEFINE spares == {b \in Brands : brand[b].spare}
           short == Target - Cardinality(spares)
           S == {b \in spares : Abandoned(b)}
           n == IF short > 0 THEN short ELSE 0
           i == [Idle EXCEPT !.step = "refill", !.kind = "refill", !.listed = S, !.short = n]
<1>0. /\ UNCHANGED <<brand, base, directory, code, store, made, raced, strayed, starts, removals, faults>>
      /\ ~At(w, "record") /\ Become(w, i)
  BY DEF Refill, mainVars, boundVars, At
<1>1. S \subseteq Brands /\ n \in 0..Target
  <2>1. IsFiniteSet(spares)
    BY DatabaseAssumption, FS_Subset DEF DatabaseAssumption
  <2>2. Cardinality(spares) \in Nat
    BY <2>1, FS_CardinalityType
  <2>3. QED
    BY <2>2, DatabaseAssumption DEF DatabaseAssumption
<1> HIDE DEF S, n
<1>2. i \in Jobs /\ i.step = "refill" /\ i.kind = "refill" /\ i.planned = 0
  BY <1>1, IdleType DEF Jobs, Steps
<1> HIDE DEF i
<1>3. PICK j \in Jobs : Turns(w, j) /\ j.step = "refill" /\ j.kind = "refill" /\ j.planned = 0
  BY <1>0, <1>2, BecomeTurns
<1>4. JobFits(j) /\ j.step \notin Working /\ Goes(w, j)
  BY <1>3 DEF JobFits, Owned, Signing, Entering, Holding, Provisioning, Removing, Working, Goes
<1>5. Inv'
  BY <1>0, <1>3, <1>4, SameRows, SameBases, Quiet
<1>6. QED
  BY <1>0, <1>3, <1>5 DEF TypeOK, Turns

\* A spare that was listed, a new one, or none.
LEMMA NextSpareStep ==
    ASSUME TypeOK, Inv, NEW w \in Handlers, NextSpare(w)
    PROVE  TypeOK' /\ Inv'
<1>0. /\ UNCHANGED <<base, directory, code, store, made, strayed, starts, removals, faults>>
      /\ ~At(w, "record") /\ job[w].step = "refill"
  BY DEF NextSpare, boundVars, At
<1>a. /\ job[w] \in Jobs /\ job[w].kind # "signup"
      /\ job[w].planned # 0 => job[w].planned \in 1..made /\ store[job[w].planned].planned
  BY <1>0, Known DEF JobFits
<1>b. "dbRead" \in Steps /\ "dbRead" \in Provisioning /\ "dbRead" \in Owned
      /\ "dbRead" \notin Signing \cup Entering \cup Holding
  BY DEF Steps, Owned, Signing, Entering, Holding, Provisioning
<1>1. ASSUME NEW b \in job[w].listed, Begins(w, b), UNCHANGED brand,
             Become(w, [job[w] EXCEPT !.step = "dbRead", !.brand = b])
      PROVE  TypeOK' /\ Inv'
  <2>1. b \in Brands
    BY <1>a, JobTypes
  <2>2. PICK j \in Jobs :
          /\ Turns(w, j) /\ j.step = "dbRead" /\ j.kind = job[w].kind /\ j.brand = b
          /\ j.project = job[w].project /\ j.email = job[w].email
          /\ j.planned = job[w].planned /\ j.listed = job[w].listed
    BY <1>1, <1>b, <2>1, TakeTurns
  <2>3. JobFits(j) /\ Goes(w, j) /\ Holds(j)
    BY <1>1, <1>a, <1>b, <2>1, <2>2 DEF JobFits, Goes, Holds
  <2>4. raced \subseteq raced' /\ raced' \subseteq Brands
    BY <1>1, <2>1, BeginsType
  <2>5. Inv'
    BY <1>0, <1>1, <2>2, <2>3, <2>4, SameRows, SameBases, Quiet
  <2>6. QED
    BY <1>0, <1>1, <2>2, <2>4, <2>5 DEF TypeOK, Turns
<1>2. ASSUME NEW b \in Brands, Unused(b), brand' = [brand EXCEPT ![b] = NewRow(NoEmail)],
             job[w].short # 0, Begins(w, b),
             Become(w, [job[w] EXCEPT !.step = "dbRead", !.brand = b, !.short = @ - 1])
      PROVE  TypeOK' /\ Inv'
  <2> DEFINE n == job[w].short - 1
             i == [job[w] EXCEPT !.step = "dbRead", !.brand = b, !.short = n]
  <2>1. n \in 0..Target
    BY <1>2, <1>a, JobTypes, DatabaseAssumption DEF DatabaseAssumption
  <2>2. Become(w, i)
    BY <1>2, <1>a DEF Jobs
  <2> HIDE DEF n
  <2>3. /\ i \in Jobs /\ i.step = "dbRead" /\ i.kind = job[w].kind /\ i.brand = b
        /\ i.planned = job[w].planned
    BY <1>a, <1>b, <2>1 DEF Jobs
  <2> HIDE DEF i
  <2>4. PICK j \in Jobs : /\ Turns(w, j) /\ j.step = "dbRead" /\ j.kind = job[w].kind
                         /\ j.brand = b /\ j.planned = job[w].planned
    BY <2>2, <2>3, BecomeTurns
  <2>5. Inv' /\ brand' \in [Brands -> Rows] /\ raced' \subseteq Brands
    BY <1>0, <1>2, <1>a, <2>4, Inserted
  <2>6. QED
    BY <1>0, <2>4, <2>5 DEF TypeOK, Turns
<1>3. ASSUME Done(w), UNCHANGED <<brand, raced>> PROVE TypeOK' /\ Inv'
  <2>1. Inv' /\ job' \in [Handlers -> Jobs]
    BY <1>0, <1>3, SameRows, SameBases, QuietDone
  <2>2. QED
    BY <1>0, <1>3, <2>1 DEF TypeOK
<1>4. QED
  BY <1>1, <1>2, <1>3 DEF NextSpare

LEMMA CreateRowStep ==
    ASSUME TypeOK, Inv, NEW w \in Handlers, CreateRow(w)
    PROVE  TypeOK' /\ Inv'
<1>0. /\ UNCHANGED <<base, directory, store, made, strayed, starts, removals, faults>>
      /\ ~At(w, "record") /\ job[w].step \in Signing
  BY DEF CreateRow, boundVars, At, Signing
<1>a. job[w].kind = "signup" /\ job[w].email \in Emails
  BY <1>0, Known DEF JobFits
<1>b. code' \in [Emails -> Codes]
  <2>1. CASE UNCHANGED code
    BY <2>1 DEF TypeOK
  <2>2. CASE code' = [code EXCEPT ![job[w].email].state = IF @ = "sent" THEN "in use" ELSE @]
    <3>1. PICK e \in Emails : e = job[w].email
      BY <1>a
    <3> DEFINE r == [code[e] EXCEPT !.state = IF @ = "sent" THEN "in use" ELSE @]
    <3>2. r \in Codes
      BY DEF TypeOK, Codes, Valid
    <3>3. code' = [code EXCEPT ![e] = r]
      BY <2>2, <3>1
    <3> HIDE DEF r
    <3>4. QED
      BY <3>2, <3>3 DEF TypeOK
  <2>3. QED
    BY <2>1, <2>2 DEF CreateRow
<1>1. ASSUME NEW b \in Brands, Unused(b), RowOf(job[w].email) = {},
             brand' = [brand EXCEPT ![b] = NewRow(job[w].email)],
             Become(w, [job[w] EXCEPT !.step = "dbRead", !.brand = b]), Begins(w, b)
      PROVE  TypeOK' /\ Inv'
  <2>1. PICK e \in Emails : e = job[w].email
    BY <1>a
  <2>a. "dbRead" \in Steps /\ Become(w, [job[w] EXCEPT !.step = "dbRead", !.brand = b])
    BY <1>1 DEF Steps, Provisioning
  <2>2. PICK j \in Jobs :
          /\ Turns(w, j) /\ j.step = "dbRead" /\ j.kind = job[w].kind /\ j.brand = b
          /\ j.project = job[w].project /\ j.email = job[w].email
          /\ j.planned = job[w].planned /\ j.listed = job[w].listed
    BY <2>a, TakeTurns
  <2>3. j.planned # 0 => j.planned \in 1..made /\ store[j.planned].planned
    BY <2>2, Known DEF JobFits
  <2>3a. j.kind = "signup" => j.listed = {}
    BY <2>2, Known DEF JobFits
  <2>4. Inv' /\ brand' \in [Brands -> Rows] /\ raced' \subseteq Brands
    BY <1>0, <1>1, <2>1, <2>2, <2>3, <2>3a, Inserted
  <2>5. QED
    BY <1>0, <1>b, <2>2, <2>4 DEF TypeOK, Turns
<1>2. ASSUME NEW b \in RowOf(job[w].email), Begins(w, b), UNCHANGED brand,
             Become(w, [job[w] EXCEPT !.step = "dbRead", !.brand = b])
      PROVE  TypeOK' /\ Inv'
  <2>1. Inv' /\ job' \in [Handlers -> Jobs] /\ raced' \subseteq Brands
    BY <1>0, <1>2, QuietTake
  <2>2. QED
    BY <1>0, <1>2, <1>b, <2>1 DEF TypeOK
<1>3. ASSUME Done(w), UNCHANGED <<brand, raced>> PROVE TypeOK' /\ Inv'
  <2>1. Inv' /\ job' \in [Handlers -> Jobs]
    BY <1>0, <1>3, SameRows, SameBases, QuietDone
  <2>2. QED
    BY <1>0, <1>3, <1>b, <2>1 DEF TypeOK
<1>4. QED
  BY <1>1, <1>2, <1>3 DEF CreateRow

LEMMA ClaimSpareStep ==
    ASSUME TypeOK, Inv, NEW w \in Handlers, ClaimSpare(w)
    PROVE  TypeOK' /\ Inv'
<1>0. /\ UNCHANGED <<base, directory, code, store, made, raced, strayed, starts, removals, faults>>
      /\ ~At(w, "record") /\ job[w].step \in Signing
  BY DEF ClaimSpare, boundVars, At, Signing
<1>a. job[w].kind = "signup" /\ job[w].email \in Emails
  BY <1>0, Known DEF JobFits
<1>1. ASSUME NEW b \in ReadySpares, RowOf(job[w].email) = {},
             Write(b, [brand[b] EXCEPT !.spare = FALSE, !.email = job[w].email, !.aged = FALSE]),
             Become(w, [job[w] EXCEPT !.step = "consume", !.brand = b])
      PROVE  TypeOK' /\ Inv'
  <2>1. PICK e \in Emails : e = job[w].email
    BY <1>a
  <2>2. b \in Brands /\ brand[b] \in Rows /\ brand[b].email = NoEmail /\ Exists(b) /\ ~Gone(b)
    BY DEF ReadySpares, TypeOK, Inv, RowsFit, Exists, Gone
  <2>a. "consume" \in Steps /\ Become(w, [job[w] EXCEPT !.step = "consume", !.brand = b])
    BY <1>1 DEF Steps
  <2>3. PICK j \in Jobs :
          /\ Turns(w, j) /\ j.step = "consume" /\ j.kind = job[w].kind /\ j.brand = b
          /\ j.project = job[w].project /\ j.email = job[w].email
          /\ j.planned = job[w].planned /\ j.listed = job[w].listed
    BY <2>a, <2>2, TakeTurns
  <2> DEFINE r == [[brand[b] EXCEPT !.spare = FALSE, !.email = e, !.aged = FALSE] EXCEPT !.stuck = FALSE]
  <2>4. r \in Rows /\ r.status = brand[b].status /\ r.email = e /\ r.spare = FALSE
    BY <2>2 DEF Rows
  <2>5. brand' = [brand EXCEPT ![b] = r]
    BY <1>1, <2>1 DEF Write
  <2> HIDE DEF r
  <2>6. brand' \in [Brands -> Rows] /\ brand'[b] = r /\ \A c \in Brands \ {b} : brand'[c] = brand[c]
    BY <2>2, <2>4, <2>5 DEF TypeOK
  <2>7. Exists(b)' /\ brand'[b].email = e /\ ~brand'[b].spare
    BY <2>2, <2>4, <2>6 DEF Exists
  <2>8. "consume" \in Owned /\ "consume" \notin Holding /\ "consume" \notin Working
    BY ProvisionSteps
  <2>9. JobFits(j)' /\ Current(j)' /\ Goes(w, j)
    BY <1>0, <1>a, <2>1, <2>2, <2>3, <2>7, <2>8, Known DEF JobFits, Current, Goes
  <2>10. Inv'
    BY <1>0, <1>1, <2>1, <2>2, <2>3, <2>6, <2>7, <2>8, <2>9, Labelled
  <2>11. QED
    BY <1>0, <2>3, <2>6, <2>10 DEF TypeOK, Turns
<1>2. ASSUME Done(w), UNCHANGED brand PROVE TypeOK' /\ Inv'
  <2>1. Inv' /\ job' \in [Handlers -> Jobs]
    BY <1>0, <1>2, SameRows, SameBases, QuietDone
  <2>2. QED
    BY <1>0, <1>2, <2>1 DEF TypeOK
<1>3. ASSUME Goto(w, "createRow"), UNCHANGED brand PROVE TypeOK' /\ Inv'
  <2>1. "createRow" \in Plain /\ "createRow" \notin Owned \cup Holding \cup Working
    BY DEF Plain, Steps, Owned, Holding, Working, Provisioning, Removing, Entering
  <2>2. Inv' /\ job' \in [Handlers -> Jobs]
    BY <1>0, <1>a, <1>3, <2>1, SameRows, SameBases, QuietGo
  <2>3. QED
    BY <1>0, <1>3, <2>2 DEF TypeOK
<1>4. QED
  BY <1>1, <1>2, <1>3 DEF ClaimSpare

--------------------------------------------------------------------------------
(* Steps that make, record, fill or drop a database.                       *)

\* A database that a row names, or a handler holds.
LEMMA InProjects ==
    ASSUME TypeOK, Inv
    PROVE  /\ 1..made \subseteq Projects
           /\ \A b \in Brands : base[b].project = 0 \/ base[b].project \in Projects
<1>1. made \in 0..MaxProjects /\ MaxProjects \in Nat
  BY DatabaseAssumption DEF TypeOK, DatabaseAssumption
<1>2. \A b \in Brands : base[b].project \in 0..MaxProjects
  BY DEF TypeOK, Bases
<1>3. QED
  BY <1>1, <1>2 DEF Projects

\* A field of a database changes.
LEMMA Stored ==
    ASSUME TypeOK, NEW p \in Projects, NEW r \in Stores, store' = [store EXCEPT ![p] = r]
    PROVE  /\ store' \in [Projects -> Stores] /\ store'[p] = r
           /\ \A q \in Projects \ {p} : store'[q] = store[q]
BY DEF TypeOK

LEMMA StartPlanStep ==
    ASSUME TypeOK, Inv, NEW b \in Brands, StartPlan(b)
    PROVE  TypeOK' /\ Inv'
<1>0. UNCHANGED <<brand, base, directory, code, made, job, raced, strayed, starts, removals, faults>>
  BY DEF StartPlan, mainVars, boundVars
<1>1. PICK p \in Projects : p = base[b].project
  BY InProjects DEF StartPlan, Opens, Inv, BasesFit
<1> DEFINE r == [store[p] EXCEPT !.planned = TRUE]
<1>2. /\ r \in Stores /\ r.live = store[p].live /\ r.brand = store[p].brand
      /\ r.account = store[p].account /\ r.planned
  BY DEF TypeOK, Stores
<1>3. store' = [store EXCEPT ![p] = r]
  BY <1>1 DEF StartPlan, TypeOK
<1> HIDE DEF r
<1>4. /\ store' \in [Projects -> Stores] /\ store'[p] = r
      /\ \A q \in Projects \ {p} : store'[q] = store[q]
  BY <1>2, <1>3, Stored
<1>5. \A q \in Projects : /\ store'[q].live = store[q].live /\ store'[q].brand = store[q].brand
                          /\ store'[q].account = store[q].account
                          /\ store[q].planned => store'[q].planned
  BY <1>2, <1>4
<1>6. Stable
  BY <1>0, <1>5, InProjects DEF Stable, TypeOK, Gone
<1>7. ASSUME NEW v \in Handlers PROVE JobFits(job[v])' /\ Current(job[v])'
  <2>1. PICK i \in Jobs : i = job[v]
    BY DEF TypeOK
  <2>2. JobFits(i) /\ Current(i)
    BY <2>1 DEF Inv, JobsFit, JobsCurrent
  <2>3. JobFits(i)'
    BY <1>6, <2>2, FitsStable
  <2>4. Current(i)'
    BY <1>0, <1>6, <2>2, CurrentStable DEF Inv, Exists
  <2>5. job'[v] = i
    BY <1>0, <2>1
  <2>6. QED
    BY <2>3, <2>4, <2>5 DEF JobFits, Current, Holds
<1>8. JobsFit' /\ JobsCurrent'
  BY <1>7 DEF JobsFit, JobsCurrent
<1>9. Alone' /\ RowsFit'
  BY <1>0 DEF Inv, Alone, WorksOn, RowsFit, Unused, Exists
<1>10. BasesFit'
  BY <1>0, <1>5, InProjects DEF Inv, BasesFit, Exists
<1>11. Made' /\ AccountsFit'
  BY <1>0, <1>5 DEF Inv, Made, AccountsFit
<1>12. DatabaseIsRecorded'
  BY <1>0, <1>5 DEF Inv, DatabaseIsRecorded, Recorded, At
<1>13. QED
  BY <1>0, <1>4, <1>8, <1>9, <1>10, <1>11, <1>12 DEF TypeOK, Inv

LEMMA AccountStep ==
    ASSUME TypeOK, Inv, NEW w \in Handlers, CreateAccount(w)
    PROVE  TypeOK' /\ Inv'
<1>0. /\ UNCHANGED <<brand, base, directory, code, made, raced, strayed, starts, removals, faults>>
      /\ ~At(w, "record") /\ job[w].step = "account"
  BY DEF CreateAccount, mainVars, boundVars, At
<1>a. /\ job[w].step \in Entering /\ job[w].step \in Owned /\ job[w].brand \in Brands
      /\ job[w].kind = "signup" /\ job[w].email \in Emails
  BY <1>0, ProvisionSteps, Known DEF Entering, JobFits
<1>1. CASE Done(w) /\ UNCHANGED store
  <2>1. Inv' /\ job' \in [Handlers -> Jobs]
    BY <1>0, <1>1, SameRows, SameBases, QuietDone
  <2>2. QED
    BY <1>0, <1>1, <2>1 DEF TypeOK
<1>2. CASE Opens(job[w].brand) /\ Goto(w, "mirror")
           /\ store' = [store EXCEPT ![base[job[w].brand].project].account = job[w].email]
  <2>1. PICK b \in Brands : b = job[w].brand
    BY <1>a
  <2>2. PICK p \in Projects : p = base[b].project
    BY <1>2, <2>1, InProjects DEF Opens, Inv, BasesFit
  <2>3. PICK e \in Emails : e = job[w].email
    BY <1>a
  <2> DEFINE r == [store[p] EXCEPT !.account = e]
  <2>4. /\ r \in Stores /\ r.live = store[p].live /\ r.brand = store[p].brand
        /\ r.account = e /\ r.planned = store[p].planned
    BY DEF TypeOK, Stores
  <2>5. store' = [store EXCEPT ![p] = r]
    BY <1>2, <2>1, <2>2, <2>3 DEF TypeOK
  <2> HIDE DEF r
  <2>6. /\ store' \in [Projects -> Stores] /\ store'[p] = r
        /\ \A q \in Projects \ {p} : store'[q] = store[q]
    BY <2>4, <2>5, Stored
  <2>7. \A q \in Projects : /\ store'[q].live = store[q].live /\ store'[q].brand = store[q].brand
                            /\ store'[q].planned = store[q].planned
    BY <2>4, <2>6
  <2>8. Stable
    BY <1>0, <2>7, InProjects DEF Stable, TypeOK, Gone
  <2>9. "mirror" \in Steps /\ "mirror" \in Entering /\ "mirror" \in Owned
        /\ "mirror" \notin Holding /\ "mirror" \notin Working
    BY DEF Steps, Entering, Owned, Holding, Working, Provisioning, Removing
  <2>10. PICK j \in Jobs :
          /\ Turns(w, j) /\ j.step = "mirror" /\ j.kind = job[w].kind /\ j.brand = job[w].brand
          /\ j.project = job[w].project /\ j.email = job[w].email
          /\ j.planned = job[w].planned /\ j.listed = job[w].listed
    BY <1>2, <2>9, GotoTurns
  <2>11. JobFits(j)
    BY <1>a, <2>9, <2>10, Known DEF JobFits
  <2>12. JobFits(j)'
    BY <2>8, <2>11, FitsStable
  <2>13. Current(j)'
    BY <2>9, <2>10 DEF Current
  <2>14. JobsFit' /\ JobsCurrent'
    BY <1>0, <2>8, <2>10, <2>12, <2>13, JobsKept DEF Exists
  <2>15. Alone'
    BY <1>0, <2>9, <2>10, AloneKept DEF Goes
  <2>16. RowsFit' /\ BasesFit'
    BY <1>0, <2>7, InProjects DEF Inv, BasesFit, RowsFit, Unused, Exists
  <2>17. Made'
    BY <1>0, <2>7 DEF Inv, Made
  <2>18. AccountsFit'
    <3> SUFFICES ASSUME NEW q \in Projects, store'[q].live, store'[q].account # NoEmail,
                        store'[q].brand \notin raced
                 PROVE  /\ base[store'[q].brand].project = q
                        /\ brand[store'[q].brand].email = store'[q].account
      BY <1>0 DEF AccountsFit
    <3>1. CASE q # p
      BY <2>6, <3>1 DEF Inv, AccountsFit
    <3>2. CASE q = p
      <4>1. base[b].project # 0 /\ store[p].brand = b /\ Exists(b)
        BY <1>2, <2>1, <2>2 DEF Opens, Inv, BasesFit
      <4>2. brand[b].email = e
        BY <1>a, <2>1, <2>3, <4>1, Known DEF JobFits, Exists, Gone
      <4>3. QED
        BY <2>2, <2>4, <2>6, <3>2, <4>1, <4>2
    <3>3. QED
      BY <3>1, <3>2
  <2>19. DatabaseIsRecorded'
    BY <1>0, <2>7, <2>10 DEF Inv, DatabaseIsRecorded, Recorded, At, Turns
  <2>20. QED
    BY <1>0, <2>6, <2>10, <2>14, <2>15, <2>16, <2>17, <2>18, <2>19 DEF TypeOK, Inv, Turns
<1>3. QED
  BY <1>1, <1>2 DEF CreateAccount

LEMMA MakeProjectStep ==
    ASSUME TypeOK, Inv, NEW w \in Handlers, MakeProject(w)
    PROVE  TypeOK' /\ Inv'
<1>0. /\ UNCHANGED <<brand, base, directory, code, raced, strayed, starts, removals, faults>>
      /\ ~At(w, "record") /\ job[w].step = "project"
  BY DEF MakeProject, mainVars, boundVars, At
<1>a. job[w].step \in Working /\ job[w].step \in Owned /\ WorksOn(w, job[w].brand)
  BY <1>0, ProvisionSteps, Known DEF Provisioning
<1>1. CASE Goto(w, "rowFailed") /\ UNCHANGED <<store, made>>
  <2>1. Inv' /\ job' \in [Handlers -> Jobs]
    BY <1>0, <1>a, <1>1, ProvisionSteps, SameRows, SameBases, QuietGo
  <2>2. QED
    BY <1>0, <1>1, <2>1 DEF TypeOK
<1>2. CASE made < MaxProjects
  <2>1. PICK b \in Brands : b = job[w].brand
    BY <1>a, Known
  <2>2. PICK n \in Projects : n = made + 1 /\ n \notin 1..made /\ made \in Nat /\ n \in 0..MaxProjects
    BY <1>2, DatabaseAssumption DEF TypeOK, Projects, DatabaseAssumption
  <2> DEFINE r == [NoStore EXCEPT !.live = TRUE, !.brand = b]
  <2>3. r \in Stores /\ r.brand = b /\ r.account = NoEmail
    BY DEF NoStore, Stores
  <2>4. store' = [store EXCEPT ![n] = r] /\ made' = n
    BY <1>2, <2>1, <2>2 DEF MakeProject
  <2> HIDE DEF r
  <2>5. /\ store' \in [Projects -> Stores] /\ store'[n] = r
        /\ \A q \in Projects \ {n} : store'[q] = store[q]
    BY <2>3, <2>4, Stored
  <2>6. Stable
    BY <1>0, <2>2, <2>4, <2>5, InProjects DEF Stable, Gone
  <2>7. "record" \in Steps /\ "record" \in Working /\ "record" \in Owned /\ "record" \notin Signing \cup Entering
    BY ProvisionSteps DEF Steps, Provisioning, Signing, Entering
  <2>7a. Become(w, [job[w] EXCEPT !.step = "record", !.project = n])
    BY <1>2, <2>2 DEF MakeProject
  <2>7b. "record" \in Steps
    BY <2>7
  <2>7c. n \in 0..MaxProjects
    BY <2>2
  <2>8. PICK j \in Jobs :
          /\ Turns(w, j) /\ j.step = "record" /\ j.kind = job[w].kind /\ j.brand = job[w].brand
          /\ j.project = n /\ j.email = job[w].email
          /\ j.planned = job[w].planned /\ j.listed = job[w].listed
    BY <2>7b, <2>7c, <2>7a, GetTurns
  <2>9. n \in 1..made' /\ store'[n].brand = b
    BY <2>2, <2>3, <2>4, <2>5
  <2>10. j.planned # 0 => j.planned \in 1..made' /\ store'[j.planned].planned
    <3>1. j.planned # 0 => j.planned \in 1..made /\ store[j.planned].planned
      BY <2>8, Known DEF JobFits
    <3>2. QED
      BY <2>2, <2>4, <2>5, <3>1, InProjects
  <2>11. JobFits(j)'
    <3>1. j.kind = "signup" =>
            j.email \in Emails /\ j.listed = {} /\ (brand[b].email = j.email \/ Gone(b))
      BY <1>a, <2>1, <2>8, Known DEF JobFits
    <3>2. QED
      BY <1>0, <2>1, <2>7, <2>8, <2>9, <2>10, <3>1 DEF JobFits, Gone
  <2>12. Current(j)'
    <3> SUFFICES ASSUME b \notin raced PROVE Holds(j)'
      BY <1>0, <2>1, <2>8 DEF Current
    <3>1. Exists(b) /\ base[b].project = 0
      BY <1>0, <1>a, <2>1, Known DEF Current, Holds
    <3>2. QED
      BY <1>0, <2>1, <2>8, <3>1 DEF Holds, Exists
  <2>13. JobsFit' /\ JobsCurrent'
    BY <1>0, <2>6, <2>8, <2>11, <2>12, JobsKept DEF Exists
  <2>14. Alone'
    <3>1. Goes(w, j)
      BY <1>a, <2>8 DEF Goes, Provisioning
    <3>2. QED
      BY <1>0, <2>8, <3>1, AloneKept
  <2>15. RowsFit'
    BY <1>0 DEF Inv, RowsFit, Unused, Exists
  <2>16. BasesFit'
    BY <1>0, <2>2, <2>4, <2>5, InProjects DEF Inv, BasesFit, Exists
  <2>17. Made'
    BY <2>2, <2>3, <2>4, <2>5 DEF Inv, Made, Projects
  <2>18. AccountsFit'
    BY <1>0, <2>3, <2>5 DEF Inv, AccountsFit
  <2>19. DatabaseIsRecorded'
    <3> SUFFICES ASSUME NEW q \in Projects, store'[q].live, q \notin strayed, store'[q].brand \notin raced
                 PROVE  Recorded(q)'
      BY <1>0 DEF DatabaseIsRecorded
    <3>1. CASE q = n
      BY <2>8, <3>1 DEF Recorded, At, Turns
    <3>2. CASE q # n
      <4>1. Recorded(q)
        BY <2>5, <3>2 DEF Inv, DatabaseIsRecorded
      <4>2. QED
        BY <1>0, <2>8, <4>1 DEF Recorded, At, Turns
    <3>3. QED
      BY <3>1, <3>2
  <2>20. QED
    BY <1>0, <2>2, <2>4, <2>5, <2>8, <2>13, <2>14, <2>15, <2>16, <2>17, <2>18, <2>19
       DEF TypeOK, Inv, Turns
<1>3. QED
  BY <1>1, <1>2 DEF MakeProject

LEMMA RecordStep ==
    ASSUME TypeOK, Inv, NEW w \in Handlers, Record(w)
    PROVE  TypeOK' /\ Inv'
<1>0. /\ UNCHANGED <<brand, directory, code, store, made, raced, strayed, starts, removals, faults>>
      /\ job[w].step = "record"
  BY DEF Record, boundVars, At
<1>a. job[w].step \in Working /\ job[w].step \in Owned /\ job[w].step \in Holding
      /\ WorksOn(w, job[w].brand)
  BY <1>0, ProvisionSteps, Known DEF Provisioning, Holding
<1>1. PICK b \in Brands : b = job[w].brand
  BY <1>a, Known
<1>2. job[w].project \in 1..made /\ store[job[w].project].brand = b
  BY <1>a, <1>1, Known DEF JobFits
<1>3. PICK p \in Projects : p = job[w].project
  BY <1>2, InProjects
<1>4. b \notin raced => Exists(b) /\ base[b].project \in {0, p}
  BY <1>0, <1>a, <1>1, <1>3, Known DEF Current, Holds
<1>5. CASE ~Exists(b)
  <2>1. Goto(w, "rowFailed") /\ UNCHANGED base
    BY <1>1, <1>5 DEF Record
  <2>2. Inv' /\ job' \in [Handlers -> Jobs]
    BY <1>0, <1>a, <1>1, <1>4, <1>5, <2>1, ProvisionSteps, SameRows, SameBases, QuietGo
  <2>3. QED
    BY <1>0, <2>1, <2>2 DEF TypeOK
<1>6. CASE Exists(b)
  <2> DEFINE r == [project |-> p, status |-> "provisioning"]
  <2>1. base' = [base EXCEPT ![b] = r] /\ Goto(w, "migrate")
    BY <1>1, <1>3, <1>6 DEF Record
  <2>2. r \in Bases /\ r.project = p
    BY DatabaseAssumption DEF Bases, Projects, DatabaseAssumption
  <2> HIDE DEF r
  <2>3. /\ base' \in [Brands -> Bases] /\ base'[b] = r
        /\ \A c \in Brands \ {b} : base'[c] = base[c]
    BY <2>1, <2>2 DEF TypeOK
  <2>4. "migrate" \in Steps /\ "migrate" \in Working /\ "migrate" \in Owned /\ "migrate" \in Holding
        /\ "migrate" \notin Signing \cup Entering
    BY ProvisionSteps DEF Steps, Provisioning, Signing, Entering, Holding
  <2>5. PICK j \in Jobs :
          /\ Turns(w, j) /\ j.step = "migrate" /\ j.kind = job[w].kind /\ j.brand = job[w].brand
          /\ j.project = job[w].project /\ j.email = job[w].email
          /\ j.planned = job[w].planned /\ j.listed = job[w].listed
    BY <2>1, <2>4, GotoTurns
  <2>6. Stable
    BY <1>0 DEF Stable, TypeOK, Gone
  <2>7. JobFits(j)
    BY <1>a, <2>4, <2>5, Known DEF JobFits
  <2>8. JobFits(j)'
    BY <2>6, <2>7, FitsStable
  <2>9. Exists(b)'
    BY <1>0, <1>6 DEF Exists
  <2>10. Current(j)'
    BY <1>1, <2>5, <2>9 DEF Current, Holds
  <2>11. JobsFit' /\ JobsCurrent'
    <3>1. base'[b].project = base[b].project \/ Free(w, b)
      BY <1>1, <1>4, <1>a, <2>2, <2>3 DEF Free
    <3>2. QED
      BY <1>0, <2>3, <2>5, <2>6, <2>8, <2>10, <3>1, JobsKept DEF Exists
  <2>12. Alone'
    <3>1. Goes(w, j)
      BY <1>a, <2>5 DEF Goes, Provisioning
    <3>2. p # 0
      BY DEF Projects
    <3>3. QED
      BY <1>0, <2>2, <2>3, <2>5, <3>1, <3>2, AloneKept
  <2>13. RowsFit' /\ Made'
    BY <1>0 DEF Inv, RowsFit, Unused, Exists, Made
  <2>14. p # 0 /\ p \in 1..made /\ store[p].brand = b
    BY <1>2, <1>3 DEF Projects
  <2>15. BasesFit'
    BY <1>0, <1>6, <2>2, <2>3, <2>14 DEF Inv, BasesFit, Exists
  <2>16. AccountsFit'
    <3> SUFFICES ASSUME NEW q \in Projects, store[q].live, store[q].account # NoEmail,
                        store[q].brand \notin raced
                 PROVE  /\ base'[store[q].brand].project = q
                        /\ brand[store[q].brand].email = store[q].account
      BY <1>0 DEF AccountsFit
    <3>1. /\ base[store[q].brand].project = q /\ brand[store[q].brand].email = store[q].account
          /\ store[q].brand \in Brands /\ q # 0
      BY DEF Inv, AccountsFit, Made, Projects
    <3>2. QED
      BY <1>4, <2>2, <2>3, <3>1
  <2>17. DatabaseIsRecorded'
    <3> SUFFICES ASSUME NEW q \in Projects, store[q].live, q \notin strayed, store[q].brand \notin raced
                 PROVE  Recorded(q)'
      BY <1>0 DEF DatabaseIsRecorded
    <3>1. Recorded(q) /\ q # 0
      BY DEF Inv, DatabaseIsRecorded, Projects
    <3>2. CASE q = p
      BY <2>2, <2>3, <3>2 DEF Recorded
    <3>3. ASSUME NEW c \in Brands, base[c].project = q, q # p PROVE Recorded(q)'
      <4>1. store[q].brand = c
        BY <3>1, <3>3 DEF Inv, BasesFit
      <4>2. c # b
        BY <1>4, <3>1, <3>3, <4>1
      <4>3. QED
        BY <2>3, <3>3, <4>2 DEF Recorded
    <3>4. ASSUME NEW v \in Handlers, At(v, "record"), job[v].project = q, q # p PROVE Recorded(q)'
      BY <1>3, <2>5, <3>4 DEF Recorded, At, Turns
    <3>5. QED
      BY <3>1, <3>2, <3>3, <3>4 DEF Recorded
  <2>18. QED
    BY <1>0, <2>3, <2>5, <2>11, <2>12, <2>13, <2>15, <2>16, <2>17 DEF TypeOK, Inv, Turns
<1>7. QED
  BY <1>5, <1>6

LEMMA DropStep ==
    ASSUME TypeOK, Inv, NEW w \in Handlers, Drop(w)
    PROVE  TypeOK' /\ Inv'
<1>0. /\ UNCHANGED <<brand, base, directory, code, made, raced, strayed, starts, removals, faults>>
      /\ job[w].step = "drop" /\ Goto(w, "forget")
  BY DEF Drop, mainVars, boundVars, At
<1>a. job[w].step \in Working /\ job[w].step \in Owned /\ job[w].step \in Holding
      /\ WorksOn(w, job[w].brand)
  BY <1>0, ProvisionSteps, Known DEF Removing, Holding
<1>1. PICK b \in Brands : b = job[w].brand
  BY <1>a, Known
<1>2. job[w].project \in 1..made
  BY <1>a, Known DEF JobFits
<1>3. PICK p \in Projects : p = job[w].project
  BY <1>2, InProjects
<1> DEFINE r == [store[p] EXCEPT !.live = FALSE]
<1>4. /\ r \in Stores /\ ~r.live /\ r.brand = store[p].brand
      /\ r.account = store[p].account /\ r.planned = store[p].planned
  BY DEF TypeOK, Stores
<1>5. store' = [store EXCEPT ![p] = r]
  BY <1>3 DEF Drop, TypeOK
<1> HIDE DEF r
<1>6. /\ store' \in [Projects -> Stores] /\ store'[p] = r
      /\ \A q \in Projects \ {p} : store'[q] = store[q]
  BY <1>4, <1>5, Stored
<1>7. \A q \in Projects : /\ store'[q].live => store[q].live
                          /\ store'[q].brand = store[q].brand
                          /\ store'[q].account = store[q].account
                          /\ store'[q].planned = store[q].planned
  BY <1>4, <1>6
<1>8. Stable
  BY <1>0, <1>7, InProjects DEF Stable, TypeOK, Gone
<1>9. "forget" \in Steps /\ "forget" \in Working /\ "forget" \in Owned /\ "forget" \notin Holding
      /\ "forget" \notin Signing \cup Entering
  BY ProvisionSteps DEF Steps, Removing, Signing, Entering, Holding
<1>10. PICK j \in Jobs :
        /\ Turns(w, j) /\ j.step = "forget" /\ j.kind = job[w].kind /\ j.brand = job[w].brand
        /\ j.project = job[w].project /\ j.email = job[w].email
        /\ j.planned = job[w].planned /\ j.listed = job[w].listed
  BY <1>0, <1>9, GotoTurns
<1>11. JobFits(j)
  BY <1>a, <1>9, <1>10, Known DEF JobFits
<1>12. JobFits(j)'
  BY <1>8, <1>11, FitsStable
<1>13. Current(j)'
  <2> SUFFICES ASSUME b \notin raced PROVE Holds(j)'
    BY <1>0, <1>1, <1>10 DEF Current
  <2>1. Exists(b) /\ base[b].project = p
    BY <1>0, <1>a, <1>1, <1>3, Known DEF Current, Holds
  <2>2. ~store'[p].live /\ Exists(b)' /\ base'[b].project = p
    BY <1>0, <1>4, <1>6, <2>1 DEF Exists
  <2>3. QED
    BY <1>1, <1>10, <2>2 DEF Holds
<1>14. JobsFit' /\ JobsCurrent'
  BY <1>0, <1>8, <1>10, <1>12, <1>13, JobsKept DEF Exists
<1>15. Alone'
  <2>1. Goes(w, j)
    BY <1>0, <1>a, <1>10 DEF Goes, Provisioning
  <2>2. QED
    BY <1>0, <1>10, <2>1, AloneKept
<1>16. RowsFit' /\ Made' /\ AccountsFit'
  BY <1>0, <1>7 DEF Inv, RowsFit, Unused, Exists, Made, AccountsFit
<1>17. BasesFit'
  BY <1>0, <1>7, InProjects DEF Inv, BasesFit, Exists
<1>18. DatabaseIsRecorded'
  BY <1>0, <1>7, <1>10 DEF Inv, DatabaseIsRecorded, Recorded, At, Turns
<1>19. QED
  BY <1>0, <1>6, <1>10, <1>14, <1>15, <1>16, <1>17, <1>18 DEF TypeOK, Inv, Turns

\* The brand's database row goes, its own row stays or goes with it.
LEMMA Cleared ==
    ASSUME TypeOK, Inv, NEW w \in Handlers, NEW j \in Jobs, Turns(w, j),
           job[w].step \in {"forget", "dropRow"}, NEW b \in Brands, b = job[w].brand,
           UNCHANGED <<code, store, made, raced, strayed>>,
           base' = [base EXCEPT ![b] = NoBase],
           UNCHANGED brand \/ brand' = [brand EXCEPT ![b] = [NoRow EXCEPT !.status = "gone"]],
           \/ j.step = "dropRow" /\ j.brand = b /\ UNCHANGED brand
           \/ j.step = "idle",
           JobFits(j)
    PROVE  Inv' /\ base' \in [Brands -> Bases] /\ brand' \in [Brands -> Rows]
<1>1. /\ base' \in [Brands -> Bases] /\ base'[b] = NoBase
      /\ \A c \in Brands \ {b} : base'[c] = base[c]
  BY IdleType DEF TypeOK
<1>2. NoBase.project = 0 /\ NoBase.status = "none"
  BY DEF NoBase
<1>3. job[w].step \in Working /\ job[w].step # "record" /\ j.step # "record"
      /\ j.step \notin Signing \cup Entering \cup Holding /\ "idle" \notin Working
  BY DEF Working, Removing, Provisioning, Signing, Entering, Holding
<1>4. WorksOn(w, b)
  BY <1>3, Known
<1>5. b \notin raced => Exists(b) /\ (base[b].project = 0 \/ ~store[base[b].project].live)
  BY <1>3, Known DEF Current, Holds
<1>6. /\ brand' \in [Brands -> Rows] /\ \A c \in Brands \ {b} : brand'[c] = brand[c]
      /\ UNCHANGED brand \/ (brand'[b].status = "gone" /\ brand'[b].email = NoEmail /\ ~brand'[b].spare)
  <2> DEFINE r == [NoRow EXCEPT !.status = "gone"]
  <2>1. r \in Rows /\ r.status = "gone" /\ r.email = NoEmail /\ r.spare = FALSE
    BY DEF NoRow, Rows
  <2> HIDE DEF r
  <2>2. UNCHANGED brand \/ brand' = [brand EXCEPT ![b] = r]
    BY DEF r
  <2>3. brand \in [Brands -> Rows]
    BY DEF TypeOK
  <2>4. CASE UNCHANGED brand
    BY <2>3, <2>4
  <2>5. CASE brand' = [brand EXCEPT ![b] = r]
    BY <2>1, <2>3, <2>5
  <2>6. QED
    BY <2>2, <2>4, <2>5
<1>7. NoEmail \notin Emails
  BY DatabaseAssumption DEF DatabaseAssumption
<1>8. Stable
  <2>1. ASSUME NEW c \in Brands
        PROVE  (Gone(c) => Gone(c)') /\ (brand'[c].email = brand[c].email \/ Gone(c)')
    <3>1. CASE UNCHANGED brand
      BY <3>1 DEF Gone
    <3>2. CASE ~(UNCHANGED brand) /\ c = b
      BY <1>6, <3>2 DEF Gone
    <3>3. CASE c # b
      <4>1. brand'[c] = brand[c]
        BY <1>6, <3>3
      <4>2. QED
        BY <4>1 DEF Gone
    <3>4. QED
      BY <3>1, <3>2, <3>3
  <2>2. made' = made /\ made \in 0..MaxProjects /\ store' = store
    BY DEF TypeOK
  <2>3. made <= made
    BY <2>2
  <2>4. QED
    BY <2>1, <2>2, <2>3 DEF Stable
<1>9. JobFits(j)'
  BY <1>8, FitsStable
<1>10. Current(j)'
  <2> SUFFICES ASSUME j.step = "dropRow", b \notin raced PROVE Holds(j)'
    BY <1>3 DEF Current
  <2>1. Exists(b)' /\ base'[b].project = 0
    BY <1>1, <1>2, <1>3, <1>5 DEF Exists
  <2>2. QED
    BY <2>1 DEF Holds
<1>11. \A c \in Brands \ {b} : base'[c].project = base[c].project /\ (Exists(c) => Exists(c)')
  BY <1>1, <1>6 DEF Exists
<1>12. JobsFit' /\ JobsCurrent'
  <2>1. Free(w, b)
    BY <1>4 DEF Free, Removing
  <2>2. QED
    BY <1>8, <1>9, <1>10, <1>11, <2>1, JobsKept
<1>13. Alone'
  <2>1. Goes(w, j) /\ job[w].step \in Removing
    BY <1>3, <1>4 DEF Goes, Provisioning, Removing
  <2>2. QED
    BY <1>4, <1>11, <2>1, AloneKept
<1>14. RowsFit'
  <2>1. \A c \in Brands : Exists(c)' => Exists(c) /\ brand'[c].email = brand[c].email
    BY <1>6 DEF Exists
  <2>2. \A c \in Brands : (brand[c].spare \/ Unused(c))' => brand'[c].email = NoEmail
    BY <1>6 DEF Inv, RowsFit, Unused
  <2>3. QED
    BY <2>1, <2>2 DEF Inv, RowsFit
<1>15. BasesFit'
  BY <1>1, <1>2, <1>11 DEF Inv, BasesFit
<1>16. Made'
  BY DEF Inv, Made
<1>17. AccountsFit'
  <2> SUFFICES ASSUME NEW q \in Projects, store[q].live, store[q].account # NoEmail,
                      store[q].brand \notin raced
               PROVE  /\ base'[store[q].brand].project = q
                      /\ brand'[store[q].brand].email = store[q].account
    BY DEF AccountsFit
  <2>1. /\ base[store[q].brand].project = q /\ brand[store[q].brand].email = store[q].account
        /\ store[q].brand \in Brands /\ q # 0
    BY DEF Inv, AccountsFit, Made, Projects
  <2>2. store[q].brand # b
    BY <1>5, <2>1
  <2>3. QED
    BY <1>1, <1>6, <2>1, <2>2
<1>18. DatabaseIsRecorded'
  <2> SUFFICES ASSUME NEW q \in Projects, store[q].live, q \notin strayed, store[q].brand \notin raced
               PROVE  Recorded(q)'
    BY DEF DatabaseIsRecorded
  <2>1. Recorded(q) /\ q # 0
    BY DEF Inv, DatabaseIsRecorded, Projects
  <2>2. ASSUME NEW c \in Brands, base[c].project = q PROVE Recorded(q)'
    <3>1. store[q].brand = c
      BY <2>1, <2>2 DEF Inv, BasesFit
    <3>2. c # b
      BY <1>5, <2>1, <2>2, <3>1
    <3>3. QED
      BY <1>1, <2>2, <3>2 DEF Recorded
  <2>3. ASSUME NEW v \in Handlers, At(v, "record"), job[v].project = q PROVE Recorded(q)'
    BY <1>3, <2>3 DEF Recorded, At, Turns
  <2>4. QED
    BY <2>1, <2>2, <2>3 DEF Recorded
<1>19. QED
  BY <1>1, <1>6, <1>12, <1>13, <1>14, <1>15, <1>16, <1>17, <1>18 DEF Inv

LEMMA ForgetStep ==
    ASSUME TypeOK, Inv, NEW w \in Handlers, Forget(w)
    PROVE  TypeOK' /\ Inv'
<1>0. /\ UNCHANGED <<brand, directory, code, store, made, raced, strayed, starts, removals, faults>>
      /\ job[w].step = "forget" /\ Goto(w, "dropRow") /\ base' = [base EXCEPT ![job[w].brand] = NoBase]
  BY DEF Forget, boundVars, At
<1>1. job[w].step \in Owned /\ "dropRow" \in Owned /\ "dropRow" \in Steps
      /\ "dropRow" \notin Signing \cup Entering \cup Holding
  BY <1>0 DEF Steps, Owned, Removing, Signing, Entering, Holding
<1>2. PICK b \in Brands : b = job[w].brand
  BY <1>1, Known
<1>3. PICK j \in Jobs :
        /\ Turns(w, j) /\ j.step = "dropRow" /\ j.kind = job[w].kind /\ j.brand = job[w].brand
        /\ j.project = job[w].project /\ j.email = job[w].email
        /\ j.planned = job[w].planned /\ j.listed = job[w].listed
  BY <1>0, <1>1, GotoTurns
<1>4. JobFits(j)
  BY <1>1, <1>3, Known DEF JobFits
<1>5. Inv' /\ base' \in [Brands -> Bases]
  BY <1>0, <1>2, <1>3, <1>4, Cleared
<1>6. QED
  BY <1>0, <1>3, <1>5 DEF TypeOK, Turns

LEMMA DropRowStep ==
    ASSUME TypeOK, Inv, NEW w \in Handlers, DropRow(w)
    PROVE  TypeOK' /\ Inv'
<1>0. /\ UNCHANGED <<code, store, made, raced, strayed, starts, removals, faults>>
      /\ job[w].step = "dropRow" /\ Done(w) /\ base' = [base EXCEPT ![job[w].brand] = NoBase]
      /\ brand' = [brand EXCEPT ![job[w].brand] = [NoRow EXCEPT !.status = "gone"]]
      /\ directory' = [directory EXCEPT ![job[w].brand] = NoEmail]
  BY DEF DropRow, boundVars, At
<1>1. PICK b \in Brands : b = job[w].brand
  BY <1>0, Known DEF Owned, Removing
<1>2. Turns(w, Idle)
  BY <1>0, DoneTurns
<1>3. "idle" \notin Owned \cup Signing \cup Entering \cup Holding
  BY DEF Owned, Signing, Entering, Holding, Provisioning, Removing
<1>4. PICK j \in Jobs : j = Idle
  BY IdleType
<1>5. Turns(w, j) /\ JobFits(j) /\ j.step = "idle"
  BY <1>2, <1>3, <1>4, IdleType DEF JobFits
<1>6. Inv' /\ base' \in [Brands -> Bases] /\ brand' \in [Brands -> Rows]
  BY <1>0, <1>1, <1>5, Cleared
<1>7. directory' \in [Brands -> Emails \cup {NoEmail}]
  BY <1>0 DEF TypeOK
<1>8. QED
  BY <1>0, <1>2, <1>6, <1>7 DEF TypeOK, Turns

--------------------------------------------------------------------------------
(* The theorems.                                                           *)

LEMMA InitInv == Init => TypeOK /\ Inv
<1> SUFFICES ASSUME Init PROVE TypeOK /\ Inv
  OBVIOUS
<1>1. TypeOK
  <2>1. NoCode \in Codes
    BY DatabaseAssumption DEF NoCode, Codes, DatabaseAssumption
  <2>2. QED
    BY <2>1, IdleType, DatabaseAssumption DEF Init, TypeOK, DatabaseAssumption
<1>2. "idle" \notin Owned \cup Signing \cup Entering \cup Holding \cup Working
  BY DEF Owned, Signing, Entering, Holding, Working, Provisioning, Removing
<1>3. \A w \in Handlers : job[w].step = "idle" /\ job[w].kind = "none" /\ job[w].planned = 0
  BY IdleType DEF Init
<1>4. JobsFit /\ JobsCurrent /\ Alone
  BY <1>2, <1>3 DEF JobsFit, JobsCurrent, Alone, JobFits, Current, WorksOn, Working
<1>5. BasesFit /\ RowsFit
  BY DatabaseAssumption
     DEF Init, BasesFit, RowsFit, NoBase, NoRow, Exists, DatabaseAssumption
<1>6. Made /\ AccountsFit /\ DatabaseIsRecorded
  BY DEF Init, Made, AccountsFit, DatabaseIsRecorded, NoStore
<1>7. QED
  BY <1>1, <1>4, <1>5, <1>6 DEF Inv

LEMMA StepInv ==
    ASSUME TypeOK, Inv, [Next]_vars
    PROVE  TypeOK' /\ Inv'
<1>1. CASE UNCHANGED vars
  <2>1. UNCHANGED <<brand, base, directory, code, store, made, job, raced, strayed, starts, removals, faults>>
    BY <1>1 DEF vars, mainVars, boundVars
  <2>2. Inv'
    BY <2>1, SameRows, RowStep
  <2>3. QED
    BY <2>1, <2>2 DEF TypeOK
<1>2. ASSUME NEW e \in Emails, Start(e) \/ Expire(e) PROVE TypeOK' /\ Inv'
  BY <1>2, StartStep, ExpireStep
<1>3. ASSUME NEW b \in Brands, BrandStep(b) PROVE TypeOK' /\ Inv'
  BY <1>3, BrandStepType, StartPlanStep DEF BrandStep
<1>4. ASSUME NEW w \in Handlers, Begin(w) PROVE TypeOK' /\ Inv'
  BY <1>4, RefillStep, VerifyStep, OpenStep, ListStep DEF Begin
<1>5. ASSUME NEW w \in Handlers, HandlerStep(w) PROVE TypeOK' /\ Inv'
  BY <1>5, FindRowStep, ClaimSpareStep, CreateRowStep, EnterStep, AccountStep, DbReadStep,
     MakeProjectStep, RecordStep, SetupStep, RowWriteStep, LookStep, DropReadStep, DropStep,
     ForgetStep, DropRowStep, NextSpareStep DEF HandlerStep
<1>6. ASSUME NEW w \in Handlers, CallFails(w) \/ Crash(w) PROVE TypeOK' /\ Inv'
  BY <1>6, FaultStep
<1>7. QED
  BY <1>1, <1>2, <1>3, <1>4, <1>5, <1>6 DEF Next

LEMMA Inductive == Spec => [](TypeOK /\ Inv)
<1>1. TypeOK /\ Inv /\ [Next]_vars => (TypeOK /\ Inv)'
  BY StepInv
<1>2. QED
  BY InitInv, <1>1, PTL DEF Spec

\* Every row, database and handler keeps its shape.
THEOREM TypeCorrect == Spec => []TypeOK
BY Inductive, PTL

\* A database that exists is the one its brand's row names, or a handler is
\* about to record it (provisionBrandDatabase, destroyBrandDatabase): also when
\* several handlers resume the brand's database at once.  Excepted are a maker
\* that failed holding it and the crossings that Begins and BeginsRemoval note.
THEOREM DatabasesAreRecorded == Spec => []DatabaseIsRecorded
<1>1. TypeOK /\ Inv => DatabaseIsRecorded
  BY DEF Inv
<1>2. QED
  BY Inductive, <1>1, PTL

\* At most one account comes of all the verifies of an email, wherever they
\* cross: at the look-up, at a spare, at the new row, at the code, at the account
\* and while they set up a database that is recorded (customerBrandFor,
\* verifyPlatformSignup).  Excepted are brands that two handlers set up before
\* a database was recorded, or that were removed meanwhile (raced): there the
\* code can make two.
THEOREM OneAccount == Spec => []OneAccountPerEmail
<1>1. TypeOK /\ Inv => OneAccountPerEmail
  <2> SUFFICES ASSUME TypeOK, Inv, NEW p \in Projects, NEW q \in Projects,
                      store[p].live, store[q].live, store[p].account # NoEmail,
                      store[p].account = store[q].account,
                      store[p].brand \notin raced, store[q].brand \notin raced
               PROVE  p = q
    BY DEF OneAccountPerEmail
  <2>1. /\ base[store[p].brand].project = p /\ base[store[q].brand].project = q
        /\ brand[store[p].brand].email = store[p].account
        /\ brand[store[q].brand].email = store[q].account
        /\ store[p].brand \in Brands /\ store[q].brand \in Brands /\ p # 0 /\ q # 0
    BY DEF Inv, AccountsFit, Made, Projects
  <2>2. Exists(store[p].brand) /\ Exists(store[q].brand)
    BY <2>1 DEF Inv, BasesFit
  <2>3. store[p].account \in Emails
    BY DEF TypeOK, Stores
  <2>4. store[p].brand = store[q].brand
    BY <2>1, <2>2, <2>3 DEF Inv, RowsFit
  <2>5. QED
    BY <2>1, <2>4
<1>2. QED
  BY Inductive, <1>1, PTL

\* The abandoned sign-up sweep drops no database of an owner who had started a
\* plan when the row was listed (everActivated), on brands whose removal crosses
\* no other handler.
THEOREM PlansSurvive == Spec => []SweepKeepsPlans
<1>1. TypeOK /\ Inv => SweepKeepsPlans
  <2> SUFFICES ASSUME TypeOK, Inv, NEW w \in Handlers, At(w, "drop"),
                      job[w].planned = job[w].project, job[w].brand \notin raced
               PROVE  FALSE
    BY DEF SweepKeepsPlans
  <2>1. job[w].step \in Working /\ job[w].step = "drop"
    BY DEF At, Working, Removing
  <2>2. Holds(job[w])
    BY <2>1, Known DEF Current
  <2>3. QED
    BY <2>1, <2>2 DEF Holds
<1>2. QED
  BY Inductive, <1>1, PTL

--------------------------------------------------------------------------------
(* The homes that TenantHomes describes.                                   *)

\* A row that is gone has no owner, a database that is not made no brand.
Spotless ==
    /\ \A b \in Brands : Gone(b) => brand[b].email = NoEmail
    /\ \A p \in Projects : p > made => store[p] = NoStore

HomeInv == TypeOK /\ Inv /\ Spotless

\* What a step does to the owners and the databases: nothing ...
Untouched ==
    /\ \A b \in Brands : brand'[b].email = brand[b].email /\ (Gone(b)' <=> Gone(b))
    /\ UNCHANGED <<store, made>>

\* ... a row gets its owner ...
Acquired(b, e) ==
    /\ brand[b].email = NoEmail /\ ~Gone(b) /\ RowOf(e) = {}
    /\ brand'[b].email = e /\ ~Gone(b)'
    /\ \A c \in Brands \ {b} : brand'[c] = brand[c]
    /\ UNCHANGED <<store, made>>

\* ... or goes ...
Closed(b) ==
    /\ brand'[b].email = NoEmail /\ Gone(b)'
    /\ \A c \in Brands \ {b} : brand'[c] = brand[c]
    /\ UNCHANGED <<store, made>>

\* ... a database is made ...
MadeFor(b, p) ==
    /\ p = made + 1 /\ made' = p /\ UNCHANGED brand
    /\ store' \in [Projects -> Stores]
    /\ store'[p] = [NoStore EXCEPT !.live = TRUE, !.brand = b]
    /\ \A q \in Projects \ {p} : store'[q] = store[q]

\* ... or changes, without another brand.
Changes(p, r) ==
    /\ store[p].live /\ store[p].brand = r.brand
    /\ UNCHANGED <<brand, made>>
    /\ store' \in [Projects -> Stores] /\ store'[p] = r
    /\ \A q \in Projects \ {p} : store'[q] = store[q]

LEMMA UntouchedStutters ==
    ASSUME HomeInv, Untouched
    PROVE  Spotless' /\ UNCHANGED Homes!homeVars
<1>1. Spotless'
  BY DEF HomeInv, Spotless, Untouched
<1>2. [b \in Brands |-> brand'[b].email] = [b \in Brands |-> brand[b].email]
  BY DEF Untouched
<1>3. {b \in Brands : brand'[b].status = "gone"} = {b \in Brands : brand[b].status = "gone"}
  BY DEF Untouched, Gone
<1>4. store' = store
  BY DEF Untouched
<1>5. QED
  BY <1>1, <1>2, <1>3, <1>4 DEF Homes!homeVars

LEMMA AcquiredAcquires ==
    ASSUME HomeInv, NEW b \in Brands, NEW e \in Emails, Acquired(b, e)
    PROVE  Spotless' /\ Homes!Acquire(b, e)
<1>1. Spotless'
  <2>1. \A c \in Brands : Gone(c)' => brand'[c].email = NoEmail
    BY DEF HomeInv, Spotless, Acquired, Gone
  <2>2. QED
    BY <2>1 DEF HomeInv, Spotless, Acquired
<1>2. e # NoEmail
  BY DatabaseAssumption DEF DatabaseAssumption
<1>3. ASSUME NEW c \in Brands PROVE brand[c].email # e
  <2>1. Exists(c) \/ Gone(c) \/ Unused(c)
    BY DEF Exists, Gone, Unused
  <2>2. ~Exists(c) => brand[c].email = NoEmail
    BY <2>1 DEF HomeInv, Spotless, Inv, RowsFit
  <2>3. QED
    BY <1>2, <2>2 DEF Acquired, RowOf
<1>4. [c \in Brands |-> brand'[c].email] = [[c \in Brands |-> brand[c].email] EXCEPT ![b] = e]
  BY DEF Acquired
<1>5. {c \in Brands : brand'[c].status = "gone"} = {c \in Brands : brand[c].status = "gone"}
  BY DEF Acquired, Gone
<1>6. /\ store' = store /\ brand[b].email = NoEmail
      /\ b \notin {c \in Brands : brand[c].status = "gone"}
  BY DEF Acquired, Gone
<1>7. QED
  BY <1>1, <1>3, <1>4, <1>5, <1>6 DEF Homes!Acquire

LEMMA ClosedCloses ==
    ASSUME HomeInv, NEW b \in Brands, Closed(b)
    PROVE  Spotless' /\ Homes!Close(b)
<1>1. Spotless'
  <2>1. \A c \in Brands : Gone(c)' => brand'[c].email = NoEmail
    BY DEF HomeInv, Spotless, Closed, Gone
  <2>2. QED
    BY <2>1 DEF HomeInv, Spotless, Closed
<1>2. [c \in Brands |-> brand'[c].email] = [[c \in Brands |-> brand[c].email] EXCEPT ![b] = NoEmail]
  BY DEF Closed
<1>3. {c \in Brands : brand'[c].status = "gone"} = {c \in Brands : brand[c].status = "gone"} \cup {b}
  BY DEF Closed, Gone
<1>4. store' = store
  BY DEF Closed
<1>5. QED
  BY <1>1, <1>2, <1>3, <1>4 DEF Homes!Close

LEMMA MadeMakes ==
    ASSUME HomeInv, NEW b \in Brands, NEW p \in Projects, MadeFor(b, p)
    PROVE  Spotless' /\ Homes!Make(b, p)
<1>1. made \in Nat /\ p = made + 1 /\ made' = p /\ Projects \subseteq Nat
  BY DEF HomeInv, TypeOK, MadeFor, Projects
<1>2. Spotless'
  <2>1. \A q \in Projects : q > made' => q > made /\ q # p
    BY <1>1
  <2>2. brand' = brand /\ \A q \in Projects \ {p} : store'[q] = store[q]
    BY DEF MadeFor
  <2>3. QED
    BY <2>1, <2>2 DEF HomeInv, Spotless, Gone
<1>3. store[p].brand = NoBrand /\ store[p].account = NoEmail /\ store[p].planned = FALSE
  BY <1>1 DEF HomeInv, Spotless, NoStore
<1>4. /\ store'[p].live = TRUE /\ store'[p].brand = b /\ store'[p].account = NoEmail
      /\ store'[p].planned = FALSE
  BY DEF MadeFor, NoStore
<1>5. brand' = brand /\ \A q \in Projects \ {p} : store'[q] = store[q]
  BY DEF MadeFor
<1>6. [q \in Projects |-> store'[q].brand]
        = [[q \in Projects |-> store[q].brand] EXCEPT ![p] = b]
  BY <1>4, <1>5
<1>7. [q \in Projects |-> store'[q].account] = [q \in Projects |-> store[q].account]
  BY <1>3, <1>4, <1>5
<1>8. {q \in Projects : store'[q].live} = {q \in Projects : store[q].live} \cup {p}
  BY <1>4, <1>5
<1>9. {q \in Projects : store'[q].planned} = {q \in Projects : store[q].planned}
  BY <1>3, <1>4, <1>5
<1>10. QED
  BY <1>2, <1>3, <1>5, <1>6, <1>7, <1>8, <1>9 DEF Homes!Make

\* A database that changes is one of those made.
LEMMA ChangesSpotless ==
    ASSUME HomeInv, NEW p \in Projects, NEW r \in Stores, Changes(p, r)
    PROVE  /\ Spotless'
           /\ UNCHANGED <<[b \in Brands |-> brand[b].email],
                          {b \in Brands : brand[b].status = "gone"},
                          [q \in Projects |-> store[q].brand]>>
<1>1. p <= made
  BY DEF HomeInv, Inv, Made, Changes
<1>2. made \in Nat /\ Projects \subseteq Nat
  BY DEF HomeInv, TypeOK, Projects
<1>3. /\ brand' = brand /\ made' = made /\ store'[p].brand = store[p].brand
      /\ \A q \in Projects \ {p} : store'[q] = store[q]
  BY DEF Changes
<1>4. \A q \in Projects : q > made => q # p
  BY <1>1, <1>2
<1>5. Spotless'
  BY <1>3, <1>4 DEF HomeInv, Spotless, Gone
<1>6. [q \in Projects |-> store'[q].brand] = [q \in Projects |-> store[q].brand]
  BY <1>3
<1>7. QED
  BY <1>3, <1>5, <1>6

LEMMA ChangesMoveIn ==
    ASSUME HomeInv, NEW b \in Brands, NEW p \in Projects, NEW r \in Stores, Changes(p, r),
           r.live = store[p].live, r.planned = store[p].planned, store[p].account = NoEmail,
           store[p].brand = b, r.account = brand[b].email, brand[b].email \in Emails
    PROVE  Homes!MoveIn(b, p)
<1>1. /\ \A q \in Projects \ {p} : store'[q] = store[q]
      /\ store'[p] = r /\ store[p].live
  BY DEF Changes
<1>2. brand[b].email # NoEmail
  BY DatabaseAssumption DEF DatabaseAssumption
<1>3. [q \in Projects |-> store'[q].account]
        = [[q \in Projects |-> store[q].account] EXCEPT ![p] = brand[b].email]
  BY <1>1
<1>4. {q \in Projects : store'[q].live} = {q \in Projects : store[q].live}
  BY <1>1
<1>5. {q \in Projects : store'[q].planned} = {q \in Projects : store[q].planned}
  BY <1>1
<1>6. QED
  BY <1>1, <1>2, <1>3, <1>4, <1>5, ChangesSpotless DEF Homes!MoveIn

LEMMA ChangesSubscribe ==
    ASSUME HomeInv, NEW p \in Projects, NEW r \in Stores, Changes(p, r),
           r.live = store[p].live, r.account = store[p].account, r.planned = TRUE,
           store[p].account # NoEmail
    PROVE  Homes!Subscribe(p)
<1>1. /\ \A q \in Projects \ {p} : store'[q] = store[q]
      /\ store'[p] = r /\ store[p].live
  BY DEF Changes
<1>2. [q \in Projects |-> store'[q].account] = [q \in Projects |-> store[q].account]
  BY <1>1
<1>3. {q \in Projects : store'[q].live} = {q \in Projects : store[q].live}
  BY <1>1
<1>4. {q \in Projects : store'[q].planned} = {q \in Projects : store[q].planned} \cup {p}
  BY <1>1
<1>5. QED
  BY <1>1, <1>2, <1>3, <1>4, ChangesSpotless DEF Homes!Subscribe

LEMMA ChangesDrop ==
    ASSUME HomeInv, NEW p \in Projects, NEW r \in Stores, Changes(p, r),
           r.live = FALSE, r.account = store[p].account, r.planned = store[p].planned
    PROVE  Homes!Drop(p)
<1>1. /\ \A q \in Projects \ {p} : store'[q] = store[q]
      /\ store'[p] = r /\ store[p].live
  BY DEF Changes
<1>2. [q \in Projects |-> store'[q].account] = [q \in Projects |-> store[q].account]
  BY <1>1
<1>3. {q \in Projects : store'[q].live} = {q \in Projects : store[q].live} \ {p}
  BY <1>1
<1>4. {q \in Projects : store'[q].planned} = {q \in Projects : store[q].planned}
  BY <1>1
<1>5. QED
  BY <1>1, <1>2, <1>3, <1>4, ChangesSpotless DEF Homes!Drop

HomeStep == (Homes!HomeNext \/ UNCHANGED Homes!homeVars) /\ Spotless'

LEMMA AcquireSteps ==
    ASSUME HomeInv, NEW b \in Brands, NEW e \in Emails, Acquired(b, e)
    PROVE  HomeStep
<1>1. Homes!HomeNext
  BY AcquiredAcquires DEF Homes!HomeNext
<1>2. QED
  BY <1>1, AcquiredAcquires DEF HomeStep

\* A step that leaves the labels and the databases alone.
LEMMA StillSteps ==
    ASSUME HomeInv, RowsSame, UNCHANGED <<store, made>>
    PROVE  HomeStep
<1>1. Untouched
  BY DEF Untouched, RowsSame
<1>2. QED
  BY <1>1, UntouchedStutters DEF HomeStep

LEMMA ClaimHome ==
    ASSUME HomeInv, NEW w \in Handlers, ClaimSpare(w)
    PROVE  HomeStep
<1>1. UNCHANGED <<store, made>> /\ job[w].step \in Signing
  BY DEF ClaimSpare, boundVars, At, Signing
<1>2. PICK e \in Emails : e = job[w].email
  BY <1>1, Known DEF HomeInv, JobFits
<1>3. ASSUME NEW b \in ReadySpares, RowOf(e) = {},
             Write(b, [brand[b] EXCEPT !.spare = FALSE, !.email = e, !.aged = FALSE])
      PROVE  HomeStep
  <2>1. b \in Brands /\ brand[b] \in Rows /\ brand[b].email = NoEmail /\ ~Gone(b)
    BY DEF HomeInv, ReadySpares, TypeOK, Inv, RowsFit, Gone
  <2> DEFINE r == [[brand[b] EXCEPT !.spare = FALSE, !.email = e, !.aged = FALSE] EXCEPT !.stuck = FALSE]
  <2>2. r.status = brand[b].status /\ r.email = e
    BY <2>1 DEF Rows
  <2>3. brand' = [brand EXCEPT ![b] = r]
    BY <1>3 DEF Write
  <2> HIDE DEF r
  <2>4. brand'[b] = r /\ \A c \in Brands \ {b} : brand'[c] = brand[c]
    BY <2>1, <2>3 DEF HomeInv, TypeOK
  <2>5. ~Gone(b)'
    BY <2>1, <2>2, <2>4 DEF Gone
  <2>6. Acquired(b, e)
    BY <1>1, <1>3, <2>1, <2>2, <2>4, <2>5 DEF Acquired
  <2>7. QED
    BY <2>1, <2>6, AcquireSteps
<1>4. CASE UNCHANGED brand
  BY <1>1, <1>4, SameRows, StillSteps
<1>5. QED
  BY <1>2, <1>3, <1>4 DEF ClaimSpare

\* A new row, of an email or a spare.
LEMMA NewRowHome ==
    ASSUME HomeInv, NEW b \in Brands, Unused(b), NEW e \in Emails \cup {NoEmail},
           brand' = [brand EXCEPT ![b] = NewRow(e)], e = NoEmail \/ RowOf(e) = {},
           UNCHANGED <<store, made>>
    PROVE  HomeStep
<1>1. brand[b].email = NoEmail /\ ~Gone(b)
  BY DEF HomeInv, Inv, RowsFit, Unused, Gone
<1>2. brand'[b] = NewRow(e) /\ \A c \in Brands \ {b} : brand'[c] = brand[c]
  BY DEF HomeInv, TypeOK
<1>3. brand'[b].email = e /\ ~Gone(b)'
  BY <1>2, NewRowType DEF Gone
<1>4. CASE e = NoEmail
  <2>1. Untouched
    BY <1>1, <1>2, <1>3, <1>4 DEF Untouched, Gone
  <2>2. QED
    BY <2>1, UntouchedStutters DEF HomeStep
<1>5. CASE e \in Emails /\ RowOf(e) = {}
  <2>1. Acquired(b, e)
    BY <1>1, <1>2, <1>3, <1>5 DEF Acquired
  <2>2. QED
    BY <1>5, <2>1, AcquireSteps
<1>6. QED
  BY <1>4, <1>5

LEMMA CreateHome ==
    ASSUME HomeInv, NEW w \in Handlers, CreateRow(w)
    PROVE  HomeStep
<1>1. UNCHANGED <<store, made>> /\ job[w].step \in Signing
  BY DEF CreateRow, boundVars, At, Signing
<1>2. job[w].email \in Emails
  BY <1>1, Known DEF HomeInv, JobFits
<1>3. CASE UNCHANGED brand
  BY <1>1, <1>3, SameRows, StillSteps
<1>4. QED
  BY <1>1, <1>2, <1>3, NewRowHome DEF CreateRow

LEMMA SpareHome ==
    ASSUME HomeInv, NEW w \in Handlers, NextSpare(w)
    PROVE  HomeStep
<1>1. UNCHANGED <<store, made>>
  BY DEF NextSpare, boundVars
<1>2. CASE UNCHANGED brand
  BY <1>1, <1>2, SameRows, StillSteps
<1>3. QED
  BY <1>1, <1>2, NewRowHome DEF NextSpare

LEMMA CloseHome ==
    ASSUME HomeInv, NEW w \in Handlers, DropRow(w)
    PROVE  HomeStep
<1>1. UNCHANGED <<store, made>> /\ job[w].step \in Owned
  BY DEF DropRow, boundVars, At, Owned, Removing
<1>2. PICK b \in Brands : b = job[w].brand
  BY <1>1, Known DEF HomeInv
<1> DEFINE r == [NoRow EXCEPT !.status = "gone"]
<1>3. brand' = [brand EXCEPT ![b] = r]
  BY <1>2 DEF DropRow
<1>4. r.status = "gone" /\ r.email = NoEmail
  BY DEF NoRow
<1> HIDE DEF r
<1>5. brand'[b] = r /\ \A c \in Brands \ {b} : brand'[c] = brand[c]
  BY <1>3 DEF HomeInv, TypeOK
<1>6. Closed(b)
  BY <1>1, <1>4, <1>5 DEF Closed, Gone
<1>7. Homes!HomeNext
  BY <1>6, ClosedCloses DEF Homes!HomeNext
<1>8. QED
  BY <1>6, <1>7, ClosedCloses DEF HomeStep

LEMMA MakeHome ==
    ASSUME HomeInv, NEW w \in Handlers, MakeProject(w)
    PROVE  HomeStep
<1>1. UNCHANGED brand /\ job[w].step \in Owned
  BY DEF MakeProject, mainVars, At, Owned, Provisioning
<1>2. PICK b \in Brands : b = job[w].brand
  BY <1>1, Known DEF HomeInv
<1>3. CASE UNCHANGED <<store, made>>
  BY <1>1, <1>3, SameRows, StillSteps
<1>4. CASE made < MaxProjects
  <2>1. PICK n \in Projects : n = made + 1
    BY <1>4, DatabaseAssumption DEF HomeInv, TypeOK, Projects, DatabaseAssumption
  <2> DEFINE r == [NoStore EXCEPT !.live = TRUE, !.brand = b]
  <2>2. r \in Stores
    BY DEF NoStore, Stores
  <2>3. store' = [store EXCEPT ![n] = r] /\ made' = n
    BY <1>2, <1>4, <2>1 DEF MakeProject
  <2> HIDE DEF r
  <2>4. /\ store' \in [Projects -> Stores] /\ store'[n] = r
        /\ \A q \in Projects \ {n} : store'[q] = store[q]
    BY <2>2, <2>3, Stored DEF HomeInv
  <2>5. MadeFor(b, n)
    BY <1>1, <2>1, <2>3, <2>4 DEF MadeFor, r
  <2>6. Homes!HomeNext
    BY <2>5, MadeMakes DEF Homes!HomeNext
  <2>7. QED
    BY <2>5, <2>6, MadeMakes DEF HomeStep
<1>5. QED
  BY <1>3, <1>4 DEF MakeProject

LEMMA MoveInHome ==
    ASSUME HomeInv, NEW w \in Handlers, CreateAccount(w)
    PROVE  HomeStep
<1>1. UNCHANGED <<brand, base, made>> /\ job[w].step = "account"
  BY DEF CreateAccount, mainVars, At
<1>2. PICK b \in Brands : b = job[w].brand
  BY <1>1, ProvisionSteps, Known DEF HomeInv, Entering
<1>3. PICK e \in Emails : e = job[w].email
  BY <1>1, Known DEF HomeInv, Entering, JobFits
<1>4. CASE UNCHANGED store
  BY <1>1, <1>4, SameRows, StillSteps
<1>5. ASSUME Opens(b), store[base[b].project].account = NoEmail,
             store' = [store EXCEPT ![base[b].project].account = e]
      PROVE  HomeStep
  <2>1. PICK p \in Projects : p = base[b].project
    BY <1>5, InProjects DEF HomeInv, Opens, Inv, BasesFit
  <2>2. store[p].brand = b /\ Exists(b) /\ store[p].live
    BY <1>5, <2>1 DEF HomeInv, Opens, Inv, BasesFit
  <2>3. brand[b].email = e
    BY <1>1, <1>2, <1>3, <2>2, ProvisionSteps, Known
       DEF HomeInv, JobFits, Entering, Exists, Gone
  <2> DEFINE r == [store[p] EXCEPT !.account = e]
  <2>4. /\ r \in Stores /\ r.live = store[p].live /\ r.brand = store[p].brand
        /\ r.account = e /\ r.planned = store[p].planned
    BY DEF HomeInv, TypeOK, Stores
  <2>5. store' = [store EXCEPT ![p] = r]
    BY <1>5, <2>1 DEF HomeInv, TypeOK
  <2> HIDE DEF r
  <2>6. Changes(p, r)
    BY <1>1, <2>2, <2>4, <2>5, Stored DEF Changes, HomeInv
  <2>7. Homes!MoveIn(b, p)
    BY <1>5, <2>1, <2>2, <2>3, <2>4, <2>6, ChangesMoveIn
  <2>8. Homes!HomeNext
    BY <2>7 DEF Homes!HomeNext
  <2>9. QED
    BY <2>4, <2>6, <2>8, ChangesSpotless DEF HomeStep
<1>6. QED
  BY <1>2, <1>3, <1>4, <1>5 DEF CreateAccount

LEMMA SubscribeHome ==
    ASSUME HomeInv, NEW b \in Brands, StartPlan(b)
    PROVE  HomeStep
<1>1. UNCHANGED <<brand, made>> /\ Opens(b)
  BY DEF StartPlan, mainVars
<1>2. PICK p \in Projects : p = base[b].project
  BY <1>1, InProjects DEF HomeInv, Opens, Inv, BasesFit
<1>3. store[p].live /\ store[p].account # NoEmail
  BY <1>1, <1>2 DEF StartPlan, Opens
<1> DEFINE r == [store[p] EXCEPT !.planned = TRUE]
<1>4. /\ r \in Stores /\ r.live = store[p].live /\ r.brand = store[p].brand
      /\ r.account = store[p].account /\ r.planned = TRUE
  BY DEF HomeInv, TypeOK, Stores
<1>5. store' = [store EXCEPT ![p] = r]
  BY <1>2 DEF StartPlan, HomeInv, TypeOK
<1> HIDE DEF r
<1>6. Changes(p, r)
  BY <1>1, <1>3, <1>4, <1>5, Stored DEF Changes, HomeInv
<1>7. Homes!Subscribe(p)
  BY <1>3, <1>4, <1>6, ChangesSubscribe
<1>8. Homes!HomeNext
  BY <1>7 DEF Homes!HomeNext
<1>9. QED
  BY <1>4, <1>6, <1>8, ChangesSpotless DEF HomeStep

LEMMA DropHome ==
    ASSUME HomeInv, NEW w \in Handlers, Drop(w)
    PROVE  HomeStep
<1>1. UNCHANGED <<brand, made>> /\ job[w].step = "drop"
  BY DEF Drop, mainVars, At
<1>2. PICK p \in Projects : p = job[w].project
  BY <1>1, Known, InProjects DEF HomeInv, JobFits, Holding
<1> DEFINE r == [store[p] EXCEPT !.live = FALSE]
<1>3. /\ r \in Stores /\ r.live = FALSE /\ r.brand = store[p].brand
      /\ r.account = store[p].account /\ r.planned = store[p].planned
      /\ ~store[p].live => r = store[p]
  BY DEF HomeInv, TypeOK, Stores
<1>4. store' = [store EXCEPT ![p] = r]
  BY <1>2 DEF Drop, HomeInv, TypeOK
<1> HIDE DEF r
<1>5. CASE ~store[p].live
  <2>1. store' = store
    BY <1>3, <1>4, <1>5 DEF HomeInv, TypeOK
  <2>2. QED
    BY <1>1, <2>1, SameRows, StillSteps
<1>6. CASE store[p].live
  <2>1. Changes(p, r)
    BY <1>1, <1>3, <1>4, <1>6, Stored DEF Changes, HomeInv
  <2>2. Homes!Drop(p)
    BY <1>3, <2>1, ChangesDrop
  <2>3. Homes!HomeNext
    BY <2>2 DEF Homes!HomeNext
  <2>4. QED
    BY <1>3, <2>1, <2>3, ChangesSpotless DEF HomeStep
<1>7. QED
  BY <1>5, <1>6

\* Every step of the handlers, the brands and the faults is one of TenantHomes'
\* or none.
LEMMA NextHome ==
    ASSUME HomeInv, [Next]_vars
    PROVE  HomeStep
<1>0. TypeOK /\ Inv
  BY DEF HomeInv
<1>1. CASE UNCHANGED vars
  BY <1>1, SameRows, StillSteps DEF vars, mainVars
<1>2. ASSUME NEW e \in Emails, Start(e) \/ Expire(e) PROVE HomeStep
  BY <1>2, SameRows, StillSteps DEF Start, Expire
<1>3. ASSUME NEW b \in Brands, BrandStep(b) PROVE HomeStep
  <2>1. CASE StartPlan(b)
    BY <2>1, SubscribeHome
  <2>2. CASE Deactivate(b) \/ Reactivate(b) \/ Stuck(b) \/ Ages(b) \/ CountdownEnds(b)
    <3>1. UNCHANGED <<store, made>>
      BY <2>2 DEF Deactivate, Reactivate, Stuck, Ages, CountdownEnds
    <3>2. QED
      BY <1>0, <2>2, <3>1, BrandRows, StillSteps
  <2>3. QED
    BY <1>3, <2>1, <2>2 DEF BrandStep
<1>4. ASSUME NEW w \in Handlers, Begin(w) PROVE HomeStep
  <2>1. UNCHANGED <<brand, store, made>>
    BY <1>4 DEF Begin, Refill, Verify, Retry, ListAbandoned, ListDue, Delete, mainVars
  <2>2. QED
    BY <2>1, SameRows, StillSteps
<1>5. ASSUME NEW w \in Handlers, HandlerStep(w) PROVE HomeStep
  <2>1. CASE UNCHANGED <<brand, store, made>>
    BY <2>1, SameRows, StillSteps
  <2>2. CASE RowActive(w) \/ RowFailed(w) \/ Stamp(w)
    <3>1. UNCHANGED <<store, made>>
      BY <2>2 DEF RowActive, RowFailed, Stamp
    <3>2. QED
      BY <1>0, <2>2, <3>1, WrittenRows, StillSteps
  <2>3. CASE \/ FindRow(w) \/ Consume(w) \/ Mirror(w) \/ DbRead(w) \/ Record(w) \/ Migrate(w)
             \/ Seed(w) \/ Cutover(w) \/ DbFailed(w) \/ Look(w) \/ DropRead(w) \/ Forget(w)
    BY <2>1, <2>3 DEF FindRow, Consume, Mirror, DbRead, Record, Migrate, Seed, Cutover,
       DbFailed, Look, DropRead, Forget, mainVars
  <2>4. QED
    BY <1>5, <2>2, <2>3, ClaimHome, CreateHome, CloseHome, MakeHome, MoveInHome, DropHome,
       SpareHome DEF HandlerStep
<1>6. ASSUME NEW w \in Handlers, CallFails(w) \/ Crash(w) PROVE HomeStep
  BY <1>6, SameRows, StillSteps DEF CallFails, Crash, mainVars
<1>7. QED
  BY <1>1, <1>2, <1>3, <1>4, <1>5, <1>6 DEF Next

\* The tenants are kept apart: no brand and no database is handed on to another
\* person, every account is made in a database of its owner's brand, and one
\* that was dropped never opens again, whatever crosses, fails or is tried again
\* (claimSpare, customerBrandFor, provisionBrandDatabase, destroyBrandDatabase).
THEOREM TenantsAreKeptApart == Spec => KeepsTenantsApart
<1>1. Init => HomeInv /\ Homes!HomeInit
  <2>1. Init => Spotless
    BY DEF Init, Spotless, Gone, NoRow
  <2>2. Init => Homes!HomeInit
    BY DEF Init, Homes!HomeInit, NoRow, NoStore
  <2>3. QED
    BY <2>1, <2>2, InitInv DEF HomeInv
<1>2. HomeInv /\ [Next]_vars => HomeInv' /\ [Homes!HomeNext]_(Homes!homeVars)
  BY StepInv, NextHome DEF HomeInv, HomeStep
<1>3. QED
  BY <1>1, <1>2, PTL DEF Spec, KeepsTenantsApart, Homes!HomeSpec
================================================================================
