--------------------------- MODULE CallArchiveProofs ---------------------------
(***************************************************************************)
(* Theorems about CallArchive, for any calls, months and handlers.         *)
(***************************************************************************)
EXTENDS CallArchive, TLAPS

Viewing == {"hydrate", "translate", "cacheGet", "cachePut", "mark"}

Deleting == {"deleteObjects", "deleteRows"}

\* Where nothing that was put, or is to be deleted, is under way.
Clear == {"months", "detach", "dropTable", "list", "deleteRows"}

Retained(c) == age[c] # "expired"

\* What a handler's step says of what it carries.
JobFits(j) ==
    /\ j.step \in Viewing => j.call \in Calls
    /\ j.step = "dropTable" => j.month \in Months /\ month[j.month] # "attached"
    /\ j.months \subseteq over
    /\ j.step \in Clear => j.keys = {}
    /\ j.step \in Deleting => j.keys \subseteq j.todo /\ \A c \in j.todo : ~Retained(c)

\* A month goes only after all its calls have expired.
MonthsFit ==
    /\ \A m \in Months : month[m] # "attached" => m \in over
    /\ \A c \in Calls : MonthOf[c] \in over => ~Retained(c)

Fits == MonthsFit /\ \A h \in Handlers : JobFits(job[h])

\* A retained call has its row, and its transcript is in the columns until the
\* object that the row names has it.
RowsFit ==
    \A c \in Calls : Retained(c) =>
        /\ row[c].there
        /\ row[c].transcript \/ row[c].blob
        /\ row[c].blob => object[c].there
        /\ object[c].there => object[c].transcript

\* What a handler is about to put, or has put, has the transcript.
Carried(h) ==
    /\ At(h, "archive") => \A c \in Calls : Retained(c) =>
           /\ c \in job[h].todo \cup job[h].keys => c \in job[h].texts
           /\ c \in job[h].keys => object[c].there
    /\ At(h, "cachePut") /\ Retained(job[h].call) => job[h].texts # {}

WholeInv == RowsFit /\ \A h \in Handlers : Carried(h)

\* An object whose row is about to go is about to go first, or was stranded.
PruneInv ==
    \A h \in Handlers : job[h].step \in Deleting =>
        \A c \in job[h].todo : object[c].there => c \in stranded \/ c \in job[h].keys

\* A translation that was archived or marked is in the object.
Translates(h) ==
    /\ At(h, "archive") => \A c \in job[h].keys \cap job[h].translations :
           Retained(c) => object[c].translated \/ c \in missed
    /\ job[h].step \in Viewing /\ job[h].blob => row[job[h].call].blob
    /\ At(h, "cacheGet") => job[h].blob
    /\ At(h, "mark") /\ job[h].kind = "portal" /\ job[h].blob /\ Retained(job[h].call)
           => object[job[h].call].translated \/ job[h].call \in missed

--------------------------------------------------------------------------------
(* Types.                                                                  *)

RowType == [there : BOOLEAN, transcript : BOOLEAN, translated : BOOLEAN,
            marker : BOOLEAN, blob : BOOLEAN]

ObjectType == [there : BOOLEAN, transcript : BOOLEAN, translated : BOOLEAN]

LEMMA IdleType == Idle \in Jobs /\ NoObject \in ObjectType
BY DEF Idle, Jobs, Steps, NoObject, ObjectType

LEMMA BecomeType ==
    ASSUME TypeOK, NEW h \in Handlers, NEW j \in Jobs, Become(h, j)
    PROVE  /\ job' \in [Handlers -> Jobs]
           /\ job'[h] = j
           /\ \A v \in Handlers \ {h} : job'[v] = job[v]
BY DEF TypeOK, Become

\* What the steps of a handler make of its job.
LEMMA JobTypes ==
    ASSUME NEW j \in Jobs
    PROVE  /\ j.months \subseteq Months /\ j.month \in Months \cup {NoMonth}
           /\ j.todo \subseteq Calls /\ j.keys \subseteq Calls /\ j.texts \subseteq Calls
           /\ j.translations \subseteq Calls /\ j.call \in Calls \cup {NoCall}
           /\ j.blob \in BOOLEAN /\ j.marker \in BOOLEAN /\ j.step \in Steps
           /\ \A s \in Steps : [j EXCEPT !.step = s] \in Jobs
BY DEF Jobs

LEMMA GotoType ==
    ASSUME TypeOK, NEW h \in Handlers, NEW s \in Steps, Goto(h, s)
    PROVE  /\ [job[h] EXCEPT !.step = s] \in Jobs
           /\ job' \in [Handlers -> Jobs]
           /\ job'[h] = [job[h] EXCEPT !.step = s]
           /\ \A v \in Handlers \ {h} : job'[v] = job[v]
<1>1. [job[h] EXCEPT !.step = s] \in Jobs
  BY JobTypes DEF TypeOK
<1>2. QED
  BY <1>1, BecomeType DEF Goto

LEMMA DoneType ==
    ASSUME TypeOK, NEW h \in Handlers, Done(h)
    PROVE  /\ job' \in [Handlers -> Jobs]
           /\ job'[h] = Idle
           /\ \A v \in Handlers \ {h} : job'[v] = job[v]
BY IdleType, BecomeType DEF Done

LEMMA ArchivedType ==
    ASSUME TypeOK, NEW h \in Handlers, NEW todo \in SUBSET Calls, NEW keys \in SUBSET Calls,
           NEW kind \in {"sweep", "rest", job[h].kind}, Archived(h, todo, keys, kind)
    PROVE  \E j \in Jobs :
             /\ job' \in [Handlers -> Jobs]
             /\ job'[h] = j /\ \A v \in Handlers \ {h} : job'[v] = job[v]
             /\ \/ j.step \in {"idle", "pruneList"} /\ j.months = {}
                \/ /\ j.step = job[h].step /\ j.todo = todo /\ j.keys = keys
                   /\ j.texts = job[h].texts /\ j.translations = job[h].translations
                   /\ j.months = job[h].months /\ j.call = job[h].call /\ j.month = job[h].month
                   /\ j.blob = job[h].blob
<1>0. job[h] \in Jobs /\ job[h].kind \in {"none", "sweep", "rest", "portal", "public"}
  BY DEF TypeOK, Jobs
<1>1. CASE Done(h)
  BY <1>1, DoneType, IdleType DEF Idle
<1>2. CASE Become(h, [Idle EXCEPT !.step = "pruneList", !.kind = kind])
  <2>1. [Idle EXCEPT !.step = "pruneList", !.kind = kind] \in Jobs
    BY <1>0, IdleType DEF Jobs, Steps
  <2>2. [Idle EXCEPT !.step = "pruneList", !.kind = kind].step = "pruneList"
        /\ [Idle EXCEPT !.step = "pruneList", !.kind = kind].months = {}
    BY DEF Idle
  <2>3. QED
    BY <1>2, <2>1, <2>2, BecomeType
<1>3. CASE Become(h, [job[h] EXCEPT !.todo = todo, !.keys = keys, !.kind = kind])
  <2> DEFINE j == [job[h] EXCEPT !.todo = todo, !.keys = keys, !.kind = kind]
  <2>1. j \in Jobs
    BY <1>0 DEF Jobs
  <2>2. /\ j.step = job[h].step /\ j.todo = todo /\ j.keys = keys
        /\ j.texts = job[h].texts /\ j.translations = job[h].translations
        /\ j.months = job[h].months /\ j.call = job[h].call /\ j.month = job[h].month
        /\ j.blob = job[h].blob
    BY <1>0 DEF Jobs
  <2>3. job' \in [Handlers -> Jobs] /\ job'[h] = j /\ \A v \in Handlers \ {h} : job'[v] = job[v]
    BY <1>3, <2>1, BecomeType
  <2> HIDE DEF j
  <2>4. QED
    BY <2>1, <2>2, <2>3
<1>4. QED
  BY <1>1, <1>2, <1>3 DEF Archived

LEMMA InitType == Init => TypeOK
<1> SUFFICES ASSUME Init PROVE TypeOK
  OBVIOUS
<1>1. row \in [Calls -> RowType]
  BY DEF Init, RowType
<1>2. object \in [Calls -> ObjectType] /\ job \in [Handlers -> Jobs]
  BY IdleType DEF Init
<1>3. faults \in 0..MaxFaults
  BY ArchiveAssumption DEF Init, ArchiveAssumption
<1>4. QED
  BY <1>1, <1>2, <1>3 DEF Init, TypeOK, RowType, ObjectType

--------------------------------------------------------------------------------
(* Types and months, over the steps.                                       *)

\* Handler h becomes j, and only months that ended change.
LEMMA FitsKept ==
    ASSUME TypeOK, Fits, NEW h \in Handlers, NEW j,
           job'[h] = j, \A v \in Handlers \ {h} : job'[v] = job[v],
           UNCHANGED <<age, over>>,
           \A m \in Months : month'[m] = month[m] \/ (m \in over /\ month'[m] # "attached"),
           j.step \in Viewing => j.call \in Calls,
           j.step = "dropTable" => j.month \in Months /\ month'[j.month] # "attached",
           j.months \subseteq over,
           j.step \in Clear => j.keys = {},
           j.step \in Deleting => j.keys \subseteq j.todo /\ \A c \in j.todo : ~Retained(c)
    PROVE  Fits'
<1>1. MonthsFit'
  BY DEF Fits, MonthsFit, Retained
<1>2. ASSUME NEW v \in Handlers PROVE JobFits(job[v])'
  <2>1. CASE v = h
    BY <2>1 DEF JobFits, Retained
  <2>2. CASE v # h
    <3>1. job'[v] = job[v] /\ JobFits(job[v])
      BY <2>2 DEF Fits
    <3>2. QED
      BY <3>1 DEF JobFits, Retained
  <2>3. QED
    BY <2>1, <2>2
<1>3. QED
  BY <1>1, <1>2 DEF Fits

\* A step after which the job's fields are what they were, but for the step.
LEMMA GotoFits ==
    ASSUME TypeOK, Fits, NEW h \in Handlers, NEW s \in Steps \ (Deleting \cup Clear),
           Goto(h, s), s \in Viewing => job[h].step \in Viewing, UNCHANGED <<age, over, month>>
    PROVE  Fits'
<1>1. job[h] \in Jobs /\ JobFits(job[h])
  BY DEF TypeOK, Fits
<1> DEFINE j == [job[h] EXCEPT !.step = s]
<1>2. j.step = s /\ j.call = job[h].call /\ j.months = job[h].months
  BY <1>1 DEF Jobs
<1>3. job'[h] = j /\ \A v \in Handlers \ {h} : job'[v] = job[v]
  BY GotoType
<1> HIDE DEF j
<1>4. QED
  BY <1>1, <1>2, <1>3, FitsKept DEF JobFits, Deleting, Clear

LEMMA DoneFits ==
    ASSUME TypeOK, Fits, NEW h \in Handlers, Done(h), UNCHANGED <<age, over, month>>
    PROVE  Fits'
<1>1. Idle.step = "idle" /\ Idle.months = {}
  BY DEF Idle
<1>2. QED
  BY <1>1, DoneType, FitsKept DEF Viewing, Deleting, Clear

LEMMA ArchivedFits ==
    ASSUME TypeOK, Fits, NEW h \in Handlers, NEW todo \in SUBSET Calls, NEW keys \in SUBSET Calls,
           NEW kind \in {"sweep", "rest", job[h].kind}, Archived(h, todo, keys, kind),
           At(h, "archive"), UNCHANGED <<age, over, month>>
    PROVE  Fits' /\ job' \in [Handlers -> Jobs]
<1>1. PICK j \in Jobs :
        /\ job' \in [Handlers -> Jobs]
        /\ job'[h] = j /\ \A v \in Handlers \ {h} : job'[v] = job[v]
        /\ \/ j.step \in {"idle", "pruneList"} /\ j.months = {}
           \/ j.step = "archive" /\ j.months = job[h].months
  BY ArchivedType DEF At
<1>2. job[h].months \subseteq over
  BY DEF Fits, JobFits
<1>3. QED
  BY <1>1, <1>2, FitsKept DEF Viewing, Deleting, Clear

\* A call's object is written.
LEMMA ObjectType1 ==
    ASSUME TypeOK, NEW c \in Calls, NEW o \in ObjectType, object' = [object EXCEPT ![c] = o]
    PROVE  object' \in [Calls -> ObjectType]
BY DEF TypeOK, ObjectType

LEMMA HistoryType ==
    ASSUME TypeOK, NEW h \in Handlers, NEW c \in Calls, Strands(h, c)
    PROVE  stranded' \subseteq Calls
BY DEF TypeOK, Strands

\* The batch a sweep archives next, read from its listing.
LEMMA PutFacts ==
    ASSUME TypeOK, Fits, NEW h \in Handlers, Put(h)
    PROVE  \E c \in job[h].todo :
             /\ c \in Calls /\ At(h, "archive")
             /\ object' = [object EXCEPT ![c] = [there |-> TRUE, transcript |-> c \in job[h].texts,
                                              translated |-> c \in job[h].translations]]
             /\ object' \in [Calls -> ObjectType]
             /\ missed' = (IF object[c].translated /\ c \notin job[h].translations
                           THEN missed \cup {c} ELSE missed)
             /\ Strands(h, c) /\ Fits'
             /\ \E j \in Jobs :
                  /\ job' \in [Handlers -> Jobs]
                  /\ job'[h] = j /\ \A v \in Handlers \ {h} : job'[v] = job[v]
                  /\ \/ j.step \in {"idle", "pruneList"}
                     \/ /\ j.step = "archive"
                        /\ j.todo = job[h].todo \ {c} /\ j.keys = job[h].keys \cup {c}
                        /\ j.texts = job[h].texts /\ j.translations = job[h].translations
<1>0. job[h].todo \subseteq Calls /\ job[h].keys \subseteq Calls /\ At(h, "archive")
      /\ UNCHANGED <<age, over, month>>
  BY JobTypes DEF TypeOK, Put
<1>1. PICK c \in job[h].todo :
        /\ object' = [object EXCEPT ![c] = [there |-> TRUE, transcript |-> c \in job[h].texts,
                                            translated |-> c \in job[h].translations]]
        /\ missed' = (IF object[c].translated /\ c \notin job[h].translations
                      THEN missed \cup {c} ELSE missed)
        /\ Strands(h, c)
        /\ Archived(h, job[h].todo \ {c}, job[h].keys \cup {c}, job[h].kind)
  BY DEF Put
<1>2. c \in Calls /\ job[h].todo \ {c} \in SUBSET Calls /\ job[h].keys \cup {c} \in SUBSET Calls
  BY <1>0
<1> DEFINE o == [there |-> TRUE, transcript |-> c \in job[h].texts,
                 translated |-> c \in job[h].translations]
<1>3. o \in ObjectType
  BY DEF ObjectType
<1>4. object' \in [Calls -> ObjectType]
  BY <1>1, <1>2, <1>3, ObjectType1
<1> HIDE DEF o
<1>a. Archived(h, job[h].todo \ {c}, job[h].keys \cup {c}, job[h].kind)
  BY <1>1
<1>5. Fits'
  BY <1>0, <1>a, <1>2, ArchivedFits
<1>6. \E j \in Jobs :
        /\ job' \in [Handlers -> Jobs]
        /\ job'[h] = j /\ \A v \in Handlers \ {h} : job'[v] = job[v]
        /\ \/ j.step \in {"idle", "pruneList"}
           \/ /\ j.step = "archive"
              /\ j.todo = job[h].todo \ {c} /\ j.keys = job[h].keys \cup {c}
              /\ j.texts = job[h].texts /\ j.translations = job[h].translations
  BY <1>0, <1>a, <1>2, ArchivedType DEF At
<1>7. QED
  BY <1>0, <1>1, <1>2, <1>4, <1>5, <1>6

\* The row of a call that was put is updated, or is gone.
LEMMA UpdateFacts ==
    ASSUME TypeOK, Fits, NEW h \in Handlers, Update(h)
    PROVE  \E c \in job[h].keys :
             /\ c \in Calls /\ At(h, "archive") /\ Fits'
             /\ \/ /\ Visible(c)
                   /\ row' = [row EXCEPT ![c].transcript = FALSE, ![c].translated = FALSE,
                                         ![c].blob = TRUE]
                   /\ missed' = (IF row[c].translated /\ c \notin job[h].translations
                                 THEN missed \cup {c} ELSE missed)
                \/ UNCHANGED <<row, missed>>
             /\ \E j \in Jobs :
                  /\ job' \in [Handlers -> Jobs]
                  /\ job'[h] = j /\ \A v \in Handlers \ {h} : job'[v] = job[v]
                  /\ \/ j.step \in {"idle", "pruneList"}
                     \/ /\ j.step = "archive"
                        /\ j.todo = job[h].todo /\ j.keys = job[h].keys \ {c}
                        /\ j.texts = job[h].texts /\ j.translations = job[h].translations
<1>0. job[h].todo \subseteq Calls /\ job[h].keys \subseteq Calls /\ At(h, "archive")
      /\ UNCHANGED <<age, over, month>>
  BY JobTypes DEF TypeOK, Update
<1>1. PICK c \in job[h].keys : \E kind \in {"rest", job[h].kind} :
        /\ \/ /\ Visible(c)
              /\ row' = [row EXCEPT ![c].transcript = FALSE, ![c].translated = FALSE,
                                    ![c].blob = TRUE]
              /\ missed' = (IF row[c].translated /\ c \notin job[h].translations
                            THEN missed \cup {c} ELSE missed)
           \/ UNCHANGED <<row, missed>>
        /\ Archived(h, job[h].todo, job[h].keys \ {c}, kind)
  BY DEF Update
<1>2. PICK kind \in {"rest", job[h].kind} : Archived(h, job[h].todo, job[h].keys \ {c}, kind)
  BY <1>1
<1>3. c \in Calls /\ job[h].todo \in SUBSET Calls /\ job[h].keys \ {c} \in SUBSET Calls
  BY <1>0
<1>4. Fits'
  BY <1>0, <1>2, <1>3, ArchivedFits
<1>5. \E j \in Jobs :
        /\ job' \in [Handlers -> Jobs]
        /\ job'[h] = j /\ \A v \in Handlers \ {h} : job'[v] = job[v]
        /\ \/ j.step \in {"idle", "pruneList"}
           \/ /\ j.step = "archive"
              /\ j.todo = job[h].todo /\ j.keys = job[h].keys \ {c}
              /\ j.texts = job[h].texts /\ j.translations = job[h].translations
  BY <1>0, <1>2, <1>3, ArchivedType DEF At
<1>6. QED
  BY <1>0, <1>1, <1>3, <1>4, <1>5

\* An object of the batch is deleted, or is not and is left.
LEMMA DeletedFacts ==
    ASSUME TypeOK, Fits, NEW h \in Handlers, NEW c \in job[h].keys, Deleted(h, c),
           At(h, "deleteObjects"), UNCHANGED <<age, over, month>>
    PROVE  /\ Fits'
           /\ \E j \in Jobs :
                /\ job' \in [Handlers -> Jobs]
                /\ job'[h] = j /\ \A v \in Handlers \ {h} : job'[v] = job[v]
                /\ j.step \in Deleting /\ j.todo = job[h].todo /\ j.keys = job[h].keys \ {c}
<1> DEFINE s == IF job[h].keys = {c} THEN "deleteRows" ELSE job[h].step
           j == [job[h] EXCEPT !.keys = job[h].keys \ {c}, !.step = s]
<1>0. job[h] \in Jobs /\ JobFits(job[h]) /\ job[h].step = "deleteObjects"
  BY DEF TypeOK, Fits, At
<1>1. s \in Deleting /\ s \in Steps /\ (s \in Clear => job[h].keys \ {c} = {})
  BY <1>0 DEF Deleting, Steps, Clear
<1>2. Become(h, j)
  BY <1>0 DEF Deleted
<1> HIDE DEF s
<1>3. j \in Jobs /\ j.step = s /\ j.todo = job[h].todo /\ j.keys = job[h].keys \ {c}
      /\ j.months = job[h].months
  BY <1>0, <1>1 DEF Jobs
<1> HIDE DEF j
<1>4. job' \in [Handlers -> Jobs] /\ job'[h] = j /\ \A v \in Handlers \ {h} : job'[v] = job[v]
  BY <1>2, <1>3, BecomeType
<1>5. j.keys \subseteq j.todo /\ \A d \in j.todo : ~Retained(d)
  BY <1>0, <1>3 DEF JobFits, Deleting
<1>6. j.step \notin Viewing /\ j.step # "dropTable"
  BY <1>1, <1>3 DEF Deleting, Viewing
<1>7. Fits'
  BY <1>0, <1>1, <1>3, <1>4, <1>5, <1>6, FitsKept DEF JobFits
<1>8. QED
  BY <1>1, <1>3, <1>4, <1>7

\* What a view reads of an object.
LEMMA ReadFacts ==
    ASSUME TypeOK, Fits, NEW h \in Handlers, job[h].step \in Viewing,
           NEW s \in Viewing, Read(h, s), UNCHANGED <<age, over, month>>
    PROVE  /\ Fits'
           /\ \E j \in Jobs :
                /\ job' \in [Handlers -> Jobs]
                /\ job'[h] = j /\ \A v \in Handlers \ {h} : job'[v] = job[v]
                /\ j.step = s /\ j.call = job[h].call /\ j.blob = job[h].blob /\ j.kind = job[h].kind
                /\ object[job[h].call].there /\ object[job[h].call].transcript => j.texts # {}
<1> DEFINE c == job[h].call
           t == IF object[c].transcript THEN {c} ELSE {}
           l == IF object[c].translated THEN {c} ELSE {}
           j == IF object[c].there
                THEN [job[h] EXCEPT !.step = s, !.texts = t, !.translations = l]
                ELSE [job[h] EXCEPT !.step = s]
<1>0. job[h] \in Jobs /\ JobFits(job[h]) /\ c \in Calls /\ s \in Steps
  BY DEF TypeOK, Fits, JobFits, Viewing, Steps
<1>1. t \subseteq Calls /\ l \subseteq Calls /\ (object[c].transcript => t # {})
  BY <1>0
<1>2. Become(h, j)
  BY DEF Read
<1> HIDE DEF t, l
<1>3. j \in Jobs /\ j.step = s /\ j.call = c /\ j.months = job[h].months /\ j.blob = job[h].blob
      /\ j.kind = job[h].kind
  BY <1>0, <1>1 DEF Jobs
<1>4. object[c].there => j.texts = t
  BY <1>0 DEF Jobs
<1> HIDE DEF j
<1>5. job' \in [Handlers -> Jobs] /\ job'[h] = j /\ \A v \in Handlers \ {h} : job'[v] = job[v]
  BY <1>2, <1>3, BecomeType
<1>6. s \notin Deleting /\ s \notin Clear /\ s # "dropTable"
  BY DEF Viewing, Deleting, Clear
<1>7. Fits'
  BY <1>0, <1>3, <1>5, <1>6, FitsKept DEF JobFits, Deleting
<1>8. QED
  BY <1>0, <1>1, <1>3, <1>4, <1>5, <1>7

\* The calls that a sweep lists to be archived.
LEMMA ListFacts ==
    ASSUME TypeOK, Fits, NEW h \in Handlers, List(h)
    PROVE  /\ Fits'
           /\ \E j \in Jobs :
                /\ job' \in [Handlers -> Jobs]
                /\ job'[h] = j /\ \A v \in Handlers \ {h} : job'[v] = job[v]
                /\ j.step \in {"pruneList", "archive"}
                /\ j.todo = Candidates /\ j.keys = {}
                /\ j.texts = {c \in Candidates : row[c].transcript}
                /\ j.translations = {c \in Candidates : row[c].translated}
<1> DEFINE todo == Candidates
           t == {c \in Candidates : row[c].transcript}
           l == {c \in Candidates : row[c].translated}
           s == IF Candidates = {} THEN "pruneList" ELSE "archive"
           j == [job[h] EXCEPT !.todo = todo, !.texts = t, !.translations = l, !.step = s]
<1>0. job[h] \in Jobs /\ JobFits(job[h]) /\ job[h].keys = {}
  BY DEF TypeOK, Fits, JobFits, List, At, Clear
<1>1. todo \subseteq Calls /\ t \subseteq Calls /\ l \subseteq Calls
  BY DEF Candidates
<1>2. Become(h, j) /\ UNCHANGED <<age, over, month>>
  BY DEF List
<1>3. s \in {"pruneList", "archive"} /\ s \in Steps /\ s \notin Viewing /\ s \notin Deleting
      /\ s \notin Clear
  BY DEF Steps, Viewing, Deleting, Clear
<1> HIDE DEF todo, t, l, s
<1>4. j \in Jobs /\ j.todo = todo /\ j.keys = job[h].keys /\ j.texts = t /\ j.translations = l
      /\ j.step = s /\ j.months = job[h].months
  BY <1>0, <1>1, <1>3 DEF Jobs
<1> HIDE DEF j
<1>5. job' \in [Handlers -> Jobs] /\ job'[h] = j /\ \A v \in Handlers \ {h} : job'[v] = job[v]
  BY <1>2, <1>4, BecomeType
<1>6. Fits'
  BY <1>0, <1>2, <1>3, <1>4, <1>5, FitsKept DEF JobFits, Deleting
<1>7. QED
  BY <1>0, <1>3, <1>4, <1>5, <1>6 DEF todo, t, l

\* The calls that a sweep lists to be pruned have expired.
LEMMA PruneFacts ==
    ASSUME TypeOK, Fits, NEW h \in Handlers, PruneList(h)
    PROVE  /\ Fits'
           /\ \E j \in Jobs :
                /\ job' \in [Handlers -> Jobs]
                /\ job'[h] = j /\ \A v \in Handlers \ {h} : job'[v] = job[v]
                /\ \/ j.step = "idle"
                   \/ /\ j.step \in Deleting
                      /\ j.todo = {c \in Calls : Visible(c) /\ ~Retained(c)}
                      /\ j.keys = {c \in j.todo : row[c].blob}
                /\ stranded' = stranded \cup
                     {c \in Calls : Visible(c) /\ ~Retained(c) /\ ~row[c].blob /\ object[c].there}
<1> DEFINE doomed == {c \in Calls : Visible(c) /\ age[c] = "expired"}
           keys == {c \in doomed : row[c].blob}
           s == IF keys = {} THEN "deleteRows" ELSE "deleteObjects"
           j == [job[h] EXCEPT !.todo = doomed, !.keys = keys, !.step = s]
<1>0. job[h] \in Jobs /\ JobFits(job[h])
  BY DEF TypeOK, Fits
<1>1. doomed \subseteq Calls /\ keys \subseteq Calls /\ keys \subseteq doomed /\ (\A c \in doomed : ~Retained(c))
  BY DEF Retained
<1>2. Become(h, IF doomed = {} THEN Idle ELSE j) /\ UNCHANGED <<age, over, month>>
  BY DEF PruneList
<1>3. s \in Deleting /\ s \in Steps /\ s \notin Viewing /\ (s \in Clear => keys = {})
      /\ s # "dropTable"
  BY DEF Steps, Viewing, Deleting, Clear
<1>4. stranded' = stranded \cup
        {c \in Calls : Visible(c) /\ ~Retained(c) /\ ~row[c].blob /\ object[c].there}
  <2>1. stranded' = stranded \cup {c \in doomed \ keys : object[c].there}
    BY DEF PruneList
  <2>2. QED
    BY <2>1 DEF Retained
<1>5. doomed = {c \in Calls : Visible(c) /\ ~Retained(c)}
  BY DEF Retained
<1>6. keys = {c \in doomed : row[c].blob}
  OBVIOUS
<1> HIDE DEF doomed, keys, s
<1>7. j \in Jobs /\ j.todo = doomed /\ j.keys = keys /\ j.step = s /\ j.months = job[h].months
  BY <1>0, <1>1, <1>3 DEF Jobs
<1> HIDE DEF j
<1>8. CASE doomed = {}
  <2>1. Done(h)
    BY <1>2, <1>8 DEF Done
  <2>2. Fits'
    BY <1>2, <2>1, DoneFits
  <2>3. Idle.step = "idle" /\ Idle \in Jobs
    BY IdleType DEF Idle
  <2>4. QED
    BY <1>4, <2>1, <2>2, <2>3, DoneType
<1>9. CASE doomed # {}
  <2>1. job' \in [Handlers -> Jobs] /\ job'[h] = j /\ \A v \in Handlers \ {h} : job'[v] = job[v]
    BY <1>2, <1>7, <1>9, BecomeType
  <2>2. Fits'
    BY <1>0, <1>1, <1>2, <1>3, <1>7, <2>1, FitsKept DEF JobFits
  <2>3. QED
    BY <1>3, <1>4, <1>5, <1>6, <1>7, <2>1, <2>2
<1>10. QED
  BY <1>8, <1>9

\* A month is detached after it ended; its objects are stranded.
LEMMA DetachFacts ==
    ASSUME TypeOK, Fits, NEW h \in Handlers, Detach(h)
    PROVE  /\ Fits' /\ job' \in [Handlers -> Jobs] /\ month' \in [Months -> {"attached", "detached", "dropped"}]
           /\ \A v \in Handlers \ {h} : job'[v] = job[v]
           /\ job'[h].step \in {"idle", "dropTable"}
           /\ stranded \subseteq stranded' /\ stranded' \subseteq Calls
           /\ \A m \in Months : month'[m] = month[m]
                \/ (m \in over /\ month'[m] # "attached"
                    /\ \A c \in Calls : MonthOf[c] = m /\ object[c].there => c \in stranded')
<1>0. job[h] \in Jobs /\ JobFits(job[h]) /\ job[h].months \subseteq Months /\ job[h].months \subseteq over
      /\ UNCHANGED <<age, over>> /\ job[h].keys = {}
  BY JobTypes DEF TypeOK, Fits, JobFits, Detach, At, Clear
<1>1. PICK m \in job[h].months :
        IF month[m] = "attached"
        THEN /\ month' = [month EXCEPT ![m] = "detached"]
             /\ stranded' = stranded \cup {c \in Calls : MonthOf[c] = m /\ object[c].there}
             /\ Become(h, [job[h] EXCEPT !.step = "dropTable", !.months = @ \ {m}, !.month = m])
        ELSE Done(h) /\ UNCHANGED <<month, stranded>>
  BY DEF Detach
<1>2. CASE month[m] # "attached"
  <2>1. Done(h) /\ UNCHANGED <<month, stranded>>
    BY <1>1, <1>2
  <2>2. Fits'
    BY <1>0, <2>1, DoneFits
  <2>3. job' \in [Handlers -> Jobs] /\ job'[h].step = "idle" /\ \A v \in Handlers \ {h} : job'[v] = job[v]
    BY <2>1, DoneType DEF Idle
  <2>4. QED
    BY <2>1, <2>2, <2>3 DEF TypeOK
<1>3. CASE month[m] = "attached"
  <2> DEFINE j == [job[h] EXCEPT !.step = "dropTable", !.months = @ \ {m}, !.month = m]
  <2>1. /\ month' = [month EXCEPT ![m] = "detached"]
        /\ stranded' = stranded \cup {c \in Calls : MonthOf[c] = m /\ object[c].there}
        /\ Become(h, j)
    BY <1>1, <1>3
  <2>2. m \in Months /\ m \in over
    BY <1>0
  <2>3. j \in Jobs /\ j.step = "dropTable" /\ j.month = m /\ j.months \subseteq over
        /\ j.keys = {}
    BY <1>0, <2>2 DEF Jobs, Steps
  <2> HIDE DEF j
  <2>4. job' \in [Handlers -> Jobs] /\ job'[h] = j /\ \A v \in Handlers \ {h} : job'[v] = job[v]
    BY <2>1, <2>3, BecomeType
  <2>5. /\ month' \in [Months -> {"attached", "detached", "dropped"}]
        /\ month'[m] = "detached" /\ \A n \in Months \ {m} : month'[n] = month[n]
    BY <2>1, <2>2 DEF TypeOK
  <2>6. Fits'
    BY <1>0, <2>2, <2>3, <2>4, <2>5, FitsKept DEF Viewing, Deleting, Clear
  <2>7. QED
    BY <2>1, <2>2, <2>3, <2>4, <2>5, <2>6 DEF TypeOK
<1>4. QED
  BY <1>2, <1>3

\* A sweep starts, lists the months or drops one: nothing is under way.
LEMMA TurnFacts ==
    ASSUME TypeOK, Fits, NEW h \in Handlers, Sweep(h) \/ ListMonths(h) \/ DropTable(h)
    PROVE  /\ Fits' /\ job' \in [Handlers -> Jobs]
           /\ month' \in [Months -> {"attached", "detached", "dropped"}]
           /\ \A v \in Handlers \ {h} : job'[v] = job[v]
           /\ job'[h].step \in {"months", "detach", "list"}
           /\ \A m \in Months : month[m] # "attached" => month'[m] # "attached"
           /\ \A m \in Months : month[m] = "attached" => month'[m] = "attached"
<1>0. job[h] \in Jobs /\ JobFits(job[h]) /\ UNCHANGED <<age, over>>
      /\ month \in [Months -> {"attached", "detached", "dropped"}]
  BY DEF TypeOK, Fits, Sweep, ListMonths, DropTable
<1>1. CASE Sweep(h)
  <2> DEFINE j == [Idle EXCEPT !.step = "months", !.kind = "sweep"]
  <2>1. j \in Jobs /\ j.step = "months" /\ j.keys = {} /\ j.months = {}
    BY IdleType DEF Idle, Jobs, Steps
  <2>2. Become(h, j) /\ month' = month
    BY <1>1 DEF Sweep
  <2> HIDE DEF j
  <2>3. job' \in [Handlers -> Jobs] /\ job'[h] = j /\ \A v \in Handlers \ {h} : job'[v] = job[v]
    BY <2>1, <2>2, BecomeType
  <2>4. Fits'
    BY <1>0, <2>1, <2>2, <2>3, FitsKept DEF Viewing, Deleting, Clear
  <2>5. QED
    BY <1>0, <2>1, <2>2, <2>3, <2>4
<1>2. CASE ListMonths(h)
  <2> DEFINE due == {m \in over : month[m] = "attached"}
             s == IF due = {} THEN "list" ELSE "detach"
             j == [job[h] EXCEPT !.months = due, !.step = s]
  <2>1. s \in {"list", "detach"} /\ s \in Steps /\ due \subseteq over /\ due \subseteq Months
    BY DEF Steps, TypeOK
  <2>2. Become(h, j) /\ month' = month /\ job[h].keys = {}
    BY <1>0, <1>2 DEF ListMonths, At, JobFits, Clear
  <2> HIDE DEF due, s
  <2>3. j \in Jobs /\ j.step = s /\ j.keys = {} /\ j.months = due
    BY <1>0, <2>1, <2>2 DEF Jobs
  <2> HIDE DEF j
  <2>4. job' \in [Handlers -> Jobs] /\ job'[h] = j /\ \A v \in Handlers \ {h} : job'[v] = job[v]
    BY <2>2, <2>3, BecomeType
  <2>5. Fits'
    BY <1>0, <2>1, <2>2, <2>3, <2>4, FitsKept DEF Viewing, Deleting, Clear
  <2>6. QED
    BY <1>0, <2>1, <2>2, <2>3, <2>4, <2>5
<1>3. CASE DropTable(h)
  <2> DEFINE s == IF job[h].months = {} THEN "list" ELSE "detach"
             j == [job[h] EXCEPT !.month = NoMonth, !.step = s]
  <2>1. s \in {"list", "detach"} /\ s \in Steps
    BY DEF Steps
  <2>2. /\ Become(h, j) /\ job[h].keys = {} /\ job[h].months \subseteq over
        /\ job[h].month \in Months /\ month[job[h].month] # "attached"
        /\ month' = [month EXCEPT ![job[h].month] = "dropped"]
    BY <1>0, <1>3 DEF DropTable, At, JobFits, Clear
  <2> HIDE DEF s
  <2>3. j \in Jobs /\ j.step = s /\ j.keys = {} /\ j.months \subseteq over
    BY <1>0, <2>1, <2>2 DEF Jobs
  <2> HIDE DEF j
  <2>4. job' \in [Handlers -> Jobs] /\ job'[h] = j /\ \A v \in Handlers \ {h} : job'[v] = job[v]
    BY <2>2, <2>3, BecomeType
  <2>5. \A m \in Months : month'[m] = month[m] \/ (m \in over /\ month'[m] # "attached")
    BY <1>0, <2>2 DEF Fits, MonthsFit
  <2>6. Fits'
    BY <1>0, <2>1, <2>3, <2>4, <2>5, FitsKept DEF Viewing, Deleting, Clear
  <2>7. QED
    BY <1>0, <2>1, <2>2, <2>3, <2>4, <2>6
<1>4. QED
  BY <1>1, <1>2, <1>3

\* A view starts from the row it read.
LEMMA ViewFacts ==
    ASSUME TypeOK, Fits, NEW h \in Handlers, NEW c \in Calls, NEW kind \in {"portal", "public"},
           View(h, c, kind)
    PROVE  /\ Fits'
           /\ \E j \in Jobs :
                /\ job' \in [Handlers -> Jobs]
                /\ job'[h] = j /\ \A v \in Handlers \ {h} : job'[v] = job[v]
                /\ j.step \in {"hydrate", "translate"} /\ j.call = c /\ j.blob = row[c].blob
<1> DEFINE s == IF row[c].blob THEN "hydrate" ELSE "translate"
           t == IF row[c].transcript THEN {c} ELSE {}
           l == IF row[c].translated THEN {c} ELSE {}
           b == row[c].blob
           k == row[c].marker
           j == [Idle EXCEPT !.step = s, !.kind = kind, !.call = c, !.blob = b, !.marker = k,
                             !.texts = t, !.translations = l]
<1>1. s \in {"hydrate", "translate"} /\ s \in Steps /\ t \subseteq Calls /\ l \subseteq Calls
      /\ b \in BOOLEAN /\ k \in BOOLEAN
  BY DEF Steps, TypeOK
<1>2. Become(h, j) /\ UNCHANGED <<age, over, month>>
  BY DEF View
<1>3. b = row[c].blob
  OBVIOUS
<1> HIDE DEF s, t, l, b, k
<1>4. j \in Jobs /\ j.step = s /\ j.call = c /\ j.blob = b /\ j.months = {}
  BY <1>1, IdleType DEF Idle, Jobs
<1> HIDE DEF j
<1>5. job' \in [Handlers -> Jobs] /\ job'[h] = j /\ \A v \in Handlers \ {h} : job'[v] = job[v]
  BY <1>2, <1>4, BecomeType
<1>6. Fits'
  BY <1>1, <1>2, <1>4, <1>5, FitsKept DEF Deleting, Clear
<1>7. QED
  BY <1>1, <1>3, <1>4, <1>5, <1>6

\* A view goes on with what it read.
LEMMA GoFacts ==
    ASSUME TypeOK, Fits, NEW h \in Handlers, job[h].step \in Viewing, NEW s \in Viewing, Goto(h, s),
           UNCHANGED <<age, over, month>>
    PROVE  /\ Fits' /\ job' \in [Handlers -> Jobs]
           /\ \A v \in Handlers \ {h} : job'[v] = job[v]
           /\ job'[h].step = s /\ job'[h].call = job[h].call /\ job'[h].blob = job[h].blob
           /\ job'[h].kind = job[h].kind /\ job[h].call \in Calls
<1>1. s \in Steps \ (Deleting \cup Clear)
  BY DEF Viewing, Steps, Deleting, Clear
<1>2. Fits'
  BY <1>1, GotoFits DEF Clear
<1>3. job[h] \in Jobs /\ job[h].call \in Calls
  BY DEF TypeOK, Fits, JobFits
<1> DEFINE j == [job[h] EXCEPT !.step = s]
<1>4. j.step = s /\ j.call = job[h].call /\ j.blob = job[h].blob /\ j.kind = job[h].kind
  BY <1>3 DEF Jobs
<1>5. job' \in [Handlers -> Jobs] /\ job'[h] = j /\ \A v \in Handlers \ {h} : job'[v] = job[v]
  BY <1>1, GotoType
<1> HIDE DEF j
<1>6. QED
  BY <1>2, <1>3, <1>4, <1>5

\* A statement or a put of an archiving failed.
LEMMA FailFacts ==
    ASSUME TypeOK, Fits, NEW h \in Handlers, PutFails(h) \/ UpdateFails(h)
    PROVE  /\ Fits' /\ At(h, "archive")
           /\ \E j \in Jobs :
                /\ job' \in [Handlers -> Jobs]
                /\ job'[h] = j /\ \A v \in Handlers \ {h} : job'[v] = job[v]
                /\ \/ j.step \in {"idle", "pruneList"}
                   \/ /\ j.step = "archive"
                      /\ j.todo \subseteq job[h].todo /\ j.keys \subseteq job[h].keys
                      /\ j.texts = job[h].texts /\ j.translations = job[h].translations
<1>0. job[h].todo \subseteq Calls /\ job[h].keys \subseteq Calls /\ At(h, "archive")
      /\ UNCHANGED <<age, over, month>>
  BY JobTypes DEF TypeOK, PutFails, UpdateFails
<1>1. PICK todo \in SUBSET job[h].todo, keys \in SUBSET job[h].keys, kind \in {"rest", job[h].kind} :
        Archived(h, todo, keys, kind)
  <2>1. CASE PutFails(h)
    <3>1. PICK c \in job[h].todo : Archived(h, job[h].todo \ {c}, job[h].keys, job[h].kind)
      BY <2>1 DEF PutFails
    <3>2. QED
      BY <3>1
  <2>2. CASE UpdateFails(h)
    <3>1. PICK c \in job[h].keys : Archived(h, job[h].todo, job[h].keys \ {c}, "rest")
      BY <2>2 DEF UpdateFails
    <3>2. QED
      BY <3>1
  <2>3. QED
    BY <2>1, <2>2
<1>2. todo \in SUBSET Calls /\ keys \in SUBSET Calls /\ kind \in {"sweep", "rest", job[h].kind}
  BY <1>0
<1>3. Fits'
  BY <1>0, <1>1, <1>2, ArchivedFits
<1>4. At(h, "archive") /\ Archived(h, todo, keys, kind)
  BY <1>0, <1>1
<1>5. PICK j \in Jobs :
        /\ job' \in [Handlers -> Jobs]
        /\ job'[h] = j /\ \A v \in Handlers \ {h} : job'[v] = job[v]
        /\ \/ j.step \in {"idle", "pruneList"} /\ j.months = {}
           \/ /\ j.step = "archive" /\ j.todo = todo /\ j.keys = keys
              /\ j.texts = job[h].texts /\ j.translations = job[h].translations
  BY <1>2, <1>4, ArchivedType DEF At
<1>6. QED
  BY <1>0, <1>1, <1>3, <1>5

\* Calls age, and a month ends after every call of it has expired.
LEMMA TimeFacts ==
    ASSUME TypeOK, Fits, (\E c \in Calls : Ages(c)) \/ (\E m \in Months : MonthEnds(m))
    PROVE  TypeOK' /\ Fits' /\ (\A c \in Calls : Retained(c)' => Retained(c)) /\ UNCHANGED job
<1>1. CASE \E c \in Calls : Ages(c)
  <2>1. PICK c \in Calls : Ages(c)
    BY <1>1
  <2>2. age' \in [Calls -> {"young", "old", "expired"}]
        /\ \A d \in Calls : Retained(d)' => Retained(d)
    BY <2>1 DEF Ages, TypeOK, Retained
  <2>3. TypeOK' /\ UNCHANGED <<job, month, over>>
    BY <2>1, <2>2 DEF Ages, TypeOK, historyVars, Jobs
  <2>4. MonthsFit'
    BY <2>2, <2>3 DEF Fits, MonthsFit
  <2>5. ASSUME NEW v \in Handlers PROVE JobFits(job[v])'
    <3>1. job[v].todo \subseteq Calls
      BY JobTypes DEF TypeOK
    <3>2. QED
      BY <2>2, <2>3, <3>1 DEF Fits, JobFits
  <2>6. QED
    BY <2>2, <2>3, <2>4, <2>5 DEF Fits
<1>2. CASE \E m \in Months : MonthEnds(m)
  <2>1. PICK m \in Months : MonthEnds(m)
    BY <1>2
  <2>2. /\ UNCHANGED <<row, object, age, month, job, missed, masked, stranded, faults>>
        /\ over' = over \cup {m} /\ \A c \in Calls : MonthOf[c] = m => ~Retained(c)
    BY <2>1 DEF MonthEnds, historyVars, Retained
  <2>3. TypeOK'
    BY <2>2 DEF TypeOK, Jobs
  <2>4. MonthsFit'
    BY <2>2 DEF Fits, MonthsFit, Retained
  <2>5. ASSUME NEW v \in Handlers PROVE JobFits(job[v])'
    BY <2>2 DEF Fits, JobFits, Retained
  <2>6. QED
    BY <2>2, <2>4, <2>3, <2>5 DEF Fits, Retained
<1>3. QED
  BY <1>1, <1>2

\* An update empties the columns of a row.
LEMMA UpdateRow ==
    ASSUME TypeOK, NEW c \in Calls,
           row' = [row EXCEPT ![c].transcript = FALSE, ![c].translated = FALSE, ![c].blob = TRUE]
    PROVE  /\ row' \in [Calls -> RowType]
           /\ \A d \in Calls \ {c} : row'[d] = row[d]
           /\ row'[c].there = row[c].there /\ row'[c].marker = row[c].marker
           /\ row'[c].blob
<1> DEFINE r == [row[c] EXCEPT !.transcript = FALSE, !.translated = FALSE, !.blob = TRUE]
<1>1. row \in [Calls -> RowType]
  BY DEF TypeOK, RowType
<1>2. row' = [row EXCEPT ![c] = r]
  BY <1>1
<1>3. r \in RowType /\ r.there = row[c].there /\ r.marker = row[c].marker /\ r.blob
  BY <1>1 DEF RowType
<1> HIDE DEF r
<1>4. QED
  BY <1>1, <1>2, <1>3

\* A mark leaves the row's transcript and its reference.
LEMMA MarkRow ==
    ASSUME TypeOK, Fits, NEW h \in Handlers, Mark(h)
    PROVE  /\ job[h].call \in Calls /\ At(h, "mark")
           /\ row' \in [Calls -> RowType]
           /\ missed \subseteq missed' /\ missed' \subseteq Calls
           /\ masked \subseteq masked' /\ masked' \subseteq Calls
           /\ \A d \in Calls \ {job[h].call} : row'[d] = row[d]
           /\ \A d \in Calls : /\ row'[d].there = row[d].there /\ row'[d].blob = row[d].blob
                               /\ row'[d].transcript = row[d].transcript
           /\ \/ row'[job[h].call].marker = row[job[h].call].marker
                 /\ row'[job[h].call].translated = row[job[h].call].translated
              \/ /\ job[h].kind = "portal" /\ job[h].blob
                 /\ row'[job[h].call].translated = row[job[h].call].translated
              \/ /\ row'[job[h].call].translated
                 /\ row[job[h].call].blob /\ ~job[h].blob => job[h].call \in missed'
                 /\ job[h].blob => job[h].call \in masked'
<1> DEFINE c == job[h].call
           inObject == job[h].kind = "portal" /\ job[h].blob
           t == IF inObject THEN row[c].translated ELSE TRUE
           r == [row[c] EXCEPT !.marker = TRUE, !.translated = t]
<1>1. row \in [Calls -> RowType] /\ c \in Calls /\ At(h, "mark")
  BY DEF TypeOK, RowType, Mark, Fits, JobFits, At, Viewing
<1>2. CASE Visible(c)
  <2>1. /\ row' = [row EXCEPT ![c].marker = TRUE, ![c].translated = IF inObject THEN @ ELSE TRUE]
        /\ missed' = IF row[c].blob /\ ~job[h].blob THEN missed \cup {c} ELSE missed
        /\ masked' = IF job[h].blob /\ ~inObject THEN masked \cup {c} ELSE masked
    BY <1>2 DEF Mark
  <2>2. row' = [row EXCEPT ![c] = r]
    BY <1>1, <2>1
  <2>3. t \in BOOLEAN /\ (inObject => t = row[c].translated) /\ (~inObject => t)
    BY <1>1 DEF RowType
  <2> HIDE DEF t
  <2>4. /\ r \in RowType /\ r.there = row[c].there /\ r.blob = row[c].blob
        /\ r.transcript = row[c].transcript /\ r.translated = t
    BY <1>1, <2>3 DEF RowType
  <2> HIDE DEF r
  <2>5. /\ row' \in [Calls -> RowType] /\ row'[c] = r
        /\ \A d \in Calls \ {c} : row'[d] = row[d]
    BY <1>1, <2>2, <2>4
  <2>6. CASE inObject
    <3>1. /\ missed \subseteq missed' /\ missed' \subseteq Calls
          /\ masked \subseteq masked' /\ masked' \subseteq Calls
      BY <1>1, <2>1 DEF TypeOK
    <3>2. QED
      BY <1>1, <2>3, <2>4, <2>5, <2>6, <3>1
  <2>7. CASE ~inObject
    <3>1. /\ missed \subseteq missed' /\ missed' \subseteq Calls
          /\ masked \subseteq masked' /\ masked' \subseteq Calls
          /\ (row[c].blob /\ ~job[h].blob => c \in missed') /\ (job[h].blob => c \in masked')
      BY <1>1, <2>1, <2>7 DEF TypeOK
    <3>2. QED
      BY <1>1, <2>3, <2>4, <2>5, <2>7, <3>1
  <2>8. QED
    BY <2>6, <2>7
<1>3. CASE ~Visible(c)
  <2>1. UNCHANGED <<row, missed, masked>>
    BY <1>3 DEF Mark
  <2>2. QED
    BY <1>1, <2>1 DEF TypeOK
<1>4. QED
  BY <1>2, <1>3

LEMMA FaultType ==
    ASSUME TypeOK, Fault
    PROVE  faults' \in 0..MaxFaults
BY ArchiveAssumption DEF TypeOK, Fault, ArchiveAssumption

\* Every step keeps the types, the months and what the handlers carry.
LEMMA StepFits ==
    ASSUME TypeOK, Fits, [Next]_vars
    PROVE  TypeOK' /\ Fits'
<1> USE DEF RowType, ObjectType
<1>0. ASSUME UNCHANGED vars PROVE TypeOK' /\ Fits'
  <2>1. UNCHANGED <<row, object, age, month, over, job, missed, masked, stranded, faults>>
    BY <1>0 DEF vars, historyVars
  <2>2. TypeOK'
    BY <2>1 DEF TypeOK, Jobs
  <2>3. MonthsFit'
    BY <2>1 DEF Fits, MonthsFit, Retained
  <2>4. ASSUME NEW v \in Handlers PROVE JobFits(job[v])'
    BY <2>1 DEF Fits, JobFits, Retained
  <2>5. QED
    BY <2>2, <2>3, <2>4 DEF Fits
<1>1. ASSUME (\E c \in Calls : Ages(c)) \/ (\E m \in Months : MonthEnds(m))
      PROVE  TypeOK' /\ Fits'
  BY <1>1, TimeFacts
<1>2. ASSUME NEW h \in Handlers, Sweep(h) \/ ListMonths(h) \/ DropTable(h)
      PROVE  TypeOK' /\ Fits'
  <2>1. UNCHANGED <<row, object, age, over, missed, masked, stranded, faults>>
    BY <1>2 DEF Sweep, ListMonths, DropTable, historyVars
  <2>2. QED
    BY <1>2, <2>1, TurnFacts DEF TypeOK
<1>3. ASSUME NEW h \in Handlers, Detach(h) PROVE TypeOK' /\ Fits'
  <2>1. UNCHANGED <<row, object, age, over, missed, masked, faults>>
    BY <1>3 DEF Detach
  <2>2. QED
    BY <1>3, <2>1, DetachFacts DEF TypeOK
<1>4. ASSUME NEW h \in Handlers, List(h) PROVE TypeOK' /\ Fits'
  <2>1. UNCHANGED <<row, object, age, month, over, missed, masked, stranded, faults>>
    BY <1>4 DEF List, historyVars
  <2>2. QED
    BY <1>4, <2>1, ListFacts DEF TypeOK
<1>5. ASSUME NEW h \in Handlers, Put(h) PROVE TypeOK' /\ Fits'
  <2>1. UNCHANGED <<row, age, month, over, masked, faults>>
    BY <1>5 DEF Put
  <2>2. stranded' \subseteq Calls /\ missed' \subseteq Calls
    BY <1>5, PutFacts, HistoryType DEF TypeOK
  <2>3. QED
    BY <1>5, <2>1, <2>2, PutFacts DEF TypeOK
<1>6. ASSUME NEW h \in Handlers, Update(h) PROVE TypeOK' /\ Fits'
  <2>1. UNCHANGED <<object, age, month, over, masked, stranded, faults>>
    BY <1>6 DEF Update
  <2>2. row' \in [Calls -> RowType] /\ missed' \subseteq Calls
    <3>1. row \in [Calls -> RowType] /\ missed \subseteq Calls
      BY DEF TypeOK
    <3> HIDE DEF RowType
    <3>2. QED
      BY <1>6, <3>1, UpdateFacts, UpdateRow
  <2>3. QED
    BY <1>6, <2>1, <2>2, UpdateFacts DEF TypeOK
<1>7. ASSUME NEW h \in Handlers, PruneList(h) PROVE TypeOK' /\ Fits'
  <2>1. UNCHANGED <<row, object, age, month, over, missed, masked, faults>>
    BY <1>7 DEF PruneList
  <2>2. QED
    BY <1>7, <2>1, PruneFacts DEF TypeOK
<1>8. ASSUME NEW h \in Handlers, DeleteObject(h) PROVE TypeOK' /\ Fits'
  <2>1. UNCHANGED <<row, age, month, over, missed, masked, stranded, faults>> /\ At(h, "deleteObjects")
    BY <1>8 DEF DeleteObject, historyVars
  <2>2. PICK c \in job[h].keys : object' = [object EXCEPT ![c] = NoObject] /\ Deleted(h, c)
    BY <1>8 DEF DeleteObject
  <2>3. object' \in [Calls -> ObjectType]
    BY <2>2, IdleType DEF TypeOK
  <2>4. QED
    BY <2>1, <2>2, <2>3, DeletedFacts DEF TypeOK
<1>9. ASSUME NEW h \in Handlers, DeleteRows(h) PROVE TypeOK' /\ Fits'
  <2>1. UNCHANGED <<object, age, month, over, missed, masked, stranded, faults>> /\ Done(h)
    BY <1>9 DEF DeleteRows, historyVars
  <2>2. row' = [c \in Calls |-> IF c \in job[h].todo /\ Visible(c)
                                THEN [row[c] EXCEPT !.there = FALSE] ELSE row[c]]
    BY <1>9 DEF DeleteRows
  <2>3. row' \in [Calls -> RowType]
    BY <2>2 DEF TypeOK
  <2>4. QED
    BY <2>1, <2>3, DoneFits, DoneType DEF TypeOK
<1>10. ASSUME NEW h \in Handlers, Hydrate(h) \/ CacheGet(h) PROVE TypeOK' /\ Fits'
  <2>1. /\ UNCHANGED <<row, object, age, month, over, missed, masked, stranded, faults>>
        /\ job[h].step \in Viewing
        /\ \E s \in Viewing : Read(h, s)
    BY <1>10 DEF Hydrate, CacheGet, historyVars, At, Viewing
  <2>2. QED
    BY <2>1, ReadFacts DEF TypeOK
<1>11. ASSUME NEW h \in Handlers, Translate(h) PROVE TypeOK' /\ Fits'
  <2>1. /\ UNCHANGED <<row, object, age, month, over, missed, masked, stranded, faults>>
        /\ job[h].step \in Viewing
        /\ (\E s \in Viewing : Goto(h, s)) \/ Done(h)
    BY <1>11 DEF Translate, historyVars, At, Viewing
  <2>2. CASE \E s \in Viewing : Goto(h, s)
    BY <2>1, <2>2, GoFacts DEF TypeOK
  <2>3. CASE Done(h)
    BY <2>1, <2>3, DoneFits, DoneType DEF TypeOK
  <2>4. QED
    BY <2>1, <2>2, <2>3
<1>12. ASSUME NEW h \in Handlers, CachePut(h) PROVE TypeOK' /\ Fits'
  <2> DEFINE c == job[h].call
             o == [there |-> TRUE, translated |-> TRUE, transcript |-> job[h].texts # {}]
  <2>1. /\ UNCHANGED <<row, age, month, over, missed, masked, faults>> /\ Goto(h, "mark")
        /\ job[h].step \in Viewing /\ "mark" \in Viewing /\ Strands(h, c)
        /\ object' = [object EXCEPT ![c] = o]
    BY <1>12 DEF CachePut, At, Viewing
  <2>2. o \in ObjectType
    OBVIOUS
  <2> HIDE DEF o
  <2>3. Fits' /\ job' \in [Handlers -> Jobs] /\ c \in Calls
    BY <2>1, GoFacts
  <2>4. object' \in [Calls -> ObjectType]
    BY <2>1, <2>2, <2>3, ObjectType1
  <2>5. stranded' \subseteq Calls
    BY <2>1, <2>3, HistoryType
  <2>6. QED
    BY <2>1, <2>3, <2>4, <2>5 DEF TypeOK
<1>13. ASSUME NEW h \in Handlers, Mark(h) PROVE TypeOK' /\ Fits'
  <2>1. UNCHANGED <<object, age, month, over, stranded, faults>> /\ Done(h) /\ job[h].call \in Calls
    BY <1>13 DEF Mark, Fits, JobFits, At, Viewing
  <2>2. row' \in [Calls -> RowType] /\ missed' \subseteq Calls /\ masked' \subseteq Calls
    BY <1>13, MarkRow
  <2>3. QED
    BY <2>1, <2>2, DoneFits, DoneType DEF TypeOK
<1>14. ASSUME NEW h \in Handlers, NEW c \in Calls, NEW kind \in {"portal", "public"},
              View(h, c, kind)
       PROVE  TypeOK' /\ Fits'
  <2>1. UNCHANGED <<row, object, age, month, over, missed, masked, stranded, faults>>
    BY <1>14 DEF View, historyVars
  <2>2. QED
    BY <1>14, <2>1, ViewFacts DEF TypeOK
<1>15. ASSUME NEW h \in Handlers, PutFails(h) \/ UpdateFails(h) PROVE TypeOK' /\ Fits'
  <2>1. UNCHANGED <<row, object, age, month, over, missed, masked, stranded>> /\ Fault
    BY <1>15 DEF PutFails, UpdateFails, historyVars
  <2>2. QED
    BY <1>15, <2>1, FailFacts, FaultType DEF TypeOK
<1>16. ASSUME NEW h \in Handlers, DeleteFails(h) PROVE TypeOK' /\ Fits'
  <2>1. UNCHANGED <<row, object, age, month, over, missed, masked>> /\ At(h, "deleteObjects") /\ Fault
    BY <1>16 DEF DeleteFails
  <2>2. PICK c \in job[h].keys : Deleted(h, c) /\ stranded' = stranded \cup {c}
    BY <1>16 DEF DeleteFails
  <2>3. c \in Calls
    BY JobTypes DEF TypeOK
  <2>4. QED
    BY <2>1, <2>2, <2>3, DeletedFacts, FaultType DEF TypeOK
<1>17. ASSUME NEW h \in Handlers, GetFails(h) PROVE TypeOK' /\ Fits'
  <2>1. /\ UNCHANGED <<row, object, age, month, over, masked, stranded>> /\ Fault
        /\ missed' = missed \cup {job[h].call}
        /\ job[h].step \in Viewing
        /\ \E s \in Viewing : Goto(h, s)
    BY <1>17 DEF GetFails, At, Viewing
  <2>2. QED
    BY <2>1, GoFacts, FaultType DEF TypeOK
<1>18. ASSUME NEW h \in Handlers, Crash(h) PROVE TypeOK' /\ Fits'
  <2>1. UNCHANGED <<row, object, age, month, over, missed, masked, stranded>> /\ Fault /\ Done(h)
    BY <1>18 DEF Crash, historyVars
  <2>2. QED
    BY <2>1, DoneFits, DoneType, FaultType DEF TypeOK
<1>19. QED
  BY <1>0, <1>1, <1>2, <1>3, <1>4, <1>5, <1>6, <1>7, <1>8, <1>9, <1>10, <1>11, <1>12, <1>13,
     <1>14, <1>15, <1>16, <1>17, <1>18 DEF Next, HandlerStep

--------------------------------------------------------------------------------
(* Transcripts.                                                            *)

\* No step takes the object of a retained call away, and what one handler
\* carries says nothing of another's.
LEMMA WholeKept ==
    ASSUME TypeOK, TypeOK', WholeInv, NEW h \in Handlers,
           \A v \in Handlers \ {h} : job'[v] = job[v],
           \A c \in Calls : Retained(c)' => Retained(c),
           \A v \in Handlers : At(v, "cachePut") => job[v].call \in Calls,
           \A c \in Calls : Retained(c) /\ object[c].there => object'[c].there,
           RowsFit', Carried(h)'
    PROVE  WholeInv'
<1>1. ASSUME NEW v \in Handlers \ {h} PROVE Carried(v)'
  <2>1. Carried(v) /\ job'[v] = job[v] /\ (At(v, "cachePut") => job[v].call \in Calls)
    BY DEF WholeInv
  <2>2. job[v].keys \subseteq Calls
    BY JobTypes DEF TypeOK
  <2>3. QED
    BY <2>1, <2>2 DEF Carried, At
<1>2. QED
  BY <1>1 DEF WholeInv

\* The rows and objects of retained calls are what they were.
LEMMA WholeQuiet ==
    ASSUME TypeOK, TypeOK', Fits, WholeInv, NEW h \in Handlers,
           \A v \in Handlers \ {h} : job'[v] = job[v],
           UNCHANGED age,
           \A c \in Calls : Retained(c) => row'[c] = row[c] /\ object'[c] = object[c],
           Carried(h)'
    PROVE  WholeInv'
<1>1. RowsFit'
  BY DEF WholeInv, RowsFit, Retained
<1>2. \A v \in Handlers : At(v, "cachePut") => job[v].call \in Calls
  BY DEF Fits, JobFits, At, Viewing
<1>3. QED
  BY <1>1, <1>2, WholeKept DEF Retained

\* A handler that neither archives nor caches carries nothing.
LEMMA NotCarrying ==
    ASSUME NEW h \in Handlers, job'[h].step \notin {"archive", "cachePut"}
    PROVE  Carried(h)'
BY DEF Carried, At

LEMMA WholeStep ==
    ASSUME TypeOK, TypeOK', Fits, WholeInv, [Next]_vars
    PROVE  WholeInv'
<1> USE DEF RowType, ObjectType
<1>a. \A v \in Handlers : At(v, "cachePut") => job[v].call \in Calls
  BY DEF Fits, JobFits, At, Viewing
<1>b. "idle" \notin {"archive", "cachePut"} /\ Idle.step = "idle"
  BY DEF Idle
<1>0. ASSUME UNCHANGED vars PROVE WholeInv'
  <2>1. UNCHANGED <<row, object, age, job>>
    BY <1>0 DEF vars
  <2>2. QED
    BY <2>1 DEF WholeInv, RowsFit, Carried, At, Retained
<1>1. ASSUME (\E c \in Calls : Ages(c)) \/ (\E m \in Months : MonthEnds(m))
      PROVE  WholeInv'
  <2>1. (\A c \in Calls : Retained(c)' => Retained(c)) /\ UNCHANGED <<row, object, job>>
    BY <1>1, TimeFacts DEF Ages, MonthEnds
  <2>2. RowsFit'
    BY <2>1 DEF WholeInv, RowsFit
  <2>3. ASSUME NEW v \in Handlers PROVE Carried(v)'
    BY <1>a, <2>1 DEF WholeInv, Carried, At
  <2>4. QED
    BY <2>2, <2>3 DEF WholeInv
<1>2. ASSUME NEW h \in Handlers, Sweep(h) \/ ListMonths(h) \/ DropTable(h) \/ Detach(h)
      PROVE  WholeInv'
  <2>1. UNCHANGED <<row, object, age>>
    BY <1>2 DEF Sweep, ListMonths, DropTable, Detach
  <2>2. /\ \A v \in Handlers \ {h} : job'[v] = job[v]
        /\ job'[h].step \notin {"archive", "cachePut"}
    BY <1>2, TurnFacts, DetachFacts
  <2>3. QED
    BY <2>1, <2>2, NotCarrying, WholeQuiet
<1>4. ASSUME NEW h \in Handlers, List(h) PROVE WholeInv'
  <2>1. UNCHANGED <<row, object, age>>
    BY <1>4 DEF List
  <2>2. PICK j \in Jobs :
          /\ job'[h] = j /\ \A v \in Handlers \ {h} : job'[v] = job[v]
          /\ j.step \in {"pruneList", "archive"} /\ j.todo = Candidates /\ j.keys = {}
          /\ j.texts = {c \in Candidates : row[c].transcript}
    BY <1>4, ListFacts
  <2>3. \A c \in Calls : c \in Candidates /\ Retained(c) => row[c].transcript
    BY DEF Candidates, WholeInv, RowsFit
  <2>4. Carried(h)'
    BY <2>1, <2>2, <2>3 DEF Carried, At, Retained
  <2>5. QED
    BY <2>1, <2>2, <2>4, WholeQuiet
<1>5. ASSUME NEW h \in Handlers, Put(h) PROVE WholeInv'
  <2>1. UNCHANGED <<row, age>>
    BY <1>5 DEF Put
  <2>2. PICK c \in job[h].todo :
          /\ c \in Calls /\ At(h, "archive")
          /\ object' = [object EXCEPT ![c] = [there |-> TRUE, transcript |-> c \in job[h].texts,
                                              translated |-> c \in job[h].translations]]
          /\ \E j \in Jobs :
               /\ job'[h] = j /\ \A v \in Handlers \ {h} : job'[v] = job[v]
               /\ \/ j.step \in {"idle", "pruneList"}
                  \/ /\ j.step = "archive"
                     /\ j.todo = job[h].todo \ {c} /\ j.keys = job[h].keys \cup {c}
                     /\ j.texts = job[h].texts
    BY <1>5, PutFacts
  <2>3. PICK j \in Jobs :
          /\ job'[h] = j /\ \A v \in Handlers \ {h} : job'[v] = job[v]
          /\ \/ j.step \in {"idle", "pruneList"}
             \/ /\ j.step = "archive"
                /\ j.todo = job[h].todo \ {c} /\ j.keys = job[h].keys \cup {c}
                /\ j.texts = job[h].texts
    BY <2>2
  <2>4. /\ object'[c].there /\ (Retained(c) => object'[c].transcript)
        /\ \A d \in Calls \ {c} : object'[d] = object[d]
    <3> DEFINE o == [there |-> TRUE, transcript |-> c \in job[h].texts,
                     translated |-> c \in job[h].translations]
    <3>1. object' = [object EXCEPT ![c] = o] /\ object \in [Calls -> ObjectType] /\ c \in Calls
      BY <2>2 DEF TypeOK
    <3>2. o.there /\ (c \in job[h].texts => o.transcript)
      OBVIOUS
    <3> HIDE DEF o
    <3>3. Retained(c) => c \in job[h].texts
      BY <2>2 DEF WholeInv, Carried
    <3>4. QED
      BY <3>1, <3>2, <3>3
  <2>5. RowsFit'
    BY <2>1, <2>4 DEF WholeInv, RowsFit, Retained
  <2>6. Carried(h) /\ At(h, "archive")
    BY <2>2 DEF WholeInv
  <2>7. Carried(h)'
    BY <2>1, <2>3, <2>4, <2>6 DEF Carried, At, Retained
  <2>8. \A d \in Calls : (Retained(d)' => Retained(d)) /\ (object[d].there => object'[d].there)
    BY <2>1, <2>4 DEF Retained
  <2>9. QED
    BY <1>a, <2>3, <2>5, <2>7, <2>8, WholeKept
<1>6. ASSUME NEW h \in Handlers, Update(h) PROVE WholeInv'
  <2>1. UNCHANGED <<object, age>>
    BY <1>6 DEF Update
  <2>2. PICK c \in job[h].keys :
          /\ c \in Calls /\ At(h, "archive")
          /\ \/ row' = [row EXCEPT ![c].transcript = FALSE, ![c].translated = FALSE,
                                   ![c].blob = TRUE]
             \/ UNCHANGED row
          /\ \E j \in Jobs :
               /\ job'[h] = j /\ \A v \in Handlers \ {h} : job'[v] = job[v]
               /\ \/ j.step \in {"idle", "pruneList"}
                  \/ /\ j.step = "archive" /\ j.todo = job[h].todo /\ j.keys = job[h].keys \ {c}
                     /\ j.texts = job[h].texts
    BY <1>6, UpdateFacts
  <2>3. PICK j \in Jobs :
          /\ job'[h] = j /\ \A v \in Handlers \ {h} : job'[v] = job[v]
          /\ \/ j.step \in {"idle", "pruneList"}
             \/ /\ j.step = "archive" /\ j.todo = job[h].todo /\ j.keys = job[h].keys \ {c}
                /\ j.texts = job[h].texts
    BY <2>2
  <2>4. Carried(h) /\ At(h, "archive")
    BY <2>2 DEF WholeInv
  <2>5. /\ \A d \in Calls \ {c} : row'[d] = row[d]
        /\ row'[c].there = row[c].there /\ (row'[c].blob \/ row'[c] = row[c])
    BY <2>2, UpdateRow
  <2>6. Retained(c) => object[c].there
    BY <2>2, <2>4 DEF Carried
  <2>7. RowsFit'
    BY <2>1, <2>5, <2>6 DEF WholeInv, RowsFit, Retained
  <2>8. Carried(h)'
    BY <2>1, <2>3, <2>4 DEF Carried, At, Retained
  <2>9. QED
    BY <1>a, <2>1, <2>3, <2>7, <2>8, WholeKept DEF Retained
<1>7. ASSUME NEW h \in Handlers, PruneList(h) PROVE WholeInv'
  <2>1. UNCHANGED <<row, object, age>>
    BY <1>7 DEF PruneList
  <2>2. /\ \A v \in Handlers \ {h} : job'[v] = job[v]
        /\ job'[h].step \notin {"archive", "cachePut"}
    BY <1>7, PruneFacts DEF Deleting
  <2>3. QED
    BY <2>1, <2>2, NotCarrying, WholeQuiet
<1>8. ASSUME NEW h \in Handlers, DeleteObject(h) \/ DeleteFails(h) PROVE WholeInv'
  <2>1. UNCHANGED <<row, age, month, over>> /\ At(h, "deleteObjects")
    BY <1>8 DEF DeleteObject, DeleteFails
  <2>2. PICK c \in job[h].keys :
          (object' = [object EXCEPT ![c] = NoObject] \/ UNCHANGED object) /\ Deleted(h, c)
    BY <1>8 DEF DeleteObject, DeleteFails
  <2>3. ~Retained(c)
    BY <2>1 DEF Fits, JobFits, At, Deleting
  <2>4. \A d \in Calls : Retained(d) => object'[d] = object[d]
    BY <2>2, <2>3 DEF TypeOK
  <2>5. /\ \A v \in Handlers \ {h} : job'[v] = job[v]
        /\ job'[h].step \notin {"archive", "cachePut"}
    BY <2>1, <2>2, DeletedFacts DEF Deleting
  <2>6. QED
    BY <2>1, <2>4, <2>5, NotCarrying, WholeQuiet
<1>9. ASSUME NEW h \in Handlers, DeleteRows(h) PROVE WholeInv'
  <2>1. UNCHANGED <<object, age>> /\ Done(h) /\ At(h, "deleteRows")
    BY <1>9 DEF DeleteRows
  <2>2. \A c \in Calls : c \in job[h].todo => ~Retained(c)
    BY <2>1 DEF Fits, JobFits, At, Deleting
  <2>3. row' = [c \in Calls |-> IF c \in job[h].todo /\ Visible(c)
                                THEN [row[c] EXCEPT !.there = FALSE] ELSE row[c]]
    BY <1>9 DEF DeleteRows
  <2>4. \A c \in Calls : Retained(c) => row'[c] = row[c]
    BY <2>2, <2>3
  <2>5. QED
    BY <1>b, <2>1, <2>4, DoneType, NotCarrying, WholeQuiet
<1>10. ASSUME NEW h \in Handlers, Hydrate(h) \/ CacheGet(h) PROVE WholeInv'
  <2>1. /\ UNCHANGED <<row, object, age, month, over>> /\ job[h].step \in Viewing
        /\ \E s \in Viewing : Read(h, s) /\ (s = "cachePut" => object[job[h].call].there)
    BY <1>10 DEF Hydrate, CacheGet, At, Viewing
  <2>2. PICK s \in Viewing : Read(h, s) /\ (s = "cachePut" => object[job[h].call].there)
    BY <2>1
  <2>3. PICK j \in Jobs :
          /\ job'[h] = j /\ \A v \in Handlers \ {h} : job'[v] = job[v]
          /\ j.step = s /\ j.call = job[h].call
          /\ object[job[h].call].there /\ object[job[h].call].transcript => j.texts # {}
    BY <2>1, <2>2, ReadFacts
  <2>4. job[h].call \in Calls
    BY <2>1 DEF Fits, JobFits
  <2>5. Carried(h)'
    BY <2>1, <2>2, <2>3, <2>4 DEF Carried, At, WholeInv, RowsFit, Retained, Viewing
  <2>6. QED
    BY <2>1, <2>3, <2>5, WholeQuiet
<1>11. ASSUME NEW h \in Handlers, Translate(h) \/ GetFails(h) PROVE WholeInv'
  <2>1. /\ UNCHANGED <<row, object, age, month, over>> /\ job[h].step \in Viewing
        /\ (\E s \in Viewing \ {"cachePut"} : Goto(h, s)) \/ Done(h)
    BY <1>11 DEF Translate, GetFails, At, Viewing
  <2>2. CASE \E s \in Viewing \ {"cachePut"} : Goto(h, s)
    <3>1. PICK s \in Viewing \ {"cachePut"} : Goto(h, s)
      BY <2>2
    <3>2. (\A v \in Handlers \ {h} : job'[v] = job[v]) /\ job'[h].step = s
      BY <2>1, <3>1, GoFacts
    <3>3. Carried(h)'
      BY <3>2, NotCarrying DEF Viewing
    <3>4. QED
      BY <2>1, <3>2, <3>3, WholeQuiet
  <2>3. CASE Done(h)
    BY <1>b, <2>1, <2>3, DoneType, NotCarrying, WholeQuiet
  <2>4. QED
    BY <2>1, <2>2, <2>3
<1>12. ASSUME NEW h \in Handlers, CachePut(h) PROVE WholeInv'
  <2> DEFINE c == job[h].call
             o == [there |-> TRUE, translated |-> TRUE, transcript |-> job[h].texts # {}]
  <2>1. /\ UNCHANGED <<row, age, month, over>> /\ Goto(h, "mark") /\ At(h, "cachePut")
        /\ job[h].step \in Viewing /\ "mark" \in Viewing
        /\ object' = [object EXCEPT ![c] = o]
    BY <1>12 DEF CachePut, At, Viewing
  <2>2. (\A v \in Handlers \ {h} : job'[v] = job[v]) /\ job'[h].step = "mark" /\ c \in Calls
    BY <2>1, GoFacts
  <2>3. /\ object'[c].there /\ (Retained(c) => object'[c].transcript)
        /\ \A d \in Calls \ {c} : object'[d] = object[d]
    <3>1. object' = [object EXCEPT ![c] = o] /\ object \in [Calls -> ObjectType] /\ c \in Calls
      BY <2>1, <2>2 DEF TypeOK
    <3>2. o.there /\ (job[h].texts # {} => o.transcript)
      OBVIOUS
    <3> HIDE DEF o
    <3>3. Retained(c) => job[h].texts # {}
      BY <2>1 DEF WholeInv, Carried
    <3>4. QED
      BY <3>1, <3>2, <3>3
  <2>4. RowsFit'
    BY <2>1, <2>3 DEF WholeInv, RowsFit, Retained
  <2>5. \A d \in Calls : (Retained(d)' => Retained(d)) /\ (object[d].there => object'[d].there)
    BY <2>1, <2>3 DEF Retained
  <2>6. QED
    BY <1>a, <2>2, <2>4, <2>5, NotCarrying, WholeKept
<1>13. ASSUME NEW h \in Handlers, Mark(h) PROVE WholeInv'
  <2>1. UNCHANGED <<object, age>> /\ Done(h)
    BY <1>13 DEF Mark
  <2>2. RowsFit'
    BY <1>13, <2>1, MarkRow DEF WholeInv, RowsFit, Retained
  <2>3. QED
    BY <1>a, <1>b, <2>1, <2>2, DoneType, NotCarrying, WholeKept DEF Retained
<1>14. ASSUME NEW h \in Handlers, NEW c \in Calls, NEW kind \in {"portal", "public"},
              View(h, c, kind)
       PROVE  WholeInv'
  <2>1. UNCHANGED <<row, object, age>>
    BY <1>14 DEF View
  <2>2. /\ \A v \in Handlers \ {h} : job'[v] = job[v]
        /\ job'[h].step \notin {"archive", "cachePut"}
    BY <1>14, ViewFacts
  <2>3. QED
    BY <2>1, <2>2, NotCarrying, WholeQuiet
<1>15. ASSUME NEW h \in Handlers, PutFails(h) \/ UpdateFails(h) PROVE WholeInv'
  <2>1. UNCHANGED <<row, object, age>>
    BY <1>15 DEF PutFails, UpdateFails
  <2>2. PICK j \in Jobs :
          /\ job'[h] = j /\ \A v \in Handlers \ {h} : job'[v] = job[v]
          /\ \/ j.step \in {"idle", "pruneList"}
             \/ /\ j.step = "archive" /\ j.todo \subseteq job[h].todo /\ j.keys \subseteq job[h].keys
                /\ j.texts = job[h].texts
    BY <1>15, FailFacts
  <2>3. Carried(h) /\ At(h, "archive")
    BY <1>15, FailFacts DEF WholeInv
  <2>4. Carried(h)'
    BY <2>1, <2>2, <2>3 DEF Carried, At, Retained
  <2>5. QED
    BY <2>1, <2>2, <2>4, WholeQuiet
<1>18. ASSUME NEW h \in Handlers, Crash(h) PROVE WholeInv'
  <2>1. UNCHANGED <<row, object, age>> /\ Done(h)
    BY <1>18 DEF Crash
  <2>2. QED
    BY <1>b, <2>1, DoneType, NotCarrying, WholeQuiet
<1>19. QED
  BY <1>0, <1>1, <1>2, <1>4, <1>5, <1>6, <1>7, <1>8, <1>9, <1>10, <1>11, <1>12, <1>13,
     <1>14, <1>15, <1>18 DEF Next, HandlerStep

--------------------------------------------------------------------------------
(* Objects without a row.                                                  *)

LeftInv == NoObjectLeft /\ PruneInv

\* A step that puts no object and takes no row.
LEMMA LeftKept ==
    ASSUME TypeOK, LeftInv, NEW h \in Handlers,
           \A v \in Handlers \ {h} : job'[v] = job[v],
           \A c \in Calls : object'[c].there => object[c].there,
           \A c \in Calls : ~Visible(c)' /\ object'[c].there => ~Visible(c) \/ c \in stranded',
           stranded \subseteq stranded',
           job'[h].step \in Deleting => \A c \in job'[h].todo :
               c \in Calls /\ (object'[c].there => c \in stranded' \/ c \in job'[h].keys)
    PROVE  LeftInv'
<1>1. NoObjectLeft'
  BY DEF LeftInv, NoObjectLeft
<1>2. ASSUME NEW v \in Handlers, job'[v].step \in Deleting, NEW c \in job'[v].todo, object'[c].there
      PROVE  c \in stranded' \/ c \in job'[v].keys
  <2>1. CASE v = h
    BY <1>2, <2>1
  <2>2. CASE v # h
    <3>1. job'[v] = job[v] /\ c \in Calls
      BY <1>2, <2>2, JobTypes DEF TypeOK
    <3>2. QED
      BY <1>2, <3>1 DEF LeftInv, PruneInv
  <2>3. QED
    BY <2>1, <2>2
<1>3. QED
  BY <1>1, <1>2 DEF LeftInv, PruneInv

\* No object, row or month comes or goes, and the handler prunes nothing.
LEMMA LeftQuiet ==
    ASSUME TypeOK, LeftInv, NEW h \in Handlers,
           \A v \in Handlers \ {h} : job'[v] = job[v],
           UNCHANGED <<object, month>>, stranded \subseteq stranded',
           \A c \in Calls : row'[c].there = row[c].there,
           job'[h].step \notin Deleting
    PROVE  LeftInv'
<1>1. \A c \in Calls : Visible(c)' <=> Visible(c)
  BY DEF Visible
<1>2. QED
  BY <1>1, LeftKept

\* An object is put where its call is, or is stranded.
LEMMA LeftPut ==
    ASSUME TypeOK, LeftInv, NEW h \in Handlers, NEW c \in Calls, NEW o, Strands(h, c),
           \A v \in Handlers \ {h} : job'[v] = job[v],
           UNCHANGED <<row, month>>, object' = [object EXCEPT ![c] = o],
           job[h].step \notin Deleting, job'[h].step \notin Deleting
    PROVE  LeftInv'
<1>1. stranded' = IF ~Visible(c) \/ \E v \in Handlers : Pruning(v, c)
                  THEN stranded \cup {c} ELSE stranded
  BY DEF Strands
<1>2. \A d \in Calls \ {c} : object'[d] = object[d]
  BY DEF TypeOK
<1>3. \A d \in Calls : Visible(d)' <=> Visible(d)
  BY DEF Visible
<1>4. NoObjectLeft'
  BY <1>1, <1>2, <1>3 DEF LeftInv, NoObjectLeft
<1>5. ASSUME NEW v \in Handlers, job'[v].step \in Deleting, NEW d \in job'[v].todo, object'[d].there
      PROVE  d \in stranded' \/ d \in job'[v].keys
  <2>1. v # h /\ job'[v] = job[v]
    BY <1>5
  <2>2. d \in Calls
    BY <1>5, <2>1, JobTypes DEF TypeOK
  <2>3. CASE d = c
    <3>1. Pruning(v, c)
      BY <1>5, <2>1, <2>3 DEF Pruning, Deleting
    <3>2. QED
      BY <1>1, <2>3, <3>1
  <2>4. CASE d # c
    BY <1>1, <1>2, <1>5, <2>1, <2>2, <2>4 DEF LeftInv, PruneInv
  <2>5. QED
    BY <2>3, <2>4
<1>6. QED
  BY <1>4, <1>5 DEF LeftInv, PruneInv

LEMMA LeftStep ==
    ASSUME TypeOK, TypeOK', Fits, Fits', LeftInv, [Next]_vars
    PROVE  LeftInv'
<1> USE DEF RowType, ObjectType
<1>b. "idle" \notin Deleting /\ Idle.step = "idle"
  BY DEF Idle, Deleting
<1>0. ASSUME UNCHANGED vars PROVE LeftInv'
  BY <1>0 DEF vars, historyVars, LeftInv, NoObjectLeft, PruneInv, Visible
<1>1. ASSUME (\E c \in Calls : Ages(c)) \/ (\E m \in Months : MonthEnds(m))
      PROVE  LeftInv'
  BY <1>1 DEF Ages, MonthEnds, historyVars, LeftInv, NoObjectLeft, PruneInv, Visible
<1>2. ASSUME NEW h \in Handlers, Sweep(h) \/ ListMonths(h) \/ DropTable(h) PROVE LeftInv'
  <2>1. UNCHANGED <<row, object, stranded>>
    BY <1>2 DEF Sweep, ListMonths, DropTable, historyVars
  <2>2. /\ \A v \in Handlers \ {h} : job'[v] = job[v]
        /\ job'[h].step \notin Deleting
        /\ \A m \in Months : month[m] # "attached" => month'[m] # "attached"
        /\ \A m \in Months : month[m] = "attached" => month'[m] = "attached"
    BY <1>2, TurnFacts DEF Deleting
  <2>3. \A c \in Calls : Visible(c)' <=> Visible(c)
    BY <2>1, <2>2, ArchiveAssumption DEF Visible, ArchiveAssumption
  <2>4. QED
    BY <2>1, <2>2, <2>3, LeftKept
<1>3. ASSUME NEW h \in Handlers, Detach(h) PROVE LeftInv'
  <2>1. UNCHANGED <<row, object>>
    BY <1>3 DEF Detach
  <2>2. /\ \A v \in Handlers \ {h} : job'[v] = job[v]
        /\ job'[h].step \notin Deleting /\ stranded \subseteq stranded'
        /\ \A m \in Months : month'[m] = month[m]
             \/ \A c \in Calls : MonthOf[c] = m /\ object[c].there => c \in stranded'
    BY <1>3, DetachFacts DEF Deleting
  <2>3. \A c \in Calls : ~Visible(c)' /\ object[c].there => ~Visible(c) \/ c \in stranded'
    BY <2>1, <2>2, ArchiveAssumption DEF Visible, ArchiveAssumption
  <2>4. QED
    BY <2>1, <2>2, <2>3, LeftKept
<1>4. ASSUME NEW h \in Handlers, List(h) PROVE LeftInv'
  <2>1. UNCHANGED <<row, object, month, stranded>>
    BY <1>4 DEF List, historyVars
  <2>2. (\A v \in Handlers \ {h} : job'[v] = job[v]) /\ job'[h].step \notin Deleting
    BY <1>4, ListFacts DEF Deleting
  <2>3. QED
    BY <2>1, <2>2, LeftQuiet
<1>5. ASSUME NEW h \in Handlers, Put(h) PROVE LeftInv'
  <2>1. UNCHANGED <<row, month>> /\ job[h].step \notin Deleting
    BY <1>5 DEF Put, At, Deleting
  <2>2. PICK c \in Calls : \E o \in ObjectType : object' = [object EXCEPT ![c] = o] /\ Strands(h, c)
    <3>1. PICK c \in job[h].todo :
            /\ c \in Calls /\ Strands(h, c)
            /\ object' = [object EXCEPT ![c] = [there |-> TRUE, transcript |-> c \in job[h].texts,
                                                translated |-> c \in job[h].translations]]
      BY <1>5, PutFacts
    <3> DEFINE o == [there |-> TRUE, transcript |-> c \in job[h].texts,
                     translated |-> c \in job[h].translations]
    <3>2. o \in ObjectType /\ object' = [object EXCEPT ![c] = o]
      BY <3>1
    <3> HIDE DEF o
    <3>3. QED
      BY <3>1, <3>2
  <2>3. (\A v \in Handlers \ {h} : job'[v] = job[v]) /\ job'[h].step \notin Deleting
    BY <1>5, PutFacts DEF Deleting
  <2>4. QED
    BY <2>1, <2>2, <2>3, LeftPut
<1>6. ASSUME NEW h \in Handlers, Update(h) PROVE LeftInv'
  <2>1. UNCHANGED <<object, month, stranded>>
    BY <1>6 DEF Update
  <2>2. \A d \in Calls : row'[d].there = row[d].there
    BY <1>6, UpdateFacts, UpdateRow
  <2>3. (\A v \in Handlers \ {h} : job'[v] = job[v]) /\ job'[h].step \notin Deleting
    BY <1>6, UpdateFacts DEF Deleting
  <2>4. QED
    BY <2>1, <2>2, <2>3, LeftQuiet
<1>7. ASSUME NEW h \in Handlers, PruneList(h) PROVE LeftInv'
  <2>1. UNCHANGED <<row, object, month>>
    BY <1>7 DEF PruneList
  <2>2. PICK j \in Jobs :
          /\ job'[h] = j /\ \A v \in Handlers \ {h} : job'[v] = job[v]
          /\ \/ j.step = "idle"
             \/ /\ j.todo = {c \in Calls : Visible(c) /\ ~Retained(c)}
                /\ j.keys = {c \in j.todo : row[c].blob}
          /\ stranded' = stranded \cup
               {c \in Calls : Visible(c) /\ ~Retained(c) /\ ~row[c].blob /\ object[c].there}
    BY <1>7, PruneFacts
  <2>3. j.step \in Deleting => \A c \in j.todo :
            c \in Calls /\ (object'[c].there => c \in stranded' \/ c \in j.keys)
    BY <1>b, <2>1, <2>2
  <2>4. \A c \in Calls : Visible(c)' <=> Visible(c)
    BY <2>1 DEF Visible
  <2>5. QED
    BY <2>1, <2>2, <2>3, <2>4, LeftKept
<1>8. ASSUME NEW h \in Handlers, DeleteObject(h) \/ DeleteFails(h) PROVE LeftInv'
  <2>1. UNCHANGED <<row, age, month, over>> /\ At(h, "deleteObjects")
    BY <1>8 DEF DeleteObject, DeleteFails
  <2>2. PICK c \in job[h].keys :
          /\ \/ object' = [object EXCEPT ![c] = NoObject] /\ UNCHANGED stranded
             \/ UNCHANGED object /\ stranded' = stranded \cup {c}
          /\ Deleted(h, c)
    BY <1>8 DEF DeleteObject, DeleteFails, historyVars
  <2>3. c \in Calls /\ job[h].todo \subseteq Calls
    BY JobTypes DEF TypeOK
  <2>4. PICK j \in Jobs :
          /\ job'[h] = j /\ \A v \in Handlers \ {h} : job'[v] = job[v]
          /\ j.step \in Deleting /\ j.todo = job[h].todo /\ j.keys = job[h].keys \ {c}
    BY <2>1, <2>2, DeletedFacts
  <2>5. /\ \A d \in Calls : (object'[d].there => object[d].there)
        /\ object'[c].there => c \in stranded'
        /\ stranded \subseteq stranded'
    BY <2>2, <2>3 DEF TypeOK, NoObject
  <2>6. \A d \in job[h].todo : object[d].there => d \in stranded \/ d \in job[h].keys
    BY <2>1 DEF LeftInv, PruneInv, At, Deleting
  <2>7. \A d \in j.todo : d \in Calls /\ (object'[d].there => d \in stranded' \/ d \in j.keys)
    BY <2>3, <2>4, <2>5, <2>6
  <2>8. \A d \in Calls : Visible(d)' <=> Visible(d)
    BY <2>1 DEF Visible
  <2>9. QED
    BY <2>4, <2>5, <2>7, <2>8, LeftKept
<1>9. ASSUME NEW h \in Handlers, DeleteRows(h) PROVE LeftInv'
  <2>1. UNCHANGED <<object, month, stranded>> /\ Done(h) /\ At(h, "deleteRows")
    BY <1>9 DEF DeleteRows, historyVars
  <2>2. \A c \in job[h].todo : object[c].there => c \in stranded
    BY <2>1 DEF Fits, JobFits, At, Clear, LeftInv, PruneInv, Deleting
  <2>3. row' = [c \in Calls |-> IF c \in job[h].todo /\ Visible(c)
                                THEN [row[c] EXCEPT !.there = FALSE] ELSE row[c]]
    BY <1>9 DEF DeleteRows
  <2>4. \A c \in Calls : c \in job[h].todo \/ row'[c] = row[c]
    BY <2>3
  <2>5. \A c \in Calls : ~Visible(c)' /\ object'[c].there => ~Visible(c) \/ c \in stranded'
    BY <2>1, <2>2, <2>4 DEF Visible
  <2>6. (\A v \in Handlers \ {h} : job'[v] = job[v]) /\ job'[h].step \notin Deleting
    BY <1>b, <2>1, DoneType
  <2>7. QED
    BY <2>1, <2>5, <2>6, LeftKept
<1>10. ASSUME NEW h \in Handlers, Hydrate(h) \/ CacheGet(h) PROVE LeftInv'
  <2>1. /\ UNCHANGED <<row, object, age, month, over, stranded>> /\ job[h].step \in Viewing
        /\ \E s \in Viewing : Read(h, s)
    BY <1>10 DEF Hydrate, CacheGet, At, Viewing, historyVars
  <2>2. (\A v \in Handlers \ {h} : job'[v] = job[v]) /\ job'[h].step \notin Deleting
    BY <2>1, ReadFacts DEF Viewing, Deleting
  <2>3. QED
    BY <2>1, <2>2, LeftQuiet
<1>11. ASSUME NEW h \in Handlers, Translate(h) \/ GetFails(h) PROVE LeftInv'
  <2>1. /\ UNCHANGED <<row, object, age, month, over, stranded>> /\ job[h].step \in Viewing
        /\ (\E s \in Viewing : Goto(h, s)) \/ Done(h)
    BY <1>11 DEF Translate, GetFails, At, Viewing, historyVars
  <2>2. (\A v \in Handlers \ {h} : job'[v] = job[v]) /\ job'[h].step \notin Deleting
    <3>1. CASE \E s \in Viewing : Goto(h, s)
      BY <2>1, <3>1, GoFacts DEF Viewing, Deleting
    <3>2. CASE Done(h)
      BY <1>b, <3>2, DoneType
    <3>3. QED
      BY <2>1, <3>1, <3>2
  <2>3. QED
    BY <2>1, <2>2, LeftQuiet
<1>12. ASSUME NEW h \in Handlers, CachePut(h) PROVE LeftInv'
  <2> DEFINE c == job[h].call
             o == [there |-> TRUE, translated |-> TRUE, transcript |-> job[h].texts # {}]
  <2>1. /\ UNCHANGED <<row, age, month, over>> /\ Goto(h, "mark") /\ Strands(h, c)
        /\ job[h].step \in Viewing /\ "mark" \in Viewing /\ job[h].step \notin Deleting
        /\ object' = [object EXCEPT ![c] = o]
    BY <1>12 DEF CachePut, At, Viewing, Deleting
  <2> HIDE DEF o
  <2>2. (\A v \in Handlers \ {h} : job'[v] = job[v]) /\ job'[h].step \notin Deleting /\ c \in Calls
    BY <2>1, GoFacts DEF Deleting
  <2>3. QED
    BY <2>1, <2>2, LeftPut
<1>13. ASSUME NEW h \in Handlers, Mark(h) PROVE LeftInv'
  <2>1. UNCHANGED <<object, month, stranded>> /\ Done(h)
    BY <1>13 DEF Mark
  <2>2. QED
    BY <1>13, <1>b, <2>1, MarkRow, DoneType, LeftQuiet
<1>14. ASSUME NEW h \in Handlers, NEW c \in Calls, NEW kind \in {"portal", "public"},
              View(h, c, kind)
       PROVE  LeftInv'
  <2>1. UNCHANGED <<row, object, month, stranded>>
    BY <1>14 DEF View, historyVars
  <2>2. (\A v \in Handlers \ {h} : job'[v] = job[v]) /\ job'[h].step \notin Deleting
    BY <1>14, ViewFacts DEF Deleting
  <2>3. QED
    BY <2>1, <2>2, LeftQuiet
<1>15. ASSUME NEW h \in Handlers, PutFails(h) \/ UpdateFails(h) PROVE LeftInv'
  <2>1. UNCHANGED <<row, object, month, stranded>>
    BY <1>15 DEF PutFails, UpdateFails, historyVars
  <2>2. (\A v \in Handlers \ {h} : job'[v] = job[v]) /\ job'[h].step \notin Deleting
    BY <1>15, FailFacts DEF Deleting
  <2>3. QED
    BY <2>1, <2>2, LeftQuiet
<1>18. ASSUME NEW h \in Handlers, Crash(h) PROVE LeftInv'
  <2>1. UNCHANGED <<row, object, month, stranded>> /\ Done(h)
    BY <1>18 DEF Crash, historyVars
  <2>2. QED
    BY <1>b, <2>1, DoneType, LeftQuiet
<1>19. QED
  BY <1>0, <1>1, <1>2, <1>3, <1>4, <1>5, <1>6, <1>7, <1>8, <1>9, <1>10, <1>11, <1>12, <1>13,
     <1>14, <1>15, <1>18 DEF Next, HandlerStep

--------------------------------------------------------------------------------
(* Translations.                                                           *)

TransInv == TranslationIsServed /\ \A h \in Handlers : Translates(h)

\* A reference stays in its row, and a translation in its object unless that is
\* recorded.
LEMMA TransKept ==
    ASSUME TypeOK, TypeOK', Fits, TransInv, NEW h \in Handlers,
           \A v \in Handlers \ {h} : job'[v] = job[v],
           UNCHANGED age, missed \subseteq missed',
           \A c \in Calls : Retained(c) /\ object[c].translated
                                => object'[c].translated \/ c \in missed',
           \A c \in Calls : row[c].blob => row'[c].blob,
           TranslationIsServed', Translates(h)'
    PROVE  TransInv'
<1>1. ASSUME NEW v \in Handlers \ {h} PROVE Translates(v)'
  <2>1. Translates(v) /\ job'[v] = job[v] /\ job[v].keys \subseteq Calls
    BY JobTypes DEF TransInv, TypeOK
  <2>2. job[v].step \in Viewing => job[v].call \in Calls
    BY DEF Fits, JobFits
  <2>3. At(v, "mark") => job[v].call \in Calls
    BY <2>2 DEF At, Viewing
  <2>4. QED
    BY <2>1, <2>2, <2>3 DEF Translates, At, Retained
<1>2. QED
  BY <1>1 DEF TransInv

\* A step that leaves rows and objects.
LEMMA TransQuiet ==
    ASSUME TypeOK, TypeOK', Fits, TransInv, NEW h \in Handlers,
           \A v \in Handlers \ {h} : job'[v] = job[v],
           UNCHANGED <<age, row, object, masked>>, missed \subseteq missed', Translates(h)'
    PROVE  TransInv'
<1>1. TranslationIsServed'
  BY DEF TransInv, TranslationIsServed, Served
<1>2. QED
  BY <1>1, TransKept

\* A handler that neither archives nor views says nothing of translations.
LEMMA NotTranslating ==
    ASSUME NEW h \in Handlers, job'[h].step \notin Viewing \cup {"archive"}
    PROVE  Translates(h)'
BY DEF Translates, At, Viewing

LEMMA TransStep ==
    ASSUME TypeOK, TypeOK', Fits, WholeInv, WholeInv', TransInv, [Next]_vars
    PROVE  TransInv'
<1> USE DEF RowType, ObjectType
<1>b. Idle.step \notin Viewing \cup {"archive"}
  BY DEF Idle, Viewing
<1>c. "pruneList" \notin Viewing \cup {"archive"} /\ "idle" \notin Viewing \cup {"archive"}
  BY DEF Viewing
<1>0. ASSUME UNCHANGED vars PROVE TransInv'
  <2>1. UNCHANGED <<row, object, age, job, missed, masked>>
    BY <1>0 DEF vars, historyVars
  <2>2. TranslationIsServed'
    BY <2>1 DEF TransInv, TranslationIsServed, Served
  <2>3. ASSUME NEW v \in Handlers PROVE Translates(v)'
    BY <2>1 DEF TransInv, Translates, At, Retained
  <2>4. QED
    BY <2>2, <2>3 DEF TransInv
<1>1. ASSUME (\E c \in Calls : Ages(c)) \/ (\E m \in Months : MonthEnds(m))
      PROVE  TransInv'
  <2>1. (\A c \in Calls : Retained(c)' => Retained(c)) /\ UNCHANGED <<row, object, job, missed, masked>>
    BY <1>1, TimeFacts DEF Ages, MonthEnds, historyVars
  <2>2. TranslationIsServed'
    BY <2>1 DEF TransInv, TranslationIsServed, Served, Retained
  <2>3. ASSUME NEW v \in Handlers PROVE Translates(v)'
    <3>1. job[v].keys \subseteq Calls /\ (At(v, "mark") => job[v].call \in Calls)
      BY JobTypes DEF TypeOK, Fits, JobFits, At, Viewing
    <3>2. QED
      BY <2>1, <3>1 DEF TransInv, Translates, At
  <2>4. QED
    BY <2>2, <2>3 DEF TransInv
<1>2. ASSUME NEW h \in Handlers, Sweep(h) \/ ListMonths(h) \/ DropTable(h) \/ Detach(h)
      PROVE  TransInv'
  <2>1. UNCHANGED <<row, object, age, missed, masked>>
    BY <1>2 DEF Sweep, ListMonths, DropTable, Detach, historyVars
  <2>2. /\ \A v \in Handlers \ {h} : job'[v] = job[v]
        /\ job'[h].step \notin Viewing \cup {"archive"}
    BY <1>2, TurnFacts, DetachFacts DEF Viewing
  <2>3. QED
    BY <2>1, <2>2, NotTranslating, TransQuiet
<1>4. ASSUME NEW h \in Handlers, List(h) PROVE TransInv'
  <2>1. UNCHANGED <<row, object, age, missed, masked>>
    BY <1>4 DEF List, historyVars
  <2>2. /\ \A v \in Handlers \ {h} : job'[v] = job[v]
        /\ job'[h].step \notin Viewing /\ job'[h].keys = {}
    BY <1>4, ListFacts DEF Viewing
  <2>3. Translates(h)'
    BY <2>2 DEF Translates, At, Viewing
  <2>4. QED
    BY <2>1, <2>2, <2>3, TransQuiet
<1>5. ASSUME NEW h \in Handlers, Put(h) PROVE TransInv'
  <2>1. UNCHANGED <<row, age, masked>>
    BY <1>5 DEF Put
  <2>2. PICK c \in job[h].todo :
          /\ c \in Calls /\ At(h, "archive")
          /\ object' = [object EXCEPT ![c] = [there |-> TRUE, transcript |-> c \in job[h].texts,
                                              translated |-> c \in job[h].translations]]
          /\ missed' = (IF object[c].translated /\ c \notin job[h].translations
                        THEN missed \cup {c} ELSE missed)
          /\ \E j \in Jobs :
               /\ job'[h] = j /\ \A v \in Handlers \ {h} : job'[v] = job[v]
               /\ \/ j.step \in {"idle", "pruneList"}
                  \/ /\ j.step = "archive"
                     /\ j.todo = job[h].todo \ {c} /\ j.keys = job[h].keys \cup {c}
                     /\ j.translations = job[h].translations
    BY <1>5, PutFacts
  <2>3. PICK j \in Jobs :
          /\ job'[h] = j /\ \A v \in Handlers \ {h} : job'[v] = job[v]
          /\ \/ j.step \in {"idle", "pruneList"}
             \/ /\ j.step = "archive"
                /\ j.todo = job[h].todo \ {c} /\ j.keys = job[h].keys \cup {c}
                /\ j.translations = job[h].translations
    BY <2>2
  <2>4. /\ object'[c].there /\ (c \in job[h].translations => object'[c].translated)
        /\ \A d \in Calls \ {c} : object'[d] = object[d]
    <3> DEFINE o == [there |-> TRUE, transcript |-> c \in job[h].texts,
                     translated |-> c \in job[h].translations]
    <3>1. object' = [object EXCEPT ![c] = o] /\ object \in [Calls -> ObjectType] /\ c \in Calls
      BY <2>2 DEF TypeOK
    <3>2. o.there /\ (c \in job[h].translations => o.translated)
      OBVIOUS
    <3> HIDE DEF o
    <3>3. QED
      BY <3>1, <3>2
  <2>5. missed \subseteq missed' /\ (object[c].translated /\ c \notin job[h].translations => c \in missed')
    BY <2>2
  <2>6. \A d \in Calls : object[d].translated => object'[d].translated \/ d \in missed'
    BY <2>2, <2>4, <2>5
  <2>7. \A d \in Calls : object[d].there => object'[d].there
    BY <2>2, <2>4
  <2>8. TranslationIsServed'
    BY <2>1, <2>5, <2>6, <2>7 DEF TransInv, TranslationIsServed, Served
  <2>9. Translates(h) /\ At(h, "archive") /\ job[h].keys \subseteq Calls
    BY <2>2, JobTypes DEF TransInv, TypeOK
  <2>10. Translates(h)'
    <3>1. CASE j.step \in {"idle", "pruneList"}
      BY <1>c, <2>3, <3>1, NotTranslating
    <3>2. CASE j.step = "archive" /\ j.keys = job[h].keys \cup {c} /\ j.translations = job[h].translations
      BY <2>1, <2>3, <2>4, <2>5, <2>6, <2>9, <3>2 DEF Translates, At, Viewing, Retained
    <3>3. QED
      BY <2>3, <3>1, <3>2
  <2>11. QED
    BY <2>1, <2>3, <2>5, <2>6, <2>8, <2>10, TransKept
<1>6. ASSUME NEW h \in Handlers, Update(h) PROVE TransInv'
  <2>1. UNCHANGED <<object, age, masked>>
    BY <1>6 DEF Update
  <2>2. PICK c \in job[h].keys :
          /\ c \in Calls /\ At(h, "archive")
          /\ \/ /\ row' = [row EXCEPT ![c].transcript = FALSE, ![c].translated = FALSE,
                                      ![c].blob = TRUE]
                /\ missed' = (IF row[c].translated /\ c \notin job[h].translations
                              THEN missed \cup {c} ELSE missed)
             \/ UNCHANGED <<row, missed>>
          /\ \E j \in Jobs :
               /\ job'[h] = j /\ \A v \in Handlers \ {h} : job'[v] = job[v]
               /\ \/ j.step \in {"idle", "pruneList"}
                  \/ /\ j.step = "archive" /\ j.keys = job[h].keys \ {c}
                     /\ j.translations = job[h].translations
    BY <1>6, UpdateFacts
  <2>3. PICK j \in Jobs :
          /\ job'[h] = j /\ \A v \in Handlers \ {h} : job'[v] = job[v]
          /\ \/ j.step \in {"idle", "pruneList"}
             \/ /\ j.step = "archive" /\ j.keys = job[h].keys \ {c}
                /\ j.translations = job[h].translations
    BY <2>2
  <2>4. Translates(h) /\ At(h, "archive") /\ Carried(h) /\ job[h].keys \subseteq Calls
    BY <2>2, JobTypes DEF TransInv, WholeInv, TypeOK
  <2>5. missed \subseteq missed' /\ \A d \in Calls : row[d].blob => row'[d].blob
    BY <2>2, UpdateRow
  <2>6. TranslationIsServed'
    <3>1. CASE UNCHANGED <<row, missed>>
      BY <2>1, <3>1 DEF TransInv, TranslationIsServed, Served
    <3>2. CASE /\ row' = [row EXCEPT ![c].transcript = FALSE, ![c].translated = FALSE,
                                     ![c].blob = TRUE]
               /\ missed' = (IF row[c].translated /\ c \notin job[h].translations
                             THEN missed \cup {c} ELSE missed)
      <4>1. /\ \A d \in Calls \ {c} : row'[d] = row[d]
            /\ row'[c].marker = row[c].marker /\ row'[c].blob
        BY <2>2, <3>2, UpdateRow
      <4>2. Retained(c) => object[c].there
        BY <2>2, <2>4 DEF Carried
      <4>3. Retained(c) /\ row[c].translated => object[c].translated \/ c \in missed'
        BY <2>2, <2>4, <3>2 DEF Translates
      <4>4. Retained(c) /\ row[c].marker
                => object[c].translated \/ c \in missed' \/ c \in masked'
        BY <2>1, <2>2, <2>5, <4>3 DEF TransInv, TranslationIsServed, Served, Retained
      <4>5. QED
        BY <2>1, <2>5, <4>1, <4>2, <4>4 DEF TransInv, TranslationIsServed, Served, Retained
    <3>3. QED
      BY <2>2, <3>1, <3>2
  <2>7. Translates(h)'
    <3>1. CASE j.step \in {"idle", "pruneList"}
      BY <1>c, <2>3, <3>1, NotTranslating
    <3>2. CASE j.step = "archive" /\ j.keys = job[h].keys \ {c} /\ j.translations = job[h].translations
      BY <2>1, <2>3, <2>4, <2>5, <3>2 DEF Translates, At, Viewing, Retained
    <3>3. QED
      BY <2>3, <3>1, <3>2
  <2>8. QED
    BY <2>1, <2>3, <2>5, <2>6, <2>7, TransKept
<1>7. ASSUME NEW h \in Handlers, PruneList(h) PROVE TransInv'
  <2>1. UNCHANGED <<row, object, age, missed, masked>>
    BY <1>7 DEF PruneList
  <2>2. /\ \A v \in Handlers \ {h} : job'[v] = job[v]
        /\ job'[h].step \notin Viewing \cup {"archive"}
    BY <1>7, PruneFacts DEF Deleting, Viewing
  <2>3. QED
    BY <2>1, <2>2, NotTranslating, TransQuiet
<1>8. ASSUME NEW h \in Handlers, DeleteObject(h) \/ DeleteFails(h) PROVE TransInv'
  <2>1. UNCHANGED <<row, age, month, over, missed, masked>> /\ At(h, "deleteObjects")
    BY <1>8 DEF DeleteObject, DeleteFails, historyVars
  <2>2. PICK c \in job[h].keys :
          (object' = [object EXCEPT ![c] = NoObject] \/ UNCHANGED object) /\ Deleted(h, c)
    BY <1>8 DEF DeleteObject, DeleteFails
  <2>3. ~Retained(c)
    BY <2>1 DEF Fits, JobFits, At, Deleting
  <2>4. \A d \in Calls : Retained(d) => object'[d] = object[d]
    BY <2>2, <2>3 DEF TypeOK
  <2>5. /\ \A v \in Handlers \ {h} : job'[v] = job[v]
        /\ job'[h].step \notin Viewing \cup {"archive"}
    BY <2>1, <2>2, DeletedFacts DEF Deleting, Viewing
  <2>6. TranslationIsServed'
    BY <2>1, <2>4 DEF TransInv, TranslationIsServed, Served, Retained
  <2>7. QED
    BY <2>1, <2>4, <2>5, <2>6, NotTranslating, TransKept
<1>9. ASSUME NEW h \in Handlers, DeleteRows(h) PROVE TransInv'
  <2>1. UNCHANGED <<object, age, missed, masked>> /\ Done(h)
    BY <1>9 DEF DeleteRows, historyVars
  <2>2. row' = [c \in Calls |-> IF c \in job[h].todo /\ Visible(c)
                                THEN [row[c] EXCEPT !.there = FALSE] ELSE row[c]]
    BY <1>9 DEF DeleteRows
  <2>3. \A c \in Calls : /\ row'[c].blob = row[c].blob /\ row'[c].marker = row[c].marker
                         /\ row'[c].translated = row[c].translated
    BY <2>2 DEF TypeOK
  <2>4. TranslationIsServed'
    BY <2>1, <2>3 DEF TransInv, TranslationIsServed, Served
  <2>5. QED
    BY <1>b, <2>1, <2>3, <2>4, DoneType, NotTranslating, TransKept
<1>10. ASSUME NEW h \in Handlers, Hydrate(h) \/ CacheGet(h) PROVE TransInv'
  <2>1. /\ UNCHANGED <<row, object, age, month, over, missed, masked>> /\ job[h].step \in Viewing
        /\ \E s \in Viewing : /\ Read(h, s) /\ s # "cacheGet"
                              /\ s = "mark" => At(h, "cacheGet") /\ ~object[job[h].call].there
    BY <1>10 DEF Hydrate, CacheGet, At, Viewing, historyVars
  <2>2. PICK s \in Viewing : /\ Read(h, s) /\ s # "cacheGet"
                             /\ s = "mark" => At(h, "cacheGet") /\ ~object[job[h].call].there
    BY <2>1
  <2>3. PICK j \in Jobs :
          /\ job'[h] = j /\ \A v \in Handlers \ {h} : job'[v] = job[v]
          /\ j.step = s /\ j.call = job[h].call /\ j.blob = job[h].blob /\ j.kind = job[h].kind
    BY <2>1, <2>2, ReadFacts
  <2>4. Translates(h) /\ job[h].call \in Calls
    BY <2>1 DEF TransInv, Fits, JobFits
  <2>5. s = "mark" => ~Retained(job[h].call)
    BY <2>1, <2>2, <2>4 DEF WholeInv, RowsFit, Translates
  <2>6. Translates(h)'
    BY <2>1, <2>2, <2>3, <2>4, <2>5 DEF Translates, At, Retained, Viewing
  <2>7. QED
    BY <2>1, <2>3, <2>6, TransQuiet
<1>11. ASSUME NEW h \in Handlers, Translate(h) PROVE TransInv'
  <2>1. /\ UNCHANGED <<row, object, age, month, over, missed, masked>> /\ job[h].step \in Viewing
        /\ \/ Done(h)
           \/ \E s \in {"cacheGet", "mark"} :
                Goto(h, s) /\ (s = "cacheGet" <=> job[h].kind = "portal" /\ job[h].blob)
    BY <1>11 DEF Translate, At, Viewing, historyVars
  <2>2. CASE Done(h)
    BY <1>b, <2>1, <2>2, DoneType, NotTranslating, TransQuiet
  <2>3. CASE \E s \in {"cacheGet", "mark"} :
               Goto(h, s) /\ (s = "cacheGet" <=> job[h].kind = "portal" /\ job[h].blob)
    <3>1. PICK s \in {"cacheGet", "mark"} :
            Goto(h, s) /\ (s = "cacheGet" <=> job[h].kind = "portal" /\ job[h].blob)
      BY <2>3
    <3>2. s \in Viewing
      BY DEF Viewing
    <3>3. /\ \A v \in Handlers \ {h} : job'[v] = job[v]
          /\ job'[h].step = s /\ job'[h].call = job[h].call /\ job'[h].blob = job[h].blob
          /\ job'[h].kind = job[h].kind
      BY <2>1, <3>1, <3>2, GoFacts
    <3>4. Translates(h)'
      BY <2>1, <3>1, <3>3 DEF TransInv, Translates, At, Viewing
    <3>5. QED
      BY <2>1, <3>3, <3>4, TransQuiet
  <2>4. QED
    BY <2>1, <2>2, <2>3
<1>16. ASSUME NEW h \in Handlers, GetFails(h) PROVE TransInv'
  <2>1. /\ UNCHANGED <<row, object, age, month, over, masked>> /\ job[h].step \in Viewing
        /\ missed' = missed \cup {job[h].call}
        /\ \E s \in {"translate", "mark"} : Goto(h, s)
    BY <1>16 DEF GetFails, At, Viewing
  <2>2. PICK s \in {"translate", "mark"} : Goto(h, s)
    BY <2>1
  <2>3. s \in Viewing
    BY DEF Viewing
  <2>4. /\ \A v \in Handlers \ {h} : job'[v] = job[v]
        /\ job'[h].step = s /\ job'[h].call = job[h].call /\ job'[h].blob = job[h].blob
    BY <2>1, <2>2, <2>3, GoFacts
  <2>5. Translates(h)'
    BY <2>1, <2>4 DEF TransInv, Translates, At, Viewing
  <2>6. QED
    BY <2>1, <2>4, <2>5, TransQuiet
<1>12. ASSUME NEW h \in Handlers, CachePut(h) PROVE TransInv'
  <2> DEFINE c == job[h].call
             o == [there |-> TRUE, translated |-> TRUE, transcript |-> job[h].texts # {}]
  <2>1. /\ UNCHANGED <<row, age, month, over, missed, masked>> /\ Goto(h, "mark")
        /\ job[h].step \in Viewing /\ "mark" \in Viewing
        /\ object' = [object EXCEPT ![c] = o]
    BY <1>12 DEF CachePut, At, Viewing
  <2>2. /\ \A v \in Handlers \ {h} : job'[v] = job[v]
        /\ job'[h].step = "mark" /\ c \in Calls /\ job'[h].call = c /\ job'[h].blob = job[h].blob
    BY <2>1, GoFacts
  <2>3. /\ object'[c].there /\ object'[c].translated
        /\ \A d \in Calls \ {c} : object'[d] = object[d]
    <3>1. object' = [object EXCEPT ![c] = o] /\ object \in [Calls -> ObjectType]
      BY <2>1 DEF TypeOK
    <3>2. o.there /\ o.translated
      OBVIOUS
    <3> HIDE DEF o
    <3>3. QED
      BY <2>2, <3>1, <3>2
  <2>4. TranslationIsServed'
    BY <2>1, <2>3 DEF TransInv, TranslationIsServed, Served
  <2>5. Translates(h)'
    BY <2>1, <2>2, <2>3 DEF TransInv, Translates, At, Viewing
  <2>6. \A d \in Calls : object[d].translated => object'[d].translated
    BY <2>3
  <2>7. QED
    BY <2>1, <2>2, <2>4, <2>5, <2>6, TransKept
<1>13. ASSUME NEW h \in Handlers, Mark(h) PROVE TransInv'
  <2> DEFINE c == job[h].call
  <2>1. UNCHANGED <<object, age>> /\ Done(h) /\ Translates(h)
    BY <1>13 DEF Mark, TransInv
  <2>2. /\ c \in Calls /\ At(h, "mark")
        /\ missed \subseteq missed' /\ masked \subseteq masked'
        /\ \A d \in Calls \ {c} : row'[d] = row[d]
        /\ \A d \in Calls : row'[d].blob = row[d].blob
        /\ \/ row'[c].marker = row[c].marker /\ row'[c].translated = row[c].translated
           \/ /\ job[h].kind = "portal" /\ job[h].blob
              /\ row'[c].translated = row[c].translated
           \/ /\ row'[c].translated
              /\ row[c].blob /\ ~job[h].blob => c \in missed'
              /\ job[h].blob => c \in masked'
    BY <1>13, MarkRow
  <2>3. job[h].kind = "portal" /\ job[h].blob /\ Retained(c)
            => row[c].blob /\ object[c].there /\ (object[c].translated \/ c \in missed)
    BY <2>1, <2>2 DEF Translates, At, Viewing, WholeInv, RowsFit
  <2>4. ASSUME Retained(c), row'[c].marker, c \notin missed', c \notin masked'
        PROVE  IF row[c].blob THEN object[c].there /\ object[c].translated ELSE row'[c].translated
    <3>1. CASE row'[c].marker = row[c].marker /\ row'[c].translated = row[c].translated
      BY <2>2, <2>4, <3>1 DEF TransInv, TranslationIsServed, Served, Retained
    <3>2. CASE job[h].kind = "portal" /\ job[h].blob
      BY <2>2, <2>3, <2>4, <3>2
    <3>3. CASE /\ row'[c].translated
               /\ row[c].blob /\ ~job[h].blob => c \in missed'
               /\ job[h].blob => c \in masked'
      BY <2>4, <3>3
    <3>4. QED
      BY <2>2, <3>1, <3>2, <3>3
  <2>5. ASSUME NEW d \in Calls, (age[d] # "expired")', row'[d].marker, d \notin missed', d \notin masked'
        PROVE  Served(d)'
    <3>1. CASE d = c
      BY <2>1, <2>2, <2>4, <2>5, <3>1 DEF Served, Retained
    <3>2. CASE d # c
      <4>1. row'[d] = row[d] /\ Served(d)
        BY <2>1, <2>2, <2>5, <3>2 DEF TransInv, TranslationIsServed
      <4>2. QED
        BY <2>1, <4>1 DEF Served
    <3>3. QED
      BY <3>1, <3>2
  <2>6. QED
    <3>1. TranslationIsServed'
      BY <2>5 DEF TranslationIsServed
    <3>2. QED
      BY <1>b, <2>1, <2>2, <3>1, DoneType, NotTranslating, TransKept
<1>14. ASSUME NEW h \in Handlers, NEW c \in Calls, NEW kind \in {"portal", "public"},
              View(h, c, kind)
       PROVE  TransInv'
  <2>1. UNCHANGED <<row, object, age, missed, masked>>
    BY <1>14 DEF View, historyVars
  <2>2. /\ \A v \in Handlers \ {h} : job'[v] = job[v]
        /\ job'[h].step \in {"hydrate", "translate"} /\ job'[h].call = c /\ job'[h].blob = row[c].blob
    BY <1>14, ViewFacts
  <2>3. Translates(h)'
    BY <2>1, <2>2 DEF Translates, At, Viewing
  <2>4. QED
    BY <2>1, <2>2, <2>3, TransQuiet
<1>15. ASSUME NEW h \in Handlers, PutFails(h) \/ UpdateFails(h) PROVE TransInv'
  <2>1. UNCHANGED <<row, object, age, missed, masked>>
    BY <1>15 DEF PutFails, UpdateFails, historyVars
  <2>2. PICK j \in Jobs :
          /\ job'[h] = j /\ \A v \in Handlers \ {h} : job'[v] = job[v]
          /\ \/ j.step \in {"idle", "pruneList"}
             \/ /\ j.step = "archive" /\ j.keys \subseteq job[h].keys
                /\ j.translations = job[h].translations
    BY <1>15, FailFacts
  <2>3. Translates(h) /\ At(h, "archive")
    BY <1>15, FailFacts DEF TransInv
  <2>4. Translates(h)'
    BY <2>1, <2>2, <2>3 DEF Translates, At, Retained, Viewing
  <2>5. QED
    BY <2>1, <2>2, <2>4, TransQuiet
<1>18. ASSUME NEW h \in Handlers, Crash(h) PROVE TransInv'
  <2>1. UNCHANGED <<row, object, age, missed, masked>> /\ Done(h)
    BY <1>18 DEF Crash, historyVars
  <2>2. QED
    BY <1>b, <2>1, DoneType, NotTranslating, TransQuiet
<1>19. QED
  BY <1>0, <1>1, <1>2, <1>4, <1>5, <1>6, <1>7, <1>8, <1>9, <1>10, <1>11, <1>12, <1>13,
     <1>14, <1>15, <1>16, <1>18 DEF Next, HandlerStep

--------------------------------------------------------------------------------
(* Theorems.                                                               *)

IInv == TypeOK /\ Fits /\ WholeInv /\ LeftInv /\ TransInv

LEMMA InitInv == Init => IInv
<1> SUFFICES ASSUME Init PROVE IInv
  OBVIOUS
<1>1. TypeOK /\ \A h \in Handlers : job[h] = Idle
  BY InitType DEF Init
<1>2. Idle.step = "idle" /\ Idle.months = {}
  BY DEF Idle
<1>3. Fits
  BY <1>1, <1>2, ArchiveAssumption
     DEF Init, Fits, MonthsFit, JobFits, Viewing, Deleting, Clear, ArchiveAssumption
<1>4. PICK t \in [Calls -> BOOLEAN] :
        row = [c \in Calls |-> [there |-> TRUE, transcript |-> TRUE, translated |-> t[c],
                                marker |-> t[c], blob |-> FALSE]]
  BY DEF Init
<1>5. \A c \in Calls : /\ row[c].there /\ row[c].transcript /\ ~row[c].blob
                       /\ row[c].marker = row[c].translated
  BY <1>4
<1>6. \A c \in Calls : ~object[c].there
  BY DEF Init, NoObject
<1>7. WholeInv
  BY <1>1, <1>2, <1>5, <1>6 DEF WholeInv, RowsFit, Carried, At
<1>8. LeftInv
  BY <1>1, <1>2, <1>6 DEF LeftInv, NoObjectLeft, PruneInv, Deleting
<1>9. TransInv
  BY <1>1, <1>2, <1>5 DEF TransInv, TranslationIsServed, Served, Translates, At, Viewing
<1>10. QED
  BY <1>1, <1>3, <1>7, <1>8, <1>9 DEF IInv

LEMMA StepInv == IInv /\ [Next]_vars => IInv'
BY StepFits, WholeStep, LeftStep, TransStep DEF IInv

LEMMA Inductive == Spec => []IInv
<1>1. Init => IInv
  BY InitInv
<1>2. IInv /\ [Next]_vars => IInv'
  BY StepInv
<1>3. QED
  BY <1>1, <1>2, PTL DEF Spec

\* Rows, objects and handlers keep their shape, for any number of each.
THEOREM TypeCorrect == Spec => []TypeOK
<1>1. IInv => TypeOK
  BY DEF IInv
<1>2. QED
  BY <1>1, Inductive, PTL

\* A call within its retention has its row, and its transcript in the columns
\* or in the object the row names, whatever fails, dies or runs twice.
THEOREM TranscriptsSurvive == Spec => []RetainedIsWhole
<1>1. IInv => RetainedIsWhole
  <2> SUFFICES ASSUME IInv, NEW c \in Calls, Retained(c)
               PROVE  /\ Visible(c)
                      /\ row[c].transcript
                         \/ (row[c].blob /\ object[c].there /\ object[c].transcript)
    BY DEF RetainedIsWhole, Retained
  <2>1. MonthOf[c] \in Months
    BY ArchiveAssumption DEF ArchiveAssumption
  <2>2. row[c].there /\ month[MonthOf[c]] = "attached"
    BY <2>1 DEF IInv, Fits, MonthsFit, WholeInv, RowsFit
  <2>3. QED
    BY <2>2 DEF Visible, IInv, WholeInv, RowsFit
<1>2. QED
  BY <1>1, Inductive, PTL

\* A translation that was marked is served by the next read, unless it was
\* stored across an archiving or by the shared page.
THEOREM TranslationsSurvive == Spec => []TranslationIsServed
<1>1. IInv => TranslationIsServed
  BY DEF IInv, TransInv
<1>2. QED
  BY <1>1, Inductive, PTL

\* An object outlives its call only where a month was dropped, a put raced the
\* prune, or the delete failed.
THEOREM ObjectsGo == Spec => []NoObjectLeft
<1>1. IInv => NoObjectLeft
  BY DEF IInv, LeftInv
<1>2. QED
  BY <1>1, Inductive, PTL
================================================================================
