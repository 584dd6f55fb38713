------------------------------ MODULE CallArchive ------------------------------
(***************************************************************************)
(* The call log of one brand and its archive: the nightly sweep drops the  *)
(* months past retention, moves the blobs of old calls to the object store *)
(* and prunes expired rows, while calls are read and translated.           *)
(*                                                                         *)
(* archiveCallBlobs, pruneCallLogs, hydrateCall, cacheArchivedTranslation  *)
(* (services/callArchive.ts), the months of services/callPartitions.ts,    *)
(* runCallArchiveSweep (services/scheduler.ts), POST /:id/translate of     *)
(* routes/calls.routes.ts and the shared page (routes/publicCall.routes.ts)*)
(*                                                                         *)
(* Every statement of the brand's database and every call to the object    *)
(* store is a step of its own.  A transcript and its translation are each  *)
(* there or not.                                                           *)
(***************************************************************************)
EXTENDS Integers, FiniteSets

CONSTANTS
    Calls,          \* calls that were logged
    Months,         \* the table's monthly partitions
    MonthOf,        \* the month of each call
    NoCall,         \* a handler without a call
    NoMonth,        \* a handler without a month
    Handlers,       \* sweeps and requests at work at the same time
    MaxFaults       \* bound on failed calls and dead handlers

ArchiveAssumption ==
    /\ MonthOf \in [Calls -> Months]
    /\ NoCall \notin Calls
    /\ NoMonth \notin Months
    /\ MaxFaults \in Nat

ASSUME ArchiveAssumption

VARIABLES
    row,            \* the row of each call in call_logs
    object,         \* the object under each call's key
    age,            \* young, old enough to be archived, or past retention
    month,          \* whether a month is in the table
    over,           \* months that ended before the retention cutoff
    job,            \* what each handler is doing
    missed,         \* history: translations stored across an archiving, or unread
    masked,         \* history: translations the shared page wrote under an object
    stranded,       \* history: objects a race, a failure or a dropped month left
    faults          \* faults so far

historyVars == <<missed, masked, stranded>>
vars == <<row, object, age, month, over, job, historyVars, faults>>

--------------------------------------------------------------------------------
NoObject == [there |-> FALSE, transcript |-> FALSE, translated |-> FALSE]

Steps == {"idle", "months", "detach", "dropTable", "list", "archive", "pruneList",
          "deleteObjects", "deleteRows", "hydrate", "translate", "cacheGet", "cachePut", "mark"}

\* kind: a sweep, the rest of one whose promise was rejected, or a view.
\* months, month: partitions to drop.  todo: calls listed.  keys: calls put and
\* not yet updated, or objects to delete.  texts, translations: calls whose
\* transcript and translation were read.  call, blob, marker: the call viewed.
Idle == [step |-> "idle", kind |-> "none", months |-> {}, month |-> NoMonth, todo |-> {},
         keys |-> {}, texts |-> {}, translations |-> {}, call |-> NoCall, blob |-> FALSE,
         marker |-> FALSE]

At(h, step) == job[h].step = step

Become(h, r) == job' = [job EXCEPT ![h] = r]

Goto(h, step) == Become(h, [job[h] EXCEPT !.step = step])

Done(h) == Become(h, Idle)

\* A query sees the rows of the months that are in the table.
Visible(c) == row[c].there /\ month[MonthOf[c]] = "attached"

Pruning(h, c) == job[h].step \in {"deleteObjects", "deleteRows"} /\ c \in job[h].todo

\* An object is put for a call whose row is gone, or about to go.
Strands(h, c) ==
    stranded' = IF ~Visible(c) \/ \E v \in Handlers : Pruning(v, c)
                THEN stranded \cup {c} ELSE stranded

\* The call was logged with its transcript, in the owner's language too if
\* that was mailed.
Init ==
    /\ \E t \in [Calls -> BOOLEAN] :
          row = [c \in Calls |-> [there |-> TRUE, transcript |-> TRUE, translated |-> t[c],
                                  marker |-> t[c], blob |-> FALSE]]
    /\ object = [c \in Calls |-> NoObject]
    /\ age = [c \in Calls |-> "young"]
    /\ month = [m \in Months |-> "attached"]
    /\ over = {}
    /\ job = [h \in Handlers |-> Idle]
    /\ missed = {}
    /\ masked = {}
    /\ stranded = {}
    /\ faults = 0

--------------------------------------------------------------------------------
(* The sweep: months past retention.                                       *)

Sweep(h) ==
    /\ At(h, "idle")
    /\ Become(h, [Idle EXCEPT !.step = "months", !.kind = "sweep"])
    /\ UNCHANGED <<row, object, age, month, over, historyVars, faults>>

\* Mutant: the months are listed by their names, detached ones too.
ListAllMonths(h) ==
    /\ At(h, "months")
    /\ LET due == {m \in over : month[m] # "dropped"}
       IN  Become(h, [job[h] EXCEPT !.months = due,
                                    !.step = IF due = {} THEN "list" ELSE "detach"])
    /\ UNCHANGED <<row, object, age, month, over, historyVars, faults>>

ListMonths(h) ==
    /\ At(h, "months")
    /\ LET due == {m \in over : month[m] = "attached"}
       IN  Become(h, [job[h] EXCEPT !.months = due,
                                    !.step = IF due = {} THEN "list" ELSE "detach"])
    /\ UNCHANGED <<row, object, age, month, over, historyVars, faults>>

\* A month that another sweep has detached ends this one with an error.
Detach(h) ==
    /\ At(h, "detach")
    /\ \E m \in job[h].months :
          IF month[m] = "attached"
          THEN /\ month' = [month EXCEPT ![m] = "detached"]
               /\ stranded' = stranded \cup {c \in Calls : MonthOf[c] = m /\ object[c].there}
               /\ Become(h, [job[h] EXCEPT !.step = "dropTable", !.months = @ \ {m}, !.month = m])
          ELSE /\ Done(h)
               /\ UNCHANGED <<month, stranded>>
    /\ UNCHANGED <<row, object, age, over, missed, masked, faults>>

DropTable(h) ==
    /\ At(h, "dropTable")
    /\ month' = [month EXCEPT ![job[h].month] = "dropped"]
    /\ Become(h, [job[h] EXCEPT !.month = NoMonth,
                                !.step = IF job[h].months = {} THEN "list" ELSE "detach"])
    /\ UNCHANGED <<row, object, age, over, historyVars, faults>>

--------------------------------------------------------------------------------
(* The sweep: old calls.                                                   *)

\* Mutant: an archived row with something in its columns is listed again.
CandidatesAgain ==
    {c \in Calls : Visible(c) /\ age[c] # "young" /\ (row[c].transcript \/ row[c].translated)}

Candidates ==
    {c \in Calls : /\ Visible(c) /\ age[c] # "young" /\ ~row[c].blob
                   /\ row[c].transcript \/ row[c].translated}

\* Mutant: a sweep with nothing to archive forgets to prune.
ListThenStop(h) ==
    /\ At(h, "list")
    /\ Become(h, [job[h] EXCEPT
                    !.todo = Candidates,
                    !.texts = {c \in Candidates : row[c].transcript},
                    !.translations = {c \in Candidates : row[c].translated},
                    !.step = IF Candidates = {} THEN "done" ELSE "archive"])
    /\ UNCHANGED <<row, object, age, month, over, historyVars, faults>>

List(h) ==
    /\ At(h, "list")
    /\ Become(h, [job[h] EXCEPT
                    !.todo = Candidates,
                    !.texts = {c \in Candidates : row[c].transcript},
                    !.translations = {c \in Candidates : row[c].translated},
                    !.step = IF Candidates = {} THEN "pruneList" ELSE "archive"])
    /\ UNCHANGED <<row, object, age, month, over, historyVars, faults>>

\* When no call is left the sweep prunes; the rest of a failed one is over.
Archived(h, todo, keys, kind) ==
    IF todo = {} /\ keys = {}
    THEN IF kind = "sweep" THEN Become(h, [Idle EXCEPT !.step = "pruneList", !.kind = kind])
                           ELSE Done(h)
    ELSE Become(h, [job[h] EXCEPT !.todo = todo, !.keys = keys, !.kind = kind])

\* Mutant: two of the three columns that are emptied.
PutWithoutTranslation(h) ==
    /\ At(h, "archive")
    /\ \E c \in job[h].todo :
          /\ object' = [object EXCEPT ![c] = [there |-> TRUE, transcript |-> c \in job[h].texts,
                                              translated |-> FALSE]]
          /\ missed' = IF object[c].translated /\ c \notin job[h].translations
                       THEN missed \cup {c} ELSE missed
          /\ Strands(h, c)
          /\ Archived(h, job[h].todo \ {c}, job[h].keys \cup {c}, job[h].kind)
    /\ UNCHANGED <<row, age, month, over, masked, faults>>

\* What was read at the listing, whatever the call holds by now.
Put(h) ==
    /\ At(h, "archive")
    /\ \E c \in job[h].todo :
          /\ object' = [object EXCEPT ![c] = [there |-> TRUE, transcript |-> c \in job[h].texts,
                                              translated |-> c \in job[h].translations]]
          /\ missed' = IF object[c].translated /\ c \notin job[h].translations
                       THEN missed \cup {c} ELSE missed
          /\ Strands(h, c)
          /\ Archived(h, job[h].todo \ {c}, job[h].keys \cup {c}, job[h].kind)
    /\ UNCHANGED <<row, age, month, over, masked, faults>>

\* A row that is gone rejects the whole batch; the puts under way go on.
Update(h) ==
    /\ At(h, "archive")
    /\ \E c \in job[h].keys :
          IF Visible(c)
          THEN /\ row' = [row EXCEPT ![c].transcript = FALSE, ![c].translated = FALSE,
                                     ![c].blob = TRUE]
               /\ missed' = IF row[c].translated /\ c \notin job[h].translations
                            THEN missed \cup {c} ELSE missed
               /\ Archived(h, job[h].todo, job[h].keys \ {c}, job[h].kind)
          ELSE /\ Archived(h, job[h].todo, job[h].keys \ {c}, "rest")
               /\ UNCHANGED <<row, missed>>
    /\ UNCHANGED <<object, age, month, over, masked, stranded, faults>>

--------------------------------------------------------------------------------
(* The sweep: expired calls.                                               *)

\* Mutant: the rows go, and their objects are forgotten.
PruneRows(h) ==
    /\ At(h, "pruneList")
    /\ LET doomed == {c \in Calls : Visible(c) /\ age[c] = "expired"}
       IN  Become(h, [job[h] EXCEPT !.todo = doomed, !.step = "deleteRows"])
    /\ UNCHANGED <<row, object, age, month, over, historyVars, faults>>

\* An object that no row names, as its put was the last thing a sweep did, is
\* not in the list.
PruneList(h) ==
    /\ At(h, "pruneList")
    /\ LET doomed == {c \in Calls : Visible(c) /\ age[c] = "expired"}
           keys == {c \in doomed : row[c].blob}
       IN  /\ Become(h, IF doomed = {} THEN Idle
                        ELSE [job[h] EXCEPT !.todo = doomed, !.keys = keys,
                                !.step = IF keys = {} THEN "deleteRows" ELSE "deleteObjects"])
           /\ stranded' = stranded \cup {c \in doomed \ keys : object[c].there}
    /\ UNCHANGED <<row, object, age, month, over, missed, masked, faults>>

Deleted(h, c) ==
    Become(h, [job[h] EXCEPT !.keys = @ \ {c},
                             !.step = IF job[h].keys = {c} THEN "deleteRows" ELSE @])

DeleteObject(h) ==
    /\ At(h, "deleteObjects")
    /\ \E c \in job[h].keys :
          /\ object' = [object EXCEPT ![c] = NoObject]
          /\ Deleted(h, c)
    /\ UNCHANGED <<row, age, month, over, historyVars, faults>>

DeleteRows(h) ==
    /\ At(h, "deleteRows")
    /\ row' = [c \in Calls |-> IF c \in job[h].todo /\ Visible(c)
                               THEN [row[c] EXCEPT !.there = FALSE] ELSE row[c]]
    /\ Done(h)
    /\ UNCHANGED <<object, age, month, over, historyVars, faults>>

--------------------------------------------------------------------------------
(* A call is read in the owner's language: on the portal, or on the page   *)
(* its link shows.                                                         *)

View(h, c, kind) ==
    /\ At(h, "idle")
    /\ Visible(c)
    /\ Become(h, [Idle EXCEPT !.step = IF row[c].blob THEN "hydrate" ELSE "translate",
                    !.kind = kind, !.call = c, !.blob = row[c].blob, !.marker = row[c].marker,
                    !.texts = IF row[c].transcript THEN {c} ELSE {},
                    !.translations = IF row[c].translated THEN {c} ELSE {}])
    /\ UNCHANGED <<row, object, age, month, over, historyVars, faults>>

\* What the job has read is the object's content; one that is missing leaves
\* what the row held.
Read(h, step) ==
    LET c == job[h].call
    IN  Become(h, IF object[c].there
                  THEN [job[h] EXCEPT !.step = step,
                          !.texts = IF object[c].transcript THEN {c} ELSE {},
                          !.translations = IF object[c].translated THEN {c} ELSE {}]
                  ELSE [job[h] EXCEPT !.step = step])

Hydrate(h) ==
    /\ At(h, "hydrate")
    /\ Read(h, "translate")
    /\ UNCHANGED <<row, object, age, month, over, historyVars, faults>>

\* A cached translation is served, an empty transcript is not translated, and
\* one the model did not translate is not stored.
Translate(h) ==
    /\ At(h, "translate")
    /\ \/ /\ job[h].texts # {} /\ ~(job[h].marker /\ job[h].translations # {})
          /\ Goto(h, IF job[h].kind = "portal" /\ job[h].blob THEN "cacheGet" ELSE "mark")
       \/ Done(h)
    /\ UNCHANGED <<row, object, age, month, over, historyVars, faults>>

\* cacheArchivedTranslation: an object that cannot be read is left alone.
CacheGet(h) ==
    /\ At(h, "cacheGet")
    /\ Read(h, IF object[job[h].call].there THEN "cachePut" ELSE "mark")
    /\ UNCHANGED <<row, object, age, month, over, historyVars, faults>>

CachePut(h) ==
    /\ At(h, "cachePut")
    /\ LET c == job[h].call
       IN  /\ object' = [object EXCEPT ![c] = [there |-> TRUE, translated |-> TRUE,
                                               transcript |-> job[h].texts # {}]]
           /\ Strands(h, c)
    /\ Goto(h, "mark")
    /\ UNCHANGED <<row, age, month, over, missed, masked, faults>>

\* The language marker, and the translation where the row is believed to hold
\* it: the portal asks what it read, the shared page does not.
Mark(h) ==
    /\ At(h, "mark")
    /\ LET c == job[h].call
           inObject == job[h].kind = "portal" /\ job[h].blob
       IN  IF Visible(c)
           THEN /\ row' = [row EXCEPT ![c].marker = TRUE,
                                      ![c].translated = IF inObject THEN @ ELSE TRUE]
                /\ missed' = IF row[c].blob /\ ~job[h].blob THEN missed \cup {c} ELSE missed
                /\ masked' = IF job[h].blob /\ ~inObject THEN masked \cup {c} ELSE masked
           ELSE UNCHANGED <<row, missed, masked>>
    /\ Done(h)
    /\ UNCHANGED <<object, age, month, over, stranded, faults>>

--------------------------------------------------------------------------------
(* Time and faults.                                                        *)

Ages(c) ==
    /\ age[c] # "expired"
    /\ age' = [age EXCEPT ![c] = IF @ = "young" THEN "old" ELSE "expired"]
    /\ UNCHANGED <<row, object, month, over, job, historyVars, faults>>

\* The end of a month is past the cutoff after every call of it.
MonthEnds(m) ==
    /\ m \notin over
    /\ \A c \in Calls : MonthOf[c] = m => age[c] = "expired"
    /\ over' = over \cup {m}
    /\ UNCHANGED <<row, object, age, month, job, historyVars, faults>>

Fault == faults < MaxFaults /\ faults' = faults + 1

\* Caught: the row is left for the next sweep.
PutFails(h) ==
    /\ At(h, "archive")
    /\ Fault
    /\ \E c \in job[h].todo : Archived(h, job[h].todo \ {c}, job[h].keys, job[h].kind)
    /\ UNCHANGED <<row, object, age, month, over, historyVars>>

\* The batch is rejected, the puts under way go on.
UpdateFails(h) ==
    /\ At(h, "archive")
    /\ Fault
    /\ \E c \in job[h].keys : Archived(h, job[h].todo, job[h].keys \ {c}, "rest")
    /\ UNCHANGED <<row, object, age, month, over, historyVars>>

\* Best effort: the row goes all the same.
DeleteFails(h) ==
    /\ At(h, "deleteObjects")
    /\ Fault
    /\ \E c \in job[h].keys : Deleted(h, c) /\ stranded' = stranded \cup {c}
    /\ UNCHANGED <<row, object, age, month, over, missed, masked>>

\* A read that fails is a missing object.
GetFails(h) ==
    /\ At(h, "hydrate") \/ At(h, "cacheGet")
    /\ Fault
    /\ Goto(h, IF At(h, "hydrate") THEN "translate" ELSE "mark")
    /\ missed' = missed \cup {job[h].call}
    /\ UNCHANGED <<row, object, age, month, over, masked, stranded>>

\* Any other failure ends the handler, as its process's death does.
Crash(h) ==
    /\ ~At(h, "idle")
    /\ Fault
    /\ Done(h)
    /\ UNCHANGED <<row, object, age, month, over, historyVars>>

--------------------------------------------------------------------------------
HandlerStep(h) ==
    \/ ListMonths(h) \/ Detach(h)    \/ DropTable(h)    \/ List(h)       \/ Put(h)
    \/ Update(h)     \/ PruneList(h) \/ DeleteObject(h) \/ DeleteRows(h) \/ Hydrate(h)
    \/ Translate(h)  \/ CacheGet(h)  \/ CachePut(h)     \/ Mark(h)

Next ==
    \/ \E c \in Calls : Ages(c)
    \/ \E m \in Months : MonthEnds(m)
    \/ \E h \in Handlers :
          \/ Sweep(h)
          \/ \E c \in Calls : View(h, c, "portal") \/ View(h, c, "public")
          \/ HandlerStep(h)
          \/ PutFails(h) \/ UpdateFails(h) \/ DeleteFails(h) \/ GetFails(h) \/ Crash(h)

Spec == Init /\ [][Next]_vars

\* A running handler goes on, and the nightly timer starts a sweep.
Fairness ==
    /\ \A h \in Handlers : WF_vars(HandlerStep(h))
    /\ SF_vars(\E h \in Handlers : Sweep(h))

FairSpec == Spec /\ Fairness

--------------------------------------------------------------------------------
(* Properties.                                                             *)

Jobs == [step : Steps, kind : {"none", "sweep", "rest", "portal", "public"},
         months : SUBSET Months, month : Months \cup {NoMonth}, todo : SUBSET Calls,
         keys : SUBSET Calls, texts : SUBSET Calls, translations : SUBSET Calls,
         call : Calls \cup {NoCall}, blob : BOOLEAN, marker : BOOLEAN]

\* Every row, object and handler keeps its shape.
TypeOK ==
    /\ row \in [Calls -> [there : BOOLEAN, transcript : BOOLEAN, translated : BOOLEAN,
                          marker : BOOLEAN, blob : BOOLEAN]]
    /\ object \in [Calls -> [there : BOOLEAN, transcript : BOOLEAN, translated : BOOLEAN]]
    /\ age \in [Calls -> {"young", "old", "expired"}]
    /\ month \in [Months -> {"attached", "detached", "dropped"}]
    /\ over \subseteq Months
    /\ job \in [Handlers -> Jobs]
    /\ missed \subseteq Calls
    /\ masked \subseteq Calls
    /\ stranded \subseteq Calls
    /\ faults \in 0..MaxFaults

\* A call within its retention keeps its row (it carries billed minutes) and
\* its transcript, in its columns or in the object its row names, whatever
\* sweep or view fails, dies or runs twice (callArchive.ts "the other order
\* destroys transcripts").
RetainedIsWhole ==
    \A c \in Calls :
        age[c] # "expired" =>
            /\ Visible(c)
            /\ \/ row[c].transcript
               \/ row[c].blob /\ object[c].there /\ object[c].transcript

Served(c) ==
    IF row[c].blob THEN object[c].there /\ object[c].translated ELSE row[c].translated

\* A translation that was paid for and marked is served by the next read,
\* unless it was stored across an archiving or by the shared page.
TranslationIsServed ==
    \A c \in Calls :
        age[c] # "expired" /\ row[c].marker
            => Served(c) \/ c \in missed \/ c \in masked

\* An object outlives its call only where a month was dropped with its rows,
\* an archiving or a translation raced the prune, or the delete failed
\* (callArchive.ts "deleting the row first strands the object forever").
NoObjectLeft ==
    \A c \in Calls : object[c].there /\ ~Visible(c) => c \in stranded

\* An expired call goes, whatever an earlier sweep died of.
ExpiredGoes == \A c \in Calls : age[c] = "expired" ~> ~Visible(c)
================================================================================
