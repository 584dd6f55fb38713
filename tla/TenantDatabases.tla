---------------------------- MODULE TenantDatabases ----------------------------
(***************************************************************************)
(* The databases of the tenants: a main-domain sign-up gets a brand row    *)
(* and a database of its own, from the pool of spares or made for it, and  *)
(* a brand that is abandoned, deactivated or deleted loses both again.     *)
(*                                                                         *)
(* verifyPlatformSignup (routes/auth.routes.ts), customerBrandFor and      *)
(* runAbandonedSignupSweep (services/platformCustomers.ts), claimSpare and *)
(* refillCustomerPool (services/customerPool.ts), provisionBrandDatabase   *)
(* and destroyBrandDatabase (services/tenantProvisioning.ts), the doors of *)
(* services/brandDeactivation.ts, the one-time code of services/otp.ts.    *)
(*                                                                         *)
(* Every call to Main's database, to a tenant's database and to the        *)
(* database provider is a step of its own.  A code is a number that no     *)
(* other code of its email still in somebody's hands has; an email has at  *)
(* most one that has not been replaced.                                    *)
(***************************************************************************)
EXTENDS Integers, FiniteSets, Functions

CONSTANTS
    Brands,         \* brand rows there may ever be
    Emails,         \* people who sign up
    NoBrand,        \* a handler without a brand
    NoEmail,        \* a spare's row, a database without an account
    Handlers,       \* handlers at work at the same time
    Target,         \* spares kept ready
    MaxProjects,    \* bound on databases made
    MaxCodes,       \* bound on codes of an email that are told apart
    MaxStarts,      \* bound on codes asked for before the last one has expired
    MaxRemovals,    \* bound on rows that age, are deactivated or deleted
    MaxFaults       \* bound on failed calls and dead handlers

DatabaseAssumption ==
    /\ IsFiniteSet(Brands)
    /\ NoBrand \notin Brands
    /\ NoEmail \notin Emails
    /\ Target \in Nat
    /\ MaxProjects \in Nat
    /\ MaxCodes \in Nat
    /\ MaxStarts \in Nat
    /\ MaxRemovals \in Nat
    /\ MaxFaults \in Nat

ASSUME DatabaseAssumption

VARIABLES
    brand,          \* Main: the brand rows
    base,           \* Main: the brand_databases row of each brand
    directory,      \* Main: the directory's account of each brand
    code,           \* Main: the verification code of each email
    store,          \* the provider: every database made
    made,           \* databases made so far
    job,            \* what each handler is doing
    raced,          \* history: brands on which two handlers crossed (Begins)
    strayed,        \* history: databases whose maker failed before recording them
    starts,         \* codes asked for so far, but for those that replaced a dead one
    removals,       \* rows aged, deactivated or deleted so far
    faults          \* faults so far

mainVars == <<brand, base, directory, code>>
boundVars == <<starts, removals, faults>>
vars == <<mainVars, store, made, job, raced, strayed, boundVars>>

--------------------------------------------------------------------------------
Projects == 1..MaxProjects

NoRow == [status |-> "none", email |-> NoEmail, spare |-> FALSE, stuck |-> FALSE,
          aged |-> FALSE, due |-> FALSE, activated |-> FALSE]

NewRow(email) == [NoRow EXCEPT !.status = "provisioning", !.email = email,
                               !.spare = email = NoEmail]

NoBase == [project |-> 0, status |-> "none"]

NoCode == [id |-> 0, state |-> "none"]

\* Accepted still.  A code in use was sent before its email's row was made.
Valid == {"sent", "in use"}

NoStore == [live |-> FALSE, brand |-> NoBrand, account |-> NoEmail, planned |-> FALSE]

Provisioning == {"dbRead", "project", "record", "migrate", "seed", "cutover", "dbFailed",
                 "rowActive", "rowFailed"}

Removing == {"dropRead", "drop", "forget", "dropRow"}

Steps == {"idle", "findRow", "claimSpare", "createRow", "consume", "account", "mirror",
          "look", "stamp", "refill"} \cup Provisioning \cup Removing

\* kind: what the handler does.  brand, project: what it works on.  email,
\* code: the sign-up it completes.  listed, short: the spares a refill has still
\* to set up again and to make.  planned (a history variable): the database
\* of a row the abandoned sweep listed, if its owner had started a plan by then.
Idle == [step |-> "idle", kind |-> "none", brand |-> NoBrand, project |-> 0, email |-> NoEmail,
         code |-> 0, planned |-> 0, listed |-> {}, short |-> 0]

At(w, step) == job[w].step = step

Become(w, r) == job' = [job EXCEPT ![w] = r]

Goto(w, step) == Become(w, [job[w] EXCEPT !.step = step])

Done(w) == Become(w, Idle)

WorksOn(w, b) == job[w].brand = b /\ job[w].step \in Provisioning \cup Removing

Others(w, b) == {v \in Handlers \ {w} : WorksOn(v, b)}

\* Handler w turns to brand b's database, to set it up: a race if another one
\* removes it, or sets it up too and has not recorded a database yet.
Begins(w, b) ==
    raced' = IF \E v \in Others(w, b) : base[b].project = 0 \/ job[v].step \in Removing
             THEN raced \cup {b} ELSE raced

\* To remove it: a race if any other one works on it.
BeginsRemoval(w, b) == raced' = IF Others(w, b) # {} THEN raced \cup {b} ELSE raced

\* An id is never given out again.
Exists(b) == brand[b].status \notin {"none", "gone"}

Unused(b) == brand[b].status = "none"

\* Mutant: a label with a random part, another one for every attempt.
NoRowOf(email) == {b \in Brands : FALSE /\ brand[b].email = email}

\* The row with the email's label, which is unique.
RowOf(email) == {b \in Brands : Exists(b) /\ brand[b].email = email}

\* A write to a brand's row: its updatedAt is now.
Write(b, r) == brand' = [brand EXCEPT ![b] = [r EXCEPT !.stuck = FALSE]]

Account(email) == \E b \in Brands : Exists(b) /\ directory[b] = email

Init ==
    /\ brand = [b \in Brands |-> NoRow]
    /\ base = [b \in Brands |-> NoBase]
    /\ directory = [b \in Brands |-> NoEmail]
    /\ code = [e \in Emails |-> NoCode]
    /\ store = [p \in Projects |-> NoStore]
    /\ made = 0
    /\ job = [w \in Handlers |-> Idle]
    /\ raced = {}
    /\ strayed = {}
    /\ starts = 0
    /\ removals = 0
    /\ faults = 0

--------------------------------------------------------------------------------
(* A main-domain sign-up.                                                  *)

\* The codes that a sign-up in progress was verified with.
InHand(e) == {job[w].code : w \in {v \in Handlers : job[v].kind = "signup" /\ job[v].email = e}}

Least(S) == {n \in S : \A m \in S : n <= m}

\* register/start and resend: a new code replaces the one before it.  A person
\* asks for one too many, or while a sign-up of theirs is under way, now and
\* then: those are counted.
Start(e) ==
    /\ ~Account(e)
    /\ starts' = IF code[e].state = "expired" /\ InHand(e) = {} THEN starts ELSE starts + 1
    /\ starts' <= MaxStarts
    /\ \E n \in Least((1..MaxCodes) \ InHand(e)) :
          code' = [code EXCEPT ![e] = [id |-> n, state |-> "sent"]]
    /\ UNCHANGED <<brand, base, directory, store, made, job, raced, strayed, removals, faults>>

\* Ten minutes go by, or five wrong guesses: the code is refused from now on.
Expire(e) ==
    /\ code[e].state \in Valid
    /\ code' = [code EXCEPT ![e].state = "expired"]
    /\ UNCHANGED <<brand, base, directory, store, made, job, raced, strayed, boundVars>>

\* platformAccountFor and verifyOtp are read together; an account that exists
\* only gets its session again.
Verify(w, e) ==
    /\ At(w, "idle")
    /\ ~Account(e)
    /\ code[e].state \in Valid
    /\ Become(w, [Idle EXCEPT !.step = "findRow", !.kind = "signup", !.email = e,
                              !.code = code[e].id])
    /\ UNCHANGED <<mainVars, store, made, raced, strayed, boundVars>>

\* Mutant: a setup that died is not told from one that is running.
FoundFailedOnly(w, b) ==
    IF brand[b].status = "failed"
    THEN /\ Become(w, [job[w] EXCEPT !.step = "dbRead", !.brand = b])
         /\ Begins(w, b)
    ELSE /\ IF brand[b].status = "active"
            THEN Become(w, [job[w] EXCEPT !.step = "consume", !.brand = b])
            ELSE Done(w)
         /\ UNCHANGED raced

\* The row is ready, may be set up again, or is told to wait.
Found(w, b) ==
    IF brand[b].status = "failed" \/ (brand[b].status = "provisioning" /\ brand[b].stuck)
    THEN /\ Become(w, [job[w] EXCEPT !.step = "dbRead", !.brand = b])
         /\ Begins(w, b)
    ELSE /\ IF brand[b].status = "active"
            THEN Become(w, [job[w] EXCEPT !.step = "consume", !.brand = b])
            ELSE Done(w)
         /\ UNCHANGED raced

FindRow(w) ==
    /\ At(w, "findRow")
    /\ \/ \E b \in RowOf(job[w].email) : Found(w, b)
       \/ RowOf(job[w].email) = {} /\ Goto(w, "claimSpare") /\ UNCHANGED raced
    /\ UNCHANGED <<mainVars, store, made, strayed, boundVars>>

\* Mutant: a ready row is claimed, spare or not.
ReadyRows == {b \in Brands : brand[b].status = "active"}

ReadySpares == {b \in Brands : brand[b].spare /\ brand[b].status = "active"}

\* One statement renames a ready spare; the label is unique.
ClaimSpare(w) ==
    /\ At(w, "claimSpare")
    /\ \/ /\ RowOf(job[w].email) = {}
          /\ \E b \in ReadySpares :
                /\ Write(b, [brand[b] EXCEPT !.spare = FALSE, !.email = job[w].email,
                                             !.aged = FALSE])
                /\ Become(w, [job[w] EXCEPT !.step = "consume", !.brand = b])
       \/ /\ RowOf(job[w].email) # {} /\ ReadySpares # {}
          /\ Done(w)
          /\ UNCHANGED brand
       \/ /\ ReadySpares = {}
          /\ Goto(w, "createRow")
          /\ UNCHANGED brand
    /\ UNCHANGED <<base, directory, code, store, made, raced, strayed, boundVars>>

\* Two verifies racing: the one that finds the label taken uses that row.
CreateRow(w) ==
    /\ At(w, "createRow")
    /\ \/ /\ RowOf(job[w].email) = {}
          /\ \E b \in Brands :
                /\ Unused(b)
                /\ brand' = [brand EXCEPT ![b] = NewRow(job[w].email)]
                /\ code' = [code EXCEPT ![job[w].email].state =
                                            IF @ = "sent" THEN "in use" ELSE @]
                /\ Become(w, [job[w] EXCEPT !.step = "dbRead", !.brand = b])
                /\ Begins(w, b)
       \/ \E b \in RowOf(job[w].email) :
             /\ Become(w, [job[w] EXCEPT !.step = "dbRead", !.brand = b])
             /\ Begins(w, b)
             /\ UNCHANGED <<brand, code>>
       \/ (\A b \in Brands : ~Unused(b)) /\ RowOf(job[w].email) = {}
             /\ Done(w) /\ UNCHANGED <<brand, code, raced>>
    /\ UNCHANGED <<base, directory, store, made, strayed, boundVars>>

\* markOtpConsumed: only the first caller's update matches, and an expired code
\* is not refused any more.
Consume(w) ==
    /\ At(w, "consume")
    /\ IF code[job[w].email].id = job[w].code /\ code[job[w].email].state # "used"
       THEN /\ code' = [code EXCEPT ![job[w].email].state = "used"]
            /\ Goto(w, "account")
       ELSE /\ Done(w)
            /\ UNCHANGED code
    /\ UNCHANGED <<brand, base, directory, store, made, raced, strayed, boundVars>>

\* tenantFor: the brand's database row is active, and the database answers.
Opens(b) == base[b].status = "active" /\ store[base[b].project].live

\* createUser: refused when the account is there already.
CreateAccount(w) ==
    /\ At(w, "account")
    /\ LET b == job[w].brand
           p == base[b].project
       IN  IF Opens(b) /\ store[p].account = NoEmail
           THEN /\ store' = [store EXCEPT ![p].account = job[w].email]
                /\ Goto(w, "mirror")
           ELSE /\ Done(w)
                /\ UNCHANGED store
    /\ UNCHANGED <<mainVars, made, raced, strayed, boundVars>>

Mirror(w) ==
    /\ At(w, "mirror")
    /\ directory' = IF Exists(job[w].brand)
                    THEN [directory EXCEPT ![job[w].brand] = job[w].email] ELSE directory
    /\ Done(w)
    /\ UNCHANGED <<brand, base, code, store, made, raced, strayed, boundVars>>

\* The owner starts a plan or a trial, in the account's own database.
StartPlan(b) ==
    /\ Opens(b)
    /\ store[base[b].project].account # NoEmail
    /\ ~store[base[b].project].planned
    /\ store' = [store EXCEPT ![base[b].project].planned = TRUE]
    /\ UNCHANGED <<mainVars, made, job, raced, strayed, boundVars>>

--------------------------------------------------------------------------------
(* provisionBrandDatabase, inside provisionBrand.                          *)

\* Mutant: a half-finished setup starts over with a database of its own.
DbReadStartsOver(w) ==
    /\ At(w, "dbRead")
    /\ LET b == job[w].brand
       IN  Goto(w, IF ~Exists(b) THEN "rowFailed"
                   ELSE IF base[b].status = "active" THEN "rowActive" ELSE "project")
    /\ UNCHANGED <<mainVars, store, made, raced, strayed, boundVars>>

\* A half-finished row resumes with the database it has.
DbRead(w) ==
    /\ At(w, "dbRead")
    /\ LET b == job[w].brand
       IN  Become(w, [job[w] EXCEPT
             !.step = IF ~Exists(b) THEN "rowFailed"
                      ELSE IF base[b].status = "active" THEN "rowActive"
                      ELSE IF base[b].project # 0 THEN "record" ELSE "project",
             !.project = base[b].project])
    /\ UNCHANGED <<mainVars, store, made, raced, strayed, boundVars>>

\* createTenantProject makes another database on every call.
MakeProject(w) ==
    /\ At(w, "project")
    /\ IF made < MaxProjects
       THEN /\ made' = made + 1
            /\ store' = [store EXCEPT ![made + 1] = [NoStore EXCEPT !.live = TRUE,
                                                                    !.brand = job[w].brand]]
            /\ Become(w, [job[w] EXCEPT !.step = "record", !.project = made + 1])
       ELSE /\ Goto(w, "rowFailed")
            /\ UNCHANGED <<store, made>>
    /\ UNCHANGED <<mainVars, raced, strayed, boundVars>>

Record(w) ==
    /\ At(w, "record")
    /\ LET b == job[w].brand
       IN  IF Exists(b)
           THEN /\ base' = [base EXCEPT ![b] = [project |-> job[w].project,
                                                status |-> "provisioning"]]
                /\ Goto(w, "migrate")
           ELSE /\ Goto(w, "rowFailed")
                /\ UNCHANGED base
    /\ UNCHANGED <<brand, directory, code, store, made, raced, strayed, boundVars>>

BaseIs(b, status) ==
    base' = IF base[b].project = 0 THEN base ELSE [base EXCEPT ![b].status = status]

\* The schema, in the database that was made or resumed.
Migrate(w) ==
    /\ At(w, "migrate")
    /\ LET b == job[w].brand
       IN  IF store[job[w].project].live /\ base[b].project # 0
           THEN BaseIs(b, "migrating") /\ Goto(w, "seed")
           ELSE UNCHANGED base /\ Goto(w, "dbFailed")
    /\ UNCHANGED <<brand, directory, code, store, made, raced, strayed, boundVars>>

\* The directory is rebuilt from the people in that database.
Seed(w) ==
    /\ At(w, "seed")
    /\ LET b == job[w].brand
       IN  IF store[job[w].project].live /\ Exists(b)
           THEN /\ directory' = [directory EXCEPT ![b] = store[job[w].project].account]
                /\ Goto(w, "cutover")
           ELSE /\ Goto(w, "dbFailed")
                /\ UNCHANGED directory
    /\ UNCHANGED <<brand, base, code, store, made, raced, strayed, boundVars>>

Cutover(w) ==
    /\ At(w, "cutover")
    /\ LET b == job[w].brand
       IN  IF base[b].project # 0
           THEN BaseIs(b, "active") /\ Goto(w, "rowActive")
           ELSE UNCHANGED base /\ Goto(w, "dbFailed")
    /\ UNCHANGED <<brand, directory, code, store, made, raced, strayed, boundVars>>

DbFailed(w) ==
    /\ At(w, "dbFailed")
    /\ BaseIs(job[w].brand, "failed")
    /\ Goto(w, "rowFailed")
    /\ UNCHANGED <<brand, directory, code, store, made, raced, strayed, boundVars>>

\* A refill goes on to the next spare.
GoOn(w) == Become(w, [job[w] EXCEPT !.step = "refill", !.brand = NoBrand, !.project = 0,
                                    !.listed = @ \ {job[w].brand}])

\* A sign-up goes on to its account, an admin's Retry is done.
RowActive(w) ==
    /\ At(w, "rowActive")
    /\ LET b == job[w].brand
       IN  IF Exists(b)
           THEN /\ Write(b, [brand[b] EXCEPT !.status = "active"])
                /\ CASE job[w].kind = "signup" -> Goto(w, "consume")
                     [] job[w].kind = "refill" -> GoOn(w)
                     [] OTHER                  -> Done(w)
           ELSE /\ Done(w)
                /\ UNCHANGED brand
    /\ UNCHANGED <<base, directory, code, store, made, raced, strayed, boundVars>>

\* A refill stops at the first new spare that fails.
RowFailed(w) ==
    /\ At(w, "rowFailed")
    /\ LET b == job[w].brand
       IN  IF Exists(b)
           THEN Write(b, [brand[b] EXCEPT !.status = "failed"])
           ELSE UNCHANGED brand
    /\ IF Exists(job[w].brand) /\ job[w].brand \in job[w].listed THEN GoOn(w) ELSE Done(w)
    /\ UNCHANGED <<base, directory, code, store, made, raced, strayed, boundVars>>

--------------------------------------------------------------------------------
(* refillCustomerPool, one run at a time, and the admin's Retry.           *)

Provision(w, b, kind) ==
    /\ Become(w, [Idle EXCEPT !.step = "dbRead", !.kind = kind, !.brand = b])
    /\ Begins(w, b)

Refilling == \E v \in Handlers : job[v].kind = "refill"

Abandoned(b) == brand[b].status = "failed" \/ (brand[b].status = "provisioning" /\ brand[b].stuck)

\* The spares are listed once: the abandoned ones, and how many are missing.
Refill(w) ==
    LET spares == {b \in Brands : brand[b].spare}
        short  == Target - Cardinality(spares)
    IN  /\ At(w, "idle")
        /\ ~Refilling
        /\ Target # 0
        /\ short > 0 \/ \E b \in spares : Abandoned(b)
        /\ Become(w, [Idle EXCEPT !.step = "refill", !.kind = "refill",
                                  !.listed = {b \in spares : Abandoned(b)},
                                  !.short = IF short > 0 THEN short ELSE 0])
        /\ UNCHANGED <<mainVars, store, made, raced, strayed, boundVars>>

\* Those listed are set up again, one by one, then the missing ones are made.
NextSpare(w) ==
    /\ At(w, "refill")
    /\ \/ \E b \in job[w].listed :
             /\ Become(w, [job[w] EXCEPT !.step = "dbRead", !.brand = b])
             /\ Begins(w, b)
             /\ UNCHANGED brand
       \/ /\ job[w].listed = {} /\ job[w].short # 0
          /\ \E b \in Brands :
                /\ Unused(b)
                /\ brand' = [brand EXCEPT ![b] = NewRow(NoEmail)]
                /\ Become(w, [job[w] EXCEPT !.step = "dbRead", !.brand = b, !.short = @ - 1])
                /\ Begins(w, b)
       \/ /\ job[w].listed = {}
          /\ job[w].short = 0 \/ \A b \in Brands : ~Unused(b)
          /\ Done(w)
          /\ UNCHANGED <<brand, raced>>
    /\ UNCHANGED <<base, directory, code, store, made, strayed, boundVars>>

Retry(w, b) ==
    /\ At(w, "idle")
    /\ brand[b].status \in {"provisioning", "failed"}
    /\ Provision(w, b, "retry")
    /\ UNCHANGED <<mainVars, store, made, strayed, boundVars>>

--------------------------------------------------------------------------------
(* Brands that go: abandoned, deactivated for 30 days, deleted.            *)

Remove(w, b, kind) ==
    /\ Become(w, [Idle EXCEPT !.step = "dropRead", !.kind = kind, !.brand = b])
    /\ BeginsRemoval(w, b)

\* runAbandonedSignupSweep, one listed row: its status as it was listed.
ListAbandoned(w, b) ==
    /\ At(w, "idle")
    /\ brand[b].aged /\ ~brand[b].spare /\ ~brand[b].activated
    /\ IF brand[b].status = "failed"
       THEN Remove(w, b, "abandoned")
       ELSE /\ brand[b].status = "active"
            /\ Become(w, [Idle EXCEPT !.step = "look", !.kind = "abandoned", !.brand = b,
                            !.planned = IF Opens(b) /\ store[base[b].project].planned
                                        THEN base[b].project ELSE 0])
            /\ UNCHANGED raced
    /\ UNCHANGED <<mainVars, store, made, strayed, boundVars>>

\* Mutant: only Main's stamp is asked, and no billing path writes it.
LookAtStamp(w) ==
    /\ At(w, "look")
    /\ Goto(w, "dropRead")
    /\ BeginsRemoval(w, job[w].brand)
    /\ UNCHANGED <<mainVars, store, made, strayed, boundVars>>

\* everActivated reads the account's own database; one that does not open
\* leaves the row for the next day.
Look(w) ==
    /\ At(w, "look")
    /\ LET b == job[w].brand
       IN  IF ~Opens(b) THEN Done(w) /\ UNCHANGED raced
           ELSE IF store[base[b].project].planned THEN Goto(w, "stamp") /\ UNCHANGED raced
           ELSE Goto(w, "dropRead") /\ BeginsRemoval(w, b)
    /\ UNCHANGED <<mainVars, store, made, strayed, boundVars>>

Stamp(w) ==
    /\ At(w, "stamp")
    /\ LET b == job[w].brand
       IN  IF Exists(b) /\ ~brand[b].activated
           THEN Write(b, [brand[b] EXCEPT !.activated = TRUE])
           ELSE UNCHANGED brand
    /\ Done(w)
    /\ UNCHANGED <<base, directory, code, store, made, raced, strayed, boundVars>>

ListDue(w, b) ==
    /\ At(w, "idle")
    /\ brand[b].status = "deactivated" /\ brand[b].due
    /\ Remove(w, b, "due")
    /\ UNCHANGED <<mainVars, store, made, strayed, boundVars>>

Delete(w, b) ==
    /\ At(w, "idle")
    /\ Exists(b)
    /\ removals < MaxRemovals
    /\ removals' = removals + 1
    /\ Remove(w, b, "delete")
    /\ UNCHANGED <<mainVars, store, made, strayed, starts, faults>>

DropRead(w) ==
    /\ At(w, "dropRead")
    /\ LET p == base[job[w].brand].project
       IN  Become(w, [job[w] EXCEPT !.step = IF p = 0 THEN "dropRow" ELSE "drop",
                                    !.project = p])
    /\ UNCHANGED <<mainVars, store, made, raced, strayed, boundVars>>

\* Mutant: a database already gone stops the removal.
DropOnce(w) ==
    /\ At(w, "drop")
    /\ IF store[job[w].project].live
       THEN /\ store' = [store EXCEPT ![job[w].project].live = FALSE]
            /\ Goto(w, "forget")
       ELSE /\ Done(w)
            /\ UNCHANGED store
    /\ UNCHANGED <<mainVars, made, raced, strayed, boundVars>>

\* One that is already gone is not an error.
Drop(w) ==
    /\ At(w, "drop")
    /\ store' = [store EXCEPT ![job[w].project].live = FALSE]
    /\ Goto(w, "forget")
    /\ UNCHANGED <<mainVars, made, raced, strayed, boundVars>>

Forget(w) ==
    /\ At(w, "forget")
    /\ base' = [base EXCEPT ![job[w].brand] = NoBase]
    /\ Goto(w, "dropRow")
    /\ UNCHANGED <<brand, directory, code, store, made, raced, strayed, boundVars>>

\* The row takes its database row and its directory with it.
DropRow(w) ==
    /\ At(w, "dropRow")
    /\ LET b == job[w].brand
       IN  /\ brand' = [brand EXCEPT ![b] = [NoRow EXCEPT !.status = "gone"]]
           /\ base' = [base EXCEPT ![b] = NoBase]
           /\ directory' = [directory EXCEPT ![b] = NoEmail]
    /\ Done(w)
    /\ UNCHANGED <<code, store, made, raced, strayed, boundVars>>

Deactivate(b) ==
    /\ brand[b].status = "active"
    /\ removals < MaxRemovals
    /\ removals' = removals + 1
    /\ Write(b, [brand[b] EXCEPT !.status = "deactivated"])
    /\ UNCHANGED <<base, directory, code, store, made, job, raced, strayed, starts, faults>>

Reactivate(b) ==
    /\ brand[b].status = "deactivated"
    /\ Write(b, [brand[b] EXCEPT !.status = "active", !.due = FALSE])
    /\ UNCHANGED <<base, directory, code, store, made, job, raced, strayed, boundVars>>

--------------------------------------------------------------------------------
(* Time and faults.                                                        *)

\* A setup is ten minutes old, and so is a code that is older than its row.
Stuck(b) ==
    /\ brand[b].status = "provisioning"
    /\ ~brand[b].stuck
    /\ brand' = [brand EXCEPT ![b].stuck = TRUE]
    /\ code' = [e \in Emails |->
          IF brand[b].email = e /\ code[e].state = "in use"
          THEN [code[e] EXCEPT !.state = "expired"] ELSE code[e]]
    /\ UNCHANGED <<base, directory, store, made, job, raced, strayed, boundVars>>

\* Thirty days have gone since the sign-up.
Ages(b) ==
    /\ Exists(b)
    /\ ~brand[b].aged
    /\ removals < MaxRemovals
    /\ removals' = removals + 1
    /\ brand' = [brand EXCEPT ![b].aged = TRUE]
    /\ UNCHANGED <<base, directory, code, store, made, job, raced, strayed, starts, faults>>

\* Thirty days have gone since the deactivation.
CountdownEnds(b) ==
    /\ brand[b].status = "deactivated"
    /\ ~brand[b].due
    /\ brand' = [brand EXCEPT ![b].due = TRUE]
    /\ UNCHANGED <<base, directory, code, store, made, job, raced, strayed, boundVars>>

\* A database that a handler holds and has not recorded is nobody's now.
Strays(w) ==
    strayed' = IF At(w, "record") /\ base[job[w].brand].project # job[w].project
               THEN strayed \cup {job[w].project} ELSE strayed

\* A failed setup is marked failed, a missing mirror is only logged, the rest
\* is abandoned.
AfterError(w) ==
    IF At(w, "migrate") \/ At(w, "seed") \/ At(w, "cutover") THEN Goto(w, "dbFailed")
    ELSE IF At(w, "dbRead") \/ At(w, "project") \/ At(w, "record") \/ At(w, "dbFailed")
         THEN Goto(w, "rowFailed")
         ELSE Done(w)

CallFails(w) ==
    /\ ~At(w, "idle")
    /\ faults < MaxFaults
    /\ faults' = faults + 1
    /\ Strays(w)
    /\ AfterError(w)
    /\ UNCHANGED <<mainVars, store, made, raced, starts, removals>>

Crash(w) ==
    /\ ~At(w, "idle")
    /\ faults < MaxFaults
    /\ faults' = faults + 1
    /\ Strays(w)
    /\ Done(w)
    /\ UNCHANGED <<mainVars, store, made, raced, starts, removals>>

--------------------------------------------------------------------------------
Begin(w) ==
    \/ Refill(w)
    \/ \E e \in Emails : Verify(w, e)
    \/ \E b \in Brands : Retry(w, b) \/ ListAbandoned(w, b) \/ ListDue(w, b) \/ Delete(w, b)

HandlerStep(w) ==
    \/ FindRow(w)  \/ ClaimSpare(w) \/ CreateRow(w) \/ Consume(w)   \/ CreateAccount(w)
    \/ Mirror(w)   \/ DbRead(w)     \/ MakeProject(w) \/ Record(w)  \/ Migrate(w)
    \/ Seed(w)     \/ Cutover(w)    \/ DbFailed(w)  \/ RowActive(w) \/ RowFailed(w)
    \/ Look(w)     \/ Stamp(w)      \/ DropRead(w)  \/ Drop(w)      \/ Forget(w)
    \/ DropRow(w)  \/ NextSpare(w)

BrandStep(b) ==
    \/ StartPlan(b) \/ Deactivate(b) \/ Reactivate(b) \/ Stuck(b) \/ Ages(b) \/ CountdownEnds(b)

Next ==
    \/ \E e \in Emails : Start(e) \/ Expire(e)
    \/ \E b \in Brands : BrandStep(b)
    \/ \E w \in Handlers : Begin(w) \/ HandlerStep(w) \/ CallFails(w) \/ Crash(w)

Spec == Init /\ [][Next]_vars

\* A running handler goes on, a setup grows old, the person tries again with the
\* code and asks for another when it has expired, and the daily sweep comes round.
Fairness ==
    /\ \A w \in Handlers : WF_vars(HandlerStep(w))
    /\ \A b \in Brands : WF_vars(Stuck(b))
    /\ \A e \in Emails : WF_vars(code[e].state = "expired" /\ Start(e))
    /\ \A e \in Emails : SF_vars(\E w \in Handlers : Verify(w, e))
    /\ \A b \in Brands : SF_vars(\E w \in Handlers : ListDue(w, b))

FairSpec == Spec /\ Fairness

--------------------------------------------------------------------------------
(* Properties.                                                             *)

Rows == [status : {"none", "provisioning", "active", "failed", "deactivated", "gone"},
         email : Emails \cup {NoEmail}, spare : BOOLEAN, stuck : BOOLEAN, aged : BOOLEAN,
         due : BOOLEAN, activated : BOOLEAN]

Bases == [project : 0..MaxProjects,
          status : {"none", "provisioning", "migrating", "active", "failed"}]

Stores == [live : BOOLEAN, brand : Brands \cup {NoBrand}, account : Emails \cup {NoEmail},
           planned : BOOLEAN]

Codes == [id : 0..MaxCodes, state : {"none", "expired", "used"} \cup Valid]

Jobs == [step : Steps,
         kind : {"none", "signup", "refill", "retry", "abandoned", "due", "delete"},
         brand : Brands \cup {NoBrand}, project : 0..MaxProjects, email : Emails \cup {NoEmail},
         code : 0..MaxCodes, planned : 0..MaxProjects,
         listed : SUBSET Brands, short : 0..Target]

\* Every row, database and handler keeps its shape.
TypeOK ==
    /\ brand \in [Brands -> Rows]
    /\ base \in [Brands -> Bases]
    /\ directory \in [Brands -> Emails \cup {NoEmail}]
    /\ code \in [Emails -> Codes]
    /\ store \in [Projects -> Stores]
    /\ made \in 0..MaxProjects
    /\ job \in [Handlers -> Jobs]
    /\ raced \subseteq Brands
    /\ strayed \subseteq 0..MaxProjects
    /\ starts \in 0..MaxStarts
    /\ removals \in 0..MaxRemovals
    /\ faults \in 0..MaxFaults

Recorded(p) ==
    \/ \E b \in Brands : base[b].project = p
    \/ \E w \in Handlers : At(w, "record") /\ job[w].project = p

\* A database that exists is the one its brand's row names, or is about to be:
\* no setup that failed, was tried again or was resumed by two at once, and no
\* removal cut short, leaves one behind that nobody can find (it holds a
\* customer's whole history).  Not covered: its maker failed with it in hand
\* (strayed), or the brand was raced for (Begins, BeginsRemoval).
DatabaseIsRecorded ==
    \A p \in Projects :
        store[p].live /\ ~Recorded(p) => p \in strayed \/ store[p].brand \in raced

\* However often a person verifies, resends and verifies again, whichever spare
\* or row each of the attempts takes, and wherever they cross, one account comes
\* of it.  Not covered: two set-ups of a row that has no database yet, and a
\* removal that crosses a set-up (raced): there two databases can be made.
OneAccountPerEmail ==
    \A p, q \in Projects :
        store[p].live /\ store[q].live /\ store[p].account # NoEmail
            /\ store[p].account = store[q].account
            /\ store[p].brand \notin raced /\ store[q].brand \notin raced
        => p = q

\* The abandoned sign-up sweep drops no database whose owner had started a plan
\* when the sweep listed the row, whoever retries or reactivates the brand in
\* between, unless the removal itself crosses another handler (raced).
SweepKeepsPlans ==
    \A w \in Handlers :
        At(w, "drop") /\ job[w].planned = job[w].project => job[w].brand \in raced

Homes == INSTANCE TenantHomes WITH
             People <- Emails, Nobody <- NoEmail, Databases <- Projects,
             owner <- [b \in Brands |-> brand[b].email],
             closed <- {b \in Brands : brand[b].status = "gone"},
             home <- [p \in Projects |-> store[p].brand],
             open <- {p \in Projects : store[p].live},
             resident <- [p \in Projects |-> store[p].account],
             subscribed <- {p \in Projects : store[p].planned}

\* The tenants are kept apart, whatever crosses, fails or is tried again: no
\* brand and no database is handed on to another person, no account is made in
\* a database that is not its owner's, and one that was dropped never opens
\* again (customerPool.ts "hands two racing sign-ups two different spares,
\* never one").
KeepsTenantsApart == Homes!HomeSpec

\* The model has no database left for the email's row.
OutOfDatabases(e) ==
    /\ made = MaxProjects
    /\ \E b \in RowOf(e) : base[b].project = 0
    /\ \A w \in Handlers : ~At(w, "record")

\* Whatever fails, dies or expires on the way, a person who keeps verifying, and
\* asks for another code when theirs has expired, has one accepted in the end
\* (auth.routes.ts "a slow or failed setup can simply be retried with the same
\* code").  A setup that died is taken up again ten minutes later, when every
\* code it was begun with has expired: that takes another one.
SetupIsRetried ==
    \A e \in Emails :
        code[e].state \in Valid \cup {"expired"}
            ~> code[e].state = "used" \/ Account(e) \/ removals > 0 \/ OutOfDatabases(e)

\* A deactivated brand whose countdown is over goes, or is reactivated, also
\* when its removal was cut short (destroyBrandDatabase "a delete retried after
\* a half-finished one").
DueIsRemoved ==
    \A b \in Brands :
        brand[b].status = "deactivated" /\ brand[b].due
            ~> ~(brand[b].status = "deactivated" /\ brand[b].due)
================================================================================
