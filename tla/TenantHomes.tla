------------------------------ MODULE TenantHomes -------------------------------
(***************************************************************************)
(* What the platform promises about the homes of its tenants, with no      *)
(* handler, retry or setup status in sight: a brand has one owner for as   *)
(* long as it exists and is never handed on; a database is made for one    *)
(* brand and stays its database; the first account in it, and every plan,  *)
(* is the owner's; a database that was dropped never opens again.          *)
(* TenantDatabases implements this specification.                          *)
(***************************************************************************)
CONSTANTS
    Brands,         \* brands there may ever be
    People,         \* those who may own one
    NoBrand,
    Nobody,
    Databases       \* databases that may ever be made

VARIABLES
    owner,          \* whose brand it is, or Nobody's
    closed,         \* brands that are gone
    home,           \* the brand each database was made for, or NoBrand
    open,           \* databases that exist
    resident,       \* the person with the account in each database, or Nobody
    subscribed      \* databases whose resident has started a plan

homeVars == <<owner, closed, home, open, resident, subscribed>>

HomeInit ==
    /\ owner = [b \in Brands |-> Nobody]
    /\ closed = {}
    /\ home = [d \in Databases |-> NoBrand]
    /\ open = {}
    /\ resident = [d \in Databases |-> Nobody]
    /\ subscribed = {}

\* A brand gets its owner: by a sign-up of its own, or as a spare.
Acquire(b, e) ==
    /\ owner[b] = Nobody
    /\ b \notin closed
    /\ \A c \in Brands : owner[c] # e
    /\ owner' = [owner EXCEPT ![b] = e]
    /\ UNCHANGED <<closed, home, open, resident, subscribed>>

Close(b) ==
    /\ closed' = closed \cup {b}
    /\ owner' = [owner EXCEPT ![b] = Nobody]
    /\ UNCHANGED <<home, open, resident, subscribed>>

Make(b, d) ==
    /\ home[d] = NoBrand
    /\ home' = [home EXCEPT ![d] = b]
    /\ open' = open \cup {d}
    /\ UNCHANGED <<owner, closed, resident, subscribed>>

\* The owner's account, in a database of the brand.
MoveIn(b, d) ==
    /\ owner[b] # Nobody
    /\ home[d] = b
    /\ d \in open
    /\ resident[d] = Nobody
    /\ resident' = [resident EXCEPT ![d] = owner[b]]
    /\ UNCHANGED <<owner, closed, home, open, subscribed>>

Subscribe(d) ==
    /\ d \in open
    /\ resident[d] # Nobody
    /\ subscribed' = subscribed \cup {d}
    /\ UNCHANGED <<owner, closed, home, open, resident>>

Drop(d) ==
    /\ open' = open \ {d}
    /\ UNCHANGED <<owner, closed, home, resident, subscribed>>

HomeNext ==
    \/ \E b \in Brands : Close(b) \/ \E e \in People : Acquire(b, e)
    \/ \E d \in Databases :
          Subscribe(d) \/ Drop(d) \/ \E b \in Brands : Make(b, d) \/ MoveIn(b, d)

HomeSpec == HomeInit /\ [][HomeNext]_homeVars
================================================================================
