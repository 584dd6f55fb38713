------------------------------ MODULE InvoiceBook ------------------------------
(***************************************************************************)
(* What the platform ledger and the brand wallet promise about one paid    *)
(* invoice, with no handler, no retry and no database in sight: the        *)
(* invoice is booked at most once, with a brand share that never changes;  *)
(* the share is credited at most once and in full; what is taken back on a *)
(* refund only grows.  BrandLedger implements this specification.          *)
(***************************************************************************)
EXTENDS Integers

CONSTANTS
    Invoices,       \* paid Stripe invoices
    AmountPaid      \* [Invoices -> cents], the ceiling of a brand share

VARIABLES
    share,          \* the booked brand share, or Unbooked
    credited,       \* cents credited to the wallet for the invoice
    takenBack       \* cents reversed on refunds of the invoice

bookVars == <<share, credited, takenBack>>

Unbooked == -1

IsBooked(i) == share[i] # Unbooked

BookInit ==
    /\ share = [i \in Invoices |-> Unbooked]
    /\ credited = [i \in Invoices |-> 0]
    /\ takenBack = [i \in Invoices |-> 0]

Book(i) ==
    /\ ~IsBooked(i)
    /\ \E s \in 0..AmountPaid[i] : share' = [share EXCEPT ![i] = s]
    /\ UNCHANGED <<credited, takenBack>>

Credit(i) ==
    /\ share[i] > 0
    /\ credited[i] = 0
    /\ credited' = [credited EXCEPT ![i] = share[i]]
    /\ UNCHANGED <<share, takenBack>>

TakeBack(i) ==
    /\ credited[i] > 0
    /\ \E d \in 1..credited[i] : takenBack' = [takenBack EXCEPT ![i] = @ + d]
    /\ UNCHANGED <<share, credited>>

BookNext == \E i \in Invoices : Book(i) \/ Credit(i) \/ TakeBack(i)

BookSpec == BookInit /\ [][BookNext]_bookVars
================================================================================
