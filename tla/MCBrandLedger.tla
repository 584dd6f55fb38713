----------------------------- MODULE MCBrandLedger -----------------------------
EXTENDS BrandLedger, TLC
CONSTANTS i1, h1, h2, a1, a2
MCPaid == [i \in Invoices |-> 5]
\* A brand Price at 2 + 1 (share 2 of 5, rounded) and the platform's own.
MCSplits == [i \in Invoices |-> {[base |-> 2, addon |-> 1], [base |-> 3, addon |-> 0]}]
\* A brand Price alone: what bookings that disagree do is the ledger run's.
MCOneSplit == [i \in Invoices |-> {[base |-> 2, addon |-> 1]}]
MCNoRefunds == [i \in Invoices |-> {}]
\* A partial refund, then the whole payment.
MCRefunds == [i \in Invoices |-> {2, 5}]
================================================================================
