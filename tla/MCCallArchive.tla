------------------------------ MODULE MCCallArchive ------------------------------
EXTENDS CallArchive, TLC
CONSTANTS c1, m1, m2, h1, h2
\* The other month is an older one, whose calls are gone.
LastMonth == [c \in Calls |-> m1]
================================================================================
