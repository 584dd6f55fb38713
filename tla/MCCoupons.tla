------------------------------- MODULE MCCoupons -------------------------------
EXTENDS Coupons, TLC
CONSTANTS u1, u2, c1, c2, h1, h2
\* A multi-cycle percentage and a first-charge one.
MCCycles == [c \in Codes |-> IF c = c1 THEN 2 ELSE 1]
MCSupply == [c \in Codes |-> 1]
================================================================================
