------------------------------ MODULE MCPhoneNumbers ------------------------------
EXTENDS PhoneNumbers, TLC
CONSTANTS u1, u2, n1, n2, w1, w2
\* The first customer holds a number, the second none.
OneHeld == (n1 :> u1) @@ [n \in Numbers |-> NoUser]
================================================================================
