------------------------------ MODULE MCBrandSetup ------------------------------
EXTENDS BrandSetup, TLC
CONSTANTS r1, r2, w1, w2, d1
================================================================================
