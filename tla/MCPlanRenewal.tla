----------------------------- MODULE MCPlanRenewal -----------------------------
EXTENDS PlanRenewal, TLC
CONSTANTS w1, w2
================================================================================
