------------------------------- MODULE MCWeb -------------------------------
EXTENDS WebSession, TLC
CONSTANTS t1, t2, a1, a2
=============================================================================
