------------------------------ MODULE MCPages ------------------------------
EXTENDS Pages, TLC
=============================================================================
