------------------------------ MODULE MCWebPages ------------------------------
EXTENDS WebPages
=============================================================================
