------------------------------ MODULE MCFiles ------------------------------
EXTENDS Files
=============================================================================
