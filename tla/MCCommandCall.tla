----------------------------- MODULE MCCommandCall -----------------------------
EXTENDS CommandCall
=============================================================================
