------------------------------- MODULE MCRlcAm -------------------------------
EXTENDS RlcAm
=============================================================================
