-------------------------- MODULE MCRlcAmStatusPdu --------------------------
EXTENDS RlcAmStatusPdu
=============================================================================
