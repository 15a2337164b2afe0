----------------------- MODULE MCRlcAmStatusExchange -----------------------
EXTENDS RlcAmStatusExchange
=============================================================================
