------------------------------- MODULE MCXApp -------------------------------
EXTENDS XApp
=============================================================================
