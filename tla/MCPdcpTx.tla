------------------------------ MODULE MCPdcpTx ------------------------------
EXTENDS PdcpTx

\* Without retransmissions a second gap takes a fourth SDU.
MCMaxSdus == [mode \in {"am", "um"} |-> IF mode = "am" THEN 3 ELSE 4]

\* After a status transfer in time an AM bearer is as if set up with its COUNT; an UM
\* bearer starts from 0, and below the wrap-around of SN only if set up there.
MCStarts == [mode \in {"am", "um"} |->
               IF mode = "am" THEN {"handover"} ELSE {"active", "handover"}]
=============================================================================
