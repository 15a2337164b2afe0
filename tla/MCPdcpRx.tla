------------------------------ MODULE MCPdcpRx ------------------------------
EXTENDS PdcpRx

Bearer(mode, t) == [rlc_mode |-> mode, t_reordering |-> t]

MCConfigs == {Bearer("am", "finite")} \cup {Bearer("um", t) : t \in {"ms0", "finite", "infinity"}}

\* Two gaps, of which t-Reordering guards one after the other, take four SDUs.
MCMaxEvents == [c \in MCConfigs |-> IF c.rlc_mode = "um" THEN 4 ELSE 3]

\* The retransmissions of an AM bearer repeat PDUs already.
MCMaxFaults == [c \in MCConfigs |-> IF c.rlc_mode = "am" THEN 0 ELSE 1]

\* After a status transfer in time an AM bearer is as if set up with its COUNT; an UM
\* bearer starts from 0, and below the wrap-around of SN only if set up there.
MCStarts == [c \in MCConfigs |->
               IF c.t_reordering = "finite" /\ c.rlc_mode = "um" THEN {"active", "handover"}
               ELSE {"handover"}]
=============================================================================
