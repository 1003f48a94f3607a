------------------------------ MODULE MCNdsIpc ------------------------------
(* The ARM7 sends words, the ARM9 receives them; or the other way round.   *)
EXTENDS NdsIpc

Arm7 == {"arm7"}
Arm9 == {"arm9"}
None == {}
Both == {"arm7", "arm9"}
=============================================================================
