----------------------------- MODULE MCNdsTimers -----------------------------
(* One timer of the ARM7, and a timer of the ARM9 with one that cascades.  *)
EXTENDS NdsTimers

MCUsed == {<<"arm7", 0>>, <<"arm9", 0>>, <<"arm9", 1>>}
MCReloads == {1}
MCDividers == {1}
=============================================================================
