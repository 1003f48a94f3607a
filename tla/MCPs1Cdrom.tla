----------------------------- MODULE MCPs1Cdrom -----------------------------
(* Commands of every kind; and those that ask for the tracks while reading.   *)
EXTENDS Ps1Cdrom

MCCommands == {"NOP", "Unlock", "SetLoc", "Play", "Read", "Pause", "GetID", "SetSession"}
MCTracks == {"GetTN", "Read"}
MCMasks == {Levels}
=============================================================================
