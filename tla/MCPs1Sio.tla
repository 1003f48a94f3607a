------------------------------ MODULE MCPs1Sio ------------------------------
(* A port that is selected and left, acknowledged, read and cleared.         *)
EXTENDS Ps1Sio

Ctrl(dtr, sel, rx, rxIrq) ==
    [dtr |-> dtr, sel |-> sel, tx |-> TRUE, rx |-> rx,
     threshold |-> 2, rxIrq |-> rxIrq, dsrIrq |-> TRUE]

MCControls == {Ctrl(TRUE, 0, TRUE, TRUE), Ctrl(FALSE, 0, FALSE, FALSE), Ctrl(TRUE, 1, TRUE, FALSE)}
MCBytes == {"x01", "x81", "command"}
=============================================================================
