------------------------------ MODULE MCIpcFifo ------------------------------
(* A FIFO of five slots wraps, fills, and is longer than the four slots    *)
(* empty() clears; two words are enough to tell one slot from another.     *)
EXTENDS IpcFifo

CONSTANTS w0, w1

MCWords == {w0, w1}
=============================================================================
