------------------------------- MODULE IpcFifo -------------------------------
(***************************************************************************)
(* IPC_FIFO (jsmooch-lib/src/system/nds/nds_ipc.cpp): the ring buffer of   *)
(* 16 words behind each direction of the NDS's inter-processor FIFO.       *)
(***************************************************************************)
EXTENDS Integers, Sequences

CONSTANTS Words,      \* 32-bit words
          Zero,       \* the word 0
          Size        \* slots of data; 16 in the code

ASSUME FifoAssumption ==
    /\ Zero \in Words
    /\ Size \in Nat \ {0}

VARIABLES data, head, tail, len, last,
          answer      \* what the latest call returned

vars == <<data, head, tail, len, last, answer>>

Slots == 0 .. Size - 1

(* (i + 1) & 15                                                            *)
NextSlotUnwrapped(i) == i + 1    \* faulty: no wrap

NextSlot(i) == IF i = Size - 1 THEN 0 ELSE i + 1

Init ==
    /\ data = [i \in Slots |-> Zero]
    /\ head = 0
    /\ tail = 0
    /\ len = 0
    /\ last = Zero
    /\ answer = Zero

IsFullLate == len > Size    \* faulty: one word too many

IsFull == len = Size

Push(w) ==
    \/ /\ IsFull
       /\ answer' = TRUE
       /\ UNCHANGED <<data, head, tail, len, last>>
    \/ /\ ~IsFull
       /\ data' = [data EXCEPT ![tail] = w]
       /\ tail' = NextSlot(tail)
       /\ len' = len + 1
       /\ answer' = FALSE
       /\ UNCHANGED <<head, last>>

Pop ==
    \/ /\ len = 0
       /\ answer' = last
       /\ UNCHANGED <<data, head, tail, len, last>>
    \/ /\ len # 0
       /\ last' = data[head]
       /\ answer' = data[head]
       /\ len' = len - 1
       /\ head' = NextSlot(head)
       /\ UNCHANGED <<data, tail>>

PeekLast ==
    /\ answer' = last
    /\ UNCHANGED <<data, head, tail, len, last>>

(* empty() clears the first four slots and leaves the others as they are.  *)
Empty ==
    /\ data' = [i \in Slots |-> IF i < 4 THEN Zero ELSE data[i]]
    /\ head' = 0
    /\ tail' = 0
    /\ len' = 0
    /\ last' = Zero
    /\ UNCHANGED answer

Next ==
    \/ \E w \in Words : Push(w)
    \/ Pop
    \/ PeekLast
    \/ Empty

Spec == Init /\ [][Next]_vars

----------------------------------------------------------------------------
(* Properties.                                                             *)

TypeOK ==
    /\ data \in [Slots -> Words]
    /\ head \in Slots
    /\ tail \in Slots
    /\ len \in 0 .. Size
    /\ last \in Words
    /\ answer \in Words \cup BOOLEAN

(* The slot that is k places after slot h, round the end of data.          *)
SlotFrom(h, k) == IF h + k < Size THEN h + k ELSE h + k - Size

(* head, tail and len, which the operations move one by one, agree: tail   *)
(* is len places after head, so a word is never written over one that is   *)
(* still to be read, nor out of the reader's way.                          *)
IndicesAgree == tail = SlotFrom(head, len)

(* The words from head on, round the end of data: what a reader will get.  *)
Contents == [k \in 1 .. len |-> data[SlotFrom(head, k - 1)]]

C == INSTANCE Channel WITH queue <- Contents, Capacity <- Size

(* The ring buffer implements the channel: no word is lost, doubled or     *)
(* reordered when the indices wrap, when a write is refused, or by a flush *)
(* in the middle.                                                          *)
ImplementsChannel == C!Spec
=============================================================================
