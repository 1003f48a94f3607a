--------------------------- MODULE IpcFifoProofs ---------------------------
(***************************************************************************)
(* Proofs about IpcFifo, for every size of the ring and every set of       *)
(* words: the indices agree, and the ring buffer implements Channel.       *)
(***************************************************************************)
EXTENDS IpcFifo, TLAPS, SequenceTheorems

USE FifoAssumption

(* What the refinement needs of a state: types and indices that agree.     *)
IInv == TypeOK /\ IndicesAgree

LEMMA InitInv == Init => IInv
BY DEF Init, IInv, TypeOK, IndicesAgree, SlotFrom, Slots

LEMMA NextInv == IInv /\ [Next]_vars => IInv'
<1> SUFFICES ASSUME IInv, [Next]_vars PROVE IInv'
  OBVIOUS
<1> USE DEF IInv, TypeOK, IndicesAgree, SlotFrom, Slots
<1>1. ASSUME NEW w \in Words, Push(w) PROVE IInv'
  <2>1. CASE IsFull
    BY <1>1, <2>1 DEF Push
  <2>2. CASE ~IsFull
    <3>1. data' \in [Slots -> Words]
      BY <1>1, <2>2 DEF Push
    <3>2. /\ tail' = NextSlot(tail)
          /\ len' = len + 1
          /\ answer' = FALSE
          /\ head' = head
          /\ last' = last
      BY <1>1, <2>2 DEF Push
    <3>3. /\ tail' \in Slots
          /\ len' \in 0 .. Size
          /\ tail' = SlotFrom(head', len')
      BY <2>2, <3>2 DEF NextSlot, IsFull
    <3>4. answer' \in Words \cup BOOLEAN
      BY <3>2
    <3> QED
      BY <3>1, <3>2, <3>3, <3>4
  <2> QED
    BY <2>1, <2>2
<1>2. CASE Pop
  BY <1>2 DEF Pop, NextSlot
<1>3. CASE PeekLast
  BY <1>3 DEF PeekLast
<1>4. CASE Empty
  BY <1>4 DEF Empty
<1>5. CASE UNCHANGED vars
  BY <1>5 DEF vars
<1> QED
  BY <1>1, <1>2, <1>3, <1>4, <1>5 DEF Next

LEMMA Invariant == Spec => []IInv
BY InitInv, NextInv, PTL DEF Spec

(* push, pop, peek_last and empty() keep the indices inside data and len   *)
(* within its size, full, empty and round the end.                         *)
THEOREM IndicesInRange == Spec => []TypeOK
BY Invariant, PTL DEF IInv

(* The indices agree in every reachable state: this is what push, pop and  *)
(* empty() keep up between them.                                           *)
THEOREM IndicesStayRight == Spec => []IndicesAgree
BY Invariant, PTL DEF IInv

----------------------------------------------------------------------------
(* What the reader will get, as a sequence, before a step and after it.    *)
LEMMA FunctionIsSeq ==
    ASSUME NEW n \in Nat, NEW f \in [1 .. n -> Words]
    PROVE  f \in Seq(Words) /\ Len(f) = n
BY SeqDef, LenProperties

LEMMA SlotsFromAre ==
    ASSUME NEW h \in Slots, NEW n \in 0 .. Size
    PROVE  \A k \in 1 .. n : SlotFrom(h, k - 1) \in Slots
BY DEF SlotFrom, Slots

LEMMA ContentsTypedNext ==
    ASSUME IInv'
    PROVE  /\ Contents' \in Seq(Words)
           /\ Len(Contents') = len'
           /\ len' \in Nat
<1>1. len' \in Nat /\ \A k \in 1 .. len' : data'[SlotFrom(head', k - 1)] \in Words
  <2>1. /\ data' \in [Slots -> Words]
        /\ head' \in Slots
        /\ len' \in 0 .. Size
    BY DEF IInv, TypeOK, Slots
  <2>2. \A k \in 1 .. len' : SlotFrom(head', k - 1) \in Slots
    BY <2>1, SlotsFromAre
  <2> QED
    BY <2>1, <2>2
<1>2. Contents' = [k \in 1 .. len' |-> data'[SlotFrom(head', k - 1)]]
  BY DEF Contents, SlotFrom
<1>3. Contents' \in [1 .. len' -> Words]
  BY <1>1, <1>2
<1> QED
  BY <1>1, <1>3, FunctionIsSeq

LEMMA ContentsTyped ==
    ASSUME IInv
    PROVE  /\ Contents \in Seq(Words)
           /\ Len(Contents) = len
           /\ len \in Nat
           /\ \A k \in 1 .. len : Contents[k] = data[SlotFrom(head, k - 1)]
<1>1. len \in Nat /\ \A k \in 1 .. len : data[SlotFrom(head, k - 1)] \in Words
  BY DEF IInv, TypeOK, SlotFrom, Slots
<1>2. Contents \in [1 .. len -> Words]
  BY <1>1 DEF Contents
<1> QED
  BY <1>1, <1>2, FunctionIsSeq DEF Contents

(* A word that is accepted goes behind the others and moves none of them.  *)
LEMMA PushAppends ==
    ASSUME IInv, IInv', NEW w \in Words, Push(w), ~IsFull
    PROVE  Contents' = Append(Contents, w)
<1> USE DEF Contents
<1>1. /\ len' = len + 1
      /\ data' = [data EXCEPT ![tail] = w]
      /\ head' = head
  BY DEF Push
<1>2. \A k \in 1 .. len : SlotFrom(head, k - 1) # tail
  BY DEF IInv, TypeOK, IndicesAgree, SlotFrom, Slots, IsFull
<1>3. \A k \in 1 .. len : data'[SlotFrom(head, k - 1)] = data[SlotFrom(head, k - 1)]
  BY <1>1, <1>2 DEF IInv, TypeOK, SlotFrom, Slots
<1>4. data'[SlotFrom(head, len)] = w
  BY <1>1 DEF IInv, TypeOK, IndicesAgree, Slots
<1>5. \A k \in 1 .. len + 1 : Contents'[k] = IF k <= len THEN Contents[k] ELSE w
  BY <1>1, <1>3, <1>4 DEF IInv, TypeOK, SlotFrom
<1>6. /\ Contents \in Seq(Words) /\ Len(Contents) = len
      /\ Contents' \in Seq(Words) /\ Len(Contents') = len + 1
      /\ len \in Nat
  BY <1>1, ContentsTyped, ContentsTypedNext
<1> HIDE DEF Contents
<1>7. /\ Append(Contents, w) \in Seq(Words)
      /\ Len(Append(Contents, w)) = len + 1
      /\ \A k \in 1 .. len + 1 :
             Append(Contents, w)[k] = IF k <= len THEN Contents[k] ELSE w
  BY <1>6, AppendProperties
<1>8. \A k \in 1 .. len + 1 : Contents'[k] = Append(Contents, w)[k]
  BY <1>5, <1>7
<1> QED
  BY <1>6, <1>7, <1>8, SeqEqual

(* Reading takes the first word away and moves none of the others.         *)
LEMMA PopTakesHead ==
    ASSUME IInv, IInv', Pop, len # 0
    PROVE  /\ Contents # <<>>
           /\ data[head] = Head(Contents)
           /\ Contents' = Tail(Contents)
<1>1. /\ len' = len - 1
      /\ data' = data
      /\ head' = NextSlot(head)
  BY DEF Pop
<1>2. /\ Contents \in Seq(Words) /\ Len(Contents) = len
      /\ Contents' \in Seq(Words) /\ Len(Contents') = len - 1
      /\ len \in Nat
  BY <1>1, ContentsTyped, ContentsTypedNext
<1>3. /\ \A k \in 1 .. len : Contents[k] = data[SlotFrom(head, k - 1)]
      /\ Contents[1] = data[head]
  BY ContentsTyped DEF IInv, TypeOK, SlotFrom, Slots
<1>4. \A k \in 1 .. len - 1 : SlotFrom(head', k - 1) = SlotFrom(head, k)
  BY <1>1 DEF IInv, TypeOK, SlotFrom, Slots, NextSlot
<1>5. \A k \in 1 .. len - 1 : Contents'[k] = data[SlotFrom(head, k)]
  BY <1>1, <1>4 DEF Contents
<1>6. \A k \in 1 .. len - 1 : Contents'[k] = Contents[k + 1]
  <2> SUFFICES ASSUME NEW k \in 1 .. len - 1 PROVE Contents'[k] = Contents[k + 1]
    OBVIOUS
  <2>1. k + 1 \in 1 .. len /\ (k + 1) - 1 = k
    BY <1>2
  <2>2. Contents[k + 1] = data[SlotFrom(head, (k + 1) - 1)]
    BY <1>3, <2>1
  <2> QED
    BY <1>5, <2>1, <2>2
<1>7. Contents # <<>>
  BY <1>2
<1>8. /\ Tail(Contents) \in Seq(Words)
      /\ Len(Tail(Contents)) = len - 1
      /\ Head(Contents) = Contents[1]
      /\ \A k \in 1 .. len - 1 : Tail(Contents)[k] = Contents[k + 1]
  BY <1>2, <1>7, HeadTailProperties
<1>9. \A k \in 1 .. len - 1 : Contents'[k] = Tail(Contents)[k]
  BY <1>6, <1>8
<1>10. Contents' = Tail(Contents)
  BY <1>2, <1>8, <1>9, SeqEqual
<1> QED
  BY <1>3, <1>7, <1>8, <1>10

LEMMA NoneLeft == ASSUME IInv PROVE (Contents = <<>>) <=> (len = 0)
BY ContentsTyped, EmptySeq

----------------------------------------------------------------------------
LEMMA InitRefines == Init => C!Init
<1> SUFFICES ASSUME Init PROVE C!Init
  OBVIOUS
<1>1. Contents = <<>>
  BY InitInv, NoneLeft DEF Init
<1> QED
  BY <1>1 DEF Init, C!Init

LEMMA StepRefines == IInv /\ IInv' /\ [Next]_vars => [C!Next]_(C!vars)
<1> SUFFICES ASSUME IInv, IInv', [Next]_vars PROVE [C!Next]_(C!vars)
  OBVIOUS
<1>1. ASSUME NEW w \in Words, Push(w) PROVE C!Push(w)
  <2>1. Len(Contents) = len /\ len \in 0 .. Size
    BY ContentsTyped DEF IInv, TypeOK
  <2>2. CASE IsFull
    <3>1. Contents' = Contents /\ answer' = TRUE /\ last' = last
      BY <1>1, <2>2 DEF Push, Contents, SlotFrom
    <3> QED
      BY <2>1, <2>2, <3>1 DEF C!Push, IsFull
  <2>3. CASE ~IsFull
    <3>1. Contents' = Append(Contents, w)
      BY <1>1, <2>3, PushAppends
    <3>2. Len(Contents) < Size
      BY <2>1, <2>3 DEF IsFull
    <3> QED
      BY <1>1, <2>3, <3>1, <3>2 DEF C!Push, Push
  <2> QED
    BY <2>2, <2>3
<1>2. ASSUME Pop PROVE C!Pop
  <2>1. CASE len = 0
    <3>1. Contents' = Contents
      BY <1>2, <2>1 DEF Pop, Contents, SlotFrom
    <3> QED
      BY <1>2, <2>1, <3>1, NoneLeft DEF C!Pop, Pop
  <2>2. CASE len # 0
    BY <1>2, <2>2, PopTakesHead DEF C!Pop, Pop
  <2> QED
    BY <2>1, <2>2
<1>3. ASSUME PeekLast PROVE C!PeekLast
  BY <1>3 DEF PeekLast, C!PeekLast, Contents, SlotFrom
<1>4. ASSUME Empty PROVE C!Flush
  <2>1. len' = 0
    BY <1>4 DEF Empty
  <2>2. Contents' = <<>>
    BY <2>1 DEF Contents
  <2> QED
    BY <1>4, <2>2 DEF Empty, C!Flush
<1>5. ASSUME UNCHANGED vars PROVE UNCHANGED C!vars
  BY <1>5 DEF vars, C!vars, Contents, SlotFrom
<1> QED
  BY <1>1, <1>2, <1>3, <1>4, <1>5 DEF Next, C!Next

(* The ring buffer of nds_ipc.cpp implements a bounded first-in first-out  *)
(* channel that refuses words when it is full and repeats the last word    *)
(* when it is empty, for every size of data and every set of words.        *)
THEOREM RingBufferIsAChannel == Spec => ImplementsChannel
<1>1. Spec => []IInv
  BY InitInv, NextInv, PTL DEF Spec
<1> QED
  BY <1>1, InitRefines, StepRefines, PTL DEF Spec, ImplementsChannel, C!Spec
=============================================================================
