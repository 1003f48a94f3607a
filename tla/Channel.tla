------------------------------- MODULE Channel -------------------------------
(***************************************************************************)
(* What one direction of the NDS's inter-processor FIFO promises the CPU   *)
(* that writes it and the CPU that reads it: words come out once each, in  *)
(* the order they went in; a word that does not fit is refused and leaves  *)
(* everything as it was; reading an empty channel repeats the last word.   *)
(***************************************************************************)
EXTENDS Integers, Sequences

CONSTANTS Words,      \* 32-bit words
          Zero,       \* the word 0
          Capacity    \* how many words fit

VARIABLES queue,      \* the words on their way, oldest first
          last,       \* the word read last
          answer      \* what the latest call returned

vars == <<queue, last, answer>>

Init ==
    /\ queue = <<>>
    /\ last = Zero
    /\ answer = Zero

Push(w) ==
    /\ UNCHANGED last
    /\ \/ /\ Len(queue) < Capacity
          /\ queue' = Append(queue, w)
          /\ answer' = FALSE
       \/ /\ Len(queue) = Capacity
          /\ answer' = TRUE
          /\ UNCHANGED queue

Pop ==
    \/ /\ queue # <<>>
       /\ queue' = Tail(queue)
       /\ last' = Head(queue)
       /\ answer' = Head(queue)
    \/ /\ queue = <<>>
       /\ answer' = last
       /\ UNCHANGED <<queue, last>>

Flush ==
    /\ queue' = <<>>
    /\ last' = Zero
    /\ UNCHANGED answer

PeekLast ==
    /\ answer' = last
    /\ UNCHANGED <<queue, last>>

Next ==
    \/ \E w \in Words : Push(w)
    \/ Pop
    \/ Flush
    \/ PeekLast

Spec == Init /\ [][Next]_vars
=============================================================================
