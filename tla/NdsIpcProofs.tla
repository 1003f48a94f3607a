--------------------------- MODULE NdsIpcProofs ---------------------------
(***************************************************************************)
(* Proofs about NdsIpc, for every FIFO size and every use of the registers:*)
(* the interrupt line is what the registers say, no interrupt is missed,   *)
(* and the FIFO interrupts follow the edges of their conditions.           *)
(***************************************************************************)
EXTENDS NdsIpc, TLAPS

USE IpcAssumption

(* The three invariants are inductive together: a missed interrupt is      *)
(* excluded because each step that raises a line or lifts a mask either    *)
(* leaves a check behind or interrupts, and the flag that suppresses a     *)
(* check is set only while one is in the list, or lost.                    *)
IInv == TypeOK /\ LineMatches /\ NoMissedInterrupt

LEMMA InitInv == Init => IInv
<1> SUFFICES ASSUME Init PROVE IInv
  OBVIOUS
<1>1. TypeOK
  <2>1. len \in [CPUs -> 0 .. Size]
    BY DEF Init
  <2>2. IRF \in [CPUs -> SUBSET AllInterrupts] /\ IE \in [CPUs -> SUBSET AllInterrupts]
    BY DEF Init
  <2> QED
    BY <2>1, <2>2 DEF Init, TypeOK
<1>2. LineMatches
  BY DEF Init, LineMatches
<1>3. NoMissedInterrupt
  BY DEF Init, NoMissedInterrupt
<1> QED
  BY <1>1, <1>2, <1>3 DEF IInv

LEMMA PeerOther ==
    ASSUME NEW c \in CPUs
    PROVE  Peer(c) \in CPUs /\ Peer(c) # c /\ Peer(Peer(c)) = c
BY DEF Peer, CPUs

LEMMA InterruptTypes ==
    ASSUME NEW c \in CPUs
    PROVE  Interrupts(c) \subseteq AllInterrupts
BY DEF Interrupts, AllInterrupts

(* What the interrupt variables have to satisfy.                           *)
IrqTypes ==
    /\ turn \in CPUs \cup {"host", "events"}
    /\ checks \subseteq CPUs \cup {"flagged"}
    /\ checkFlag \in BOOLEAN
    /\ IRF \in [CPUs -> SUBSET AllInterrupts]
    /\ IE \in [CPUs -> SUBSET AllInterrupts]
    /\ IME \in [CPUs -> BOOLEAN]
    /\ line \in [CPUs -> BOOLEAN]
    /\ masked \in [CPUs -> BOOLEAN]
    /\ halted \in [CPUs -> BOOLEAN]
    /\ unevaluated \subseteq CPUs

FifoTypes ==
    /\ len \in [CPUs -> 0 .. Size]
    /\ sendIrq \in [CPUs -> BOOLEAN]
    /\ recvIrq \in [CPUs -> BOOLEAN]
    /\ fifoEnable \in [CPUs -> BOOLEAN]
    /\ syncIrq \in [CPUs -> BOOLEAN]

IrqInv == IrqTypes /\ LineMatches /\ NoMissedInterrupt

LEMMA Split == IInv <=> IrqInv /\ FifoTypes
BY DEF IInv, TypeOK, IrqInv, IrqTypes, FifoTypes

LEMMA SplitNext == IrqInv' /\ FifoTypes' => IInv'
BY DEF IInv, TypeOK, IrqInv, IrqTypes, FifoTypes

(* The turn is handed on properly after every instruction.                 *)
TurnTyped == turn' \in CPUs \cup {"host", "events"}

----------------------------------------------------------------------------
(* Evaluating the line keeps the interrupt invariant, whoever does it.     *)
LEMMA EvaluateKeeps ==
    ASSUME IrqInv, TurnTyped, UNCHANGED checkFlag,
           NEW c \in CPUs, NEW f \in SUBSET AllInterrupts,
           NEW e \in SUBSET AllInterrupts, NEW m \in BOOLEAN,
           Evaluate(c, f, e, m)
    PROVE  IrqInv'
<1> USE DEF IrqInv, IrqTypes, TurnTyped
<1>1. /\ IRF' \in [CPUs -> SUBSET AllInterrupts]
      /\ IE' \in [CPUs -> SUBSET AllInterrupts]
      /\ IME' \in [CPUs -> BOOLEAN]
      /\ unevaluated' \subseteq CPUs
      /\ checks' \subseteq CPUs \cup {"flagged"}
  BY DEF Evaluate
<1>2. line' \in [CPUs -> BOOLEAN]
  BY DEF Evaluate
<1>3. masked' \in [CPUs -> BOOLEAN]
  BY DEF Evaluate, Interrupt
<1>4. halted' \in [CPUs -> BOOLEAN]
  BY DEF Evaluate, Interrupt
<1>5. IrqTypes'
  BY <1>1, <1>2, <1>3, <1>4
<1>6. LineMatches'
  BY DEF Evaluate, LineMatches
<1>7. NoMissedInterrupt'
  <2> SUFFICES ASSUME NEW d \in CPUs, line'[d], ~masked'[d]
               PROVE  Awaited(d)'
    BY DEF NoMissedInterrupt
  <2>1. checks \subseteq checks'
    BY DEF Evaluate
  <2>2. CASE d = c
    <3>1. line'[c] = (m /\ f \cap e # {})
      BY DEF Evaluate
    <3>2. turn = c
      BY <2>2, <3>1 DEF Evaluate, Interrupt
    <3> QED
      BY <2>2, <3>2 DEF Evaluate, Awaited
  <2>3. CASE d # c
    <3>1. line[d] /\ ~masked[d]
      BY <2>3 DEF Evaluate, Interrupt
    <3>2. Awaited(d)
      BY <3>1 DEF NoMissedInterrupt
    <3> QED
      BY <2>1, <3>2 DEF Awaited, FlagLost
  <2> QED
    BY <2>2, <2>3
<1> QED
  BY <1>5, <1>6, <1>7

LEMMA StillKeeps ==
    ASSUME IrqInv, TurnTyped, UNCHANGED <<checkFlag, irqVars>>
    PROVE  IrqInv'
BY DEF IrqInv, IrqTypes, TurnTyped, irqVars, LineMatches, NoMissedInterrupt,
       Awaited, FlagLost

LEMMA RaiseKeeps ==
    ASSUME IrqInv, TurnTyped, UNCHANGED checkFlag,
           NEW c \in CPUs, NEW i \in AllInterrupts, Raise(c, i)
    PROVE  IrqInv'
<1>1. CASE UNCHANGED irqVars
  BY <1>1, StillKeeps
<1>2. CASE Evaluate(c, IRF[c] \cup {i}, IE[c], IME[c])
  <2>1. /\ IRF[c] \cup {i} \in SUBSET AllInterrupts
        /\ IE[c] \in SUBSET AllInterrupts
        /\ IME[c] \in BOOLEAN
    BY DEF IrqInv, IrqTypes
  <2> QED
    BY <1>2, <2>1, EvaluateKeeps
<1> QED
  BY <1>1, <1>2 DEF Raise

LEMMA AfterInstructionTyped ==
    ASSUME IrqInv, NEW c \in CPUs, AfterInstruction(c)
    PROVE  TurnTyped
BY DEF AfterInstruction, TurnTyped, IrqInv, IrqTypes, CPUs

----------------------------------------------------------------------------
(* The instructions.                                                       *)

LEMMA SendKeeps == ASSUME IInv, NEW c \in CPUs, Send(c) PROVE IInv'
<1>1. IrqInv /\ FifoTypes
  BY Split
<1>2. Peer(c) \in CPUs
  BY PeerOther
<1>3. FifoTypes'
  BY <1>1, <1>2 DEF Send, Pushed, FifoTypes
<1>4. TurnTyped /\ UNCHANGED checkFlag
  BY <1>1, AfterInstructionTyped DEF Send
<1>5. Raise(Peer(c), "recv_not_empty") \/ UNCHANGED irqVars
  BY DEF Send
<1>6. IrqInv'
  BY <1>1, <1>2, <1>4, <1>5, RaiseKeeps, StillKeeps DEF AllInterrupts
<1> QED
  BY <1>3, <1>6, SplitNext

LEMMA ReceiveKeeps == ASSUME IInv, NEW c \in CPUs, Receive(c) PROVE IInv'
<1>1. IrqInv /\ FifoTypes
  BY Split
<1>2. Peer(c) \in CPUs
  BY PeerOther
<1>3. FifoTypes'
  BY <1>1, <1>2 DEF Receive, FifoTypes
<1>4. TurnTyped /\ UNCHANGED checkFlag
  BY <1>1, AfterInstructionTyped DEF Receive
<1>5. Raise(Peer(c), "send_empty") \/ UNCHANGED irqVars
  BY DEF Receive
<1>6. IrqInv'
  BY <1>1, <1>2, <1>4, <1>5, RaiseKeeps, StillKeeps DEF AllInterrupts
<1> QED
  BY <1>3, <1>6, SplitNext

LEMMA FifoCntLowKeeps ==
    ASSUME IInv, NEW c \in CPUs, NEW on \in BOOLEAN, NEW flush \in BOOLEAN,
           WriteFifoCntLow(c, on, flush)
    PROVE  IInv'
<1>1. IrqInv /\ FifoTypes
  BY Split
<1>2. Peer(c) \in CPUs
  BY PeerOther
<1>3. FifoTypes'
  BY <1>1, <1>2 DEF WriteFifoCntLow, FifoTypes
<1>4. TurnTyped /\ UNCHANGED checkFlag
  BY <1>1, AfterInstructionTyped DEF WriteFifoCntLow
<1>5. Raise(c, "send_empty") \/ UNCHANGED irqVars
  BY DEF WriteFifoCntLow
<1>6. IrqInv'
  BY <1>1, <1>4, <1>5, RaiseKeeps, StillKeeps DEF AllInterrupts
<1> QED
  BY <1>3, <1>6, SplitNext

LEMMA FifoCntHighKeeps ==
    ASSUME IInv, NEW c \in CPUs, NEW on \in BOOLEAN, NEW enable \in BOOLEAN,
           WriteFifoCntHigh(c, on, enable)
    PROVE  IInv'
<1>1. IrqInv /\ FifoTypes
  BY Split
<1>3. FifoTypes'
  BY <1>1 DEF WriteFifoCntHigh, FifoTypes
<1>4. TurnTyped /\ UNCHANGED checkFlag
  BY <1>1, AfterInstructionTyped DEF WriteFifoCntHigh
<1>5. Raise(c, "recv_not_empty") \/ UNCHANGED irqVars
  BY DEF WriteFifoCntHigh
<1>6. IrqInv'
  BY <1>1, <1>4, <1>5, RaiseKeeps, StillKeeps DEF AllInterrupts
<1> QED
  BY <1>3, <1>6, SplitNext

LEMMA SyncKeeps ==
    ASSUME IInv, NEW c \in CPUs, NEW r \in BOOLEAN, NEW on \in BOOLEAN,
           WriteSync(c, r, on)
    PROVE  IInv'
<1>1. IrqInv /\ FifoTypes
  BY Split
<1>2. Peer(c) \in CPUs
  BY PeerOther
<1>3. FifoTypes'
  BY <1>1 DEF WriteSync, FifoTypes
<1>4. TurnTyped /\ UNCHANGED checkFlag
  BY <1>1, AfterInstructionTyped DEF WriteSync
<1>5. Raise(Peer(c), "sync") \/ UNCHANGED irqVars
  BY DEF WriteSync
<1>6. IrqInv'
  BY <1>1, <1>2, <1>4, <1>5, RaiseKeeps, StillKeeps DEF AllInterrupts
<1> QED
  BY <1>3, <1>6, SplitNext

LEMMA FifoUnchanged == FifoTypes /\ UNCHANGED fifoVars => FifoTypes'
BY DEF FifoTypes, fifoVars

(* Writes to IF, IE and IME: each evaluates the line.                      *)
LEMMA RegisterKeeps ==
    ASSUME IInv, NEW c \in CPUs, NEW f \in SUBSET AllInterrupts,
           NEW e \in SUBSET AllInterrupts, NEW m \in BOOLEAN,
           Evaluate(c, f, e, m), AfterInstruction(c), UNCHANGED <<checkFlag, fifoVars>>
    PROVE  IInv'
<1>1. IrqInv /\ FifoTypes
  BY Split
<1>2. TurnTyped
  BY <1>1, AfterInstructionTyped
<1>3. IrqInv'
  BY <1>1, <1>2, EvaluateKeeps
<1> QED
  BY <1>1, <1>3, FifoUnchanged, SplitNext

LEMMA IrqInstructionKeeps ==
    ASSUME IInv, NEW c \in CPUs, IrqInstruction(c)
    PROVE  IInv'
<1>1. /\ IRF[c] \in SUBSET AllInterrupts
      /\ IE[c] \in SUBSET AllInterrupts
      /\ IME[c] \in BOOLEAN
      /\ LowHalf \subseteq AllInterrupts
  BY DEF IInv, TypeOK, LowHalf, AllInterrupts
<1>2. IrqInv /\ FifoTypes
  BY Split
<1>3. ASSUME NEW s, Acknowledge(c, s) PROVE IInv'
  <2>1. IRF[c] \ s \in SUBSET AllInterrupts
    BY <1>1
  <2> QED
    BY <1>1, <1>3, <2>1, RegisterKeeps DEF Acknowledge
<1>4. ASSUME NEW s \in SUBSET (Interrupts(c) \cap LowHalf), WriteIELow(c, s)
      PROVE  IInv'
  <2>1. s \in SUBSET AllInterrupts /\ (IE[c] \ LowHalf) \cup s \in SUBSET AllInterrupts
    BY <1>1, InterruptTypes
  <2> QED
    BY <1>1, <1>4, <2>1, RegisterKeeps DEF WriteIELow
<1>5. ASSUME NEW s \in SUBSET (Interrupts(c) \ LowHalf), WriteIEHigh(c, s)
      PROVE  IInv'
  <2>1. (IE[c] \cap LowHalf) \cup s \in SUBSET AllInterrupts
    BY <1>1, InterruptTypes
  <2> QED
    BY <1>1, <1>5, <2>1, RegisterKeeps DEF WriteIEHigh
<1>6. ASSUME NEW m \in BOOLEAN, WriteIME(c, m) PROVE IInv'
  BY <1>1, <1>6, RegisterKeeps DEF WriteIME
<1>7. ASSUME NEW i \in BOOLEAN, WriteMask(c, i) PROVE IInv'
  <2>1. TurnTyped
    BY <1>2, <1>7, AfterInstructionTyped DEF WriteMask
  <2>2. IrqTypes'
    BY <1>2, <1>7, <2>1 DEF WriteMask, IrqInv, IrqTypes, TurnTyped
  <2>3. LineMatches'
    BY <1>2, <1>7 DEF WriteMask, IrqInv, LineMatches
  <2>4. NoMissedInterrupt'
    <3> SUFFICES ASSUME NEW d \in CPUs, line'[d], ~masked'[d] PROVE Awaited(d)'
      BY DEF NoMissedInterrupt
    <3>1. CASE d = c
      BY <1>7, <3>1 DEF WriteMask, Awaited, FlagLost, CPUs
    <3>2. CASE d # c
      <4>1. line[d] /\ ~masked[d]
        BY <1>2, <1>7, <3>2 DEF WriteMask, IrqInv, IrqTypes
      <4>2. Awaited(d)
        BY <1>2, <4>1 DEF IrqInv, NoMissedInterrupt
      <4> QED
        BY <1>7, <4>2 DEF WriteMask, Awaited, FlagLost
    <3> QED
      BY <3>1, <3>2
  <2>5. FifoTypes'
    BY <1>2, <1>7, FifoUnchanged DEF WriteMask
  <2> QED
    BY <2>2, <2>3, <2>4, <2>5, SplitNext DEF IrqInv
<1>8. CASE TakeException(c)
  <2>1. TurnTyped
    BY <1>2, <1>8, AfterInstructionTyped DEF TakeException
  <2>2. IrqTypes' /\ LineMatches'
    BY <1>2, <1>8, <2>1 DEF TakeException, IrqInv, IrqTypes, TurnTyped, LineMatches
  <2>3. NoMissedInterrupt'
    BY <1>2, <1>8 DEF TakeException, IrqInv, IrqTypes, NoMissedInterrupt, Awaited, FlagLost
  <2>4. FifoTypes'
    BY <1>2, <1>8, FifoUnchanged DEF TakeException
  <2> QED
    BY <2>2, <2>3, <2>4, SplitNext DEF IrqInv
<1>9. CASE Halt(c)
  <2>1. TurnTyped
    BY <1>2, <1>9, AfterInstructionTyped DEF Halt
  <2>2. IrqTypes' /\ LineMatches'
    BY <1>2, <1>9, <2>1 DEF Halt, IrqInv, IrqTypes, TurnTyped, LineMatches
  <2>3. NoMissedInterrupt'
    BY <1>2, <1>9 DEF Halt, IrqInv, NoMissedInterrupt, Awaited, FlagLost
  <2>4. FifoTypes'
    BY <1>2, <1>9, FifoUnchanged DEF Halt
  <2> QED
    BY <2>2, <2>3, <2>4, SplitNext DEF IrqInv
<1> QED
  BY <1>3, <1>4, <1>5, <1>6, <1>7, <1>8, <1>9 DEF IrqInstruction

----------------------------------------------------------------------------
(* The scheduler, run_block and the host.                                  *)

LEMMA CheckKeeps ==
    ASSUME IInv, NEW k \in CPUs \cup {"flagged"}, CheckIrq(k)
    PROVE  IInv'
<1> DEFINE c == IF k = "flagged" THEN "arm9" ELSE k
<1>1. IrqInv /\ FifoTypes
  BY Split
<1>2. c \in CPUs
  BY DEF CPUs
<1>3. /\ checks' = checks \ {k}
      /\ checkFlag' = (checkFlag /\ k # "flagged")
      /\ IF line[c] /\ ~masked[c]
           THEN Interrupt(c) ELSE UNCHANGED <<masked, halted>>
      /\ UNCHANGED <<turn, IRF, IE, IME, line, unevaluated, fifoVars>>
  BY DEF CheckIrq
<1> HIDE DEF c
<1>4. masked' \in [CPUs -> BOOLEAN]
  BY <1>1, <1>2, <1>3 DEF IrqInv, IrqTypes, Interrupt
<1>5. halted' \in [CPUs -> BOOLEAN]
  BY <1>1, <1>2, <1>3 DEF IrqInv, IrqTypes, Interrupt
<1>6. checkFlag' \in BOOLEAN
  BY <1>3
<1>7. IrqTypes' /\ LineMatches'
  BY <1>1, <1>3, <1>4, <1>5, <1>6 DEF IrqInv, IrqTypes, LineMatches
<1>8. NoMissedInterrupt'
  <2> SUFFICES ASSUME NEW d \in CPUs, line'[d], ~masked'[d] PROVE Awaited(d)'
    BY DEF NoMissedInterrupt
  <2>1. d # c
    BY <1>1, <1>2, <1>3 DEF IrqInv, IrqTypes, Interrupt
  <2>2. line[d] /\ ~masked[d]
    BY <1>1, <1>2, <1>3, <2>1 DEF IrqInv, IrqTypes, Interrupt
  <2>3. Awaited(d)
    BY <1>1, <2>2 DEF IrqInv, NoMissedInterrupt
  <2>4. k # d /\ (k = "flagged" => d # "arm9")
    BY <2>1 DEF c, CPUs
  <2> QED
    BY <1>3, <2>3, <2>4 DEF Awaited, FlagLost
<1>9. FifoTypes'
  BY <1>1, <1>3, FifoUnchanged
<1> QED
  BY <1>7, <1>8, <1>9, SplitNext DEF IrqInv

LEMMA TurnKeeps ==
    ASSUME IInv, UNCHANGED <<checkFlag, irqVars, fifoVars>>, TurnTyped
    PROVE  IInv'
BY Split, StillKeeps, FifoUnchanged, SplitNext

LEMMA StartBlockKeeps == ASSUME IInv, StartBlock PROVE IInv'
<1>1. IrqInv /\ FifoTypes
  BY Split
<1>2. halted' \in [CPUs -> BOOLEAN]
  BY <1>1 DEF StartBlock, IrqInv, IrqTypes
<1>3. IrqTypes' /\ LineMatches'
  BY <1>1, <1>2 DEF StartBlock, IrqInv, IrqTypes, LineMatches, CPUs
<1>4. NoMissedInterrupt'
  BY <1>1 DEF StartBlock, IrqInv, NoMissedInterrupt, Awaited, FlagLost
<1>5. FifoTypes'
  BY <1>1, FifoUnchanged DEF StartBlock
<1> QED
  BY <1>3, <1>4, <1>5, SplitNext DEF IrqInv

LEMMA ResetKeeps == ASSUME IInv, Reset PROVE IInv'
<1>1. IrqInv /\ FifoTypes
  BY Split
<1>2. /\ IRF' \in [CPUs -> SUBSET AllInterrupts]
      /\ IE' \in [CPUs -> SUBSET AllInterrupts]
  BY DEF Reset
<1>3. IrqTypes' /\ LineMatches' /\ NoMissedInterrupt'
  BY <1>1, <1>2 DEF Reset, IrqInv, IrqTypes, LineMatches, NoMissedInterrupt
<1>4. FifoTypes'
  BY <1>1, FifoUnchanged DEF Reset
<1> QED
  BY <1>3, <1>4, SplitNext DEF IrqInv

LEMMA NextInv == IInv /\ [Next]_vars => IInv'
<1> SUFFICES ASSUME IInv, [Next]_vars PROVE IInv'
  OBVIOUS
<1>1. ASSUME NEW c \in CPUs, FifoInstruction(c) PROVE IInv'
  BY <1>1, SendKeeps, ReceiveKeeps, FifoCntLowKeeps, FifoCntHighKeeps, SyncKeeps
     DEF FifoInstruction
<1>2. ASSUME NEW c \in CPUs, IrqInstruction(c) PROVE IInv'
  BY <1>2, IrqInstructionKeeps
<1>3. ASSUME NEW c \in CPUs, DeviceInterrupt(c) PROVE IInv'
  <2>1. TurnTyped /\ UNCHANGED <<checkFlag, fifoVars>>
    BY <1>3 DEF DeviceInterrupt, TurnTyped
  <2>2. IrqInv'
    BY <1>3, <2>1, Split, RaiseKeeps DEF DeviceInterrupt, AllInterrupts
  <2> QED
    BY <2>1, <2>2, Split, FifoUnchanged, SplitNext
<1>4. CASE Schedule
  <2>1. ASSUME NEW k \in CPUs \cup {"flagged"}, CheckIrq(k) PROVE IInv'
    BY <2>1, CheckKeeps
  <2>2. CASE StartBlock
    BY <2>2, StartBlockKeeps
  <2>3. CASE EndArm7
    BY <2>3, TurnKeeps DEF EndArm7, TurnTyped, CPUs
  <2>4. CASE EndArm9
    BY <2>4, TurnKeeps DEF EndArm9, TurnTyped
  <2> QED
    BY <1>4, <2>1, <2>2, <2>3, <2>4 DEF Schedule
<1>5. CASE ReturnToHost
  BY <1>5, TurnKeeps DEF ReturnToHost, TurnTyped
<1>6. CASE Resume
  BY <1>6, TurnKeeps DEF Resume, TurnTyped
<1>7. CASE Reset
  BY <1>7, ResetKeeps
<1>8. CASE UNCHANGED vars
  BY <1>8, TurnKeeps DEF vars, TurnTyped, IInv, TypeOK
<1> QED
  BY <1>1, <1>2, <1>3, <1>4, <1>5, <1>6, <1>7, <1>8 DEF Next

----------------------------------------------------------------------------
LEMMA Invariant == Spec => []IInv
BY InitInv, NextInv, PTL DEF Spec

(* The registers keep their types; a FIFO never holds more words than it   *)
(* has room for, whatever the CPUs write (nds_ipc.cpp:34).                 *)
THEOREM TypesHold == Spec => []TypeOK
BY Invariant, PTL DEF IInv

(* The line of each CPU is what IME, IE and IF say, unless a reset has     *)
(* left it behind: nds_irq.cpp is called wherever one of them changes.     *)
THEOREM LineIsWorkedOut == Spec => []LineMatches
BY Invariant, PTL DEF IInv

(* Whenever a CPU's line is up and it accepts interrupts a check is on its *)
(* way, for every interleaving of instructions, devices and blocks.        *)
THEOREM InterruptsAreNotMissed == Spec => []NoMissedInterrupt
BY Invariant, PTL DEF IInv

----------------------------------------------------------------------------
(* The edges.  Only the FIFO instructions move the two conditions.         *)
EdgeOn(c) ==
    /\ ~SendEmpty(c) /\ SendEmpty(c)' => "send_empty" \in IRF'[c]
    /\ ~RecvNotEmpty(c) /\ RecvNotEmpty(c)' => "recv_not_empty" \in IRF'[c]

LEMMA RaiseRequests ==
    ASSUME IInv, NEW c \in CPUs, NEW i, Raise(c, i)
    PROVE  i \in IRF'[c]
BY DEF Raise, Evaluate, irqVars, IInv, TypeOK

LEMMA NoEdge ==
    ASSUME UNCHANGED fifoVars
    PROVE  \A d \in CPUs : EdgeOn(d)
BY DEF EdgeOn, SendEmpty, RecvNotEmpty, fifoVars

LEMMA SendEdges ==
    ASSUME IInv, NEW c \in CPUs, Send(c), NEW d \in CPUs
    PROVE  EdgeOn(d)
<1>1. /\ Peer(c) \in CPUs /\ Peer(c) # c
      /\ Peer(d) \in CPUs
  BY PeerOther
<1>2. /\ \A p \in CPUs : len[p] \in 0 .. Size
      /\ \A p \in CPUs : len'[p] = IF p = Peer(c) /\ len[p] # Size THEN len[p] + 1 ELSE len[p]
      /\ sendIrq' = sendIrq /\ recvIrq' = recvIrq
  BY <1>1 DEF Send, Pushed, IInv, TypeOK
<1>3. ~SendEmpty(d) => ~SendEmpty(d)'
  BY <1>1, <1>2 DEF SendEmpty
<1>4. ~RecvNotEmpty(d) /\ RecvNotEmpty(d)' => d = Peer(c) /\ len[d] = 0 /\ recvIrq[d]
  BY <1>1, <1>2 DEF RecvNotEmpty
<1>5. d = Peer(c) /\ len[d] = 0 /\ recvIrq[d] => Raise(d, "recv_not_empty")
  BY DEF Send
<1> QED
  BY <1>3, <1>4, <1>5, RaiseRequests DEF EdgeOn

LEMMA ReceiveEdges ==
    ASSUME IInv, NEW c \in CPUs, Receive(c), NEW d \in CPUs
    PROVE  EdgeOn(d)
<1>1. /\ Peer(c) \in CPUs /\ Peer(c) # c /\ Peer(Peer(c)) = c
      /\ Peer(d) \in CPUs /\ Peer(Peer(d)) = d
  BY PeerOther
<1>2. /\ \A p \in CPUs : len[p] \in 0 .. Size
      /\ \A p \in CPUs : len'[p] = IF p = c /\ len[p] # 0 THEN len[p] - 1 ELSE len[p]
      /\ sendIrq' = sendIrq /\ recvIrq' = recvIrq
  BY <1>1 DEF Receive, IInv, TypeOK
<1>3. ~RecvNotEmpty(d) => ~RecvNotEmpty(d)'
  BY <1>2 DEF RecvNotEmpty
<1>4. ~SendEmpty(d) /\ SendEmpty(d)' => Peer(d) = c /\ len[c] = 1 /\ sendIrq[d]
  BY <1>1, <1>2 DEF SendEmpty
<1>5. Peer(d) = c /\ len[c] = 1 /\ sendIrq[d] => Raise(d, "send_empty")
  BY <1>1 DEF Receive
<1> QED
  BY <1>3, <1>4, <1>5, RaiseRequests DEF EdgeOn

LEMMA FifoCntLowEdges ==
    ASSUME IInv, NEW c \in CPUs, NEW on \in BOOLEAN, NEW flush \in BOOLEAN,
           WriteFifoCntLow(c, on, flush), NEW d \in CPUs
    PROVE  EdgeOn(d)
<1>1. /\ Peer(c) \in CPUs /\ Peer(c) # c
      /\ Peer(d) \in CPUs /\ (d # c => Peer(d) = c)
  BY PeerOther DEF CPUs, Peer
<1>2. /\ \A p \in CPUs : len'[p] = IF p = Peer(c) /\ flush THEN 0 ELSE len[p]
      /\ \A p \in CPUs : sendIrq'[p] = IF p = c THEN on ELSE sendIrq[p]
      /\ recvIrq' = recvIrq
  BY <1>1 DEF WriteFifoCntLow, IInv, TypeOK
<1>3. ~RecvNotEmpty(d) => ~RecvNotEmpty(d)'
  BY <1>2 DEF RecvNotEmpty
<1>4. ~SendEmpty(d) /\ SendEmpty(d)' => d = c /\ on
  BY <1>1, <1>2 DEF SendEmpty
<1>5. d = c /\ on /\ ~SendEmpty(d) => Raise(d, "send_empty")
  BY DEF WriteFifoCntLow, SendEmpty
<1> QED
  BY <1>3, <1>4, <1>5, RaiseRequests DEF EdgeOn

LEMMA FifoCntHighEdges ==
    ASSUME IInv, NEW c \in CPUs, NEW on \in BOOLEAN, NEW enable \in BOOLEAN,
           WriteFifoCntHigh(c, on, enable), NEW d \in CPUs
    PROVE  EdgeOn(d)
<1>1. /\ len' = len /\ sendIrq' = sendIrq
      /\ \A p \in CPUs : recvIrq'[p] = IF p = c THEN on ELSE recvIrq[p]
  BY DEF WriteFifoCntHigh, IInv, TypeOK
<1>2. ~SendEmpty(d) => ~SendEmpty(d)'
  BY <1>1 DEF SendEmpty
<1>3. ~RecvNotEmpty(d) /\ RecvNotEmpty(d)' => d = c /\ on /\ ~recvIrq[c] /\ len[c] # 0
  BY <1>1 DEF RecvNotEmpty
<1>4. d = c /\ on /\ ~recvIrq[c] /\ len[c] # 0 => Raise(d, "recv_not_empty")
  BY DEF WriteFifoCntHigh
<1> QED
  BY <1>2, <1>3, <1>4, RaiseRequests DEF EdgeOn

LEMMA StepEdges ==
    ASSUME IInv, [Next]_vars, NEW d \in CPUs
    PROVE  EdgeOn(d)
<1>1. ASSUME NEW c \in CPUs, FifoInstruction(c) PROVE EdgeOn(d)
  <2>1. ASSUME NEW r, NEW on, WriteSync(c, r, on) PROVE EdgeOn(d)
    BY <2>1 DEF WriteSync, EdgeOn, SendEmpty, RecvNotEmpty
  <2> QED
    BY <1>1, <2>1, SendEdges, ReceiveEdges, FifoCntLowEdges, FifoCntHighEdges
       DEF FifoInstruction
<1>2. ASSUME NEW c \in CPUs, IrqInstruction(c) PROVE EdgeOn(d)
  BY <1>2, NoEdge DEF IrqInstruction, Acknowledge, WriteIELow, WriteIEHigh, WriteIME,
                      WriteMask, TakeException, Halt
<1>3. ASSUME NEW c \in CPUs, DeviceInterrupt(c) PROVE EdgeOn(d)
  BY <1>3, NoEdge DEF DeviceInterrupt
<1>4. CASE Schedule
  BY <1>4, NoEdge DEF Schedule, CheckIrq, StartBlock, EndArm7, EndArm9
<1>5. CASE ReturnToHost \/ Resume \/ Reset
  BY <1>5, NoEdge DEF ReturnToHost, Resume, Reset
<1>6. CASE UNCHANGED vars
  BY <1>6, NoEdge DEF vars
<1> QED
  BY <1>1, <1>2, <1>3, <1>4, <1>5, <1>6 DEF Next

(* No edge of a FIFO condition goes by without the interrupt request that  *)
(* a sleeping CPU waits for, whichever CPU's step makes the edge.          *)
THEOREM EdgesInterrupt == Spec => FifoEdgesInterrupt
<1>1. IInv /\ [Next]_vars => [\A c \in CPUs : EdgeOn(c)]_vars
  BY StepEdges
<1>2. ASSUME [\A c \in CPUs : EdgeOn(c)]_vars
      PROVE  [\A c \in CPUs :
                 /\ ~SendEmpty(c) /\ SendEmpty(c)' => "send_empty" \in IRF'[c]
                 /\ ~RecvNotEmpty(c) /\ RecvNotEmpty(c)' =>
                        "recv_not_empty" \in IRF'[c]]_vars
  BY <1>2 DEF EdgeOn
<1> QED
  BY Invariant, <1>1, <1>2, PTL DEF Spec, FifoEdgesInterrupt

----------------------------------------------------------------------------
(* Sleepers wake.  The ARM7 is woken when the next block starts, the ARM9  *)
(* by a check or on the spot; until then nothing takes back what wakes     *)
(* them.  A block never starts with the ARM7 asleep and an interrupt for   *)
(* it, so none of its instructions can withdraw one (ARM7SleepsOn).        *)

ARM7SleepsOn ==
    turn = "arm7" /\ halted["arm7"] => IRF["arm7"] \cap IE["arm7"] = {}

LEMMA ARM7SleepsOnKept ==
    ASSUME IInv, ARM7SleepsOn, [Next]_vars PROVE ARM7SleepsOn'
<1>1. ASSUME NEW c \in CPUs, FifoInstruction(c) \/ IrqInstruction(c)
      PROVE  ARM7SleepsOn'
  <2>1. Running(c) /\ AfterInstruction(c)
    BY <1>1 DEF FifoInstruction, IrqInstruction, Send, Receive, WriteFifoCntLow,
                WriteFifoCntHigh, WriteSync, Acknowledge, WriteIELow, WriteIEHigh, WriteIME,
                WriteMask, TakeException, Halt
  <2> QED
    BY <2>1 DEF Running, AfterInstruction, ARM7SleepsOn, CPUs
<1>2. CASE StartBlock
  BY <1>2 DEF StartBlock, ARM7SleepsOn, IInv, TypeOK, CPUs
<1>3. CASE UNCHANGED vars
  BY <1>3 DEF vars, irqVars, ARM7SleepsOn
<1>4. CASE \/ Schedule /\ ~StartBlock
           \/ \E c \in CPUs : DeviceInterrupt(c)
           \/ ReturnToHost \/ Resume \/ Reset
  BY <1>4 DEF Schedule, CheckIrq, EndArm7, EndArm9, DeviceInterrupt, ReturnToHost, Resume,
              Reset, ARM7SleepsOn
<1> QED
  BY <1>1, <1>2, <1>3, <1>4 DEF Next

LEMMA StrongInvariant == Spec => [](IInv /\ ARM7SleepsOn)
<1>1. Init => ARM7SleepsOn
  BY DEF Init, ARM7SleepsOn
<1> QED
  BY <1>1, ARM7SleepsOnKept, Invariant, PTL DEF Spec

(* A CPU that sleeps with what wakes it.                                   *)
Roused(c) ==
    /\ halted[c]
    /\ c = "arm7" => IRF[c] \cap IE[c] # {}
    /\ c = "arm9" => line[c] /\ ~masked[c] /\ c \notin unevaluated /\ ~FlagLost
Woken(c) == ~halted[c] \/ turn = "host"

LEMMA EvaluateRoused ==
    ASSUME IInv, NEW c \in CPUs, Roused(c), NEW d \in CPUs,
           NEW f, NEW e, NEW m, Evaluate(d, f, e, m), UNCHANGED checkFlag,
           d = c => /\ turn # c /\ m = IME[c] /\ e = IE[c] /\ IRF[c] \subseteq f
    PROVE  Roused(c)' \/ ~halted'[c]
<1> USE DEF IInv, TypeOK, Evaluate, Interrupt, Roused
<1>1. CASE d # c
  <2>1. /\ IRF'[c] = IRF[c] /\ IE'[c] = IE[c] /\ line'[c] = line[c]
        /\ masked'[c] = masked[c] /\ c \notin unevaluated => c \notin unevaluated'
    BY <1>1
  <2>2. halted'[c] = halted[c]
    BY <1>1
  <2>3. FlagLost' => FlagLost
    BY DEF FlagLost
  <2> QED
    BY <2>1, <2>2, <2>3
<1>2. CASE d = c /\ c = "arm7"
  <2>1. /\ IRF'[c] = f /\ IE'[c] = IE[c]
    BY <1>2
  <2> QED
    BY <1>2, <2>1
<1>3. CASE d = c /\ c = "arm9"
  <2>1. m /\ f \cap e # {} /\ ~masked[c]
    BY <1>3 DEF LineMatches
  <2>2. ~halted'["arm9"]
    BY <1>3, <2>1
  <2> QED
    BY <1>3, <2>2
<1> QED
  BY <1>1, <1>2, <1>3 DEF CPUs

LEMMA StillRoused ==
    ASSUME NEW c \in CPUs, Roused(c), UNCHANGED <<checkFlag, irqVars>>
    PROVE  Roused(c)'
BY DEF Roused, FlagLost, irqVars

LEMMA RaiseRoused ==
    ASSUME IInv, NEW c \in CPUs, Roused(c), turn # c, NEW d \in CPUs, NEW i,
           Raise(d, i) \/ UNCHANGED irqVars, UNCHANGED checkFlag
    PROVE  Roused(c)' \/ ~halted'[c]
BY EvaluateRoused, StillRoused DEF Raise

(* No step takes back what wakes it.                                       *)
LEMMA RousedUntilWoken ==
    ASSUME IInv, ARM7SleepsOn, NEW c \in CPUs, Roused(c), ~Woken(c), [Next]_vars
    PROVE  Roused(c)' \/ Woken(c)'
<1>0. /\ turn # "host"
      /\ c = "arm7" => turn # "arm7"
      /\ ~Running(c)
      /\ \A d \in CPUs : Peer(d) \in CPUs
  BY PeerOther DEF Roused, Woken, ARM7SleepsOn, Running, CPUs
<1>1. ASSUME NEW d \in CPUs, FifoInstruction(d)
      PROVE  Roused(c)' \/ ~halted'[c]
  <2>1. Running(d) /\ UNCHANGED checkFlag
    BY <1>1 DEF FifoInstruction, Send, Receive, WriteFifoCntLow, WriteFifoCntHigh, WriteSync
  <2>2. d # c /\ turn # c
    BY <1>0, <2>1 DEF Running
  <2>3. (\E e \in CPUs : \E i : Raise(e, i)) \/ UNCHANGED irqVars
    BY <1>0, <1>1 DEF FifoInstruction, Send, Receive, WriteFifoCntLow, WriteFifoCntHigh,
                      WriteSync
  <2> QED
    BY <2>1, <2>2, <2>3, RaiseRoused
<1>2. ASSUME NEW d \in CPUs, IrqInstruction(d)
      PROVE  Roused(c)' \/ ~halted'[c]
  <2>1. Running(d)
    BY <1>2 DEF IrqInstruction, Acknowledge, WriteIELow, WriteIEHigh, WriteIME, WriteMask,
                TakeException, Halt
  <2>2. d # c
    BY <1>0, <2>1 DEF Running
  <2>3. ASSUME UNCHANGED checkFlag, \E f, e, m : Evaluate(d, f, e, m)
        PROVE  Roused(c)' \/ ~halted'[c]
    BY <2>2, <2>3, EvaluateRoused
  <2>4. CASE \E i \in BOOLEAN : WriteMask(d, i)
    BY <2>2, <2>4 DEF WriteMask, Roused, FlagLost, IInv, TypeOK, CPUs
  <2>5. CASE TakeException(d) \/ Halt(d)
    BY <2>2, <2>5 DEF TakeException, Halt, Roused, FlagLost, IInv, TypeOK
  <2> QED
    BY <1>2, <2>3, <2>4, <2>5 DEF IrqInstruction, Acknowledge, WriteIELow, WriteIEHigh, WriteIME
<1>3. ASSUME NEW d \in CPUs, DeviceInterrupt(d)
      PROVE  Roused(c)' \/ ~halted'[c]
  BY <1>3, RaiseRoused DEF DeviceInterrupt, CPUs
<1>4. ASSUME NEW k \in CPUs \cup {"flagged"}, CheckIrq(k)
      PROVE  Roused(c)' \/ ~halted'[c]
  <2> DEFINE d == IF k = "flagged" THEN "arm9" ELSE k
  <2>1. /\ checks' = checks \ {k} /\ checkFlag' = (checkFlag /\ k # "flagged")
        /\ IF line[d] /\ ~masked[d] THEN Interrupt(d) ELSE UNCHANGED <<masked, halted>>
        /\ UNCHANGED <<IRF, IE, line, unevaluated>>
    BY <1>4 DEF CheckIrq
  <2>2. d \in CPUs
    BY DEF CPUs
  <2> HIDE DEF d
  <2>3. FlagLost' => FlagLost
    BY <2>1 DEF FlagLost
  <2>4. CASE c = "arm7"
    BY <2>1, <2>4 DEF Interrupt, Roused, IInv, TypeOK
  <2>5. CASE c = "arm9" /\ d = c
    BY <2>1, <2>5 DEF Interrupt, Roused, IInv, TypeOK
  <2>6. CASE c = "arm9" /\ d # c
    BY <2>1, <2>2, <2>3, <2>6 DEF Interrupt, Roused, IInv, TypeOK
  <2> QED
    BY <2>4, <2>5, <2>6 DEF CPUs
<1>5. CASE StartBlock
  <2>1. /\ UNCHANGED <<checks, checkFlag, IRF, IE, line, masked, unevaluated>>
        /\ halted' = [halted EXCEPT !["arm7"] =
                          halted["arm7"] /\ IRF["arm7"] \cap IE["arm7"] = {}]
    BY <1>5 DEF StartBlock
  <2>2. CASE c = "arm7"
    <3>1. ~(halted["arm7"] /\ IRF["arm7"] \cap IE["arm7"] = {})
      BY <2>2 DEF Roused
    <3>2. ~halted'["arm7"]
      BY <2>1, <3>1 DEF IInv, TypeOK, CPUs
    <3> QED
      BY <2>2, <3>2 DEF Woken
  <2>3. CASE c = "arm9"
    <3>1. halted'["arm9"] = halted["arm9"]
      BY <2>1 DEF IInv, TypeOK, CPUs
    <3> QED
      BY <2>1, <2>3, <3>1 DEF Roused, FlagLost
  <2> QED
    BY <2>2, <2>3 DEF CPUs
<1>6. CASE EndArm7 \/ EndArm9 \/ ReturnToHost \/ UNCHANGED vars
  BY <1>6, StillRoused DEF EndArm7, EndArm9, ReturnToHost, vars
<1>7. ~Resume /\ ~Reset
  BY <1>0 DEF Resume, Reset
<1> QED
  BY <1>1, <1>2, <1>3, <1>4, <1>5, <1>6, <1>7 DEF Next, Schedule, Woken

(* Until then the turns go round, and every step of Schedule brings the    *)
(* start of the next block nearer: it hands the turn on, or a check leaves *)
(* the list, which nothing enters while events are handled.                *)
InTurn(t) == turn = t
Listed(k) == k \in checks

LEMMA TurnsGoRound ==
    ASSUME IInv, ARM7SleepsOn, NEW c \in CPUs, Roused(c), ~Woken(c), [Next]_vars, ~Woken(c)'
    PROVE  /\ InTurn("arm7") => InTurn("arm7")' \/ InTurn("arm9")'
           /\ InTurn("arm9") => InTurn("arm9")' \/ InTurn("events")'
           /\ InTurn("events") => /\ InTurn("events")'
                                  /\ Listed("arm7")' => Listed("arm7")
                                  /\ Listed("arm9")' => Listed("arm9")
                                  /\ Listed("flagged")' => Listed("flagged")
<1>1. turn # "host" /\ turn' # "host" /\ halted[c] /\ halted'[c]
  BY DEF Woken
<1>2. ~StartBlock
  <2>1. CASE c = "arm7"
    BY <1>1, <2>1 DEF StartBlock, Roused, IInv, TypeOK
  <2>2. CASE c = "arm9"
    BY <2>2 DEF StartBlock, Roused, IInv, NoMissedInterrupt, Awaited
  <2> QED
    BY <2>1, <2>2 DEF CPUs
<1>3. ASSUME NEW d \in CPUs, FifoInstruction(d) \/ IrqInstruction(d)
      PROVE  turn = d /\ (turn' = turn \/ (turn = "arm7" /\ turn' = "arm9"))
  <2>1. Running(d) /\ AfterInstruction(d)
    BY <1>3 DEF FifoInstruction, IrqInstruction, Send, Receive, WriteFifoCntLow,
                WriteFifoCntHigh, WriteSync, Acknowledge, WriteIELow, WriteIEHigh, WriteIME,
                WriteMask, TakeException, Halt
  <2> QED
    BY <2>1 DEF Running, AfterInstruction
<1>4. ASSUME NEW d \in CPUs, DeviceInterrupt(d)
      PROVE  turn = "events" /\ turn' = turn /\ checks' = checks
  BY <1>4 DEF DeviceInterrupt, Raise, Evaluate, irqVars, CPUs
<1>5. ASSUME NEW k \in CPUs \cup {"flagged"}, CheckIrq(k)
      PROVE  turn = "events" /\ turn' = turn /\ checks' \subseteq checks
  BY <1>5 DEF CheckIrq
<1>6. CASE EndArm7 \/ EndArm9
  BY <1>6 DEF EndArm7, EndArm9, InTurn
<1>7. CASE UNCHANGED vars
  BY <1>1, <1>7 DEF vars, irqVars, InTurn, Listed
<1>8. ~Resume /\ ~Reset /\ ~ReturnToHost
  BY <1>1 DEF Resume, Reset, ReturnToHost
<1> QED
  BY <1>2, <1>3, <1>4, <1>5, <1>6, <1>7, <1>8 DEF Next, Schedule, InTurn, Listed, CPUs

LEMMA ScheduleAdvances ==
    ASSUME IInv, ARM7SleepsOn, NEW c \in CPUs, Roused(c), ~Woken(c), Schedule, ~Woken(c)'
    PROVE  /\ InTurn("arm7") => ~InTurn("arm7")'
           /\ InTurn("arm9") => ~InTurn("arm9")'
           /\ InTurn("events") => \/ Listed("arm7") /\ ~Listed("arm7")'
                                  \/ Listed("arm9") /\ ~Listed("arm9")'
                                  \/ Listed("flagged") /\ ~Listed("flagged")'
<1>1. halted[c] /\ halted'[c]
  BY DEF Woken
<1>2. ~StartBlock
  <2>1. CASE c = "arm7"
    BY <1>1, <2>1 DEF StartBlock, Roused, IInv, TypeOK
  <2>2. CASE c = "arm9"
    BY <2>2 DEF StartBlock, Roused, IInv, NoMissedInterrupt, Awaited
  <2> QED
    BY <2>1, <2>2 DEF CPUs
<1>3. ASSUME NEW k \in CPUs \cup {"flagged"}, CheckIrq(k)
      PROVE  turn = "events" /\ Listed(k) /\ ~Listed(k)'
  BY <1>3 DEF CheckIrq, Listed
<1>4. CASE \E k \in CPUs \cup {"flagged"} : CheckIrq(k)
  BY <1>3, <1>4 DEF InTurn, CPUs
<1>5. CASE EndArm7 \/ EndArm9
  BY <1>5 DEF EndArm7, EndArm9, InTurn
<1> QED
  BY <1>2, <1>4, <1>5 DEF Schedule

(* A CPU that sleeps with its line up and interrupts accepted wakes, or    *)
(* the host stops the NDS first: the other CPU's part of the block ends,   *)
(* the checks are handled, and the next block starts.                      *)
THEOREM SleepersAreWoken == Spec => SleepersWake
<1> SUFFICES ASSUME NEW c \in CPUs
             PROVE  Spec => ((halted[c] /\ line[c] /\ ~masked[c] /\ c \notin unevaluated
                              /\ ~FlagLost) ~> (~halted[c] \/ turn = "host"))
  BY DEF SleepersWake
<1> DEFINE Accepts == halted[c] /\ line[c] /\ ~masked[c] /\ c \notin unevaluated /\ ~FlagLost
           I == IInv /\ ARM7SleepsOn
<1>1. I /\ Accepts => Roused(c)
  BY DEF IInv, LineMatches, Roused
<1>2. I /\ Roused(c) /\ ~Woken(c) /\ [Next]_vars => Roused(c)' \/ Woken(c)'
  BY RousedUntilWoken
<1>3. I /\ Roused(c) /\ ~Woken(c) /\ [Next]_vars /\ ~Woken(c)'
        => /\ InTurn("arm7") => InTurn("arm7")' \/ InTurn("arm9")'
           /\ InTurn("arm9") => InTurn("arm9")' \/ InTurn("events")'
           /\ InTurn("events") => /\ InTurn("events")'
                                  /\ Listed("arm7")' => Listed("arm7")
                                  /\ Listed("arm9")' => Listed("arm9")
                                  /\ Listed("flagged")' => Listed("flagged")
  BY TurnsGoRound
<1>4. I /\ Roused(c) /\ ~Woken(c) /\ <<Schedule>>_vars /\ ~Woken(c)'
        => /\ InTurn("arm7") => ~InTurn("arm7")'
           /\ InTurn("arm9") => ~InTurn("arm9")'
           /\ InTurn("events") => \/ Listed("arm7") /\ ~Listed("arm7")'
                                  \/ Listed("arm9") /\ ~Listed("arm9")'
                                  \/ Listed("flagged") /\ ~Listed("flagged")'
  BY ScheduleAdvances
<1>5. I /\ ~Woken(c) => InTurn("arm7") \/ InTurn("arm9") \/ InTurn("events")
  BY DEF IInv, TypeOK, CPUs, Woken, InTurn
<1>6. turn = "host" => Woken(c)
  BY DEF Woken
<1> HIDE DEF I, Accepts
<1>7. Spec => []I
  BY StrongInvariant DEF I
<1>8. Spec => (Accepts ~> Woken(c))
  BY <1>1, <1>2, <1>3, <1>4, <1>5, <1>6, <1>7, PTL DEF Spec, ScheduleGoesOn
<1> QED
  BY <1>8 DEF Accepts, Woken
=============================================================================
