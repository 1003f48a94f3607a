------------------------------- MODULE NdsIpc -------------------------------
(***************************************************************************)
(* How the NDS's two CPUs talk and interrupt each other: the FIFO and sync *)
(* registers (nds_bus.cpp), the interrupt registers (nds_irq.cpp), how an  *)
(* interrupt reaches a CPU that runs, waits or sleeps (arm7tdmi.cpp,       *)
(* arm946es.cpp) and how run_block (nds.cpp) gives the CPUs their turns.   *)
(*                                                                         *)
(* The CPUs run one after the other on one thread.  turn says who acts:    *)
(*   "host"    the front end                                               *)
(*   "events"  the scheduler runs what is due: interrupt checks, devices   *)
(*   "arm7"    the ARM7's part of a block                                  *)
(*   "arm9"    the ARM9's part                                             *)
(* A CPU whose turn it is has its arm7_ins or arm9_ins flag set.  The      *)
(* FIFOs are kept as their lengths; IpcFifo says what comes out of them.   *)
(***************************************************************************)
EXTENDS Integers

CONSTANTS
    Size,           \* words a FIFO holds; 16 in the code
    Senders,        \* bound: the CPUs that use their send FIFO
    Syncers,        \* bound: the CPUs that write IPCSYNC
    DeviceUsers     \* bound: the CPUs a device interrupts

CPUs == {"arm7", "arm9"}

Peer(c) == IF c = "arm7" THEN "arm9" ELSE "arm7"

ASSUME IpcAssumption ==
    /\ Size \in Nat \ {0}
    /\ Senders \subseteq CPUs
    /\ Syncers \subseteq CPUs
    /\ DeviceUsers \subseteq CPUs

VARIABLES
    turn,
    checks,         \* the sch_check_irq events at the front of the list: a
                    \* CPU for those of IRQcheck and of the ARM7, "flagged"
                    \* for the one of the ARM9's schedule_IRQ_check
    checkFlag,      \* sch_irq_sch of the ARM9
    IRF, IE, IME,   \* io.arm7's and io.arm9's IF (a word of TLA+), IE, IME;
                    \* the first two as sets of interrupts
    line,           \* regs.IRQ_line
    masked,         \* regs.CPSR.I
    halted,         \* io.arm7.halted, arm9.halted
    len,            \* words in the FIFO to each CPU (to_arm7, to_arm9)
    sendIrq,        \* irq_on_send_fifo_empty
    recvIrq,        \* irq_on_recv_fifo_not_empty
    fifoEnable,     \* fifo_enable
    syncIrq,        \* enable_irq_from_remote
    unevaluated     \* history: CPUs whose registers a reset cleared, and
                    \* whose line has not been worked out since

irqVars  == <<checks, IRF, IE, IME, line, masked, halted, unevaluated>>
fifoVars == <<len, sendIrq, recvIrq, fifoEnable, syncIrq>>
vars     == <<turn, checkFlag, irqVars, fifoVars>>

SendUsers == Senders
RecvUsers == {Peer(c) : c \in Senders}

(* The interrupts the modelled registers and devices raise on a CPU.       *)
Interrupts(c) ==
    (IF c \in SendUsers THEN {"send_empty"} ELSE {}) \cup
    (IF c \in RecvUsers THEN {"recv_not_empty"} ELSE {}) \cup
    (IF Peer(c) \in Syncers THEN {"sync"} ELSE {}) \cup
    (IF c \in DeviceUsers THEN {"device"} ELSE {})

(* Bits 0 to 15 of IF and IE; the others are bits 16 to 18.                *)
LowHalf == {"device"}

AllInterrupts == {"send_empty", "recv_not_empty", "sync", "device"}

Init ==
    /\ turn = "host"
    /\ checks = {}
    /\ checkFlag = FALSE
    /\ IRF = [c \in CPUs |-> {}]
    /\ IE = [c \in CPUs |-> {}]
    /\ IME = [c \in CPUs |-> FALSE]
    /\ line = [c \in CPUs |-> FALSE]
    /\ masked = [c \in CPUs |-> TRUE]
    /\ halted = [c \in CPUs |-> FALSE]
    /\ len = [c \in CPUs |-> 0]
    /\ sendIrq = [c \in CPUs |-> FALSE]
    /\ recvIrq = [c \in CPUs |-> FALSE]
    /\ fifoEnable = [c \in CPUs |-> FALSE]
    /\ syncIrq = [c \in CPUs |-> FALSE]
    /\ unevaluated = {}

----------------------------------------------------------------------------
(* Interrupts.                                                             *)

(* do_IRQ masks interrupts; the ARM9's also ends its sleep.                *)
Interrupt(c) ==
    /\ masked' = [masked EXCEPT ![c] = TRUE]
    /\ halted' = [halted EXCEPT !["arm9"] = @ /\ c # "arm9"]

(* eval_irqs_7 and eval_irqs_9: with the registers at f, e and m the line  *)
(* is worked out.  A CPU in its turn gets a check at the front of the      *)
(* event list, the other one is interrupted on the spot.                   *)
Evaluate(c, f, e, m) ==
    /\ IRF' = [IRF EXCEPT ![c] = f]
    /\ IE' = [IE EXCEPT ![c] = e]
    /\ IME' = [IME EXCEPT ![c] = m]
    /\ line' = [line EXCEPT ![c] = m /\ f \cap e # {}]
    /\ unevaluated' = unevaluated \ {c}
    /\ checks' = IF turn = c THEN checks \cup {c} ELSE checks
    /\ IF turn # c /\ m /\ f \cap e # {} /\ ~masked[c]
         THEN Interrupt(c)
         ELSE UNCHANGED <<masked, halted>>

(* update_IF7 leaves the line alone when the bit was set already.          *)
RaiseWithoutLine(c, i) ==    \* faulty: sets the bit and no more
    /\ IRF' = [IRF EXCEPT ![c] = @ \cup {i}]
    /\ UNCHANGED <<checks, IE, IME, line, masked, halted, unevaluated>>

Raise(c, i) ==
    IF c = "arm7" /\ i \in IRF[c]
      THEN UNCHANGED irqVars
      ELSE Evaluate(c, IRF[c] \cup {i}, IE[c], IME[c])

----------------------------------------------------------------------------
(* What an instruction can do.  The ARM7 executes one before its halted    *)
(* flag is looked at; the ARM9 does nothing while it is halted.            *)

Running(c) == turn = c /\ (c = "arm9" => ~halted[c])

(* The ARM7's part of a block ends with an instruction that finds it       *)
(* halted.                                                                 *)
AfterInstruction(c) ==
    turn' = IF c = "arm7" /\ halted'[c] THEN "arm9" ELSE turn

PushedUnchecked(n) == n + 1    \* faulty: a full FIFO takes a word

Pushed(n) == IF n = Size THEN n ELSE n + 1

(* A write to IPCFIFOSEND.  The error bits, which only software reads, are *)
(* left out: a word that does not fit changes nothing here.                *)
Send(c) ==
    /\ Running(c)
    /\ c \in SendUsers
    /\ fifoEnable[c]
    /\ LET p == Peer(c)
       IN  /\ len' = [len EXCEPT ![p] = Pushed(@)]
           /\ IF len[p] = 0 /\ recvIrq[p]
                THEN Raise(p, "recv_not_empty")
                ELSE UNCHANGED irqVars
    /\ AfterInstruction(c)
    /\ UNCHANGED <<checkFlag, sendIrq, recvIrq, fifoEnable, syncIrq>>

(* A read of IPCFIFORECV.                                                  *)
Receive(c) ==
    /\ Running(c)
    /\ c \in RecvUsers
    /\ fifoEnable[c]
    /\ len' = [len EXCEPT ![c] = IF @ = 0 THEN 0 ELSE @ - 1]
    /\ IF len[c] = 1 /\ sendIrq[Peer(c)]
         THEN Raise(Peer(c), "send_empty")
         ELSE UNCHANGED irqVars
    /\ AfterInstruction(c)
    /\ UNCHANGED <<checkFlag, sendIrq, recvIrq, fifoEnable, syncIrq>>

(* A write to IPCFIFOCNT's low byte.  After the flush, emptiness is not    *)
(* looked at again.                                                        *)
WriteFifoCntLow(c, on, flush) ==
    /\ Running(c)
    /\ c \in SendUsers
    /\ sendIrq' = [sendIrq EXCEPT ![c] = on]
    /\ len' = [len EXCEPT ![Peer(c)] = IF flush THEN 0 ELSE @]
    /\ IF on /\ ~(sendIrq[c] /\ len[Peer(c)] = 0)
         THEN Raise(c, "send_empty")
         ELSE UNCHANGED irqVars
    /\ AfterInstruction(c)
    /\ UNCHANGED <<checkFlag, recvIrq, fifoEnable, syncIrq>>

(* A write to IPCFIFOCNT's high byte.                                      *)
WriteFifoCntHighQuiet(c, on, enable) ==    \* faulty: raises nothing
    /\ Running(c)
    /\ recvIrq' = [recvIrq EXCEPT ![c] = on]
    /\ fifoEnable' = [fifoEnable EXCEPT ![c] = enable]
    /\ UNCHANGED <<checkFlag, irqVars, len, sendIrq, syncIrq>>
    /\ AfterInstruction(c)

WriteFifoCntHigh(c, on, enable) ==
    /\ Running(c)
    /\ recvIrq' = [recvIrq EXCEPT ![c] = on]
    /\ fifoEnable' = [fifoEnable EXCEPT ![c] = enable]
    /\ IF on /\ ~recvIrq[c] /\ len[c] # 0
         THEN Raise(c, "recv_not_empty")
         ELSE UNCHANGED irqVars
    /\ AfterInstruction(c)
    /\ UNCHANGED <<checkFlag, len, sendIrq, syncIrq>>

(* A write to IPCSYNC: an interrupt for the other CPU, if it allows it.    *)
WriteSync(c, request, on) ==
    /\ Running(c)
    /\ c \in Syncers
    /\ IF request /\ syncIrq[Peer(c)]
         THEN Raise(Peer(c), "sync")
         ELSE UNCHANGED irqVars
    /\ syncIrq' = [syncIrq EXCEPT ![c] = on]
    /\ AfterInstruction(c)
    /\ UNCHANGED <<checkFlag, len, sendIrq, recvIrq, fifoEnable>>

(* Writes to IF, IE and IME.  The ARM7's write of IE's low half clears the *)
(* high half, the ARM9's keeps it.                                         *)
Acknowledge(c, s) ==
    /\ Running(c)
    /\ Evaluate(c, IRF[c] \ s, IE[c], IME[c])
    /\ AfterInstruction(c)
    /\ UNCHANGED <<checkFlag, fifoVars>>

WriteIELow(c, s) ==
    /\ Running(c)
    /\ Evaluate(c, IRF[c], IF c = "arm7" THEN s ELSE (IE[c] \ LowHalf) \cup s, IME[c])
    /\ AfterInstruction(c)
    /\ UNCHANGED <<checkFlag, fifoVars>>

WriteIEHigh(c, s) ==
    /\ Running(c)
    /\ Evaluate(c, IRF[c], (IE[c] \cap LowHalf) \cup s, IME[c])
    /\ AfterInstruction(c)
    /\ UNCHANGED <<checkFlag, fifoVars>>

WriteIME(c, m) ==
    /\ Running(c)
    /\ Evaluate(c, IRF[c], IE[c], m)
    /\ AfterInstruction(c)
    /\ UNCHANGED <<checkFlag, fifoVars>>

(* An instruction that writes CPSR (MSR, the return from an interrupt),    *)
(* with the check it schedules.                                            *)
WriteMaskAlone(c, i) ==    \* faulty: schedules no check
    /\ Running(c)
    /\ masked' = [masked EXCEPT ![c] = i]
    /\ UNCHANGED <<checks, checkFlag, IRF, IE, IME, line, halted, unevaluated, fifoVars>>
    /\ AfterInstruction(c)

WriteMask(c, i) ==
    /\ Running(c)
    /\ masked' = [masked EXCEPT ![c] = i]
    /\ IF c = "arm7"
         THEN /\ checks' = checks \cup {c}
              /\ UNCHANGED checkFlag
         ELSE /\ checks' = IF checkFlag THEN checks ELSE checks \cup {"flagged"}
              /\ checkFlag' = TRUE
    /\ UNCHANGED <<IRF, IE, IME, line, halted, unevaluated, fifoVars>>
    /\ AfterInstruction(c)

(* An exception is entered: interrupts are masked.                         *)
TakeException(c) ==
    /\ Running(c)
    /\ masked' = [masked EXCEPT ![c] = TRUE]
    /\ UNCHANGED <<checks, checkFlag, IRF, IE, IME, line, halted, unevaluated, fifoVars>>
    /\ AfterInstruction(c)

(* HALTCNT on the ARM7, the coprocessor's wait for interrupt on the ARM9.  *)
Halt(c) ==
    /\ Running(c)
    /\ halted' = [halted EXCEPT ![c] = TRUE]
    /\ UNCHANGED <<checks, checkFlag, IRF, IE, IME, line, masked, unevaluated, fifoVars>>
    /\ AfterInstruction(c)

----------------------------------------------------------------------------
(* The scheduler and run_block.                                            *)

(* sch_check_irq: the events of this kind leave the list.                  *)
CheckIrq(k) ==
    LET c == IF k = "flagged" THEN "arm9" ELSE k
    IN  /\ turn = "events"
        /\ k \in checks
        /\ checks' = checks \ {k}
        /\ checkFlag' = (checkFlag /\ k # "flagged")
        /\ IF line[c] /\ ~masked[c]
             THEN Interrupt(c)
             ELSE UNCHANGED <<masked, halted>>
        /\ UNCHANGED <<turn, IRF, IE, IME, line, unevaluated, fifoVars>>

(* A device's callback.  The checks are in front of it in the list.        *)
DeviceInterrupt(c) ==
    /\ turn = "events"
    /\ checks = {}
    /\ c \in DeviceUsers
    /\ Raise(c, "device")
    /\ UNCHANGED <<turn, checkFlag, fifoVars>>

(* A block starts: an enabled interrupt, masked or not, wakes the ARM7.    *)
StartBlockUnmasked ==    \* faulty: a masked interrupt does not
    /\ turn = "events"
    /\ checks = {}
    /\ turn' = "arm7"
    /\ halted' = [halted EXCEPT !["arm7"] = @ /\ masked["arm7"]]
    /\ UNCHANGED <<checks, checkFlag, IRF, IE, IME, line, masked, unevaluated, fifoVars>>

StartBlock ==
    /\ turn = "events"
    /\ checks = {}
    /\ turn' = "arm7"
    /\ halted' = [halted EXCEPT !["arm7"] = @ /\ IRF["arm7"] \cap IE["arm7"] = {}]
    /\ UNCHANGED <<checks, checkFlag, IRF, IE, IME, line, masked, unevaluated, fifoVars>>

EndArm7 ==
    /\ turn = "arm7"
    /\ turn' = "arm9"
    /\ UNCHANGED <<checkFlag, irqVars, fifoVars>>

EndArm9 ==
    /\ turn = "arm9"
    /\ turn' = "events"
    /\ UNCHANGED <<checkFlag, irqVars, fifoVars>>

(* Back to the front end: at the frame event, behind the checks, or after  *)
(* a block in which a breakpoint was hit.                                  *)
ReturnToHost ==
    /\ (turn = "events" /\ checks = {}) \/ turn = "arm9"
    /\ turn' = "host"
    /\ UNCHANGED <<checkFlag, irqVars, fifoVars>>

Resume ==
    /\ turn = "host"
    /\ turn' = "events"
    /\ UNCHANGED <<checkFlag, irqVars, fifoVars>>

(* The front end resets the NDS: the interrupt registers are cleared but   *)
(* not evaluated; halted, sch_irq_sch and the FIFOs keep what they held.   *)
Reset ==
    /\ turn = "host"
    /\ checks' = {}
    /\ IRF' = [c \in CPUs |-> {}]
    /\ IE' = [c \in CPUs |-> {}]
    /\ IME' = [c \in CPUs |-> FALSE]
    /\ masked' = [c \in CPUs |-> TRUE]
    /\ unevaluated' = CPUs
    /\ UNCHANGED <<turn, checkFlag, line, halted, fifoVars>>

----------------------------------------------------------------------------
FifoInstruction(c) ==
    \/ Send(c)
    \/ Receive(c)
    \/ \E on, flush \in BOOLEAN : WriteFifoCntLow(c, on, flush)
    \/ \E on, enable \in BOOLEAN :
           /\ c \in SendUsers \cup RecvUsers
           /\ on => c \in RecvUsers
           /\ WriteFifoCntHigh(c, on, enable)
    \/ \E request, on \in BOOLEAN : WriteSync(c, request, on)

IrqInstruction(c) ==
    \/ \E s \in SUBSET (Interrupts(c) \cap LowHalf) : Acknowledge(c, s)
    \/ \E s \in SUBSET (Interrupts(c) \ LowHalf) : Acknowledge(c, s)
    \/ \E s \in SUBSET (Interrupts(c) \cap LowHalf) : WriteIELow(c, s)
    \/ \E s \in SUBSET (Interrupts(c) \ LowHalf) : WriteIEHigh(c, s)
    \/ \E m \in BOOLEAN : WriteIME(c, m)
    \/ \E i \in BOOLEAN : WriteMask(c, i)
    \/ TakeException(c)
    \/ Halt(c)

Schedule ==
    \/ \E k \in CPUs \cup {"flagged"} : CheckIrq(k)
    \/ StartBlock
    \/ EndArm7
    \/ EndArm9

Next ==
    \/ \E c \in CPUs : FifoInstruction(c) \/ IrqInstruction(c) \/ DeviceInterrupt(c)
    \/ Schedule
    \/ ReturnToHost
    \/ Resume
    \/ Reset

(* While the host runs the NDS, due events are handled, and each CPU's     *)
(* part of a block, whose cycles are bounded, ends.  Nothing makes the CPUs *)
(* execute any instruction in particular, nor the host call again.  This is *)
(* weak fairness of Schedule, with what enables it spelled out: a step of   *)
(* it is possible, and changes something, in every turn but the host's.     *)
ScheduleGoesOn == []<>(turn = "host") \/ []<><<Schedule>>_vars

Spec == Init /\ [][Next]_vars /\ ScheduleGoesOn

----------------------------------------------------------------------------
(* Properties.                                                             *)

TypeOK ==
    /\ turn \in CPUs \cup {"host", "events"}
    /\ checks \subseteq CPUs \cup {"flagged"}
    /\ checkFlag \in BOOLEAN
    /\ IRF \in [CPUs -> SUBSET AllInterrupts]
    /\ IE \in [CPUs -> SUBSET AllInterrupts]
    /\ IME \in [CPUs -> BOOLEAN]
    /\ line \in [CPUs -> BOOLEAN]
    /\ masked \in [CPUs -> BOOLEAN]
    /\ halted \in [CPUs -> BOOLEAN]
    /\ len \in [CPUs -> 0 .. Size]
    /\ sendIrq \in [CPUs -> BOOLEAN]
    /\ recvIrq \in [CPUs -> BOOLEAN]
    /\ fifoEnable \in [CPUs -> BOOLEAN]
    /\ syncIrq \in [CPUs -> BOOLEAN]
    /\ unevaluated \subseteq CPUs

(* IRQ_line, which is kept and not computed, is what the three registers   *)
(* say, whichever CPU, device or instruction changed them last; a reset is *)
(* the one step that leaves it behind.                                     *)
LineMatches ==
    \A c \in CPUs \ unevaluated : line[c] <=> (IME[c] /\ IRF[c] \cap IE[c] # {})

(* A breakpoint that stops the NDS before a flagged check has run, and a   *)
(* reset that clears the list, leave the flag set for good.                *)
FlagLost == checkFlag /\ "flagged" \notin checks

Awaited(c) == c \in checks \/ (c = "arm9" /\ ("flagged" \in checks \/ FlagLost))

(* No interrupt is missed.  Nothing polls the line (the checks in          *)
(* run_block are commented out, nds.cpp:235), so whenever a line is up and *)
(* its CPU accepts interrupts, a check must be in the list: whether the    *)
(* other CPU, a device or an instruction raised the line, or an            *)
(* instruction lifted the mask.                                            *)
NoMissedInterrupt == \A c \in CPUs : line[c] /\ ~masked[c] => Awaited(c)

(* The conditions of the FIFO interrupts: the one depends on what the      *)
(* sender enables and the receiver reads, the other on what the receiver   *)
(* enables and the sender writes.                                          *)
SendEmpty(c) == sendIrq[c] /\ len[Peer(c)] = 0

RecvNotEmpty(c) == recvIrq[c] /\ len[c] # 0

(* The FIFO interrupts are edge-triggered (nds_bus.cpp:688), and a CPU     *)
(* that sleeps relies on the edge: whenever one of the conditions becomes  *)
(* true, by whatever step of either CPU, that CPU's interrupt is requested *)
(* in that step.                                                           *)
FifoEdgesInterrupt ==
    [][\A c \in CPUs :
          /\ ~SendEmpty(c) /\ SendEmpty(c)' => "send_empty" \in IRF'[c]
          /\ ~RecvNotEmpty(c) /\ RecvNotEmpty(c)' => "recv_not_empty" \in IRF'[c]]_vars

(* A CPU that sleeps with its line up and interrupts accepted wakes before *)
(* the host stops the NDS, without any help from the other CPU.            *)
SleepersWake ==
    \A c \in CPUs :
        (halted[c] /\ line[c] /\ ~masked[c] /\ c \notin unevaluated /\ ~FlagLost)
            ~> (~halted[c] \/ turn = "host")

(* What "IPC Send FIFO Empty" (nds_irq.cpp:45) and "Edge-sensitive         *)
(* trigger" (nds_bus.cpp:688, 1221) say: that interrupt is requested only  *)
(* when the send FIFO is empty.                                            *)
SendEmptyOnlyWhenEmpty ==
    [][\A c \in CPUs :
          "send_empty" \in IRF'[c] \ IRF[c] => len'[Peer(c)] = 0]_vars
=============================================================================
