------------------------------- MODULE GbaRun -------------------------------
(* What the Game Boy Advance runs next: system/gba/gba_bus.cpp, gba_dma.cpp. *)
(* The scheduler's loop discharges the events that are due and then calls    *)
(* run.func once: one instruction of the CPU, one word of a DMA channel, or  *)
(* one step of a sleeping CPU.  Registers written by the CPU, transfers that *)
(* start and end, and events all decide what run.func is next.  A DMA takes  *)
(* no time of the scheduler: its steps do not move master_cycle_count.       *)
EXTENDS Integers, FiniteSets

CONSTANTS
    Channels,  \* DMA channels in use, of 0..3; a lower one goes first
    MaxCount,  \* the largest word count (word_mask)
    Burst,     \* words a sound FIFO asks for (4)
    MaxDue,    \* events that fall due at once
    Wanted,    \* interrupts in use: devices request them, software enables them
    Stores,    \* what instructions store, and where
    Words      \* and what transfers do

VARIABLES
    ch,        \* io and latch of each channel
    mask,      \* dma.bit_mask.normal
    IE, IRF, IME,  \* io.IE and io.IF (a word of TLA+) as sets of bits, io.IME
    line,      \* cpu.regs.IRQ_line
    halted,    \* io.halted
    run,       \* scheduler.run.func
    due        \* how many events the loop discharges before it runs anything

irqs == <<IE, IRF, IME, line>>
vars == <<ch, mask, IE, IRF, IME, line, halted, run, due>>

(* Interrupts by their bit: the low byte of IE and IF, and the high byte.    *)
VblankBit == 0
HblankBit == 1
VcountBit == 2
TimerBit == 3          \* any of the four
KeypadBit == 12
DmaBit(i) == 8 + i
LowBits == {VblankBit, HblankBit, VcountBit, TimerBit}
HighBits == {DmaBit(i) : i \in Channels} \cup {KeypadBit}
Bits == LowBits \cup HighBits

(* A store of up to four bytes, by the CPU or by a transfer (mainbus_write),  *)
(* for the registers it hits: the count of a DMA channel, its control, or    *)
(* both at once (Same leaves the count), of which enable, start timing (0    *)
(* now, 1 vblank, 2 hblank, 3 special), repeat and irq_on_end matter; the    *)
(* bits of IE that lie in half, and an acknowledgement in IF; IME; HALTCNT;  *)
(* or anything else.                                                         *)
Same == -1
ControlValues == [enable : BOOLEAN, timing : 0..3, repeat : BOOLEAN, irq : BOOLEAN]
Lengths == [to : {"length"}, chan : Channels, length : 0..MaxCount]
Controls == [to : {"control"}, chan : Channels, length : 0..MaxCount \cup {Same},
             control : ControlValues]
Interrupts == [to : {"interrupts"}, half : SUBSET Bits, enabled : SUBSET Bits,
               acked : SUBSET Bits]
Masters == [to : {"IME"}, value : BOOLEAN]
HALTCNT == [to |-> "HALTCNT"]
Memory == [to |-> "memory"]
AllStores == Lengths \cup Controls \cup Interrupts \cup Masters \cup {HALTCNT, Memory}

ASSUME ChannelsAssumption == Channels \subseteq 0..3
ASSUME CountsAssumption == MaxCount \in Nat \ {0} /\ Burst \in 1..MaxCount
ASSUME DueAssumption == MaxDue \in Nat \ {0}
ASSUME WantedAssumption == Wanted \subseteq Bits
ASSUME StoresAssumption ==
    /\ Memory \in Stores /\ Stores \subseteq AllStores
    /\ Memory \in Words /\ Words \subseteq AllStores

Channel == [enable : BOOLEAN, started : BOOLEAN, timing : 0..3,
            repeat : BOOLEAN, irq : BOOLEAN, sound : BOOLEAN,
            length : 0..MaxCount, count : 0..MaxCount]

(* One type invariant: registers, flags and latches hold values of theirs.   *)
TypeOK ==
    /\ ch \in [Channels -> Channel]
    /\ mask \subseteq Channels
    /\ IE \subseteq Bits /\ IRF \subseteq Bits
    /\ IME \in BOOLEAN /\ line \in BOOLEAN /\ halted \in BOOLEAN
    /\ run \in {"cpu", "dma", "halted"}
    /\ due \in 0..MaxDue

Init ==
    /\ ch = [i \in Channels |->
                [enable |-> FALSE, started |-> FALSE, timing |-> 0,
                 repeat |-> FALSE, irq |-> FALSE, sound |-> FALSE,
                 length |-> 0, count |-> 0]]
    /\ mask = {}
    /\ IE = {} /\ IRF = {} /\ IME = FALSE /\ line = FALSE
    /\ halted = FALSE
    /\ run = "cpu"
    /\ due = 0

-----------------------------------------------------------------------------
(* Interrupts.                                                               *)

(* eval_irqs, after a change of IE, IF or IME.                               *)
EvalIrqs == line' = (IME' /\ IE' \cap IRF' # {})

(* A device requests interrupt b if it is set to: the line is only evaluated *)
(* when IF changes.                                                          *)
Request(b) ==
    /\ IRF' = IRF \cup ({b} \cap Wanted)
    /\ UNCHANGED <<IE, IME>>
    /\ IF IRF' # IRF THEN EvalIrqs ELSE UNCHANGED line

-----------------------------------------------------------------------------
(* DMA.                                                                      *)

Busy(c) == {i \in Channels : c[i].enable /\ c[i].started}

(* eval_bit_masks: whatever the CPU is doing, sleeping included.             *)
EvalBitMasks(c) ==
    /\ mask' = Busy(c)
    /\ run' = IF Busy(c) # {} THEN "dma" ELSE "cpu"

(* DMA_ch::start of every channel of S, in any order.                        *)
StartUnseen(S) ==    \* faulty: the masks are not evaluated
    /\ ch' = [i \in Channels |-> [ch[i] EXCEPT !.started = @ \/ i \in S]]
    /\ UNCHANGED <<mask, run>>
Start(S) ==
    /\ ch' = [i \in Channels |-> [ch[i] EXCEPT !.started = @ \/ i \in S]]
    /\ IF S = {} THEN UNCHANGED <<mask, run>> ELSE EvalBitMasks(ch')

(* The channels a request of the given timing starts.                        *)
Waiting(t) == {i \in Channels : ch[i].enable /\ ~ch[i].started /\ ch[i].timing = t}

(* The control register of channel i written with v, and DMA_ch::cnt_written: *)
(* enabling latches the count, and starts the channel unless it waits.        *)
IsSound(i, v) == v.timing = 3 /\ i \in {1, 2}
Enabling(c, i, v) == v.enable /\ ~c[i].enable
ControlWritten(c, i, v) ==
    [c EXCEPT ![i] =
        [enable |-> v.enable, timing |-> v.timing, repeat |-> v.repeat,
         irq |-> v.irq, length |-> @.length,
         started |-> v.enable /\ (@.started \/ (Enabling(c, i, v) /\ v.timing = 0)),
         sound |-> IF Enabling(c, i, v) THEN IsSound(i, v) ELSE @.sound,
         count |-> CASE ~Enabling(c, i, v) -> @.count
                     [] IsSound(i, v) -> Burst
                     [] OTHER -> @.length]]
(* It evaluates the masks when it starts the channel and when it stops it.   *)
Evaluates(c, i, v) == ~v.enable \/ (Enabling(c, i, v) /\ v.timing = 0)

(* The channels c after store w: a count goes before a control.              *)
Relengthed(c, w) ==
    IF w.to \in {"length", "control"} /\ w.length # Same
    THEN [c EXCEPT ![w.chan].length = w.length]
    ELSE c
Stored(c, w) ==
    IF w.to = "control" THEN ControlWritten(Relengthed(c, w), w.chan, w.control)
    ELSE Relengthed(c, w)
EvaluatesMasks(c, w) == w.to = "control" /\ Evaluates(c, w.chan, w.control)

(* The interrupt registers after store w, and a request of the bits in more. *)
StoreIrqs(w, more) ==
    /\ IE' = IF w.to = "interrupts" THEN (IE \ w.half) \cup (w.enabled \cap w.half) ELSE IE
    /\ IRF' = (IF w.to = "interrupts" THEN IRF \ w.acked ELSE IRF) \cup more
    /\ IME' = IF w.to = "IME" THEN w.value ELSE IME
    /\ IF w.to \in {"interrupts", "IME"} \/ more # {} THEN EvalIrqs ELSE UNCHANGED line

(* HALTCNT, whoever stores to it, and what runs next after store w: the      *)
(* masks are evaluated, if they are, after the store.                        *)
NextRun(w, evaluated) ==
    /\ halted' = (halted \/ w = HALTCNT)
    /\ IF evaluated
       THEN EvalBitMasks(ch')
       ELSE mask' = mask /\ run' = IF w = HALTCNT THEN "halted" ELSE run

(* The rest of DMA_ch::go after the word is stored: the count, and at its    *)
(* end the reload of a repeating channel or the end of one that does not.    *)
Ends(c, i) == (c[i].count - 1) % (MaxCount + 1) = 0
MovedUnmasked(c, i) ==    \* faulty: a count of 0 is not 2^14
    [c EXCEPT ![i].count = c[i].count - 1, ![i].started = c[i].count # 1]
MovedRestarting(c, i) ==    \* faulty: a channel that repeats starts over
    IF Ends(c, i)
    THEN [c EXCEPT ![i].started = c[i].repeat,
                   ![i].count = c[i].length,
                   ![i].enable = c[i].enable /\ c[i].repeat]
    ELSE [c EXCEPT ![i].count = (c[i].count - 1) % (MaxCount + 1)]
Moved(c, i) ==
    LET reloads == c[i].repeat /\ c[i].timing # 0
    IN  [c EXCEPT ![i] =
            IF Ends(c, i)
            THEN [c[i] EXCEPT !.started = FALSE,
                              !.count = CASE ~reloads -> 0
                                          [] c[i].sound -> Burst
                                          [] OTHER -> c[i].length,
                              !.enable = c[i].enable /\ c[i].repeat]
            ELSE [c[i] EXCEPT !.count = (c[i].count - 1) % (MaxCount + 1)]]

(* hipri: the channel with the lowest number.                                *)
Chosen == CHOOSE i \in mask : \A j \in mask : i <= j

(* block_step_dma moves a word of the chosen channel.  What it hits takes    *)
(* effect inside the transfer.  Nothing moves if the chosen channel is not   *)
(* in progress.                                                              *)
Move(w) ==
    LET stored == Stored(ch, w)
        i == Chosen
    IN  /\ run = "dma" /\ due = 0
        /\ mask # {} /\ i \in Busy(ch)
        /\ ch' = Moved(stored, i)
        /\ StoreIrqs(w, IF Ends(stored, i) /\ stored[i].irq THEN {DmaBit(i)} ELSE {})
        /\ NextRun(w, Ends(stored, i) \/ EvaluatesMasks(ch, w))
        /\ UNCHANGED due

DmaStep == \E w \in Words : Move(w)

-----------------------------------------------------------------------------
(* The CPU.  block_step_cpu runs one instruction, which stores once (one that *)
(* stores more often is several steps with nothing due between them).         *)
Instruction(w) ==
    /\ run = "cpu" /\ due = 0
    /\ due' \in 0..MaxDue
    /\ ch' = Stored(ch, w)
    /\ StoreIrqs(w, {})
    /\ NextRun(w, EvaluatesMasks(ch, w))

(* block_step_halted: wake, or move the clock to the first event.            *)
WakesAtAny == IRF # {}    \* faulty: one that is not enabled wakes
WakesByLine == line    \* faulty: only one that IME lets through wakes
Wakes == IE \cap IRF # {}
HaltStep ==
    /\ run = "halted" /\ due = 0
    /\ halted' = (halted /\ ~Wakes)
    /\ IF halted'
       THEN run' = run /\ due' \in 1..MaxDue
       ELSE run' = "cpu" /\ due' = 0
    /\ UNCHANGED <<ch, mask, irqs>>

-----------------------------------------------------------------------------
(* Events, in any order: the loop takes the first that is due, sleeping or   *)
(* transferring or not.                                                      *)

Discharge == due > 0 /\ due' = due - 1 /\ UNCHANGED halted

(* vblank with val 1.                                                        *)
Vblank == Discharge /\ Start(Waiting(1)) /\ Request(VblankBit)

(* do_hblank in the middle of a line.  No hblank transfers at lines 160 and  *)
(* later, no video transfers but at lines 2 to 162.                          *)
Hblank ==
    /\ Discharge
    /\ Request(HblankBit)
    /\ \E visible, video \in BOOLEAN :
          Start((IF visible THEN Waiting(2) ELSE {})
                \cup (IF video THEN Waiting(3) \cap {3} ELSE {}))

(* do_hblank at the end of a line: the line may match.                       *)
Scanline ==
    /\ Discharge
    /\ \/ Request(VcountBit)
       \/ UNCHANGED irqs
    /\ UNCHANGED <<ch, mask, run>>

(* process_button_IRQ: a key interrupt no longer called for is withdrawn.    *)
PollKeypadLate ==    \* faulty: withdraws without working out the line
    /\ IRF' \in {IRF \cup ({KeypadBit} \cap Wanted), IRF \ {KeypadBit}}
    /\ UNCHANGED <<IE, IME>>
    /\ IF KeypadBit \in IRF' THEN EvalIrqs ELSE UNCHANGED line
PollKeypad ==
    /\ \/ IRF' = IRF
       \/ KeypadBit \in Wanted /\ IRF' \in {IRF \cup {KeypadBit}, IRF \ {KeypadBit}}
    /\ UNCHANGED <<IE, IME>>
    /\ IF IRF' # IRF THEN EvalIrqs ELSE UNCHANGED line

(* do_schedule_frame.                                                        *)
Frame == Discharge /\ PollKeypad /\ UNCHANGED <<ch, mask, run>>

(* TIMER::overflow: the interrupt, and sound_FIFO for each FIFO on the timer.*)
(* A FIFO that is hungry starts its channel, in progress or not.             *)
Overflow ==
    /\ Discharge
    /\ Request(TimerBit)
    /\ \E hungry \in SUBSET {1, 2} :
          Start({i \in hungry \cap Channels : ch[i].enable /\ ch[i].timing = 3})

(* GBA::core::reset schedules a frame and forgets all other events; DMA,     *)
(* interrupts and sleep stay as they are.                                    *)
Reset ==
    /\ due' = 0
    /\ PollKeypad
    /\ UNCHANGED <<ch, mask, halted, run>>

-----------------------------------------------------------------------------
CpuStep == \E w \in Stores : Instruction(w)
Step == CpuStep \/ DmaStep \/ HaltStep
Event == Vblank \/ Hblank \/ Scanline \/ Frame \/ Overflow
Next == Step \/ Event \/ Reset

(* The loop discharges what is due and calls run.func as long as it runs.    *)
(* The second is weak fairness, with what enables a step spelled out: there  *)
(* is one, and it changes something, whenever nothing is due.                *)
StepsAreRun == []<>(due > 0) \/ []<><<Step>>_vars

Spec == Init /\ [][Next]_vars /\ StepsAreRun /\ WF_vars(Event)

-----------------------------------------------------------------------------
(* Properties.                                                               *)

(* The scheduler runs the DMA only while a channel is in progress, and picks *)
(* it from a mask that is not stale, so that a word is always moved; and a   *)
(* channel in progress has the bus, unless a transfer has put the CPU to     *)
(* sleep by a store to HALTCNT.  No event, wake, start or stop takes it.     *)
(* (Once it is lost it stays lost till the masks are evaluated: a wake gives *)
(* the CPU the bus although the channel still waits.)                        *)
DmaHasTheBus ==
    [][/\ mask' = Busy(ch')
       /\ run' = "dma" => Busy(ch') # {}
       /\ Busy(ch') # {} /\ run' # "dma" =>
              \/ Busy(ch) # {} /\ run # "dma"
              \/ Move(HALTCNT)]_vars

(* The line the CPU tests is what IE, IF and IME make it: every write,       *)
(* request and withdrawal evaluates it.                                      *)
LineIsCurrent == line = (IME /\ IE \cap IRF # {})

(* A sleeping CPU runs again for an enabled interrupt, or because a transfer *)
(* ended (eval_bit_masks does not ask whether it sleeps), never otherwise.   *)
SleepEndsForAReason ==
    [][halted /\ run # "cpu" /\ run' = "cpu" => run = "dma" \/ IE \cap IRF # {}]_vars

(* Transfers that store to registers may start each other for ever, or put   *)
(* the CPU to sleep again and again.  What ends, ends if they stop it.       *)
StoresEnd == <>[][\A w \in Words \ {Memory} : ~Move(w)]_vars

(* An enabled interrupt wakes a sleeping CPU, whatever DMA and events do     *)
(* meanwhile, unless a transfer that has the bus withdraws it; the keypad's  *)
(* may be withdrawn by the keypad.                                           *)
SleeperWakes ==
    StoresEnd =>
        \A b \in Bits \ {KeypadBit} :
            (run = "halted" /\ b \in IE \cap IRF)
                ~> (run = "cpu" \/ (run = "dma" /\ b \notin IE \cap IRF))

(* Transfers end: the DMA lets go of the bus.                                *)
TransfersEnd == StoresEnd => (run = "dma" ~> run # "dma")
=============================================================================
