---------------------------- MODULE GbaRunProofs ----------------------------
(***************************************************************************)
(* Proofs about GbaRun, for any channels, registers, counts and events,    *)
(* and any stores of instructions and transfers.                           *)
(*                                                                         *)
(* That the scheduler runs the DMA only while a transfer is in progress    *)
(* needs that a channel that is not enabled was not started: else enabling *)
(* it would put it in progress without a look at the masks.                *)
(***************************************************************************)
EXTENDS GbaRun, TLAPS

StartedAreEnabled == \A i \in Channels : ch[i].started => ch[i].enable

(* The masks are not stale, and the scheduler runs the DMA for a channel.  *)
DmaHasWork == mask = Busy(ch) /\ (run = "dma" => Busy(ch) # {})

IInv == TypeOK /\ DmaHasWork /\ LineIsCurrent /\ StartedAreEnabled

(* A channel in progress has the bus: not an invariant, see DmaHasTheBus.  *)
HasBus == Busy(ch) # {} => run = "dma"

(* What an action that changes channels leaves of them.                    *)
Sound(c) == c \in [Channels -> Channel] /\ \A i \in Channels : c[i].started => c[i].enable

(* The masks and what runs follow the channels.                            *)
Follow(m, r, c) ==
    m = Busy(c) /\ r \in {"cpu", "dma", "halted"} /\ (r = "dma" => Busy(c) # {})

IrqTypes == /\ IE \in SUBSET Bits /\ IRF \in SUBSET Bits
            /\ IME \in BOOLEAN /\ line \in BOOLEAN

LEMMA Parts ==
    IInv <=> /\ Sound(ch) /\ Follow(mask, run, ch)
             /\ IrqTypes /\ LineIsCurrent
             /\ halted \in BOOLEAN /\ due \in 0..MaxDue
<1>1. Busy(ch) \subseteq Channels
  BY DEF Busy
<1> QED
  BY <1>1 DEF IInv, TypeOK, DmaHasWork, StartedAreEnabled, Sound, Follow, IrqTypes

LEMMA PartsNext ==
    IInv' <=> /\ Sound(ch') /\ Follow(mask', run', ch')
              /\ IrqTypes' /\ LineIsCurrent'
              /\ halted' \in BOOLEAN /\ due' \in 0..MaxDue
<1>1. Busy(ch') \subseteq Channels
  BY DEF Busy
<1> QED
  BY <1>1 DEF IInv, TypeOK, DmaHasWork, StartedAreEnabled, Sound, Follow, IrqTypes, Busy

LEMMA InitInv == Init => IInv
<1> SUFFICES ASSUME Init PROVE IInv
  OBVIOUS
<1>1. 0 \in 0..MaxCount /\ 0 \in 0..3 /\ 0 \in 0..MaxDue
  BY CountsAssumption, DueAssumption
<1>2. Sound(ch)
  BY <1>1 DEF Init, Sound, Channel
<1>3. Follow(mask, run, ch)
  BY DEF Init, Follow, Busy
<1>4. IrqTypes /\ LineIsCurrent
  BY DEF Init, IrqTypes, LineIsCurrent
<1> QED
  BY <1>1, <1>2, <1>3, <1>4, Parts DEF Init

----------------------------------------------------------------------------
(* What a store holds.                                                     *)
LEMMA StoreFields ==
    ASSUME NEW w \in AllStores
    PROVE  /\ w.to \in {"length", "control"} =>
                  w.chan \in Channels /\ (w.length # Same => w.length \in 0..MaxCount)
           /\ w.to = "control" => w.control \in ControlValues
           /\ w.to = "interrupts" => w.enabled \in SUBSET Bits
           /\ w.to = "IME" => w.value \in BOOLEAN
           /\ w = HALTCNT => w.to = "HALTCNT"
           /\ w = Memory => w.to = "memory"
<1>1. CASE w \in Lengths
  BY <1>1 DEF Lengths, HALTCNT, Memory
<1>2. CASE w \in Controls
  BY <1>2 DEF Controls, Same, HALTCNT, Memory
<1>3. CASE w \in Interrupts
  BY <1>3 DEF Interrupts, HALTCNT, Memory
<1>4. CASE w \in Masters
  BY <1>4 DEF Masters, HALTCNT, Memory
<1>5. CASE w \in {HALTCNT, Memory}
  BY <1>5 DEF HALTCNT, Memory
<1> QED
  BY <1>1, <1>2, <1>3, <1>4, <1>5 DEF AllStores

----------------------------------------------------------------------------
(* Interrupts: whatever changes IE, IF or IME works the line out.          *)

LEMMA EvaluatedLine ==
    ASSUME EvalIrqs, IE' \in SUBSET Bits, IRF' \in SUBSET Bits, IME' \in BOOLEAN
    PROVE  IrqTypes' /\ LineIsCurrent'
BY DEF EvalIrqs, IrqTypes, LineIsCurrent

LEMMA SameLine ==
    ASSUME IInv, UNCHANGED irqs PROVE IrqTypes' /\ LineIsCurrent'
BY DEF IInv, TypeOK, irqs, IrqTypes, LineIsCurrent

LEMMA RequestedLine ==
    ASSUME IInv, NEW b, Request(b) PROVE IrqTypes' /\ LineIsCurrent'
<1>1. /\ IRF' \in SUBSET Bits /\ IE' = IE /\ IME' = IME
      /\ IE \in SUBSET Bits /\ IME \in BOOLEAN
      /\ EvalIrqs \/ (IRF' = IRF /\ line' = line)
  BY WantedAssumption DEF IInv, TypeOK, Request
<1>2. CASE EvalIrqs
  <2>1. IE' \in SUBSET Bits /\ IRF' \in SUBSET Bits /\ IME' \in BOOLEAN
    BY <1>1
  <2> QED
    BY <1>2, <2>1, EvaluatedLine
<1>3. CASE ~EvalIrqs
  BY <1>1, <1>3, SameLine DEF irqs
<1> QED
  BY <1>2, <1>3

LEMMA PolledLine ==
    ASSUME IInv, PollKeypad PROVE IrqTypes' /\ LineIsCurrent'
<1>1. /\ IRF' \in SUBSET Bits /\ IE' = IE /\ IME' = IME
      /\ IE \in SUBSET Bits /\ IME \in BOOLEAN
      /\ EvalIrqs \/ (IRF' = IRF /\ line' = line)
  BY WantedAssumption DEF IInv, TypeOK, PollKeypad
<1>2. CASE EvalIrqs
  <2>1. IE' \in SUBSET Bits /\ IRF' \in SUBSET Bits /\ IME' \in BOOLEAN
    BY <1>1
  <2> QED
    BY <1>2, <2>1, EvaluatedLine
<1>3. CASE ~EvalIrqs
  BY <1>1, <1>3, SameLine DEF irqs
<1> QED
  BY <1>2, <1>3

(* Any store, with or without a request of the interrupts in more.         *)
LEMMA StoredLine ==
    ASSUME IInv, NEW w \in AllStores, NEW more \in SUBSET Bits, StoreIrqs(w, more)
    PROVE  IrqTypes' /\ LineIsCurrent'
<1>1. /\ IE \in SUBSET Bits /\ IRF \in SUBSET Bits /\ IME \in BOOLEAN
      /\ line = (IME /\ IE \cap IRF # {}) /\ line \in BOOLEAN
  BY DEF IInv, TypeOK, LineIsCurrent
<1>2. CASE w.to \in {"interrupts", "IME"} \/ more # {}
  <2>1. EvalIrqs
    BY <1>2 DEF StoreIrqs
  <2>2. IE' \in SUBSET Bits /\ IRF' \in SUBSET Bits /\ IME' \in BOOLEAN
    BY <1>1, StoreFields DEF StoreIrqs
  <2> QED
    BY <2>1, <2>2, EvaluatedLine
<1>3. CASE ~(w.to \in {"interrupts", "IME"} \/ more # {})
  <2>1. UNCHANGED irqs
    BY <1>1, <1>3 DEF StoreIrqs, irqs
  <2> QED
    BY <2>1, SameLine
<1> QED
  BY <1>2, <1>3

----------------------------------------------------------------------------
(* Channels.                                                               *)

LEMMA Evaluated ==
    ASSUME EvalBitMasks(ch') PROVE Follow(mask', run', ch') /\ HasBus'
BY DEF EvalBitMasks, Follow, HasBus, Busy

(* Starting enabled channels: the DMA runs, unless there was none to start. *)
LEMMA Started ==
    ASSUME IInv, NEW S \in SUBSET Channels, \A i \in S : ch[i].enable, Start(S)
    PROVE  /\ Sound(ch') /\ Follow(mask', run', ch')
           /\ run' = run \/ run' = "dma"
           /\ HasBus => HasBus'
<1>1. Sound(ch) /\ Follow(mask, run, ch)
  BY Parts
<1>2. Sound(ch')
  BY <1>1 DEF Start, Sound, Channel
<1>3. CASE S = {}
  <2>1. ch' = ch
    BY <1>1, <1>3 DEF Start, Sound, Channel
  <2> QED
    BY <1>1, <1>2, <1>3, <2>1 DEF Start, HasBus, Busy
<1>4. CASE S # {}
  <2>1. EvalBitMasks(ch')
    BY <1>4 DEF Start
  <2>2. PICK i \in S : i \in Channels /\ ch'[i].started /\ ch'[i].enable
    BY <1>1, <1>4 DEF Start, Sound, Channel
  <2>3. Busy(ch') # {}
    BY <2>2 DEF Busy
  <2> QED
    BY <1>2, <2>1, <2>3, Evaluated DEF EvalBitMasks
<1> QED
  BY <1>3, <1>4

(* A control register that is written: the channels stay sound, and unless *)
(* the masks are evaluated the same ones are in progress.                  *)
LEMMA Written ==
    ASSUME NEW c, Sound(c), NEW i \in Channels, NEW v \in ControlValues
    PROVE  /\ Sound(ControlWritten(c, i, v))
           /\ ~Evaluates(c, i, v) => Busy(ControlWritten(c, i, v)) = Busy(c)
<1> DEFINE d == ControlWritten(c, i, v)
<1>1. /\ c[i] \in Channel /\ v.enable \in BOOLEAN /\ v.timing \in 0..3
      /\ v.repeat \in BOOLEAN /\ v.irq \in BOOLEAN
  BY DEF Sound, ControlValues
<1>2. /\ c[i].started \in BOOLEAN /\ c[i].enable \in BOOLEAN /\ c[i].sound \in BOOLEAN
      /\ c[i].length \in 0..MaxCount /\ c[i].count \in 0..MaxCount
  BY <1>1 DEF Channel
<1>3. /\ d[i].enable = v.enable
      /\ d[i].started = (v.enable /\ (c[i].started \/ (Enabling(c, i, v) /\ v.timing = 0)))
      /\ \A j \in Channels : j # i => d[j] = c[j]
  BY DEF ControlWritten, Sound
<1>4. d[i] \in Channel
  <2>1. Enabling(c, i, v) \in BOOLEAN /\ IsSound(i, v) \in BOOLEAN
    BY DEF Enabling, IsSound
  <2>2. Burst \in 0..MaxCount
    BY CountsAssumption
  <2>3. (CASE ~Enabling(c, i, v) -> c[i].count
           [] IsSound(i, v) -> Burst
           [] OTHER -> c[i].length) \in 0..MaxCount
    BY <1>2, <2>1, <2>2
  <2>4. (IF Enabling(c, i, v) THEN IsSound(i, v) ELSE c[i].sound) \in BOOLEAN
    BY <1>2, <2>1
  <2>5. d[i] = [enable |-> v.enable, timing |-> v.timing, repeat |-> v.repeat,
                irq |-> v.irq, length |-> c[i].length,
                started |-> v.enable /\ (c[i].started \/ (Enabling(c, i, v) /\ v.timing = 0)),
                sound |-> IF Enabling(c, i, v) THEN IsSound(i, v) ELSE c[i].sound,
                count |-> CASE ~Enabling(c, i, v) -> c[i].count
                            [] IsSound(i, v) -> Burst
                            [] OTHER -> c[i].length]
    BY DEF ControlWritten, Sound
  <2>6. (v.enable /\ (c[i].started \/ (Enabling(c, i, v) /\ v.timing = 0))) \in BOOLEAN
    BY <1>1
  <2> HIDE DEF d
  <2> QED
    BY <1>1, <1>2, <2>3, <2>4, <2>5, <2>6 DEF Channel
<1>5. d \in [Channels -> Channel]
  BY <1>4 DEF ControlWritten, Sound
<1>6. Sound(d)
  <2> HIDE DEF d
  <2> QED
    BY <1>3, <1>5 DEF Sound
<1>7. ASSUME ~Evaluates(c, i, v) PROVE Busy(d) = Busy(c)
  <2>1. v.enable /\ (d[i].started <=> c[i].started)
    BY <1>1, <1>2, <1>3, <1>7 DEF Evaluates
  <2>2. c[i].started => c[i].enable
    BY DEF Sound
  <2> HIDE DEF d
  <2> QED
    BY <1>3, <2>1, <2>2 DEF Busy
<1> QED
  BY <1>6, <1>7

(* A word moved: nothing else is in progress, and this one ends or goes on. *)
LEMMA Moves ==
    ASSUME NEW c, Sound(c), NEW i \in Channels
    PROVE  /\ Sound(Moved(c, i))
           /\ ~Ends(c, i) => Busy(Moved(c, i)) = Busy(c)
<1> DEFINE d == Moved(c, i)
<1> DEFINE reloads == c[i].repeat /\ c[i].timing # 0
<1>1. /\ c[i] \in Channel
      /\ c[i].started \in BOOLEAN /\ c[i].enable \in BOOLEAN /\ c[i].sound \in BOOLEAN
      /\ c[i].repeat \in BOOLEAN
      /\ c[i].length \in 0..MaxCount /\ c[i].count \in 0..MaxCount
  BY DEF Sound, Channel
<1>2. \A j \in Channels : j # i => d[j] = c[j]
  BY DEF Moved, Sound
<1>0. /\ DOMAIN c = Channels
      /\ d = [c EXCEPT ![i] = d[i]]
  BY DEF Moved, Sound
<1>3. CASE Ends(c, i)
  <2>1. d[i] = [c[i] EXCEPT !.started = FALSE,
                            !.count = CASE ~reloads -> 0
                                        [] c[i].sound -> Burst
                                        [] OTHER -> c[i].length,
                            !.enable = c[i].enable /\ c[i].repeat]
    BY <1>3 DEF Moved, Sound
  <2>2. Burst \in 0..MaxCount /\ 0 \in 0..MaxCount
    BY CountsAssumption
  <2>3. (CASE ~reloads -> 0 [] c[i].sound -> Burst [] OTHER -> c[i].length) \in 0..MaxCount
    BY <1>1, <2>2
  <2>4. (c[i].enable /\ c[i].repeat) \in BOOLEAN
    BY <1>1
  <2>5. d[i] \in Channel /\ ~d[i].started
    <3> HIDE DEF d, reloads
    <3> QED
      BY <1>1, <2>1, <2>3, <2>4 DEF Channel
  <2>6. Sound(d)
    <3>1. d \in [Channels -> Channel]
      BY <2>5, <1>0 DEF Sound
    <3> HIDE DEF d
    <3> QED
      BY <1>2, <2>5, <3>1 DEF Sound
  <2> QED
    BY <1>3, <2>6
<1>4. CASE ~Ends(c, i)
  <2>1. d[i] = [c[i] EXCEPT !.count = (c[i].count - 1) % (MaxCount + 1)]
    BY <1>4 DEF Moved, Sound
  <2>2. (c[i].count - 1) % (MaxCount + 1) \in 0..MaxCount
    BY <1>1, CountsAssumption
  <2>3. /\ d[i] \in Channel
        /\ d[i].started = c[i].started /\ d[i].enable = c[i].enable
    <3> HIDE DEF d
    <3> QED
      BY <1>1, <2>1, <2>2 DEF Channel
  <2>4. d \in [Channels -> Channel]
    BY <2>3, <1>0 DEF Sound
  <2>5. Sound(d)
    <3> HIDE DEF d
    <3> QED
      BY <1>2, <2>3, <2>4 DEF Sound
  <2>6. Busy(d) = Busy(c)
    <3> HIDE DEF d
    <3> QED
      BY <1>2, <2>3 DEF Busy
  <2> QED
    BY <2>5, <2>6
<1> QED
  BY <1>3, <1>4

(* The count and control registers, by any store.                          *)
LEMMA StoredSound ==
    ASSUME NEW c, Sound(c), NEW w \in AllStores
    PROVE  /\ Sound(Stored(c, w))
           /\ ~EvaluatesMasks(c, w) => Busy(Stored(c, w)) = Busy(c)
<1> DEFINE d == Relengthed(c, w)
<1>1. /\ Sound(d) /\ Busy(d) = Busy(c)
      /\ \A i \in Channels : d[i].enable = c[i].enable
  <2>1. CASE d = c
    BY <2>1
  <2>2. CASE w.to \in {"length", "control"} /\ w.length # Same
    <3>1. w.chan \in Channels /\ w.length \in 0..MaxCount
      BY <2>2, StoreFields
    <3>2. d = [c EXCEPT ![w.chan].length = w.length]
      BY <2>2 DEF Relengthed
    <3>3. \A i \in Channels : /\ d[i] \in Channel
                              /\ d[i].enable = c[i].enable
                              /\ d[i].started = c[i].started
      BY <3>1, <3>2 DEF Sound, Channel
    <3>4. d \in [Channels -> Channel]
      BY <3>1, <3>2, <3>3 DEF Sound
    <3> HIDE DEF d
    <3> QED
      BY <3>3, <3>4 DEF Sound, Busy
  <2> QED
    BY <2>1, <2>2 DEF Relengthed
<1> HIDE DEF d
<1>2. CASE w.to = "control"
  <2>1. w.chan \in Channels /\ w.control \in ControlValues
    BY <1>2, StoreFields
  <2>2. Stored(c, w) = ControlWritten(d, w.chan, w.control)
    BY <1>2 DEF Stored, d
  <2>3. EvaluatesMasks(c, w) <=> Evaluates(d, w.chan, w.control)
    BY <1>1, <1>2, <2>1 DEF EvaluatesMasks, Evaluates, Enabling
  <2> QED
    BY <1>1, <2>1, <2>2, <2>3, Written
<1>3. CASE w.to # "control"
  BY <1>1, <1>3 DEF Stored, d
<1> QED
  BY <1>2, <1>3

(* What runs after a store: only one that hits HALTCNT takes the bus.      *)
LEMMA RunsNext ==
    ASSUME IInv, NEW w, NEW evaluated \in BOOLEAN, NextRun(w, evaluated),
           ~evaluated => Busy(ch') = Busy(ch)
    PROVE  /\ Follow(mask', run', ch') /\ halted' \in BOOLEAN
           /\ HasBus => HasBus' \/ (run = "dma" /\ w = HALTCNT)
<1>1. Follow(mask, run, ch) /\ halted \in BOOLEAN
  BY Parts
<1>2. halted' \in BOOLEAN
  BY <1>1 DEF NextRun
<1>3. CASE evaluated
  BY <1>2, <1>3, Evaluated DEF NextRun
<1>4. CASE ~evaluated
  <2>1. mask' = mask /\ run' = IF w = HALTCNT THEN "halted" ELSE run
    BY <1>4 DEF NextRun
  <2>2. HasBus' <=> (Busy(ch') # {} => run' = "dma")
    BY DEF HasBus, Busy
  <2> QED
    BY <1>1, <1>2, <1>4, <2>1, <2>2 DEF Follow, HasBus
<1> QED
  BY <1>3, <1>4

----------------------------------------------------------------------------
(* One lemma for each action: the invariant, and whether a channel in      *)
(* progress keeps the bus.                                                 *)

LEMMA MoveInv ==
    ASSUME IInv, NEW w \in Words, Move(w)
    PROVE  IInv' /\ (HasBus => HasBus' \/ w = HALTCNT)
<1> DEFINE stored == Stored(ch, w)
           i == Chosen
           more == IF Ends(stored, i) /\ stored[i].irq THEN {DmaBit(i)} ELSE {}
           evaluated == Ends(stored, i) \/ EvaluatesMasks(ch, w)
<1>1. /\ Sound(ch) /\ w \in AllStores
      /\ i \in Channels /\ due' = due /\ due \in 0..MaxDue
  BY Parts, StoresAssumption DEF Move, Busy
<1>2. /\ ch' = Moved(stored, i)
      /\ StoreIrqs(w, more)
      /\ NextRun(w, evaluated)
  BY DEF Move
<1>3. more \in SUBSET Bits /\ evaluated \in BOOLEAN
  BY <1>1 DEF Bits, HighBits, Ends, EvaluatesMasks, Evaluates
<1> HIDE DEF stored, i, more, evaluated
<1>4. Sound(stored) /\ (~EvaluatesMasks(ch, w) => Busy(stored) = Busy(ch))
  BY <1>1, StoredSound DEF stored
<1>5. Sound(ch') /\ (~Ends(stored, i) => Busy(ch') = Busy(stored))
  BY <1>1, <1>2, <1>4, Moves
<1>6. ~evaluated => Busy(ch') = Busy(ch)
  BY <1>4, <1>5 DEF evaluated
<1>7. IrqTypes' /\ LineIsCurrent'
  BY <1>1, <1>2, <1>3, StoredLine
<1>8. /\ Follow(mask', run', ch') /\ halted' \in BOOLEAN
      /\ HasBus => HasBus' \/ w = HALTCNT
  BY <1>2, <1>3, <1>6, RunsNext
<1> QED
  BY <1>1, <1>5, <1>7, <1>8, PartsNext

(* An instruction runs without the DMA, so it takes no bus from it.        *)
LEMMA InstructionInv ==
    ASSUME IInv, NEW w \in Stores, Instruction(w)
    PROVE  IInv' /\ (HasBus => HasBus')
<1>1. /\ Sound(ch) /\ w \in AllStores /\ run # "dma"
      /\ due' \in 0..MaxDue
  BY Parts, StoresAssumption DEF Instruction
<1>2. /\ ch' = Stored(ch, w)
      /\ StoreIrqs(w, {})
      /\ NextRun(w, EvaluatesMasks(ch, w))
  BY DEF Instruction
<1>3. EvaluatesMasks(ch, w) \in BOOLEAN /\ {} \in SUBSET Bits
  BY DEF EvaluatesMasks
<1>4. Sound(ch') /\ (~EvaluatesMasks(ch, w) => Busy(ch') = Busy(ch))
  BY <1>1, <1>2, StoredSound
<1>5. IrqTypes' /\ LineIsCurrent'
  BY <1>1, <1>2, <1>3, StoredLine
<1>6. /\ Follow(mask', run', ch') /\ halted' \in BOOLEAN
      /\ HasBus => HasBus'
  BY <1>1, <1>2, <1>3, <1>4, RunsNext
<1> QED
  BY <1>1, <1>4, <1>5, <1>6, PartsNext

LEMMA HaltStepInv == ASSUME IInv, HaltStep PROVE IInv' /\ (HasBus => HasBus')
<1>1. IrqTypes' /\ LineIsCurrent'
  BY SameLine DEF HaltStep
<1>2. Sound(ch') /\ Follow(mask', run', ch')
  BY Parts DEF HaltStep, Follow
<1>3. due' \in 0..MaxDue /\ halted' \in BOOLEAN
  BY DueAssumption DEF HaltStep
<1>4. HasBus => HasBus'
  BY DEF HaltStep, HasBus, Busy
<1> QED
  BY <1>1, <1>2, <1>3, <1>4, PartsNext

(* Events.                                                                 *)
LEMMA Discharged ==
    ASSUME IInv, Discharge PROVE halted' \in BOOLEAN /\ due' \in 0..MaxDue
BY DueAssumption DEF IInv, TypeOK, Discharge

LEMMA VblankInv ==
    ASSUME IInv, Vblank
    PROVE  IInv' /\ (run' = run \/ run' = "dma") /\ (HasBus => HasBus')
<1>1. /\ Sound(ch') /\ Follow(mask', run', ch')
      /\ run' = run \/ run' = "dma"
      /\ HasBus => HasBus'
  BY Started DEF Vblank, Waiting
<1>2. IrqTypes' /\ LineIsCurrent'
  BY RequestedLine DEF Vblank
<1> QED
  BY <1>1, <1>2, Discharged, PartsNext DEF Vblank

LEMMA HblankInv ==
    ASSUME IInv, Hblank
    PROVE  IInv' /\ (run' = run \/ run' = "dma") /\ (HasBus => HasBus')
<1>1. PICK visible, video \in BOOLEAN :
          Start((IF visible THEN Waiting(2) ELSE {})
                \cup (IF video THEN Waiting(3) \cap {3} ELSE {}))
  BY DEF Hblank
<1> DEFINE S == (IF visible THEN Waiting(2) ELSE {})
                \cup (IF video THEN Waiting(3) \cap {3} ELSE {})
<1>2. S \in SUBSET Channels /\ \A i \in S : ch[i].enable
  BY DEF Waiting
<1>3. /\ Sound(ch') /\ Follow(mask', run', ch')
      /\ run' = run \/ run' = "dma"
      /\ HasBus => HasBus'
  <2> HIDE DEF S
  <2>1. Start(S)
    BY <1>1 DEF S
  <2> QED
    BY <1>2, <2>1, Started
<1>4. IrqTypes' /\ LineIsCurrent'
  BY RequestedLine DEF Hblank
<1> QED
  BY <1>3, <1>4, Discharged, PartsNext DEF Hblank

LEMMA OverflowInv ==
    ASSUME IInv, Overflow
    PROVE  IInv' /\ (run' = run \/ run' = "dma") /\ (HasBus => HasBus')
<1>1. PICK hungry \in SUBSET {1, 2} :
          Start({i \in hungry \cap Channels : ch[i].enable /\ ch[i].timing = 3})
  BY DEF Overflow
<1>2. /\ Sound(ch') /\ Follow(mask', run', ch')
      /\ run' = run \/ run' = "dma"
      /\ HasBus => HasBus'
  BY <1>1, Started
<1>3. IrqTypes' /\ LineIsCurrent'
  BY RequestedLine DEF Overflow
<1> QED
  BY <1>2, <1>3, Discharged, PartsNext DEF Overflow

LEMMA ScanlineInv == ASSUME IInv, Scanline PROVE IInv' /\ (HasBus => HasBus')
<1>0. HasBus => HasBus'
  BY DEF Scanline, HasBus, Busy
<1>1. IrqTypes' /\ LineIsCurrent'
  BY RequestedLine, SameLine DEF Scanline
<1>2. Sound(ch') /\ Follow(mask', run', ch')
  BY Parts DEF Scanline
<1> QED
  BY <1>0, <1>1, <1>2, Discharged, PartsNext DEF Scanline

LEMMA FrameInv == ASSUME IInv, Frame PROVE IInv' /\ (HasBus => HasBus')
<1>0. HasBus => HasBus'
  BY DEF Frame, HasBus, Busy
<1>1. IrqTypes' /\ LineIsCurrent'
  BY PolledLine DEF Frame
<1>2. Sound(ch') /\ Follow(mask', run', ch')
  BY Parts DEF Frame
<1> QED
  BY <1>0, <1>1, <1>2, Discharged, PartsNext DEF Frame

LEMMA ResetInv == ASSUME IInv, Reset PROVE IInv' /\ (HasBus => HasBus')
<1>0. HasBus => HasBus'
  BY DEF Reset, HasBus, Busy
<1>1. IrqTypes' /\ LineIsCurrent'
  BY PolledLine DEF Reset
<1>2. Sound(ch') /\ Follow(mask', run', ch') /\ halted' \in BOOLEAN
  BY Parts DEF Reset
<1>3. due' \in 0..MaxDue
  BY DueAssumption DEF Reset
<1> QED
  BY <1>0, <1>1, <1>2, <1>3, PartsNext

LEMMA NextInv ==
    IInv /\ [Next]_vars => IInv' /\ (HasBus => HasBus' \/ Move(HALTCNT))
<1> SUFFICES ASSUME IInv, [Next]_vars
             PROVE  IInv' /\ (HasBus => HasBus' \/ Move(HALTCNT))
  OBVIOUS
<1>1. CASE CpuStep
  BY <1>1, InstructionInv DEF CpuStep
<1>2. CASE DmaStep
  <2>1. PICK w \in Words : Move(w)
    BY <1>2 DEF DmaStep
  <2> QED
    BY <2>1, MoveInv
<1>3. CASE HaltStep
  BY <1>3, HaltStepInv
<1>4. CASE Event
  BY <1>4, VblankInv, HblankInv, ScanlineInv, FrameInv, OverflowInv DEF Event
<1>5. CASE Reset
  BY <1>5, ResetInv
<1>6. CASE UNCHANGED vars
  <2>1. IrqTypes' /\ LineIsCurrent'
    BY <1>6, SameLine DEF vars, irqs
  <2>2. HasBus' <=> HasBus
    BY <1>6 DEF vars, HasBus, Busy
  <2> QED
    BY <1>6, <2>1, <2>2, Parts, PartsNext DEF vars
<1> QED
  BY <1>1, <1>2, <1>3, <1>4, <1>5, <1>6 DEF Next, Step

LEMMA Invariant == Spec => []IInv
BY InitInv, NextInv, PTL DEF Spec

----------------------------------------------------------------------------
(* Registers, flags and latches keep their types: counts their bits, IF    *)
(* and IE the bits that exist.                                             *)
THEOREM TypeCorrect == Spec => []TypeOK
BY Invariant, PTL DEF IInv

(* The scheduler runs the DMA only while a transfer is in progress and     *)
(* from masks that are not stale, whatever writes, starts and ends come    *)
(* together; and whatever transfers store, only a store of theirs to       *)
(* HALTCNT takes the bus from one in progress.                             *)
THEOREM DmaGetsTheBus == Spec => DmaHasTheBus
<1>1. ASSUME IInv, [Next]_vars
      PROVE  [/\ mask' = Busy(ch')
              /\ run' = "dma" => Busy(ch') # {}
              /\ Busy(ch') # {} /\ run' # "dma" =>
                     \/ Busy(ch) # {} /\ run # "dma"
                     \/ Move(HALTCNT)]_vars
  <2>1. IInv' /\ (HasBus => HasBus' \/ Move(HALTCNT))
    BY <1>1, NextInv
  <2>2. mask' = Busy(ch') /\ (run' = "dma" => Busy(ch') # {})
    BY <2>1 DEF IInv, DmaHasWork, Busy
  <2>3. HasBus' <=> (Busy(ch') # {} => run' = "dma")
    BY DEF HasBus, Busy
  <2> QED
    BY <2>1, <2>2, <2>3 DEF HasBus
<1> QED
  BY <1>1, Invariant, PTL DEF Spec, DmaHasTheBus

(* The CPU's line is what IE, IF and IME make it.                          *)
THEOREM LineStaysCurrent == Spec => []LineIsCurrent
BY Invariant, PTL DEF IInv

(* A sleeping CPU runs for an enabled interrupt or at the end of a         *)
(* transfer, for nothing else: no event, and no reset, wakes it.           *)
THEOREM SleepIsLeftForAReason == Spec => SleepEndsForAReason
<1>1. ASSUME IInv, [Next]_vars
      PROVE  [halted /\ run # "cpu" /\ run' = "cpu" => run = "dma" \/ IE \cap IRF # {}]_vars
  <2>1. SUFFICES ASSUME Next, halted, run # "cpu", run' = "cpu", run # "dma"
                 PROVE  IE \cap IRF # {}
    BY <1>1
  <2>2. CASE CpuStep
    BY <2>1, <2>2 DEF CpuStep, Instruction
  <2>3. CASE HaltStep
    <3>1. run = "halted" /\ run' # run
      BY <2>1, <2>3 DEF HaltStep
    <3>2. ~halted' /\ (halted' <=> halted /\ ~Wakes)
      BY <2>3, <3>1 DEF HaltStep
    <3> QED
      BY <2>1, <3>2 DEF Wakes
  <2>4. CASE Event
    BY <1>1, <2>1, <2>4, VblankInv, HblankInv, OverflowInv DEF Event, Scanline, Frame
  <2>5. CASE Reset
    BY <2>1, <2>5 DEF Reset
  <2> QED
    BY <2>1, <2>2, <2>3, <2>4, <2>5 DEF Next, Step, DmaStep, Move
<1> QED
  BY <1>1, Invariant, PTL DEF Spec, SleepEndsForAReason

----------------------------------------------------------------------------
(* A sleeping CPU and what wakes it.                                       *)

Roused(b) == run = "halted" /\ b \in IE \cap IRF
Kept(b) == run = "dma" /\ b \in IE \cap IRF
Withdrawn(b) == run = "dma" /\ b \notin IE \cap IRF
Registers == \E w \in Words \ {Memory} : Move(w)

LEMMA EventsKeep ==
    ASSUME IInv, NEW b \in Bits \ {KeypadBit}, b \in IE \cap IRF, Event
    PROVE  b \in IE' \cap IRF' /\ (run' = run \/ run' = "dma") /\ due # 0
<1>1. IE' = IE /\ IRF \ {KeypadBit} \subseteq IRF'
  BY DEF Event, Vblank, Hblank, Scanline, Frame, Overflow, Request, PollKeypad, irqs
<1>2. run' = run \/ run' = "dma"
  BY VblankInv, HblankInv, OverflowInv DEF Event, Scanline, Frame
<1>3. due # 0
  BY DEF Event, Vblank, Hblank, Scanline, Frame, Overflow, Discharge
<1> QED
  BY <1>1, <1>2, <1>3

(* Only the keypad's interrupt is withdrawn while the CPU sleeps, and only *)
(* a transfer takes the place of the step that wakes it.                   *)
LEMMA RousedUntilRun ==
    ASSUME IInv, NEW b \in Bits \ {KeypadBit}, Roused(b), [Next]_vars
    PROVE  /\ Roused(b)' \/ run' = "cpu" \/ Kept(b)'
           /\ due = 0 => (Roused(b)' /\ due' = 0) \/ run' = "cpu"
<1>1. ~CpuStep /\ ~DmaStep
  BY DEF Roused, CpuStep, Instruction, DmaStep, Move
<1>2. CASE HaltStep
  BY <1>2 DEF HaltStep, Wakes, Roused
<1>3. CASE Event
  BY <1>3, EventsKeep DEF Roused, Kept
<1>4. CASE Reset
  BY <1>4 DEF Reset, PollKeypad, Roused
<1>5. CASE UNCHANGED vars
  BY <1>5 DEF vars, irqs, Roused
<1> QED
  BY <1>1, <1>2, <1>3, <1>4, <1>5 DEF Next, Step

(* A transfer withdraws the interrupt, or keeps it while it runs, puts the *)
(* CPU to sleep again, or ends.  One that moves memory only does not.      *)
LEMMA KeptUntilRun ==
    ASSUME IInv, NEW b \in Bits \ {KeypadBit}, Kept(b), [Next]_vars
    PROVE  /\ Kept(b)' \/ run' = "cpu" \/ Roused(b)' \/ Withdrawn(b)'
           /\ ~Registers => Kept(b)' \/ run' = "cpu"
<1>1. ~CpuStep /\ ~HaltStep
  BY DEF Kept, CpuStep, Instruction, HaltStep
<1>2. CASE DmaStep
  <2>1. PICK w \in Words : Move(w)
    BY <1>2 DEF DmaStep
  <2>2. w \in AllStores /\ run = "dma"
    BY <2>1, StoresAssumption DEF Move
  <2>3. run' \in {"dma", "cpu"} \/ (w = HALTCNT /\ run' = "halted")
    BY <2>1, <2>2 DEF Move, NextRun, EvalBitMasks
  <2>4. w \in {HALTCNT, Memory} => b \in IE' \cap IRF'
    <3>1. w \in {HALTCNT, Memory} => w.to \notin {"interrupts", "IME"}
      BY <2>2, StoreFields
    <3>2. PICK more : StoreIrqs(w, more)
      BY <2>1 DEF Move
    <3> QED
      BY <3>1, <3>2 DEF StoreIrqs, Kept
  <2>5. ~Registers => w = Memory
    BY <2>1 DEF Registers
  <2>6. Memory # HALTCNT
    BY DEF Memory, HALTCNT
  <2> QED
    BY <2>3, <2>4, <2>5, <2>6 DEF Kept, Roused, Withdrawn
<1>3. CASE Event
  BY <1>3, EventsKeep DEF Kept
<1>4. CASE Reset
  BY <1>4 DEF Reset, PollKeypad, Kept
<1>5. CASE UNCHANGED vars
  BY <1>5 DEF vars, irqs, Kept
<1> QED
  BY <1>1, <1>2, <1>3, <1>4, <1>5 DEF Next, Step

LEMMA StepWakes ==
    ASSUME NEW b, Roused(b), Step
    PROVE  run' = "cpu"
BY DEF Roused, Step, CpuStep, Instruction, DmaStep, Move, HaltStep, Wakes

(* An enabled interrupt wakes a sleeping CPU, if the loop gets through     *)
(* what is due and transfers end (both count down, by the length of a      *)
(* list and of a transfer): no event, and no reset, withdraws it or takes  *)
(* the step away that sees it, but a transfer whose end wakes it as well,  *)
(* or that withdraws it.                                                   *)
THEOREM SleeperIsWoken == Spec /\ []<>(due = 0) /\ TransfersEnd => SleeperWakes
<1> SUFFICES ASSUME NEW b \in Bits \ {KeypadBit}
             PROVE  Spec /\ []<>(due = 0) /\ TransfersEnd /\ StoresEnd
                        => ((run = "halted" /\ b \in IE \cap IRF)
                               ~> (run = "cpu" \/ (run = "dma" /\ b \notin IE \cap IRF)))
  BY DEF SleeperWakes
<1> DEFINE Idle == due = 0
           OnCpu == run = "cpu"
           OnDma == run = "dma"
           OffDma == run # "dma"
<1>1. IInv /\ Roused(b) /\ [Next]_vars
        => /\ Roused(b)' \/ OnCpu' \/ Kept(b)'
           /\ Idle => (Roused(b)' /\ Idle') \/ OnCpu'
  BY RousedUntilRun
<1>2. IInv /\ Kept(b) /\ [Next]_vars
        => Kept(b)' \/ OnCpu' \/ Roused(b)' \/ Withdrawn(b)'
  BY KeptUntilRun
<1>3. IInv /\ Kept(b) /\ [Next]_vars /\ [\A w \in Words \ {Memory} : ~Move(w)]_vars
        => Kept(b)' \/ OnCpu'
  <2>1. CASE ~Registers
    BY <2>1, KeptUntilRun
  <2>2. CASE Registers
    BY <2>2 DEF Registers, vars, irqs, Kept
  <2> QED
    BY <2>1, <2>2
<1>4. Roused(b) /\ <<Step>>_vars => OnCpu'
  BY StepWakes
<1>5. (Idle => ~(due > 0)) /\ (Kept(b) => OnDma) /\ (OffDma => ~OnDma)
  BY DEF Kept
<1> HIDE DEF Idle, OnCpu, OnDma, OffDma
<1>6. Spec /\ []<>Idle /\ (StoresEnd => (OnDma ~> OffDma)) /\ StoresEnd
        => (Roused(b) ~> (OnCpu \/ Withdrawn(b)))
  BY <1>1, <1>2, <1>3, <1>4, <1>5, Invariant, PTL DEF Spec, StepsAreRun, StoresEnd
<1> QED
  BY <1>6 DEF TransfersEnd, Roused, Withdrawn, Idle, OnCpu, OnDma, OffDma
=============================================================================
