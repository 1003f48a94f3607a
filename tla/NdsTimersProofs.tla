--------------------------- MODULE NdsTimersProofs ---------------------------
(***************************************************************************)
(* Proofs about NdsTimers, for any number of timers, length of a block and *)
(* of an instruction, reloads and dividers.                                *)
(*                                                                         *)
(* That a timer overflows close to its cycle is not inductive: it needs    *)
(* where the clocks are with respect to the end of the block (ClocksPlaced)*)
(* and where the pending events are (EventsPlaced).                        *)
(***************************************************************************)
EXTENDS NdsTimers, TLAPS

(* Both parts of a block end at the same cycle.                            *)
End == target["arm7"]

(* The clocks: within an instruction past the end for a CPU that has had   *)
(* its part, no more than a block before it for one that has not.          *)
Past(x, e)   == x \in e .. e + MaxInstr - 1
Within(x, e) == x \in e - MaxBlock .. e + MaxInstr - 1

ClocksPlaced ==
    /\ target["arm9"] = target["arm7"]
    /\ turn = "handover" => trans = 0
    /\ turn \in CPUs /\ trans > 0 => time[turn] < End
    /\ turn \in {"events", "handover", "arm9"} => Past(time["arm7"], End)
    /\ turn = "events" => Past(time["arm9"], End)
    /\ turn \in {"handover", "arm7", "arm9"} => Within(time["arm9"], End)
    /\ turn = "arm7" => Within(time["arm7"], End)

(* An event of the ARM9 is not due before the end of the block, one of the *)
(* ARM7 may be, but only if it was scheduled in this very block.           *)
EventsPlaced ==
    turn # "overflowing" =>
        \A t \in Timers : armed[t] # Never =>
            IF t[1] = "arm9" THEN armed[t] >= End ELSE armed[t] > End - MaxBlock

IInv ==
    /\ TypeOK
    /\ RunningTimersAreArmed
    /\ ClocksPlaced
    /\ EventsPlaced
    /\ OnlyShortTimersHang

----------------------------------------------------------------------------
(* A tick count is positive, for the last reload value too.                *)
LEMMA TicksPositive ==
    ASSUME NEW r \in Counts, NEW d \in Nat \ {0} PROVE Ticks(r, d) \in Nat \ {0}
<1> DEFINE n == IF r = Wrap - 1 THEN Wrap ELSE Wrap - r
<1>1. n \in Nat \ {0}
  BY TimersAssumption DEF Counts
<1> HIDE DEF n
<1>2. n * d \in Nat \ {0}
  BY <1>1
<1> QED
  BY <1>2 DEF Ticks, n

LEMMA CountersFit ==
    ASSUME NEW x \in Int PROVE x % Wrap \in Counts
BY TimersAssumption DEF Counts

(* A counter that is read fits its 16 bits, whatever the clocks.           *)
LEMMA ReadFits ==
    ASSUME TypeOK, NEW t \in Timers PROVE ReadCounter(t) \in Counts
<1>1. /\ val[t] \in Counts /\ divider[t] \in Nat \ {0}
      /\ enableAt[t] \in Int /\ t[1] \in CPUs
  BY DEF TypeOK, Times, Never, Timers
<1>2. Now(t[1]) \in Int
  BY <1>1 DEF TypeOK, Now
<1>3. (Now(t[1]) - 1 - enableAt[t]) \div divider[t] \in Int
  BY <1>1, <1>2
<1>4. val[t] + (Now(t[1]) - 1 - enableAt[t]) \div divider[t] \in Int
  BY <1>1, <1>3 DEF Counts
<1> QED
  BY <1>1, <1>4, CountersFit DEF ReadCounter

LEMMA InitInv == Init => IInv
BY TimersAssumption
   DEF Init, IInv, TypeOK, RunningTimersAreArmed, ClocksPlaced, EventsPlaced,
       OnlyShortTimersHang, Past, Within, End, Times, Never, Counts, CPUs
----------------------------------------------------------------------------
(* Timers that overflow together.                                          *)

LEMMA TimerParts ==
    ASSUME NEW u \in Timers
    PROVE  /\ u[1] \in CPUs /\ u[2] \in 0 .. Last /\ u[2] \in Int
           /\ u = <<u[1], u[2]>>
BY TimersAssumption DEF Timers

(* The one that was due is among them, and any other cascades.             *)
LEMMA OthersCascade ==
    ASSUME NEW t \in Timers
    PROVE  /\ t \in Overflowing(t)
           /\ \A u \in Overflowing(t) : u # t => cascade[u]
<1>1. t \in Overflowing(t)
  BY TimerParts DEF Overflowing
<1>2. ASSUME NEW u \in Overflowing(t), u # t PROVE cascade[u]
  <2>1. /\ u \in Timers /\ u[1] = t[1] /\ u[2] >= t[2]
        /\ \A k \in t[2] + 1 .. u[2] : cascade[<<u[1], k>>]
    BY <1>2 DEF Overflowing
  <2>2. u[2] # t[2]
    BY <2>1, <1>2, TimerParts
  <2>3. u[2] \in t[2] + 1 .. u[2]
    BY <2>1, <2>2, TimerParts
  <2> QED
    BY <2>1, <2>3, TimerParts
<1> QED
  BY <1>1, <1>2

(* One that is stepped and does not overflow was not at its last count.    *)
LEMMA SteppedFits ==
    ASSUME TypeOK, NEW t \in Timers, NEW u \in Stepped(t), u \notin Overflowing(t)
    PROVE  val[u] + 1 \in Counts
<1>1. /\ u \in Timers /\ u[2] > t[2] /\ cascade[u]
      /\ <<u[1], u[2] - 1>> \in Overflowing(t)
  BY DEF Stepped
<1>2. /\ u[1] = t[1]
      /\ \A k \in t[2] + 1 .. u[2] - 1 :
            cascade[<<u[1], k>>] /\ val[<<u[1], k>>] = Wrap - 1
  BY <1>1 DEF Overflowing
<1>3. ASSUME val[u] = Wrap - 1 PROVE FALSE
  <2>1. \A k \in t[2] + 1 .. u[2] : k \in t[2] + 1 .. u[2] - 1 \/ k = u[2]
    BY <1>1, TimerParts
  <2>2. \A k \in t[2] + 1 .. u[2] :
           cascade[<<u[1], k>>] /\ val[<<u[1], k>>] = Wrap - 1
    BY <1>1, <1>2, <1>3, <2>1, TimerParts
  <2>3. u[2] >= t[2]
    BY <1>1, TimerParts
  <2> QED
    BY <1>1, <1>2, <2>2, <2>3 DEF Overflowing
<1>4. val[u] \in Counts
  BY <1>1 DEF TypeOK
<1> QED
  BY <1>3, <1>4, TimersAssumption DEF Counts

----------------------------------------------------------------------------
(* Steps that leave the timers alone.                                      *)

(* The part of the invariant about the timers is about these variables.    *)
LEMMA TimersKept ==
    ASSUME IInv, UNCHANGED timerVars, turn # "overflowing", turn' # "overflowing",
           target' = target
    PROVE  RunningTimersAreArmed' /\ EventsPlaced' /\ OnlyShortTimersHang'
<1>1. RunningTimersAreArmed'
  BY DEF IInv, RunningTimersAreArmed, timerVars
<1>2. EventsPlaced'
  BY DEF IInv, EventsPlaced, End, timerVars
<1> QED
  BY <1>1, <1>2 DEF OnlyShortTimersHang

LEMMA InterruptStep ==
    ASSUME IInv, Interrupt PROVE IInv'
<1>1. TypeOK'
  BY TimersAssumption DEF IInv, TypeOK, Interrupt, timerVars
<1>2. ClocksPlaced'
  BY DEF IInv, ClocksPlaced, Interrupt, CPUs, Past, Within, End
<1> QED
  BY <1>1, <1>2, TimersKept DEF IInv, Interrupt

LEMMA CycleStep ==
    ASSUME IInv, NEW c \in CPUs, Cycle(c) PROVE IInv'
<1>1. TypeOK'
  BY TimersAssumption DEF IInv, TypeOK, Cycle, timerVars
<1>2. turn \in CPUs /\ turn' = turn /\ time[turn] < End
  BY DEF Cycle, InLoop, CPUs, End, IInv, ClocksPlaced
<1>3. ClocksPlaced'
  BY <1>2 DEF IInv, ClocksPlaced, Cycle, CPUs, Past, Within, End
<1> QED
  BY <1>1, <1>2, <1>3, TimersKept DEF IInv, Cycle, CPUs

LEMMA EndInstructionStep ==
    ASSUME IInv, NEW c \in CPUs, EndInstruction(c) PROVE IInv'
<1>1. TypeOK'
  BY TimersAssumption DEF IInv, TypeOK, EndInstruction, timerVars
<1>2. turn = c /\ turn' = c /\ time[c] < End
  BY DEF EndInstruction, InLoop, CPUs, End, IInv, ClocksPlaced
<1>3. time[c] + trans <= End + MaxInstr - 1
  BY <1>2, TimersAssumption DEF IInv, TypeOK, CPUs, End
<1>4. ClocksPlaced'
  <2>1. /\ trans' = 0 /\ target' = target /\ time' = [time EXCEPT ![c] = @ + trans]
        /\ trans \in Nat /\ time \in [CPUs -> Nat] /\ target \in [CPUs -> Nat]
    BY TimersAssumption DEF EndInstruction, IInv, TypeOK
  <2>2. CASE c = "arm7"
    BY <1>2, <1>3, <2>1, <2>2, TimersAssumption
       DEF IInv, ClocksPlaced, CPUs, Past, Within, End
  <2>3. CASE c = "arm9"
    BY <1>2, <1>3, <2>1, <2>3, TimersAssumption
       DEF IInv, ClocksPlaced, CPUs, Past, Within, End
  <2> QED
    BY <2>2, <2>3 DEF CPUs
<1> QED
  BY <1>1, <1>2, <1>4, TimersKept DEF IInv, EndInstruction, CPUs

LEMMA Arm7SleepsStep ==
    ASSUME IInv, Arm7Sleeps PROVE IInv'
<1>1. TypeOK'
  BY TimersAssumption DEF IInv, TypeOK, Arm7Sleeps, timerVars, CPUs
<1>2. turn = "arm7" /\ turn' = "handover" /\ target' = target
  BY DEF Arm7Sleeps, InLoop
<1>3. ClocksPlaced'
  BY <1>2, TimersAssumption
     DEF IInv, TypeOK, ClocksPlaced, Arm7Sleeps, CPUs, Past, Within, End
<1> QED
  BY <1>1, <1>2, <1>3, TimersKept DEF IInv, Arm7Sleeps

LEMMA EndArm7Step ==
    ASSUME IInv, EndArm7 PROVE IInv'
<1>1. TypeOK'
  BY DEF IInv, TypeOK, EndArm7, timerVars, CPUs
<1>2. turn = "arm7" /\ turn' = "handover" /\ target' = target
  BY DEF EndArm7
<1>3. ClocksPlaced'
  BY <1>2, TimersAssumption
     DEF IInv, TypeOK, ClocksPlaced, EndArm7, CPUs, Past, Within, End
<1> QED
  BY <1>1, <1>2, <1>3, TimersKept DEF IInv, EndArm7

LEMMA Arm9SleepsStep ==
    ASSUME IInv, Arm9Sleeps PROVE IInv'
<1>1. TypeOK'
  BY DEF IInv, TypeOK, Arm9Sleeps, timerVars, CPUs
<1>2. turn = "handover" /\ turn' = "events" /\ target' = target
  BY DEF Arm9Sleeps
<1>3. ClocksPlaced'
  BY <1>2, TimersAssumption
     DEF IInv, TypeOK, ClocksPlaced, Arm9Sleeps, CPUs, Past, Within, End
<1> QED
  BY <1>1, <1>2, <1>3, TimersKept DEF IInv, Arm9Sleeps

LEMMA Arm9RunsStep ==
    ASSUME IInv, Arm9Runs PROVE IInv'
<1>1. TypeOK'
  BY DEF IInv, TypeOK, Arm9Runs, timerVars, CPUs
<1>2. turn = "handover" /\ turn' = "arm9" /\ target' = target
  BY DEF Arm9Runs
<1>3. ClocksPlaced'
  BY <1>2 DEF IInv, ClocksPlaced, Arm9Runs, CPUs, Past, Within, End
<1> QED
  BY <1>1, <1>2, <1>3, TimersKept DEF IInv, Arm9Runs

LEMMA EndArm9Step ==
    ASSUME IInv, EndArm9 PROVE IInv'
<1>1. TypeOK'
  BY DEF IInv, TypeOK, EndArm9, timerVars, CPUs
<1>2. turn = "arm9" /\ turn' = "events" /\ target' = target
  BY DEF EndArm9
<1>3. ClocksPlaced'
  BY <1>2, TimersAssumption
     DEF IInv, TypeOK, ClocksPlaced, EndArm9, CPUs, Past, Within, End
<1> QED
  BY <1>1, <1>2, <1>3, TimersKept DEF IInv, EndArm9

LEMMA StartBlockStep ==
    ASSUME IInv, NEW n \in 1 .. MaxBlock, StartBlock(n) PROVE IInv'
<1>1. /\ turn = "events" /\ turn' = "arm7" /\ n \in 1 .. MaxBlock
      /\ time' = time /\ trans' = 0 /\ UNCHANGED timerVars
      /\ time \in [CPUs -> Nat] /\ target \in [CPUs -> Nat]
      /\ target["arm9"] = target["arm7"]
      /\ target' = [c \in CPUs |-> target[c] + n]
  BY DEF StartBlock, IInv, TypeOK, ClocksPlaced
<1>2. TypeOK'
  BY <1>1, TimersAssumption DEF IInv, TypeOK, timerVars, CPUs
<1>3. ClocksPlaced'
  BY <1>1, TimersAssumption DEF IInv, ClocksPlaced, CPUs, Past, Within, End
<1>4. EventsPlaced'
  <2>1. End' = End + n /\ time["arm7"] >= End /\ time["arm7"] \in Nat /\ End \in Nat
    BY <1>1, TimersAssumption DEF IInv, ClocksPlaced, Past, End, CPUs
  <2>2. ASSUME NEW t \in Timers, armed[t] # Never PROVE armed[t] >= End + n
    BY <2>1, <2>2, TimersAssumption
       DEF StartBlock, SliceOk, IInv, TypeOK, Times, Never
  <2>3. ASSUME NEW t \in Timers, armed'[t] # Never
        PROVE  IF t[1] = "arm9" THEN armed'[t] >= End' ELSE armed'[t] > End' - MaxBlock
    <3>1. armed'[t] = armed[t] /\ armed[t] \in Int
      BY <1>1 DEF timerVars, IInv, TypeOK, Times, Never
    <3> QED
      BY <2>1, <2>2, <2>3, <3>1, <1>1, TimersAssumption
  <2> QED
    BY <2>3 DEF EventsPlaced
<1>5. RunningTimersAreArmed'
  BY <1>1 DEF IInv, RunningTimersAreArmed, timerVars
<1> QED
  BY <1>1, <1>2, <1>3, <1>4, <1>5 DEF IInv, OnlyShortTimersHang

----------------------------------------------------------------------------
(* Register writes.                                                        *)

(* In a CPU's part, its clock is before the end; the ARM7's is no more than*)
(* a block before it, and past it when it is the ARM9's turn.              *)
LEMMA WritersClock ==
    ASSUME IInv, NEW c \in CPUs, NEW t \in Timers, Writes(c, t)
    PROVE  /\ turn = c /\ t[1] = c /\ trans > 0
           /\ trans \in Nat /\ End \in Nat
           /\ time[c] \in Nat /\ time["arm7"] \in Nat
           /\ time[c] < End /\ time[c] >= End - MaxBlock
           /\ c = "arm9" => time["arm7"] \in End .. End + MaxInstr - 1
BY TimersAssumption
   DEF IInv, TypeOK, ClocksPlaced, Writes, InLoop, Within, Past, End, CPUs

LEMMA WriteReloadStep ==
    ASSUME IInv, NEW c \in CPUs, NEW t \in Used, NEW r \in Reloads,
           WriteReload(c, t, r)
    PROVE  IInv'
<1>1. t \in Timers /\ r \in Counts
  BY TimersAssumption
<1>2. /\ turn = c /\ turn' = turn
      /\ UNCHANGED <<cpuVars, divider, cascade, val, enableAt, overflowAt, armed>>
  BY DEF WriteReload, Writes, InLoop, cpuVars
<1>3. TypeOK'
  BY <1>1, <1>2 DEF IInv, TypeOK, WriteReload, cpuVars
<1>4. ClocksPlaced'
  BY <1>2 DEF IInv, ClocksPlaced, Past, Within, End, cpuVars
<1>5. RunningTimersAreArmed' /\ EventsPlaced'
  BY <1>2 DEF IInv, RunningTimersAreArmed, EventsPlaced, End, cpuVars
<1> QED
  BY <1>2, <1>3, <1>4, <1>5 DEF IInv, OnlyShortTimersHang, CPUs

(* A step that changes the turn, if at all, to "overflowing", and none of  *)
(* the clocks.                                                             *)
LEMMA ClocksKept ==
    ASSUME IInv, UNCHANGED <<time, target, trans>>,
           turn' = turn \/ turn' = "overflowing"
    PROVE  ClocksPlaced'
BY DEF IInv, ClocksPlaced, Past, Within, End, CPUs

(* Stop and StartCascade: the timer has no event and shows no overflow.    *)
LEMMA DisarmStep ==
    ASSUME IInv, NEW c \in CPUs, NEW t \in Timers, Writes(c, t),
           NEW d \in Nat \ {0}, NEW casc \in BOOLEAN, NEW v \in Counts,
           divider' = [divider EXCEPT ![t] = d],
           cascade' = [cascade EXCEPT ![t] = casc],
           val' = [val EXCEPT ![t] = v],
           enableAt' = [enableAt EXCEPT ![t] = Never],
           overflowAt' = [overflowAt EXCEPT ![t] = Never],
           armed' = [armed EXCEPT ![t] = Never],
           UNCHANGED <<turn, time, target, trans, reload>>
    PROVE  IInv'
<1>1. turn' = turn /\ turn = c /\ turn # "overflowing"
  BY DEF Writes, InLoop, CPUs
<1>2. TypeOK'
  BY DEF IInv, TypeOK, Times
<1>3. ClocksPlaced'
  BY ClocksKept
<1>4. RunningTimersAreArmed'
  BY <1>1 DEF IInv, TypeOK, RunningTimersAreArmed
<1>5. EventsPlaced'
  BY <1>1 DEF IInv, TypeOK, EventsPlaced, End
<1> QED
  BY <1>1, <1>2, <1>3, <1>4, <1>5 DEF IInv, OnlyShortTimersHang

(* Start: the event is after the ARM7's clock, or the timer is an ARM9's   *)
(* and the ticks do not make up for how far the ARM7 is ahead.             *)
LEMMA StartStep ==
    ASSUME IInv, NEW c \in CPUs, NEW t \in Timers, Writes(c, t),
           NEW d \in Nat \ {0},
           divider' = [divider EXCEPT ![t] = d],
           cascade' = [cascade EXCEPT ![t] = FALSE],
           Start(t, d),
           UNCHANGED <<time, target, trans, reload>>
    PROVE  IInv'
<1> DEFINE ticks == Ticks(reload[t], d)
           now   == time[c] + trans
           at    == now + ticks
<1>1. /\ turn = c /\ c \in CPUs /\ t[1] = c /\ now = Now(t[1])
      /\ reload[t] \in Counts
  BY WritersClock DEF Now, IInv, TypeOK
<1>2. ticks \in Nat \ {0}
  BY <1>1, TicksPositive
<1>3. /\ val' = [val EXCEPT ![t] = reload[t]]
      /\ enableAt' = [enableAt EXCEPT ![t] = IF at > time["arm7"] THEN now + 1 ELSE now]
      /\ overflowAt' = [overflowAt EXCEPT ![t] = at]
      /\ \/ /\ at > time["arm7"]
            /\ armed' = [armed EXCEPT ![t] = at]
            /\ turn' = turn
         \/ /\ ~(at > time["arm7"])
            /\ armed' = [armed EXCEPT ![t] = Never]
            /\ turn' = "overflowing"
  BY <1>1 DEF Start, Arm
<1>4. /\ trans \in Nat \ {0} /\ time[c] \in Nat /\ time["arm7"] \in Nat
      /\ End \in Nat /\ time[c] >= End - MaxBlock
      /\ c = "arm9" => time["arm7"] \in End .. End + MaxInstr - 1
  BY WritersClock
<1> HIDE DEF ticks
<1>5. now \in Nat /\ now + 1 \in Nat /\ at \in Nat /\ now > time[c] /\ at > now
  BY <1>2, <1>4
<1> HIDE DEF now, at
<1>6. turn' \in {turn, "overflowing"} /\ enableAt'[t] \in Nat
  BY <1>3, <1>5 DEF IInv, TypeOK
<1>7. TypeOK'
  <2>1. armed' \in [Timers -> Times]
    BY <1>3, <1>5 DEF IInv, TypeOK, Times
  <2>2. enableAt' \in [Timers -> Times] /\ overflowAt' \in [Timers -> Times]
    BY <1>3, <1>5 DEF IInv, TypeOK, Times
  <2>3. cascade' \in [Timers -> BOOLEAN]
    BY DEF IInv, TypeOK
  <2>4. val' \in [Timers -> Counts] /\ divider' \in [Timers -> Nat \ {0}]
    BY <1>1, <1>3 DEF IInv, TypeOK
  <2> QED
    BY <1>6, <2>1, <2>2, <2>3, <2>4 DEF IInv, TypeOK
<1>8. ClocksPlaced'
  BY <1>6, ClocksKept
<1>9. RunningTimersAreArmed'
  <2>1. CASE turn' = "overflowing"
    BY <2>1 DEF RunningTimersAreArmed
  <2>2. CASE turn' = turn
    <3>1. armed' = [armed EXCEPT ![t] = at] /\ turn # "overflowing"
      BY <1>1, <1>3, <2>2 DEF CPUs
    <3>2. enableAt'[t] # Never
      BY <1>6 DEF Never
    <3> QED
      BY <1>3, <3>1, <3>2 DEF IInv, TypeOK, RunningTimersAreArmed
  <2> QED
    BY <1>6, <2>1, <2>2
<1>10. EventsPlaced'
  <2>1. CASE turn' = "overflowing"
    BY <2>1 DEF EventsPlaced
  <2>2. CASE turn' = turn
    <3>1. /\ armed' = [armed EXCEPT ![t] = at] /\ at > time["arm7"]
          /\ turn # "overflowing"
      BY <1>1, <1>3, <2>2 DEF CPUs
    <3>2. IF t[1] = "arm9" THEN at >= End ELSE at > End - MaxBlock
      BY <1>1, <1>4, <1>5, <3>1, TimersAssumption DEF CPUs
    <3> QED
      BY <3>1, <3>2 DEF IInv, TypeOK, EventsPlaced, End
  <2> QED
    BY <1>6, <2>1, <2>2
<1>11. OnlyShortTimersHang'
  <2>1. SUFFICES ASSUME turn' = "overflowing"
                 PROVE  /\ t[1] = "arm9" /\ enableAt'[t] # Never /\ ~cascade'[t]
                        /\ armed'[t] = Never
                        /\ Ticks(reload'[t], divider'[t]) <= MaxBlock + MaxInstr - 2
    BY DEF OnlyShortTimersHang, Ticks
  <2>2. ~(at > time["arm7"]) /\ armed'[t] = Never
    BY <1>1, <1>3, <2>1 DEF CPUs, IInv, TypeOK
  <2>3. c = "arm9"
    BY <1>1, <1>4, <1>5, <2>2 DEF CPUs
  <2>4. ticks <= MaxBlock + MaxInstr - 2
    BY <1>2, <1>4, <2>2, <2>3, TimersAssumption DEF at, now
  <2>5. Ticks(reload'[t], divider'[t]) = ticks
    BY DEF ticks, IInv, TypeOK
  <2> QED
    BY <1>1, <1>6, <2>2, <2>3, <2>4, <2>5 DEF IInv, TypeOK, Never
<1> QED
  BY <1>7, <1>8, <1>9, <1>10, <1>11 DEF IInv

LEMMA WriteCntStep ==
    ASSUME IInv, NEW c \in CPUs, NEW t \in Used, NEW enable \in BOOLEAN,
           NEW casc \in BOOLEAN, NEW d \in Dividers,
           WriteCnt(c, t, enable, casc, d)
    PROVE  IInv'
<1>1. /\ t \in Timers /\ d \in Nat \ {0} /\ Writes(c, t)
      /\ ReadCounter(t) \in Counts /\ reload[t] \in Counts
      /\ divider' = [divider EXCEPT ![t] = d]
      /\ cascade' = [cascade EXCEPT ![t] = casc]
      /\ UNCHANGED <<time, target, trans, reload>>
  BY TimersAssumption, ReadFits DEF WriteCnt, IInv, TypeOK
<1>2. CASE Stop(t)
  BY <1>1, <1>2, DisarmStep DEF Stop
<1>3. CASE StartCascade(t)
  BY <1>1, <1>3, DisarmStep DEF StartCascade
<1>4. CASE ~casc /\ Start(t, d)
  <2>1. cascade' = [cascade EXCEPT ![t] = FALSE]
    BY <1>1, <1>4
  <2> QED
    BY <1>1, <1>4, <2>1, StartStep
<1> QED
  BY <1>2, <1>3, <1>4 DEF WriteCnt

----------------------------------------------------------------------------
(* An overflow that is due.                                                *)

(* Between blocks: both clocks are within an instruction past the end, and *)
(* the timer that is due runs on its own.                                  *)
LEMMA DueTimer ==
    ASSUME IInv, NEW t \in Timers, Dispatch(t)
    PROVE  /\ trans \in 0 .. MaxInstr /\ End \in Nat
           /\ time["arm7"] \in Nat /\ Past(time["arm7"], End)
           /\ time[t[1]] \in Nat /\ Past(time[t[1]], End)
           /\ armed[t] \in Nat /\ armed[t] <= time["arm7"]
           /\ overflowAt[t] = armed[t] /\ ~cascade[t]
<1>1. t[1] = "arm7" \/ t[1] = "arm9"
  BY TimerParts DEF CPUs
<1>2. /\ trans \in 0 .. MaxInstr /\ End \in Nat
      /\ time["arm7"] \in Nat /\ Past(time["arm7"], End)
      /\ time["arm9"] \in Nat /\ Past(time["arm9"], End)
  BY DEF IInv, TypeOK, ClocksPlaced, Dispatch, End, CPUs
<1>3. armed[t] \in Nat /\ armed[t] <= time["arm7"]
  BY DEF IInv, TypeOK, Dispatch, Times
<1>4. overflowAt[t] = armed[t] /\ ~cascade[t]
  BY DEF IInv, RunningTimersAreArmed, Dispatch
<1> QED
  BY <1>1, <1>2, <1>3, <1>4

LEMMA DispatchStep ==
    ASSUME IInv, NEW t \in Timers, Dispatch(t) PROVE IInv'
<1> DEFINE ticks == Ticks(reload[t], divider[t])
           now   == time[t[1]] + trans
           at    == now + ticks
<1>1. /\ trans \in 0 .. MaxInstr /\ now \in Nat /\ time["arm7"] \in Nat /\ End \in Nat
      /\ now >= End /\ now >= time[t[1]]
      /\ time["arm7"] \in End .. End + MaxInstr - 1
      /\ ~cascade[t] /\ turn = "events"
      /\ t[1] \in CPUs
  BY DueTimer, TimerParts, TimersAssumption DEF Past, Dispatch
<1>2. ticks \in Nat \ {0}
  BY TicksPositive DEF IInv, TypeOK
<1>3. \A u \in Timers : Ticks(reload[u], divider[u]) \in Nat
  BY TicksPositive DEF IInv, TypeOK
<1>4. now = Now(t[1])
  BY DEF Now
<1>5. /\ val' = [u \in Timers |->
                   IF u \in Overflowing(t) THEN reload[u]
                   ELSE IF u \in Stepped(t) THEN val[u] + 1
                   ELSE val[u]]
      /\ enableAt' = [u \in Timers |-> IF u \in Overflowing(t) THEN now ELSE enableAt[u]]
      /\ overflowAt' = [u \in Timers |->
                          IF u \in Overflowing(t) THEN now + Ticks(reload[u], divider[u])
                          ELSE overflowAt[u]]
      /\ UNCHANGED <<time, target, trans, reload, divider, cascade>>
  BY <1>4 DEF Dispatch, Overflow
<1>6. \/ /\ at > time["arm7"]
         /\ armed' = [armed EXCEPT ![t] = at]
         /\ turn' = turn
      \/ /\ ~(at > time["arm7"])
         /\ armed' = [armed EXCEPT ![t] = Never]
         /\ turn' = "overflowing"
  BY <1>4 DEF Dispatch, Overflow, Arm
<1> HIDE DEF ticks
<1>7. at \in Nat /\ at > now
  BY <1>1, <1>2
<1> HIDE DEF at, now
<1>8. TypeOK'
  <2>1. val' \in [Timers -> Counts]
    <3>1. ASSUME NEW u \in Timers, u \in Stepped(t), u \notin Overflowing(t)
          PROVE  val[u] + 1 \in Counts
      BY <3>1, SteppedFits DEF IInv
    <3> QED
      BY <1>5, <3>1 DEF IInv, TypeOK
  <2>2. enableAt' \in [Timers -> Times] /\ overflowAt' \in [Timers -> Times]
    BY <1>1, <1>3, <1>5 DEF IInv, TypeOK, Times
  <2>3. armed' \in [Timers -> Times]
    BY <1>6, <1>7 DEF IInv, TypeOK, Times
  <2>4. turn' \in CPUs \cup {"events", "handover", "overflowing"}
    BY <1>6 DEF IInv, TypeOK
  <2> QED
    BY <1>5, <2>1, <2>2, <2>3, <2>4 DEF IInv, TypeOK
<1>9. ClocksPlaced'
  BY <1>5, <1>6, ClocksKept
<1>10. t \in Overflowing(t) /\ enableAt'[t] = now /\ overflowAt'[t] = at /\ now # Never
  BY <1>1, <1>5, OthersCascade DEF Never, at, ticks
<1>11. RunningTimersAreArmed'
  <2>1. SUFFICES ASSUME turn' # "overflowing", NEW u \in Timers
                 PROVE  armed'[u] = IF enableAt'[u] # Never /\ ~cascade'[u]
                                      THEN overflowAt'[u] ELSE Never
    BY DEF RunningTimersAreArmed
  <2>2. armed' = [armed EXCEPT ![t] = at] /\ cascade' = cascade
    BY <1>5, <1>6, <2>1
  <2>3. armed[u] = IF enableAt[u] # Never /\ ~cascade[u] THEN overflowAt[u] ELSE Never
    BY <1>1 DEF IInv, RunningTimersAreArmed
  <2>4. CASE u = t
    BY <1>1, <1>10, <2>2, <2>4 DEF IInv, TypeOK
  <2>5. CASE u # t /\ u \in Overflowing(t)
    BY <2>2, <2>3, <2>5, OthersCascade DEF IInv, TypeOK
  <2>6. CASE u # t /\ u \notin Overflowing(t)
    BY <1>5, <2>2, <2>3, <2>6 DEF IInv, TypeOK
  <2> QED
    BY <2>4, <2>5, <2>6
<1>12. EventsPlaced'
  <2>1. SUFFICES ASSUME turn' # "overflowing", NEW u \in Timers, armed'[u] # Never
                 PROVE  IF u[1] = "arm9" THEN armed'[u] >= End
                                         ELSE armed'[u] > End - MaxBlock
    BY <1>5 DEF EventsPlaced, End
  <2>2. armed' = [armed EXCEPT ![t] = at] /\ at > time["arm7"]
    BY <1>6, <2>1
  <2>3. CASE u = t
    BY <1>1, <1>7, <2>2, <2>3, TimersAssumption DEF IInv, TypeOK
  <2>4. CASE u # t
    BY <1>1, <2>1, <2>2, <2>4 DEF IInv, TypeOK, EventsPlaced
  <2> QED
    BY <2>3, <2>4
<1>13. OnlyShortTimersHang'
  <2>1. SUFFICES ASSUME turn' = "overflowing"
                 PROVE  /\ t[1] = "arm9" /\ enableAt'[t] # Never /\ ~cascade'[t]
                        /\ armed'[t] = Never
                        /\ Ticks(reload'[t], divider'[t]) <= MaxBlock + MaxInstr - 2
    BY DEF OnlyShortTimersHang, Ticks
  <2>2. ~(at > time["arm7"]) /\ armed'[t] = Never
    BY <1>1, <1>6, <2>1 DEF IInv, TypeOK
  <2>3. t[1] = "arm9"
    BY <1>1, <1>7, <2>2 DEF CPUs
  <2>4. ticks <= MaxBlock + MaxInstr - 2
    BY <1>1, <1>2, <2>2, TimersAssumption DEF at
  <2>5. Ticks(reload'[t], divider'[t]) = ticks
    BY <1>5 DEF ticks
  <2> QED
    BY <1>1, <1>5, <1>10, <2>2, <2>3, <2>4, <2>5
<1> QED
  BY <1>8, <1>9, <1>11, <1>12, <1>13 DEF IInv

----------------------------------------------------------------------------
LEMMA StutterStep ==
    ASSUME IInv, UNCHANGED vars PROVE IInv'
BY DEF IInv, TypeOK, RunningTimersAreArmed, ClocksPlaced, EventsPlaced,
       OnlyShortTimersHang, Past, Within, End, Ticks, vars, cpuVars, timerVars

LEMMA NextInv == IInv /\ [Next]_vars => IInv'
<1> SUFFICES ASSUME IInv, [Next]_vars PROVE IInv'
  OBVIOUS
<1>1. ASSUME NEW t \in Timers, Dispatch(t) PROVE IInv'
  BY <1>1, DispatchStep
<1>2. ASSUME NEW n \in 1 .. MaxBlock, StartBlock(n) PROVE IInv'
  BY <1>2, StartBlockStep
<1>3. ASSUME NEW c \in CPUs, Cycle(c) PROVE IInv'
  BY <1>3, CycleStep
<1>4. ASSUME NEW c \in CPUs, EndInstruction(c) PROVE IInv'
  BY <1>4, EndInstructionStep
<1>5. ASSUME NEW c \in CPUs, NEW t \in Used, NEW r \in Reloads, WriteReload(c, t, r)
      PROVE  IInv'
  BY <1>5, WriteReloadStep
<1>6. ASSUME NEW c \in CPUs, NEW t \in Used, NEW enable \in BOOLEAN,
             NEW casc \in BOOLEAN, NEW d \in Dividers, WriteCnt(c, t, enable, casc, d)
      PROVE  IInv'
  BY <1>6, WriteCntStep
<1>7. CASE Arm7Sleeps
  BY <1>7, Arm7SleepsStep
<1>8. CASE EndArm7
  BY <1>8, EndArm7Step
<1>9. CASE Arm9Sleeps
  BY <1>9, Arm9SleepsStep
<1>10. CASE Arm9Runs
  BY <1>10, Arm9RunsStep
<1>11. CASE EndArm9
  BY <1>11, EndArm9Step
<1>12. CASE Interrupt
  BY <1>12, InterruptStep
<1>13. CASE UNCHANGED vars
  BY <1>13, StutterStep
<1> QED
  BY <1>1, <1>2, <1>3, <1>4, <1>5, <1>6, <1>7, <1>8, <1>9, <1>10, <1>11, <1>12, <1>13
     DEF Next, Instruction

LEMMA Invariant == Spec => []IInv
<1>1. Init => IInv
  BY InitInv
<1>2. IInv /\ [Next]_vars => IInv'
  BY NextInv
<1> QED
  BY <1>1, <1>2, PTL DEF Spec

----------------------------------------------------------------------------
(* Results.                                                                *)

(* A timer that runs on its own has its overflow scheduled for the cycle it*)
(* shows, and no other timer has one: nds_timers.cpp 110-192.              *)
THEOREM TimersStayArmed == Spec => []RunningTimersAreArmed
BY Invariant, PTL DEF IInv

(* A counter that is read, stepped or reloaded fits its 16 bits, whatever  *)
(* the two clocks are: timer7_t::read and timer9_t::read.                  *)
THEOREM CountersKeepTheirBits == Spec => []TypeOK
BY Invariant, PTL DEF IInv

(* Between blocks the clocks of the CPUs are less than an instruction      *)
(* apart: NDS::core::run_block, nds.cpp 195-231.                           *)
THEOREM ClocksStayTogether == Spec => []CpusStayTogether
<1>1. IInv => CpusStayTogether
  BY TimersAssumption
     DEF IInv, TypeOK, ClocksPlaced, CpusStayTogether, Past, End, CPUs
<1> QED
  BY <1>1, Invariant, PTL

(* Only an ARM9 timer shorter than the ARM7's lead can recurse without end:*)
(* nds_timers.cpp 43-86 and scheduler.cpp 119-151.                         *)
THEOREM OnlyShortOnesHang == Spec => []OnlyShortTimersHang
<1>1. IInv => OnlyShortTimersHang
  BY DEF IInv
<1> QED
  BY <1>1, Invariant, PTL

(* How far an overflow can be from the cycle it was due at, for each CPU:  *)
(* nds_timers.cpp 43-86, called between the blocks of nds.cpp 195-231.     *)
THEOREM OverflowsStayClose == Spec => OverflowsAreClose
<1> DEFINE Close == \A t \in Timers :
          turn = "events" /\ ~cascade[t] /\ enableAt'[t] # enableAt[t] =>
              enableAt'[t] - overflowAt[t] \in Lateness(t[1])
<1>1. IInv /\ [Next]_vars => Close
  <2> SUFFICES ASSUME IInv, [Next]_vars, NEW u \in Timers, turn = "events",
                      ~cascade[u], enableAt'[u] # enableAt[u]
               PROVE  enableAt'[u] - overflowAt[u] \in Lateness(u[1])
    OBVIOUS
  <2>1. PICK t \in Timers : Dispatch(t)
    BY DEF Next, Instruction, Cycle, EndInstruction, WriteReload, WriteCnt, Writes,
           InLoop, StartBlock, Arm7Sleeps, EndArm7, Arm9Sleeps, Arm9Runs, EndArm9,
           Interrupt, CPUs, vars, cpuVars, timerVars
  <2>2. /\ trans \in 0 .. MaxInstr /\ End \in Nat
        /\ time["arm7"] \in End .. End + MaxInstr - 1
        /\ time[t[1]] \in End .. End + MaxInstr - 1
        /\ armed[t] \in Nat /\ armed[t] <= time["arm7"]
        /\ overflowAt[t] = armed[t]
    BY <2>1, DueTimer DEF Past
  <2>3. u \in Overflowing(t)
    BY <2>1 DEF Dispatch, Overflow
  <2>4. u = t
    BY <2>1, <2>3, OthersCascade
  <2>5. enableAt'[t] = time[t[1]] + trans
    BY <2>1, <2>3, <2>4 DEF Dispatch, Overflow, Now
  <2>6. IF t[1] = "arm9" THEN armed[t] >= End ELSE armed[t] > End - MaxBlock
    BY <2>2 DEF IInv, EventsPlaced, Never
  <2>7. t[1] \in CPUs
    BY TimerParts
  <2>8. CASE t[1] = "arm7"
    BY <2>2, <2>4, <2>5, <2>6, <2>8, TimersAssumption DEF Lateness
  <2>9. CASE t[1] = "arm9"
    BY <2>2, <2>4, <2>5, <2>6, <2>9, TimersAssumption DEF Lateness
  <2> QED
    BY <2>7, <2>8, <2>9 DEF CPUs
<1>2. IInv /\ [Next]_vars => [Close]_vars
  BY <1>1
<1>3. Spec => [][Close]_vars
  BY <1>2, Invariant, PTL DEF Spec
<1> QED
  BY <1>3 DEF OverflowsAreClose
=============================================================================
