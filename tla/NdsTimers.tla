------------------------------ MODULE NdsTimers ------------------------------
(***************************************************************************)
(* The NDS's timers (jsmooch-lib/src/system/nds/nds_timers.cpp): four for  *)
(* each CPU, counted on that CPU's clock, but woken by one scheduler whose *)
(* clock is the ARM7's.  run_block (nds.cpp) moves the two clocks one      *)
(* after the other.  turn says who acts:                                   *)
(*   "events"       the scheduler calls the overflows that are due         *)
(*   "arm7"         the ARM7's part of a block                             *)
(*   "handover"     between the two parts                                  *)
(*   "arm9"         the ARM9's part                                        *)
(*   "overflowing"  an overflow schedules itself for a time already        *)
(*                  reached, runs at once, and never returns               *)
(*                                                                         *)
(* The scheduler is taken at its word (Scheduler): a timer's flag, its id  *)
(* and its event agree, and events leave in time order.  armed is thus all *)
(* that is kept of the event of a timer.                                   *)
(***************************************************************************)
EXTENDS Integers

CONSTANTS
    Last,         \* number of a CPU's last timer; 3 in the code
    Wrap,         \* where a counter overflows; 0x10000
    Dividers,     \* cycles per tick; 1, 64, 256, 1024, kept as shifts
    MaxBlock,     \* max_block_size; 25
    MaxInstr,     \* cycles of the longest instruction, or of the interrupts
                  \* taken between two blocks
    Used,         \* bound: the timers software uses
    Reloads,      \* bound: the reload values software writes
    Horizon       \* bound: no block starts at or after this clock

CPUs   == {"arm7", "arm9"}
Timers == CPUs \X (0 .. Last)
Counts == 0 .. Wrap - 1

ASSUME TimersAssumption ==
    /\ Last \in Nat
    /\ Wrap \in Nat \ {0, 1}
    /\ Dividers \subseteq Nat \ {0}
    /\ MaxBlock \in Nat \ {0}
    /\ MaxInstr \in Nat \ {0}
    /\ Used \subseteq Timers
    /\ Reloads \subseteq Counts
    /\ Horizon \in Nat

VARIABLES
    turn,
    time,         \* master_cycle_count7, master_cycle_count9
    target,       \* cycles7, cycles9: where a CPU's part of the block ends
    trans,        \* current_transaction: cycles since a clock was moved
    reload, divider, cascade,
    val,          \* val_at_stop
    enableAt,     \* enable_at, or Never
    overflowAt,   \* overflow_at, or Never
    armed         \* the time of the timer's event in the scheduler, or Never

cpuVars   == <<turn, time, target, trans>>
timerVars == <<reload, divider, cascade, val, enableAt, overflowAt, armed>>
vars      == <<cpuVars, timerVars>>

(* 0xFFFFFFFFFFFFFFFF                                                      *)
Never == -1

Init ==
    /\ turn = "events"
    /\ time = [c \in CPUs |-> 0]
    /\ target = [c \in CPUs |-> 0]
    /\ trans = 0
    /\ reload = [t \in Timers |-> 0]
    /\ divider = [t \in Timers |-> 1]
    /\ cascade = [t \in Timers |-> FALSE]
    /\ val = [t \in Timers |-> 0]
    /\ enableAt = [t \in Timers |-> Never]
    /\ overflowAt = [t \in Timers |-> Never]
    /\ armed = [t \in Timers |-> Never]

----------------------------------------------------------------------------
(* current7 and current9: trans is the running CPU's, whichever clock it   *)
(* is added to.                                                            *)
Now(c) == time[c] + trans

(* timer_reload_ticks, in cycles: the last value gives a whole round.      *)
TicksUpToReload(r, d) == r * d    \* faulty: counts up to the reload value

Ticks(r, d) == (IF r = Wrap - 1 THEN Wrap ELSE Wrap - r) * d

(* read(): in the cycle a timer is enabled the difference is -1, and stays *)
(* -1 in its low bits when it is shifted as an unsigned number.            *)
Enabled(t) == enableAt[t] # Never /\ Now(t[1]) >= enableAt[t]

ReadUnwrapped(t) ==    \* faulty: not cut to 16 bits
    IF Enabled(t) /\ ~cascade[t]
      THEN val[t] + (Now(t[1]) - 1 - enableAt[t]) \div divider[t]
      ELSE val[t]

ReadCounter(t) ==
    IF Enabled(t) /\ ~cascade[t]
      THEN (val[t] + (Now(t[1]) - 1 - enableAt[t]) \div divider[t]) % Wrap
      ELSE val[t]

(* add_or_run_abs.  An overflow that is due at once starts from the same   *)
(* time with the same reload, so it is due at once again.                  *)
Arm(t, at) ==
    IF at > time["arm7"]
      THEN /\ armed' = [armed EXCEPT ![t] = at]
           /\ UNCHANGED turn
      ELSE /\ armed' = [armed EXCEPT ![t] = Never]
           /\ turn' = "overflowing"

(* overflow() of t and, through cascade_step(), of the timers above it:    *)
(* each one that cascades is stepped, and goes on if that was its last     *)
(* count.  (An overflow that never returns does not get as far as that.)   *)
Overflowing(t) ==
    {u \in Timers :
        /\ u[1] = t[1]
        /\ u[2] >= t[2]
        /\ \A k \in t[2] + 1 .. u[2] :
               cascade[<<u[1], k>>] /\ val[<<u[1], k>>] = Wrap - 1}

Stepped(t) ==
    {u \in Timers : u[2] > t[2] /\ <<u[1], u[2] - 1>> \in Overflowing(t) /\ cascade[u]}

Overflow(t) ==
    LET now == Now(t[1])
    IN  /\ val' = [u \in Timers |->
                      IF u \in Overflowing(t) THEN reload[u]
                      ELSE IF u \in Stepped(t) THEN val[u] + 1
                      ELSE val[u]]
        /\ enableAt' = [u \in Timers |-> IF u \in Overflowing(t) THEN now ELSE enableAt[u]]
        /\ overflowAt' = [u \in Timers |->
                             IF u \in Overflowing(t) THEN now + Ticks(reload[u], divider[u])
                             ELSE overflowAt[u]]
        /\ Arm(t, now + Ticks(reload[t], divider[t]))
        /\ UNCHANGED <<time, target, trans, reload, divider, cascade>>

----------------------------------------------------------------------------
(* The scheduler calls the first event that is due.                        *)
Dispatch(t) ==
    /\ turn = "events"
    /\ armed[t] # Never
    /\ armed[t] <= time["arm7"]
    /\ \A u \in Timers : armed[u] # Never => armed[t] <= armed[u]
    /\ Overflow(t)

(* run_block, for n cycles: up to the next event, of a timer or of another *)
(* device, and no more than MaxBlock.                                      *)
SlicePastTimers(n) == TRUE    \* faulty: a timer does not end the slice

SliceOk(n) == \A t \in Timers : armed[t] # Never => n <= armed[t] - time["arm7"]

StartBlock(n) ==
    /\ turn = "events"
    /\ time["arm7"] < Horizon
    /\ \A t \in Timers : armed[t] # Never => armed[t] > time["arm7"]
    /\ SliceOk(n)
    /\ target' = [c \in CPUs |-> target[c] + n]
    /\ turn' = "arm7"
    /\ trans' = 0
    /\ UNCHANGED <<time, timerVars>>

(* An interrupt that a CPU takes between blocks fetches its handler: the   *)
(* cycles are on both clocks until the next block drops them.              *)
Interrupt ==
    /\ turn = "events"
    /\ trans < MaxInstr
    /\ trans' = trans + 1
    /\ UNCHANGED <<turn, time, target, timerVars>>

----------------------------------------------------------------------------
(* A CPU's part of the block.                                              *)

InLoop(c) == turn = c /\ time[c] < target[c]

Cycle(c) ==
    /\ InLoop(c)
    /\ trans < MaxInstr
    /\ trans' = trans + 1
    /\ UNCHANGED <<turn, time, target, timerVars>>

EndInstruction(c) ==
    /\ InLoop(c)
    /\ trans > 0
    /\ time' = [time EXCEPT ![c] = @ + trans]
    /\ trans' = 0
    /\ UNCHANGED <<turn, target, timerVars>>

(* The ARM7 finds itself halted after an instruction; its clock is set to  *)
(* the end of its part, which may be behind the instruction's end.         *)
Arm7Sleeps ==
    /\ InLoop("arm7")
    /\ trans > 0
    /\ time' = [time EXCEPT !["arm7"] = target["arm7"]]
    /\ trans' = 0
    /\ turn' = "handover"
    /\ UNCHANGED <<target, timerVars>>

EndArm7 ==
    /\ turn = "arm7"
    /\ time["arm7"] >= target["arm7"]
    /\ turn' = "handover"
    /\ UNCHANGED <<time, target, trans, timerVars>>

(* The ARM9 is halted, or waits for the geometry engine.                   *)
Arm9SleepsAlone ==    \* faulty: its clock stands still
    /\ turn = "handover"
    /\ turn' = "events"
    /\ UNCHANGED <<time, target, trans, timerVars>>

Arm9Sleeps ==
    /\ turn = "handover"
    /\ time' = [time EXCEPT !["arm9"] = target["arm9"]]
    /\ turn' = "events"
    /\ UNCHANGED <<target, trans, timerVars>>

Arm9Runs ==
    /\ turn = "handover"
    /\ turn' = "arm9"
    /\ UNCHANGED <<time, target, trans, timerVars>>

EndArm9 ==
    /\ turn = "arm9"
    /\ time["arm9"] >= target["arm9"]
    /\ turn' = "events"
    /\ UNCHANGED <<time, target, trans, timerVars>>

----------------------------------------------------------------------------
(* Register writes, in an instruction that has been fetched.               *)

Writes(c, t) == InLoop(c) /\ trans > 0 /\ t \in Used /\ t[1] = c

WriteReload(c, t, r) ==
    /\ Writes(c, t)
    /\ reload' = [reload EXCEPT ![t] = r]
    /\ UNCHANGED <<cpuVars, divider, cascade, val, enableAt, overflowAt, armed>>

(* write_cnt: enable_at is cleared before it is asked whether the timer    *)
(* was enabled, so a timer that is enabled always starts from its reload.  *)
StopKeepsEvent(t) ==    \* faulty: the pending overflow is left
    /\ val' = [val EXCEPT ![t] = ReadCounter(t)]
    /\ enableAt' = [enableAt EXCEPT ![t] = Never]
    /\ overflowAt' = [overflowAt EXCEPT ![t] = Never]
    /\ UNCHANGED <<armed, turn>>

Stop(t) ==
    /\ val' = [val EXCEPT ![t] = ReadCounter(t)]
    /\ enableAt' = [enableAt EXCEPT ![t] = Never]
    /\ overflowAt' = [overflowAt EXCEPT ![t] = Never]
    /\ armed' = [armed EXCEPT ![t] = Never]
    /\ UNCHANGED turn

StartCascade(t) ==
    /\ val' = [val EXCEPT ![t] = reload[t]]
    /\ enableAt' = [enableAt EXCEPT ![t] = Never]
    /\ overflowAt' = [overflowAt EXCEPT ![t] = Never]
    /\ armed' = [armed EXCEPT ![t] = Never]
    /\ UNCHANGED turn

(* If the overflow is due at once, it has set enable_at to the time now.   *)
Start(t, d) ==
    LET now == Now(t[1])
        at  == now + Ticks(reload[t], d)
    IN  /\ val' = [val EXCEPT ![t] = reload[t]]
        /\ enableAt' = [enableAt EXCEPT ![t] = IF at > time["arm7"] THEN now + 1 ELSE now]
        /\ overflowAt' = [overflowAt EXCEPT ![t] = at]
        /\ Arm(t, at)

WriteCnt(c, t, enable, casc, d) ==
    /\ Writes(c, t)
    /\ divider' = [divider EXCEPT ![t] = d]
    /\ cascade' = [cascade EXCEPT ![t] = casc]
    /\ \/ ~enable /\ Stop(t)
       \/ enable /\ casc /\ StartCascade(t)
       \/ enable /\ ~casc /\ Start(t, d)
    /\ UNCHANGED <<time, target, trans, reload>>

----------------------------------------------------------------------------
Instruction(c) ==
    \/ Cycle(c)
    \/ EndInstruction(c)
    \/ \E t \in Used, r \in Reloads : WriteReload(c, t, r)
    \/ \E t \in Used, enable, casc \in BOOLEAN, d \in Dividers :
           WriteCnt(c, t, enable, casc, d)

Next ==
    \/ \E t \in Timers : Dispatch(t)
    \/ \E n \in 1 .. MaxBlock : StartBlock(n)
    \/ Interrupt
    \/ \E c \in CPUs : Instruction(c)
    \/ Arm7Sleeps
    \/ EndArm7
    \/ Arm9Sleeps
    \/ Arm9Runs
    \/ EndArm9

Spec == Init /\ [][Next]_vars

----------------------------------------------------------------------------
(* Properties.                                                             *)

Times == Nat \cup {Never}

TypeOK ==
    /\ turn \in CPUs \cup {"events", "handover", "overflowing"}
    /\ time \in [CPUs -> Nat]
    /\ target \in [CPUs -> Nat]
    /\ trans \in 0 .. MaxInstr
    /\ reload \in [Timers -> Counts]
    /\ divider \in [Timers -> Nat \ {0}]
    /\ cascade \in [Timers -> BOOLEAN]
    /\ val \in [Timers -> Counts]
    /\ enableAt \in [Timers -> Times]
    /\ overflowAt \in [Timers -> Times]
    /\ armed \in [Timers -> Times]

(* A timer that runs on its own has its overflow scheduled, for the cycle  *)
(* it shows; one that is stopped or that cascades has none.  Nothing but   *)
(* that event makes a timer overflow: one left without it would count past *)
(* its end in silence.                                                     *)
RunningTimersAreArmed ==
    turn # "overflowing" =>
        \A t \in Timers :
            armed[t] = IF enableAt[t] # Never /\ ~cascade[t] THEN overflowAt[t] ELSE Never

(* Between blocks the two clocks are less than an instruction apart, in    *)
(* either direction, although each CPU overshoots its part of each block   *)
(* and a CPU that sleeps has its clock set back.                           *)
CpusStayTogether ==
    turn = "events" =>
        time["arm7"] - time["arm9"] \in -(MaxInstr - 1) .. MaxInstr - 1

(* A timer overflows close to the cycle it was to overflow at: an ARM7     *)
(* timer never early and late by no more than a block, an instruction and  *)
(* the interrupts between blocks; an ARM9 timer, called when the ARM7's    *)
(* clock gets there, within an instruction, and late by the interrupts.    *)
Lateness(c) ==
    IF c = "arm7" THEN 0 .. MaxBlock + 2 * MaxInstr - 2
                  ELSE -(MaxInstr - 1) .. 2 * MaxInstr - 1

OverflowsAreClose ==
    [][\A t \in Timers :
          turn = "events" /\ ~cascade[t] /\ enableAt'[t] # enableAt[t] =>
              enableAt'[t] - overflowAt[t] \in Lateness(t[1])]_vars

(* Only an ARM9 timer that is shorter than the part of a block by which    *)
(* the ARM7 can be ahead schedules itself without end.                     *)
OnlyShortTimersHang ==
    turn = "overflowing" =>
        \E t \in Timers :
            /\ t[1] = "arm9"
            /\ enableAt[t] # Never
            /\ ~cascade[t]
            /\ armed[t] = Never
            /\ Ticks(reload[t], divider[t]) <= MaxBlock + MaxInstr - 2

(* "overflow_at: cycle # we'll overflow at" (nds_timers.h:28, 59): never   *)
(* before it.                                                              *)
OverflowAtItsCycle ==
    [][\A t \in Timers :
          turn = "events" /\ ~cascade[t] /\ enableAt'[t] # enableAt[t] =>
              enableAt'[t] >= overflowAt[t]]_vars
=============================================================================
