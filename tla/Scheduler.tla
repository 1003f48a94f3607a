------------------------------ MODULE Scheduler ------------------------------
(***************************************************************************)
(* scheduler_t (jsmooch-lib/src/helpers/scheduler.cpp): the event loop     *)
(* that interleaves a CPU's blocks of cycles with the timed callbacks of   *)
(* the devices, in the GBA, NDS, PS1, Genesis, SNES, Dreamcast cores.      *)
(*                                                                         *)
(* Everything runs on one thread.  What interleaves is the loop, the CPU   *)
(* block it calls, the callbacks it calls, and the calls both make back    *)
(* into the scheduler.  pc says which of them is running:                  *)
(*   "idle"      the host (a frame, a scanline or a step of the front end) *)
(*   "loop"      the top of the outer loop                                 *)
(*   "due"       the test of the inner loop                                *)
(*   "callback"  the function of a popped event                            *)
(*   "block"     run.func, the CPU's block of cycles                       *)
(***************************************************************************)
EXTENDS EventList

CONSTANTS
    Timers,       \* devices that keep the id and the flag of their event
    IrqChecks,    \* devices that keep the flag alone and use add_next
    Frame,        \* the system's own frame event, which re-adds itself
    FramePeriod,  \* cycles between frame events
    FrameTag,     \* the tag of the frame event
    MaxBlock,     \* max_block_size
    MaxInstr,     \* longest instruction: how far a block can overshoot
    Delays,       \* how far from now, or back, the devices schedule
    Adjusts,      \* amounts a callback adds to the master clock
    Budgets,      \* cycles the host asks for
    Horizon,      \* bound: no new run starts at or after this clock
    MaxId         \* bound: no device schedules once this id is reached

Devices == Timers \cup IrqChecks
Owners  == Devices \cup {Frame}
FirstId == 100

ASSUME OwnersAssumption ==
    /\ Timers \cap IrqChecks = {}
    /\ Frame \notin Devices

ASSUME NumbersAssumption ==
    /\ FramePeriod \in Nat \ {0}
    /\ FrameTag \in Nat \ {0}
    /\ MaxBlock \in Nat \ {0}
    /\ MaxInstr \in Nat \ {0}
    /\ Delays \subseteq Int
    /\ Adjusts \subseteq Nat \ {0}
    /\ Budgets \subseteq Nat \ {0}
    /\ Horizon \in Nat
    /\ MaxId \in Nat

VARIABLES
    clock,        \* *clock, the master cycle counter
    events,       \* the list from first_event on
    idCounter,    \* id_counter
    still,        \* each device's still_sched flag
    schId,        \* each timer's copy of the id of its event
    cyclesLeft,   \* cycles_left_to_run
    doBreak,      \* dbg.do_break, set by a breakpoint
    tagMode,      \* 0 in run_for_cycles, the tag awaited in run_til_tag
    loopStart,    \* loop_start_clock
    slice,        \* num_cycles_to_run of the current block
    frames,       \* functions in progress: the popped event's and, nested in
                  \* it or in a block, those add_or_run_abs called at once
    pc,
    stale         \* history: flags a reset left set with no event behind them

vars == <<clock, events, idCounter, still, schId, cyclesLeft, doBreak, tagMode,
          loopStart, slice, frames, pc, stale>>

loopVars   == <<cyclesLeft, tagMode, loopStart, slice, pc>>
deviceVars == <<still, schId, stale>>

----------------------------------------------------------------------------
NewEvent(id, t, s, tag) ==
    [id |-> id, time |-> t, src |-> s, tag |-> tag, late |-> IsDue(t, clock)]

FirstFrameEvent(id) ==
    [id |-> id, time |-> FramePeriod, src |-> Frame, tag |-> FrameTag, late |-> FALSE]

Init ==
    /\ clock = 0
    /\ events = <<FirstFrameEvent(FirstId)>>
    /\ idCounter = FirstId + 1
    /\ still = [s \in Devices |-> FALSE]
    /\ schId = [s \in Timers |-> 0]
    /\ cyclesLeft = 0
    /\ doBreak = FALSE
    /\ tagMode = 0
    /\ loopStart = 0
    /\ slice = 0
    /\ frames = <<>>
    /\ pc = "idle"
    /\ stale = {}

----------------------------------------------------------------------------
(* The host.                                                               *)

RunForCycles(n) ==
    /\ pc = "idle"
    /\ clock < Horizon
    /\ cyclesLeft' = cyclesLeft + n
    /\ tagMode' = 0
    /\ pc' = "loop"
    /\ UNCHANGED <<clock, events, idCounter, deviceVars, doBreak, loopStart, slice, frames>>

RunTilTag ==
    /\ pc = "idle"
    /\ clock < Horizon
    /\ tagMode' = FrameTag
    /\ pc' = "loop"
    /\ UNCHANGED <<clock, events, idCounter, deviceVars, cyclesLeft, doBreak, loopStart,
                   slice, frames>>

(* The user resumes after a breakpoint.                                    *)
Unbreak ==
    /\ pc = "idle"
    /\ doBreak
    /\ doBreak' = FALSE
    /\ UNCHANGED <<clock, events, idCounter, deviceVars, loopVars, frames>>

(* reset() of a system: clear() empties the list and touches neither the   *)
(* flags nor id_counter, the clock restarts and the frame is scheduled.    *)
ResetIdFirst == FirstId    \* faulty: ids start over

ResetId == idCounter

Reset ==
    /\ pc = "idle"
    /\ idCounter < MaxId
    /\ clock' = 0
    /\ events' = <<FirstFrameEvent(ResetId)>>
    /\ idCounter' = ResetId + 1
    /\ stale' = {s \in Devices : still[s]}
    /\ UNCHANGED <<still, schId, loopVars, doBreak, frames>>

----------------------------------------------------------------------------
(* The loops of run_for_cycles and run_til_tag.                            *)

(* Return to the host; a break forfeits the cycles not yet run.            *)
Return(left) ==
    /\ pc' = "idle"
    /\ cyclesLeft' = IF doBreak THEN 0 ELSE left

OuterLoop ==
    /\ pc = "loop"
    /\ IF doBreak
         THEN Return(cyclesLeft) /\ UNCHANGED loopStart
         ELSE /\ pc' = "due"
              /\ loopStart' = clock
              /\ UNCHANGED cyclesLeft
    /\ UNCHANGED <<clock, events, idCounter, deviceVars, doBreak, tagMode, slice, frames>>

(* What is left in the list once the event at its head is popped.  The     *)
(* frame event's function adds the next frame event, a period after the    *)
(* time this one was for.                                                  *)
AfterPop(e) ==
    IF e.src = Frame
      THEN AddAbs(Tail(events),
                  NewEvent(idCounter, e.time + FramePeriod, Frame, FrameTag), clock)
      ELSE Tail(events)

(* Pop the head, clear its flag, enter its function.                       *)
Dispatch ==
    /\ pc = "due"
    /\ Head(events).time <= loopStart
    /\ LET e == Head(events)
       IN  /\ events' = AfterPop(e)
           /\ idCounter' = IF e.src = Frame THEN idCounter + 1 ELSE idCounter
           /\ still' = [s \in Devices |-> still[s] /\ s # e.src]
           /\ frames' = <<[src |-> e.src, tag |-> e.tag]>>
           /\ stale' = stale \ {e.src}
    /\ pc' = "callback"
    /\ UNCHANGED <<clock, schId, cyclesLeft, doBreak, tagMode, loopStart, slice>>

(* The function returns.  run_til_tag stops at the tag it awaits, and both *)
(* stop when the list is empty; run_for_cycles charges what the function   *)
(* added to the clock and stops when that exhausts the budget.             *)
Finished == (tagMode # 0 /\ frames[1].tag = tagMode) \/ events = <<>>

ChargedAsAsked == cyclesLeft - slice    \* faulty: charges cycles not run

Charged == cyclesLeft - (clock - loopStart)

CallbackReturn ==
    /\ pc = "callback"
    /\ Len(frames) = 1
    /\ frames' = <<>>
    /\ \/ /\ Finished
          /\ pc' = "idle"
          /\ UNCHANGED <<cyclesLeft, loopStart>>
       \/ /\ ~Finished
          /\ loopStart' = clock
          /\ IF tagMode = 0 /\ clock # loopStart /\ Charged <= 0
               THEN Return(Charged)
               ELSE /\ pc' = "due"
                    /\ cyclesLeft' = IF tagMode = 0 THEN Charged ELSE cyclesLeft
    /\ UNCHANGED <<clock, events, idCounter, deviceVars, doBreak, tagMode, slice>>

(* No event is due.                                                        *)
SliceLimitNoBlock == IF tagMode = 0 THEN {cyclesLeft} ELSE {}   \* faulty

SliceLimit == IF tagMode = 0 THEN {MaxBlock, cyclesLeft} ELSE {MaxBlock}

SlicePastEvent ==    \* faulty: the next event does not end the slice
    CHOOSE n \in SliceLimit : \A m \in SliceLimit : n <= m

Slice ==
    LET gap == Head(events).time - loopStart
    IN  CHOOSE n \in {gap} \cup SliceLimit : \A m \in {gap} \cup SliceLimit : n <= m

OutOfCyclesLate ==    \* faulty: a budget of 0 is not used up
    (tagMode = 0 /\ cyclesLeft < 0) \/ (tagMode # 0 /\ doBreak)

OutOfCycles == (tagMode = 0 /\ cyclesLeft <= 0) \/ (tagMode # 0 /\ doBreak)

StartBlock ==
    /\ pc = "due"
    /\ Head(events).time > loopStart
    /\ IF OutOfCycles
         THEN Return(cyclesLeft) /\ UNCHANGED slice
         ELSE /\ pc' = "block"
              /\ slice' = Slice
              /\ UNCHANGED cyclesLeft
    /\ UNCHANGED <<clock, events, idCounter, deviceVars, doBreak, tagMode, loopStart, frames>>

----------------------------------------------------------------------------
(* The CPU's block.  The PS1's and the NDS's run instructions until the    *)
(* slice is used up, so that the last one may overshoot, the GBA's runs    *)
(* one; a halted GBA CPU jumps to the next event.  A block here makes      *)
(* progress; those that may not (a halted GBA CPU found awake, an NDS      *)
(* block an earlier overshoot has covered) are left to models of theirs.   *)

Instruction(n) ==
    /\ pc = "block"
    /\ frames = <<>>
    /\ clock < loopStart + slice
    /\ clock' = clock + n
    /\ UNCHANGED <<events, idCounter, deviceVars, loopVars, doBreak, frames>>

HaltedBlock ==
    /\ pc = "block"
    /\ frames = <<>>
    /\ clock = loopStart
    /\ Head(events).time > clock
    /\ clock' = Head(events).time
    /\ UNCHANGED <<events, idCounter, deviceVars, loopVars, doBreak, frames>>

BlockReturn ==
    /\ pc = "block"
    /\ frames = <<>>
    /\ clock > loopStart \/ doBreak
    /\ cyclesLeft' = IF tagMode = 0 THEN Charged ELSE cyclesLeft
    /\ pc' = "loop"
    /\ UNCHANGED <<clock, events, idCounter, deviceVars, doBreak, tagMode, loopStart, slice,
                   frames>>

----------------------------------------------------------------------------
(* What a callback or an instruction may call.                             *)

Calling == pc \in {"callback", "block"}

Breakpoint ==
    /\ Calling
    /\ ~doBreak
    /\ doBreak' = TRUE
    /\ UNCHANGED <<clock, events, idCounter, deviceVars, loopVars, frames>>

(* from_event_adjust_master_clock, and the clock a DMA in a callback moves *)
AdjustClock(n) ==
    /\ pc = "callback"
    /\ clock = loopStart
    /\ clock' = clock + n
    /\ UNCHANGED <<events, idCounter, deviceVars, loopVars, doBreak, frames>>

(* A timer is not re-armed from inside its own function when that function *)
(* was called by add_or_run_abs: the 0 it returns would hide the new id.   *)
RunAtOnceAllowed(s) == FALSE    \* faulty: a timer re-arms itself there

RunAtOnce(s) ==
    \E k \in 1 .. Len(frames) : frames[k].src = s /\ (k > 1 \/ pc = "block")

MayArm(s) ==
    /\ Calling
    /\ idCounter < MaxId
    /\ ~RunAtOnce(s)

(* A device cancels what its flag says is pending.                         *)
WithoutOwn(s) == IF still[s] THEN DeleteIfExist(events, schId[s]) ELSE events

ClearedNever(s) == {}    \* faulty: unlinking leaves the flag set

Cleared(s) ==
    {u \in Devices : still[s] /\ u \in Unlinked(events, schId[s])}

Cancel(s) ==
    /\ Calling
    /\ still[s]
    /\ events' = WithoutOwn(s)
    /\ still' = [u \in Devices |-> still[u] /\ u \notin Cleared(s)]
    /\ stale' = stale \ Cleared(s)
    /\ UNCHANGED <<clock, idCounter, schId, loopVars, doBreak, frames>>

(* Cancel, then only_add_abs; or add_or_run_abs for a time to come.        *)
Reschedule(s, t) ==
    /\ MayArm(s)
    /\ events' = AddAbs(WithoutOwn(s), NewEvent(idCounter, t, s, 0), clock)
    /\ still' = [u \in Devices |-> u = s \/ (still[u] /\ u \notin Cleared(s))]
    /\ schId' = [schId EXCEPT ![s] = idCounter]
    /\ idCounter' = idCounter + 1
    /\ stale' = stale \ (Cleared(s) \cup {s})
    /\ UNCHANGED <<clock, loopVars, doBreak, frames>>

(* Cancel, then add_or_run_abs for a time already reached: the function    *)
(* runs inside the call, and the id it returns is 0.                       *)
RunNow(s, t) ==
    /\ MayArm(s)
    /\ IsDue(t, clock)
    /\ events' = WithoutOwn(s)
    /\ still' = [u \in Devices |-> u # s /\ still[u] /\ u \notin Cleared(s)]
    /\ idCounter' = idCounter + 1
    /\ frames' = Append(frames, [src |-> s, tag |-> 0])
    /\ stale' = stale \ (Cleared(s) \cup {s})
    /\ UNCHANGED <<clock, schId, loopVars, doBreak>>

RunNowReturn ==
    /\ frames # <<>>
    /\ Len(frames) > 1 \/ pc = "block"
    /\ schId' = [schId EXCEPT ![frames[Len(frames)].src] = 0]
    /\ frames' = SubSeq(frames, 1, Len(frames) - 1)
    /\ UNCHANGED <<clock, events, idCounter, still, stale, loopVars, doBreak>>

(* schedule_IRQ_check: add_next, unless the flag says one is pending.      *)
ScheduleIrqCheck(s) ==
    /\ Calling
    /\ idCounter < MaxId
    /\ ~still[s]
    /\ events' = AddNext(events, NewEvent(idCounter, 0, s, 0))
    /\ still' = [still EXCEPT ![s] = TRUE]
    /\ idCounter' = idCounter + 1
    /\ UNCHANGED <<clock, schId, stale, loopVars, doBreak, frames>>

----------------------------------------------------------------------------
Host ==
    \/ \E n \in Budgets : RunForCycles(n)
    \/ RunTilTag
    \/ Unbreak
    \/ Reset

Loop == OuterLoop \/ Dispatch \/ CallbackReturn \/ StartBlock

Cpu == (\E n \in 1 .. MaxInstr : Instruction(n)) \/ HaltedBlock \/ BlockReturn

Device ==
    \/ Breakpoint
    \/ \E n \in Adjusts : AdjustClock(n)
    \/ \E s \in Timers : Cancel(s)
    \/ \E s \in Timers, d \in Delays : Reschedule(s, clock + d)
    \/ \E s \in Timers, d \in Delays : RunNow(s, clock + d)
    \/ RunNowReturn
    \/ \E s \in IrqChecks : ScheduleIrqCheck(s)

Next == Host \/ Loop \/ Cpu \/ Device

(* The emulator never stops inside a run: the loop, the CPU and a function *)
(* that has been entered go on.  Nothing makes the host start a run, nor a *)
(* device schedule anything.                                               *)
Fairness ==
    /\ WF_vars(Loop)
    /\ WF_vars(Cpu)
    /\ WF_vars(RunNowReturn)

Spec == Init /\ [][Next]_vars /\ Fairness

----------------------------------------------------------------------------
(* Properties.                                                             *)

Frames == Seq([src : Owners, tag : Nat])

(* Every variable has its type; the slice a block is given is never more   *)
(* than max_block_size, whatever budget is left over.                      *)
TypeOK ==
    /\ clock \in Nat
    /\ events \in Seq(Event(Owners))
    /\ idCounter \in Nat
    /\ still \in [Devices -> BOOLEAN]
    /\ schId \in [Timers -> Nat]
    /\ cyclesLeft \in Int
    /\ doBreak \in BOOLEAN
    /\ tagMode \in {0, FrameTag}
    /\ loopStart \in Nat
    /\ slice \in 0 .. MaxBlock
    /\ frames \in Frames
    /\ pc \in {"idle", "loop", "due", "callback", "block"}
    /\ stale \in SUBSET Devices

(* Events leave the list in time order: behind an event that was in the    *)
(* future when it was added there is none for an earlier time.  The loops  *)
(* look at the head alone (scheduler.cpp:256, 386) and rely on this.       *)
InTimeOrder == InOrder(events)

(* A block of cycles starts only when no event anywhere in the list is     *)
(* due, and no event falls inside the slice the CPU is given.              *)
NoEventInsideSlice ==
    [][pc = "due" /\ pc' = "block" =>
          /\ slice' > 0
          /\ \A k \in 1 .. Len(events) : events[k].time >= loopStart + slice']_vars

(* A flag and the list agree: a device's flag is set exactly when one      *)
(* event of it is pending, and none when it is clear; the flags a reset    *)
(* forgot are the only ones with nothing behind them.  Clearing the flag   *)
(* before the call (scheduler.cpp:261) and setting it in bind_or_run is    *)
(* what a function that re-arms itself depends on.                         *)
FlagsMatchEvents ==
    \A s \in Devices :
        /\ AtMostOne(events, s)
        /\ still[s] <=> (Has(events, s) \/ s \in stale)

(* The id a timer keeps finds its event, so that the timer can cancel it:  *)
(* "ID that can be used to track & delete" (scheduler.h:26).               *)
TimersHoldTheirIds ==
    \A s \in Timers, k \in 1 .. Len(events) :
        events[k].src = s => schId[s] = events[k].id

(* One frame event is always pending: no device's stale id can cancel it,  *)
(* and the loops, which do not test the head before they follow it         *)
(* (scheduler.cpp:252-256), never find the list empty.                     *)
FrameEventPending == Has(events, Frame) /\ AtMostOne(events, Frame)

(* Cycles are neither lost nor run twice: clock plus what is left to run   *)
(* grows by what the host asks for and by nothing else, whichever of the   *)
(* blocks and the callbacks moves the clock; only a break forfeits them.   *)
NotYetCharged == IF pc \in {"callback", "block"} THEN clock - loopStart ELSE 0

CyclesAccounted ==
    [][tagMode = 0 /\ tagMode' = 0 /\ ~doBreak /\ clock' >= clock =>
          LET was == clock + cyclesLeft - NotYetCharged
              is  == clock' + cyclesLeft' - NotYetCharged'
          IN  is - was \in IF pc = "idle" THEN Budgets \cup {0} ELSE {0}]_vars

(* What the scheduler promises is Alarms: its clients see alarms and turns, *)
(* whatever the list, the ids and the flags do to keep them.               *)
CallsInProgress == [k \in 1 .. Len(frames) |-> frames[k].src]

TurnEnd == IF pc = "block" THEN loopStart + slice ELSE -1

Client == INSTANCE Alarms WITH
    Clients <- Devices, now <- clock, alarms <- AlarmsOf(events),
    calls <- CallsInProgress, until <- TurnEnd

ImplementsAlarms == Client!Spec

(* A run that was started returns, if the devices schedule finitely often. *)
RunsReturn == pc # "idle" ~> pc = "idle"
=============================================================================
