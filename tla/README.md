# jsmooch-emus in TLA+

jsmooch-emus is a library of emulators (Game Boy Advance, Nintendo DS,
PlayStation, Genesis, SNES, TurboGrafx-16, Dreamcast, Game Boy, NES and others)
with a small GUI in front of it.  It runs on one thread.  What makes it hard is
not parallelism but *interleaving by hand*: an event scheduler alternates
blocks of CPU cycles with the callbacks of timed devices, both of which call back
into the scheduler; the NDS's two CPUs take turns inside one block and interrupt
each other; interrupts, DMA and sleep decide what the next block runs.  This
directory models that core, checks it with TLC and proves its safety, two refinements and
most of its liveness with TLAPS.

## 1. Inventory

| component | state | operations | what is hard | what makes it correct |
|---|---|---|---|---|
| event scheduler (`helpers/scheduler.cpp`) | event list, id counter, `*clock`, cycles left to run, per-device `still_sched` flag and kept id | `add_or_run_abs`, `only_add_abs[_w_tag]`, `add_next`, `delete_if_exist`, `run_for_cycles`, `run_til_tag`, `clear` | callbacks re-arm and cancel events, run at once when late, move the clock; breakpoints stop anywhere; resets forget flags | time order, flags and ids that agree with the list, no event inside a block, no cycle lost, the list never empty under the loop, runs return |
| NDS IPC FIFO (`nds/nds_ipc.cpp`) | ring of 16 words, head, tail, length, last word | push, pop, peek, flush | wrap, full, empty, partial clear | a bounded FIFO |
| NDS IPC registers and interrupts (`nds_bus.cpp`, `nds_irq.cpp`, `nds.cpp`, both ARM cores) | FIFO enables, IF, IE, IME, the kept line, CPSR.I, halted, pending checks | register writes, interrupts, sleep, checks, `run_block` | two CPUs in turn change each other's registers; edge-triggered; nothing polls the line | line up to date, no missed interrupt, every edge requests, sleepers wake |
| NDS timers (`nds_timers.cpp`) | reload, counter at stop, enable and overflow cycle, flag, id | write, overflow, cascade, read | two CPU clocks on one scheduler, late dispatch, zero-length reloads | a timer that runs has its overflow pending and overflows near the cycle it shows; the clocks do not drift apart |
| GBA run loop (`gba_bus.cpp`, `gba_dma.cpp`) | `run.func`, halted, DMA channels and their mask, IF, IE, IME and the line | instructions, DMA words, sleeping steps, hblank, vblank, timers, frame | the function of the next block is overwritten by whoever comes last: a store, a transfer's end, an event, a wake | DMA runs only while a transfer is in progress and loses the bus only to a store of its own to HALTCNT, the line is current, sleep ends for a reason and ends for every enabled interrupt, transfers end |
| PS1 serial port, pads, cards (`ps1_sio.cpp`, `ps1_digital_pad.cpp`, `ps1_memcard.cpp`) | CTRL, receive FIFO, status bits, interrupt, each device's select, step and acknowledge | write CTRL, write and read a byte, exchange, acknowledge up and down | several events on one flag and id, none of them cancelled; selection changes under them | one device answers, status and interrupt follow their causes, what is up comes down, a byte waited for ends |
| PS1 CD-ROM (`ps1_cdrom.cpp`) | command and BUSYSTS, drive status, interrupt flags and mask, response, three slots of answers that wait | command start and finish, sector read, acknowledge, door | second answers and sectors come while others are pending; commands that answer twice, not at all, or hang | one command and one answer at a time, answers in order and none lost for ever, an interrupt for each, BUSYSTS falls |
| GBA, PS1, Dreamcast, huc6280 timers, NDS cart, SPI, RTC, APU | one or two events each | write, tick | use of the scheduler | covered by the client protocol in `Scheduler` where they follow it |
| CPU cores, PPUs, APUs, VDPs, mappers | registers, memory | instructions, rendering | data, not ordering | test vectors in the repository |
| front end, debugger, serialization, audio buffers | UI | | I/O | |

Components interact by calls into the scheduler (add, delete), by calls from it
(callbacks with a key; `run.func` with a number of cycles), by shared flags
(`still_sched`, `halted`, `dbg.do_break`) and by direct calls between devices
(`update_IF7`, `IRQcheck`).

## 2. Modules

| module | models | state and actions |
|---|---|---|
| `EventList` | the linked list of `scheduler_t` as a sequence | `AddAbs`, `AddNext`, `DeleteIfExist` as operators by position |
| `Scheduler` | the two run loops, the CPU block they call and the devices that call them | `pc` is where the thread is; `frames` the functions in progress; one action per loop step, per CPU step and per call a device may make |
| `Alarms` | abstract: what the scheduler promises the devices, the CPU and the system | the clock, a set of alarms (at most one a client), the functions in progress, where the CPU's turn ends; `Ring`, `Set`, `Clear`, `CallNow`, `Turn` |
| `Channel` | abstract: what one direction of the IPC FIFO promises | a sequence of words |
| `IpcFifo` | `IPC_FIFO` | `data`, `head`, `tail`, `len`, `last`; `Push`, `Pop`, `PeekLast`, `Empty` |
| `NdsIpc` | the registers, interrupts, sleep and turns of the two CPUs | `turn`, one action per register access, per scheduler step and per phase of `run_block` |
| `NdsTimers` | the timers of both CPUs on the clocks that `run_block` moves | `time`, `target`, `trans` are the clocks; the rest are the fields of `timer7_t` and `timer9_t`; one action per register write, per overflow and per phase of `run_block` |
| `GbaRun` | what the GBA runs next | `run` is `scheduler.run.func`, `ch` and `mask` the DMA; `Step` is one call of `run.func`, `Event` one discharged event; a store to a register is a record, made by an instruction (`Instruction`) or by a transfer (`Move`) |
| `Ps1Sio` | the serial port with a pad and a memory card on its first port | `ctrl`, `fifo`, `stat`, `line` and `istat` are SIO0; `dev` the devices; `exchanging`, `raising`, `lowering` count pending events |
| `Ps1Cdrom` | the CD-ROM controller | `due` and `reads` count pending events, `flags`, `response` and `waiting` are the answers; `CmdStart`, `CmdFinish`, `SchRead` are the events; one action per register write |

`*Proofs` hold the theorems, `MC*` the small constants of the runs.

`Scheduler` is written against the protocol its well-behaved clients follow:
timers that keep a flag and an id (PS1, GBA and NDS timers, NDS APU channels),
interrupt checks that keep the flag alone (the ARM9's `schedule_IRQ_check`), the
frame event that adds its successor.  The functions called at once by
`add_or_run_abs` run inside the call (`RunNow`, `RunNowReturn`), nest, and return
the id 0, which overwrites the kept id.  The guard `RunAtOnce` is an obligation on
clients: a device does not re-arm itself from its own function while that function
was called at once; dropping it breaks `TimersHoldTheirIds`.  The model's device
chooses any delay of `Delays`, including times already past, in any callback or
block; the model's CPU runs any number of instructions of 1 to `MaxInstr` cycles.

`Alarms` has no list, ids, flags, budget, breakpoints or loops.  `Scheduler` implements
it (`ImplementsAlarms`) under the mapping that takes the list to the set of its events,
`frames` to the devices whose functions are in progress (`CallsInProgress`), and the end
of the slice the CPU was given to the end of its turn (`TurnEnd`); the budget, flags,
ids and the loops' own steps are stutters.  What a client may rely on: the alarm it set
last replaces the one before, rings at most once and never early, and a turn of the CPU
does not reach past any alarm.

`NdsIpc` keeps the FIFOs as their lengths (`IpcFifo` says what comes out of them)
and leaves out the error bits, which only software reads.  Interrupt bits of IF
and IE are elements of a set, the low half (`"device"`) and the high half (FIFO,
sync) kept apart because the ARM7's write of IE's low half clears the high half
(`nds_bus.cpp:731`).  `Evaluate` is `eval_irqs_7/9`: a check at the front of the
event list when the CPU is in its own turn, an interrupt on the spot otherwise.

`NdsTimers` takes the scheduler at its word (`Scheduler`): events leave in time
order and a timer's flag, id and event agree, so `armed`, the time of a timer's
event, is all that is kept of it.  Both kinds of timer share one definition with
the clock of their CPU; the scheduler's clock is the ARM7's.  Things of the code
that the model keeps and a reader may not expect:

* the last reload value (0xFFFF) stands for a whole round of ticks;
* `write_cnt` clears `enable_at` before it asks whether the timer was enabled, so a
  write with the enable on always restarts from the reload value;
* a timer that cascades is stepped whether or not it is enabled;
* an overflow reloads from the time of the call, with the cycles of the instruction
  or of the interrupts taken between blocks (`Interrupt`);
* an ARM9 timer shorter than the ARM7's lead is due when it is scheduled; the
  overflow then schedules itself for a time that is due as well and calls itself
  without end (`turn = "overflowing"`, where the model stops).

Left out: the interrupt an overflow requests (`NdsIpc`'s device interrupt), DMA
writing timer registers (`nds_dma.cpp` runs a transfer inside an instruction and
then takes its cycles back), byte-wise writes of the reload register, and `reset()`,
which the front end calls once, before the first block.

`GbaRun` models the loop as it is seen by the components: `due` events are discharged
in any order, then `run.func` is called once.  A DMA takes no time of the scheduler,
so no event falls due inside a transfer except those that were due already.
`eval_bit_masks` does not ask whether the CPU sleeps: a transfer that ends while it
does leaves the CPU running with `io.halted` set, and the model keeps that.  Instructions
and transfers store through the same function of the bus, so a store is a record that
says which registers it hits (`AllStores`: a channel's count and control, IE and IF,
IME, HALTCNT, or anything else), and both may make any of them; what a store does is one set of
operators (`Stored`, `StoreIrqs`, `NextRun`).  An instruction that stores more than once is
several steps.  A transfer that stores to HALTCNT halts the CPU with its channel in
progress and without the bus.  The keypad's interrupt is the only one that is
withdrawn without a store (`process_button_IRQ`).

`Ps1Sio` leaves out what the bytes mean beyond address and command: from the third
byte on a card that knows its command may or may not acknowledge.  Every event of a
device is counted, since they share a flag and an id and are never cancelled, and
pending events come in any order.  `update_ACKs` is modelled with its mistake
(finding `ps1_dsr`).

`Ps1Cdrom` names a command for what it does; what software put in the parameter FIFO
and what is on the disc is any choice.  Times are abstracted: pending events come in
any order.  Things of the code that the model keeps:

* a read with a new position is scheduled beside the pending one, on the same flag
  and id; Pause takes back one of the two, and each goes on by itself;
* some commands return without `finish_CMD` (`MayHang`) and leave BUSYSTS set;
* an answer that waited arrives with half its bytes, rounded up (finding);
* an answer delivered by an acknowledgement is delivered after the line went down.
  `EveryAnswerInterrupts` and `InOrder` speak of deliveries: an answer that comes while
  nothing is pending, and one that leaves its slot (`Leaves`), of whatever level.

`Init` is what the members are initialised to, with the door open as `PS1::core::reset`
leaves it.

Left out: the response's bytes as software reads them, the data FIFO, XA and CD
audio, the register index, `reset()`, the octal parameter reset of line 1477, and the
branches that no run of the program takes: `disk.num_sessions` is never set, so
`cmd_set_session_finish` always refuses, and nothing answers with level 4.

## 3. Runs

| run | asks | bounds |
|---|---|---|
| `scheduler` | list order, flags, ids, frame event, slices, accounting, `Alarms`, termination | two timers, one check, period 3, block 2, instructions of up to 2, delays -1, 0, 1, 3, ids to 104, clock to 4 |
| `ipc_fifo` | the ring buffer implements the channel | five slots, two words |
| `nds_ipc_7to9` | the line, and the FIFO edges in one direction (both are proved) | FIFO of 2 |
| `nds_irq` | missed interrupts with sync and device interrupts, and liveness of sleepers | one interrupt source each way |
| `nds_timers` | armed timers, closeness of overflows, drift of the clocks, endless overflows | two timers of the ARM9, one of which may cascade, and one of the ARM7; counters of 3 values, reloads 0 and 1, one cycle a tick, blocks and instructions of up to 2, blocks start before cycle 4 |
| `nds_timers_early` | an ARM9 timer never overflows before its cycle: it does | the same |
| `nds_send_empty` | a claim of comments that the code does not keep | FIFO of 1 |
| `gba_run` | who has the bus, the line, sleep and wake, transfers end | a sound channel and the video channel, counts to 2, two events due at once, three interrupts; transfers that start or stop a channel, mask and acknowledge, and halt; 195,328 states |
| `ps1_sio` | one device answers, signals, receive FIFO, pending ends, polls end | receive FIFO of 2, three pending events, three values of CTRL, three bytes; 296,505 states |
| `ps1_dsr` | bit 7 of SIO_STAT is the acknowledge line: it is not | the same |
| `ps1_cdrom` | one command, one answer, order, interrupts, BUSYSTS falls, answers come out | eight commands, one or more of each kind; two chains of reads; 973,664 states |
| `ps1_cdrom_tracks` | GetTN's answer has its three bytes: it has not | GetTN and Read |

The scheduler's bounds let an event be late, two events share a time, three events
queue (the one-event and the longer insertion paths), a block overshoot into the
next event, a break and a reset fall anywhere, and a function called at once call
another.  Four slots are what `empty()` clears, so five is the least that shows the
difference.  A FIFO of two has an empty, a middle and a full length, which is all
the registers distinguish.  Deadlock is not checked in `scheduler`: past the bounds
on the clock and on ids the host simply stops asking; nor in `nds_timers`, which
stops at an endless overflow and at the horizon.

The reloads of `nds_timers` give 3 ticks (reload 0), which is longer than a block
and lets several blocks pass before an overflow, and 2 (reload 1), which the ARM7's
lead (up to 3) exceeds.  A block and an instruction of 2 are the least that let a
CPU overshoot its part, be ahead of the other and be set back when it sleeps.
Dividers scale the ticks and nothing else: the proofs hold for every divider.

`gba_run` has two channels because the chosen channel, the one stored to and the one
an event starts can differ with two; 2 is the least count that is not the last word.
Its transfers store to every kind of register but IME (the proofs have that too); each
channel's can start the other's at once, for ever if software set them up so.
In `ps1_sio` three pending events are enough for an acknowledge's two and an exchange
between them, and a FIFO of 2 for a full one that is neither empty nor of one byte.
In `ps1_cdrom` the eight commands stand for one answer, none, a seek, an error or
not, a read, a second answer that ends reads, a second answer without a disc, and one that hangs; a
second chain of reads is the most that changes anything, since a third does what the
second does.

Fairness.  In `Scheduler` it is `WF` of the loop, the CPU and the return of a nested
function, because the thread never stops inside a run; nothing makes the host ask or a
device schedule.  `RunsReturn` needs devices that schedule finitely often (ids are
bounded), which is what the code needs as well: a callback that re-arms for the
present for ever hangs it.

The other modules assume weak fairness too, but write it out as "its steps are
impossible again and again, or are taken again and again" (`ScheduleGoesOn`,
`StepsAreRun`, `EventsAreCalled`, `CommandsAreCalled`), because ENABLED is out of the
provers' reach and these forms are not.  The condition written is exactly ENABLED of
the steps: TLC finds the two equal in every reachable state of the runs.

* `NdsIpc`: `Schedule` (checks, block start, the end of each CPU's part) goes on until
  control is back at the host: a block has finitely many cycles.  Nothing makes a CPU
  execute any instruction in particular, nor the host call again.
* `GbaRun`: the loop discharges what is due (`WF_vars(Event)`) and calls `run.func` when
  nothing is, as long as the host runs it.  Nothing is assumed of what is stored.
  `SleeperWakes` and `TransfersEnd` say in their antecedent (`StoresEnd`) that transfers in
  the end store to memory only: two that start each other never let the CPU run again.
* `Ps1Sio`: pending exchanges, and each device's pending acknowledges, are called by
  the scheduler in their time.
* `Ps1Cdrom`: `CmdStart` and `CmdFinish` are called when pending, and `WF_vars(SchRead)`.

In the last two nothing is assumed of software.  `AnswersComeOut` says in its antecedent
what software must do: go on acknowledging while answers are there, and send no more
commands (a command's answer goes before sectors that wait, and could do so for ever).

`NdsTimers` states safety only: that a pending overflow comes is the scheduler's
`RunsReturn`.

### Findings

* `nds_send_empty`: the write of IPCFIFOCNT requests the send-empty interrupt
  without looking at the FIFO (`nds_bus.cpp:689`, `:1222`).
* `nds_timers_early`: an ARM9 timer is called when the ARM7's clock reaches its cycle
  and overflows by the ARM9's, which may be behind (`nds_timers.cpp:119`).  How far is
  bounded (`OverflowsAreClose`).
* `ps1_dsr`: a card's acknowledge is kept in the second pad's variable and combined
  with the card's level from before the change (`ps1_sio.cpp:67`), so a card deselected
  while it acknowledges leaves the bit of SIO_STAT, and perhaps the interrupt, set.
* `ps1_cdrom_tracks`: `deliver_deferred` copies to a length that its own `pop` shortens
  (`ps1_cdrom.cpp:1428`).

Not checked as a finding, but visible in `NdsIpc`: `reset()` leaves a sleeping CPU asleep
(`nds.cpp:421`).  The front end calls it once, when nothing sleeps yet.  And in `GbaRun`: a
transfer's store to HALTCNT (`gba_bus.cpp:613`) takes the bus from its own channel, and so
does the wake after it (`gba_bus.cpp:455`): the channel stays in progress and waits till
something evaluates the masks.  Nothing in the repository says otherwise, so `DmaHasTheBus`
names the store to HALTCNT as the one step that takes the bus.

## 4. Proofs

`EventListProofs` proves what insertion and removal do by position: the result is
the old list with one event more or less, in order, with distinct ids
(`AddAbsInserts`, `AddAbsKeepsOrder`, `DeleteIsThinned`).  The list is defined
without recursion for that reason.

`SchedulerProofs` proves every safety property of the `scheduler` run for all
constants.  The inductive invariant `IInv` adds to the properties: ids in the list
are below the counter and distinct, a late event's time is reached, frames
only in the places that call functions, `loopStart` not ahead of the clock
where cycles are charged, stale flags only of devices without events.  Time order
alone is not inductive: it needs that late events are due, since one of them may
stand in front of earlier times.  Which ones do is `LateInFront`: events that were due
when they were added come before all that were not.  It is not needed for the order but
is the heart of the refinement below (`DueEventsGoFirst`).

`SchedulerKeepsAlarms` is the refinement of `Alarms`, for all constants.  One lemma for
each action says which step of `Alarms` it maps to, or that it is a stutter; the lemmas
of `EventListProofs` on `AlarmsOf` (what insertion and removal do to the *set* of events)
carry the changes of the list over.  That the head may ring is `InTimeOrder` with
`LateInFront`: a late head precedes everything, and behind a head that is not late no
event is late and none is earlier.  That a client has at most one alarm, so that setting
one replaces the other, is `FlagsMatchEvents` and `TimersHoldTheirIds`.

`IpcFifoProofs` proves the refinement to `Channel` for every size; the invariant is
that tail is len places after head round the ring.

`NdsIpcProofs` proves the type invariant, `LineMatches`, `NoMissedInterrupt` and
`FifoEdgesInterrupt`.  The invariant is their conjunction: a missed interrupt is
excluded because each of the steps that can raise the line or lift the mask puts a
check in the list in the same step.

`SleepersAreWoken` is `SleepersWake`.  A sleeping CPU with an accepted interrupt (`Roused`)
stays so until it is woken, whichever step is taken (`RousedUntilWoken`), because only
its own instructions could withdraw the interrupt and it executes none.  `Schedule` goes
on, so the turn goes round: checks, the ARM9's part, the ARM7's part, host.  The
argument needs one invariant more, `ARM7SleepsOn`: the ARM7 is polled at the start of a
block and not by checks, so its part never has it asleep with an enabled interrupt
requested.

`NdsTimersProofs` proves every property of `nds_timers` for any number of timers,
reloads, dividers and lengths of blocks and instructions.  Closeness is not
inductive: the invariant adds where each clock is with respect to the end of the
block (`ClocksPlaced`: past it by less than an instruction once the CPU has had its
part, no more than a block before it until then) and where pending events are
(`EventsPlaced`: not before the end of the block, except those of the ARM7
scheduled within it).  An overflow's lateness is the difference of the two.

`IpcFifoProofs.IndicesStayRight` (tail is len places after head) is proved and not
checked by a run of its own: the refinement fails without it.

`GbaRunProofs` proves the safety of `gba_run` for any channels, counts, registers and
stores, of transfers as well as of instructions.  `DmaHasTheBus` needs `StartedAreEnabled`:
a channel that was started while disabled would be put in progress by enabling it,
without a look at the masks.  It is an action property: that a channel in progress has
the bus (`HasBus`) is no invariant, because a transfer's store to HALTCNT takes it, so each
action's lemma says that the action keeps it, and `MoveInv` names the exception.
`SleepEndsForAReason` is an action property proved from the same invariant.
`StoresAssumption` says that stores are of the kinds above and that instructions and
transfers can store to plain memory, so that a transfer in progress always has a step: the
fairness as written would ask for more otherwise.  `SleeperIsWoken` is `SleeperWakes` under
two hypotheses: what is due gets discharged (`[]<>(due = 0)`) and transfers end
(`TransfersEnd`).  Both follow from the fairness by counting down, `due` and the words
left, which is induction over a number; TLC checks the second, and `SleeperWakes`
without either.  What the theorem adds is that nothing else stands in the way: a sleeping
CPU with an enabled interrupt stays so (`RousedUntilRun`) until it runs or a transfer takes
the bus, a transfer withdraws the interrupt, puts the CPU back to sleep with it, or ends in
the CPU (`KeptUntilRun`), and no event or reset withdraws it.

`Ps1SioProofs` proves the safety of `ps1_sio` for any size of the FIFO and any number of
pending events.  That only one device answers is not inductive: the second device that
sees its address no longer takes it for the first byte because it counted the bytes
before, so the invariant adds that both devices are at the same step and that the one
that answers is past the first (`DevicesOk`).  `PollingEnds` is `PollsEnd`: while a byte is waited for an
exchange is pending (`EndsAreScheduled`), every exchange ends the wait, and likewise for
an acknowledge and the event that lowers it.  No count is needed, since any one of the
pending events will do.

`Ps1CdromProofs` proves the safety of `ps1_cdrom`, order and interrupts included, for any
commands and number of reads.  The invariant adds that a read that is flagged is
pending (`ReadsHeld`, else taking it back would take back nothing) and that a slot holds
answers of its own level (`RightSlots`, from which the order follows).  `CommandsFinish` is `BusyEnds`.
`WaitingAnswersComeOut` is `AnswersComeOut`, by stages: once no command is sent any more the
events of the last one are called and are gone for good (`CommandsSettle`); from then on
the acknowledgement's slot, which only commands fill, stays empty once emptied, then the
completion's, and then every acknowledgement delivers the waiting sector
(`AcknowledgementDelivers`, `SlotsAreEmptied`).

Assumptions are only those on the constants, named in each module.

Liveness theorems are temporal combinations (PTL) of facts about single steps: which step
leaves a condition, that the others keep it, and that the fair one is taken.  No step uses
ENABLED or a rank.

Model-checked only: `RunsReturn` (the number of events a run calls and of cycles it runs
goes down) and `TransfersEnd` (the words left go down).  Both are induction over a number,
which the installed provers cannot do for a temporal formula; and `SleeperWakes` is proved
only from the hypotheses named above.  Of the violated properties each has a
counterexample and nothing to prove.

## 5. Plan

Written: `EventList`, `Alarms`, `Scheduler`, `Channel`/`IpcFifo`, `NdsIpc`, `NdsTimers`, `GbaRun`,
`Ps1Sio`, `Ps1Cdrom`.

Left:

1. `SchedulerTg16`: the loops that jump the clock; monotone clock.
2. `SchedulerHeap`: nodes, `next` pointers and the pool of discarded nodes,
   refined to `EventList` operations.
3. NDS cart and SPI as clients of the scheduler.

## 6. Not modelled

Instruction semantics, rendering, sound synthesis, save states and the front end:
data transformations without the ordering that a model checker is for.  Cores
that step cycle by cycle without the scheduler (Game Boy, NES, 8-bit computers)
are left for later.

Most of the repository's lines are such data: of its 324,000 lines about 175,000 are
generated opcode tables (Z80, 65816, HuC6280, SM83, 6502) and lookup tables.  What is
modelled here are the files that decide the order of things.  Inside them are left
out: the TurboGrafx loops and the node pool of the scheduler, the geometry FIFO's level
interrupt and keypad of the NDS, addresses and data of DMA, the sector data of memory
cards, and the data path of the CD-ROM.
