------------------------------ MODULE Ps1Cdrom ------------------------------
(* The PlayStation's CD-ROM controller: system/ps1/cdrom/ps1_cdrom.cpp.      *)
(* Software writes a command; an event starts it, many have a second event   *)
(* that finishes it, and reading goes on by an event that schedules itself.  *)
(* Each of them answers by an interrupt, one at a time: an answer that comes *)
(* while another is pending waits in one of three slots until the pending    *)
(* one is acknowledged.  Commands are named for what they do; what software  *)
(* puts in the parameter FIFO, and what is on the disc, is any choice.       *)
EXTENDS Integers

CONSTANTS
    Commands,    \* commands that software sends
    Masks,       \* values of HINTMSK that it writes
    MaxReads     \* bound: chains of sector reads at once

VARIABLES
    busy,        \* HSTS.BUSYSTS
    cmd,         \* io.CMD
    due,         \* pending events: cmd_start and cmd_finish
    stat,        \* bits of io.stat
    needsSeek,   \* seek.needs_seek
    disc,        \* disk.inserted
    reads,       \* pending events: sch_read
    readSched,   \* read.still_sched; then read.sched_id is the id of one of them
    flags,       \* levels whose flag is set
    mask,        \* and those that are enabled
    response,    \* the response FIFO
    waiting,     \* irq.deferred
    line,        \* the input of the IRQ multiplexer
    istat        \* its latched bit, in I_STAT

driveVars == <<stat, needsSeek, reads, readSched>>
answerVars == <<flags, response, waiting, line, istat>>
vars == <<busy, cmd, due, disc, mask, driveVars, answerVars>>

(* Bytes of the answers; INT 1 to 5 are ready, complete, ack, end and error. *)
Size == [stat |-> 1, switches |-> 1, error |-> 2, tracks |-> 3, counters |-> 3,
         version |-> 4, location |-> 8, id |-> 8]
Data == DOMAIN Size
Levels == 1..5
Answers == [level : Levels, data : Data]
None == [level |-> 0, data |-> "stat"]
Slots == {"ack", "complete", "ready"}

(* Commands that are answered and done when they start, by their answers.    *)
Quick == [NOP |-> {"stat"}, SetFilter |-> {"stat"}, Mute |-> {"stat"}, Demute |-> {"stat"},
          SetMode |-> {"stat"}, Reset |-> {"stat"}, Invalid |-> {"error"},
          GetTN |-> {"tracks"}, GetTD |-> {"tracks", "error"}, GetLocP |-> {"location"},
          Test |-> {"stat", "counters", "version", "switches", "error"}]
(* Commands with a second event, and those that may leave the drive busy.    *)
Slow == {"MotorOn", "Stop", "Pause", "Init", "Seek", "GetID", "SetSession"}
MayHang == {"Forward", "Backward", "Unhandled", "Test", "SetSession"}
CommandNames == DOMAIN Quick \cup Slow \cup MayHang \cup {"SetLoc", "Play", "Read", "Unlock"}

ASSUME CommandsAssumption == Commands \subseteq CommandNames
ASSUME MasksAssumption == Masks \subseteq SUBSET Levels
ASSUME ReadsAssumption == MaxReads \in Nat

(* One type invariant: as many reads are pending as were scheduled, and less. *)
TypeOK ==
    /\ busy \in BOOLEAN /\ cmd \in CommandNames /\ disc \in BOOLEAN
    /\ due \in [start : Nat, finish : Nat]
    /\ stat \in [read : BOOLEAN, seek : BOOLEAN, play : BOOLEAN, shellOpen : BOOLEAN]
    /\ needsSeek \in BOOLEAN
    /\ reads \in Nat /\ readSched \in BOOLEAN
    /\ flags \subseteq Levels /\ mask \subseteq Levels
    /\ response \in [data : Data, bytes : 0..8]
    /\ waiting \in [Slots -> Answers \cup {None}]
    /\ line \in BOOLEAN /\ istat \in BOOLEAN

(* The members' initial values; PS1::core::reset leaves the drive open.      *)
Init ==
    /\ busy = FALSE /\ cmd = "Invalid" /\ disc \in BOOLEAN
    /\ due = [start |-> 0, finish |-> 0]
    /\ stat = [read |-> FALSE, seek |-> FALSE, play |-> FALSE, shellOpen |-> TRUE]
    /\ needsSeek = FALSE
    /\ reads = 0 /\ readSched = FALSE
    /\ flags = {} /\ mask = {}
    /\ response = [data |-> "stat", bytes |-> 0]
    /\ waiting = [s \in Slots |-> None]
    /\ line = FALSE /\ istat = FALSE

-----------------------------------------------------------------------------
(* Answers.                                                                  *)

(* update_IRQs: a rising edge latches.                                       *)
SetLine(level) ==
    /\ line' = level
    /\ istat' = (istat \/ (level /\ ~line))

(* A sector's answer does not replace one that waits, the others do; errors  *)
(* share the slot of acknowledgements.                                       *)
SlotOf(level) ==
    CASE level = 1 -> "ready" [] level = 2 -> "complete" [] OTHER -> "ack"
Queued(level, data) ==
    IF level = 1 /\ waiting["ready"] # None THEN waiting
    ELSE [waiting EXCEPT ![SlotOf(level)] = [level |-> level, data |-> data]]

ResultAtOnce(level, data) ==    \* faulty: delivers beside a pending answer
    /\ flags' = flags \cup {level}
    /\ response' = [data |-> data, bytes |-> Size[data]]
    /\ SetLine(flags' \cap mask # {})
    /\ UNCHANGED waiting
Result(level, data) ==
    IF flags = {}
    THEN /\ flags' = {level}
         /\ response' = [data |-> data, bytes |-> Size[data]]
         /\ SetLine(level \in mask)
         /\ UNCHANGED waiting
    ELSE /\ waiting' = Queued(level, data)
         /\ UNCHANGED <<flags, response, line, istat>>

Acks(data) == Result(IF data = "error" THEN 5 ELSE 3, data)

(* flush_deferred_IRQs and deliver_deferred.  The loop that copies runs to   *)
(* the length of the FIFO it takes the bytes from, and so copies half.       *)
CompleteFirst ==    \* faulty: the second answer before the first
    CASE waiting["complete"] # None -> "complete"
      [] waiting["complete"] = None /\ waiting["ack"] # None -> "ack"
      [] OTHER -> "ready"
AckThenReady ==    \* faulty: forgets the second answer
    IF waiting["ack"] # None THEN "ack" ELSE "ready"
FirstWaiting ==
    CASE waiting["ack"] # None -> "ack"
      [] waiting["ack"] = None /\ waiting["complete"] # None -> "complete"
      [] OTHER -> "ready"
Deliver(answer) ==
    /\ flags' = {answer.level}
    /\ response' = [data |-> answer.data, bytes |-> (Size[answer.data] + 1) \div 2]
    /\ waiting' = [waiting EXCEPT ![FirstWaiting] = None]

(* A write of HCLRCTL: seven acknowledges one interrupt, the lowest, and bit *)
(* 4 an error.  (Bit 3 acknowledges an end, which nothing ever answers.)     *)
Left(seven, error) ==
    LET lowest == {l \in flags : \A k \in flags : l <= k}
    IN  (flags \ (IF seven THEN lowest ELSE {})) \ (IF error THEN {5} ELSE {})
ClearThenUpdate(seven, error) ==    \* faulty: one update_IRQs, at the end
    LET left == Left(seven, error)
        answer == waiting[FirstWaiting]
    IN  /\ IF left = {} /\ answer # None
           THEN Deliver(answer)
           ELSE flags' = left /\ UNCHANGED <<response, waiting>>
        /\ SetLine(flags' \cap mask # {})
        /\ UNCHANGED <<busy, cmd, due, disc, mask, driveVars>>
Clear(seven, error) ==
    LET left == Left(seven, error)
        answer == waiting[FirstWaiting]
    IN  /\ IF left = {} /\ answer # None
           THEN /\ Deliver(answer)    \* after the line went down
                /\ line' = (answer.level \in mask)
                /\ istat' = (istat \/ line')
           ELSE /\ flags' = left
                /\ SetLine(left \cap mask # {})
                /\ UNCHANGED <<response, waiting>>
        /\ UNCHANGED <<busy, cmd, due, disc, mask, driveVars>>

-----------------------------------------------------------------------------
(* cmd_start.                                                                *)

(* The command is done (finish_CMD), has a second event, or is left as it is. *)
Ends == due.start > 0 /\ due' = [due EXCEPT !.start = @ - 1] /\ busy' = FALSE
Goes == due.start > 0 /\ due' = [due EXCEPT !.start = @ - 1, !.finish = @ + 1] /\ UNCHANGED busy
Hangs == due.start > 0 /\ due' = [due EXCEPT !.start = @ - 1] /\ UNCHANGED busy

(* delete_if_exist, if the flag says that a read is pending.                 *)
DeleteReadAlways ==    \* faulty: does not look at the flag
    reads' = reads - 1 /\ readSched' = FALSE
DeleteRead ==
    IF readSched THEN reads' = reads - 1 /\ readSched' = FALSE
    ELSE UNCHANGED <<reads, readSched>>

StartQuick ==
    /\ cmd \in DOMAIN Quick
    /\ Ends
    /\ \E data \in Quick[cmd] : Acks(data)
    /\ stat' = IF cmd = "NOP" THEN [stat EXCEPT !.shellOpen = FALSE] ELSE stat
    /\ UNCHANGED <<needsSeek, reads, readSched>>

(* Commands without an answer: one kind is done, the others leave BUSYSTS.   *)
StartSilent ==
    /\ cmd \in {"Unlock", "Forward", "Unhandled"}
    /\ IF cmd = "Unlock" THEN Ends ELSE Hangs
    /\ UNCHANGED <<driveVars, answerVars>>

(* Answers after which nothing finishes the command.                         *)
StartHanging ==
    /\ cmd \in {"Backward", "Test", "SetSession"}
    /\ cmd = "SetSession" => stat.play \/ stat.read
    /\ Hangs
    /\ Acks(IF cmd = "Backward" THEN "stat" ELSE "error")
    /\ UNCHANGED driveVars

StartSetLoc ==
    /\ cmd = "SetLoc"
    /\ Ends
    /\ \/ Acks("error") /\ UNCHANGED needsSeek
       \/ Acks("stat") /\ needsSeek' = TRUE
    /\ UNCHANGED <<stat, reads, readSched>>

StartPlay ==
    /\ cmd = "Play"
    /\ Ends
    /\ IF stat.shellOpen
       THEN Acks("error") /\ UNCHANGED stat
       ELSE Acks("stat") /\ stat' = [stat EXCEPT !.play = TRUE]
    /\ UNCHANGED <<needsSeek, reads, readSched>>

(* do_cmd_read: with a new position a read is scheduled beside the one that  *)
(* is pending.                                                               *)
StartRead ==
    /\ cmd = "Read"
    /\ Ends
    /\ Acks("stat")
    /\ IF readSched /\ ~needsSeek
       THEN UNCHANGED <<stat, reads, readSched>>
       ELSE /\ stat' = [stat EXCEPT !.seek = needsSeek]
            /\ reads' = reads + 1
            /\ readSched' = TRUE
    /\ UNCHANGED needsSeek

(* Commands with a second event; two of them end the read that the flag knows. *)
StartSlow ==
    /\ cmd \in {"MotorOn", "Stop", "Pause", "Init", "Seek"}
    /\ Goes
    /\ Acks("stat")
    /\ stat' = CASE cmd = "Stop" -> [stat EXCEPT !.seek = FALSE, !.read = FALSE, !.play = FALSE]
                 [] cmd = "Pause" -> [stat EXCEPT !.read = FALSE]
                 [] cmd = "Init" -> [stat EXCEPT !.read = FALSE, !.shellOpen = ~disc]
                 [] cmd = "Seek" -> [stat EXCEPT !.seek = TRUE, !.read = FALSE, !.play = FALSE]
                 [] OTHER -> stat
    /\ IF cmd \in {"Stop", "Pause"} THEN DeleteRead ELSE UNCHANGED <<reads, readSched>>
    /\ UNCHANGED needsSeek

StartGetID ==
    /\ cmd = "GetID"
    /\ IF stat.shellOpen THEN Ends /\ Acks("error") ELSE Goes /\ Acks("stat")
    /\ UNCHANGED driveVars

(* Session 0 is refused.                                                     *)
StartSetSession ==
    /\ cmd = "SetSession"
    /\ \/ Ends /\ Acks("error") /\ UNCHANGED stat
       \/ /\ ~(stat.play \/ stat.read)
          /\ Goes
          /\ Acks("stat")
          /\ stat' = [stat EXCEPT !.seek = TRUE]
    /\ UNCHANGED <<needsSeek, reads, readSched>>

CmdStart ==
    /\ \/ StartQuick \/ StartSilent \/ StartHanging \/ StartSetLoc \/ StartPlay \/ StartRead
       \/ StartSlow \/ StartGetID \/ StartSetSession
    /\ UNCHANGED <<cmd, disc, mask>>

-----------------------------------------------------------------------------
(* cmd_finish, for the command that io.CMD holds by then.                    *)

FinishSlow ==
    /\ cmd \in {"MotorOn", "Stop", "Pause", "Init", "Seek"}
    /\ Result(2, "stat")
    /\ stat' = CASE cmd = "Stop" -> [stat EXCEPT !.seek = FALSE, !.read = FALSE, !.play = FALSE]
                 [] cmd = "Pause" -> [stat EXCEPT !.read = FALSE, !.play = FALSE]
                 [] cmd = "Seek" -> [stat EXCEPT !.seek = FALSE]
                 [] OTHER -> stat
    /\ needsSeek' = (needsSeek /\ cmd # "Seek")
    /\ IF cmd = "Stop" THEN DeleteRead ELSE UNCHANGED <<reads, readSched>>

FinishGetID ==
    /\ cmd = "GetID"
    /\ IF disc THEN Result(2, "id") ELSE Result(5, "id")
    /\ UNCHANGED driveVars

(* Nothing ever sets disk.num_sessions: no session number is small enough.   *)
FinishSetSession ==
    /\ cmd = "SetSession"
    /\ Result(5, "error")
    /\ stat' = [stat EXCEPT !.seek = FALSE]
    /\ UNCHANGED <<needsSeek, reads, readSched>>

CmdFinishHoldingOn ==    \* faulty: no finish_CMD where there is no disc
    /\ due.finish > 0
    /\ due' = [due EXCEPT !.finish = @ - 1]
    /\ busy' = (cmd = "GetID" /\ ~disc)
    /\ FinishSlow \/ FinishGetID \/ FinishSetSession
    /\ UNCHANGED <<cmd, disc, mask>>
CmdFinish ==
    /\ due.finish > 0
    /\ due' = [due EXCEPT !.finish = @ - 1]
    /\ busy' = FALSE
    /\ FinishSlow \/ FinishGetID \/ FinishSetSession
    /\ UNCHANGED <<cmd, disc, mask>>

(* sch_read: the next read is scheduled whatever became of this one.  Audio  *)
(* sectors and those that the filter rejects are not answered.               *)
SchRead ==
    /\ reads > 0
    /\ readSched' = TRUE
    /\ stat' = IF needsSeek \/ stat.seek THEN [stat EXCEPT !.seek = FALSE, !.read = TRUE] ELSE stat
    /\ needsSeek' = FALSE
    /\ \/ Result(1, "stat")
       \/ UNCHANGED answerVars
    /\ UNCHANGED <<busy, cmd, due, disc, mask, reads>>

-----------------------------------------------------------------------------
(* Software and host.                                                        *)

WriteCmdAlways(c) ==    \* faulty: does not look at BUSYSTS
    /\ c = "Read" => reads < MaxReads
    /\ busy' = TRUE
    /\ cmd' = c
    /\ due' = [due EXCEPT !.start = @ + 1]
    /\ UNCHANGED <<disc, mask, driveVars, answerVars>>
WriteCmd(c) ==
    /\ c = "Read" => reads < MaxReads
    /\ ~busy
    /\ busy' = TRUE
    /\ cmd' = c
    /\ due' = [due EXCEPT !.start = @ + 1]
    /\ UNCHANGED <<disc, mask, driveVars, answerVars>>

WriteMask(m) ==
    /\ mask' = m
    /\ SetLine(flags \cap m # {})
    /\ UNCHANGED <<busy, cmd, due, disc, driveVars, flags, response, waiting>>

(* The CPU acknowledges the interrupt in I_STAT.                             *)
ClearIstat ==
    /\ istat' = FALSE
    /\ UNCHANGED <<busy, cmd, due, disc, mask, driveVars, flags, response, waiting, line>>

(* open_drive, close_drive, insert_disc and remove_disc.                     *)
Door(open, inserted) ==
    /\ stat' = [stat EXCEPT !.shellOpen = open]
    /\ disc' = inserted
    /\ UNCHANGED <<busy, cmd, due, mask, needsSeek, reads, readSched, answerVars>>
Host == Door(TRUE, disc) \/ Door(FALSE, disc) \/ Door(FALSE, TRUE) \/ Door(stat.shellOpen, FALSE)

Acknowledge == flags # {} /\ Clear(TRUE, FALSE)

Software ==
    \/ \E c \in Commands : WriteCmd(c)
    \/ \E m \in Masks : WriteMask(m)
    \/ \E seven, error \in BOOLEAN : Clear(seven, error)
    \/ ClearIstat

Next == CmdStart \/ CmdFinish \/ SchRead \/ Software \/ Host

(* The scheduler calls every event in its time.  This is weak fairness, with *)
(* what enables the functions spelled out: the commands they are called for  *)
(* (OneCommandAtATime) all have a start, and those with a second event have  *)
(* a finish.  (A read that changes nothing is not forced: WF does that.)     *)
CommandsAreCalled ==
    /\ []<>(due.start = 0) \/ []<><<CmdStart>>_vars
    /\ []<>(due.finish = 0) \/ []<><<CmdFinish>>_vars

Spec == Init /\ [][Next]_vars /\ CommandsAreCalled /\ WF_vars(SchRead)

-----------------------------------------------------------------------------
(* Properties.                                                               *)

(* Answers are delivered one at a time, and none waits with nothing pending: *)
(* it would wait for ever, since only an acknowledgement delivers it.  The   *)
(* interrupt line is what is pending and enabled.                            *)
OneAnswerAtATime ==
    /\ \A k, l \in flags : k = l
    /\ (\E s \in Slots : waiting[s] # None) => flags # {}
    /\ line = (flags \cap mask # {})

(* One event of the command in progress is pending, and no other; the second *)
(* one finds its own command in io.CMD.  A command without it hangs, which   *)
(* only some do.                                                             *)
OneCommandAtATime ==
    /\ due.start + due.finish <= 1
    /\ due.start + due.finish = 1 => busy
    /\ busy => due.start + due.finish = 1 \/ cmd \in MayHang
    /\ due.finish > 0 => cmd \in Slow

(* The answer that waited in slot s leaves it: an answer never leaves but to *)
(* be delivered, though another of its slot may replace it there.            *)
Leaves(s) == waiting[s] # None /\ waiting'[s] = None

(* Every answer that is delivered and enabled interrupts the CPU, at once or *)
(* after it waited, also in the place of one just acknowledged that had the  *)
(* same level; and what leaves its slot is the one answer pending then.      *)
EveryAnswerInterrupts ==
    [][/\ flags = {} /\ flags' \cap mask # {} => istat'
       /\ \A s \in Slots : Leaves(s) =>
              /\ flags' = {waiting[s].level}
              /\ waiting[s].level \in mask => istat']_vars

(* No answer overtakes one that waits and goes before it: acknowledgements   *)
(* go first, then completions, then sectors, and none goes at once while one *)
(* waits.                                                                    *)
InOrder ==
    [][/\ Leaves("complete") => waiting["ack"] = None
       /\ Leaves("ready") => waiting["ack"] = None /\ waiting["complete"] = None
       /\ flags = {} /\ flags' # {} => \A s \in Slots : waiting[s] = None]_vars

(* Software that waits for BUSYSTS to fall comes back, whatever was in the   *)
(* drive, unless its command was one of those that hang.                     *)
BusyEnds == (busy /\ cmd \notin MayHang) ~> ~busy

(* What waits is delivered if software goes on acknowledging and sends no    *)
(* more commands.                                                            *)
AnswersComeOut ==
    ([]<>(flags = {}) \/ []<><<Acknowledge>>_vars) /\ <>[][\A c \in Commands : ~WriteCmd(c)]_vars
        => (\E s \in Slots : waiting[s] # None) ~> (\A s \in Slots : waiting[s] = None)

(* The answer of GetTN is status, first and last track.                      *)
TracksAreThree == 3 \in flags /\ response.data = "tracks" => response.bytes = 3
=============================================================================
