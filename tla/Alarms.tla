------------------------------- MODULE Alarms -------------------------------
(***************************************************************************)
(* What scheduler_t promises the devices, the CPU and the system that use  *)
(* it, without its list, ids and flags: every client has at most the alarm *)
(* it set last; an alarm set for a time already reached rings before all   *)
(* the others, and these ring earliest first, never before their time; the *)
(* CPU gets a turn only when no alarm is due, and a turn does not reach    *)
(* past the first alarm; the frame's alarm sets itself again, a period     *)
(* after the time it was for; a reset leaves that alarm and no other.      *)
(***************************************************************************)
EXTENDS Integers, Sequences

CONSTANTS Clients,      \* the devices
          Frame,        \* the system's own client
          FramePeriod,  \* between its alarms
          MaxBlock,     \* the longest turn
          MaxInstr,     \* how far one instruction moves the clock
          Delays,       \* how far from now, or back, a client sets an alarm
          Adjusts       \* how far a call moves the clock

VARIABLES now,     \* the clock
          alarms,  \* the alarms that are set
          calls,   \* the clients whose functions are in progress, outermost first
          until    \* where the CPU's turn is to end, or NoTurn

vars == <<now, alarms, calls, until>>

NoTurn == -1

(* An alarm of s for time t; late says that t had been reached already.    *)
Alarm(s, t, late) == [who |-> s, time |-> t, late |-> late]

OthersThan(s) == {a \in alarms : a.who # s}

FirstAlarms == {Alarm(Frame, FramePeriod, FALSE)}

Init ==
    /\ now = 0
    /\ alarms = FirstAlarms
    /\ calls = <<>>
    /\ until = NoTurn

----------------------------------------------------------------------------
InCall == calls # <<>>
InTurn == until # NoTurn

(* Which alarm may ring before all the others.                             *)
Precedes(a, b) == a.late \/ (~b.late /\ a.time <= b.time)

Ring(a) ==
    /\ ~InCall /\ ~InTurn
    /\ a.time <= now
    /\ \A b \in alarms : Precedes(a, b)
    /\ LET next == a.time + FramePeriod
           again == {Alarm(Frame, next, next <= now)}
       IN  alarms' = OthersThan(a.who) \cup (IF a.who = Frame THEN again ELSE {})
    /\ calls' = <<a.who>>
    /\ UNCHANGED <<now, until>>

(* The function called last returns.                                       *)
Return ==
    /\ InCall
    /\ calls' = SubSeq(calls, 1, Len(calls) - 1)
    /\ UNCHANGED <<now, alarms, until>>

(* A function, or the CPU in its turn, sets the alarm of s, clears it, or  *)
(* has it ring at once, inside whatever is in progress.                    *)
Set(s, t) ==
    /\ InCall \/ InTurn
    /\ alarms' = OthersThan(s) \cup {Alarm(s, t, t <= now)}
    /\ UNCHANGED <<now, calls, until>>

Clear(s) ==
    /\ InCall \/ InTurn
    /\ alarms' = OthersThan(s)
    /\ UNCHANGED <<now, calls, until>>

CallNow(s) ==
    /\ InCall \/ InTurn
    /\ alarms' = OthersThan(s)
    /\ calls' = Append(calls, s)
    /\ UNCHANGED <<now, until>>

(* A call moves the clock, and may move it past alarms.                    *)
Adjust(n) ==
    /\ InCall /\ ~InTurn
    /\ now' = now + n
    /\ UNCHANGED <<alarms, calls, until>>

----------------------------------------------------------------------------
(* The CPU's turn.                                                         *)

Turn(t) ==
    /\ ~InCall /\ ~InTurn
    /\ \A a \in alarms : t <= a.time
    /\ until' = t
    /\ UNCHANGED <<now, alarms, calls>>

Run(n) ==
    /\ InTurn /\ ~InCall
    /\ now < until
    /\ now' = now + n
    /\ UNCHANGED <<alarms, calls, until>>

Sleep(a) ==
    /\ InTurn /\ ~InCall
    /\ now < a.time
    /\ \A b \in alarms : a.time <= b.time
    /\ now' = a.time
    /\ UNCHANGED <<alarms, calls, until>>

EndTurn ==
    /\ InTurn /\ ~InCall
    /\ until' = NoTurn
    /\ UNCHANGED <<now, alarms, calls>>

Restart ==
    /\ ~InCall /\ ~InTurn
    /\ now' = 0
    /\ alarms' = FirstAlarms
    /\ UNCHANGED <<calls, until>>

----------------------------------------------------------------------------
Rings == \E a \in alarms : Ring(a)

Requests ==
    \E s \in Clients :
        \/ \E d \in Delays : Set(s, now + d)
        \/ Set(s, 0)
        \/ Clear(s)
        \/ CallNow(s)

Turns ==
    \/ \E n \in 1 .. MaxBlock : Turn(now + n)
    \/ \E n \in 1 .. MaxInstr : Run(n)
    \/ \E a \in alarms : Sleep(a)
    \/ EndTurn

Next ==
    \/ Rings
    \/ Return
    \/ Requests
    \/ \E n \in Adjusts : Adjust(n)
    \/ Turns
    \/ Restart

Spec == Init /\ [][Next]_vars
=============================================================================
