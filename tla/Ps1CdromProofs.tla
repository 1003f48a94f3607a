-------------------------- MODULE Ps1CdromProofs --------------------------
(***************************************************************************)
(* Proofs about Ps1Cdrom, for any commands, masks and number of reads.     *)
(*                                                                         *)
(* Reads that are taken back need the flag to stand for a pending one, and *)
(* the order of answers needs every slot to hold answers of its own level. *)
(***************************************************************************)
EXTENDS Ps1Cdrom, TLAPS

ReadsHeld == readSched => reads > 0

SlotLevels == [ack |-> {3, 4, 5}, complete |-> {2}, ready |-> {1}]
RightSlots == \A s \in Slots : waiting[s] # None => waiting[s].level \in SlotLevels[s]

AnswerTypes ==
    /\ flags \subseteq Levels /\ mask \subseteq Levels
    /\ response \in [data : Data, bytes : 0..8]
    /\ waiting \in [Slots -> Answers \cup {None}]
    /\ line \in BOOLEAN /\ istat \in BOOLEAN
AnswersOk == AnswerTypes /\ OneAnswerAtATime /\ RightSlots

CommandTypes ==
    /\ busy \in BOOLEAN /\ cmd \in CommandNames
    /\ due \in [start : Nat, finish : Nat]
CommandsOk == CommandTypes /\ OneCommandAtATime

Stats == [read : BOOLEAN, seek : BOOLEAN, play : BOOLEAN, shellOpen : BOOLEAN]
DriveOk ==
    /\ disc \in BOOLEAN /\ stat \in Stats /\ needsSeek \in BOOLEAN
    /\ reads \in Nat /\ readSched \in BOOLEAN
    /\ ReadsHeld

IInv == AnswersOk /\ CommandsOk /\ DriveOk

(* What a step may do to the answers.                                      *)
Interrupts ==
    /\ flags = {} /\ flags' \cap mask # {} => istat'
    /\ \A s \in Slots : Leaves(s) =>
          /\ flags' = {waiting[s].level}
          /\ waiting[s].level \in mask => istat'
Ordered ==
    /\ Leaves("complete") => waiting["ack"] = None
    /\ Leaves("ready") => waiting["ack"] = None /\ waiting["complete"] = None
    /\ flags = {} /\ flags' # {} => \A s \in Slots : waiting[s] = None
AnswerStep == Interrupts /\ Ordered

LEMMA IInvTypes == IInv => TypeOK
BY DEF IInv, AnswersOk, AnswerTypes, CommandsOk, CommandTypes, DriveOk, Stats, TypeOK

LEMMA SizeType == \A d \in Data : Size[d] \in 1..8
BY DEF Data, Size

LEMMA InitInv == Init => IInv
<1> SUFFICES ASSUME Init PROVE IInv
  OBVIOUS
<1>1. AnswersOk
  <2>1. [data |-> "stat", bytes |-> 0] \in [data : Data, bytes : 0..8]
    <3>1. "stat" \in Data
      BY DEF Data, Size
    <3> QED
      BY <3>1
  <2>2. AnswerTypes
    BY <2>1 DEF Init, AnswerTypes
  <2> QED
    BY <2>2 DEF Init, AnswersOk, OneAnswerAtATime, RightSlots
<1>2. CommandsOk
  <2>1. "Invalid" \in CommandNames
    BY DEF CommandNames, Quick
  <2>2. CommandTypes
    BY <2>1 DEF Init, CommandTypes
  <2> QED
    BY <2>2 DEF Init, CommandsOk, OneCommandAtATime
<1>3. DriveOk
  BY DEF Init, DriveOk, Stats, ReadsHeld
<1> QED
  BY <1>1, <1>2, <1>3 DEF IInv

---------------------------------------------------------------------------
(* Answers.                                                                *)

LEMMA SlotOfIsRight ==
    ASSUME NEW l \in Levels, NEW d \in Data
    PROVE  /\ SlotOf(l) \in Slots /\ l \in SlotLevels[SlotOf(l)]
           /\ [level |-> l, data |-> d] \in Answers
           /\ [level |-> l, data |-> d] # None
<1>1. l \in {1, 2, 3, 4, 5}
  BY DEF Levels
<1>2. SlotOf(l) \in Slots /\ l \in SlotLevels[SlotOf(l)]
  BY <1>1 DEF SlotOf, Slots, SlotLevels
<1>3. [level |-> l, data |-> d] \in Answers
  BY DEF Answers
<1>4. [level |-> l, data |-> d].level # None.level
  BY <1>1 DEF None
<1> QED
  BY <1>2, <1>3, <1>4

LEMMA QueuedIsRight ==
    ASSUME AnswersOk, NEW l \in Levels, NEW d \in Data
    PROVE  /\ Queued(l, d) \in [Slots -> Answers \cup {None}]
           /\ \A s \in Slots : Queued(l, d)[s] # None
                                   => Queued(l, d)[s].level \in SlotLevels[s]
<1> DEFINE a == [level |-> l, data |-> d]
           t == SlotOf(l)
<1>1. t \in Slots /\ l \in SlotLevels[t] /\ a \in Answers
  BY SlotOfIsRight
<1>2. waiting \in [Slots -> Answers \cup {None}] /\ RightSlots
  BY DEF AnswersOk, AnswerTypes
<1>3. CASE Queued(l, d) = waiting
  BY <1>2, <1>3 DEF RightSlots
<1>4. CASE Queued(l, d) = [waiting EXCEPT ![t] = a]
  <2> HIDE DEF t
  <2>1. Queued(l, d) \in [Slots -> Answers \cup {None}]
    BY <1>1, <1>2, <1>4
  <2>2. \A s \in Slots : Queued(l, d)[s] = IF s = t THEN a ELSE waiting[s]
    BY <1>1, <1>2, <1>4
  <2>3. a.level = l
    OBVIOUS
  <2> QED
    BY <1>1, <1>2, <2>1, <2>2, <2>3 DEF RightSlots
<1> QED
  BY <1>3, <1>4 DEF Queued

(* One that waits may be replaced by another, and does not leave.          *)
LEMMA QueuedStay ==
    ASSUME AnswerTypes, NEW l \in Levels, NEW d
    PROVE  \A s \in Slots : waiting[s] # None => Queued(l, d)[s] # None
<1>1. [level |-> l, data |-> d] # None
  BY DEF None, Levels
<1> QED
  BY <1>1 DEF Queued, AnswerTypes

LEMMA ResultKeeps ==
    ASSUME AnswersOk, NEW l \in Levels, NEW d \in Data, Result(l, d), mask' = mask
    PROVE  AnswersOk' /\ AnswerStep
<1> USE DEF AnswersOk, AnswerTypes
<1>1. CASE flags = {}
  <2>1. /\ flags' = {l} /\ waiting' = waiting
        /\ response' = [data |-> d, bytes |-> Size[d]]
        /\ line' = (l \in mask) /\ istat' = (istat \/ ((l \in mask) /\ ~line))
    BY <1>1 DEF Result, SetLine
  <2>2. \A s \in Slots : waiting[s] = None
    BY <1>1 DEF OneAnswerAtATime
  <2>3. line = FALSE
    BY <1>1 DEF OneAnswerAtATime
  <2>4. response' \in [data : Data, bytes : 0..8]
    BY <2>1, SizeType
  <2>5. AnswerTypes'
    <3>1. flags' \subseteq Levels /\ mask' \subseteq Levels
      BY <2>1
    <3>2. line' \in BOOLEAN /\ istat' \in BOOLEAN
      BY <2>1
    <3> QED
      BY <2>1, <2>4, <3>1, <3>2
  <2>6. line' = (flags' \cap mask' # {})
    BY <2>1
  <2>7. OneAnswerAtATime'
    BY <2>1, <2>2, <2>6 DEF OneAnswerAtATime
  <2>8. RightSlots'
    BY <2>1 DEF RightSlots
  <2>9. AnswerStep
    <3>1. Interrupts
      BY <2>1, <2>2, <2>3 DEF Interrupts, Leaves
    <3>2. Ordered
      BY <2>1, <2>2 DEF Ordered, Slots, Leaves
    <3> QED
      BY <3>1, <3>2 DEF AnswerStep
  <2> QED
    BY <2>5, <2>7, <2>8, <2>9
<1>2. CASE flags # {}
  <2>1. waiting' = Queued(l, d) /\ UNCHANGED <<flags, response, line, istat>>
    BY <1>2 DEF Result
  <2>2. AnswerTypes' /\ RightSlots'
    BY <2>1, QueuedIsRight DEF RightSlots
  <2>3. OneAnswerAtATime'
    BY <1>2, <2>1 DEF OneAnswerAtATime
  <2>4. \A s \in Slots : ~Leaves(s)
    BY <2>1, QueuedStay DEF Leaves
  <2>5. AnswerStep
    BY <1>2, <2>4 DEF AnswerStep, Interrupts, Ordered, Slots
  <2> QED
    BY <2>2, <2>3, <2>5
<1> QED
  BY <1>1, <1>2

LEMMA AcksKeeps ==
    ASSUME AnswersOk, NEW d \in Data, Acks(d), mask' = mask
    PROVE  AnswersOk' /\ AnswerStep
<1> DEFINE l == IF d = "error" THEN 5 ELSE 3
<1>1. l \in Levels /\ Result(l, d)
  BY DEF Acks, Levels
<1> QED
  BY <1>1, ResultKeeps

LEMMA SameAnswers ==
    ASSUME AnswersOk, UNCHANGED answerVars, mask' = mask
    PROVE  AnswersOk' /\ AnswerStep
BY DEF AnswersOk, AnswerTypes, OneAnswerAtATime, RightSlots, answerVars,
       AnswerStep, Interrupts, Ordered, Leaves, Slots

---------------------------------------------------------------------------
(* Acknowledgements deliver what waits.                                    *)

LEMMA FirstWaitingIsFirst ==
    ASSUME AnswersOk
    PROVE  /\ FirstWaiting \in Slots
           /\ waiting[FirstWaiting] = None => \A s \in Slots : waiting[s] = None
           /\ FirstWaiting # "ack" => waiting["ack"] = None
           /\ FirstWaiting = "ready" => waiting["complete"] = None
BY DEF FirstWaiting, Slots

LEMMA DeliverKeeps ==
    ASSUME AnswersOk, mask' = mask, NEW a, a = waiting[FirstWaiting], a # None,
           Deliver(a), line' = (a.level \in mask), istat' = (istat \/ line')
    PROVE  AnswersOk' /\ AnswerStep
<1> DEFINE t == FirstWaiting
<1>1. /\ t \in Slots
      /\ t # "ack" => waiting["ack"] = None
      /\ t = "ready" => waiting["complete"] = None
  BY FirstWaitingIsFirst
<1>2. /\ waiting' = [waiting EXCEPT ![t] = None]
      /\ flags' = {a.level}
      /\ response' = [data |-> a.data, bytes |-> (Size[a.data] + 1) \div 2]
  BY DEF Deliver
<1> HIDE DEF t
<1>3. a = waiting[t]
  BY DEF t
<1>4. a \in Answers /\ a.level \in Levels /\ a.data \in Data /\ a.level \in SlotLevels[t]
  BY <1>1, <1>3 DEF AnswersOk, AnswerTypes, Answers, RightSlots
<1>5. \A s \in Slots : waiting'[s] = IF s = t THEN None ELSE waiting[s]
  BY <1>1, <1>2 DEF AnswersOk, AnswerTypes
<1>6. waiting' \in [Slots -> Answers \cup {None}]
  BY <1>1, <1>2 DEF AnswersOk, AnswerTypes
<1>7. (Size[a.data] + 1) \div 2 \in 0..8
  <2>1. Size[a.data] \in 1..8
    BY <1>4, SizeType
  <2> QED
    BY <2>1
<1>8. AnswerTypes'
  <2>1. flags' \subseteq Levels /\ mask' \subseteq Levels
    BY <1>2, <1>4 DEF AnswersOk, AnswerTypes
  <2>2. response' \in [data : Data, bytes : 0..8]
    BY <1>2, <1>4, <1>7
  <2>3. line' \in BOOLEAN /\ istat' \in BOOLEAN
    BY DEF AnswersOk, AnswerTypes
  <2> QED
    BY <1>6, <2>1, <2>2, <2>3 DEF AnswerTypes
<1>9. OneAnswerAtATime'
  <2>1. line' = (flags' \cap mask' # {})
    BY <1>2
  <2> QED
    BY <1>2, <2>1 DEF OneAnswerAtATime
<1>10. RightSlots'
  BY <1>5 DEF RightSlots, AnswersOk
<1>0. flags # {} /\ \A s \in Slots : Leaves(s) => s = t
  BY <1>1, <1>3, <1>5 DEF AnswersOk, OneAnswerAtATime, Leaves
<1>11. Interrupts
  BY <1>0, <1>2, <1>3 DEF Interrupts
<1>12. Ordered
  <2> QED
    BY <1>0, <1>1 DEF Ordered, Slots
<1> QED
  BY <1>8, <1>9, <1>10, <1>11, <1>12 DEF AnswersOk, AnswerStep

LEMMA ClearKeeps ==
    ASSUME AnswersOk, NEW seven, NEW error, Clear(seven, error)
    PROVE  AnswersOk' /\ AnswerStep
<1> DEFINE left == Left(seven, error)
           answer == waiting[FirstWaiting]
<1>1. left \subseteq flags
  BY DEF Left
<1>2. mask' = mask
  BY DEF Clear
<1>3. CASE left = {} /\ answer # None
  BY <1>2, <1>3, DeliverKeeps DEF Clear
<1>4. CASE ~(left = {} /\ answer # None)
  <2>1. /\ flags' = left /\ UNCHANGED <<response, waiting>>
        /\ line' = (left \cap mask # {}) /\ istat' = (istat \/ (line' /\ ~line))
    BY <1>4 DEF Clear, SetLine
  <2> HIDE DEF left
  <2>2. left = {} => \A s \in Slots : waiting[s] = None
    BY <1>4, FirstWaitingIsFirst
  <2>3. line' \in BOOLEAN /\ istat' \in BOOLEAN
    BY <2>1 DEF AnswersOk, AnswerTypes
  <2>4. AnswerTypes'
    BY <1>1, <1>2, <2>1, <2>3 DEF AnswersOk, AnswerTypes
  <2>5. line' = (flags' \cap mask' # {})
    BY <1>2, <2>1
  <2>6. OneAnswerAtATime'
    BY <1>1, <2>1, <2>2, <2>5 DEF AnswersOk, OneAnswerAtATime
  <2>7. RightSlots'
    BY <2>1 DEF AnswersOk, RightSlots
  <2>8. AnswerStep
    BY <1>1, <2>1 DEF AnswerStep, Interrupts, Ordered, Leaves, Slots
  <2> QED
    BY <2>4, <2>6, <2>7, <2>8 DEF AnswersOk
<1> QED
  BY <1>3, <1>4

LEMMA WriteMaskKeeps ==
    ASSUME AnswersOk, NEW m \in Masks, WriteMask(m)
    PROVE  AnswersOk' /\ AnswerStep
<1>1. /\ mask' = m /\ UNCHANGED <<flags, response, waiting>>
      /\ line' = (flags \cap m # {}) /\ istat' = (istat \/ (line' /\ ~line))
  BY DEF WriteMask, SetLine
<1>2. line' \in BOOLEAN /\ istat' \in BOOLEAN
  BY <1>1 DEF AnswersOk, AnswerTypes
<1>3. AnswerTypes'
  BY <1>1, <1>2, MasksAssumption DEF AnswersOk, AnswerTypes
<1>4. line' = (flags' \cap mask' # {})
  BY <1>1
<1>5. AnswersOk'
  BY <1>1, <1>3, <1>4 DEF AnswersOk, OneAnswerAtATime, RightSlots
<1>6. AnswerStep
  BY <1>1 DEF AnswerStep, Interrupts, Ordered, Leaves, Slots
<1> QED
  BY <1>5, <1>6

---------------------------------------------------------------------------
(* Commands: how a start leaves the events and BUSYSTS.                    *)

LEMMA OneStart ==
    ASSUME CommandsOk, due.start > 0
    PROVE  due = [start |-> 1, finish |-> 0] /\ busy
BY DEF CommandsOk, CommandTypes, OneCommandAtATime

LEMMA EndsKeeps ==
    ASSUME CommandsOk, Ends, cmd' = cmd PROVE CommandsOk'
<1>1. due' = [start |-> 0, finish |-> 0]
  <2>1. due = [start |-> 1, finish |-> 0]
    BY OneStart DEF Ends
  <2> QED
    BY <2>1 DEF Ends
<1>2. busy' \in BOOLEAN /\ ~busy'
  BY OneStart DEF Ends, CommandsOk, CommandTypes
<1>3. cmd' \in CommandNames
  BY DEF CommandsOk, CommandTypes
<1>4. CommandTypes'
  BY <1>1, <1>2, <1>3 DEF CommandTypes
<1> QED
  BY <1>1, <1>2, <1>4 DEF CommandsOk, OneCommandAtATime

LEMMA GoesKeeps ==
    ASSUME CommandsOk, Goes, cmd' = cmd, cmd \in Slow PROVE CommandsOk'
<1>1. due' = [start |-> 0, finish |-> 1]
  <2>1. due = [start |-> 1, finish |-> 0]
    BY OneStart DEF Goes
  <2>2. due' = [due EXCEPT !.start = 0, !.finish = 1]
    <3>1. due.start - 1 = 0 /\ due.finish + 1 = 1
      BY <2>1
    <3> QED
      BY <3>1 DEF Goes
  <2> QED
    BY <2>1, <2>2
<1>2. busy' \in BOOLEAN /\ busy'
  BY OneStart DEF Goes, CommandsOk, CommandTypes
<1>3. cmd' \in CommandNames
  BY DEF CommandsOk, CommandTypes
<1>4. CommandTypes'
  BY <1>1, <1>2, <1>3 DEF CommandTypes
<1> QED
  BY <1>1, <1>2, <1>4 DEF CommandsOk, OneCommandAtATime

LEMMA HangsKeeps ==
    ASSUME CommandsOk, Hangs, cmd' = cmd, cmd \in MayHang PROVE CommandsOk'
<1>1. due' = [start |-> 0, finish |-> 0]
  <2>1. due = [start |-> 1, finish |-> 0]
    BY OneStart DEF Hangs
  <2> QED
    BY <2>1 DEF Hangs
<1>2. busy' \in BOOLEAN /\ busy'
  BY OneStart DEF Hangs, CommandsOk, CommandTypes
<1>3. cmd' \in CommandNames
  BY DEF CommandsOk, CommandTypes
<1>4. CommandTypes'
  BY <1>1, <1>2, <1>3 DEF CommandTypes
<1> QED
  BY <1>1, <1>2, <1>4 DEF CommandsOk, OneCommandAtATime

LEMMA SameDrive ==
    ASSUME DriveOk, disc' = disc, UNCHANGED driveVars PROVE DriveOk'
BY DEF DriveOk, driveVars, ReadsHeld

LEMMA DeleteReadKeeps ==
    ASSUME DriveOk, DeleteRead
    PROVE  reads' \in Nat /\ readSched' \in BOOLEAN /\ ReadsHeld'
<1>1. CASE readSched
  <2>1. reads \in Nat /\ reads > 0
    BY <1>1 DEF DriveOk, ReadsHeld
  <2>2. reads' = reads - 1
    BY <1>1 DEF DeleteRead
  <2>3. reads' \in Nat
    BY <2>1, <2>2
  <2>4. readSched' \in BOOLEAN /\ ~readSched'
    BY <1>1 DEF DeleteRead
  <2> QED
    BY <2>3, <2>4 DEF ReadsHeld
<1>2. CASE ~readSched
  BY <1>2 DEF DriveOk, DeleteRead, ReadsHeld
<1> QED
  BY <1>1, <1>2

(* Whatever becomes of the reads, the rest of the drive is two bits.       *)
LEMMA DriveFrom ==
    ASSUME DriveOk, disc' \in BOOLEAN, stat' \in Stats, needsSeek' \in BOOLEAN,
           \/ UNCHANGED <<reads, readSched>>
           \/ DeleteRead
           \/ reads' = reads + 1 /\ readSched' = TRUE
    PROVE  DriveOk'
<1>1. reads' \in Nat /\ readSched' \in BOOLEAN /\ ReadsHeld'
  <2>1. CASE UNCHANGED <<reads, readSched>>
    BY <2>1 DEF DriveOk, ReadsHeld
  <2>2. CASE DeleteRead
    BY <2>2, DeleteReadKeeps
  <2>3. CASE reads' = reads + 1 /\ readSched' = TRUE
    <3>1. reads' \in Nat /\ reads' > 0
      BY <2>3 DEF DriveOk
    <3> QED
      BY <2>3, <3>1 DEF ReadsHeld
  <2> QED
    BY <2>1, <2>2, <2>3
<1> QED
  BY <1>1 DEF DriveOk

LEMMA DataAre ==
    /\ {"stat", "error", "tracks", "id"} \subseteq Data
    /\ \A c \in DOMAIN Quick : Quick[c] \subseteq Data
BY DEF Data, Size, Quick

---------------------------------------------------------------------------
(* cmd_start, one lemma for each kind of command.                          *)

Kept == AnswersOk' /\ AnswerStep /\ CommandsOk' /\ DriveOk'

LEMMA StartQuickKeeps ==
    ASSUME IInv, StartQuick, UNCHANGED <<cmd, disc, mask>> PROVE Kept
<1>0. AnswersOk /\ CommandsOk /\ DriveOk
  BY DEF IInv
<1>1. PICK data \in Quick[cmd] : Acks(data)
  BY DEF StartQuick
<1>2. data \in Data
  BY DataAre DEF StartQuick
<1>3. AnswersOk' /\ AnswerStep
  BY <1>0, <1>1, <1>2, AcksKeeps
<1>4. CommandsOk'
  BY <1>0, EndsKeeps DEF StartQuick
<1>5. stat' \in Stats /\ needsSeek' \in BOOLEAN /\ disc' \in BOOLEAN
  BY <1>0 DEF DriveOk, Stats, StartQuick
<1>6. DriveOk'
  BY <1>0, <1>5, DriveFrom DEF StartQuick
<1> QED
  BY <1>3, <1>4, <1>6 DEF Kept

LEMMA StartSilentKeeps ==
    ASSUME IInv, StartSilent, UNCHANGED <<cmd, disc, mask>> PROVE Kept
<1>0. AnswersOk /\ CommandsOk /\ DriveOk
  BY DEF IInv
<1>1. CommandsOk'
  BY <1>0, EndsKeeps, HangsKeeps DEF StartSilent, MayHang
<1> QED
  BY <1>0, <1>1, SameAnswers, SameDrive DEF StartSilent, Kept

LEMMA StartHangingKeeps ==
    ASSUME IInv, StartHanging, UNCHANGED <<cmd, disc, mask>> PROVE Kept
<1>0. AnswersOk /\ CommandsOk /\ DriveOk
  BY DEF IInv
<1>1. CommandsOk'
  BY <1>0, HangsKeeps DEF StartHanging, MayHang
<1> DEFINE d == IF cmd = "Backward" THEN "stat" ELSE "error"
<1>2. d \in Data /\ Acks(d)
  BY DataAre DEF StartHanging
<1>3. AnswersOk' /\ AnswerStep
  BY <1>0, <1>2, AcksKeeps
<1> QED
  BY <1>0, <1>1, <1>3, SameDrive DEF StartHanging, Kept

LEMMA StartSetLocKeeps ==
    ASSUME IInv, StartSetLoc, UNCHANGED <<cmd, disc, mask>> PROVE Kept
<1>0. AnswersOk /\ CommandsOk /\ DriveOk
  BY DEF IInv
<1>1. AnswersOk' /\ AnswerStep
  BY <1>0, AcksKeeps, DataAre DEF StartSetLoc
<1>2. CommandsOk'
  BY <1>0, EndsKeeps DEF StartSetLoc
<1>3. DriveOk'
  BY <1>0, DriveFrom DEF StartSetLoc, DriveOk
<1> QED
  BY <1>1, <1>2, <1>3 DEF Kept

LEMMA StartPlayKeeps ==
    ASSUME IInv, StartPlay, UNCHANGED <<cmd, disc, mask>> PROVE Kept
<1>0. AnswersOk /\ CommandsOk /\ DriveOk
  BY DEF IInv
<1>1. AnswersOk' /\ AnswerStep
  BY <1>0, AcksKeeps, DataAre DEF StartPlay
<1>2. CommandsOk'
  BY <1>0, EndsKeeps DEF StartPlay
<1>3. stat' \in Stats /\ needsSeek' \in BOOLEAN /\ disc' \in BOOLEAN
  BY <1>0 DEF DriveOk, Stats, StartPlay
<1>4. DriveOk'
  BY <1>0, <1>3, DriveFrom DEF StartPlay
<1> QED
  BY <1>1, <1>2, <1>4 DEF Kept

LEMMA StartReadKeeps ==
    ASSUME IInv, StartRead, UNCHANGED <<cmd, disc, mask>> PROVE Kept
<1>0. AnswersOk /\ CommandsOk /\ DriveOk
  BY DEF IInv
<1>1. AnswersOk' /\ AnswerStep
  BY <1>0, AcksKeeps, DataAre DEF StartRead
<1>2. CommandsOk'
  BY <1>0, EndsKeeps DEF StartRead
<1>3. stat' \in Stats /\ needsSeek' \in BOOLEAN /\ disc' \in BOOLEAN
  BY <1>0 DEF DriveOk, Stats, StartRead
<1>4. DriveOk'
  BY <1>0, <1>3, DriveFrom DEF StartRead
<1> QED
  BY <1>1, <1>2, <1>4 DEF Kept

LEMMA StartSlowKeeps ==
    ASSUME IInv, StartSlow, UNCHANGED <<cmd, disc, mask>> PROVE Kept
<1>0. AnswersOk /\ CommandsOk /\ DriveOk
  BY DEF IInv
<1>1. AnswersOk' /\ AnswerStep
  BY <1>0, AcksKeeps, DataAre DEF StartSlow
<1>2. CommandsOk'
  BY <1>0, GoesKeeps DEF StartSlow, Slow
<1>3. stat' \in Stats
  <2>1. stat \in Stats /\ disc \in BOOLEAN
    BY <1>0 DEF DriveOk
  <2>2. cmd \in {"MotorOn", "Stop", "Pause", "Init", "Seek"}
    BY DEF StartSlow
  <2>3. CASE cmd = "Stop"
    BY <2>1, <2>3 DEF Stats, StartSlow
  <2>4. CASE cmd = "Pause"
    BY <2>1, <2>4 DEF Stats, StartSlow
  <2>5. CASE cmd = "Init"
    BY <2>1, <2>5 DEF Stats, StartSlow
  <2>6. CASE cmd = "Seek"
    BY <2>1, <2>6 DEF Stats, StartSlow
  <2>7. CASE cmd = "MotorOn"
    BY <2>1, <2>7 DEF Stats, StartSlow
  <2> QED
    BY <2>2, <2>3, <2>4, <2>5, <2>6, <2>7
<1>4. DriveOk'
  BY <1>0, <1>3, DriveFrom DEF StartSlow, DriveOk
<1> QED
  BY <1>1, <1>2, <1>4 DEF Kept

LEMMA StartGetIDKeeps ==
    ASSUME IInv, StartGetID, UNCHANGED <<cmd, disc, mask>> PROVE Kept
<1>0. AnswersOk /\ CommandsOk /\ DriveOk
  BY DEF IInv
<1>1. AnswersOk' /\ AnswerStep
  BY <1>0, AcksKeeps, DataAre DEF StartGetID
<1>2. CommandsOk'
  BY <1>0, EndsKeeps, GoesKeeps DEF StartGetID, Slow
<1> QED
  BY <1>0, <1>1, <1>2, SameDrive DEF StartGetID, Kept

LEMMA StartSetSessionKeeps ==
    ASSUME IInv, StartSetSession, UNCHANGED <<cmd, disc, mask>> PROVE Kept
<1>0. AnswersOk /\ CommandsOk /\ DriveOk
  BY DEF IInv
<1>1. AnswersOk' /\ AnswerStep
  BY <1>0, AcksKeeps, DataAre DEF StartSetSession
<1>2. CommandsOk'
  BY <1>0, EndsKeeps, GoesKeeps DEF StartSetSession, Slow
<1>3. stat' \in Stats /\ needsSeek' \in BOOLEAN /\ disc' \in BOOLEAN
  BY <1>0 DEF DriveOk, Stats, StartSetSession
<1>4. DriveOk'
  BY <1>0, <1>3, DriveFrom DEF StartSetSession
<1> QED
  BY <1>1, <1>2, <1>4 DEF Kept

LEMMA CmdStartKeeps == ASSUME IInv, CmdStart PROVE Kept
BY StartQuickKeeps, StartSilentKeeps, StartHangingKeeps, StartSetLocKeeps, StartPlayKeeps,
   StartReadKeeps, StartSlowKeeps, StartGetIDKeeps, StartSetSessionKeeps DEF CmdStart

---------------------------------------------------------------------------
(* cmd_finish and sch_read.                                                *)

LEMMA ResultOf ==
    ASSUME AnswersOk, mask' = mask,
           \/ Result(1, "stat") \/ Result(2, "stat") \/ Result(2, "id")
           \/ Result(5, "id") \/ Result(5, "error")
    PROVE  AnswersOk' /\ AnswerStep
<1>1. {1, 2, 5} \subseteq Levels
  BY DEF Levels
<1> QED
  BY <1>1, ResultKeeps, DataAre

LEMMA CmdFinishKeeps == ASSUME IInv, CmdFinish PROVE Kept
<1>0. AnswersOk /\ CommandsOk /\ DriveOk
  BY DEF IInv
<1>1. UNCHANGED <<cmd, disc, mask>> /\ due.finish > 0 /\ busy' = FALSE
      /\ due' = [due EXCEPT !.finish = @ - 1]
  BY DEF CmdFinish
<1>2. CommandsOk'
  <2>1. due.start = 0 /\ due.finish = 1
    BY <1>0, <1>1 DEF CommandsOk, CommandTypes, OneCommandAtATime
  <2>2. due' = [start |-> 0, finish |-> 0]
    BY <1>0, <1>1, <2>1 DEF CommandsOk, CommandTypes
  <2>3. busy' \in BOOLEAN /\ ~busy' /\ cmd' \in CommandNames
    BY <1>0, <1>1 DEF CommandsOk, CommandTypes
  <2>4. CommandTypes'
    BY <2>2, <2>3 DEF CommandTypes
  <2> QED
    BY <2>2, <2>3, <2>4 DEF CommandsOk, OneCommandAtATime
<1>3. AnswersOk' /\ AnswerStep
  BY <1>0, <1>1, ResultOf DEF CmdFinish, FinishSlow, FinishGetID, FinishSetSession
<1>4. DriveOk'
  <2>1. CASE FinishSlow
    <3>1. stat' \in Stats
      <4>1. stat \in Stats
        BY <1>0 DEF DriveOk
      <4>2. cmd \in {"MotorOn", "Stop", "Pause", "Init", "Seek"}
        BY <2>1 DEF FinishSlow
      <4>3. CASE cmd = "Stop"
        BY <2>1, <4>1, <4>3 DEF Stats, FinishSlow
      <4>4. CASE cmd = "Pause"
        BY <2>1, <4>1, <4>4 DEF Stats, FinishSlow
      <4>5. CASE cmd = "Seek"
        BY <2>1, <4>1, <4>5 DEF Stats, FinishSlow
      <4>6. CASE cmd \in {"MotorOn", "Init"}
        BY <2>1, <4>1, <4>6 DEF Stats, FinishSlow
      <4> QED
        BY <4>2, <4>3, <4>4, <4>5, <4>6
    <3>2. needsSeek' \in BOOLEAN /\ disc' \in BOOLEAN
      BY <1>0, <1>1, <2>1 DEF FinishSlow, DriveOk
    <3> QED
      BY <1>0, <2>1, <3>1, <3>2, DriveFrom DEF FinishSlow
  <2>2. CASE FinishGetID
    BY <1>0, <1>1, <2>2, SameDrive DEF FinishGetID
  <2>3. CASE FinishSetSession
    <3>1. stat' \in Stats /\ needsSeek' \in BOOLEAN /\ disc' \in BOOLEAN
      BY <1>0, <1>1, <2>3 DEF FinishSetSession, DriveOk, Stats
    <3> QED
      BY <1>0, <2>3, <3>1, DriveFrom DEF FinishSetSession
  <2> QED
    BY <2>1, <2>2, <2>3 DEF CmdFinish
<1> QED
  BY <1>2, <1>3, <1>4 DEF Kept

LEMMA SameCommand ==
    ASSUME CommandsOk, UNCHANGED <<busy, cmd, due>> PROVE CommandsOk'
BY DEF CommandsOk, CommandTypes, OneCommandAtATime

LEMMA SchReadKeeps == ASSUME IInv, SchRead PROVE Kept
<1>0. AnswersOk /\ CommandsOk /\ DriveOk
  BY DEF IInv
<1>1. AnswersOk' /\ AnswerStep
  BY <1>0, ResultOf, SameAnswers DEF SchRead
<1>2. CommandsOk'
  BY <1>0, SameCommand DEF SchRead
<1>3. DriveOk'
  BY <1>0 DEF SchRead, DriveOk, Stats, ReadsHeld
<1> QED
  BY <1>1, <1>2, <1>3 DEF Kept

---------------------------------------------------------------------------
(* Software and host.                                                      *)

LEMMA WriteCmdKeeps == ASSUME IInv, NEW c \in Commands, WriteCmd(c) PROVE Kept
<1>0. AnswersOk /\ CommandsOk /\ DriveOk
  BY DEF IInv
<1>1. AnswersOk' /\ AnswerStep
  BY <1>0, SameAnswers DEF WriteCmd
<1>2. due = [start |-> 0, finish |-> 0]
  <2>1. ~busy
    BY DEF WriteCmd
  <2> QED
    BY <1>0, <2>1 DEF CommandsOk, CommandTypes, OneCommandAtATime
<1>3. due' = [start |-> 1, finish |-> 0] /\ cmd' \in CommandNames /\ busy' = TRUE
  BY <1>2, CommandsAssumption DEF WriteCmd
<1>4. CommandsOk'
  BY <1>3 DEF CommandsOk, CommandTypes, OneCommandAtATime
<1>5. DriveOk'
  BY <1>0, SameDrive DEF WriteCmd
<1> QED
  BY <1>1, <1>4, <1>5 DEF Kept

LEMMA HostKeeps == ASSUME IInv, Host PROVE Kept
<1>0. AnswersOk /\ CommandsOk /\ DriveOk
  BY DEF IInv
<1>1. PICK open \in BOOLEAN : \E inserted \in BOOLEAN : Door(open, inserted)
  BY <1>0 DEF Host, DriveOk, Stats
<1>2. AnswersOk' /\ AnswerStep
  BY <1>0, <1>1, SameAnswers DEF Door
<1>3. CommandsOk'
  BY <1>0, <1>1, SameCommand DEF Door
<1>4. stat' \in Stats /\ needsSeek' \in BOOLEAN /\ disc' \in BOOLEAN
  BY <1>0, <1>1 DEF Door, DriveOk, Stats
<1>5. DriveOk'
  BY <1>0, <1>1, <1>4, DriveFrom DEF Door
<1> QED
  BY <1>2, <1>3, <1>5 DEF Kept

LEMMA SoftwareKeeps == ASSUME IInv, Software PROVE Kept
<1>0. AnswersOk /\ CommandsOk /\ DriveOk
  BY DEF IInv
<1>1. CASE \E c \in Commands : WriteCmd(c)
  BY <1>1, WriteCmdKeeps
<1>2. CASE \E m \in Masks : WriteMask(m)
  <2>1. AnswersOk' /\ AnswerStep
    BY <1>0, <1>2, WriteMaskKeeps
  <2> QED
    BY <1>0, <1>2, <2>1, SameCommand, SameDrive DEF WriteMask, Kept
<1>3. CASE \E seven, error \in BOOLEAN : Clear(seven, error)
  <2>1. AnswersOk' /\ AnswerStep
    BY <1>0, <1>3, ClearKeeps
  <2> QED
    BY <1>0, <1>3, <2>1, SameCommand, SameDrive DEF Clear, Kept
<1>4. CASE ClearIstat
  <2>1. AnswersOk' /\ AnswerStep
    BY <1>0, <1>4 DEF ClearIstat, AnswersOk, AnswerTypes, OneAnswerAtATime, RightSlots,
                      AnswerStep, Interrupts, Ordered, Leaves, Slots
  <2> QED
    BY <1>0, <1>4, <2>1, SameCommand, SameDrive DEF ClearIstat, Kept
<1> QED
  BY <1>1, <1>2, <1>3, <1>4 DEF Software

---------------------------------------------------------------------------
(* Every step, and the theorems.                                           *)

LEMMA NextKeeps == ASSUME IInv, [Next]_vars PROVE IInv' /\ (Next => AnswerStep)
<1>1. CASE Next
  <2>1. Kept
    BY <1>1, CmdStartKeeps, CmdFinishKeeps, SchReadKeeps, SoftwareKeeps, HostKeeps DEF Next
  <2> QED
    BY <2>1 DEF Kept, IInv
<1>2. CASE UNCHANGED vars
  <2>1. AnswersOk' /\ AnswerStep
    BY <1>2, SameAnswers DEF IInv, vars
  <2>2. CommandsOk' /\ DriveOk'
    BY <1>2, SameCommand, SameDrive DEF IInv, vars
  <2> QED
    BY <2>1, <2>2 DEF IInv
<1> QED
  BY <1>1, <1>2

LEMMA Invariant == Spec => []IInv
<1>1. IInv /\ [Next]_vars => IInv'
  BY NextKeeps
<1> QED
  BY <1>1, InitInv, PTL DEF Spec

(* Every variable of the controller keeps its type, and no event is taken  *)
(* back that is not there.                                                 *)
THEOREM TypeCorrect == Spec => []TypeOK
BY Invariant, IInvTypes, PTL

(* Answers are delivered one at a time, none waits for nothing, and the    *)
(* interrupt line is current.                                              *)
THEOREM AnswersComeOneByOne == Spec => []OneAnswerAtATime
<1>1. IInv => OneAnswerAtATime
  BY DEF IInv, AnswersOk
<1> QED
  BY <1>1, Invariant, PTL

(* BUSYSTS and the pending events stand for the one command in progress.   *)
THEOREM CommandsComeOneByOne == Spec => []OneCommandAtATime
<1>1. IInv => OneCommandAtATime
  BY DEF IInv, CommandsOk
<1> QED
  BY <1>1, Invariant, PTL

(* Each enabled answer latches an interrupt, however it was delivered.     *)
THEOREM AnswersInterrupt == Spec => EveryAnswerInterrupts
<1>1. IInv /\ [Next]_vars
        => [/\ flags = {} /\ flags' \cap mask # {} => istat'
            /\ \A s \in Slots : Leaves(s) =>
                  /\ flags' = {waiting[s].level}
                  /\ waiting[s].level \in mask => istat']_vars
  BY NextKeeps DEF AnswerStep, Interrupts
<1> QED
  BY <1>1, Invariant, PTL DEF Spec, EveryAnswerInterrupts

(* Answers that wait are delivered in their order of rank.                 *)
THEOREM AnswersKeepTheirOrder == Spec => InOrder
<1>1. IInv /\ [Next]_vars
        => [/\ Leaves("complete") => waiting["ack"] = None
            /\ Leaves("ready") => waiting["ack"] = None /\ waiting["complete"] = None
            /\ flags = {} /\ flags' # {} => \A s \in Slots : waiting[s] = None]_vars
  BY NextKeeps DEF AnswerStep, Ordered
<1> QED
  BY <1>1, Invariant, PTL DEF Spec, InOrder

---------------------------------------------------------------------------
(* What the fairness brings about.  A command that is in progress has one  *)
(* event pending; its start is called, and either ends it or leaves its    *)
(* finish pending; that is called, and ends it.                            *)

Starting == due.start = 1 /\ due.finish = 0
Finishing == due.start = 0 /\ due.finish = 1
Settled == due.start = 0 /\ due.finish = 0

LEMMA OneStage ==
    ASSUME IInv
    PROVE  /\ Starting \/ Finishing \/ Settled
           /\ Starting \/ Finishing => busy
           /\ busy /\ cmd \notin MayHang => Starting \/ Finishing
           /\ due \in [start : Nat, finish : Nat]
BY DEF IInv, CommandsOk, CommandTypes, OneCommandAtATime, Starting, Finishing, Settled

LEMMA StartEnds ==
    ASSUME IInv, Starting, CmdStart
    PROVE  /\ cmd' = cmd
           /\ \/ Settled' /\ (~busy' \/ cmd \in MayHang)
              \/ Finishing' /\ busy' = busy
<1>1. due = [start |-> 1, finish |-> 0]
  BY OneStage DEF Starting
<1>2. cmd' = cmd
  BY DEF CmdStart
<1>3. ASSUME Ends
      PROVE  Settled' /\ ~busy'
  BY <1>1, <1>3 DEF Ends, Settled
<1>4. ASSUME Goes
      PROVE  Finishing' /\ busy' = busy
  <2>1. due' = [due EXCEPT !.start = 0, !.finish = 1]
    <3>1. due.start - 1 = 0 /\ due.finish + 1 = 1
      BY <1>1
    <3> QED
      BY <1>4, <3>1 DEF Goes
  <2> QED
    BY <1>1, <1>4, <2>1 DEF Goes, Finishing
<1>5. ASSUME Hangs
      PROVE  Settled'
  BY <1>1, <1>5 DEF Hangs, Settled
<1>6. CASE StartQuick
  BY <1>2, <1>3, <1>6 DEF StartQuick
<1>7. CASE StartSilent
  BY <1>2, <1>3, <1>5, <1>7 DEF StartSilent, MayHang
<1>8. CASE StartHanging
  BY <1>2, <1>5, <1>8 DEF StartHanging, MayHang
<1>9. CASE StartSetLoc \/ StartPlay \/ StartRead
  BY <1>2, <1>3, <1>9 DEF StartSetLoc, StartPlay, StartRead
<1>10. CASE StartSlow
  BY <1>2, <1>4, <1>10 DEF StartSlow
<1>11. CASE StartGetID \/ StartSetSession
  BY <1>2, <1>3, <1>4, <1>11 DEF StartGetID, StartSetSession
<1> QED
  BY <1>6, <1>7, <1>8, <1>9, <1>10, <1>11 DEF CmdStart

LEMMA FinishEnds ==
    ASSUME IInv, Finishing, CmdFinish
    PROVE  Settled' /\ ~busy'
BY OneStage DEF Finishing, Settled, CmdFinish

(* No other step touches the command, unless software sends another.       *)
NoCommands == \A c \in Commands : ~WriteCmd(c)

LEMMA OthersLeaveCommand ==
    ASSUME IInv, [Next]_vars, ~CmdStart, ~CmdFinish, busy \/ NoCommands \/ UNCHANGED vars
    PROVE  UNCHANGED <<busy, cmd, due>>
<1>1. CASE \E c \in Commands : WriteCmd(c)
  BY <1>1 DEF NoCommands, WriteCmd, vars
<1>2. CASE SchRead \/ Host
  BY <1>2 DEF SchRead, Host, Door
<1>3. CASE \E m \in Masks : WriteMask(m)
  BY <1>3 DEF WriteMask
<1>4. CASE \E seven, error \in BOOLEAN : Clear(seven, error)
  BY <1>4 DEF Clear
<1>5. CASE ClearIstat
  BY <1>5 DEF ClearIstat
<1>6. CASE UNCHANGED vars
  BY <1>6 DEF vars
<1> QED
  BY <1>1, <1>2, <1>3, <1>4, <1>5, <1>6 DEF Next, Software

(* The stages only go forward.                                             *)
LEMMA StagesGoForward ==
    ASSUME IInv, [Next]_vars
    PROVE  /\ Starting => \/ Starting' /\ UNCHANGED <<busy, cmd>>
                          \/ Finishing' /\ UNCHANGED <<busy, cmd>>
                          \/ Settled' /\ (~busy' \/ cmd \in MayHang)
           /\ Finishing => (Finishing' /\ UNCHANGED <<busy, cmd>>) \/ (Settled' /\ ~busy')
           /\ Settled /\ (NoCommands \/ UNCHANGED vars) => Settled'
<1>1. CmdStart => due.start # 0
  BY OneStage DEF CmdStart, StartQuick, StartSilent, StartHanging, StartSetLoc, StartPlay,
                  StartRead, StartSlow, StartGetID, StartSetSession, Ends, Goes, Hangs
<1>2. CmdFinish => due.finish # 0
  BY OneStage DEF CmdFinish
<1>3. CASE Starting
  <2>1. busy /\ ~CmdFinish
    BY <1>2, <1>3, OneStage DEF Starting
  <2>2. CASE CmdStart
    BY <1>3, <2>2, StartEnds DEF CmdStart, Starting, Finishing, Settled
  <2>3. CASE ~CmdStart
    <3>1. UNCHANGED <<busy, cmd, due>>
      BY <2>1, <2>3, OthersLeaveCommand
    <3> QED
      BY <1>3, <3>1 DEF Starting, Finishing, Settled
  <2> QED
    BY <2>2, <2>3
<1>4. CASE Finishing
  <2>1. busy /\ ~CmdStart
    BY <1>1, <1>4, OneStage DEF Finishing
  <2>2. CASE CmdFinish
    BY <1>4, <2>2, FinishEnds DEF Starting, Finishing, Settled
  <2>3. CASE ~CmdFinish
    <3>1. UNCHANGED <<busy, cmd, due>>
      BY <2>1, <2>3, OthersLeaveCommand
    <3> QED
      BY <1>4, <3>1 DEF Starting, Finishing, Settled
  <2> QED
    BY <2>2, <2>3
<1>5. CASE Settled
  <2>1. ~CmdStart /\ ~CmdFinish
    BY <1>1, <1>2, <1>5 DEF Settled
  <2>2. NoCommands \/ UNCHANGED vars => UNCHANGED due
    BY <2>1, OthersLeaveCommand
  <2> QED
    BY <1>5, <2>2 DEF Starting, Finishing, Settled
<1> QED
  BY <1>3, <1>4, <1>5, OneStage

(* Software that waits for BUSYSTS to fall comes back, for every command   *)
(* but those that hang, whatever the drive does meanwhile: the start of    *)
(* the command is called, and then its finish.                             *)
THEOREM CommandsFinish == Spec => BusyEnds
<1> DEFINE Waits == busy /\ cmd \notin MayHang
<1>1. IInv /\ Waits => (Waits /\ Starting) \/ (Waits /\ Finishing)
  BY OneStage
<1>2. IInv /\ Waits /\ Starting /\ [Next]_vars
        => (Waits' /\ Starting') \/ (Waits' /\ Finishing') \/ ~busy'
  BY StagesGoForward
<1>3. IInv /\ Waits /\ Starting /\ <<CmdStart>>_vars => (Waits' /\ Finishing') \/ ~busy'
  BY StartEnds
<1>4. IInv /\ Waits /\ Finishing /\ [Next]_vars => (Waits' /\ Finishing') \/ ~busy'
  BY StagesGoForward
<1>5. IInv /\ Finishing /\ <<CmdFinish>>_vars => ~busy'
  BY FinishEnds
<1>6. (Starting => ~(due.start = 0)) /\ (Finishing => ~(due.finish = 0))
  BY DEF Starting, Finishing
<1>7. Waits => busy
  OBVIOUS
<1> HIDE DEF Waits
<1>8. Spec => (Waits ~> ~busy)
  BY <1>1, <1>2, <1>3, <1>4, <1>5, <1>6, Invariant, PTL DEF Spec, CommandsAreCalled
<1> QED
  BY <1>8 DEF BusyEnds, Waits
(* Once no command is in progress only reads answer, and only the last of  *)
(* the three slots can be filled: acknowledgements empty the other two and *)
(* then the last, one at a time and from the first on.                     *)
WaitsAck == waiting["ack"] # None
WaitsComplete == ~WaitsAck /\ waiting["complete"] # None
WaitsReady == ~WaitsAck /\ ~WaitsComplete /\ waiting["ready"] # None
NoneWaits == \A s \in Slots : waiting[s] = None
Pending == flags # {}

LEMMA SomethingWaits ==
    ASSUME IInv
    PROVE  /\ WaitsAck \/ WaitsComplete \/ WaitsReady \/ NoneWaits
           /\ WaitsAck \/ WaitsComplete \/ WaitsReady => ~NoneWaits /\ Pending
           /\ ~NoneWaits <=> \E s \in Slots : waiting[s] # None
BY DEF IInv, AnswersOk, OneAnswerAtATime, WaitsAck, WaitsComplete, WaitsReady, NoneWaits, Pending,
       Slots

LEMMA SlotsAreEmptied ==
    ASSUME IInv, [Next]_vars, Settled, NoCommands \/ UNCHANGED vars
    PROVE  /\ WaitsAck' => WaitsAck
           /\ ~WaitsAck /\ WaitsComplete' => WaitsComplete
<1> SUFFICES /\ waiting'["ack"] # None => waiting["ack"] # None
             /\ waiting'["complete"] # None => waiting["complete"] # None
  BY DEF WaitsAck, WaitsComplete
<1>0. waiting \in [Slots -> Answers \cup {None}]
  BY DEF IInv, AnswersOk, AnswerTypes
<1>1. ~CmdStart /\ ~CmdFinish
  BY OneStage DEF Settled, CmdStart, CmdFinish, StartQuick, StartSilent, StartHanging,
                  StartSetLoc, StartPlay, StartRead, StartSlow, StartGetID, StartSetSession,
                  Ends, Goes, Hangs
<1>2. CASE SchRead
  <2>1. waiting' = waiting \/ waiting' = Queued(1, "stat")
    BY <1>2 DEF SchRead, Result, answerVars
  <2> QED
    BY <1>0, <2>1 DEF Queued, SlotOf, Slots
<1>3. CASE \E seven, error \in BOOLEAN : Clear(seven, error)
  <2>1. waiting' = waiting \/ waiting' = [waiting EXCEPT ![FirstWaiting] = None]
    BY <1>3 DEF Clear, Deliver
  <2> HIDE DEF FirstWaiting
  <2> QED
    BY <1>0, <2>1 DEF Slots
<1>4. CASE ~SchRead /\ ~\E seven, error \in BOOLEAN : Clear(seven, error)
  <2>1. waiting' = waiting
    BY <1>1, <1>4 DEF Next, Software, NoCommands, WriteMask, ClearIstat, Host, Door,
                      answerVars, vars
  <2> QED
    BY <2>1
<1> QED
  BY <1>2, <1>3, <1>4

LEMMA AcknowledgementDelivers ==
    ASSUME IInv, Acknowledge
    PROVE  /\ WaitsAck => ~WaitsAck'
           /\ WaitsComplete => ~WaitsComplete'
           /\ WaitsReady => ~WaitsReady'
<1>0. AnswersOk /\ waiting \in [Slots -> Answers \cup {None}]
  BY DEF IInv, AnswersOk, AnswerTypes
<1>1. Left(TRUE, FALSE) = {}
  <2>1. \A k, l \in flags : l <= k
    BY <1>0 DEF AnswersOk, AnswerTypes, OneAnswerAtATime, Levels
  <2>2. {l \in flags : \A k \in flags : l <= k} = flags
    BY <2>1
  <2>3. Left(TRUE, FALSE) \subseteq flags \ {l \in flags : \A k \in flags : l <= k}
    BY DEF Left
  <2> QED
    BY <2>2, <2>3
<1>2. ASSUME ~NoneWaits
      PROVE  waiting' = [waiting EXCEPT ![FirstWaiting] = None]
  BY <1>0, <1>1, <1>2, FirstWaitingIsFirst DEF Acknowledge, Clear, Deliver, NoneWaits
<1>3. WaitsAck \/ WaitsComplete \/ WaitsReady => ~NoneWaits
  BY SomethingWaits
<1> QED
  BY <1>0, <1>2, <1>3 DEF FirstWaiting, WaitsAck, WaitsComplete, WaitsReady, Slots

(* From some time on no command is in progress, if software sends no more. *)
LEMMA CommandsSettle == Spec /\ <>[][NoCommands]_vars => <>[]Settled
<1>1. IInv => Starting \/ Finishing \/ Settled
  BY OneStage
<1>2. IInv /\ [Next]_vars
        => /\ Starting => Starting' \/ Finishing' \/ Settled'
           /\ Finishing => Finishing' \/ Settled'
           /\ Settled /\ [NoCommands]_vars => Settled'
  BY StagesGoForward
<1>3. IInv /\ <<CmdStart>>_vars /\ Starting => Finishing' \/ Settled'
  BY StartEnds
<1>4. IInv /\ <<CmdFinish>>_vars /\ Finishing => Settled'
  BY FinishEnds
<1>5. /\ Starting => ~(due.start = 0) /\ ~Finishing /\ ~Settled
      /\ Finishing => ~(due.finish = 0) /\ ~Settled
  BY DEF Starting, Finishing, Settled
<1> QED
  BY <1>1, <1>2, <1>3, <1>4, <1>5, Invariant, PTL DEF Spec, CommandsAreCalled

(* Software that goes on acknowledging and sends no more commands gets     *)
(* every answer that waits: while one waits an answer is pending, whose    *)
(* acknowledgement delivers the first of those that wait.                  *)
THEOREM WaitingAnswersComeOut == Spec => AnswersComeOut
<1> DEFINE Acknowledges == []<>(flags = {}) \/ []<><<Acknowledge>>_vars
<1>1. IInv => /\ WaitsAck \/ WaitsComplete \/ WaitsReady \/ NoneWaits
              /\ WaitsAck \/ WaitsComplete \/ WaitsReady => ~NoneWaits /\ ~(flags = {})
              /\ ~NoneWaits <=> \E s \in Slots : waiting[s] # None
  BY SomethingWaits DEF Pending
<1>2. /\ WaitsComplete => ~WaitsAck
      /\ WaitsReady => ~WaitsAck /\ ~WaitsComplete
  BY DEF WaitsComplete, WaitsReady
<1>3. IInv /\ [Next]_vars /\ Settled /\ [NoCommands]_vars
        => (WaitsAck' => WaitsAck) /\ (~WaitsAck /\ WaitsComplete' => WaitsComplete)
  BY SlotsAreEmptied
<1>4. IInv /\ <<Acknowledge>>_vars
        => /\ WaitsAck => ~WaitsAck'
           /\ WaitsComplete => ~WaitsComplete'
           /\ WaitsReady => ~WaitsReady'
  BY AcknowledgementDelivers
<1>5. Spec /\ <>[][NoCommands]_vars /\ Acknowledges => []<>NoneWaits
  BY <1>1, <1>2, <1>3, <1>4, CommandsSettle, Invariant, PTL DEF Spec
<1>6. Spec /\ <>[][NoCommands]_vars /\ Acknowledges
        => ((\E s \in Slots : waiting[s] # None) ~> NoneWaits)
  BY <1>5, PTL
<1> QED
  BY <1>6 DEF AnswersComeOut, NoneWaits, NoCommands
=============================================================================
