------------------------------- MODULE Ps1Sio -------------------------------
(* The PlayStation's serial port SIO0 with a digital pad and a memory card   *)
(* on its first connector: system/ps1/peripheral/.  The CPU writes a byte,   *)
(* an event exchanges it with whoever is selected, and the device that takes *)
(* it raises and lowers the acknowledge line by two more events.  All three  *)
(* are scheduled with nobody waiting for the ones before: any number of each *)
(* is pending, and chip select moves meanwhile.  Delays follow the baud rate *)
(* that software sets, so pending events are counted and come in any order.  *)
EXTENDS Integers, Sequences, Functions

CONSTANTS
    Controls,    \* values of SIO_CTRL that software writes
    Bytes,       \* what software sends: Address, Command or any other
    FifoSize,    \* bytes of the receive FIFO (8)
    MaxPending   \* bound: events pending at once

VARIABLES
    ctrl,        \* io.SIO_CTRL
    fifo,        \* io.RX_FIFO: head, tail and num
    stat,        \* io.SIO_STAT
    rxSignal,    \* irq.rx_signal
    line,        \* the input of the IRQ multiplexer
    istat,       \* its latched bit, in I_STAT
    dev,         \* CS, ACK and protocol state of each device
    exchanging,  \* bytes whose exchange is pending
    raising,     \* acknowledges of each device yet to be raised
    lowering     \* and yet to be lowered

irqVars == <<line, istat>>
pending == <<exchanging, raising, lowering>>
vars == <<ctrl, fifo, stat, rxSignal, irqVars, dev, pending>>

Devices == {"pad", "card"}
Address == [pad |-> "x01", card |-> "x81"]
Command == "command"    \* one that the addressed device knows
LastStep == 5           \* every later byte is treated alike
Thresholds == {1, 2, 4, 8}

Control == [dtr : BOOLEAN, sel : {0, 1}, tx : BOOLEAN, rx : BOOLEAN,
            threshold : Thresholds, rxIrq : BOOLEAN, dsrIrq : BOOLEAN]

ASSUME ControlsAssumption == Controls \subseteq Control
ASSUME BytesAssumption == {Address["pad"], Address["card"], Command} \subseteq Bytes
ASSUME FifoAssumption == FifoSize \in Nat \ {0}
ASSUME PendingAssumption == MaxPending \in Nat \ {0}

(* One type invariant: the FIFO's indices and its length keep to its size.   *)
TypeOK ==
    /\ ctrl \in Control
    /\ fifo \in [head : 0..FifoSize-1, tail : 0..FifoSize-1, num : 0..FifoSize]
    /\ stat \in [dsr : BOOLEAN, idle : BOOLEAN, notEmpty : BOOLEAN, request : BOOLEAN]
    /\ rxSignal \in BOOLEAN /\ line \in BOOLEAN /\ istat \in BOOLEAN
    /\ dev \in [Devices -> [cs : BOOLEAN, ack : BOOLEAN, selected : BOOLEAN,
                            step : 0..LastStep, known : BOOLEAN]]
    /\ exchanging \in [Bytes -> Nat]
    /\ raising \in [Devices -> Nat]
    /\ lowering \in [Devices -> Nat]

Init ==
    /\ ctrl = [dtr |-> FALSE, sel |-> 0, tx |-> FALSE, rx |-> FALSE,
               threshold |-> 1, rxIrq |-> FALSE, dsrIrq |-> FALSE]
    /\ fifo = [head |-> 0, tail |-> 0, num |-> 0]
    /\ stat = [dsr |-> FALSE, idle |-> TRUE, notEmpty |-> FALSE, request |-> FALSE]
    /\ rxSignal = FALSE /\ line = FALSE /\ istat = FALSE
    /\ dev = [d \in Devices |-> [cs |-> FALSE, ack |-> FALSE, selected |-> FALSE,
                                 step |-> 0, known |-> FALSE]]
    /\ exchanging = [b \in Bytes |-> 0]
    /\ raising = [d \in Devices |-> 0]
    /\ lowering = [d \in Devices |-> 0]

-----------------------------------------------------------------------------
(* Signals.                                                                  *)

(* set_irq, called with each of the levels and then with the last one: a     *)
(* rising edge latches.                                                      *)
Drive(levels, last) ==
    LET all == levels \o <<last>>
    IN  /\ line' = last
        /\ istat' = (istat \/ \E i \in DOMAIN all :
                                  all[i] /\ ~(IF i = 1 THEN line ELSE all[i - 1]))

(* What update_IRQs works out from SIO_CTRL c.                               *)
Signal(c, rs, dsr) == (c.rxIrq /\ rs) \/ (c.dsrIrq /\ dsr)

RxSignal(f, c) == f.num >= c.threshold

-----------------------------------------------------------------------------
(* Chip select.                                                              *)

(* set_CS of a device: a change ends its transaction, and its acknowledge.   *)
(* What it has scheduled stays.                                              *)
SetCs(v, level) ==
    IF v.cs = level THEN v
    ELSE [v EXCEPT !.cs = level, !.selected = FALSE, !.step = 0,
                   !.ack = level /\ v.ack]

(* send_DTR to a port: only the first one has devices.                       *)
SendDtr(devs, port, level) ==
    IF port = 0 THEN [d \in Devices |-> SetCs(devs[d], level)] ELSE devs

(* The port that is left is deselected before the other is told.             *)
SelectedBy(c) ==
    IF c.dtr = ctrl.dtr /\ c.sel = ctrl.sel THEN dev
    ELSE LET left == IF c.sel # ctrl.sel THEN SendDtr(dev, ctrl.sel, FALSE) ELSE dev
         IN  SendDtr(left, c.sel, c.dtr)

(* dsr_input after a write that ends acknowledges.  For the card update_ACKs *)
(* holds on to the acknowledge that ends, the new level being put by mistake *)
(* in the variable of the second pad; the pad, told next, puts it right.     *)
Ended(new, d) == dev[d].ack /\ dev[d].cs /\ ~new[d].cs
DsrAfter(new) ==
    CASE Ended(new, "pad") -> new["card"].ack
      [] Ended(new, "card") /\ ~Ended(new, "pad") -> TRUE
      [] OTHER -> stat.dsr

(* The levels that update_ACKs drives on the way.                            *)
OnTheWay(new, c) ==
    (IF Ended(new, "card") THEN <<Signal(c, rxSignal, TRUE)>> ELSE <<>>)
    \o (IF Ended(new, "pad") THEN <<Signal(c, rxSignal, new["card"].ack)>> ELSE <<>>)

(* write_ctrl, with or without the acknowledge bit.                          *)
WriteCtrl(c, ack) ==
    LET new == SelectedBy(c)
        levels == OnTheWay(new, c)
        signal == Signal(c, rxSignal', DsrAfter(new))
    IN  /\ ctrl' = c
        /\ dev' = new
        /\ fifo' = IF ctrl.rx /\ ~c.rx THEN [head |-> 0, tail |-> 0, num |-> 0] ELSE fifo
        /\ rxSignal' = RxSignal(fifo', c)
        /\ stat' = [stat EXCEPT
                      !.dsr = DsrAfter(new),
                      !.notEmpty = fifo'.num > 0,
                      !.request = \/ signal
                                  \/ ~ack /\ (stat.request \/ \E i \in DOMAIN levels : levels[i])]
        /\ Drive(IF ack THEN levels \o <<FALSE>> ELSE levels, signal)
        /\ UNCHANGED pending

-----------------------------------------------------------------------------
(* Exchanging a byte.                                                        *)

(* RX_FIFO::push: the newest byte makes room in a full FIFO.                 *)
PushedPastEnd(f) ==    \* faulty: a full FIFO grows
    [f EXCEPT !.num = @ + 1, !.tail = (@ + 1) % FifoSize]
PushedOver(f) ==    \* faulty: a full FIFO keeps its length and moves its tail
    [f EXCEPT !.num = IF @ = FifoSize THEN @ ELSE @ + 1, !.tail = (@ + 1) % FifoSize]
Pushed(f) ==
    IF f.num = FifoSize THEN f
    ELSE [f EXCEPT !.num = @ + 1, !.tail = (@ + 1) % FifoSize]

(* exchange_byte of device d: the protocol counts bytes that are not for it. *)
Addressed(d, b) == dev[d].cs /\ dev[d].step = 0 /\ b = Address[d]
Listens(d) == dev[d].cs /\ dev[d].selected
ExchangedUncounted(d, b) ==    \* faulty: bytes for others are not counted
    IF ~Listens(d) /\ ~Addressed(d, b) THEN dev[d]
    ELSE [dev[d] EXCEPT
            !.selected = TRUE,
            !.known = IF Listens(d) /\ dev[d].step = 1 THEN b = Command ELSE @,
            !.step = IF @ < LastStep THEN @ + 1 ELSE @]
Exchanged(d, b) ==
    IF ~dev[d].cs THEN dev[d]
    ELSE [dev[d] EXCEPT
            !.selected = @ \/ Addressed(d, b),
            !.known = IF Listens(d) /\ dev[d].step = 1 THEN b = Command ELSE @,
            !.step = IF @ < LastStep THEN @ + 1 ELSE @]

(* Whether it will acknowledge the byte.  A card that knows the command does *)
(* so for every byte of the sector but the last one.                         *)
MayAck(d, b) ==
    \/ Addressed(d, b)
    \/ /\ Listens(d)
       /\ \/ dev[d].step = 1 /\ b = Command
          \/ d = "pad" /\ dev[d].step \in {2, 3}
          \/ d = "card" /\ dev[d].step > 1 /\ dev[d].known
MustAck(d, b) == MayAck(d, b) /\ ~(d = "card" /\ dev[d].step > 1)

(* scheduled_exchange_byte with SIO_CTRL c.                                  *)
DoExchangeOrReturn(b, c) ==    \* faulty: returns with the receiver off
    /\ c.rx \/ c.dtr
       => /\ fifo' = Pushed(fifo)
          /\ rxSignal' = RxSignal(fifo', c)
          /\ Drive(<<>>, Signal(c, rxSignal', stat.dsr))
          /\ stat' = [stat EXCEPT !.idle = TRUE, !.notEmpty = fifo'.num > 0,
                                  !.request = @ \/ line']
    /\ ~(c.rx \/ c.dtr) => UNCHANGED <<fifo, rxSignal, irqVars, stat>>
    /\ dev' = [d \in Devices |-> Exchanged(d, b)]
    /\ raising' = [d \in Devices |-> raising[d] + (IF MayAck(d, b) THEN 1 ELSE 0)]
    /\ UNCHANGED lowering
DoExchange(b, c) ==
    /\ dev' = [d \in Devices |-> Exchanged(d, b)]
    /\ \E acks \in SUBSET {d \in Devices : MayAck(d, b)} :
          /\ {d \in Devices : MustAck(d, b)} \subseteq acks
          /\ raising' = [d \in Devices |-> raising[d] + (IF d \in acks THEN 1 ELSE 0)]
    /\ fifo' = IF c.rx \/ c.dtr THEN Pushed(fifo) ELSE fifo
    /\ IF c.rx \/ c.dtr
       THEN /\ rxSignal' = RxSignal(fifo', c)
            /\ Drive(<<>>, Signal(c, rxSignal', stat.dsr))
            /\ stat' = [stat EXCEPT !.idle = TRUE, !.notEmpty = fifo'.num > 0,
                                    !.request = @ \/ line']
       ELSE /\ UNCHANGED <<rxSignal, irqVars>>
            /\ stat' = [stat EXCEPT !.idle = TRUE, !.notEmpty = fifo'.num > 0]
    /\ UNCHANGED lowering

(* write_tx_data enables the receiver; with the baud rate still 0 the event  *)
(* is due at once, and its function runs inside the call.                    *)
Room ==
    SumFunction(exchanging) + SumFunction(raising) + SumFunction(lowering) < MaxPending
WriteTx(b) ==
    /\ ctrl.tx
    /\ Room
    /\ ctrl' = [ctrl EXCEPT !.rx = TRUE]
    /\ \/ /\ DoExchange(b, ctrl')
          /\ UNCHANGED exchanging
       \/ /\ stat' = [stat EXCEPT !.idle = FALSE]
          /\ exchanging' = [exchanging EXCEPT ![b] = @ + 1]
          /\ UNCHANGED <<fifo, rxSignal, irqVars, dev, raising, lowering>>

(* The event.                                                                *)
Exchange(b) ==
    /\ exchanging[b] > 0
    /\ exchanging' = [exchanging EXCEPT ![b] = @ - 1]
    /\ DoExchange(b, ctrl)
    /\ UNCHANGED ctrl

(* read_rx_data.                                                             *)
ReadRxQuiet ==    \* faulty: the signal is left as it was
    /\ fifo' = IF fifo.num = 0 THEN fifo
               ELSE [fifo EXCEPT !.num = @ - 1, !.head = (@ + 1) % FifoSize]
    /\ stat' = [stat EXCEPT !.notEmpty = fifo'.num > 0]
    /\ UNCHANGED <<ctrl, rxSignal, irqVars, dev, pending>>
ReadRx ==
    /\ fifo' = IF fifo.num = 0 THEN fifo
               ELSE [fifo EXCEPT !.num = @ - 1, !.head = (@ + 1) % FifoSize]
    /\ rxSignal' = RxSignal(fifo', ctrl)
    /\ Drive(<<>>, Signal(ctrl, rxSignal', stat.dsr))
    /\ stat' = [stat EXCEPT !.notEmpty = fifo'.num > 0, !.request = @ \/ line']
    /\ UNCHANGED <<ctrl, dev, pending>>

(* The CPU acknowledges the interrupt in I_STAT.                             *)
ClearIstat ==
    /\ istat' = FALSE
    /\ UNCHANGED <<ctrl, fifo, stat, rxSignal, line, dev, pending>>

-----------------------------------------------------------------------------
(* The acknowledge line: scheduler_call of a device, then update_ACKs.       *)

Acked(d, level) == level \/ \E e \in Devices \ {d} : dev[e].ack

(* Raised; lowered in the same call when the event comes so late that the    *)
(* other one is due.                                                         *)
Raise(d) ==
    /\ raising[d] > 0
    /\ raising' = [raising EXCEPT ![d] = @ - 1]
    /\ \E late \in BOOLEAN :
          LET signal == Signal(ctrl, rxSignal, TRUE)
              after == Acked(d, ~late)
          IN  /\ dev' = [dev EXCEPT ![d].ack = ~late]
              /\ stat' = [stat EXCEPT !.dsr = after, !.request = @ \/ signal]
              /\ Drive(<<signal>>, Signal(ctrl, rxSignal, after))
              /\ lowering' = [lowering EXCEPT ![d] = IF late THEN @ ELSE @ + 1]
    /\ UNCHANGED <<ctrl, fifo, rxSignal, exchanging>>

LowerIfSelected(d) ==    \* faulty: not for a device that is deselected
    /\ lowering[d] > 0
    /\ lowering' = [lowering EXCEPT ![d] = @ - 1]
    /\ dev' = [dev EXCEPT ![d].ack = @ /\ ~dev[d].cs]
    /\ Drive(<<>>, Signal(ctrl, rxSignal, Acked(d, dev'[d].ack)))
    /\ stat' = [stat EXCEPT !.dsr = Acked(d, dev'[d].ack), !.request = @ \/ line']
    /\ UNCHANGED <<ctrl, fifo, rxSignal, exchanging, raising>>
Lower(d) ==
    /\ lowering[d] > 0
    /\ lowering' = [lowering EXCEPT ![d] = @ - 1]
    /\ dev' = [dev EXCEPT ![d].ack = FALSE]
    /\ Drive(<<>>, Signal(ctrl, rxSignal, Acked(d, FALSE)))
    /\ stat' = [stat EXCEPT !.dsr = Acked(d, FALSE), !.request = @ \/ line']
    /\ UNCHANGED <<ctrl, fifo, rxSignal, exchanging, raising>>

-----------------------------------------------------------------------------
Cpu ==
    \/ \E c \in Controls, ack \in BOOLEAN : WriteCtrl(c, ack)
    \/ \E b \in Bytes : WriteTx(b)
    \/ ReadRx
    \/ ClearIstat

Next ==
    \/ Cpu
    \/ \E b \in Bytes : Exchange(b)
    \/ \E d \in Devices : Raise(d) \/ Lower(d)

(* The scheduler calls every event in its time.  This is weak fairness, with *)
(* what enables the functions spelled out: each can be called whenever it is *)
(* pending.  Which of the pending bytes goes first is left open.             *)
BytesAreExchanged ==
    []<>(\A b \in Bytes : exchanging[b] = 0) \/ []<><<\E b \in Bytes : Exchange(b)>>_vars
AcksAreRaised(d) == []<>(raising[d] = 0) \/ []<><<Raise(d)>>_vars
AcksAreLowered(d) == []<>(lowering[d] = 0) \/ []<><<Lower(d)>>_vars
EventsAreCalled ==
    /\ BytesAreExchanged
    /\ AcksAreRaised("pad") /\ AcksAreRaised("card")
    /\ AcksAreLowered("pad") /\ AcksAreLowered("card")

Spec == Init /\ [][Next]_vars /\ EventsAreCalled

-----------------------------------------------------------------------------
(* Properties.                                                               *)

(* A device is selected by CTRL and by nothing else, whatever order the port *)
(* and the select line change in; of the devices on the port only the one    *)
(* that the first byte was for answers, and only while it is selected.       *)
OneAnswers ==
    /\ \A d \in Devices : /\ dev[d].cs = (ctrl.dtr /\ ctrl.sel = 0)
                          /\ dev[d].selected => dev[d].cs
    /\ ~(dev["pad"].selected /\ dev["card"].selected)

(* Interrupt and status follow FIFO, acknowledge line and CTRL.              *)
SignalsAreCurrent ==
    /\ rxSignal <=> RxSignal(fifo, ctrl)
    /\ stat.notEmpty <=> fifo.num > 0
    /\ line <=> Signal(ctrl, rxSignal, stat.dsr)
    /\ line => stat.request

(* The receive FIFO's indices agree when it is full, emptied and cleared.    *)
FifoAgrees == fifo.tail = (fifo.head + fifo.num) % FifoSize

(* An acknowledge that is up has its end scheduled, whatever was exchanged   *)
(* or deselected meanwhile; so has a byte that software waits for.           *)
EndsAreScheduled ==
    /\ \A d \in Devices : dev[d].ack => lowering[d] > 0
    /\ stat.dsr => \E d \in Devices : lowering[d] > 0
    /\ ~stat.idle => \E b \in Bytes : exchanging[b] > 0

(* A program that polls for the end of a byte, or of an acknowledge, comes   *)
(* back, though more of them may be under way.                               *)
PollsEnd ==
    /\ ~stat.idle ~> stat.idle
    /\ dev["pad"].ack ~> ~dev["pad"].ack
    /\ dev["card"].ack ~> ~dev["card"].ack

(* Bit 7 of SIO_STAT is the acknowledge line.                                *)
DsrShowsAck == stat.dsr = \E d \in Devices : dev[d].ack
=============================================================================
