---------------------------- MODULE Ps1SioProofs ----------------------------
(***************************************************************************)
(* Proofs about Ps1Sio, for any FIFO size, register values, bytes and      *)
(* number of pending events.                                               *)
(*                                                                         *)
(* That only one device answers needs that both have counted the same      *)
(* bytes since they were selected, so that the second one to see its       *)
(* address no longer takes it for the first byte (DevicesOk).              *)
(***************************************************************************)
EXTENDS Ps1Sio, TLAPS

Device == [cs : BOOLEAN, ack : BOOLEAN, selected : BOOLEAN, step : 0..LastStep, known : BOOLEAN]

DevicesOk(v, c) ==
    /\ v \in [Devices -> Device]
    /\ \A d \in Devices : /\ v[d].cs = (c.dtr /\ c.sel = 0)
                          /\ v[d].selected => v[d].cs /\ v[d].step > 0
    /\ v["pad"].step = v["card"].step
    /\ ~(v["pad"].selected /\ v["card"].selected)

FifoOk(f) ==
    /\ f \in [head : 0..FifoSize-1, tail : 0..FifoSize-1, num : 0..FifoSize]
    /\ f.tail = (f.head + f.num) % FifoSize

Stat == [dsr : BOOLEAN, idle : BOOLEAN, notEmpty : BOOLEAN, request : BOOLEAN]

(* Status s, signal r and line l follow FIFO f and CTRL c.                 *)
StatusOk(s, r, l, f, c) ==
    /\ s \in Stat /\ r \in BOOLEAN /\ l \in BOOLEAN
    /\ r <=> RxSignal(f, c)
    /\ s.notEmpty <=> f.num > 0
    /\ l <=> Signal(c, r, s.dsr)
    /\ l => s.request

CountsOk(e, r, l) ==
    e \in [Bytes -> Nat] /\ r \in [Devices -> Nat] /\ l \in [Devices -> Nat]

EndsOk(v, s, e, l) ==
    /\ \A d \in Devices : v[d].ack => l[d] > 0
    /\ s.dsr => \E d \in Devices : l[d] > 0
    /\ ~s.idle => \E b \in Bytes : e[b] > 0

IInv ==
    /\ ctrl \in Control /\ istat \in BOOLEAN
    /\ DevicesOk(dev, ctrl)
    /\ FifoOk(fifo)
    /\ StatusOk(stat, rxSignal, line, fifo, ctrl)
    /\ CountsOk(exchanging, raising, lowering)
    /\ EndsOk(dev, stat, exchanging, lowering)

LEMMA InvNext ==
    ASSUME ctrl' \in Control, istat' \in BOOLEAN, DevicesOk(dev', ctrl'), FifoOk(fifo'),
           StatusOk(stat', rxSignal', line', fifo', ctrl'),
           CountsOk(exchanging', raising', lowering'),
           EndsOk(dev', stat', exchanging', lowering')
    PROVE  IInv'
BY DEF IInv, DevicesOk, FifoOk, StatusOk, CountsOk, EndsOk, RxSignal, Signal

LEMMA InitInv == Init => IInv
<1> SUFFICES ASSUME Init PROVE IInv
  OBVIOUS
<1>1. 0 \in 0..LastStep /\ 0 \in 0..FifoSize-1 /\ 0 \in 0..FifoSize /\ 0 % FifoSize = 0
  BY FifoAssumption DEF LastStep
<1>2. ctrl \in Control
  BY DEF Init, Control, Thresholds
<1>3. DevicesOk(dev, ctrl)
  BY <1>1 DEF Init, DevicesOk, Device, Devices
<1>4. FifoOk(fifo)
  BY <1>1 DEF Init, FifoOk
<1>5. StatusOk(stat, rxSignal, line, fifo, ctrl)
  <2>1. ~RxSignal(fifo, ctrl) /\ ~(fifo.num > 0)
    BY DEF Init, RxSignal
  <2>2. ~Signal(ctrl, rxSignal, stat.dsr)
    BY DEF Init, Signal
  <2> QED
    BY <2>1, <2>2 DEF Init, StatusOk, Stat
<1> QED
  BY <1>2, <1>3, <1>4, <1>5 DEF Init, IInv, CountsOk, EndsOk, Devices

----------------------------------------------------------------------------
(* Helpers.                                                                *)

(* The line goes where set_irq was told last.                              *)
LEMMA Driven ==
    ASSUME NEW levels, NEW last \in BOOLEAN, istat \in BOOLEAN, Drive(levels, last)
    PROVE  line' = last /\ istat' \in BOOLEAN
BY DEF Drive

LEMMA SignalIsBoolean ==
    ASSUME NEW c \in Control, NEW r \in BOOLEAN, NEW s \in BOOLEAN
    PROVE  Signal(c, r, s) \in BOOLEAN
BY DEF Signal, Control

LEMMA PushedOk == ASSUME NEW f, FifoOk(f) PROVE FifoOk(Pushed(f))
<1>1. CASE f.num = FifoSize
  BY <1>1 DEF Pushed
<1>2. CASE f.num # FifoSize
  <2> DEFINE h == f.head
             t == f.tail
             n == f.num
             g == Pushed(f)
  <2>1. /\ h \in 0..FifoSize-1 /\ t \in 0..FifoSize-1 /\ n \in 0..FifoSize-1
        /\ FifoSize \in Nat \ {0} /\ t = (h + n) % FifoSize
    BY <1>2, FifoAssumption DEF FifoOk
  <2>2. /\ g.head = h /\ g.num = n + 1 /\ g.tail = (t + 1) % FifoSize
        /\ g = [head |-> h, tail |-> (t + 1) % FifoSize, num |-> n + 1]
    BY <1>2 DEF Pushed, FifoOk
  <2> HIDE DEF h, t, n, g
  <2>3. (t + 1) % FifoSize = (h + (n + 1)) % FifoSize
    <3>1. CASE h + n < FifoSize
      <4>1. t = h + n
        BY <2>1, <3>1
      <4> QED
        BY <4>1, <2>1
    <3>2. CASE h + n >= FifoSize
      <4>1. t = h + n - FifoSize
        BY <2>1, <3>2
      <4>2. t + 1 < FifoSize
        BY <4>1, <2>1
      <4>3. (t + 1) % FifoSize = t + 1
        BY <4>2, <2>1
      <4>4. (h + (n + 1)) % FifoSize = h + (n + 1) - FifoSize
        BY <4>1, <4>2, <2>1
      <4> QED
        BY <4>1, <4>3, <4>4, <2>1
    <3> QED
      BY <3>1, <3>2, <2>1
  <2>4. (t + 1) % FifoSize \in 0..FifoSize-1 /\ n + 1 \in 0..FifoSize
    BY <2>1
  <2>5. FifoOk(g)
    BY <2>1, <2>2, <2>3, <2>4 DEF FifoOk
  <2> QED
    BY <2>5 DEF g
<1> QED
  BY <1>1, <1>2

LEMMA PoppedOk ==
    ASSUME NEW f, FifoOk(f), f.num # 0
    PROVE  FifoOk([f EXCEPT !.num = @ - 1, !.head = (@ + 1) % FifoSize])
<1> DEFINE h == f.head
           t == f.tail
           n == f.num
           g == [f EXCEPT !.num = @ - 1, !.head = (@ + 1) % FifoSize]
<1>1. /\ h \in 0..FifoSize-1 /\ t \in 0..FifoSize-1 /\ n \in 1..FifoSize
      /\ FifoSize \in Nat \ {0} /\ t = (h + n) % FifoSize
  BY FifoAssumption DEF FifoOk
<1>2. g = [head |-> (h + 1) % FifoSize, tail |-> t, num |-> n - 1]
  <2>1. f \in [head : 0..FifoSize-1, tail : 0..FifoSize-1, num : 0..FifoSize]
    BY DEF FifoOk
  <2> DEFINE x == (f.head + 1) % FifoSize
  <2>2. g = [f EXCEPT !.num = f.num - 1, !.head = x]
    OBVIOUS
  <2> HIDE DEF x, g
  <2>3. g = [head |-> x, tail |-> f.tail, num |-> f.num - 1]
    BY <2>1, <2>2
  <2> QED
    BY <2>3 DEF x
<1> HIDE DEF h, t, n, g
<1>3. (h + 1) % FifoSize \in 0..FifoSize-1 /\ n - 1 \in 0..FifoSize
  BY <1>1
<1>4. t = (((h + 1) % FifoSize) + (n - 1)) % FifoSize
  <2>1. CASE h + 1 < FifoSize
    <3>1. (h + 1) % FifoSize = h + 1
      BY <1>1, <2>1
    <3>2. h + 1 + (n - 1) = h + n
      BY <1>1
    <3> QED
      BY <1>1, <3>1, <3>2
  <2>2. CASE h + 1 = FifoSize
    <3>1. (h + 1) % FifoSize = 0
      BY <1>1, <2>2
    <3>2. (0 + (n - 1)) % FifoSize = n - 1
      BY <1>1
    <3>3. (h + n) % FifoSize = n - 1
      <4>1. h + n = FifoSize + (n - 1) /\ h + n \in FifoSize..2*FifoSize-1
        BY <1>1, <2>2
      <4> QED
        BY <4>1, <1>1
    <3> QED
      BY <1>1, <3>1, <3>2, <3>3
  <2> QED
    BY <1>1, <2>1, <2>2
<1>5. FifoOk(g)
  BY <1>1, <1>2, <1>3, <1>4 DEF FifoOk
<1> QED
  BY <1>5 DEF g

(* set_CS and send_DTR.                                                    *)
LEMMA CsIsSet ==
    ASSUME NEW v \in Device, NEW level \in BOOLEAN, v.selected => v.cs /\ v.step > 0
    PROVE  LET w == SetCs(v, level)
           IN  /\ w \in Device /\ w.cs = level
               /\ w.selected => w.cs /\ w.step > 0 /\ v.selected
               /\ w.step = IF v.cs = level THEN v.step ELSE 0
               /\ w.ack => v.ack
<1> DEFINE w == SetCs(v, level)
<1>1. CASE v.cs = level
  BY <1>1 DEF SetCs
<1>2. CASE v.cs # level
  <2>1. (level /\ v.ack) \in BOOLEAN /\ ((level /\ v.ack) => v.ack) /\ 0 \in 0..LastStep
    BY DEF Device, LastStep
  <2>2. w = [v EXCEPT !.cs = level, !.selected = FALSE, !.step = 0, !.ack = level /\ v.ack]
    BY <1>2 DEF SetCs
  <2>3. /\ w \in Device /\ w.cs = level /\ w.selected = FALSE /\ w.step = 0
        /\ w.ack = (level /\ v.ack)
    <3> HIDE DEF w
    <3> QED
      BY <2>1, <2>2 DEF Device
  <2> HIDE DEF w
  <2>4. QED
    BY <1>2, <2>1, <2>3 DEF w
<1> QED
  BY <1>1, <1>2

LEMMA SelectedOk ==
    ASSUME DevicesOk(dev, ctrl), ctrl \in Control, NEW c \in Control
    PROVE  /\ DevicesOk(SelectedBy(c), c)
           /\ \A d \in Devices : SelectedBy(c)[d].ack => dev[d].ack
<1> DEFINE Sound(v, level) ==
              /\ v \in [Devices -> Device]
              /\ \A d \in Devices : /\ v[d].cs = level
                                    /\ v[d].selected => v[d].cs /\ v[d].step > 0
                                    /\ v[d].ack => dev[d].ack
              /\ v["pad"].step = v["card"].step
              /\ ~(v["pad"].selected /\ v["card"].selected)
<1>0. "pad" \in Devices /\ "card" \in Devices
  BY DEF Devices
<1>1. Sound(dev, ctrl.dtr /\ ctrl.sel = 0)
  BY DEF DevicesOk
<1>2. /\ ctrl.dtr \in BOOLEAN /\ ctrl.sel \in {0, 1}
      /\ c.dtr \in BOOLEAN /\ c.sel \in {0, 1}
  BY DEF Control
<1>3. ASSUME NEW v, NEW old \in BOOLEAN, Sound(v, old), NEW level \in BOOLEAN
      PROVE  Sound(SendDtr(v, 0, level), level)
  <2> DEFINE w == SendDtr(v, 0, level)
  <2>1. w = [d \in Devices |-> SetCs(v[d], level)]
    BY DEF SendDtr
  <2>2. \A d \in Devices : /\ w[d] \in Device /\ w[d].cs = level
                           /\ w[d].selected => w[d].cs /\ w[d].step > 0 /\ v[d].selected
                           /\ w[d].step = IF v[d].cs = level THEN v[d].step ELSE 0
                           /\ w[d].ack => v[d].ack
    BY <1>3, <2>1, CsIsSet
  <2>3. v["pad"].cs = old /\ v["card"].cs = old /\ v["pad"].step = v["card"].step
    BY <1>0, <1>3
  <2> HIDE DEF w
  <2>4. w["pad"].step = w["card"].step
    BY <1>0, <2>2, <2>3
  <2>5. ~(w["pad"].selected /\ w["card"].selected)
    BY <1>0, <1>3, <2>2
  <2>6. w \in [Devices -> Device]
    BY <2>1, <2>2
  <2>7. Sound(w, level)
    BY <1>3, <2>2, <2>4, <2>5, <2>6
  <2> QED
    BY <2>7 DEF w
<1>4. ASSUME NEW v, NEW old, Sound(v, old), NEW level
      PROVE  Sound(SendDtr(v, 1, level), old)
  BY <1>4 DEF SendDtr
<1>5. (ctrl.dtr /\ ctrl.sel = 0) \in BOOLEAN
  BY <1>2
<1> DEFINE new == SelectedBy(c)
<1>6. Sound(new, c.dtr /\ c.sel = 0)
  <2> HIDE DEF Sound
  <2>1. CASE c.dtr = ctrl.dtr /\ c.sel = ctrl.sel
    BY <1>1, <2>1 DEF SelectedBy
  <2>2. CASE ~(c.dtr = ctrl.dtr /\ c.sel = ctrl.sel) /\ c.sel = ctrl.sel /\ c.sel = 0
    <3>1. new = SendDtr(dev, 0, c.dtr)
      BY <2>2 DEF SelectedBy
    <3>2. Sound(new, c.dtr)
      BY <1>1, <1>2, <1>3, <1>5, <3>1
    <3>3. (c.dtr /\ c.sel = 0) = c.dtr
      BY <1>2, <2>2
    <3> QED
      BY <3>2, <3>3
  <2>3. CASE ~(c.dtr = ctrl.dtr /\ c.sel = ctrl.sel) /\ c.sel = ctrl.sel /\ c.sel = 1
    <3>1. new = SendDtr(dev, 1, c.dtr)
      BY <2>3 DEF SelectedBy
    <3>2. Sound(new, ctrl.dtr /\ ctrl.sel = 0)
      BY <1>1, <1>4, <3>1
    <3>3. (ctrl.dtr /\ ctrl.sel = 0) = (c.dtr /\ c.sel = 0)
      BY <2>3
    <3> QED
      BY <3>2, <3>3
  <2>4. CASE c.sel = 1 /\ ctrl.sel = 0
    <3>1. new = SendDtr(SendDtr(dev, 0, FALSE), 1, c.dtr)
      BY <2>4 DEF SelectedBy
    <3>2. Sound(SendDtr(dev, 0, FALSE), FALSE)
      BY <1>1, <1>3, <1>5
    <3>3. Sound(new, FALSE)
      BY <1>4, <3>1, <3>2
    <3>4. (c.dtr /\ c.sel = 0) = FALSE
      BY <2>4
    <3> QED
      BY <3>3, <3>4
  <2>5. CASE c.sel = 0 /\ ctrl.sel = 1
    <3>1. new = SendDtr(SendDtr(dev, 1, FALSE), 0, c.dtr)
      BY <2>5 DEF SelectedBy
    <3>2. Sound(SendDtr(dev, 1, FALSE), ctrl.dtr /\ ctrl.sel = 0)
      BY <1>1, <1>4
    <3>3. Sound(new, c.dtr)
      BY <1>2, <1>3, <1>5, <3>1, <3>2
    <3>4. (c.dtr /\ c.sel = 0) = c.dtr
      BY <1>2, <2>5
    <3> QED
      BY <3>3, <3>4
  <2> QED
    BY <1>2, <2>1, <2>2, <2>3, <2>4, <2>5
<1> QED
  BY <1>6 DEF DevicesOk

(* exchange_byte: both devices count, at most the one addressed answers.   *)
LEMMA ExchangedOk ==
    ASSUME DevicesOk(dev, ctrl), NEW c, c.dtr = ctrl.dtr, c.sel = ctrl.sel, NEW b,
           dev' = [d \in Devices |-> Exchanged(d, b)]
    PROVE  /\ DevicesOk(dev', c)
           /\ \A d \in Devices : dev'[d].ack = dev[d].ack
<1>0. "pad" \in Devices /\ "card" \in Devices
  BY DEF Devices
<1>1. /\ dev \in [Devices -> Device]
      /\ \A d \in Devices : /\ dev[d].cs = (c.dtr /\ c.sel = 0)
                            /\ dev[d].selected => dev[d].cs /\ dev[d].step > 0
      /\ dev["pad"].step = dev["card"].step /\ dev["pad"].cs = dev["card"].cs
      /\ ~(dev["pad"].selected /\ dev["card"].selected)
  BY <1>0 DEF DevicesOk
<1>2. ASSUME NEW d \in Devices
      PROVE  /\ dev'[d] \in Device /\ dev'[d].cs = dev[d].cs /\ dev'[d].ack = dev[d].ack
             /\ dev'[d].selected <=> dev[d].selected \/ Addressed(d, b)
             /\ dev'[d].step = IF dev[d].cs /\ dev[d].step < LastStep
                               THEN dev[d].step + 1 ELSE dev[d].step
  <2>1. dev[d] \in Device /\ dev'[d] = Exchanged(d, b)
    BY <1>1
  <2>2. CASE ~dev[d].cs
    BY <2>1, <2>2 DEF Exchanged, Addressed
  <2>3. CASE dev[d].cs
    <3> DEFINE sel == dev[d].selected \/ Addressed(d, b)
               known == IF Listens(d) /\ dev[d].step = 1 THEN b = Command ELSE dev[d].known
               step == IF dev[d].step < LastStep THEN dev[d].step + 1 ELSE dev[d].step
    <3>1. sel \in BOOLEAN /\ known \in BOOLEAN
      BY <2>1 DEF Device, Addressed
    <3>2. step \in 0..LastStep
      BY <2>1 DEF Device, LastStep
    <3>3. dev'[d] = [dev[d] EXCEPT !.selected = sel, !.known = known, !.step = step]
      BY <2>1, <2>3 DEF Exchanged
    <3> HIDE DEF sel, known, step
    <3>4. /\ dev'[d] \in Device /\ dev'[d].cs = dev[d].cs /\ dev'[d].ack = dev[d].ack
          /\ dev'[d].selected = sel /\ dev'[d].step = step
      BY <2>1, <3>1, <3>2, <3>3 DEF Device
    <3> QED
      BY <2>3, <3>4 DEF sel, step
  <2> QED
    BY <2>2, <2>3
<1>3. dev' \in [Devices -> Device]
  BY <1>2
<1>4. dev'["pad"].step = dev'["card"].step
  BY <1>0, <1>1, <1>2
<1>5. \A d \in Devices : dev'[d].selected => dev'[d].cs /\ dev'[d].step > 0
  <2> SUFFICES ASSUME NEW d \in Devices, dev'[d].selected
               PROVE  dev'[d].cs /\ dev'[d].step > 0
    OBVIOUS
  <2>1. dev[d].step \in 0..LastStep /\ dev[d].cs \in BOOLEAN
    BY <1>1 DEF Device
  <2>2. dev[d].cs /\ (dev[d].step > 0 \/ dev[d].step = 0)
    BY <1>1, <1>2, <2>1 DEF Addressed
  <2> QED
    BY <1>2, <2>1, <2>2 DEF LastStep
<1>6. ~(dev'["pad"].selected /\ dev'["card"].selected)
  <2> SUFFICES ASSUME dev'["pad"].selected, dev'["card"].selected PROVE FALSE
    OBVIOUS
  <2>1. /\ dev["pad"].selected \/ Addressed("pad", b)
        /\ dev["card"].selected \/ Addressed("card", b)
    BY <1>0, <1>2
  <2>2. ~(Addressed("pad", b) /\ Addressed("card", b))
    BY DEF Addressed, Address
  <2>3. \A d, e \in Devices : dev[d].selected => ~Addressed(e, b)
    <3>1. \A d, e \in Devices : dev[d].step = dev[e].step
      BY <1>1 DEF Devices
    <3>2. \A d \in Devices : dev[d].selected => dev[d].step # 0
      BY <1>1
    <3> QED
      BY <3>1, <3>2 DEF Addressed
  <2> QED
    BY <1>0, <1>1, <2>1, <2>2, <2>3
<1> QED
  BY <1>1, <1>2, <1>3, <1>4, <1>5, <1>6 DEF DevicesOk

LEMMA DoExchangeOk ==
    ASSUME IInv, NEW c \in Control, NEW b \in Bytes,
           c.dtr = ctrl.dtr, c.sel = ctrl.sel, c.threshold = ctrl.threshold,
           c.rxIrq = ctrl.rxIrq, c.dsrIrq = ctrl.dsrIrq, DoExchange(b, c)
    PROVE  /\ DevicesOk(dev', c) /\ FifoOk(fifo') /\ istat' \in BOOLEAN
           /\ StatusOk(stat', rxSignal', line', fifo', c)
           /\ stat'.idle /\ stat'.dsr = stat.dsr
           /\ \A d \in Devices : dev'[d].ack = dev[d].ack
           /\ raising' \in [Devices -> Nat] /\ lowering' = lowering
<1>1. DevicesOk(dev', c) /\ \A d \in Devices : dev'[d].ack = dev[d].ack
  BY ExchangedOk DEF IInv, DoExchange
<1>2. raising' \in [Devices -> Nat] /\ lowering' = lowering
  <2>1. PICK acks : raising' = [d \in Devices |-> raising[d] + (IF d \in acks THEN 1 ELSE 0)]
    BY DEF DoExchange
  <2> QED
    BY <2>1 DEF IInv, CountsOk, DoExchange
<1>3. FifoOk(fifo')
  BY PushedOk DEF IInv, DoExchange
<1>4. /\ stat \in Stat /\ rxSignal \in BOOLEAN /\ line \in BOOLEAN /\ istat \in BOOLEAN
      /\ fifo'.num \in 0..FifoSize /\ c.threshold \in Nat
  BY <1>3 DEF IInv, StatusOk, FifoOk, Control, Thresholds
<1>5. CASE c.rx \/ c.dtr
  <2>1. /\ rxSignal' = RxSignal(fifo', c)
        /\ Drive(<<>>, Signal(c, rxSignal', stat.dsr))
        /\ stat' = [stat EXCEPT !.idle = TRUE, !.notEmpty = fifo'.num > 0,
                                !.request = stat.request \/ line']
    BY <1>5 DEF DoExchange
  <2>2. rxSignal' \in BOOLEAN
    BY <1>4, <2>1 DEF RxSignal
  <2>3. Signal(c, rxSignal', stat.dsr) \in BOOLEAN
    BY <1>4, <2>2, SignalIsBoolean DEF Stat
  <2>4. line' = Signal(c, rxSignal', stat.dsr) /\ istat' \in BOOLEAN
    BY <1>4, <2>1, <2>3, Driven
  <2>5. /\ stat' \in Stat /\ stat'.dsr = stat.dsr /\ stat'.idle = TRUE
        /\ stat'.notEmpty = (fifo'.num > 0) /\ stat'.request = (stat.request \/ line')
    <3>1. (fifo'.num > 0) \in BOOLEAN /\ (stat.request \/ line') \in BOOLEAN
      OBVIOUS
    <3> QED
      BY <1>4, <2>1, <3>1 DEF Stat
  <2>6. StatusOk(stat', rxSignal', line', fifo', c)
    BY <2>1, <2>2, <2>3, <2>4, <2>5 DEF StatusOk
  <2> QED
    BY <1>1, <1>2, <1>3, <2>4, <2>5, <2>6
<1>6. CASE ~(c.rx \/ c.dtr)
  <2>1. /\ fifo' = fifo /\ rxSignal' = rxSignal /\ line' = line /\ istat' = istat
        /\ stat' = [stat EXCEPT !.idle = TRUE, !.notEmpty = fifo'.num > 0]
    BY <1>6 DEF DoExchange, irqVars
  <2>2. /\ stat' \in Stat /\ stat'.dsr = stat.dsr /\ stat'.idle = TRUE
        /\ stat'.notEmpty = (fifo'.num > 0) /\ stat'.request = stat.request
    <3>1. (fifo'.num > 0) \in BOOLEAN
      OBVIOUS
    <3> QED
      BY <1>4, <2>1, <3>1 DEF Stat
  <2>3. StatusOk(stat', rxSignal', line', fifo', c)
    BY <2>1, <2>2 DEF IInv, StatusOk, RxSignal, Signal
  <2> QED
    BY <1>1, <1>2, <1>3, <1>4, <2>1, <2>2, <2>3
<1> QED
  BY <1>5, <1>6

(* An exchange that leaves the line alone: who has an end scheduled keeps it. *)
LEMMA EndsKept ==
    ASSUME IInv, \A d \in Devices : dev'[d].ack => dev[d].ack,
           stat'.dsr => stat.dsr, stat'.idle, lowering' = lowering
    PROVE  EndsOk(dev', stat', exchanging', lowering')
BY DEF IInv, EndsOk

LEMMA WriteTxInv == ASSUME IInv, NEW b \in Bytes, WriteTx(b) PROVE IInv'
<1>1. /\ ctrl \in Control /\ ctrl' = [ctrl EXCEPT !.rx = TRUE]
  BY DEF IInv, WriteTx
<1>2. /\ ctrl' \in Control /\ ctrl'.dtr = ctrl.dtr /\ ctrl'.sel = ctrl.sel
      /\ ctrl'.threshold = ctrl.threshold
      /\ ctrl'.rxIrq = ctrl.rxIrq /\ ctrl'.dsrIrq = ctrl.dsrIrq
  BY <1>1 DEF Control
<1>3. CASE DoExchange(b, ctrl') /\ exchanging' = exchanging
  <2>1. /\ DevicesOk(dev', ctrl') /\ FifoOk(fifo') /\ istat' \in BOOLEAN
        /\ StatusOk(stat', rxSignal', line', fifo', ctrl')
        /\ stat'.idle /\ stat'.dsr = stat.dsr
        /\ \A d \in Devices : dev'[d].ack = dev[d].ack
        /\ raising' \in [Devices -> Nat] /\ lowering' = lowering
    BY <1>2, <1>3, DoExchangeOk
  <2>2. CountsOk(exchanging', raising', lowering')
    BY <1>3, <2>1 DEF IInv, CountsOk
  <2>3. EndsOk(dev', stat', exchanging', lowering')
    BY <2>1, EndsKept
  <2> QED
    BY <1>2, <2>1, <2>2, <2>3, InvNext
<1>4. CASE /\ stat' = [stat EXCEPT !.idle = FALSE]
           /\ exchanging' = [exchanging EXCEPT ![b] = @ + 1]
           /\ UNCHANGED <<fifo, rxSignal, irqVars, dev, raising, lowering>>
  <2>1. /\ fifo' = fifo /\ rxSignal' = rxSignal /\ line' = line /\ istat' = istat
        /\ dev' = dev /\ raising' = raising /\ lowering' = lowering
    BY <1>4 DEF irqVars
  <2>2. /\ stat' \in Stat /\ stat'.dsr = stat.dsr /\ ~stat'.idle
        /\ stat'.notEmpty = stat.notEmpty /\ stat'.request = stat.request
    BY <1>4 DEF IInv, StatusOk, Stat
  <2>3. exchanging' \in [Bytes -> Nat] /\ exchanging'[b] > 0
    BY <1>4 DEF IInv, CountsOk
  <2>4. DevicesOk(dev', ctrl') /\ FifoOk(fifo') /\ istat' \in BOOLEAN
    BY <1>2, <2>1 DEF IInv, DevicesOk
  <2>5. StatusOk(stat', rxSignal', line', fifo', ctrl')
    BY <1>2, <2>1, <2>2 DEF IInv, StatusOk, RxSignal, Signal
  <2>6. CountsOk(exchanging', raising', lowering')
    BY <2>1, <2>3 DEF IInv, CountsOk
  <2>7. EndsOk(dev', stat', exchanging', lowering')
    BY <2>1, <2>2, <2>3 DEF IInv, EndsOk
  <2> QED
    BY <1>2, <2>4, <2>5, <2>6, <2>7, InvNext
<1> QED
  BY <1>3, <1>4 DEF WriteTx

LEMMA ExchangeInv == ASSUME IInv, NEW b \in Bytes, Exchange(b) PROVE IInv'
<1>1. ctrl \in Control /\ ctrl' = ctrl /\ DoExchange(b, ctrl)
  BY DEF IInv, Exchange
<1>2. /\ DevicesOk(dev', ctrl) /\ FifoOk(fifo') /\ istat' \in BOOLEAN
      /\ StatusOk(stat', rxSignal', line', fifo', ctrl)
      /\ stat'.idle /\ stat'.dsr = stat.dsr
      /\ \A d \in Devices : dev'[d].ack = dev[d].ack
      /\ raising' \in [Devices -> Nat] /\ lowering' = lowering
  BY <1>1, DoExchangeOk
<1>3. exchanging' \in [Bytes -> Nat]
  BY DEF IInv, CountsOk, Exchange
<1>4. CountsOk(exchanging', raising', lowering')
  BY <1>2, <1>3 DEF IInv, CountsOk
<1>5. EndsOk(dev', stat', exchanging', lowering')
  BY <1>2, EndsKept
<1> QED
  BY <1>1, <1>2, <1>4, <1>5, InvNext

LEMMA WriteCtrlInv ==
    ASSUME IInv, NEW c \in Control, NEW ack \in BOOLEAN, WriteCtrl(c, ack) PROVE IInv'
<1> DEFINE new == SelectedBy(c)
           dsr == DsrAfter(new)
           levels == OnTheWay(new, c)
           signal == Signal(c, rxSignal', dsr)
<1>0. "pad" \in Devices /\ "card" \in Devices
  BY DEF Devices
<1>1. DevicesOk(new, c) /\ \A d \in Devices : new[d].ack => dev[d].ack
  BY SelectedOk DEF IInv
<1>2. /\ ctrl' = c /\ dev' = new /\ lowering' = lowering
      /\ raising' = raising /\ exchanging' = exchanging
  BY DEF WriteCtrl, pending
<1>3. FifoOk(fifo')
  <2>1. FifoOk([head |-> 0, tail |-> 0, num |-> 0])
    <3>1. 0 \in 0..FifoSize-1 /\ 0 \in 0..FifoSize /\ (0 + 0) % FifoSize = 0
      BY FifoAssumption
    <3> QED
      BY <3>1 DEF FifoOk
  <2> QED
    BY <2>1 DEF IInv, WriteCtrl
<1>4. /\ stat \in Stat /\ istat \in BOOLEAN /\ dev["card"].ack \in BOOLEAN
      /\ new["card"].ack \in BOOLEAN
  BY <1>0, <1>1 DEF IInv, StatusOk, DevicesOk, Device
<1>5. dsr \in BOOLEAN /\ (dsr => stat.dsr \/ \E d \in Devices : dev[d].ack)
  BY <1>0, <1>1, <1>4 DEF DsrAfter, Ended, Stat
<1>6. rxSignal' = RxSignal(fifo', c) /\ rxSignal' \in BOOLEAN
  <2>1. rxSignal' = RxSignal(fifo', c)
    BY DEF WriteCtrl
  <2>2. fifo'.num \in 0..FifoSize /\ c.threshold \in Nat
    BY <1>3 DEF FifoOk, Control, Thresholds
  <2> QED
    BY <2>1, <2>2 DEF RxSignal
<1>7. signal \in BOOLEAN
  BY <1>5, <1>6, SignalIsBoolean
<1>8. line' = signal /\ istat' \in BOOLEAN
  <2> DEFINE before == IF ack THEN levels \o <<FALSE>> ELSE levels
  <2>1. Drive(before, signal)
    BY DEF WriteCtrl
  <2> HIDE DEF before, signal
  <2> QED
    BY <1>4, <1>7, <2>1, Driven
<1>9. /\ stat' \in Stat /\ stat'.dsr = dsr /\ stat'.idle = stat.idle
      /\ stat'.notEmpty <=> fifo'.num > 0
      /\ signal => stat'.request
  <2> DEFINE asked == \E i \in DOMAIN levels : levels[i]
             request == signal \/ (~ack /\ (stat.request \/ asked))
             some == fifo'.num > 0
  <2>1. stat' = [stat EXCEPT !.dsr = dsr, !.notEmpty = some, !.request = request]
    BY DEF WriteCtrl
  <2>2. request \in BOOLEAN /\ (signal => request)
    <3> HIDE DEF signal, asked
    <3> QED
      OBVIOUS
  <2>3. some \in BOOLEAN
    OBVIOUS
  <2> HIDE DEF dsr, levels, signal, asked, request, some
  <2>4. /\ stat' \in Stat /\ stat'.dsr = dsr /\ stat'.idle = stat.idle
        /\ stat'.notEmpty = some /\ stat'.request = request
    BY <1>4, <1>5, <2>1, <2>2, <2>3 DEF Stat
  <2> QED
    BY <2>2, <2>4 DEF some
<1> HIDE DEF new, levels
<1>10. StatusOk(stat', rxSignal', line', fifo', c)
  BY <1>6, <1>7, <1>8, <1>9 DEF StatusOk
<1>11. EndsOk(dev', stat', exchanging', lowering')
  <2> HIDE DEF dsr, signal
  <2>1. \A d \in Devices : dev[d].ack => lowering[d] > 0
    BY DEF IInv, EndsOk
  <2> QED
    BY <1>1, <1>2, <1>5, <1>9, <2>1 DEF IInv, EndsOk
<1>12. CountsOk(exchanging', raising', lowering')
  BY <1>2 DEF IInv
<1> QED
  BY <1>1, <1>2, <1>3, <1>8, <1>10, <1>11, <1>12, InvNext

LEMMA ReadRxInv == ASSUME IInv, ReadRx PROVE IInv'
<1>1. /\ ctrl' = ctrl /\ dev' = dev /\ exchanging' = exchanging
      /\ raising' = raising /\ lowering' = lowering
  BY DEF ReadRx, pending
<1>2. FifoOk(fifo')
  BY PoppedOk DEF IInv, ReadRx
<1>3. ctrl \in Control /\ stat \in Stat /\ istat \in BOOLEAN
  BY DEF IInv, StatusOk
<1>4. /\ rxSignal' = RxSignal(fifo', ctrl)
      /\ Drive(<<>>, Signal(ctrl, rxSignal', stat.dsr))
      /\ stat' = [stat EXCEPT !.notEmpty = fifo'.num > 0, !.request = stat.request \/ line']
  BY DEF ReadRx
<1>5. rxSignal' \in BOOLEAN
  <2>1. fifo'.num \in 0..FifoSize /\ ctrl.threshold \in Nat
    BY <1>2, <1>3 DEF FifoOk, Control, Thresholds
  <2> QED
    BY <1>4, <2>1 DEF RxSignal
<1>6. Signal(ctrl, rxSignal', stat.dsr) \in BOOLEAN
  BY <1>3, <1>5, SignalIsBoolean DEF Stat
<1>7. line' = Signal(ctrl, rxSignal', stat.dsr) /\ istat' \in BOOLEAN
  BY <1>3, <1>4, <1>6, Driven
<1>8. /\ stat' \in Stat /\ stat'.dsr = stat.dsr /\ stat'.idle = stat.idle
      /\ stat'.notEmpty = (fifo'.num > 0) /\ stat'.request = (stat.request \/ line')
  <2>1. (fifo'.num > 0) \in BOOLEAN /\ (stat.request \/ line') \in BOOLEAN
    OBVIOUS
  <2> QED
    BY <1>3, <1>4, <2>1 DEF Stat
<1>9. StatusOk(stat', rxSignal', line', fifo', ctrl')
  BY <1>1, <1>4, <1>5, <1>6, <1>7, <1>8 DEF StatusOk
<1>10. EndsOk(dev', stat', exchanging', lowering')
  BY <1>1, <1>8 DEF IInv, EndsOk
<1> QED
  BY <1>1, <1>2, <1>7, <1>9, <1>10, InvNext DEF IInv

LEMMA ClearIstatInv == ASSUME IInv, ClearIstat PROVE IInv'
BY DEF IInv, ClearIstat, pending, DevicesOk, FifoOk, StatusOk, CountsOk, EndsOk, RxSignal, Signal

(* The two events of a device change nothing of it but its acknowledge.    *)
LEMMA AckOk ==
    ASSUME DevicesOk(dev, ctrl), NEW d \in Devices, NEW level \in BOOLEAN,
           dev' = [dev EXCEPT ![d].ack = level]
    PROVE  /\ DevicesOk(dev', ctrl) /\ dev'[d].ack = level
           /\ \A e \in Devices \ {d} : dev'[e] = dev[e]
           /\ Acked(d, level) \in BOOLEAN
           /\ Acked(d, level) => \E e \in Devices : dev'[e].ack
<1>0. "pad" \in Devices /\ "card" \in Devices
  BY DEF Devices
<1>1. dev \in [Devices -> Device]
  BY DEF DevicesOk
<1>2. \A e \in Devices \ {d} : dev'[e] = dev[e]
  BY <1>1
<1>3. /\ dev'[d] \in Device /\ dev'[d].ack = level /\ dev'[d].cs = dev[d].cs
      /\ dev'[d].selected = dev[d].selected /\ dev'[d].step = dev[d].step
  <2> DEFINE v == dev[d]
  <2>1. v \in Device /\ dev'[d] = [v EXCEPT !.ack = level]
    BY <1>1
  <2> HIDE DEF v
  <2>2. /\ dev'[d] \in Device /\ dev'[d].ack = level /\ dev'[d].cs = v.cs
        /\ dev'[d].selected = v.selected /\ dev'[d].step = v.step
    BY <2>1 DEF Device
  <2> QED
    BY <2>2 DEF v
<1>4. DevicesOk(dev', ctrl)
  <2>1. dev' \in [Devices -> Device]
    BY <1>1, <1>2, <1>3
  <2>2. \A e \in Devices : /\ dev'[e].cs = dev[e].cs /\ dev'[e].selected = dev[e].selected
                           /\ dev'[e].step = dev[e].step
    BY <1>2, <1>3
  <2> QED
    BY <1>0, <2>1, <2>2 DEF DevicesOk
<1>5. Acked(d, level) \in BOOLEAN
  BY DEF Acked
<1>6. Acked(d, level) => \E e \in Devices : dev'[e].ack
  BY <1>2, <1>3 DEF Acked
<1> QED
  BY <1>2, <1>3, <1>4, <1>5, <1>6

(* update_ACKs at the end of an event: levels is what it drives before.    *)
LEMMA AcksOk ==
    ASSUME IInv, NEW levels, NEW after \in BOOLEAN, NEW request \in BOOLEAN,
           ctrl' = ctrl, fifo' = fifo, rxSignal' = rxSignal,
           Drive(levels, Signal(ctrl, rxSignal, after)),
           stat' = [stat EXCEPT !.dsr = after, !.request = request],
           Signal(ctrl, rxSignal, after) => request
    PROVE  /\ istat' \in BOOLEAN /\ stat'.dsr = after /\ stat'.idle = stat.idle
           /\ StatusOk(stat', rxSignal', line', fifo', ctrl')
<1>1. /\ ctrl \in Control /\ stat \in Stat /\ rxSignal \in BOOLEAN /\ istat \in BOOLEAN
      /\ rxSignal <=> RxSignal(fifo, ctrl)
      /\ stat.notEmpty <=> fifo.num > 0
  BY DEF IInv, StatusOk
<1> DEFINE signal == Signal(ctrl, rxSignal, after)
<1>2. signal \in BOOLEAN
  BY <1>1, SignalIsBoolean
<1>3. line' = signal /\ istat' \in BOOLEAN
  <2> HIDE DEF signal
  <2>1. Drive(levels, signal)
    BY DEF signal
  <2> QED
    BY <1>1, <1>2, <2>1, Driven
<1>4. /\ stat' \in Stat /\ stat'.dsr = after /\ stat'.idle = stat.idle
      /\ stat'.notEmpty = stat.notEmpty /\ stat'.request = request
  BY <1>1 DEF Stat
<1>5. StatusOk(stat', rxSignal', line', fifo', ctrl')
  BY <1>1, <1>2, <1>3, <1>4 DEF StatusOk, RxSignal
<1> QED
  BY <1>3, <1>4, <1>5

LEMMA LowerInv == ASSUME IInv, NEW d \in Devices, Lower(d) PROVE IInv'
<1>1. /\ ctrl' = ctrl /\ fifo' = fifo /\ rxSignal' = rxSignal
      /\ exchanging' = exchanging /\ raising' = raising
      /\ lowering' = [lowering EXCEPT ![d] = lowering[d] - 1] /\ lowering[d] > 0
      /\ dev' = [dev EXCEPT ![d].ack = FALSE]
      /\ Drive(<<>>, Signal(ctrl, rxSignal, Acked(d, FALSE)))
      /\ stat' = [stat EXCEPT !.dsr = Acked(d, FALSE), !.request = stat.request \/ line']
  BY DEF Lower
<1>2. DevicesOk(dev, ctrl) /\ ctrl \in Control
  BY DEF IInv
<1>3. /\ DevicesOk(dev', ctrl) /\ dev'[d].ack = FALSE
      /\ \A e \in Devices \ {d} : dev'[e] = dev[e]
      /\ Acked(d, FALSE) \in BOOLEAN
      /\ Acked(d, FALSE) => \E e \in Devices : dev'[e].ack
  BY <1>1, <1>2, AckOk
<1>4. /\ istat' \in BOOLEAN /\ stat'.dsr = Acked(d, FALSE) /\ stat'.idle = stat.idle
      /\ StatusOk(stat', rxSignal', line', fifo', ctrl')
  <2> DEFINE request == stat.request \/ line'
             after == Acked(d, FALSE)
  <2>1. rxSignal \in BOOLEAN /\ istat \in BOOLEAN
    BY DEF IInv, StatusOk
  <2>2. after \in BOOLEAN
    BY <1>3
  <2>3. /\ Drive(<<>>, Signal(ctrl, rxSignal, after)) /\ request \in BOOLEAN
        /\ stat' = [stat EXCEPT !.dsr = after, !.request = request]
    BY <1>1
  <2>4. Signal(ctrl, rxSignal, after) \in BOOLEAN
    <3> HIDE DEF after
    <3> QED
      BY <1>2, <2>1, <2>2, SignalIsBoolean
  <2>5. line' = Signal(ctrl, rxSignal, after)
    <3> DEFINE last == Signal(ctrl, rxSignal, after)
    <3>1. last \in BOOLEAN /\ Drive(<<>>, last)
      BY <2>3, <2>4
    <3> HIDE DEF last
    <3>2. line' = last
      BY <2>1, <3>1, Driven
    <3> QED
      BY <3>2 DEF last
  <2>6. Signal(ctrl, rxSignal, after) => request
    BY <2>4, <2>5
  <2> HIDE DEF after, request
  <2>7. /\ istat' \in BOOLEAN /\ stat'.dsr = after /\ stat'.idle = stat.idle
        /\ StatusOk(stat', rxSignal', line', fifo', ctrl')
    BY <1>1, <2>2, <2>3, <2>6, AcksOk
  <2> QED
    BY <2>7 DEF after
<1>5. lowering' \in [Devices -> Nat] /\ \A e \in Devices \ {d} : lowering'[e] = lowering[e]
  BY <1>1 DEF IInv, CountsOk
<1>6. EndsOk(dev', stat', exchanging', lowering')
  <2>1. \A e \in Devices : dev'[e].ack => lowering'[e] > 0
    BY <1>3, <1>5 DEF IInv, EndsOk
  <2> QED
    BY <1>1, <1>3, <1>4, <2>1 DEF IInv, EndsOk
<1>7. CountsOk(exchanging', raising', lowering')
  BY <1>1, <1>5 DEF IInv, CountsOk
<1>8. ctrl' \in Control /\ DevicesOk(dev', ctrl') /\ FifoOk(fifo')
  BY <1>1, <1>2, <1>3 DEF IInv
<1> QED
  BY <1>4, <1>6, <1>7, <1>8, InvNext

LEMMA RaiseInv == ASSUME IInv, NEW d \in Devices, Raise(d) PROVE IInv'
<1> DEFINE signal == Signal(ctrl, rxSignal, TRUE)
<1>1. PICK late \in BOOLEAN :
        /\ dev' = [dev EXCEPT ![d].ack = ~late]
        /\ stat' = [stat EXCEPT !.dsr = Acked(d, ~late), !.request = stat.request \/ signal]
        /\ Drive(<<signal>>, Signal(ctrl, rxSignal, Acked(d, ~late)))
        /\ lowering' = [lowering EXCEPT ![d] = IF late THEN lowering[d] ELSE lowering[d] + 1]
  BY DEF Raise
<1>2. /\ ctrl' = ctrl /\ fifo' = fifo /\ rxSignal' = rxSignal
      /\ exchanging' = exchanging
      /\ raising' = [raising EXCEPT ![d] = raising[d] - 1] /\ raising[d] > 0
  BY DEF Raise
<1>3. DevicesOk(dev, ctrl) /\ ctrl \in Control /\ rxSignal \in BOOLEAN
  BY DEF IInv, StatusOk
<1> DEFINE up == ~late
           after == Acked(d, up)
           request == stat.request \/ signal
<1>4. /\ DevicesOk(dev', ctrl) /\ dev'[d].ack = up
      /\ \A e \in Devices \ {d} : dev'[e] = dev[e]
      /\ after \in BOOLEAN
      /\ after => \E e \in Devices : dev'[e].ack
  <2>1. up \in BOOLEAN /\ dev' = [dev EXCEPT ![d].ack = up]
    BY <1>1
  <2> HIDE DEF up
  <2> QED
    BY <1>3, <2>1, AckOk
<1>5. /\ istat' \in BOOLEAN /\ stat'.dsr = after /\ stat'.idle = stat.idle
      /\ StatusOk(stat', rxSignal', line', fifo', ctrl')
  <2>1. /\ Drive(<<signal>>, Signal(ctrl, rxSignal, after))
        /\ stat' = [stat EXCEPT !.dsr = after, !.request = request]
    BY <1>1
  <2>2. request \in BOOLEAN
    OBVIOUS
  <2>3. Signal(ctrl, rxSignal, after) => request
    <3> HIDE DEF after
    <3> QED
      BY <1>3, <1>4 DEF Signal, Control
  <2> HIDE DEF after, request, signal
  <2> QED
    BY <1>2, <1>4, <2>1, <2>2, <2>3, AcksOk
<1>6. /\ lowering' \in [Devices -> Nat] /\ \A e \in Devices : lowering'[e] >= lowering[e]
      /\ up => lowering'[d] > 0
  BY <1>1 DEF IInv, CountsOk
<1>7. raising' \in [Devices -> Nat]
  BY <1>2 DEF IInv, CountsOk
<1>8. CountsOk(exchanging', raising', lowering')
  BY <1>2, <1>6, <1>7 DEF IInv, CountsOk
<1>9. EndsOk(dev', stat', exchanging', lowering')
  <2> HIDE DEF up, after
  <2>1. \A e \in Devices : dev'[e].ack => lowering'[e] > 0
    <3>1. \A e \in Devices : dev[e].ack => lowering[e] > 0
      BY DEF IInv, EndsOk
    <3>2. \A e \in Devices : lowering[e] \in Nat /\ lowering'[e] \in Nat
      BY <1>6 DEF IInv, CountsOk
    <3> QED
      BY <1>4, <1>6, <3>1, <3>2
  <2> QED
    BY <1>2, <1>4, <1>5, <2>1 DEF IInv, EndsOk
<1>10. ctrl' \in Control /\ DevicesOk(dev', ctrl') /\ FifoOk(fifo')
  BY <1>2, <1>3, <1>4 DEF IInv
<1> QED
  BY <1>5, <1>8, <1>9, <1>10, InvNext

LEMMA NextInv == ASSUME IInv, [Next]_vars PROVE IInv'
<1>1. ASSUME NEW c \in Controls, NEW ack \in BOOLEAN, WriteCtrl(c, ack) PROVE IInv'
  BY <1>1, ControlsAssumption, WriteCtrlInv
<1>2. ASSUME UNCHANGED vars PROVE IInv'
  BY <1>2 DEF vars, irqVars, pending, IInv, DevicesOk, FifoOk, StatusOk, CountsOk, EndsOk,
              RxSignal, Signal
<1> QED
  BY <1>1, <1>2, WriteTxInv, ReadRxInv, ClearIstatInv, ExchangeInv, RaiseInv, LowerInv
  DEF Next, Cpu

LEMMA Invariant == Spec => []IInv
BY InitInv, NextInv, PTL DEF Spec

----------------------------------------------------------------------------
(* Theorems.                                                               *)

(* Indices and length of the receive FIFO keep to its size, and every      *)
(* register to its values.                                                 *)
THEOREM TypeCorrect == Spec => []TypeOK
<1>1. IInv => TypeOK
  BY DEF IInv, TypeOK, DevicesOk, Device, FifoOk, StatusOk, Stat, CountsOk
<1> QED
  BY <1>1, Invariant, PTL

(* Pad and card never both take a transfer for theirs, in whatever order   *)
(* software moves select and port and whatever is still being exchanged.   *)
THEOREM OnlyOneAnswers == Spec => []OneAnswers
<1>1. IInv => OneAnswers
  BY DEF IInv, OneAnswers, DevicesOk
<1> QED
  BY <1>1, Invariant, PTL

(* Interrupt line and status bits follow FIFO, acknowledge and CTRL.       *)
THEOREM SignalsStayCurrent == Spec => []SignalsAreCurrent
<1>1. IInv => SignalsAreCurrent
  BY DEF IInv, SignalsAreCurrent, StatusOk
<1> QED
  BY <1>1, Invariant, PTL

(* The FIFO's head, tail and length agree.                                 *)
THEOREM FifoStaysRight == Spec => []FifoAgrees
<1>1. IInv => FifoAgrees
  BY DEF IInv, FifoAgrees, FifoOk
<1> QED
  BY <1>1, Invariant, PTL

(* Whatever software waits for has the event that ends it scheduled.       *)
THEOREM EndsStayScheduled == Spec => []EndsAreScheduled
<1>1. IInv => EndsAreScheduled
  BY DEF IInv, EndsAreScheduled, EndsOk
<1> QED
  BY <1>1, Invariant, PTL

----------------------------------------------------------------------------
(* What the fairness brings about.                                         *)

LEMMA ExchangesEndBytes ==
    ASSUME IInv, \E b \in Bytes : Exchange(b)
    PROVE  stat'.idle
<1>1. PICK b \in Bytes : Exchange(b)
  OBVIOUS
<1>2. ctrl \in Control /\ DoExchange(b, ctrl)
  BY <1>1 DEF IInv, Exchange
<1> QED
  BY <1>2, DoExchangeOk

LEMMA LoweringEndsAck ==
    ASSUME IInv, NEW d \in Devices, Lower(d)
    PROVE  ~dev'[d].ack
<1>1. DevicesOk(dev, ctrl) /\ dev' = [dev EXCEPT ![d].ack = FALSE]
  BY DEF IInv, Lower
<1>2. dev'[d].ack = FALSE
  BY <1>1, AckOk
<1> QED
  BY <1>2

(* Polling for the end of a byte, or of an acknowledge, comes back: while  *)
(* it goes on an exchange, or the end of the acknowledge, is pending, and  *)
(* the first that is called ends it.                                       *)
THEOREM PollingEnds == Spec => PollsEnd
<1> DEFINE Idle == stat.idle
           Quiet == \A b \in Bytes : exchanging[b] = 0
           PadUp == dev["pad"].ack
           CardUp == dev["card"].ack
<1>1. IInv /\ ~Idle => ~Quiet
  BY DEF IInv, EndsOk
<1>2. IInv /\ <<\E b \in Bytes : Exchange(b)>>_vars => Idle'
  BY ExchangesEndBytes
<1>3. /\ IInv /\ PadUp => ~(lowering["pad"] = 0)
      /\ IInv /\ CardUp => ~(lowering["card"] = 0)
  <2>1. \A d \in Devices : IInv /\ dev[d].ack => ~(lowering[d] = 0)
    BY DEF IInv, EndsOk
  <2> QED
    BY <2>1 DEF Devices
<1>4. /\ IInv /\ <<Lower("pad")>>_vars => ~PadUp'
      /\ IInv /\ <<Lower("card")>>_vars => ~CardUp'
  BY LoweringEndsAck DEF Devices
<1>5. Spec => /\ []<>Quiet \/ []<><<\E b \in Bytes : Exchange(b)>>_vars
              /\ []<>(lowering["pad"] = 0) \/ []<><<Lower("pad")>>_vars
              /\ []<>(lowering["card"] = 0) \/ []<><<Lower("card")>>_vars
  BY DEF Spec, EventsAreCalled, BytesAreExchanged, AcksAreLowered
<1> HIDE DEF Idle, Quiet, PadUp, CardUp
<1>6. Spec => (~Idle ~> Idle) /\ (PadUp ~> ~PadUp) /\ (CardUp ~> ~CardUp)
  BY <1>1, <1>2, <1>3, <1>4, <1>5, Invariant, PTL
<1> QED
  BY <1>6 DEF PollsEnd, Idle, PadUp, CardUp
=============================================================================
