--------------------------- MODULE SchedulerProofs ---------------------------
(***************************************************************************)
(* The safety properties of Scheduler, for every set of devices, every     *)
(* block size, delay, budget and bound.  The inductive invariant relates   *)
(* the list, the flags, the ids the timers keep and the functions in       *)
(* progress: none of the properties is inductive without the others.       *)
(***************************************************************************)
EXTENDS Scheduler, EventListProofs

(* The list q, the clock, the next id, and what the devices know of q.     *)
Consistent(q, now, n, flag, ids, forgot) ==
    /\ InOrder(q)
    /\ LateOnlyWhenDue(q, now)
    /\ DistinctIds(q)
    /\ IdsIn(q, FirstId .. n - 1)
    /\ \A s \in Timers : ids[s] < n
    /\ \A s \in Timers, k \in 1 .. Len(q) : q[k].id = ids[s] <=> q[k].src = s
    /\ \A s \in Owners : AtMostOne(q, s)
    /\ \A s \in Devices : flag[s] <=> (Has(q, s) \/ s \in forgot)

(* Which functions can be in progress in each phase.                       *)
Phases ==
    /\ pc \in {"idle", "loop", "due"} => frames = <<>>
    /\ pc = "callback" => frames # <<>>
    /\ pc = "due" => loopStart = clock

(* A timer whose function was called at once has no event pending.         *)
AtOnce == \A s \in Owners : RunAtOnce(s) => s \in Timers /\ ~Has(events, s)

Budget == tagMode # 0 \/ pc = "idle" => cyclesLeft <= 0

IInv ==
    /\ TypeOK
    /\ idCounter > FirstId
    /\ Consistent(events, clock, idCounter, still, schId, stale)
    /\ Has(events, Frame)
    /\ Phases
    /\ AtOnce
    /\ Budget

----------------------------------------------------------------------------
(* r is q with e added somewhere, still in order.                          *)
Added(q, e, r, now) ==
    /\ InOrder(r)
    /\ LateOnlyWhenDue(r, now)
    /\ DistinctIds(r)
    /\ \A i \in 1 .. Len(r) : r[i] = e \/ \E k \in 1 .. Len(q) : r[i] = q[k]
    /\ \A u \in Owners : Has(r, u) <=> (u = e.src \/ Has(q, u))
    /\ \A u \in Owners : AtMostOne(q, u) /\ ~(u = e.src /\ Has(q, u)) => AtMostOne(r, u)

(* Its source sets its flag and, if it is a timer, keeps the id.           *)
Noted(e, flag, flag2, ids, ids2, forgot, forgot2) ==
    /\ \A u \in Timers : ids2[u] = IF u = e.src THEN e.id ELSE ids[u]
    /\ \A u \in Devices : flag2[u] <=> (u = e.src \/ flag[u])
    /\ \A u \in Devices : u \in forgot2 <=> (u # e.src /\ u \in forgot)

(* An event is added for a source that has none.                           *)
LEMMA ConsistentAdded ==
    ASSUME NEW q \in Seq(Event(Owners)), NEW r \in Seq(Event(Owners)),
           NEW e \in Event(Owners), NEW now \in Nat, NEW n \in Nat,
           NEW flag, NEW flag2, NEW forgot, NEW forgot2,
           NEW ids \in [Timers -> Nat], NEW ids2 \in [Timers -> Nat],
           Consistent(q, now, n, flag, ids, forgot), n >= FirstId,
           e.id = n, ~Has(q, e.src), Added(q, e, r, now),
           Noted(e, flag, flag2, ids, ids2, forgot, forgot2)
    PROVE  Consistent(r, now, n + 1, flag2, ids2, forgot2)
<1>1. IdsIn(r, FirstId .. n)
  BY DEF Consistent, IdsIn, Added
<1>2. \A u \in Timers : ids2[u] < n + 1
  BY DEF Consistent, Noted
<1>3. ASSUME NEW u \in Timers, NEW i \in 1 .. Len(r)
      PROVE  r[i].id = ids2[u] <=> r[i].src = u
  <2>1. CASE r[i] = e
    BY <2>1 DEF Consistent, Noted
  <2>2. CASE \E k \in 1 .. Len(q) : r[i] = q[k]
    <3>1. PICK k \in 1 .. Len(q) : r[i] = q[k]
      BY <2>2
    <3>2. q[k].id = ids[u] <=> q[k].src = u
      BY DEF Consistent
    <3>3. q[k].id \in FirstId .. n - 1 /\ q[k].src # e.src
      BY DEF Consistent, IdsIn, Has
    <3>4. q[k].id # n
      BY <3>3
    <3>. QED
      BY <3>1, <3>2, <3>3, <3>4 DEF Noted
  <2>. QED
    BY <2>1, <2>2 DEF Added
<1>4. \A u \in Owners : AtMostOne(r, u)
  BY DEF Consistent, Added
<1>5. \A u \in Devices : flag2[u] <=> (Has(r, u) \/ u \in forgot2)
  BY DEF Consistent, Owners, Added, Noted
<1>6. (n + 1) - 1 = n
  OBVIOUS
<1>. QED
  BY <1>1, <1>2, <1>3, <1>4, <1>5, <1>6 DEF Consistent, Added

(* add_abs adds, and so does add_next.                                     *)
LEMMA AddAbsAdds ==
    ASSUME NEW q \in Seq(Event(Owners)), NEW e \in Event(Owners), NEW now \in Nat,
           InOrder(q), LateOnlyWhenDue(q, now), DistinctIds(q),
           \A k \in 1 .. Len(q) : q[k].id # e.id,
           e.late <=> IsDue(e.time, now)
    PROVE  AddAbs(q, e, now) \in Seq(Event(Owners)) /\ Added(q, e, AddAbs(q, e, now), now)
<1>. DEFINE r == AddAbs(q, e, now)
            E == Event(Owners)
<1>1. q \in Seq(E) /\ e \in E
  OBVIOUS
<1>2. InOrder(r) /\ LateOnlyWhenDue(r, now)
  BY AddAbsKeepsOrder
<1>. HIDE DEF E
<1>3. r \in Seq(E)
  BY <1>1, AddAbsInserts
<1>4. DistinctIds(r) /\ \A i \in 1 .. Len(r) : r[i] = e \/ \E k \in 1 .. Len(q) : r[i] = q[k]
  BY <1>1, AddAbsKeepsEvents
<1>5. ASSUME NEW u \in Owners
      PROVE  /\ Has(r, u) <=> (u = e.src \/ Has(q, u))
             /\ AtMostOne(q, u) /\ ~(u = e.src /\ Has(q, u)) => AtMostOne(r, u)
  BY <1>1, AddAbsSources
<1>. QED
  BY <1>2, <1>3, <1>4, <1>5 DEF Added, E

LEMMA AddNextAdds ==
    ASSUME NEW q \in Seq(Event(Owners)), NEW e \in Event(Owners), NEW now \in Nat,
           InOrder(q), LateOnlyWhenDue(q, now), DistinctIds(q),
           \A k \in 1 .. Len(q) : q[k].id # e.id,
           e.late, e.time <= now
    PROVE  AddNext(q, e) \in Seq(Event(Owners)) /\ Added(q, e, AddNext(q, e), now)
<1>. DEFINE r == AddNext(q, e)
<1>1. r \in Seq(Event(Owners))
  BY AddNextProperties
<1>2. ASSUME NEW u
      PROVE  /\ InOrder(r) /\ LateOnlyWhenDue(r, now) /\ DistinctIds(r)
             /\ \A i \in 1 .. Len(r) : r[i] = e \/ \E k \in 1 .. Len(q) : r[i] = q[k]
             /\ Has(r, u) <=> (u = e.src \/ Has(q, u))
             /\ AtMostOne(q, u) /\ ~(u = e.src /\ Has(q, u)) => AtMostOne(r, u)
  BY AddNextKeeps
<1>. QED
  BY <1>1, <1>2 DEF Added

(* r is q without the events of s.                                         *)
Without(q, r, s) ==
    /\ Thinned(q, r)
    /\ \A u \in Owners : Has(r, u) <=> (u # s /\ Has(q, u))

(* Nothing is recorded of s but a flag a reset forgot.                     *)
Dropped(s, flag, flag2, forgot, forgot2) ==
    /\ \A u \in Devices : u # s => flag2[u] = flag[u] /\ (u \in forgot2 <=> u \in forgot)
    /\ s \in Devices => (flag2[s] <=> s \in forgot2)

(* The only event of a source is taken out.                                *)
LEMMA ConsistentWithout ==
    ASSUME NEW q \in Seq(Event(Owners)), NEW r \in Seq(Event(Owners)), NEW s,
           Without(q, r, s), NEW now \in Nat, NEW n \in Nat,
           NEW flag, NEW flag2, NEW forgot, NEW forgot2, NEW ids \in [Timers -> Nat],
           Consistent(q, now, n, flag, ids, forgot),
           Dropped(s, flag, flag2, forgot, forgot2)
    PROVE  Consistent(r, now, n, flag2, ids, forgot2)
<1>1. /\ InOrder(r) /\ LateOnlyWhenDue(r, now) /\ DistinctIds(r)
      /\ \A i \in 1 .. Len(r) : \E k \in 1 .. Len(q) : r[i] = q[k]
  BY ThinnedKeeps DEF Consistent, Without
<1>2. IdsIn(r, FirstId .. n - 1)
  BY <1>1 DEF Consistent, IdsIn
<1>3. \A u \in Timers : ids[u] < n
  BY DEF Consistent
<1>4. \A u \in Timers, i \in 1 .. Len(r) : r[i].id = ids[u] <=> r[i].src = u
  BY <1>1 DEF Consistent
<1>5. \A u \in Owners : AtMostOne(r, u)
  BY ThinnedSources DEF Consistent, Without
<1>6. \A u \in Devices : flag2[u] <=> (Has(r, u) \/ u \in forgot2)
  BY DEF Consistent, Owners, Without, Dropped
<1>. QED
  BY <1>1, <1>2, <1>3, <1>4, <1>5, <1>6 DEF Consistent

(* A list stays consistent as the clock goes on.                           *)
LEMMA ConsistentLater ==
    ASSUME NEW q \in Seq(Event(Owners)), NEW now \in Nat, NEW later \in Nat, now <= later,
           NEW n, NEW flag, NEW ids, NEW forgot, Consistent(q, now, n, flag, ids, forgot)
    PROVE  Consistent(q, later, n, flag, ids, forgot)
<1>1. \A k \in 1 .. Len(q) : q[k].time \in Int
  <2>1. \A k \in 1 .. Len(q) : q[k] \in Event(Owners)
    BY ElementOfSeq
  <2>. QED
    BY <2>1 DEF Event
<1>2. LateOnlyWhenDue(q, later)
  BY <1>1 DEF Consistent, LateOnlyWhenDue
<1>. QED
  BY <1>2 DEF Consistent

----------------------------------------------------------------------------
(* What the invariant says of the head of the list.                        *)
LEMMA HeadIsAnEvent ==
    ASSUME IInv
    PROVE  /\ events # <<>> /\ Len(events) >= 1
           /\ Head(events) = events[1] /\ events[1] \in Event(Owners)
           /\ \A k \in 1 .. Len(events) : events[k] \in Event(Owners)
<1>1. events \in Seq(Event(Owners)) /\ Len(events) \in Nat
  BY LenProperties DEF IInv, TypeOK
<1>2. \E k \in 1 .. Len(events) : TRUE
  BY DEF IInv, Has
<1>3. Len(events) >= 1 /\ 1 \in 1 .. Len(events)
  BY <1>1, <1>2
<1>4. events # <<>> /\ Head(events) = events[1]
  BY <1>1, <1>3
<1>5. \A k \in 1 .. Len(events) : events[k] \in Event(Owners)
  BY <1>1, ElementOfSeq
<1>. QED
  BY <1>3, <1>4, <1>5

(* When the head is not due, no event is, and none is earlier.             *)
LEMMA HeadIsFirst ==
    ASSUME IInv, Head(events).time > clock
    PROVE  \A k \in 1 .. Len(events) : events[k].time >= Head(events).time
<1>1. \A k \in 1 .. Len(events) : events[k].time \in Int /\ events[k].late \in BOOLEAN
  BY HeadIsAnEvent DEF Event
<1>2. ~events[1].late
  BY <1>1, HeadIsAnEvent DEF IInv, TypeOK, Consistent, LateOnlyWhenDue
<1>3. ASSUME NEW k \in 1 .. Len(events)
      PROVE  events[k].time >= events[1].time
  <2>1. CASE k = 1
    BY <1>1, <2>1
  <2>2. CASE k # 1
    <3>1. 1 < k /\ 1 \in 1 .. Len(events)
      BY <2>2, HeadIsAnEvent
    <3>. QED
      BY <1>1, <1>2, <3>1 DEF IInv, Consistent, InOrder
  <2>. QED
    BY <2>1, <2>2
<1>. QED
  BY <1>3, HeadIsAnEvent

(* The slice is the least of its limits.                                   *)
LEMMA SliceIsLeast ==
    ASSUME IInv, Head(events).time > loopStart, ~OutOfCycles
    PROVE  Slice \in 1 .. MaxBlock /\ Slice <= Head(events).time - loopStart
<1>. DEFINE gap == Head(events).time - loopStart
            S == {gap} \cup SliceLimit
<1>1. gap \in Int /\ gap > 0 /\ loopStart \in Nat /\ cyclesLeft \in Int /\ tagMode \in Nat
  BY HeadIsAnEvent, NumbersAssumption DEF IInv, TypeOK, Event
<1>2. tagMode = 0 => cyclesLeft > 0
  BY <1>1 DEF OutOfCycles
<1>3. MaxBlock \in Nat /\ MaxBlock > 0
  BY NumbersAssumption
<1>4. S = IF tagMode = 0 THEN {gap, MaxBlock, cyclesLeft} ELSE {gap, MaxBlock, MaxBlock}
  BY DEF SliceLimit
<1>5. \A a, b, c \in Int : \E n \in {a, b, c} : n <= a /\ n <= b /\ n <= c
  OBVIOUS
<1>6. \E n \in S : \A m \in S : n <= m
  <2>1. CASE tagMode = 0
    BY <1>1, <1>3, <1>4, <1>5, <2>1
  <2>2. CASE tagMode # 0
    BY <1>1, <1>3, <1>4, <1>5, <2>2
  <2>. QED
    BY <2>1, <2>2
<1>7. Slice = CHOOSE n \in S : \A m \in S : n <= m
  BY DEF Slice
<1>8. Slice \in S /\ \A m \in S : Slice <= m
  BY <1>6, <1>7
<1>9. gap \in S /\ MaxBlock \in S
  BY <1>4
<1>10. \A m \in S : m \in Int /\ m > 0
  BY <1>1, <1>2, <1>3, <1>4
<1>. HIDE DEF S, gap
<1>11. Slice \in Int /\ Slice > 0 /\ Slice <= gap /\ Slice <= MaxBlock
  BY <1>8, <1>9, <1>10
<1>. QED
  BY <1>3, <1>11 DEF gap

(* A device that cancels what its flag says is pending takes its event out *)
(* of the list and no other, and its flag is cleared if it had one there.  *)
LEMMA WithoutOwnTakesOwn ==
    ASSUME IInv, NEW s \in Timers
    PROVE  /\ WithoutOwn(s) \in Seq(Event(Owners))
           /\ Without(events, WithoutOwn(s), s)
           /\ Cleared(s) = IF Has(events, s) THEN {s} ELSE {}
<1>. DEFINE n == Len(events)
            E == Event(Owners)
<1>1. /\ DistinctIds(events)
      /\ \A k \in 1 .. n : events[k].id = schId[s] <=> events[k].src = s
      /\ \A k \in 1 .. n : events[k].id # 0
      /\ Has(events, s) => still[s]
      /\ s \in Devices /\ s \in Owners
  <2>1. \A k \in 1 .. n : events[k].id \in FirstId .. idCounter - 1
    BY DEF IInv, Consistent, IdsIn
  <2>2. \A k \in 1 .. n : events[k].id # 0
    BY <2>1 DEF FirstId
  <2>. QED
    BY <2>2 DEF IInv, Consistent, Devices, Owners
<1>2. events \in Seq(E) /\ n \in Nat /\ \A k \in 1 .. n : events[k] \in E
  BY LenProperties, ElementOfSeq DEF IInv, TypeOK
<1>. HIDE DEF E
<1>3. CASE Has(events, s)
  <2>. DEFINE r == DeleteIfExist(events, schId[s])
  <2>1. PICK k \in 1 .. n : events[k].src = s
    BY <1>3 DEF Has
  <2>2. schId[s] # 0 /\ events[k].id = schId[s]
    BY <1>1, <2>1
  <2>3. /\ r \in Seq(E)
        /\ Thinned(events, r)
        /\ \A i \in 1 .. Len(r) : r[i].id # schId[s]
        /\ \A j \in 1 .. n : events[j].id # schId[s] => \E i \in 1 .. Len(r) : r[i] = events[j]
    BY <1>1, <1>2, <2>2, DeleteIsThinned
  <2>4. r = WithoutOwn(s)
    BY <1>1, <1>3 DEF WithoutOwn
  <2>. HIDE DEF r
  <2>5. \A i \in 1 .. Len(r) : \E j \in 1 .. n : r[i] = events[j]
    BY <2>3 DEF Thinned
  <2>6. ~Has(r, s)
    BY <1>1, <2>3, <2>5 DEF Has
  <2>7. ASSUME NEW u \in Owners, u # s, Has(events, u)
        PROVE  Has(r, u)
    BY <1>1, <2>3, <2>7 DEF Has
  <2>8. ASSUME NEW u \in Owners, Has(r, u)
        PROVE  Has(events, u)
    BY <2>5, <2>8 DEF Has
  <2>9. Unlinked(events, schId[s]) = {s}
    <3>1. \A j \in 1 .. k - 1 : j \in 1 .. n /\ j # k
      BY <1>2, <2>1
    <3>2. \A j \in 1 .. k - 1 : events[j].id # schId[s]
      BY <1>1, <2>2, <3>1 DEF DistinctIds
    <3>3. \A j \in 1 .. n : events[j].id = schId[s] => events[j].src = s
      BY <1>1
    <3>. QED
      BY <2>1, <2>2, <3>2, <3>3 DEF Unlinked
  <2>10. Cleared(s) = {s}
    BY <1>1, <1>3, <2>9 DEF Cleared
  <2>. QED
    BY <1>3, <2>3, <2>4, <2>6, <2>7, <2>8, <2>10 DEF E, Without
<1>4. CASE ~Has(events, s)
  <2>1. \A k \in 1 .. n : events[k].id # schId[s]
    BY <1>1, <1>4 DEF Has
  <2>2. WithoutOwn(s) = events
    BY <2>1 DEF WithoutOwn, DeleteIfExist, Listed
  <2>3. Thinned(events, events)
    <3>1. DeleteIfExist(events, 0) = events
      BY DEF DeleteIfExist
    <3>. QED
      BY <1>1, <1>2, <3>1, DeleteIsThinned
  <2>4. Cleared(s) = {}
    BY <2>1 DEF Cleared, Unlinked
  <2>. QED
    BY <1>2, <1>4, <2>2, <2>3, <2>4 DEF E, Without
<1>. QED
  BY <1>3, <1>4

----------------------------------------------------------------------------
(* The initial state, and the list a reset starts over with.               *)
LEMMA FirstListIsConsistent ==
    ASSUME NEW n \in Nat, n >= FirstId, NEW flag, NEW forgot, NEW ids \in [Timers -> Nat],
           \A s \in Timers : ids[s] < n,
           \A s \in Devices : flag[s] <=> s \in forgot
    PROVE  /\ <<FirstFrameEvent(n)>> \in Seq(Event(Owners))
           /\ Consistent(<<FirstFrameEvent(n)>>, 0, n + 1, flag, ids, forgot)
           /\ Has(<<FirstFrameEvent(n)>>, Frame)
<1>. DEFINE e == FirstFrameEvent(n)
            q == <<e>>
<1>1. /\ e \in Event(Owners) /\ e.id = n /\ e.src = Frame
      /\ e.late = FALSE
  BY NumbersAssumption DEF FirstFrameEvent, Event, Owners
<1>. HIDE DEF e
<1>2. q \in Seq(Event(Owners)) /\ Len(q) = 1 /\ q[1] = e
  BY <1>1
<1>. HIDE DEF q
<1>3. \A i \in 1 .. Len(q) : i = 1
  BY <1>2
<1>4. InOrder(q) /\ LateOnlyWhenDue(q, 0) /\ DistinctIds(q)
  BY <1>1, <1>2, <1>3 DEF InOrder, LateOnlyWhenDue, DistinctIds
<1>5. IdsIn(q, FirstId .. n)
  BY <1>1, <1>2, <1>3 DEF IdsIn, FirstId
<1>6. \A s \in Devices : s # Frame
  BY OwnersAssumption
<1>7. \A s \in Timers, k \in 1 .. Len(q) : q[k].id = ids[s] <=> q[k].src = s
  BY <1>1, <1>2, <1>3, <1>6 DEF Devices
<1>8. \A s \in Owners : AtMostOne(q, s)
  BY <1>3 DEF AtMostOne
<1>9. \A s \in Devices : flag[s] <=> (Has(q, s) \/ s \in forgot)
  BY <1>1, <1>2, <1>3, <1>6 DEF Has
<1>10. Has(q, Frame)
  BY <1>1, <1>2 DEF Has
<1>11. (n + 1) - 1 = n /\ \A s \in Timers : ids[s] < n + 1
  OBVIOUS
<1>. QED
  BY <1>2, <1>4, <1>5, <1>7, <1>8, <1>9, <1>10, <1>11 DEF Consistent, q, e

LEMMA InitInv == Init => IInv
<1>. SUFFICES ASSUME Init
              PROVE  IInv
  OBVIOUS
<1>1. /\ events \in Seq(Event(Owners)) /\ Has(events, Frame)
      /\ Consistent(events, clock, idCounter, still, schId, stale)
  <2>1. FirstId \in Nat /\ FirstId > 0
    BY DEF FirstId
  <2>2. schId \in [Timers -> Nat] /\ \A s \in Timers : schId[s] < FirstId
    BY <2>1 DEF Init
  <2>3. \A s \in Devices : still[s] <=> s \in stale
    BY DEF Init
  <2>. QED
    BY <2>1, <2>2, <2>3, FirstListIsConsistent DEF Init
<1>2. TypeOK
  <2>1. /\ clock \in Nat /\ idCounter \in Nat /\ cyclesLeft \in Int /\ loopStart \in Nat
        /\ still \in [Devices -> BOOLEAN] /\ schId \in [Timers -> Nat]
    BY DEF Init, FirstId
  <2>2. /\ tagMode \in {0, FrameTag} /\ slice \in 0 .. MaxBlock /\ stale \in SUBSET Devices
        /\ pc \in {"idle", "loop", "due", "callback", "block"}
    BY NumbersAssumption DEF Init
  <2>3. frames \in Frames
    BY DEF Init, Frames
  <2>4. doBreak \in BOOLEAN
    BY DEF Init
  <2>. QED
    BY <1>1, <2>1, <2>2, <2>3, <2>4 DEF TypeOK
<1>3. Phases /\ AtOnce /\ Budget /\ idCounter > FirstId
  BY DEF Init, Phases, AtOnce, RunAtOnce, Budget, FirstId
<1>. QED
  BY <1>1, <1>2, <1>3 DEF IInv

----------------------------------------------------------------------------
(* Steps that leave the list and the devices alone.                        *)
Quiet == UNCHANGED <<events, idCounter, still, schId, stale>>

LEMMA QuietKeepsList ==
    ASSUME IInv, Quiet, clock' \in Nat, clock' >= clock
    PROVE  /\ (idCounter > FirstId)'
           /\ Consistent(events, clock, idCounter, still, schId, stale)'
           /\ Has(events, Frame)'
<1>1. /\ events \in Seq(Event(Owners)) /\ clock \in Nat
      /\ Consistent(events, clock, idCounter, still, schId, stale)
      /\ Has(events, Frame) /\ idCounter > FirstId
  BY DEF IInv, TypeOK
<1>2. Consistent(events, clock', idCounter, still, schId, stale)
  BY <1>1, ConsistentLater
<1>. QED
  BY <1>1, <1>2 DEF Quiet

LEMMA HostKeepsInv ==
    ASSUME IInv, Host
    PROVE  IInv'
<1>. USE DEF loopVars, deviceVars
<1>0. TypeOK /\ Phases /\ AtOnce /\ Budget /\ FrameTag \in Nat \ {0}
  BY NumbersAssumption DEF IInv
<1>1. ASSUME NEW n \in Budgets, RunForCycles(n)
      PROVE  IInv'
  <2>1. Quiet /\ clock' = clock /\ clock \in Nat
    BY <1>0, <1>1 DEF RunForCycles, Quiet, TypeOK
  <2>2. TypeOK'
    BY <1>0, <1>1, NumbersAssumption DEF RunForCycles, TypeOK
  <2>3. Phases' /\ Budget' /\ AtOnce'
    BY <1>0, <1>1 DEF RunForCycles, Phases, Budget, AtOnce, RunAtOnce
  <2>. QED
    BY <2>1, <2>2, <2>3, QuietKeepsList DEF IInv
<1>2. CASE RunTilTag
  <2>1. Quiet /\ clock' = clock /\ clock \in Nat
    BY <1>0, <1>2 DEF RunTilTag, Quiet, TypeOK
  <2>2. TypeOK'
    BY <1>0, <1>2 DEF RunTilTag, TypeOK
  <2>3. Phases' /\ Budget' /\ AtOnce'
    BY <1>0, <1>2 DEF RunTilTag, Phases, Budget, AtOnce, RunAtOnce
  <2>. QED
    BY <2>1, <2>2, <2>3, QuietKeepsList DEF IInv
<1>3. CASE Unbreak
  <2>1. Quiet /\ clock' = clock /\ clock \in Nat
    BY <1>0, <1>3 DEF Unbreak, Quiet, TypeOK
  <2>2. TypeOK'
    BY <1>0, <1>3 DEF Unbreak, TypeOK
  <2>3. Phases' /\ Budget' /\ AtOnce'
    BY <1>0, <1>3 DEF Unbreak, Phases, Budget, AtOnce, RunAtOnce
  <2>. QED
    BY <2>1, <2>2, <2>3, QuietKeepsList DEF IInv
<1>4. CASE Reset
  <2>1. /\ idCounter \in Nat /\ idCounter >= FirstId /\ idCounter > FirstId
        /\ schId \in [Timers -> Nat] /\ \A s \in Timers : schId[s] < idCounter
    BY <1>0 DEF IInv, TypeOK, Consistent, FirstId
  <2>2. \A s \in Devices : still[s] <=> s \in stale'
    BY <1>4 DEF Reset
  <2>3. /\ events' \in Seq(Event(Owners)) /\ Has(events', Frame)
        /\ Consistent(events', 0, idCounter + 1, still, schId, stale')
    BY <1>4, <2>1, <2>2, FirstListIsConsistent DEF Reset, ResetId
  <2>4. TypeOK'
    BY <1>0, <1>4, <2>3 DEF Reset, ResetId, TypeOK
  <2>5. Consistent(events, clock, idCounter, still, schId, stale)' /\ (idCounter > FirstId)'
    BY <1>4, <2>1, <2>3 DEF Reset, ResetId, FirstId
  <2>6. Phases' /\ Budget'
    BY <1>0, <1>4 DEF Reset, Phases, Budget
  <2>7. AtOnce'
    BY <1>0, <1>4 DEF Reset, Phases, AtOnce, RunAtOnce
  <2>. QED
    BY <2>3, <2>4, <2>5, <2>6, <2>7 DEF IInv
<1>. QED
  BY <1>1, <1>2, <1>3, <1>4 DEF Host

----------------------------------------------------------------------------
(* Adding an event by add_abs or add_next keeps the list consistent.       *)
LEMMA FreshId ==
    ASSUME NEW q, NEW now, NEW n \in Nat, NEW flag, NEW ids, NEW forgot,
           Consistent(q, now, n, flag, ids, forgot)
    PROVE  \A k \in 1 .. Len(q) : q[k].id # n
<1>1. \A k \in 1 .. Len(q) : q[k].id \in FirstId .. n - 1
  BY DEF Consistent, IdsIn
<1>. QED
  BY <1>1 DEF FirstId

LEMMA AddAbsStep ==
    ASSUME NEW q \in Seq(Event(Owners)), NEW e \in Event(Owners), NEW now \in Nat, NEW n \in Nat,
           NEW flag, NEW flag2, NEW forgot, NEW forgot2,
           NEW ids \in [Timers -> Nat], NEW ids2 \in [Timers -> Nat],
           Consistent(q, now, n, flag, ids, forgot), n >= FirstId,
           e.id = n, ~Has(q, e.src), e.late <=> IsDue(e.time, now),
           Noted(e, flag, flag2, ids, ids2, forgot, forgot2)
    PROVE  /\ AddAbs(q, e, now) \in Seq(Event(Owners))
           /\ Consistent(AddAbs(q, e, now), now, n + 1, flag2, ids2, forgot2)
           /\ \A u \in Owners : Has(AddAbs(q, e, now), u) <=> (u = e.src \/ Has(q, u))
<1>1. \A k \in 1 .. Len(q) : q[k].id # e.id
  BY FreshId
<1>2. InOrder(q) /\ LateOnlyWhenDue(q, now) /\ DistinctIds(q)
  BY DEF Consistent
<1>3. AddAbs(q, e, now) \in Seq(Event(Owners)) /\ Added(q, e, AddAbs(q, e, now), now)
  BY <1>1, <1>2, AddAbsAdds
<1>4. Consistent(AddAbs(q, e, now), now, n + 1, flag2, ids2, forgot2)
  BY <1>3, ConsistentAdded
<1>. QED
  BY <1>3, <1>4 DEF Added

LEMMA NewEventIsAnEvent ==
    ASSUME IInv, NEW s \in Owners, NEW t \in Int, NEW tag \in Nat, NEW e,
           e = NewEvent(idCounter, t, s, tag)
    PROVE  /\ e \in Event(Owners) /\ e.id = idCounter /\ e.src = s /\ e.time = t
           /\ e.late <=> IsDue(e.time, clock)
<1>1. idCounter \in Nat
  BY DEF IInv, TypeOK
<1>2. IsDue(t, clock) \in BOOLEAN
  BY DEF IsDue
<1>. QED
  BY <1>1, <1>2 DEF NewEvent, Event

(* A popped event is the only one its source had.                          *)
LEMMA PoppedIsGone ==
    ASSUME IInv
    PROVE  /\ Tail(events) \in Seq(Event(Owners))
           /\ Without(events, Tail(events), Head(events).src)
<1>. DEFINE E == Event(Owners)
            n == Len(events)
            r == Tail(events)
<1>1. events \in Seq(E) /\ events # <<>> /\ n \in Nat /\ n >= 1 /\ Head(events) = events[1]
  BY HeadIsAnEvent, LenProperties DEF IInv, TypeOK
<1>2. \A u \in Owners : AtMostOne(events, u)
  BY DEF IInv, Consistent
<1>. HIDE DEF E
<1>3. /\ r \in Seq(E)
      /\ Thinned(events, r)
      /\ Len(r) = n - 1
      /\ \A i \in 1 .. n - 1 : r[i] = events[i + 1]
  BY <1>1, TailIsThinned
<1>. HIDE DEF r, n
<1>4. ASSUME NEW u \in Owners, Has(r, u)
      PROVE  u # events[1].src /\ Has(events, u)
  <2>1. PICK i \in 1 .. n - 1 : r[i].src = u
    BY <1>3, <1>4 DEF Has
  <2>2. i + 1 \in 1 .. n /\ 1 \in 1 .. n /\ i + 1 # 1 /\ events[i + 1].src = u
    BY <1>1, <1>3, <2>1
  <2>. QED
    BY <1>2, <2>2 DEF Has, AtMostOne, n
<1>5. ASSUME NEW u \in Owners, u # events[1].src, Has(events, u)
      PROVE  Has(r, u)
  <2>1. PICK k \in 1 .. n : events[k].src = u
    BY <1>5 DEF Has, n
  <2>2. k # 1
    BY <1>5, <2>1
  <2>3. k - 1 \in 1 .. n - 1 /\ (k - 1) + 1 = k
    BY <1>1, <2>1, <2>2
  <2>4. r[k - 1] = events[(k - 1) + 1]
    BY <1>3, <2>3
  <2>. QED
    BY <1>3, <2>1, <2>3, <2>4 DEF Has
<1>. QED
  BY <1>1, <1>3, <1>4, <1>5 DEF r, E, Without

----------------------------------------------------------------------------
LEMMA DispatchKeepsInv ==
    ASSUME IInv, Dispatch
    PROVE  IInv'
<1>. DEFINE e == Head(events)
            next == NewEvent(idCounter, e.time + FramePeriod, Frame, FrameTag)
            q == Tail(events)
<1>0. TypeOK /\ Phases /\ idCounter > FirstId /\ idCounter >= FirstId /\ Has(events, Frame)
  BY DEF IInv, FirstId, TypeOK
<1>1. /\ pc = "due" /\ pc' = "callback"
      /\ events' = AfterPop(e)
      /\ idCounter' = IF e.src = Frame THEN idCounter + 1 ELSE idCounter
      /\ still' = [s \in Devices |-> still[s] /\ s # e.src]
      /\ stale' = stale \ {e.src}
      /\ frames' = <<[src |-> e.src, tag |-> e.tag]>>
      /\ UNCHANGED <<clock, schId, cyclesLeft, doBreak, tagMode, loopStart, slice>>
  BY DEF Dispatch
<1>2. e \in Event(Owners) /\ e.src \in Owners /\ e.time \in Int /\ e.tag \in Nat
  BY HeadIsAnEvent DEF Event
<1>3. /\ q \in Seq(Event(Owners)) /\ Without(events, q, e.src)
      /\ \A u \in Owners : Has(q, u) <=> (u # e.src /\ Has(events, u))
  BY PoppedIsGone DEF Without
<1>4. clock \in Nat /\ idCounter \in Nat /\ schId \in [Timers -> Nat] /\ events \in Seq(Event(Owners))
  BY <1>0 DEF TypeOK
<1>5. Consistent(q, clock, idCounter, still', schId, stale')
  <2>1. \A u \in Devices : u # e.src => still'[u] = still[u] /\ (u \in stale' <=> u \in stale)
    BY <1>0, <1>1 DEF TypeOK
  <2>2. Dropped(e.src, still, still', stale, stale')
    BY <1>1, <2>1 DEF Dropped
  <2>3. Consistent(events, clock, idCounter, still, schId, stale)
    BY DEF IInv
  <2>. HIDE DEF e, q
  <2>. QED
    BY <1>3, <1>4, <2>1, <2>2, <2>3, ConsistentWithout
<1>6. /\ events' \in Seq(Event(Owners)) /\ Has(events', Frame)
      /\ Consistent(events', clock, idCounter', still', schId, stale')
  <2>1. CASE e.src # Frame
    <3>1. events' = q /\ idCounter' = idCounter
      BY <1>1, <2>1 DEF AfterPop
    <3>2. Has(q, Frame)
      BY <1>0, <1>3, <2>1 DEF Owners
    <3>. QED
      BY <1>3, <1>5, <3>1, <3>2
  <2>2. CASE e.src = Frame
    <3>1. events' = AddAbs(q, next, clock) /\ idCounter' = idCounter + 1
      BY <1>1, <2>2 DEF AfterPop
    <3>2. /\ next \in Event(Owners) /\ next.id = idCounter /\ next.src = Frame
          /\ next.late <=> IsDue(next.time, clock)
      <4>1. e.time + FramePeriod \in Int /\ FrameTag \in Nat /\ Frame \in Owners
        BY <1>2, NumbersAssumption DEF Owners
      <4>. QED
        BY <4>1, NewEventIsAnEvent
    <3>3. ~Has(q, Frame)
      BY <1>3, <2>2 DEF Owners
    <3>4. Noted(next, still', still', schId, schId, stale', stale')
      BY <3>2, OwnersAssumption DEF Noted, Devices
    <3>. HIDE DEF e, q, next
    <3>5. /\ AddAbs(q, next, clock) \in Seq(Event(Owners))
          /\ Consistent(AddAbs(q, next, clock), clock, idCounter + 1, still', schId, stale')
          /\ \A u \in Owners : Has(AddAbs(q, next, clock), u) <=> (u = next.src \/ Has(q, u))
      BY <1>0, <1>3, <1>4, <1>5, <3>2, <3>3, <3>4, AddAbsStep
    <3>. QED
      BY <3>1, <3>2, <3>5 DEF Owners
  <2>. QED
    BY <2>1, <2>2
<1>7. TypeOK'
  <2>1. frames' \in Frames
    BY <1>1, <1>2 DEF Frames
  <2>2. still' \in [Devices -> BOOLEAN]
    BY <1>1
  <2>3. stale' \in SUBSET Devices /\ idCounter' \in Nat
    BY <1>0, <1>1 DEF TypeOK
  <2>. QED
    BY <1>0, <1>1, <1>6, <2>1, <2>2, <2>3 DEF TypeOK
<1>8. Phases'
  BY <1>1 DEF Phases
<1>9. AtOnce'
  <2>1. \A s \in Owners : ~RunAtOnce(s)'
    BY <1>1 DEF RunAtOnce
  <2>. QED
    BY <2>1 DEF AtOnce
<1>10. Budget' /\ (idCounter > FirstId)'
  BY <1>0, <1>1, <1>4 DEF IInv, Budget, FirstId
<1>. QED
  BY <1>1, <1>6, <1>7, <1>8, <1>9, <1>10 DEF IInv

LEMMA LoopKeepsInv ==
    ASSUME IInv, Loop
    PROVE  IInv'
<1>. USE DEF loopVars, deviceVars
<1>0. TypeOK /\ Phases /\ AtOnce /\ Budget /\ events # <<>>
  BY HeadIsAnEvent DEF IInv
<1>1. CASE OuterLoop
  <2>1. Quiet /\ clock' = clock /\ clock \in Nat /\ cyclesLeft \in Int
    BY <1>0, <1>1 DEF OuterLoop, Quiet, TypeOK
  <2>2. TypeOK'
    BY <1>0, <1>1 DEF OuterLoop, Return, TypeOK
  <2>3. Phases' /\ Budget' /\ AtOnce'
    BY <1>0, <1>1, <2>1 DEF OuterLoop, Return, Phases, Budget, AtOnce, RunAtOnce
  <2>. QED
    BY <2>1, <2>2, <2>3, QuietKeepsList DEF IInv
<1>2. CASE CallbackReturn
  <2>1. Quiet /\ clock' = clock /\ clock \in Nat /\ Charged \in Int /\ cyclesLeft \in Int
    BY <1>0, <1>2 DEF CallbackReturn, Quiet, TypeOK, Charged
  <2>2. TypeOK'
    <3>1. frames' \in Frames /\ loopStart' \in Nat /\ cyclesLeft' \in Int
      BY <1>0, <1>2, <2>1 DEF CallbackReturn, Return, TypeOK, Frames
    <3>2. pc' \in {"idle", "due"}
      BY <1>2 DEF CallbackReturn, Return
    <3>. QED
      BY <1>0, <1>2, <2>1, <3>1, <3>2 DEF CallbackReturn, TypeOK
  <2>3. Phases'
    BY <1>2 DEF CallbackReturn, Return, Phases
  <2>4. AtOnce'
    <3>1. \A s \in Owners : ~RunAtOnce(s)'
      BY <1>2 DEF CallbackReturn, RunAtOnce
    <3>. QED
      BY <3>1 DEF AtOnce
  <2>5. Budget'
    BY <1>0, <1>2, <2>1 DEF CallbackReturn, Finished, Return, Budget
  <2>. QED
    BY <2>1, <2>2, <2>3, <2>4, <2>5, QuietKeepsList DEF IInv
<1>3. CASE StartBlock
  <2>1. Quiet /\ clock' = clock /\ clock \in Nat /\ cyclesLeft \in Int
    BY <1>0, <1>3 DEF StartBlock, Quiet, TypeOK
  <2>2. slice' \in 0 .. MaxBlock
    <3>1. CASE OutOfCycles
      BY <1>0, <1>3, <3>1 DEF StartBlock, TypeOK
    <3>2. CASE ~OutOfCycles
      <4>1. slice' = Slice /\ Slice \in 1 .. MaxBlock
        BY <1>3, <3>2, SliceIsLeast DEF StartBlock
      <4>. QED
        BY <4>1
    <3>. QED
      BY <3>1, <3>2
  <2>3. TypeOK'
    <3>1. pc' \in {"idle", "block"} /\ cyclesLeft' \in Int
      BY <1>3, <2>1 DEF StartBlock, Return
    <3>. QED
      BY <1>0, <1>3, <2>2, <3>1 DEF StartBlock, TypeOK
  <2>4. Phases' /\ AtOnce'
    BY <1>0, <1>3 DEF StartBlock, Return, Phases, AtOnce, RunAtOnce
  <2>5. Budget'
    <3>1. tagMode \in Nat
      BY <1>0, NumbersAssumption DEF TypeOK
    <3>. QED
      BY <1>0, <1>3, <2>1, <3>1 DEF StartBlock, OutOfCycles, Return, Budget
  <2>. QED
    BY <2>1, <2>3, <2>4, <2>5, QuietKeepsList DEF IInv
<1>. QED
  BY <1>1, <1>2, <1>3, DispatchKeepsInv DEF Loop

LEMMA CpuKeepsInv ==
    ASSUME IInv, Cpu
    PROVE  IInv'
<1>. USE DEF loopVars, deviceVars
<1>0. TypeOK /\ Phases /\ AtOnce /\ Budget
  BY DEF IInv
<1>1. ASSUME NEW n \in 1 .. MaxInstr, Instruction(n)
      PROVE  IInv'
  <2>1. Quiet /\ clock' \in Nat /\ clock' >= clock /\ clock \in Nat
    BY <1>0, <1>1, NumbersAssumption DEF Instruction, Quiet, TypeOK
  <2>2. TypeOK'
    BY <1>0, <1>1, <2>1 DEF Instruction, TypeOK
  <2>3. Phases' /\ Budget' /\ AtOnce'
    BY <1>0, <1>1 DEF Instruction, Phases, Budget, AtOnce, RunAtOnce
  <2>. QED
    BY <2>1, <2>2, <2>3, QuietKeepsList DEF IInv
<1>2. CASE HaltedBlock
  <2>1. Head(events).time \in Int
    BY HeadIsAnEvent DEF Event
  <2>2. Quiet /\ clock' \in Nat /\ clock' >= clock /\ clock \in Nat
    BY <1>0, <1>2, <2>1 DEF HaltedBlock, Quiet, TypeOK
  <2>3. TypeOK'
    BY <1>0, <1>2, <2>2 DEF HaltedBlock, TypeOK
  <2>4. Phases' /\ Budget' /\ AtOnce'
    BY <1>0, <1>2 DEF HaltedBlock, Phases, Budget, AtOnce, RunAtOnce
  <2>. QED
    BY <2>2, <2>3, <2>4, QuietKeepsList DEF IInv
<1>3. CASE BlockReturn
  <2>1. Quiet /\ clock' = clock /\ clock \in Nat /\ Charged \in Int
    BY <1>0, <1>3 DEF BlockReturn, Quiet, TypeOK, Charged
  <2>2. TypeOK'
    BY <1>0, <1>3, <2>1 DEF BlockReturn, TypeOK
  <2>3. Phases' /\ Budget' /\ AtOnce'
    BY <1>0, <1>3 DEF BlockReturn, Phases, Budget, AtOnce, RunAtOnce
  <2>. QED
    BY <2>1, <2>2, <2>3, QuietKeepsList DEF IInv
<1>. QED
  BY <1>1, <1>2, <1>3 DEF Cpu

----------------------------------------------------------------------------
LEMMA CancelKeepsInv ==
    ASSUME IInv, NEW s \in Timers, Cancel(s)
    PROVE  IInv'
<1>0. /\ TypeOK /\ Phases /\ AtOnce /\ Budget /\ Has(events, Frame) /\ idCounter > FirstId
      /\ Consistent(events, clock, idCounter, still, schId, stale)
      /\ clock \in Nat /\ idCounter \in Nat /\ schId \in [Timers -> Nat]
      /\ events \in Seq(Event(Owners))
  BY DEF IInv, TypeOK
<1>1. /\ Calling /\ still[s] /\ events' = WithoutOwn(s)
      /\ still' = [u \in Devices |-> still[u] /\ u \notin Cleared(s)]
      /\ stale' = stale \ Cleared(s)
      /\ UNCHANGED <<clock, idCounter, schId, cyclesLeft, tagMode, loopStart, slice, pc,
                     doBreak, frames>>
  BY DEF Cancel, loopVars
<1>2. /\ events' \in Seq(Event(Owners)) /\ Without(events, events', s)
      /\ Cleared(s) = IF Has(events, s) THEN {s} ELSE {}
  BY <1>1, WithoutOwnTakesOwn
<1>3. Dropped(s, still, still', stale, stale')
  <2>1. Has(events, s) \/ s \in stale
    BY <1>0, <1>1 DEF Consistent, Devices
  <2>2. \A u \in Devices : still[u] \in BOOLEAN
    BY <1>0 DEF TypeOK
  <2>. QED
    BY <1>1, <1>2, <2>1, <2>2 DEF Dropped
<1>4. Consistent(events', clock, idCounter, still', schId, stale')
  BY <1>0, <1>2, <1>3, ConsistentWithout
<1>5. TypeOK'
  <2>1. still' \in [Devices -> BOOLEAN]
    BY <1>1
  <2>2. stale' \in SUBSET Devices
    BY <1>0, <1>1 DEF TypeOK
  <2>. QED
    BY <1>0, <1>1, <1>2, <2>1, <2>2 DEF TypeOK
<1>6. \A u \in Owners : Has(events', u) <=> (u # s /\ Has(events, u))
  BY <1>2 DEF Without
<1>7. Has(events', Frame) /\ Phases' /\ Budget'
  BY <1>0, <1>1, <1>6, OwnersAssumption DEF Owners, Devices, Phases, Budget, Calling
<1>8. AtOnce'
  BY <1>0, <1>1, <1>6 DEF AtOnce, RunAtOnce
<1>. QED
  BY <1>0, <1>1, <1>4, <1>5, <1>7, <1>8 DEF IInv

(* After a cancel, with nothing recorded of s.                             *)
LEMMA CancelledIsConsistent ==
    ASSUME IInv, NEW s \in Timers
    PROVE  Consistent(WithoutOwn(s), clock, idCounter,
                      [u \in Devices |-> u # s /\ still[u]], schId, stale \ {s})
<1>. DEFINE flag == [u \in Devices |-> u # s /\ still[u]]
            forgot == stale \ {s}
<1>0. /\ Consistent(events, clock, idCounter, still, schId, stale)
      /\ clock \in Nat /\ idCounter \in Nat /\ schId \in [Timers -> Nat]
      /\ events \in Seq(Event(Owners))
      /\ \A u \in Devices : still[u] \in BOOLEAN
  BY DEF IInv, TypeOK
<1>1. WithoutOwn(s) \in Seq(Event(Owners)) /\ Without(events, WithoutOwn(s), s)
  BY WithoutOwnTakesOwn
<1>2. Dropped(s, still, flag, stale, forgot)
  BY <1>0 DEF Dropped
<1>. HIDE DEF flag, forgot
<1>3. Consistent(WithoutOwn(s), clock, idCounter, flag, schId, forgot)
  BY <1>0, <1>1, <1>2, ConsistentWithout
<1>. QED
  BY <1>3 DEF flag, forgot

LEMMA RescheduleKeepsInv ==
    ASSUME IInv, NEW s \in Timers, NEW t \in Int, Reschedule(s, t)
    PROVE  IInv'
<1>. DEFINE e == NewEvent(idCounter, t, s, 0)
            q == WithoutOwn(s)
            flag == [u \in Devices |-> u # s /\ still[u]]
            forgot == stale \ {s}
<1>0. /\ TypeOK /\ Phases /\ AtOnce /\ Budget /\ Has(events, Frame)
      /\ idCounter > FirstId /\ idCounter >= FirstId
      /\ Consistent(events, clock, idCounter, still, schId, stale)
      /\ clock \in Nat /\ idCounter \in Nat /\ schId \in [Timers -> Nat]
      /\ events \in Seq(Event(Owners))
  BY DEF IInv, TypeOK, FirstId
<1>1. /\ Calling /\ ~RunAtOnce(s)
      /\ events' = AddAbs(q, e, clock)
      /\ still' = [u \in Devices |-> u = s \/ (still[u] /\ u \notin Cleared(s))]
      /\ schId' = [schId EXCEPT ![s] = idCounter]
      /\ idCounter' = idCounter + 1
      /\ stale' = stale \ (Cleared(s) \cup {s})
      /\ UNCHANGED <<clock, cyclesLeft, tagMode, loopStart, slice, pc, doBreak, frames>>
  BY DEF Reschedule, MayArm, loopVars
<1>2. /\ q \in Seq(Event(Owners)) /\ Without(events, q, s)
      /\ Cleared(s) = IF Has(events, s) THEN {s} ELSE {}
  BY WithoutOwnTakesOwn
<1>3. \A u \in Owners : Has(q, u) <=> (u # s /\ Has(events, u))
  BY <1>2 DEF Without
<1>4. s \in Owners /\ s \in Devices /\ s # Frame
  BY OwnersAssumption DEF Owners, Devices
<1>5. /\ e \in Event(Owners) /\ e.id = idCounter /\ e.src = s
      /\ e.late <=> IsDue(e.time, clock)
  BY <1>4, NewEventIsAnEvent
<1>6. Consistent(q, clock, idCounter, flag, schId, forgot)
  BY CancelledIsConsistent
<1>7. Noted(e, flag, still', schId, schId', forgot, stale')
  BY <1>0, <1>1, <1>2, <1>5 DEF Noted
<1>8. schId' \in [Timers -> Nat]
  BY <1>0, <1>1
<1>9. ~Has(q, e.src)
  BY <1>3, <1>4, <1>5
<1>. HIDE DEF e, q, flag, forgot
<1>10. /\ events' \in Seq(Event(Owners))
       /\ Consistent(events', clock, idCounter + 1, still', schId', stale')
       /\ \A u \in Owners : Has(events', u) <=> (u = e.src \/ Has(q, u))
  <2>1. /\ AddAbs(q, e, clock) \in Seq(Event(Owners))
        /\ Consistent(AddAbs(q, e, clock), clock, idCounter + 1, still', schId', stale')
        /\ \A u \in Owners : Has(AddAbs(q, e, clock), u) <=> (u = e.src \/ Has(q, u))
    BY <1>0, <1>2, <1>5, <1>6, <1>7, <1>8, <1>9, AddAbsStep
  <2>. QED
    BY <1>1, <2>1
<1>11. TypeOK'
  <2>1. still' \in [Devices -> BOOLEAN]
    BY <1>1
  <2>2. stale' \in SUBSET Devices /\ idCounter' \in Nat
    BY <1>0, <1>1 DEF TypeOK
  <2>. QED
    BY <1>0, <1>1, <1>8, <1>10, <2>1, <2>2 DEF TypeOK
<1>12. Has(events', Frame)
  BY <1>0, <1>3, <1>4, <1>10 DEF Owners
<1>13. AtOnce'
  <2>1. \A u \in Owners : RunAtOnce(u)' => u # s /\ u \in Timers /\ ~Has(events, u)
    BY <1>0, <1>1 DEF AtOnce, RunAtOnce
  <2>. QED
    BY <1>3, <1>5, <1>10, <2>1 DEF AtOnce
<1>14. Phases' /\ Budget' /\ (idCounter > FirstId)'
  BY <1>0, <1>1 DEF Phases, Budget, Calling, FirstId
<1>. QED
  BY <1>1, <1>10, <1>11, <1>12, <1>13, <1>14 DEF IInv

LEMMA RunNowKeepsInv ==
    ASSUME IInv, NEW s \in Timers, NEW t \in Int, RunNow(s, t)
    PROVE  IInv'
<1>. DEFINE q == WithoutOwn(s)
            flag == [u \in Devices |-> u # s /\ still[u]]
<1>0. /\ TypeOK /\ Phases /\ AtOnce /\ Budget /\ Has(events, Frame)
      /\ idCounter > FirstId /\ idCounter \in Nat
  BY DEF IInv, TypeOK
<1>1. /\ Calling /\ events' = q
      /\ still' = [u \in Devices |-> u # s /\ still[u] /\ u \notin Cleared(s)]
      /\ idCounter' = idCounter + 1
      /\ frames' = Append(frames, [src |-> s, tag |-> 0])
      /\ stale' = stale \ (Cleared(s) \cup {s})
      /\ UNCHANGED <<clock, schId, cyclesLeft, tagMode, loopStart, slice, pc, doBreak>>
  BY DEF RunNow, MayArm, loopVars
<1>2. /\ q \in Seq(Event(Owners)) /\ Without(events, q, s)
      /\ Cleared(s) = IF Has(events, s) THEN {s} ELSE {}
  BY WithoutOwnTakesOwn
<1>3. \A u \in Owners : Has(q, u) <=> (u # s /\ Has(events, u))
  BY <1>2 DEF Without
<1>4. s \in Owners /\ s \in Devices /\ s # Frame
  BY OwnersAssumption DEF Owners, Devices
<1>5. Consistent(q, clock, idCounter, flag, schId, stale \ {s})
  BY CancelledIsConsistent
<1>6. still' = flag /\ stale' = stale \ {s}
  BY <1>1, <1>2
<1>. HIDE DEF q, flag
<1>7. Consistent(q, clock, idCounter + 1, flag, schId, stale \ {s})
  <2>1. IdsIn(q, FirstId .. (idCounter + 1) - 1)
    BY <1>0, <1>5 DEF Consistent, IdsIn, FirstId
  <2>2. \A u \in Timers : schId[u] < idCounter + 1
    BY <1>0, <1>5 DEF Consistent, TypeOK
  <2>. QED
    BY <1>5, <2>1, <2>2 DEF Consistent
<1>8. frames \in Frames /\ frames' \in Frames /\ Len(frames) \in Nat
  BY <1>0, <1>1, <1>4 DEF TypeOK, Frames
<1>9. /\ Len(frames') = Len(frames) + 1
      /\ \A k \in 1 .. Len(frames) : frames'[k] = frames[k]
      /\ frames'[Len(frames) + 1].src = s
  BY <1>1, <1>8 DEF Frames
<1>10. TypeOK'
  <2>1. still' \in [Devices -> BOOLEAN]
    BY <1>1
  <2>2. stale' \in SUBSET Devices /\ idCounter' \in Nat
    BY <1>0, <1>1 DEF TypeOK
  <2>. QED
    BY <1>0, <1>1, <1>2, <1>8, <2>1, <2>2 DEF TypeOK
<1>11. AtOnce'
  <2>. SUFFICES ASSUME NEW u \in Owners, RunAtOnce(u)'
                PROVE  u \in Timers /\ ~Has(events', u)
    BY DEF AtOnce
  <2>1. PICK k \in 1 .. Len(frames') : frames'[k].src = u /\ (k > 1 \/ pc = "block")
    BY <1>1 DEF RunAtOnce
  <2>2. CASE k \in 1 .. Len(frames)
    <3>1. RunAtOnce(u)
      BY <1>9, <2>1, <2>2 DEF RunAtOnce
    <3>. QED
      BY <1>0, <1>1, <1>3, <3>1 DEF AtOnce
  <2>3. CASE k = Len(frames) + 1
    BY <1>1, <1>3, <1>4, <1>9, <2>1, <2>3
  <2>. QED
    BY <1>8, <1>9, <2>2, <2>3
<1>12. Phases' /\ Budget' /\ (idCounter > FirstId)'
  <2>1. frames' # <<>>
    BY <1>8, <1>9
  <2>. QED
    BY <1>0, <1>1, <2>1 DEF Phases, Budget, Calling, FirstId
<1>13. Has(events', Frame)
  BY <1>0, <1>1, <1>3, <1>4 DEF Owners
<1>. QED
  BY <1>1, <1>6, <1>7, <1>10, <1>11, <1>12, <1>13 DEF IInv

LEMMA RunNowReturnKeepsInv ==
    ASSUME IInv, RunNowReturn
    PROVE  IInv'
<1>. DEFINE n == Len(frames)
            s == frames[n].src
<1>0. /\ TypeOK /\ Phases /\ AtOnce /\ Budget /\ Has(events, Frame) /\ idCounter > FirstId
      /\ Consistent(events, clock, idCounter, still, schId, stale)
      /\ schId \in [Timers -> Nat] /\ idCounter \in Nat
      /\ frames \in Seq([src : Owners, tag : Nat])
  BY DEF IInv, TypeOK, Frames
<1>1. /\ frames # <<>> /\ (n > 1 \/ pc = "block")
      /\ schId' = [schId EXCEPT ![s] = 0]
      /\ frames' = SubSeq(frames, 1, n - 1)
      /\ UNCHANGED <<clock, events, idCounter, still, stale, cyclesLeft, tagMode, loopStart,
                     slice, pc, doBreak>>
  BY DEF RunNowReturn, loopVars
<1>2. n \in Nat /\ n >= 1 /\ n \in 1 .. n
  BY <1>0, <1>1
<1>3. s \in Owners
  <2>1. frames[n] \in [src : Owners, tag : Nat]
    BY <1>0, <1>2, ElementOfSeq
  <2>. QED
    BY <2>1
<1>4. s \in Timers /\ ~Has(events, s)
  <2>1. RunAtOnce(s)
    BY <1>1, <1>2 DEF RunAtOnce
  <2>. QED
    BY <1>0, <1>3, <2>1 DEF AtOnce
<1>5. /\ frames' \in Seq([src : Owners, tag : Nat])
      /\ Len(frames') = n - 1
      /\ \A k \in 1 .. n - 1 : frames'[k] = frames[k]
  <2>. DEFINE E == [src : Owners, tag : Nat]
  <2>. HIDE DEF E
  <2>1. \A k \in 1 .. n - 1 : frames[k] \in E
    <3>1. \A k \in 1 .. n : frames[k] \in E
      BY <1>0, ElementOfSeq DEF E
    <3>. QED
      BY <1>2, <3>1
  <2>. DEFINE m == n - 1
              r == SubSeq(frames, 1, m)
  <2>. HIDE DEF n, r
  <2>2. m \in Nat /\ (m >= 1 => m - 1 + 1 = m) /\ (m < 1 => m = 0)
    BY <1>2
  <2>. USE DEF r
  <2>3. \A i \in 1 .. m : frames[i] \in E
    BY <2>1
  <2>. HIDE DEF m
  <2>4. /\ r \in Seq(E)
        /\ Len(r) = IF 1 <= m THEN m - 1 + 1 ELSE 0
        /\ \A i \in 1 .. m - 1 + 1 : r[i] = frames[1 + i - 1]
    BY <2>2, <2>3, SubSeqProperties
  <2>. HIDE DEF r
  <2>5. Len(r) = m /\ \A i \in 1 .. m : r[i] = frames[i]
    BY <2>2, <2>4
  <2>. QED
    BY <1>1, <2>4, <2>5 DEF E, m, r
<1>. HIDE DEF n
<1>6. Consistent(events, clock, idCounter, still, schId, stale)'
  <2>1. \A u \in Timers : schId'[u] < idCounter
    BY <1>0, <1>1 DEF Consistent, FirstId
  <2>2. \A u \in Timers, k \in 1 .. Len(events) : events[k].id = schId'[u] <=> events[k].src = u
    <3>. SUFFICES ASSUME NEW u \in Timers, NEW k \in 1 .. Len(events)
                  PROVE  events[k].id = schId'[u] <=> events[k].src = u
      OBVIOUS
    <3>1. CASE u = s
      <4>1. schId'[u] = 0
        BY <1>0, <1>1, <3>1
      <4>2. events[k].id \in FirstId .. idCounter - 1
        BY <1>0 DEF Consistent, IdsIn
      <4>3. events[k].id # 0
        BY <4>2 DEF FirstId
      <4>. QED
        BY <1>4, <3>1, <4>1, <4>3 DEF Has
    <3>2. CASE u # s
      BY <1>0, <1>1, <3>2 DEF Consistent
    <3>. QED
      BY <3>1, <3>2
  <2>. QED
    BY <1>0, <1>1, <2>1, <2>2 DEF Consistent
<1>7. TypeOK'
  <2>1. schId' \in [Timers -> Nat]
    BY <1>0, <1>1
  <2>. QED
    BY <1>0, <1>1, <1>5, <2>1 DEF TypeOK, Frames
<1>8. AtOnce'
  <2>1. \A u \in Owners : RunAtOnce(u)' => RunAtOnce(u)
    BY <1>1, <1>2, <1>5 DEF RunAtOnce, n
  <2>. QED
    BY <1>0, <1>1, <2>1 DEF AtOnce
<1>9. Phases' /\ Budget'
  <2>1. pc = "callback" => frames' # <<>>
    BY <1>1, <1>2, <1>5
  <2>2. pc \in {"callback", "block"}
    BY <1>0, <1>1 DEF Phases, TypeOK
  <2>. QED
    BY <1>0, <1>1, <2>1, <2>2 DEF Phases, Budget
<1>. QED
  BY <1>0, <1>1, <1>6, <1>7, <1>8, <1>9 DEF IInv

LEMMA AddNextStep ==
    ASSUME NEW q \in Seq(Event(Owners)), NEW e \in Event(Owners), NEW now \in Nat, NEW n \in Nat,
           NEW flag, NEW flag2, NEW forgot, NEW forgot2,
           NEW ids \in [Timers -> Nat], NEW ids2 \in [Timers -> Nat],
           Consistent(q, now, n, flag, ids, forgot), n >= FirstId,
           e.id = n, ~Has(q, e.src), e.late, e.time <= now,
           Noted(e, flag, flag2, ids, ids2, forgot, forgot2)
    PROVE  /\ AddNext(q, e) \in Seq(Event(Owners))
           /\ Consistent(AddNext(q, e), now, n + 1, flag2, ids2, forgot2)
           /\ \A u \in Owners : Has(AddNext(q, e), u) <=> (u = e.src \/ Has(q, u))
<1>1. \A k \in 1 .. Len(q) : q[k].id # e.id
  BY FreshId
<1>2. InOrder(q) /\ LateOnlyWhenDue(q, now) /\ DistinctIds(q)
  BY DEF Consistent
<1>3. AddNext(q, e) \in Seq(Event(Owners)) /\ Added(q, e, AddNext(q, e), now)
  BY <1>1, <1>2, AddNextAdds
<1>4. Consistent(AddNext(q, e), now, n + 1, flag2, ids2, forgot2)
  BY <1>3, ConsistentAdded
<1>. QED
  BY <1>3, <1>4 DEF Added

LEMMA ScheduleIrqCheckKeepsInv ==
    ASSUME IInv, NEW s \in IrqChecks, ScheduleIrqCheck(s)
    PROVE  IInv'
<1>. DEFINE e == NewEvent(idCounter, 0, s, 0)
<1>0. /\ TypeOK /\ Phases /\ AtOnce /\ Budget /\ Has(events, Frame)
      /\ idCounter > FirstId /\ idCounter >= FirstId
      /\ Consistent(events, clock, idCounter, still, schId, stale)
      /\ clock \in Nat /\ idCounter \in Nat /\ schId \in [Timers -> Nat]
      /\ events \in Seq(Event(Owners))
  BY DEF IInv, TypeOK, FirstId
<1>1. /\ Calling /\ ~still[s]
      /\ events' = AddNext(events, e)
      /\ still' = [still EXCEPT ![s] = TRUE]
      /\ idCounter' = idCounter + 1
      /\ UNCHANGED <<clock, schId, stale, cyclesLeft, tagMode, loopStart, slice, pc, doBreak,
                     frames>>
  BY DEF ScheduleIrqCheck, loopVars
<1>2. s \in Owners /\ s \in Devices /\ s # Frame /\ s \notin Timers
  BY OwnersAssumption DEF Owners, Devices
<1>3. ~Has(events, s) /\ s \notin stale
  BY <1>0, <1>1, <1>2 DEF Consistent
<1>4. /\ e \in Event(Owners) /\ e.id = idCounter /\ e.src = s /\ e.time = 0 /\ e.late
  BY <1>2, NewEventIsAnEvent DEF IsDue
<1>5. Noted(e, still, still', schId, schId, stale, stale)
  BY <1>0, <1>1, <1>2, <1>3, <1>4 DEF Noted, TypeOK
<1>. HIDE DEF e
<1>6. /\ AddNext(events, e) \in Seq(Event(Owners))
      /\ Consistent(AddNext(events, e), clock, idCounter + 1, still', schId, stale)
      /\ \A u \in Owners : Has(AddNext(events, e), u) <=> (u = e.src \/ Has(events, u))
  <2>1. e.time <= clock /\ ~Has(events, e.src)
    BY <1>0, <1>3, <1>4
  <2>. QED
    BY <1>0, <1>4, <1>5, <2>1, AddNextStep
<1>7. TypeOK'
  BY <1>0, <1>1, <1>2, <1>6 DEF TypeOK
<1>8. Has(events', Frame)
  BY <1>0, <1>1, <1>6 DEF Owners
<1>9. AtOnce'
  <2>1. \A u \in Owners : RunAtOnce(u)' => u # s /\ u \in Timers /\ ~Has(events, u)
    BY <1>0, <1>1, <1>2 DEF AtOnce, RunAtOnce
  <2>. QED
    BY <1>1, <1>4, <1>6, <2>1 DEF AtOnce
<1>10. Phases' /\ Budget' /\ (idCounter > FirstId)'
  BY <1>0, <1>1 DEF Phases, Budget, Calling, FirstId
<1>. QED
  BY <1>1, <1>6, <1>7, <1>8, <1>9, <1>10 DEF IInv

LEMMA DeviceKeepsInv ==
    ASSUME IInv, Device
    PROVE  IInv'
<1>. USE DEF loopVars, deviceVars
<1>0. TypeOK /\ Phases /\ AtOnce /\ Budget /\ clock \in Nat
  BY DEF IInv, TypeOK
<1>1. CASE Breakpoint
  <2>1. Quiet /\ clock' = clock
    BY <1>1 DEF Breakpoint, Quiet
  <2>2. TypeOK'
    BY <1>0, <1>1 DEF Breakpoint, TypeOK
  <2>3. Phases' /\ Budget' /\ AtOnce'
    BY <1>0, <1>1 DEF Breakpoint, Phases, Budget, AtOnce, RunAtOnce
  <2>. QED
    BY <1>0, <2>1, <2>2, <2>3, QuietKeepsList DEF IInv
<1>2. ASSUME NEW n \in Adjusts, AdjustClock(n)
      PROVE  IInv'
  <2>1. Quiet /\ clock' \in Nat /\ clock' >= clock
    BY <1>0, <1>2, NumbersAssumption DEF AdjustClock, Quiet
  <2>2. TypeOK'
    BY <1>0, <1>2, <2>1 DEF AdjustClock, TypeOK
  <2>3. Phases' /\ Budget' /\ AtOnce'
    BY <1>0, <1>2 DEF AdjustClock, Phases, Budget, AtOnce, RunAtOnce
  <2>. QED
    BY <2>1, <2>2, <2>3, QuietKeepsList DEF IInv
<1>3. \A d \in Delays : clock + d \in Int
  BY <1>0, NumbersAssumption
<1>4. ASSUME NEW s \in Timers, NEW d \in Delays, Reschedule(s, clock + d)
      PROVE  IInv'
  BY <1>3, <1>4, RescheduleKeepsInv
<1>5. ASSUME NEW s \in Timers, NEW d \in Delays, RunNow(s, clock + d)
      PROVE  IInv'
  BY <1>3, <1>5, RunNowKeepsInv
<1>. QED
  BY <1>1, <1>2, <1>4, <1>5, CancelKeepsInv, RunNowReturnKeepsInv, ScheduleIrqCheckKeepsInv
     DEF Device

----------------------------------------------------------------------------
LEMMA NextKeepsInv == IInv /\ [Next]_vars => IInv'
<1>. SUFFICES ASSUME IInv, [Next]_vars
              PROVE  IInv'
  OBVIOUS
<1>1. CASE UNCHANGED vars
  <2>1. TypeOK' /\ Phases' /\ AtOnce' /\ Budget'
    BY <1>1 DEF IInv, vars, TypeOK, Phases, AtOnce, RunAtOnce, Budget
  <2>2. /\ Consistent(events, clock, idCounter, still, schId, stale)'
        /\ Has(events, Frame)' /\ (idCounter > FirstId)'
    BY <1>1 DEF IInv, vars
  <2>. QED
    BY <2>1, <2>2 DEF IInv
<1>. QED
  BY <1>1, HostKeepsInv, LoopKeepsInv, CpuKeepsInv, DeviceKeepsInv DEF Next

(* The invariant holds in every reachable state.                           *)
THEOREM Invariant == Spec => []IInv
<1>. QED
  BY InitInv, NextKeepsInv, PTL DEF Spec

(* Every variable has its type; above all, every slice the CPU is given is *)
(* within max_block_size, whatever budget is left.                         *)
THEOREM TypeCorrect == Spec => []TypeOK
<1>1. IInv => TypeOK
  BY DEF IInv
<1>. QED
  BY <1>1, Invariant, PTL

(* The head of the list is the next event to run: nothing behind an event  *)
(* added for the future is earlier, whatever is added, popped or deleted.  *)
THEOREM ListInTimeOrder == Spec => []InTimeOrder
<1>1. IInv => InTimeOrder
  BY DEF IInv, Consistent, InTimeOrder
<1>. QED
  BY <1>1, Invariant, PTL

(* A device's flag is set exactly while one event of it is pending, except *)
(* for the flags a reset forgot, for every interleaving of callbacks,      *)
(* blocks and calls made at once.                                          *)
THEOREM FlagsAgree == Spec => []FlagsMatchEvents
<1>1. IInv => FlagsMatchEvents
  BY DEF IInv, Consistent, FlagsMatchEvents, Devices, Owners
<1>. QED
  BY <1>1, Invariant, PTL

(* A timer can always cancel its event: the id it keeps is that event's.   *)
THEOREM IdsAreHeld == Spec => []TimersHoldTheirIds
<1>1. IInv => TimersHoldTheirIds
  BY DEF IInv, Consistent, TimersHoldTheirIds
<1>. QED
  BY <1>1, Invariant, PTL

(* The list never runs out of its frame event.                             *)
THEOREM AlwaysAFrameEvent == Spec => []FrameEventPending
<1>1. IInv => FrameEventPending
  BY DEF IInv, Consistent, FrameEventPending, Owners
<1>. QED
  BY <1>1, Invariant, PTL

(* Control returns to the host with no cycles left to run.                 *)
THEOREM BudgetUsed == Spec => [](pc = "idle" => cyclesLeft <= 0)
<1>1. IInv => (pc = "idle" => cyclesLeft <= 0)
  BY DEF IInv, Budget
<1>. QED
  BY <1>1, Invariant, PTL

----------------------------------------------------------------------------
(* A block starts only when nothing in the list is due, and no event falls *)
(* inside its slice: the head is not late, so it is the earliest of all.   *)
LEMMA BlockStepRespectsEvents ==
    ASSUME IInv, Next, pc = "due", pc' = "block"
    PROVE  /\ slice' > 0
           /\ \A k \in 1 .. Len(events) : events[k].time >= loopStart + slice'
<1>1. StartBlock /\ ~OutOfCycles
  BY DEF Next, Host, Loop, Cpu, Device, RunForCycles, RunTilTag, Unbreak, Reset, OuterLoop,
         Dispatch, CallbackReturn, StartBlock, Instruction, HaltedBlock, BlockReturn, Breakpoint,
         AdjustClock, Cancel, Reschedule, RunNow, RunNowReturn, ScheduleIrqCheck, MayArm,
         Calling, Return, loopVars
<1>2. /\ Head(events).time > loopStart /\ slice' = Slice
      /\ Slice \in 1 .. MaxBlock /\ Slice <= Head(events).time - loopStart
  BY <1>1, SliceIsLeast DEF StartBlock
<1>3. loopStart = clock /\ loopStart \in Nat
  BY DEF IInv, Phases, TypeOK
<1>4. /\ \A k \in 1 .. Len(events) : events[k].time \in Int
      /\ Head(events).time \in Int
  BY HeadIsAnEvent DEF Event
<1>5. \A k \in 1 .. Len(events) : events[k].time >= Head(events).time
  BY <1>2, <1>3, HeadIsFirst
<1>. QED
  BY <1>2, <1>3, <1>4, <1>5, NumbersAssumption

THEOREM BlocksStopAtEvents == Spec => NoEventInsideSlice
<1>1. IInv /\ [Next]_vars =>
        [pc = "due" /\ pc' = "block" =>
            /\ slice' > 0
            /\ \A k \in 1 .. Len(events) : events[k].time >= loopStart + slice']_vars
  BY BlockStepRespectsEvents
<1>. QED
  BY <1>1, Invariant, PTL DEF Spec, NoEventInsideSlice

(* A step accounts for every cycle it moves the clock by, unless the user  *)
(* broke in.  Only the host changes the sum; the loops move cycles from    *)
(* the budget to the clock.                                                *)
Sum == clock + cyclesLeft - NotYetCharged

LEMMA StepAccountsForCycles ==
    ASSUME IInv, Next, tagMode = 0, tagMode' = 0, ~doBreak, clock' >= clock
    PROVE  Sum' - Sum \in IF pc = "idle" THEN Budgets \cup {0} ELSE {0}
<1>. USE DEF loopVars, deviceVars
<1>0. /\ clock \in Nat /\ cyclesLeft \in Int /\ loopStart \in Nat /\ events # <<>>
      /\ pc = "due" => loopStart = clock
  BY HeadIsAnEvent DEF IInv, TypeOK, Phases
<1>1. ASSUME Host
      PROVE  Sum' - Sum \in IF pc = "idle" THEN Budgets \cup {0} ELSE {0}
  <2>1. ASSUME NEW n \in Budgets, RunForCycles(n)
        PROVE  Sum' - Sum = n /\ pc = "idle"
    BY <1>0, <2>1, NumbersAssumption DEF RunForCycles, Sum, NotYetCharged
  <2>2. CASE RunTilTag
    BY <2>2, NumbersAssumption DEF RunTilTag
  <2>3. CASE Unbreak
    BY <2>3 DEF Unbreak
  <2>4. CASE Reset
    BY <1>0, <2>4 DEF Reset, Sum, NotYetCharged
  <2>. QED
    BY <1>1, <2>1, <2>2, <2>3, <2>4 DEF Host
<1>2. CASE Loop
  <2>1. CASE OuterLoop
    BY <1>0, <2>1 DEF OuterLoop, Sum, NotYetCharged
  <2>2. CASE Dispatch
    BY <1>0, <2>2 DEF Dispatch, Sum, NotYetCharged
  <2>3. CASE CallbackReturn
    <3>1. ~Finished /\ pc = "callback" /\ clock' = clock
      BY <1>0, <2>3 DEF CallbackReturn, Finished
    <3>2. cyclesLeft' = Charged /\ pc' \in {"idle", "due"}
      BY <2>3, <3>1 DEF CallbackReturn, Return
    <3>. QED
      BY <1>0, <3>1, <3>2 DEF Charged, Sum, NotYetCharged
  <2>4. CASE StartBlock
    <3>1. pc = "due" /\ pc' \in {"idle", "block"} /\ cyclesLeft' = cyclesLeft
      BY <2>4 DEF StartBlock, Return
    <3>2. clock' = clock /\ loopStart' = loopStart
      BY <2>4 DEF StartBlock
    <3>. QED
      BY <1>0, <3>1, <3>2 DEF Sum, NotYetCharged
  <2>. QED
    BY <1>2, <2>1, <2>2, <2>3, <2>4 DEF Loop
<1>3. CASE Cpu
  <2>1. ASSUME NEW n \in 1 .. MaxInstr, Instruction(n)
        PROVE  Sum' - Sum = 0 /\ pc = "block"
    BY <1>0, <2>1 DEF Instruction, Sum, NotYetCharged
  <2>2. ASSUME HaltedBlock
        PROVE  Sum' - Sum = 0 /\ pc = "block"
    <3>1. Head(events).time \in Int
      BY HeadIsAnEvent DEF Event
    <3>. QED
      BY <1>0, <2>2, <3>1 DEF HaltedBlock, Sum, NotYetCharged
  <2>3. ASSUME BlockReturn
        PROVE  Sum' - Sum = 0 /\ pc = "block"
    BY <1>0, <2>3 DEF BlockReturn, Charged, Sum, NotYetCharged
  <2>. QED
    BY <1>3, <2>1, <2>2, <2>3 DEF Cpu
<1>4. CASE Device
  <2>1. ASSUME NEW n \in Adjusts, AdjustClock(n)
        PROVE  Sum' - Sum = 0 /\ pc = "callback"
    BY <1>0, <2>1, NumbersAssumption DEF AdjustClock, Sum, NotYetCharged
  <2>2. ASSUME UNCHANGED <<clock, cyclesLeft, loopStart, pc>>, Calling \/ frames # <<>>
        PROVE  Sum' - Sum = 0 /\ pc # "idle"
    BY <1>0, <2>2 DEF Sum, NotYetCharged, Calling, IInv, Phases
  <2>3. CASE Breakpoint
    BY <2>2, <2>3 DEF Breakpoint
  <2>4. CASE RunNowReturn
    BY <2>2, <2>4 DEF RunNowReturn
  <2>5. CASE \E s \in Timers : Cancel(s)
    BY <2>2, <2>5 DEF Cancel
  <2>6. CASE \E s \in Timers, d \in Delays : Reschedule(s, clock + d)
    BY <2>2, <2>6 DEF Reschedule, MayArm
  <2>7. CASE \E s \in Timers, d \in Delays : RunNow(s, clock + d)
    BY <2>2, <2>7 DEF RunNow, MayArm
  <2>8. CASE \E s \in IrqChecks : ScheduleIrqCheck(s)
    BY <2>2, <2>8 DEF ScheduleIrqCheck
  <2>. QED
    BY <1>4, <2>1, <2>3, <2>4, <2>5, <2>6, <2>7, <2>8 DEF Device
<1>. QED
  BY <1>1, <1>2, <1>3, <1>4 DEF Next

(* No cycle is lost or run twice, whichever of the CPU's blocks and the    *)
(* devices' callbacks moves the clock.                                     *)
THEOREM EveryCycleAccounted == Spec => CyclesAccounted
<1>1. ASSUME IInv, [Next]_vars
      PROVE  [tagMode = 0 /\ tagMode' = 0 /\ ~doBreak /\ clock' >= clock =>
                  LET was == clock + cyclesLeft - NotYetCharged
                      is  == clock' + cyclesLeft' - NotYetCharged'
                  IN  is - was \in IF pc = "idle" THEN Budgets \cup {0} ELSE {0}]_vars
  BY <1>1, StepAccountsForCycles DEF Sum
<1>. QED
  BY <1>1, Invariant, PTL DEF Spec, CyclesAccounted

----------------------------------------------------------------------------
(* The scheduler implements Alarms.  The refinement needs one more         *)
(* invariant than the properties do: what was due when it was added is     *)
(* ahead of what was not, so that the head is what may ring first.         *)
LateInFront == LateFirst(events)

(* Taking the only event of s out takes its alarm out and no other.        *)
LEMMA WithoutAlarms ==
    ASSUME NEW q \in Seq(Event(Owners)), NEW r \in Seq(Event(Owners)), NEW s,
           Without(q, r, s), \A u \in Owners : AtMostOne(q, u)
    PROVE  AlarmsOf(r) = {a \in AlarmsOf(q) : a.who # s}
<1>. DEFINE E == Event(Owners)
<1>1. q \in Seq(E) /\ r \in Seq(E) /\ Thinned(q, r)
  BY DEF Without
<1>2. \A k \in 1 .. Len(q) : q[k].src \in Owners
  <2>1. \A k \in 1 .. Len(q) : q[k] \in Event(Owners)
    BY ElementOfSeq
  <2>. QED
    BY <2>1 DEF Event
<1>. HIDE DEF E
<1>3. \A i \in 1 .. Len(r) : \E k \in 1 .. Len(q) : r[i] = q[k]
  BY <1>1, ThinnedKeeps
<1>4. \A u \in Owners : Has(r, u) <=> (u # s /\ Has(q, u))
  BY DEF Without
<1>5. ASSUME NEW i \in 1 .. Len(r)
      PROVE  r[i].src # s /\ AlarmOf(r[i]) \in AlarmsOf(q)
  <2>1. PICK k \in 1 .. Len(q) : r[i] = q[k]
    BY <1>3
  <2>2. Has(r, r[i].src) /\ r[i].src \in Owners
    BY <1>2, <2>1 DEF Has
  <2>. QED
    BY <1>4, <2>1, <2>2 DEF AlarmsOf, AlarmOf
<1>6. ASSUME NEW k \in 1 .. Len(q), q[k].src # s
      PROVE  AlarmOf(q[k]) \in AlarmsOf(r)
  <2>1. Has(q, q[k].src) /\ q[k].src \in Owners
    BY <1>2 DEF Has
  <2>2. PICK i \in 1 .. Len(r) : r[i].src = q[k].src
    BY <1>4, <1>6, <2>1 DEF Has
  <2>3. PICK j \in 1 .. Len(q) : r[i] = q[j]
    BY <1>3
  <2>4. j = k
    BY <2>1, <2>2, <2>3 DEF AtMostOne
  <2>. QED
    BY <2>3, <2>4 DEF AlarmsOf, AlarmOf
<1>7. /\ AlarmsOf(r) = {AlarmOf(r[i]) : i \in 1 .. Len(r)}
      /\ AlarmsOf(q) = {AlarmOf(q[k]) : k \in 1 .. Len(q)}
      /\ \A e : AlarmOf(e).who = e.src
  BY DEF AlarmsOf, AlarmOf
<1>8. \A a \in AlarmsOf(r) : a \in AlarmsOf(q) /\ a.who # s
  BY <1>5, <1>7
<1>9. \A a \in AlarmsOf(q) : a.who # s => a \in AlarmsOf(r)
  BY <1>6, <1>7
<1>. QED
  BY <1>8, <1>9

(* The functions in progress, as the clients see them.                     *)
SourcesOf(f) == [k \in 1 .. Len(f) |-> f[k].src]

LEMMA SourcesAppend ==
    ASSUME NEW f \in Frames, NEW s \in Owners
    PROVE  SourcesOf(Append(f, [src |-> s, tag |-> 0])) = Append(SourcesOf(f), s)
<1>. DEFINE F == [src : Owners, tag : Nat]
            x == [src |-> s, tag |-> 0]
            g == Append(f, x)
<1>1. f \in Seq(F) /\ x \in F /\ x.src = s /\ Len(f) \in Nat /\ \A k \in 1 .. Len(f) : f[k] \in F
  BY LenProperties, ElementOfSeq DEF Frames
<1>. HIDE DEF F, x
<1>2. /\ Len(g) = Len(f) + 1 /\ g[Len(f) + 1] = x
      /\ \A k \in 1 .. Len(f) : g[k] = f[k]
  BY <1>1, AppendProperties
<1>. HIDE DEF g
<1>3. SourcesOf(f) \in [1 .. Len(f) -> Owners]
  BY <1>1 DEF SourcesOf, F
<1>4. SourcesOf(f) \in Seq(Owners) /\ Len(SourcesOf(f)) = Len(f)
  BY <1>1, <1>3, FunctionIsSeq
<1>5. SourcesOf(g) \in [1 .. Len(f) + 1 -> Owners] /\ Len(f) + 1 \in Nat
  <2>1. \A k \in 1 .. Len(f) + 1 : g[k].src \in Owners
    <3>1. \A k \in 1 .. Len(f) + 1 : k \in 1 .. Len(f) \/ k = Len(f) + 1
      BY <1>1
    <3>. QED
      BY <1>1, <1>2, <3>1 DEF F
  <2>. QED
    BY <1>1, <1>2, <2>1 DEF SourcesOf
<1>6. SourcesOf(g) \in Seq(Owners) /\ Len(SourcesOf(g)) = Len(f) + 1
  BY <1>5, FunctionIsSeq
<1>. DEFINE h == Append(SourcesOf(f), s)
<1>7. /\ h \in Seq(Owners) /\ Len(h) = Len(f) + 1 /\ h[Len(f) + 1] = s
      /\ \A k \in 1 .. Len(f) : h[k] = SourcesOf(f)[k]
  BY <1>4, AppendProperties
<1>. HIDE DEF h
<1>8. ASSUME NEW k \in 1 .. Len(f) + 1
      PROVE  SourcesOf(g)[k] = h[k]
  <2>1. SourcesOf(g)[k] = g[k].src
    BY <1>2 DEF SourcesOf
  <2>2. CASE k = Len(f) + 1
    BY <1>1, <1>2, <1>7, <2>1, <2>2
  <2>3. CASE k \in 1 .. Len(f)
    BY <1>2, <1>7, <2>1, <2>3 DEF SourcesOf
  <2>. QED
    BY <1>1, <2>2, <2>3
<1>9. SourcesOf(g) = h
  BY <1>6, <1>7, <1>8, SeqEqual
<1>. QED
  BY <1>9 DEF g, h, x

LEMMA SourcesFront ==
    ASSUME NEW f \in Frames, f # <<>>
    PROVE  /\ SourcesOf(SubSeq(f, 1, Len(f) - 1))
                 = SubSeq(SourcesOf(f), 1, Len(SourcesOf(f)) - 1)
           /\ SourcesOf(f) # <<>>
<1>. DEFINE F == [src : Owners, tag : Nat]
            m == Len(f) - 1
            g == SubSeq(f, 1, m)
<1>1. f \in Seq(F) /\ Len(f) \in Nat /\ Len(f) >= 1 /\ \A k \in 1 .. Len(f) : f[k] \in F
  <2>1. f \in Seq(F)
    BY DEF Frames
  <2>. HIDE DEF F
  <2>2. Len(f) \in Nat /\ \A k \in 1 .. Len(f) : f[k] \in F
    BY <2>1, LenProperties, ElementOfSeq
  <2>. QED
    BY <2>1, <2>2
<1>2. \A k \in 1 .. Len(f) : f[k].src \in Owners
  BY <1>1
<1>. HIDE DEF F
<1>3. /\ m \in Nat /\ m + 1 = Len(f) /\ (m >= 1 => m - 1 + 1 = m) /\ (m < 1 => m = 0)
      /\ \A k \in 1 .. m : k \in 1 .. Len(f)
  <2>1. m \in Nat
    BY <1>1
  <2>2. m + 1 = Len(f)
    BY <1>1
  <2>3. \A k \in 1 .. m : k \in 1 .. Len(f)
    BY <1>1
  <2>. HIDE DEF m
  <2>4. (m >= 1 => m - 1 + 1 = m) /\ (m < 1 => m = 0)
    BY <2>1
  <2>. QED
    BY <2>1, <2>2, <2>3, <2>4
<1>4. SourcesOf(f) \in [1 .. Len(f) -> Owners]
  BY <1>2 DEF SourcesOf
<1>5. SourcesOf(f) \in Seq(Owners) /\ Len(SourcesOf(f)) = Len(f)
  BY <1>1, <1>4, FunctionIsSeq
<1>. HIDE DEF m, g
<1>6. Len(g) = m /\ \A k \in 1 .. m : g[k] = f[k]
  <2>. USE DEF g
  <2>1. \A i \in 1 .. m : f[i] \in F
    BY <1>1, <1>3
  <2>2. /\ Len(g) = IF 1 <= m THEN m - 1 + 1 ELSE 0
        /\ \A i \in 1 .. m - 1 + 1 : g[i] = f[1 + i - 1]
    BY <1>3, <2>1, SubSeqProperties
  <2>. HIDE DEF g
  <2>. QED
    BY <1>3, <2>2
<1>. DEFINE h == SubSeq(SourcesOf(f), 1, m)
<1>7. h \in Seq(Owners) /\ Len(h) = m /\ \A k \in 1 .. m : h[k] = SourcesOf(f)[k]
  <2>1. \A i \in 1 .. m : SourcesOf(f)[i] \in Owners
    BY <1>3, <1>4
  <2>2. /\ h \in Seq(Owners)
        /\ Len(h) = IF 1 <= m THEN m - 1 + 1 ELSE 0
        /\ \A i \in 1 .. m - 1 + 1 : h[i] = SourcesOf(f)[1 + i - 1]
    BY <1>3, <2>1, SubSeqProperties
  <2>. HIDE DEF h
  <2>. QED
    BY <1>3, <2>2
<1>. HIDE DEF h
<1>8. SourcesOf(g) \in [1 .. m -> Owners]
  BY <1>2, <1>3, <1>6 DEF SourcesOf
<1>9. SourcesOf(g) \in Seq(Owners) /\ Len(SourcesOf(g)) = m
  BY <1>3, <1>8, FunctionIsSeq
<1>10. \A k \in 1 .. m : SourcesOf(g)[k] = h[k]
  BY <1>3, <1>6, <1>7 DEF SourcesOf
<1>11. SourcesOf(g) = h
  BY <1>7, <1>9, <1>10, SeqEqual
<1>. QED
  BY <1>1, <1>5, <1>11 DEF g, h, m

(* What the clients see of the phase and of the functions in progress.     *)
LEMMA MappedPhase ==
    ASSUME TypeOK
    PROVE  /\ CallsInProgress = SourcesOf(frames)
           /\ Client!InCall <=> frames # <<>>
           /\ Client!InTurn <=> pc = "block"
<1>1. CallsInProgress = SourcesOf(frames)
  BY DEF CallsInProgress, SourcesOf
<1>2. frames \in Frames
  BY DEF TypeOK
<1>3. frames = <<>> => SourcesOf(frames) = <<>>
  BY DEF SourcesOf
<1>4. frames # <<>> => SourcesOf(frames) # <<>>
  BY <1>2, SourcesFront
<1>5. TurnEnd # -1 <=> pc = "block"
  BY DEF TypeOK, TurnEnd
<1>. QED
  BY <1>1, <1>3, <1>4, <1>5 DEF Client!InCall, Client!InTurn, Client!NoTurn

(* A time that is due has been reached: the clock is never negative.       *)
LEMMA DueIsReached ==
    ASSUME NEW t \in Int, NEW now \in Nat
    PROVE  IsDue(t, now) = (t <= now)
<1>1. IsDue(t, now) <=> t <= now
  BY DEF IsDue
<1>2. IsDue(t, now) \in BOOLEAN /\ (t <= now) \in BOOLEAN
  BY DEF IsDue
<1>. QED
  BY <1>1, <1>2

(* The loop pops an event: the alarm that precedes all the others rings.   *)
LEMMA DispatchRings ==
    ASSUME IInv, LateInFront, Dispatch
    PROVE  Client!Rings /\ LateInFront'
<1>. DEFINE e == Head(events)
            q == Tail(events)
            next == NewEvent(idCounter, e.time + FramePeriod, Frame, FrameTag)
            a == AlarmOf(e)
<1>0. /\ TypeOK /\ Phases /\ clock \in Nat
      /\ InOrder(events) /\ LateOnlyWhenDue(events, clock) /\ LateFirst(events)
      /\ \A u \in Owners : AtMostOne(events, u)
      /\ events \in Seq(Event(Owners))
  BY DEF IInv, TypeOK, Consistent, LateInFront
<1>1. /\ pc = "due" /\ pc' = "callback" /\ e.time <= loopStart /\ loopStart = clock
      /\ events' = AfterPop(e) /\ frames = <<>>
      /\ frames' = <<[src |-> e.src, tag |-> e.tag]>> /\ clock' = clock
  BY <1>0 DEF Dispatch, Phases
<1>2. /\ e = events[1] /\ 1 \in 1 .. Len(events)
      /\ e \in Event(Owners) /\ e.src \in Owners /\ e.time \in Int /\ e.late \in BOOLEAN
      /\ \A k \in 1 .. Len(events) : events[k].time \in Int /\ events[k].late \in BOOLEAN
  BY HeadIsAnEvent DEF Event
<1>3. a \in AlarmsOf(events) /\ a.who = e.src /\ a.time = e.time /\ a.late = e.late
  BY <1>2 DEF AlarmsOf, AlarmOf
<1>4. \A b \in AlarmsOf(events) : Client!Precedes(a, b)
  <2>. SUFFICES ASSUME NEW k \in 1 .. Len(events)
                PROVE  Client!Precedes(a, AlarmOf(events[k]))
    BY DEF AlarmsOf, AlarmOf
  <2>1. CASE k = 1
    BY <1>2, <2>1 DEF Client!Precedes, AlarmOf
  <2>2. CASE k # 1
    <3>1. 1 < k
      BY <2>2
    <3>2. e.late \/ (~events[k].late /\ e.time <= events[k].time)
      BY <1>0, <1>2, <3>1 DEF InOrder, LateFirst
    <3>. QED
      BY <3>2 DEF Client!Precedes, AlarmOf
  <2>. QED
    BY <2>1, <2>2
<1>5. /\ q \in Seq(Event(Owners)) /\ Without(events, q, e.src) /\ Thinned(events, q)
  BY PoppedIsGone DEF Without
<1>6. /\ AlarmsOf(q) = {b \in AlarmsOf(events) : b.who # e.src}
      /\ LateFirst(q) /\ LateOnlyWhenDue(q, clock)
  <2>1. LateFirst(q) /\ LateOnlyWhenDue(q, clock)
    <3>. DEFINE E == Event(Owners)
    <3>1. events \in Seq(E) /\ q \in Seq(E)
      BY <1>0, <1>5
    <3>. HIDE DEF E, q
    <3>. QED
      BY <1>0, <1>5, <3>1, ThinnedKeepsFront, ThinnedKeeps
  <2>. HIDE DEF q, e
  <2>. QED
    BY <1>0, <1>5, <2>1, WithoutAlarms
<1>7. LET when == a.time + FramePeriod
          again == {Client!Alarm(Frame, when, when <= clock)}
      IN  /\ AlarmsOf(events') = Client!OthersThan(a.who)
                                    \cup (IF a.who = Frame THEN again ELSE {})
          /\ LateFirst(events')
  <2>1. CASE e.src # Frame
    <3>1. events' = q
      BY <1>1, <2>1 DEF AfterPop
    <3>. HIDE DEF a, e, q
    <3>. QED
      BY <1>3, <1>6, <2>1, <3>1 DEF Client!OthersThan
  <2>2. CASE e.src = Frame
    <3>1. events' = AddAbs(q, next, clock)
      BY <1>1, <2>2 DEF AfterPop
    <3>2. e.time + FramePeriod \in Int /\ FrameTag \in Nat /\ Frame \in Owners
      BY <1>2, NumbersAssumption DEF Owners
    <3>3. /\ next \in Event(Owners) /\ next.src = Frame /\ next.time = e.time + FramePeriod
          /\ next.late <=> IsDue(next.time, clock)
      BY <3>2, NewEventIsAnEvent
    <3>4. next.late = (e.time + FramePeriod <= clock)
      BY <1>0, <3>2, DueIsReached DEF NewEvent
    <3>. HIDE DEF next
    <3>5. AlarmOf(next) = Client!Alarm(Frame, a.time + FramePeriod, a.time + FramePeriod <= clock)
      BY <1>3, <3>3, <3>4 DEF AlarmOf, Client!Alarm
    <3>. HIDE DEF a, e, q
    <3>6. AlarmsOf(events') = AlarmsOf(q) \cup {AlarmOf(next)}
      <4>. DEFINE E == Event(Owners)
      <4>1. q \in Seq(E) /\ next \in E
        BY <1>5, <3>3
      <4>. HIDE DEF E
      <4>. QED
        BY <3>1, <4>1, AddAbsAlarms
    <3>7. LateFirst(events')
      BY <1>0, <1>5, <1>6, <3>1, <3>3, AddAbsKeepsFront
    <3>. QED
      BY <1>3, <1>6, <2>2, <3>5, <3>6, <3>7 DEF Client!OthersThan
  <2>. QED
    BY <2>1, <2>2
<1>8. CallsInProgress' = <<a.who>>
  BY <1>1, <1>3 DEF CallsInProgress
<1>9. ~Client!InCall /\ ~Client!InTurn
  BY <1>0, <1>1, MappedPhase
<1>10. UNCHANGED <<clock, TurnEnd>>
  BY <1>1 DEF TurnEnd
<1>. HIDE DEF a, e
<1>11. Client!Ring(a)
  BY <1>1, <1>3, <1>4, <1>7, <1>8, <1>9, <1>10 DEF Client!Ring
<1>. QED
  BY <1>3, <1>7, <1>11 DEF Client!Rings, LateInFront

(* Steps the clients do not see.                                           *)
Unseen == UNCHANGED Client!vars

LEMMA UnseenIfKept ==
    ASSUME UNCHANGED <<clock, events, frames>>, pc # "block", pc' # "block"
    PROVE  Unseen
BY DEF Unseen, Client!vars, CallsInProgress, TurnEnd

LEMMA UnseenIfNothingMoves ==
    ASSUME UNCHANGED <<clock, events, frames, pc, loopStart, slice>>
    PROVE  Unseen
BY DEF Unseen, Client!vars, CallsInProgress, TurnEnd

(* The host sees to it that a run starts; only its reset shows.            *)
LEMMA HostRefines ==
    ASSUME IInv, LateInFront, Host
    PROVE  (Unseen \/ Client!Restart) /\ LateInFront'
<1>. USE DEF loopVars, deviceVars
<1>0. TypeOK /\ Phases
  BY DEF IInv
<1>1. ASSUME NEW n \in Budgets, RunForCycles(n)
      PROVE  Unseen /\ LateInFront'
  <2>1. pc = "idle" /\ pc' = "loop" /\ UNCHANGED <<clock, events, frames>>
    BY <1>1 DEF RunForCycles
  <2>. QED
    BY <2>1, UnseenIfKept DEF LateInFront
<1>2. ASSUME RunTilTag
      PROVE  Unseen /\ LateInFront'
  <2>1. pc = "idle" /\ pc' = "loop" /\ UNCHANGED <<clock, events, frames>>
    BY <1>2 DEF RunTilTag
  <2>. QED
    BY <2>1, UnseenIfKept DEF LateInFront
<1>3. ASSUME Unbreak
      PROVE  Unseen /\ LateInFront'
  <2>1. UNCHANGED <<clock, events, frames, pc, loopStart, slice>>
    BY <1>3 DEF Unbreak
  <2>. QED
    BY <2>1, UnseenIfNothingMoves DEF LateInFront
<1>4. ASSUME Reset
      PROVE  Client!Restart /\ LateInFront'
  <2>. DEFINE e == FirstFrameEvent(ResetId)
  <2>1. pc = "idle" /\ pc' = "idle" /\ frames = <<>> /\ frames' = <<>>
    BY <1>0, <1>4 DEF Reset, Phases
  <2>2. clock' = 0 /\ events' = <<e>>
    BY <1>4 DEF Reset
  <2>3. Len(events') = 1 /\ events'[1] = e
    BY <2>2
  <2>4. AlarmsOf(events') = {AlarmOf(e)}
    BY <2>3 DEF AlarmsOf, AlarmOf
  <2>5. AlarmOf(e) = Client!Alarm(Frame, FramePeriod, FALSE)
    BY DEF AlarmOf, FirstFrameEvent, Client!Alarm
  <2>6. LateInFront'
    BY <2>3 DEF LateInFront, LateFirst
  <2>7. ~Client!InCall /\ ~Client!InTurn
    BY <1>0, <2>1, MappedPhase
  <2>8. UNCHANGED <<CallsInProgress, TurnEnd>>
    BY <2>1 DEF CallsInProgress, TurnEnd
  <2>. QED
    BY <2>2, <2>4, <2>5, <2>6, <2>7, <2>8 DEF Client!Restart, Client!FirstAlarms
<1>. QED
  BY <1>1, <1>2, <1>3, <1>4 DEF Host

(* The loops: a function returns, or the CPU gets its turn.                *)
LEMMA ReturnRefines ==
    ASSUME IInv, frames # <<>>, frames' = SubSeq(frames, 1, Len(frames) - 1),
           UNCHANGED <<clock, events, TurnEnd>>
    PROVE  Client!Return
<1>1. TypeOK /\ frames \in Frames
  BY DEF IInv, TypeOK
<1>2. CallsInProgress = SourcesOf(frames) /\ CallsInProgress' = SourcesOf(frames')
  BY DEF CallsInProgress, SourcesOf
<1>3. CallsInProgress' = SubSeq(CallsInProgress, 1, Len(CallsInProgress) - 1)
  BY <1>1, <1>2, SourcesFront
<1>4. Client!InCall
  BY <1>1, MappedPhase
<1>. QED
  BY <1>3, <1>4 DEF Client!Return

LEMMA LoopRefines ==
    ASSUME IInv, LateInFront, Loop
    PROVE  (Unseen \/ Client!Rings \/ Client!Return \/ Client!Turns) /\ LateInFront'
<1>. USE DEF loopVars, deviceVars
<1>0. TypeOK /\ Phases /\ clock \in Nat
  BY DEF IInv, TypeOK
<1>1. ASSUME OuterLoop
      PROVE  Unseen /\ LateInFront'
  <2>1. pc = "loop" /\ pc' # "block" /\ UNCHANGED <<clock, events, frames>>
    BY <1>1 DEF OuterLoop, Return
  <2>. QED
    BY <2>1, UnseenIfKept DEF LateInFront
<1>2. ASSUME CallbackReturn
      PROVE  Client!Return /\ LateInFront'
  <2>1. /\ pc = "callback" /\ pc' # "block" /\ UNCHANGED <<clock, events>>
        /\ Len(frames) = 1 /\ frames' = <<>> /\ frames \in Frames
    BY <1>0, <1>2 DEF CallbackReturn, Return, TypeOK
  <2>2. frames # <<>> /\ SubSeq(frames, 1, Len(frames) - 1) = <<>>
    BY <1>0, <2>1 DEF Phases, Frames
  <2>3. UNCHANGED TurnEnd
    BY <2>1 DEF TurnEnd
  <2>. QED
    BY <2>1, <2>2, <2>3, ReturnRefines DEF LateInFront
<1>3. ASSUME StartBlock
      PROVE  (Unseen \/ Client!Turns) /\ LateInFront'
  <2>1. pc = "due" /\ Head(events).time > loopStart /\ UNCHANGED <<clock, events, loopStart, frames>>
        /\ frames = <<>> /\ loopStart = clock
    BY <1>0, <1>3 DEF StartBlock, Phases
  <2>2. CASE OutOfCycles
    <3>1. pc' = "idle"
      BY <1>3, <2>2 DEF StartBlock, Return
    <3>. QED
      BY <2>1, <3>1, UnseenIfKept DEF LateInFront
  <2>3. CASE ~OutOfCycles
    <3>1. pc' = "block" /\ slice' = Slice
      BY <1>3, <2>3 DEF StartBlock
    <3>2. Slice \in 1 .. MaxBlock /\ Slice <= Head(events).time - loopStart
      BY <2>1, <2>3, SliceIsLeast
    <3>3. \A k \in 1 .. Len(events) :
             events[k].time \in Int /\ events[k].time >= Head(events).time /\ Head(events).time \in Int
      BY <2>1, HeadIsFirst, HeadIsAnEvent DEF Event
    <3>4. \A a \in AlarmsOf(events) : clock + Slice <= a.time
      <4>1. ASSUME NEW k \in 1 .. Len(events)
            PROVE  clock + Slice <= events[k].time
        BY <1>0, <2>1, <3>2, <3>3, NumbersAssumption
      <4>. QED
        BY <4>1 DEF AlarmsOf
    <3>5. TurnEnd' = clock + Slice
      BY <2>1, <3>1 DEF TurnEnd
    <3>6. ~Client!InCall /\ ~Client!InTurn
      BY <1>0, <2>1, MappedPhase
    <3>7. UNCHANGED <<clock, AlarmsOf(events), CallsInProgress>>
      BY <2>1 DEF CallsInProgress
    <3>8. Client!Turn(clock + Slice)
      BY <3>4, <3>5, <3>6, <3>7 DEF Client!Turn
    <3>. QED
      BY <2>1, <3>2, <3>8 DEF Client!Turns, LateInFront
  <2>. QED
    BY <2>2, <2>3
<1>. QED
  BY <1>1, <1>2, <1>3, DispatchRings DEF Loop

(* The CPU in its turn.                                                    *)
LEMMA CpuRefines ==
    ASSUME IInv, LateInFront, Cpu
    PROVE  Client!Turns /\ LateInFront'
<1>. USE DEF loopVars, deviceVars
<1>0. TypeOK /\ clock \in Nat
  BY DEF IInv, TypeOK
<1>1. pc = "block" /\ frames = <<>> /\ UNCHANGED <<events, frames, loopStart, slice>>
  BY DEF Cpu, Instruction, HaltedBlock, BlockReturn
<1>2. ~Client!InCall /\ Client!InTurn /\ UNCHANGED <<AlarmsOf(events), CallsInProgress>>
  BY <1>0, <1>1, MappedPhase DEF CallsInProgress
<1>3. ASSUME NEW n \in 1 .. MaxInstr, Instruction(n)
      PROVE  Client!Run(n)
  <2>1. TurnEnd' = TurnEnd /\ clock < TurnEnd /\ clock' = clock + n
    BY <1>1, <1>3 DEF Instruction, TurnEnd
  <2>. QED
    BY <1>2, <2>1 DEF Client!Run
<1>4. ASSUME HaltedBlock
      PROVE  \E a \in AlarmsOf(events) : Client!Sleep(a)
  <2>1. Head(events).time > clock /\ clock' = Head(events).time /\ TurnEnd' = TurnEnd
    BY <1>1, <1>4 DEF HaltedBlock, TurnEnd
  <2>2. events[1] = Head(events) /\ 1 \in 1 .. Len(events) /\ Head(events).time \in Int
    BY HeadIsAnEvent DEF Event
  <2>. DEFINE a == AlarmOf(events[1])
  <2>3. a \in AlarmsOf(events) /\ a.time = Head(events).time
    BY <2>2 DEF AlarmsOf, AlarmOf
  <2>4. \A b \in AlarmsOf(events) : a.time <= b.time
    <3>1. \A k \in 1 .. Len(events) : events[k].time \in Int /\ events[k].time >= Head(events).time
      BY <2>1, HeadIsFirst, HeadIsAnEvent DEF Event
    <3>2. \A k \in 1 .. Len(events) : a.time <= events[k].time
      BY <2>2, <2>3, <3>1
    <3>. QED
      BY <3>2 DEF AlarmsOf
  <2>5. clock < a.time
    BY <1>0, <2>1, <2>2, <2>3
  <2>. HIDE DEF a
  <2>. QED
    BY <1>2, <2>1, <2>3, <2>4, <2>5 DEF Client!Sleep
<1>5. ASSUME BlockReturn
      PROVE  Client!EndTurn
  <2>1. TurnEnd' = -1 /\ clock' = clock
    BY <1>5 DEF BlockReturn, TurnEnd
  <2>. QED
    BY <1>2, <2>1 DEF Client!EndTurn, Client!NoTurn
<1>. QED
  BY <1>1, <1>3, <1>4, <1>5 DEF Cpu, Client!Turns, LateInFront

----------------------------------------------------------------------------
(* What the devices ask for.                                               *)
LEMMA OwnTakenOut ==
    ASSUME IInv, LateInFront, NEW s \in Timers
    PROVE  /\ WithoutOwn(s) \in Seq(Event(Owners))
           /\ AlarmsOf(WithoutOwn(s)) = Client!OthersThan(s)
           /\ LateFirst(WithoutOwn(s)) /\ LateOnlyWhenDue(WithoutOwn(s), clock)
<1>. DEFINE q == WithoutOwn(s)
            E == Event(Owners)
<1>1. q \in Seq(E) /\ Without(events, q, s) /\ Thinned(events, q)
  BY WithoutOwnTakesOwn DEF Without
<1>2. /\ events \in Seq(E) /\ LateFirst(events) /\ LateOnlyWhenDue(events, clock)
      /\ \A u \in Owners : AtMostOne(events, u)
  BY DEF IInv, TypeOK, Consistent, LateInFront
<1>. HIDE DEF q
<1>3. AlarmsOf(q) = {a \in AlarmsOf(events) : a.who # s}
  BY <1>1, <1>2, WithoutAlarms
<1>. HIDE DEF E
<1>4. LateFirst(q) /\ LateOnlyWhenDue(q, clock)
  BY <1>1, <1>2, ThinnedKeepsFront, ThinnedKeeps
<1>. QED
  BY <1>1, <1>3, <1>4 DEF Client!OthersThan, q, E

LEMMA MayRequest ==
    ASSUME IInv, Calling
    PROVE  Client!InCall \/ Client!InTurn
<1>1. TypeOK /\ Phases
  BY DEF IInv
<1>. QED
  BY <1>1, MappedPhase DEF Calling, Phases

LEMMA CancelClears ==
    ASSUME IInv, LateInFront, NEW s \in Timers, Cancel(s)
    PROVE  Client!Clear(s) /\ LateInFront'
<1>1. Calling /\ events' = WithoutOwn(s) /\ UNCHANGED <<clock, frames, pc, loopStart, slice>>
  BY DEF Cancel, loopVars
<1>2. AlarmsOf(events') = Client!OthersThan(s) /\ LateFirst(events')
  BY <1>1, OwnTakenOut
<1>3. Client!InCall \/ Client!InTurn
  BY <1>1, MayRequest
<1>4. UNCHANGED <<clock, CallsInProgress, TurnEnd>>
  BY <1>1 DEF CallsInProgress, TurnEnd
<1>. QED
  BY <1>2, <1>3, <1>4 DEF Client!Clear, LateInFront

LEMMA RunNowCalls ==
    ASSUME IInv, LateInFront, NEW s \in Timers, NEW t, RunNow(s, t)
    PROVE  Client!CallNow(s) /\ LateInFront'
<1>1. /\ Calling /\ events' = WithoutOwn(s)
      /\ frames' = Append(frames, [src |-> s, tag |-> 0])
      /\ UNCHANGED <<clock, pc, loopStart, slice>>
  BY DEF RunNow, MayArm, loopVars
<1>2. AlarmsOf(events') = Client!OthersThan(s) /\ LateFirst(events')
  BY <1>1, OwnTakenOut
<1>3. Client!InCall \/ Client!InTurn
  BY <1>1, MayRequest
<1>4. CallsInProgress' = Append(CallsInProgress, s)
  <2>1. frames \in Frames /\ s \in Owners
    BY DEF IInv, TypeOK, Owners, Devices
  <2>2. CallsInProgress = SourcesOf(frames) /\ CallsInProgress' = SourcesOf(frames')
    BY DEF CallsInProgress, SourcesOf
  <2>. QED
    BY <1>1, <2>1, <2>2, SourcesAppend
<1>5. UNCHANGED <<clock, TurnEnd>>
  BY <1>1 DEF TurnEnd
<1>. QED
  BY <1>2, <1>3, <1>4, <1>5 DEF Client!CallNow, LateInFront

LEMMA RescheduleSets ==
    ASSUME IInv, LateInFront, NEW s \in Timers, NEW t \in Int, Reschedule(s, t)
    PROVE  Client!Set(s, t) /\ LateInFront'
<1>. DEFINE e == NewEvent(idCounter, t, s, 0)
            q == WithoutOwn(s)
            E == Event(Owners)
<1>0. clock \in Nat /\ s \in Owners
  BY DEF IInv, TypeOK, Owners, Devices
<1>1. Calling /\ events' = AddAbs(q, e, clock) /\ UNCHANGED <<clock, frames, pc, loopStart, slice>>
  BY DEF Reschedule, MayArm, loopVars
<1>2. e \in Event(Owners) /\ e.src = s /\ e.time = t /\ (e.late <=> IsDue(e.time, clock))
  BY <1>0, NewEventIsAnEvent
<1>3. e.late = (t <= clock)
  BY <1>0, DueIsReached DEF NewEvent
<1>. HIDE DEF e
<1>4. AlarmOf(e) = Client!Alarm(s, t, t <= clock)
  BY <1>2, <1>3 DEF AlarmOf, Client!Alarm
<1>5. /\ q \in Seq(Event(Owners)) /\ AlarmsOf(q) = Client!OthersThan(s)
      /\ LateFirst(q) /\ LateOnlyWhenDue(q, clock)
  BY OwnTakenOut
<1>. HIDE DEF q
<1>6. LateFirst(events')
  BY <1>0, <1>1, <1>2, <1>5, AddAbsKeepsFront
<1>7. q \in Seq(E) /\ e \in E
  BY <1>2, <1>5
<1>. HIDE DEF E
<1>8. AlarmsOf(events') = Client!OthersThan(s) \cup {Client!Alarm(s, t, t <= clock)}
  BY <1>1, <1>4, <1>5, <1>7, AddAbsAlarms
<1>9. Client!InCall \/ Client!InTurn
  BY <1>1, MayRequest
<1>10. UNCHANGED <<clock, CallsInProgress, TurnEnd>>
  BY <1>1 DEF CallsInProgress, TurnEnd
<1>. QED
  BY <1>6, <1>8, <1>9, <1>10 DEF Client!Set, LateInFront

LEMMA IrqCheckSets ==
    ASSUME IInv, LateInFront, NEW s \in IrqChecks, ScheduleIrqCheck(s)
    PROVE  Client!Set(s, 0) /\ LateInFront'
<1>. DEFINE e == NewEvent(idCounter, 0, s, 0)
            E == Event(Owners)
<1>0. /\ clock \in Nat /\ s \in Owners /\ s \in Devices /\ events \in Seq(Event(Owners))
      /\ Consistent(events, clock, idCounter, still, schId, stale) /\ LateFirst(events)
  BY DEF IInv, TypeOK, Owners, Devices, LateInFront
<1>1. /\ Calling /\ ~still[s] /\ events' = AddNext(events, e)
      /\ UNCHANGED <<clock, frames, pc, loopStart, slice>>
  BY DEF ScheduleIrqCheck, loopVars
<1>2. e \in Event(Owners) /\ e.src = s /\ e.time = 0 /\ e.late
  BY <1>0, NewEventIsAnEvent DEF IsDue
<1>3. e.late = (0 <= clock)
  BY <1>0, DueIsReached DEF NewEvent
<1>. HIDE DEF e
<1>4. AlarmOf(e) = Client!Alarm(s, 0, 0 <= clock)
  BY <1>2, <1>3 DEF AlarmOf, Client!Alarm
<1>5. AlarmsOf(events) = Client!OthersThan(s)
  <2>1. ~Has(events, s)
    BY <1>0, <1>1 DEF Consistent
  <2>2. \A a \in AlarmsOf(events) : a.who # s
    BY <2>1 DEF AlarmsOf, Has
  <2>. QED
    BY <2>2 DEF Client!OthersThan
<1>6. LateFirst(events')
  BY <1>0, <1>1, <1>2, AddNextKeepsFront
<1>7. events \in Seq(E) /\ e \in E
  BY <1>0, <1>2
<1>. HIDE DEF E
<1>8. AlarmsOf(events') = Client!OthersThan(s) \cup {Client!Alarm(s, 0, 0 <= clock)}
  BY <1>1, <1>4, <1>5, <1>7, AddNextAlarms
<1>9. Client!InCall \/ Client!InTurn
  BY <1>1, MayRequest
<1>10. UNCHANGED <<clock, CallsInProgress, TurnEnd>>
  BY <1>1 DEF CallsInProgress, TurnEnd
<1>. QED
  BY <1>6, <1>8, <1>9, <1>10 DEF Client!Set, LateInFront

LEMMA DeviceRefines ==
    ASSUME IInv, LateInFront, Device
    PROVE  /\ \/ Unseen
              \/ \E n \in Adjusts : Client!Adjust(n)
              \/ Client!Requests
              \/ Client!Return
           /\ LateInFront'
<1>. USE DEF loopVars, deviceVars
<1>0. TypeOK /\ Phases /\ clock \in Nat /\ Timers \subseteq Devices /\ IrqChecks \subseteq Devices
  BY DEF IInv, TypeOK, Devices
<1>1. ASSUME Breakpoint
      PROVE  Unseen /\ LateInFront'
  <2>1. UNCHANGED <<clock, events, frames, pc, loopStart, slice>>
    BY <1>1 DEF Breakpoint
  <2>. QED
    BY <2>1, UnseenIfNothingMoves DEF LateInFront
<1>2. ASSUME NEW n \in Adjusts, AdjustClock(n)
      PROVE  Client!Adjust(n) /\ LateInFront'
  <2>1. pc = "callback" /\ clock' = clock + n /\ UNCHANGED <<events, frames, pc, loopStart, slice>>
    BY <1>2 DEF AdjustClock
  <2>2. Client!InCall /\ ~Client!InTurn
    BY <1>0, <2>1, MappedPhase DEF Phases
  <2>3. UNCHANGED <<AlarmsOf(events), CallsInProgress, TurnEnd>>
    BY <2>1 DEF CallsInProgress, TurnEnd
  <2>. QED
    BY <2>1, <2>2, <2>3 DEF Client!Adjust, LateInFront
<1>3. ASSUME NEW s \in Timers, NEW d \in Delays, Reschedule(s, clock + d)
      PROVE  Client!Requests /\ LateInFront'
  <2>1. clock + d \in Int
    BY <1>0, NumbersAssumption
  <2>2. Client!Set(s, clock + d) /\ LateInFront'
    BY <1>3, <2>1, RescheduleSets
  <2>. QED
    BY <1>0, <2>2 DEF Client!Requests
<1>4. ASSUME NEW s \in Timers, NEW d \in Delays, RunNow(s, clock + d)
      PROVE  Client!Requests /\ LateInFront'
  BY <1>0, <1>4, RunNowCalls DEF Client!Requests
<1>5. ASSUME NEW s \in Timers, Cancel(s)
      PROVE  Client!Requests /\ LateInFront'
  BY <1>0, <1>5, CancelClears DEF Client!Requests
<1>6. ASSUME NEW s \in IrqChecks, ScheduleIrqCheck(s)
      PROVE  Client!Requests /\ LateInFront'
  BY <1>0, <1>6, IrqCheckSets DEF Client!Requests
<1>7. ASSUME RunNowReturn
      PROVE  Client!Return /\ LateInFront'
  <2>1. /\ frames # <<>> /\ frames' = SubSeq(frames, 1, Len(frames) - 1)
        /\ UNCHANGED <<clock, events, pc, loopStart, slice>>
    BY <1>7 DEF RunNowReturn
  <2>2. UNCHANGED TurnEnd
    BY <2>1 DEF TurnEnd
  <2>. QED
    BY <2>1, <2>2, ReturnRefines DEF LateInFront
<1>. QED
  BY <1>1, <1>2, <1>3, <1>4, <1>5, <1>6, <1>7 DEF Device

----------------------------------------------------------------------------
LEMMA InitRefines == Init => Client!Init /\ LateInFront
<1>. SUFFICES ASSUME Init
              PROVE  Client!Init /\ LateInFront
  OBVIOUS
<1>. DEFINE e == FirstFrameEvent(FirstId)
<1>1. Len(events) = 1 /\ events[1] = e
  BY DEF Init
<1>2. AlarmsOf(events) = {AlarmOf(e)}
  BY <1>1 DEF AlarmsOf, AlarmOf
<1>3. AlarmOf(e) = Client!Alarm(Frame, FramePeriod, FALSE)
  BY DEF AlarmOf, FirstFrameEvent, Client!Alarm
<1>4. CallsInProgress = <<>> /\ TurnEnd = -1 /\ clock = 0
  BY DEF Init, CallsInProgress, TurnEnd
<1>5. LateInFront
  BY <1>1 DEF LateInFront, LateFirst
<1>. QED
  BY <1>2, <1>3, <1>4, <1>5 DEF Client!Init, Client!FirstAlarms, Client!NoTurn

LEMMA StepRefines ==
    IInv /\ LateInFront /\ [Next]_vars => [Client!Next]_(Client!vars) /\ LateInFront'
<1>. SUFFICES ASSUME IInv, LateInFront, [Next]_vars
              PROVE  [Client!Next]_(Client!vars) /\ LateInFront'
  OBVIOUS
<1>1. CASE UNCHANGED vars
  <2>1. Unseen
    BY <1>1, UnseenIfNothingMoves DEF vars
  <2>. QED
    BY <1>1, <2>1 DEF vars, Unseen, LateInFront
<1>2. CASE Host
  BY <1>2, HostRefines DEF Unseen, Client!Next
<1>3. CASE Loop
  BY <1>3, LoopRefines DEF Unseen, Client!Next
<1>4. CASE Cpu
  BY <1>4, CpuRefines DEF Client!Next
<1>5. CASE Device
  BY <1>5, DeviceRefines DEF Unseen, Client!Next
<1>. QED
  BY <1>1, <1>2, <1>3, <1>4, <1>5 DEF Next

(* Every event that was due when it was added is ahead of those that were  *)
(* not: add_next, and add_abs for a time reached, put it first.            *)
THEOREM DueEventsGoFirst == Spec => []LateInFront
<1>1. IInv /\ LateInFront /\ [Next]_vars => LateInFront'
  BY StepRefines
<1>2. Init => LateInFront
  BY InitRefines
<1>. QED
  BY <1>1, <1>2, Invariant, PTL DEF Spec

(* Whatever the devices, the CPU and the host do, the clients of the       *)
(* scheduler see alarms and turns as Alarms promises them: the list, the   *)
(* ids and the flags implement it, for all values of the constants.        *)
THEOREM SchedulerKeepsAlarms == Spec => ImplementsAlarms
<1>1. Init => Client!Init
  BY InitRefines
<1>2. IInv /\ LateInFront /\ [Next]_vars => [Client!Next]_(Client!vars)
  BY StepRefines
<1>. QED
  BY <1>1, <1>2, Invariant, DueEventsGoFirst, PTL DEF Spec, ImplementsAlarms, Client!Spec
=============================================================================
