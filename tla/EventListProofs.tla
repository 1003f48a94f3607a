--------------------------- MODULE EventListProofs ---------------------------
(***************************************************************************)
(* What the operations of the event list do, for every list: where add_abs *)
(* puts an event, what delete_if_exist leaves, and that both keep the list *)
(* in order.  Nothing here is by induction: AddAbs and DeleteIfExist are   *)
(* written by position, and the place of the new event is found by         *)
(* counting (the pigeonhole principle).                                    *)
(***************************************************************************)
EXTENDS EventList, FiniteSets, FiniteSetTheorems, SequenceTheorems, TLAPS

(* A function on 1 .. n is a sequence of length n.                         *)
LEMMA FunctionIsSeq ==
    ASSUME NEW S, NEW n \in Nat, NEW f \in [1 .. n -> S]
    PROVE  f \in Seq(S) /\ Len(f) = n
<1>1. f \in Seq(S)
  BY SeqDef
<1>2. Len(f) \in Nat /\ DOMAIN f = 1 .. Len(f)
  BY <1>1, LenProperties
<1>3. 1 .. Len(f) = 1 .. n
  BY <1>2
<1>. QED
  BY <1>1, <1>2, <1>3

(* The new list r is q with e put in at position p.                        *)
InsertedAt(q, e, r, p) ==
    /\ p \in 1 .. Len(q) + 1
    /\ Len(r) = Len(q) + 1
    /\ r[p] = e
    /\ \A i \in 1 .. p - 1 : r[i] = q[i]
    /\ \A i \in p + 1 .. Len(q) + 1 : r[i] = q[i - 1]

(* What add_abs promises of the place: nothing later is ahead of it, and   *)
(* what is behind it is not earlier unless the new event is due.           *)
WellPlaced(q, e, p, clock) ==
    /\ \A i \in 1 .. p - 1 : q[i].time <= e.time
    /\ IsDue(e.time, clock) \/ \A i \in p .. Len(q) : q[i].time >= e.time

(* add_abs puts the event somewhere, and only there.                       *)
LEMMA AddAbsInserts ==
    ASSUME NEW E, NEW q \in Seq(E), NEW e \in E, NEW clock
    PROVE  /\ AddAbs(q, e, clock) \in Seq(E)
           /\ Len(AddAbs(q, e, clock)) = Len(q) + 1
           /\ \E p \in 1 .. Len(q) + 1 :
                 /\ InsertedAt(q, e, AddAbs(q, e, clock), p)
                 /\ \A i \in 1 .. p - 1 : StaysAhead(q, i, e.time, clock)
                 /\ p <= Len(q) => ~StaysAhead(q, p, e.time, clock)
<1>. DEFINE n == Len(q)
            A(j) == StaysAhead(q, j, e.time, clock)
            Old(i) == i <= n /\ A(i)
            New(i) == ~Old(i) /\ (i = 1 \/ A(i - 1))
            r == AddAbs(q, e, clock)
<1>1. n \in Nat /\ \A i \in 1 .. n : q[i] \in E
  BY LenProperties, ElementOfSeq
<1>2. \A j \in 1 .. n + 1 : \A i \in 1 .. j : A(j) => A(i)
  BY <1>1 DEF StaysAhead
<1>3. r = [i \in 1 .. n + 1 |-> IF Old(i) THEN q[i] ELSE IF i = 1 \/ A(i - 1) THEN e ELSE q[i - 1]]
  BY DEF AddAbs
<1>. HIDE DEF A, n, r
<1>4. r \in [1 .. n + 1 -> E]
  BY <1>1, <1>3
<1>5. r \in Seq(E) /\ Len(r) = n + 1
  BY <1>1, <1>4, FunctionIsSeq, n + 1 \in Nat
<1>6. \E p \in 1 .. n + 1 : New(p)
  <2>. SUFFICES ASSUME \A p \in 1 .. n + 1 : ~New(p)
                PROVE  FALSE
    OBVIOUS
  <2>. DEFINE g == [i \in 1 .. n + 1 |-> IF Old(i) THEN i ELSE i - 1]
  <2>1. g \in [1 .. n + 1 -> 1 .. n]
    <3>1. \A i \in 1 .. n + 1 : IF Old(i) THEN i \in 1 .. n ELSE i - 1 \in 1 .. n
      BY <1>1
    <3>. QED
      BY <3>1
  <2>2. \A i, j \in 1 .. n + 1 : i < j => g[i] # g[j]
    <3>. SUFFICES ASSUME NEW i \in 1 .. n + 1, NEW j \in 1 .. n + 1, i < j, g[i] = g[j]
                  PROVE  FALSE
      OBVIOUS
    <3>1. CASE Old(j)
      BY <3>1, <1>1
    <3>2. CASE ~Old(j)
      <4>1. i = j - 1 /\ Old(i)
        BY <3>2, <1>1
      <4>. QED
        BY <4>1, <3>2, <1>1
    <3>. QED
      BY <3>1, <3>2
  <2>3. /\ IsFiniteSet(1 .. n + 1) /\ Cardinality(1 .. n + 1) = n + 1
        /\ IsFiniteSet(1 .. n) /\ Cardinality(1 .. n) = n
    BY <1>1, FS_Interval
  <2>. HIDE DEF g
  <2>4. \E x, y \in 1 .. n + 1 : x # y /\ g[x] = g[y]
    <3>1. Cardinality(1 .. n) < Cardinality(1 .. n + 1)
      BY <2>3, <1>1
    <3>. QED
      BY <2>1, <2>3, <3>1, FS_PigeonHole
  <2>. QED
    BY <2>2, <2>4, <1>1
<1>7. PICK p \in 1 .. n + 1 : New(p)
  BY <1>6
<1>8. /\ \A i \in 1 .. p - 1 : Old(i)
      /\ \A i \in p + 1 .. n + 1 : ~Old(i) /\ ~A(i - 1)
  <2>1. \A i \in 1 .. p - 1 : Old(i)
    BY <1>1, <1>2, <1>7
  <2>2. ASSUME NEW i \in p + 1 .. n + 1
        PROVE  ~Old(i) /\ ~A(i - 1)
    <3>1. p <= i - 1 /\ i - 1 <= n /\ p \in 1 .. i - 1 /\ p \in 1 .. i /\ i \in 1 .. n + 1 /\ i - 1 \in 1 .. n + 1
      BY <1>1
    <3>2. p <= n /\ ~A(p)
      BY <3>1, <1>1, <1>7
    <3>. QED
      BY <1>2, <3>1, <3>2
  <2>. QED
    BY <2>1, <2>2
<1>9. InsertedAt(q, e, r, p)
  <2>1. r[p] = e
    BY <1>3, <1>7
  <2>2. \A i \in 1 .. p - 1 : r[i] = q[i]
    BY <1>1, <1>3, <1>8
  <2>3. \A i \in p + 1 .. n + 1 : r[i] = q[i - 1]
    BY <1>1, <1>3, <1>8
  <2>. QED
    BY <1>5, <2>1, <2>2, <2>3 DEF InsertedAt, n
<1>10. /\ \A i \in 1 .. p - 1 : A(i)
       /\ p <= n => ~A(p)
  BY <1>7, <1>8
<1>. QED
  BY <1>5, <1>9, <1>10 DEF n, A, r

(* In an ordered list that place is the right one.                         *)
LEMMA AddAbsPlacesWell ==
    ASSUME NEW Owners, NEW q \in Seq(Event(Owners)), NEW e \in Event(Owners),
           NEW clock \in Nat, InOrder(q), LateOnlyWhenDue(q, clock)
    PROVE  \E p \in 1 .. Len(q) + 1 :
              /\ InsertedAt(q, e, AddAbs(q, e, clock), p)
              /\ WellPlaced(q, e, p, clock)
<1>. DEFINE n == Len(q)
            A(j) == StaysAhead(q, j, e.time, clock)
<1>1. n \in Nat /\ \A i \in 1 .. n : q[i] \in Event(Owners)
  BY LenProperties, ElementOfSeq
<1>2. e.time \in Int /\ \A i \in 1 .. n : q[i].time \in Int /\ q[i].late \in BOOLEAN
  BY <1>1 DEF Event
<1>3. PICK p \in 1 .. n + 1 :
         /\ InsertedAt(q, e, AddAbs(q, e, clock), p)
         /\ \A i \in 1 .. p - 1 : A(i)
         /\ p <= n => ~A(p)
  BY AddAbsInserts
<1>4. \A i \in 1 .. p - 1 : q[i].time <= e.time
  <2>. SUFFICES ASSUME NEW i \in 1 .. p - 1
                PROVE  q[i].time <= e.time
    OBVIOUS
  <2>1. A(i) /\ i \in 1 .. n
    BY <1>1, <1>3
  <2>2. CASE i = 1
    BY <1>1, <1>2, <2>1, <2>2 DEF StaysAhead
  <2>3. CASE i # 1
    BY <1>1, <1>2, <2>1, <2>3 DEF StaysAhead
  <2>. QED
    BY <2>2, <2>3
<1>5. ASSUME ~IsDue(e.time, clock), NEW i \in p .. n
      PROVE  q[i].time >= e.time
  <2>1. p <= n /\ ~A(p) /\ i \in 1 .. n /\ p \in 1 .. n /\ 1 \in 1 .. n
    BY <1>1, <1>3, <1>5
  <2>2. e.time > clock
    BY <1>2, <1>5 DEF IsDue
  <2>3. PICK k \in 1 .. p : q[k].time > e.time \/ (n = 1 /\ k = 1 /\ q[1].time >= e.time)
    BY <1>1, <1>2, <1>5, <2>1 DEF StaysAhead
  <2>4. CASE n = 1 /\ k = 1 /\ q[1].time >= e.time
    BY <1>1, <1>2, <2>1, <2>4
  <2>5. CASE q[k].time > e.time
    <3>1. k \in 1 .. n /\ ~q[k].late
      BY <1>1, <1>2, <2>1, <2>2, <2>5 DEF LateOnlyWhenDue
    <3>2. q[k].time <= q[i].time
      BY <1>1, <1>2, <2>1, <3>1 DEF InOrder
    <3>. QED
      BY <1>2, <2>1, <2>5, <3>1, <3>2
  <2>. QED
    BY <2>3, <2>4, <2>5
<1>. QED
  BY <1>3, <1>4, <1>5 DEF WellPlaced

(* An event marked late exactly when it is due keeps the list in order.    *)
LEMMA AddAbsKeepsOrder ==
    ASSUME NEW Owners, NEW q \in Seq(Event(Owners)), NEW e \in Event(Owners),
           NEW clock \in Nat, InOrder(q), LateOnlyWhenDue(q, clock),
           e.late <=> IsDue(e.time, clock)
    PROVE  /\ InOrder(AddAbs(q, e, clock))
           /\ LateOnlyWhenDue(AddAbs(q, e, clock), clock)
<1>. DEFINE n == Len(q)
            r == AddAbs(q, e, clock)
<1>1. n \in Nat /\ \A i \in 1 .. n : q[i] \in Event(Owners)
  BY LenProperties, ElementOfSeq
<1>2. /\ e.time \in Int /\ e.late \in BOOLEAN
      /\ \A i \in 1 .. n : q[i].time \in Int /\ q[i].late \in BOOLEAN
  BY <1>1 DEF Event
<1>3. PICK p \in 1 .. n + 1 : InsertedAt(q, e, r, p) /\ WellPlaced(q, e, p, clock)
  BY AddAbsPlacesWell
<1>4. /\ Len(r) = n + 1
      /\ \A i \in 1 .. n + 1 : \/ (i < p /\ r[i] = q[i])
                               \/ (i = p /\ r[i] = e)
                               \/ (i > p /\ r[i] = q[i - 1])
  BY <1>1, <1>3 DEF InsertedAt
<1>5. /\ \A i \in 1 .. p - 1 : q[i].time <= e.time
      /\ e.late \/ \A i \in p .. n : q[i].time >= e.time
  BY <1>3 DEF WellPlaced
<1>. HIDE DEF r, n
<1>6. ASSUME NEW i \in 1 .. n + 1, NEW j \in 1 .. n + 1, i < j
      PROVE  r[i].late \/ r[i].time <= r[j].time
  <2>1. CASE j < p
    BY <1>1, <1>3, <1>4, <1>6, <2>1 DEF InOrder, n
  <2>2. CASE j = p
    BY <1>1, <1>3, <1>4, <1>5, <1>6, <2>2
  <2>3. CASE i = p
    <3>1. r[i] = e /\ r[j] = q[j - 1] /\ j - 1 \in p .. n
      BY <1>1, <1>4, <1>6, <2>3
    <3>. QED
      BY <1>2, <1>5, <3>1, <1>1, <1>3
  <2>4. CASE i < p /\ j > p
    <3>1. r[i] = q[i] /\ r[j] = q[j - 1] /\ i \in 1 .. n /\ j - 1 \in 1 .. n /\ i < j - 1
      BY <1>1, <1>4, <1>6, <2>4
    <3>. QED
      BY <3>1 DEF InOrder, n
  <2>5. CASE i > p
    <3>1. r[i] = q[i - 1] /\ r[j] = q[j - 1] /\ i - 1 \in 1 .. n /\ j - 1 \in 1 .. n
      BY <1>1, <1>3, <1>4, <1>6, <2>5
    <3>. QED
      BY <1>6, <3>1 DEF InOrder, n
  <2>. QED
    BY <1>1, <1>3, <1>6, <2>1, <2>2, <2>3, <2>4, <2>5
<1>7. ASSUME NEW i \in 1 .. n + 1, r[i].late
      PROVE  r[i].time <= clock
  <2>1. CASE i = p
    BY <1>2, <1>4, <1>7, <2>1 DEF IsDue
  <2>2. CASE i < p
    BY <1>1, <1>3, <1>4, <1>7, <2>2 DEF LateOnlyWhenDue, n
  <2>3. CASE i > p
    BY <1>1, <1>3, <1>4, <1>7, <2>3 DEF LateOnlyWhenDue, n
  <2>. QED
    BY <1>1, <1>3, <1>7, <2>1, <2>2, <2>3
<1>. QED
  BY <1>4, <1>6, <1>7 DEF InOrder, LateOnlyWhenDue, r

(* The events of the new list are the old ones and the new one, each once. *)
LEMMA AddAbsKeepsEvents ==
    ASSUME NEW E, NEW q \in Seq(E), NEW e \in E, NEW clock
    PROVE  LET r == AddAbs(q, e, clock) IN
           /\ \A i \in 1 .. Len(r) : r[i] = e \/ \E k \in 1 .. Len(q) : r[i] = q[k]
           /\ \A k \in 1 .. Len(q) : \E i \in 1 .. Len(r) : r[i] = q[k]
           /\ \E i \in 1 .. Len(r) : r[i] = e
           /\ DistinctIds(q) /\ (\A k \in 1 .. Len(q) : q[k].id # e.id) => DistinctIds(r)
<1>. DEFINE n == Len(q)
            r == AddAbs(q, e, clock)
<1>1. n \in Nat
  BY LenProperties
<1>2. PICK p \in 1 .. n + 1 : InsertedAt(q, e, r, p)
  BY AddAbsInserts
<1>. HIDE DEF r
<1>3. /\ Len(r) = n + 1
      /\ \A i \in 1 .. n + 1 : \/ i < p /\ i \in 1 .. n /\ r[i] = q[i]
                               \/ (i = p /\ r[i] = e)
                               \/ i > p /\ i - 1 \in 1 .. n /\ r[i] = q[i - 1]
  BY <1>1, <1>2 DEF InsertedAt
<1>4. \A i \in 1 .. n + 1 : r[i] = e \/ \E k \in 1 .. n : r[i] = q[k]
  BY <1>3
<1>5. ASSUME NEW k \in 1 .. n
      PROVE  \E i \in 1 .. n + 1 : r[i] = q[k]
  <2>1. CASE k < p
    BY <1>1, <1>3, <2>1
  <2>2. CASE k >= p
    <3>1. k + 1 \in 1 .. n + 1 /\ k + 1 > p /\ (k + 1) - 1 = k
      BY <1>1, <2>2
    <3>2. r[k + 1] = q[(k + 1) - 1]
      BY <1>2, <1>3, <3>1
    <3>. QED
      BY <3>1, <3>2
  <2>. QED
    BY <1>1, <2>1, <2>2
<1>6. r[p] = e
  BY <1>2 DEF InsertedAt
<1>7. ASSUME DistinctIds(q), \A k \in 1 .. n : q[k].id # e.id
      PROVE  DistinctIds(r)
  <2>. SUFFICES ASSUME NEW i \in 1 .. n + 1, NEW j \in 1 .. n + 1, r[i].id = r[j].id
                PROVE  i = j
    BY <1>3 DEF DistinctIds
  <2>1. \A a, b \in 1 .. n : q[a].id = q[b].id => a = b
    BY <1>7 DEF DistinctIds
  <2>2. CASE i = p \/ j = p
    BY <1>3, <1>6, <1>7, <2>2
  <2>3. CASE i # p /\ j # p
    <3>1. CASE i < p /\ j < p
      BY <1>3, <2>1, <3>1
    <3>2. CASE i > p /\ j > p
      <4>1. i - 1 = j - 1
        BY <1>3, <2>1, <3>2
      <4>. QED
        BY <4>1
    <3>3. CASE i < p /\ j > p
      <4>1. i = j - 1
        BY <1>3, <2>1, <3>3
      <4>. QED
        BY <4>1, <3>3
    <3>4. CASE i > p /\ j < p
      <4>1. i - 1 = j
        BY <1>3, <2>1, <3>4
      <4>. QED
        BY <4>1, <3>4
    <3>. QED
      BY <2>3, <3>1, <3>2, <3>3, <3>4, <1>2
  <2>. QED
    BY <2>2, <2>3
<1>. QED
  BY <1>3, <1>4, <1>5, <1>6, <1>7 DEF r

----------------------------------------------------------------------------
(* Taking events out of the list, keeping the others as they follow.       *)
Thinned(q, r) ==
    \E h \in [1 .. Len(r) -> 1 .. Len(q)] :
        /\ \A i, j \in 1 .. Len(r) : i < j => h[i] < h[j]
        /\ \A i \in 1 .. Len(r) : r[i] = q[h[i]]

(* Such a list is ordered and has distinct ids if the first one did.       *)
LEMMA ThinnedKeeps ==
    ASSUME NEW E, NEW q \in Seq(E), NEW r \in Seq(E), Thinned(q, r), NEW clock
    PROVE  /\ InOrder(q) => InOrder(r)
           /\ LateOnlyWhenDue(q, clock) => LateOnlyWhenDue(r, clock)
           /\ DistinctIds(q) => DistinctIds(r)
           /\ \A i \in 1 .. Len(r) : \E k \in 1 .. Len(q) : r[i] = q[k]
<1>. PICK h \in [1 .. Len(r) -> 1 .. Len(q)] :
        /\ \A i, j \in 1 .. Len(r) : i < j => h[i] < h[j]
        /\ \A i \in 1 .. Len(r) : r[i] = q[h[i]]
  BY DEF Thinned
<1>0. Len(q) \in Nat /\ Len(r) \in Nat
  BY LenProperties
<1>1. InOrder(q) => InOrder(r)
  BY DEF InOrder
<1>2. LateOnlyWhenDue(q, clock) => LateOnlyWhenDue(r, clock)
  BY DEF LateOnlyWhenDue
<1>3. ASSUME DistinctIds(q), NEW i \in 1 .. Len(r), NEW j \in 1 .. Len(r), r[i].id = r[j].id
      PROVE  i = j
  <2>1. h[i] = h[j]
    BY <1>3 DEF DistinctIds
  <2>. QED
    BY <1>0, <2>1
<1>. QED
  BY <1>1, <1>2, <1>3 DEF DistinctIds

LEMMA TailIsThinned ==
    ASSUME NEW E, NEW q \in Seq(E), q # <<>>
    PROVE  /\ Tail(q) \in Seq(E)
           /\ Thinned(q, Tail(q))
           /\ Len(Tail(q)) = Len(q) - 1
           /\ \A i \in 1 .. Len(q) - 1 : Tail(q)[i] = q[i + 1]
<1>1. /\ Tail(q) \in Seq(E)
      /\ Len(Tail(q)) = Len(q) - 1
      /\ \A i \in 1 .. Len(q) - 1 : Tail(q)[i] = q[i + 1]
      /\ Len(q) \in Nat
  BY HeadTailProperties, LenProperties
<1>. DEFINE h == [i \in 1 .. Len(q) - 1 |-> i + 1]
<1>2. /\ h \in [1 .. Len(Tail(q)) -> 1 .. Len(q)]
      /\ \A i, j \in 1 .. Len(Tail(q)) : i < j => h[i] < h[j]
      /\ \A i \in 1 .. Len(Tail(q)) : Tail(q)[i] = q[h[i]]
  BY <1>1
<1>. QED
  BY <1>1, <1>2 DEF Thinned

(* delete_if_exist takes out the event with the id and no other.           *)
LEMMA DeleteIsThinned ==
    ASSUME NEW E, NEW q \in Seq(E), NEW id, DistinctIds(q)
    PROVE  LET r == DeleteIfExist(q, id) IN
           /\ r \in Seq(E)
           /\ Thinned(q, r)
           /\ id = 0 => r = q
           /\ id # 0 => \A i \in 1 .. Len(r) : r[i].id # id
           /\ \A k \in 1 .. Len(q) : q[k].id # id => \E i \in 1 .. Len(r) : r[i] = q[k]
<1>. DEFINE r == DeleteIfExist(q, id)
            n == Len(q)
<1>1. n \in Nat /\ \A i \in 1 .. n : q[i] \in E
  BY LenProperties, ElementOfSeq
<1>2. CASE id = 0 \/ ~Listed(q, id)
  <2>1. r = q
    BY <1>2 DEF DeleteIfExist
  <2>2. Thinned(q, q)
    <3>. DEFINE h == [i \in 1 .. n |-> i]
    <3>1. /\ h \in [1 .. n -> 1 .. n]
          /\ \A i, j \in 1 .. n : i < j => h[i] < h[j]
          /\ \A i \in 1 .. n : q[i] = q[h[i]]
      OBVIOUS
    <3>. QED
      BY <3>1 DEF Thinned
  <2>. QED
    BY <1>2, <2>1, <2>2 DEF Listed
<1>3. CASE id # 0 /\ Listed(q, id)
  <2>1. PICK p \in 1 .. n : q[p].id = id
    BY <1>3 DEF Listed
  <2>2. \A k \in 1 .. n : q[k].id = id => k = p
    BY <2>1 DEF DistinctIds
  <2>3. r = [i \in 1 .. n - 1 |-> IF i >= p THEN q[i + 1] ELSE q[i]]
    <3>1. \A i \in 1 .. n - 1 : (\E k \in 1 .. i : q[k].id = id) <=> i >= p
      BY <1>1, <2>1, <2>2
    <3>2. r = [i \in 1 .. n - 1 |-> IF \E k \in 1 .. i : q[k].id = id THEN q[i + 1] ELSE q[i]]
      BY <1>3 DEF DeleteIfExist
    <3>. QED
      BY <3>1, <3>2
  <2>. HIDE DEF r
  <2>4. r \in [1 .. n - 1 -> E] /\ n - 1 \in Nat
    BY <1>1, <2>1, <2>3
  <2>5. r \in Seq(E) /\ Len(r) = n - 1
    BY <2>4, FunctionIsSeq
  <2>6. Thinned(q, r)
    <3>. DEFINE h == [i \in 1 .. n - 1 |-> IF i >= p THEN i + 1 ELSE i]
    <3>1. h \in [1 .. n - 1 -> 1 .. n]
      BY <1>1, <2>1
    <3>2. \A i, j \in 1 .. n - 1 : i < j => h[i] < h[j]
      BY <1>1, <2>1
    <3>3. \A i \in 1 .. n - 1 : r[i] = q[h[i]]
      BY <1>1, <2>1, <2>3
    <3>. HIDE DEF h
    <3>. QED
      BY <2>5, <3>1, <3>2, <3>3 DEF Thinned
  <2>7. \A i \in 1 .. n - 1 : r[i].id # id
    BY <1>1, <2>1, <2>2, <2>3
  <2>8. ASSUME NEW k \in 1 .. n, q[k].id # id
        PROVE  \E i \in 1 .. n - 1 : r[i] = q[k]
    <3>1. CASE k < p
      BY <1>1, <2>1, <2>3, <3>1
    <3>2. CASE k > p
      <4>1. k - 1 \in 1 .. n - 1 /\ k - 1 >= p /\ (k - 1) + 1 = k
        BY <1>1, <2>1, <3>2
      <4>2. r[k - 1] = q[(k - 1) + 1]
        BY <2>3, <4>1
      <4>. QED
        BY <4>1, <4>2
    <3>3. k # p
      BY <2>1, <2>8
    <3>. QED
      BY <3>1, <3>2, <3>3
  <2>. QED
    BY <1>3, <2>5, <2>6, <2>7, <2>8 DEF r
<1>. QED
  BY <1>2, <1>3

----------------------------------------------------------------------------
(* Whose events are in the list, before and after.                         *)
LEMMA AddAbsSources ==
    ASSUME NEW E, NEW q \in Seq(E), NEW e \in E, NEW clock, NEW u,
           DistinctIds(q), \A k \in 1 .. Len(q) : q[k].id # e.id
    PROVE  LET r == AddAbs(q, e, clock) IN
           /\ Has(r, u) <=> (u = e.src \/ Has(q, u))
           /\ AtMostOne(q, u) /\ ~(u = e.src /\ Has(q, u)) => AtMostOne(r, u)
<1>. DEFINE r == AddAbs(q, e, clock)
<1>1. /\ \A i \in 1 .. Len(r) : r[i] = e \/ \E k \in 1 .. Len(q) : r[i] = q[k]
      /\ \A k \in 1 .. Len(q) : \E i \in 1 .. Len(r) : r[i] = q[k]
      /\ \E i \in 1 .. Len(r) : r[i] = e
      /\ DistinctIds(r)
  BY AddAbsKeepsEvents
<1>. HIDE DEF r
<1>2. Has(r, u) <=> (u = e.src \/ Has(q, u))
  <2>1. ASSUME Has(q, u)
        PROVE  Has(r, u)
    BY <1>1, <2>1 DEF Has
  <2>2. ASSUME u = e.src
        PROVE  Has(r, u)
    BY <1>1, <2>2 DEF Has
  <2>3. ASSUME Has(r, u)
        PROVE  u = e.src \/ Has(q, u)
    BY <1>1, <2>3 DEF Has
  <2>. QED
    BY <2>1, <2>2, <2>3
<1>3. ASSUME AtMostOne(q, u), ~(u = e.src /\ Has(q, u)),
             NEW i \in 1 .. Len(r), NEW j \in 1 .. Len(r), r[i].src = u, r[j].src = u
      PROVE  i = j
  <2>1. r[i] = r[j]
    BY <1>1, <1>3 DEF AtMostOne, Has
  <2>. QED
    BY <1>1, <2>1 DEF DistinctIds
<1>. QED
  BY <1>2, <1>3 DEF AtMostOne, r

LEMMA ThinnedSources ==
    ASSUME NEW E, NEW q \in Seq(E), NEW r \in Seq(E), Thinned(q, r), NEW u
    PROVE  /\ AtMostOne(q, u) => AtMostOne(r, u)
           /\ Has(r, u) => Has(q, u)
<1>. PICK h \in [1 .. Len(r) -> 1 .. Len(q)] :
        /\ \A i, j \in 1 .. Len(r) : i < j => h[i] < h[j]
        /\ \A i \in 1 .. Len(r) : r[i] = q[h[i]]
  BY DEF Thinned
<1>0. Len(q) \in Nat /\ Len(r) \in Nat
  BY LenProperties
<1>1. ASSUME AtMostOne(q, u), NEW i \in 1 .. Len(r), NEW j \in 1 .. Len(r),
             r[i].src = u, r[j].src = u
      PROVE  i = j
  <2>1. h[i] = h[j]
    BY <1>1 DEF AtMostOne
  <2>. QED
    BY <1>0, <2>1
<1>. QED
  BY <1>1 DEF AtMostOne, Has

(* add_next.                                                               *)
LEMMA AddNextProperties ==
    ASSUME NEW E, NEW q \in Seq(E), NEW e \in E
    PROVE  LET r == AddNext(q, e) IN
           /\ r \in Seq(E)
           /\ Len(r) = Len(q) + 1
           /\ r[1] = e
           /\ \A i \in 2 .. Len(q) + 1 : r[i] = q[i - 1]
<1>1. <<e>> \in Seq(E) /\ Len(<<e>>) = 1 /\ <<e>>[1] = e
  OBVIOUS
<1>2. Len(q) \in Nat
  BY LenProperties
<1>. DEFINE r == <<e>> \o q
<1>3. /\ r \in Seq(E)
      /\ Len(r) = 1 + Len(q)
      /\ \A i \in 1 .. 1 + Len(q) : r[i] = IF i <= 1 THEN <<e>>[i] ELSE q[i - 1]
  BY <1>1, ConcatProperties
<1>. HIDE DEF r
<1>4. /\ r \in Seq(E)
      /\ Len(r) = Len(q) + 1
      /\ r[1] = e
      /\ \A i \in 2 .. Len(q) + 1 : r[i] = q[i - 1]
  BY <1>1, <1>2, <1>3
<1>. QED
  BY <1>4 DEF AddNext, r

LEMMA AddNextKeeps ==
    ASSUME NEW Owners, NEW q \in Seq(Event(Owners)), NEW e \in Event(Owners), e.late,
           NEW clock \in Nat, e.time <= clock, NEW u,
           DistinctIds(q), \A k \in 1 .. Len(q) : q[k].id # e.id
    PROVE  LET r == AddNext(q, e) IN
           /\ InOrder(q) => InOrder(r)
           /\ LateOnlyWhenDue(q, clock) => LateOnlyWhenDue(r, clock)
           /\ DistinctIds(r)
           /\ \A i \in 1 .. Len(r) : r[i] = e \/ \E k \in 1 .. Len(q) : r[i] = q[k]
           /\ Has(r, u) <=> (u = e.src \/ Has(q, u))
           /\ AtMostOne(q, u) /\ ~(u = e.src /\ Has(q, u)) => AtMostOne(r, u)
<1>. DEFINE r == AddNext(q, e)
            n == Len(q)
<1>1. /\ Len(r) = n + 1 /\ n \in Nat
      /\ r[1] = e
      /\ \A i \in 2 .. n + 1 : i - 1 \in 1 .. n /\ r[i] = q[i - 1]
  <2>1. n \in Nat
    BY LenProperties
  <2>2. /\ Len(r) = n + 1
        /\ r[1] = e
        /\ \A i \in 2 .. n + 1 : r[i] = q[i - 1]
    BY AddNextProperties
  <2>. HIDE DEF r, n
  <2>. QED
    BY <2>1, <2>2
<1>2. \A k \in 1 .. n : r[k + 1] = q[k] /\ k + 1 \in 1 .. n + 1
  <2>. SUFFICES ASSUME NEW k \in 1 .. n
                PROVE  r[k + 1] = q[k] /\ k + 1 \in 1 .. n + 1
    OBVIOUS
  <2>1. k + 1 \in 2 .. n + 1 /\ (k + 1) - 1 = k
    BY <1>1
  <2>. QED
    BY <1>1, <2>1
<1>. HIDE DEF r, n
<1>3. \A i \in 1 .. n + 1 : i = 1 \/ i \in 2 .. n + 1
  BY <1>1
<1>4. \A i \in 1 .. n + 1 : r[i] = e \/ \E k \in 1 .. n : r[i] = q[k]
  BY <1>1, <1>3
<1>5. InOrder(q) => InOrder(r)
  <2>. SUFFICES ASSUME InOrder(q), NEW i \in 1 .. n + 1, NEW j \in 1 .. n + 1, i < j
                PROVE  r[i].late \/ r[i].time <= r[j].time
    BY <1>1 DEF InOrder
  <2>1. CASE i = 1
    BY <1>1, <2>1
  <2>2. CASE i # 1
    <3>1. i - 1 \in 1 .. n /\ j - 1 \in 1 .. n /\ i - 1 < j - 1 /\ r[i] = q[i - 1] /\ r[j] = q[j - 1]
      BY <1>1, <1>3, <2>2
    <3>. QED
      BY <3>1 DEF InOrder, n
  <2>. QED
    BY <2>1, <2>2
<1>6. LateOnlyWhenDue(q, clock) => LateOnlyWhenDue(r, clock)
  BY <1>1, <1>4 DEF LateOnlyWhenDue, n
<1>7. DistinctIds(r)
  <2>. SUFFICES ASSUME NEW i \in 1 .. n + 1, NEW j \in 1 .. n + 1, r[i].id = r[j].id
                PROVE  i = j
    BY <1>1 DEF DistinctIds
  <2>1. CASE i = 1 \/ j = 1
    BY <1>1, <1>3, <2>1 DEF n
  <2>2. CASE i # 1 /\ j # 1
    <3>1. /\ i - 1 \in 1 .. n /\ r[i] = q[i - 1]
          /\ j - 1 \in 1 .. n /\ r[j] = q[j - 1]
      BY <1>1, <1>3, <2>2
    <3>2. i - 1 = j - 1
      BY <3>1 DEF DistinctIds, n
    <3>. QED
      BY <3>2
  <2>. QED
    BY <2>1, <2>2
<1>8. Has(r, u) <=> (u = e.src \/ Has(q, u))
  <2>1. ASSUME Has(q, u)
        PROVE  Has(r, u)
    BY <1>1, <1>2, <2>1 DEF Has, n
  <2>2. ASSUME u = e.src
        PROVE  Has(r, u)
    BY <1>1, <2>2 DEF Has
  <2>3. ASSUME Has(r, u)
        PROVE  u = e.src \/ Has(q, u)
    BY <1>1, <1>4, <2>3 DEF Has, n
  <2>. QED
    BY <2>1, <2>2, <2>3
<1>9. ASSUME AtMostOne(q, u), ~(u = e.src /\ Has(q, u)),
             NEW i \in 1 .. n + 1, NEW j \in 1 .. n + 1, r[i].src = u, r[j].src = u
      PROVE  i = j
  <2>1. r[i] = r[j]
    BY <1>4, <1>9 DEF AtMostOne, Has, n
  <2>. QED
    BY <1>1, <1>7, <2>1 DEF DistinctIds
<1>. QED
  BY <1>1, <1>4, <1>5, <1>6, <1>7, <1>8, <1>9 DEF AtMostOne, r, n

----------------------------------------------------------------------------
(* What was due when it was added stays ahead of what was not: add_abs     *)
(* puts an event that is due first, and any other behind all of these.     *)
LEMMA AddAbsKeepsFront ==
    ASSUME NEW Owners, NEW q \in Seq(Event(Owners)), NEW e \in Event(Owners),
           NEW clock \in Nat, LateOnlyWhenDue(q, clock), LateFirst(q),
           e.late <=> IsDue(e.time, clock)
    PROVE  LateFirst(AddAbs(q, e, clock))
<1>. DEFINE n == Len(q)
            r == AddAbs(q, e, clock)
            A(j) == StaysAhead(q, j, e.time, clock)
<1>1. n \in Nat /\ \A i \in 1 .. n : q[i] \in Event(Owners)
  BY LenProperties, ElementOfSeq
<1>2. e.time \in Int /\ \A i \in 1 .. n : q[i].time \in Int /\ q[i].late \in BOOLEAN
  BY <1>1 DEF Event
<1>3. PICK p \in 1 .. n + 1 : /\ InsertedAt(q, e, r, p)
                              /\ \A i \in 1 .. p - 1 : A(i)
                              /\ p <= n => ~A(p)
  BY AddAbsInserts
<1>. HIDE DEF r
<1>4. /\ Len(r) = n + 1
      /\ \A i \in 1 .. n + 1 : \/ i < p /\ i \in 1 .. n /\ r[i] = q[i]
                               \/ (i = p /\ r[i] = e)
                               \/ i > p /\ i - 1 \in p .. n /\ i - 1 \in 1 .. n /\ r[i] = q[i - 1]
  BY <1>1, <1>3 DEF InsertedAt
<1>5. e.late => p = 1
  <2>. SUFFICES ASSUME e.late, p # 1
                PROVE  FALSE
    OBVIOUS
  <2>1. A(1)
    BY <1>1, <1>3
  <2>. QED
    BY <2>1 DEF StaysAhead
<1>6. ASSUME ~e.late, NEW k \in 1 .. n, k >= p, q[k].late
      PROVE  FALSE
  <2>1. \A i \in 1 .. p : i \in 1 .. n /\ q[i].late
    BY <1>1, <1>6 DEF LateFirst
  <2>2. \A i \in 1 .. p : q[i].time <= clock
    BY <2>1 DEF LateOnlyWhenDue
  <2>3. \A i \in 1 .. p : q[i].time < e.time
    BY <1>2, <1>6, <2>1, <2>2 DEF IsDue
  <2>4. A(p)
    BY <1>1, <1>2, <1>6, <2>1, <2>3 DEF StaysAhead
  <2>. QED
    BY <1>1, <1>3, <1>6, <2>4
<1>7. ASSUME NEW i \in 1 .. n + 1, NEW j \in 1 .. n + 1, i < j, r[j].late
      PROVE  r[i].late
  <2>1. CASE j = p
    BY <1>4, <1>5, <1>7, <2>1
  <2>2. CASE i = p
    BY <1>4, <1>6, <1>7, <2>2
  <2>3. CASE i # p /\ j # p
    <3>1. CASE j < p
      BY <1>4, <1>7, <3>1 DEF LateFirst
    <3>2. CASE i < p /\ j > p
      <4>1. i \in 1 .. n /\ j - 1 \in 1 .. n /\ i < j - 1 /\ r[i] = q[i] /\ r[j] = q[j - 1]
        BY <1>4, <3>2
      <4>. QED
        BY <1>7, <4>1 DEF LateFirst
    <3>3. CASE i > p
      <4>1. /\ i - 1 \in 1 .. n /\ r[i] = q[i - 1]
            /\ j - 1 \in 1 .. n /\ r[j] = q[j - 1] /\ i - 1 < j - 1
        BY <1>4, <1>7, <3>3
      <4>. QED
        BY <1>7, <4>1 DEF LateFirst
    <3>. QED
      BY <2>3, <3>1, <3>2, <3>3, <1>3
  <2>. QED
    BY <2>1, <2>2, <2>3
<1>. QED
  BY <1>4, <1>7 DEF LateFirst, r

LEMMA AddNextKeepsFront ==
    ASSUME NEW Owners, NEW q \in Seq(Event(Owners)), NEW e \in Event(Owners), e.late,
           LateFirst(q)
    PROVE  LateFirst(AddNext(q, e))
<1>. DEFINE n == Len(q)
            r == AddNext(q, e)
<1>1. n \in Nat
  BY LenProperties
<1>2. /\ Len(r) = n + 1 /\ r[1] = e
      /\ \A i \in 2 .. n + 1 : r[i] = q[i - 1]
  BY AddNextProperties
<1>. HIDE DEF r
<1>3. ASSUME NEW i \in 1 .. n + 1, NEW j \in 1 .. n + 1, i < j, r[j].late
      PROVE  r[i].late
  <2>1. CASE i = 1
    BY <1>2, <2>1
  <2>2. CASE i # 1
    <3>1. i \in 2 .. n + 1 /\ j \in 2 .. n + 1 /\ i - 1 \in 1 .. n /\ j - 1 \in 1 .. n /\ i - 1 < j - 1
      BY <1>1, <1>3, <2>2
    <3>2. r[i] = q[i - 1] /\ r[j] = q[j - 1]
      BY <1>2, <3>1
    <3>. QED
      BY <1>3, <3>1, <3>2 DEF LateFirst
  <2>. QED
    BY <2>1, <2>2
<1>. QED
  BY <1>2, <1>3 DEF LateFirst, r

LEMMA ThinnedKeepsFront ==
    ASSUME NEW E, NEW q \in Seq(E), NEW r \in Seq(E), Thinned(q, r), LateFirst(q)
    PROVE  LateFirst(r)
<1>. PICK h \in [1 .. Len(r) -> 1 .. Len(q)] :
        /\ \A i, j \in 1 .. Len(r) : i < j => h[i] < h[j]
        /\ \A i \in 1 .. Len(r) : r[i] = q[h[i]]
  BY DEF Thinned
<1>. QED
  BY DEF LateFirst

(* What the clients see of an addition.                                    *)
AlarmOf(e) == [who |-> e.src, time |-> e.time, late |-> e.late]

LEMMA AddAbsAlarms ==
    ASSUME NEW E, NEW q \in Seq(E), NEW e \in E, NEW clock
    PROVE  AlarmsOf(AddAbs(q, e, clock)) = AlarmsOf(q) \cup {AlarmOf(e)}
<1>. DEFINE r == AddAbs(q, e, clock)
<1>1. /\ \A i \in 1 .. Len(r) : r[i] = e \/ \E k \in 1 .. Len(q) : r[i] = q[k]
      /\ \A k \in 1 .. Len(q) : \E i \in 1 .. Len(r) : r[i] = q[k]
      /\ \E i \in 1 .. Len(r) : r[i] = e
  BY AddAbsKeepsEvents
<1>. HIDE DEF r
<1>2. \A i \in 1 .. Len(r) : AlarmOf(r[i]) \in AlarmsOf(q) \cup {AlarmOf(e)}
  BY <1>1 DEF AlarmsOf, AlarmOf
<1>3. \A k \in 1 .. Len(q) : AlarmOf(q[k]) \in AlarmsOf(r)
  BY <1>1 DEF AlarmsOf, AlarmOf
<1>4. AlarmOf(e) \in AlarmsOf(r)
  BY <1>1 DEF AlarmsOf, AlarmOf
<1>5. AlarmsOf(r) = {AlarmOf(r[i]) : i \in 1 .. Len(r)}
      /\ AlarmsOf(q) = {AlarmOf(q[k]) : k \in 1 .. Len(q)}
  BY DEF AlarmsOf, AlarmOf
<1>6. AlarmsOf(r) = AlarmsOf(q) \cup {AlarmOf(e)}
  BY <1>2, <1>3, <1>4, <1>5
<1>. QED
  BY <1>6 DEF r

LEMMA AddNextAlarms ==
    ASSUME NEW E, NEW q \in Seq(E), NEW e \in E
    PROVE  AlarmsOf(AddNext(q, e)) = AlarmsOf(q) \cup {AlarmOf(e)}
<1>. DEFINE r == AddNext(q, e)
            n == Len(q)
<1>1. n \in Nat
  BY LenProperties
<1>2. /\ Len(r) = n + 1 /\ r[1] = e
      /\ \A i \in 2 .. n + 1 : r[i] = q[i - 1]
  BY AddNextProperties
<1>. HIDE DEF r, n
<1>3. AlarmsOf(r) = {AlarmOf(r[i]) : i \in 1 .. n + 1}
      /\ AlarmsOf(q) = {AlarmOf(q[k]) : k \in 1 .. n}
  BY <1>2 DEF AlarmsOf, AlarmOf, n
<1>4. ASSUME NEW i \in 1 .. n + 1
      PROVE  AlarmOf(r[i]) \in AlarmsOf(q) \cup {AlarmOf(e)}
  <2>1. CASE i = 1
    BY <1>2, <2>1
  <2>2. CASE i # 1
    <3>1. i \in 2 .. n + 1 /\ i - 1 \in 1 .. n
      BY <1>1, <2>2
    <3>. QED
      BY <1>2, <1>3, <3>1
  <2>. QED
    BY <2>1, <2>2
<1>5. ASSUME NEW k \in 1 .. n
      PROVE  AlarmOf(q[k]) \in AlarmsOf(r)
  <2>1. k + 1 \in 1 .. n + 1 /\ k + 1 \in 2 .. n + 1 /\ (k + 1) - 1 = k
    BY <1>1
  <2>2. r[k + 1] = q[(k + 1) - 1]
    BY <1>2, <2>1
  <2>. QED
    BY <1>3, <2>1, <2>2
<1>6. AlarmOf(e) \in AlarmsOf(r)
  BY <1>1, <1>2, <1>3
<1>7. AlarmsOf(r) = AlarmsOf(q) \cup {AlarmOf(e)}
  BY <1>3, <1>4, <1>5, <1>6
<1>. QED
  BY <1>7 DEF r
=============================================================================
