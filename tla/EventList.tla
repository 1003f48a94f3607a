------------------------------ MODULE EventList ------------------------------
(***************************************************************************)
(* The event list of scheduler_t (jsmooch-lib/src/helpers/scheduler.cpp):  *)
(* the nodes reached from first_event, in order, as a sequence of events.  *)
(* The operators are what add_abs, add_next and delete_if_exist do to that *)
(* list.  They are written by position instead of by recursion, so that    *)
(* what they preserve can be proved (EventListProofs).                     *)
(***************************************************************************)
EXTENDS Integers, Sequences

(* A node.  late is not in the code: it records, for the properties, that  *)
(* the event was already due when it was added.                            *)
Event(Owners) == [id : Nat, time : Int, src : Owners, tag : Nat, late : BOOLEAN]

(* The test add_abs makes first: a timecode that has been reached, or 0.   *)
IsDue(t, clock) == t <= clock \/ t = 0

----------------------------------------------------------------------------
(* Whether event j of q stays ahead of an event that is added for time t.  *)
(* A list of one event puts the new one first on equal times, a longer one *)
(* puts it after every event of an equal or earlier time the walk meets.   *)
StaysAheadNoWalk(q, j, t, clock) ==    \* faulty: no walk past the head
    /\ ~IsDue(t, clock)
    /\ j = 1
    /\ q[1].time <= t

StaysAhead(q, j, t, clock) ==
    /\ ~IsDue(t, clock)
    /\ IF Len(q) = 1 THEN q[1].time < t ELSE q[1].time <= t
    /\ \A k \in 2 .. j : q[k].time <= t

(* add_abs for an event that is to be queued: an event that is due goes to *)
(* the front, whatever its time; the others go where the walk stops.       *)
AddAbs(q, e, clock) ==
    LET Ahead(j) == StaysAhead(q, j, e.time, clock)
    IN  [i \in 1 .. Len(q) + 1 |->
            IF i <= Len(q) /\ Ahead(i) THEN q[i]
            ELSE IF i = 1 \/ Ahead(i - 1) THEN e
            ELSE q[i - 1]]

(* add_next: the new event goes to the front.                              *)
AddNext(q, e) == <<e>> \o q

(* delete_if_exist unlinks the first event with the id; id 0 is no event.  *)
Listed(q, id) == \E k \in 1 .. Len(q) : q[k].id = id

DeleteIfExist(q, id) ==
    IF id = 0 \/ ~Listed(q, id) THEN q
    ELSE [i \in 1 .. Len(q) - 1 |->
             IF \E k \in 1 .. i : q[k].id = id THEN q[i + 1] ELSE q[i]]

(* The sources whose still_sched flag delete_if_exist clears.              *)
Unlinked(q, id) ==
    IF id = 0 THEN {}
    ELSE {q[k].src : k \in {k \in 1 .. Len(q) :
              q[k].id = id /\ \A j \in 1 .. k - 1 : q[j].id # id}}

----------------------------------------------------------------------------
(* What the scheduler keeps true of the list.                              *)

(* Behind an event that was in the future when it was added, none is for   *)
(* an earlier time.                                                        *)
InOrder(q) ==
    \A i, j \in 1 .. Len(q) : i < j => q[i].late \/ q[i].time <= q[j].time

LateOnlyWhenDue(q, clock) == \A i \in 1 .. Len(q) : q[i].late => q[i].time <= clock

(* The events that were due when they were added are ahead of the others.  *)
LateFirst(q) == \A i, j \in 1 .. Len(q) : i < j /\ q[j].late => q[i].late

DistinctIds(q) == \A i, j \in 1 .. Len(q) : q[i].id = q[j].id => i = j

IdsIn(q, S) == \A i \in 1 .. Len(q) : q[i].id \in S

(* Whether s has an event in the list, and no more than one.               *)
Has(q, s) == \E k \in 1 .. Len(q) : q[k].src = s

(* What a client sees of the events: whose they are, for when, and whether *)
(* they were due.                                                          *)
AlarmsOf(q) ==
    {[who |-> q[k].src, time |-> q[k].time, late |-> q[k].late] : k \in 1 .. Len(q)}

AtMostOne(q, s) == \A j, k \in 1 .. Len(q) : q[j].src = s /\ q[k].src = s => j = k
=============================================================================
