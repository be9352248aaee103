----------------------------- MODULE Occupancy -----------------------------
(***************************************************************************)
(* What the slot-reservation component promises, with no transactions, no  *)
(* day documents and no claims: a staff calendar is a set of parties, each *)
(* seated at most once in its life, and at every moment the seated parties *)
(* of one staff-day either do not overlap at all or share one session      *)
(* whose capacity holds them all (booking-slot-reservation.model.ts, the   *)
(* comment on the day document).                                           *)
(***************************************************************************)
EXTENDS Integers, FiniteSets

CONSTANTS Keys,      \* idempotency keys: one party each
          Intents    \* [day, endDay, service, start, end, max, party]

VARIABLES seated,    \* the parties occupying a slot: [key, slot] records
          left       \* the keys whose party has given its slot back

Overlap(a, b) == a.start < b.end /\ a.end > b.start

\* Two parties share a session when they booked exactly the same slot.
SameSession(a, b) ==
    /\ a.day = b.day /\ a.service = b.service
    /\ a.start = b.start /\ a.end = b.end /\ a.max = b.max

\* The seats taken in the session of slot i; a party takes party seats.
SeatsTaken(s, i) ==
    {x \in Keys \X (1..i.max) :
        \E p \in s : /\ p.key = x[1] /\ x[2] <= p.slot.party
                     /\ SameSession(p.slot, i)}

NoClash(s) ==
    \A p, q \in s : p.slot.day = q.slot.day /\ Overlap(p.slot, q.slot)
                       => SameSession(p.slot, q.slot)

WithinCapacity(s) ==
    \A p \in s : Cardinality(SeatsTaken(s, p.slot)) <= p.slot.max

OneSlotEach(s) == \A p, q \in s : p.key = q.key => p = q

Consistent(s) == NoClash(s) /\ WithinCapacity(s) /\ OneSlotEach(s)

TypeOK == seated \subseteq [key : Keys, slot : Intents] /\ left \subseteq Keys

Init == TypeOK /\ Consistent(seated) /\ \A p \in seated : p.key \notin left

\* Parties may come and go, several at once; a seated party keeps its slot until
\* it leaves, and one that left never returns.
Next == /\ TypeOK' /\ Consistent(seated')
        /\ left \subseteq left'
        /\ \A p \in seated : p \in seated' \/ p.key \in left'
        /\ \A p \in seated' : p.key \notin left'

Spec == Init /\ [][Next]_<<seated, left>>
=============================================================================
