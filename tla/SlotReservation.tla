-------------------------- MODULE SlotReservation --------------------------
(***************************************************************************)
(* booking-slot-reservation: one document of occupied intervals per        *)
(* staff-day and one claim document per idempotency key, written together  *)
(* inside MongoDB transactions.  A booking's transaction calls             *)
(* reserveOrJoin once per service line, a reschedule calls reserveOrJoin   *)
(* and then release, a cancellation calls release; a call that throws      *)
(* aborts its transaction.  A transaction reads the snapshot it began      *)
(* with, sees its own writes, and fails with a write conflict when it      *)
(* writes a document another transaction has written since.                *)
(*                                                                         *)
(* A staff-day is one model value.  The reservation id a claim pins is a   *)
(* fresh ObjectId, so the claim's own key stands for it: a claim is the    *)
(* CREATOR of interval id = its key, and a JOINER of any other.            *)
(***************************************************************************)
EXTENDS Integers, FiniteSets

CONSTANTS Keys,        \* idempotency keys
          Txns,        \* transactions that may be open at the same time
          Days,        \* staff-days
          Services,
          Times,       \* instants of a day
          Intents,     \* what a caller may ask for: the records of Slots
          NoClaim,     \* no claim document for this key
          Historical,  \* [key, slot] rows reserved before effects were recorded
          MaxCalls     \* bound on the calls one transaction makes

Slot == [day : Days, endDay : Days, service : Services, start : Times,
         end : Times, max : Nat, party : Nat]

Overlap(a, b) == a.start < b.end /\ a.end > b.start

\* requireValidInterval and the cross-midnight rejection.
RequireValidInterval(i) ==
    /\ i.end > i.start
    /\ i.max >= 1 /\ i.party \in 1..i.max
    /\ i.endDay = i.day

ASSUME IntentsAssumption ==
    /\ Times \subseteq Int /\ MaxCalls \in Nat
    /\ Intents \subseteq Slot /\ IsFiniteSet(Keys)

ASSUME HistoricalAssumption ==
    /\ Historical \subseteq [key : Keys, slot : Intents]
    /\ \A h \in Historical : RequireValidInterval(h.slot)
    /\ \A g, h \in Historical :
          g # h => /\ g.key # h.key
                   /\ ~(g.slot.day = h.slot.day /\ Overlap(g.slot, h.slot))

ASSUME NoClaimAssumption ==
    NoClaim \notin [slot : Intents, actual : Keys, effect : {"NONE", "APPLIED", "RELEASED"}]

VARIABLES claims,   \* the claim collection: [Keys -> Claim or NoClaim]
          days,     \* the day documents: [Days -> set of intervals]
          txn       \* the open transactions

vars == <<claims, days, txn>>

-----------------------------------------------------------------------------
(* Documents *)

Claim == [slot : Intents, actual : Keys, effect : {"NONE", "APPLIED", "RELEASED"}]

Interval == [id : Keys, service : Services, start : Times, end : Times,
             max : Nat, used : Nat]

\* createInterval pushes the interval with the party already counted.
IntervalFor(k, i) ==
    [id |-> k, service |-> i.service, start |-> i.start, end |-> i.end,
     max |-> i.max, used |-> i.party]

\* findExactMatchingInterval compares service, start and end, not capacity.
ExactMatch(iv, i) ==
    iv.service = i.service /\ iv.start = i.start /\ iv.end = i.end

\* assertExistingIntent also compares the capacity.
IntentMatches(iv, i) == ExactMatch(iv, i) /\ iv.max = i.max

-----------------------------------------------------------------------------
(* Transactions *)

\* A transaction's view is its snapshot plus its own writes; wKeys and wDays are
\* the documents it has written, sKeys and sDays those that other transactions
\* have committed since its snapshot.
Session(open, cl, ds) ==
    [open |-> open, claims |-> cl, days |-> ds, wKeys |-> {}, wDays |-> {},
     sKeys |-> {}, sDays |-> {}, calls |-> 0]

Idle == Session(FALSE, [k \in Keys |-> NoClaim], [d \in Days |-> {}])

Snapshot == Session(TRUE, claims, days)

\* No write conflict: nobody else holds or has committed a write to the document.
CanWriteMutated(t, ks, ds) == TRUE      \* no conflict detection at all
CanWrite(t, ks, ds) ==
    /\ ks \cap txn[t].sKeys = {} /\ ds \cap txn[t].sDays = {}
    /\ \A u \in Txns \ {t} : ks \cap txn[u].wKeys = {} /\ ds \cap txn[u].wDays = {}

InCall(t) == txn[t].open /\ txn[t].calls < MaxCalls

\* One successful call that writes claim c of key k and intervals ivs of day d.
Write(t, k, c, d, ivs) ==
    /\ CanWrite(t, {k}, {d})
    /\ txn' = [txn EXCEPT ![t].claims[k] = c, ![t].days[d] = ivs,
                          ![t].wKeys = @ \cup {k}, ![t].wDays = @ \cup {d},
                          ![t].calls = @ + 1]
    /\ UNCHANGED <<claims, days>>

\* One successful call that only reads.
Read(t) == /\ txn' = [txn EXCEPT ![t].calls = @ + 1]
           /\ UNCHANGED <<claims, days>>

\* withTransaction opens a session and takes its snapshot.
Begin(t) == /\ ~txn[t].open
            /\ txn' = [txn EXCEPT ![t] = Snapshot]
            /\ UNCHANGED <<claims, days>>

\* Commit publishes the written documents, which go stale for everybody else.
Commit(t) ==
    /\ txn[t].open
    /\ claims' = [k \in Keys |-> IF k \in txn[t].wKeys THEN txn[t].claims[k] ELSE claims[k]]
    /\ days' = [d \in Days |-> IF d \in txn[t].wDays THEN txn[t].days[d] ELSE days[d]]
    /\ txn' = [u \in Txns |->
                 IF u = t THEN Idle
                 ELSE IF txn[u].open
                      THEN [txn[u] EXCEPT !.sKeys = @ \cup txn[t].wKeys,
                                          !.sDays = @ \cup txn[t].wDays]
                      ELSE txn[u]]

\* A call that throws (every refusal below, a write conflict, a duplicate key), a
\* crash, or the caller's own later failure: the writes vanish.
Abort(t) == /\ txn[t].open
            /\ txn' = [txn EXCEPT ![t] = Idle]
            /\ UNCHANGED <<claims, days>>

-----------------------------------------------------------------------------
(* reserveOrJoin *)

Applied(i, id) == [slot |-> i, actual |-> id, effect |-> "APPLIED"]

\* createInterval's filter: no interval of the day overlaps the slot.
FreeOfOverlapMutated(ivs, i) == \A iv \in ivs : ~ExactMatch(iv, i)
FreeOfOverlap(ivs, i) == \A iv \in ivs : ~Overlap(iv, i)

\* A new claim whose slot is free: the party creates the interval under the
\* claim's own reservation id.
CreateInterval(t, k, i) ==
    /\ InCall(t) /\ RequireValidInterval(i)
    /\ txn[t].claims[k] = NoClaim
    /\ FreeOfOverlap(txn[t].days[i.day], i)
    /\ Write(t, k, Applied(i, k), i.day, txn[t].days[i.day] \cup {IntervalFor(k, i)})

\* joinCapacity's ceiling, compared with the stored capacityUsed.
HasRoomMutated(iv, i) == iv.used < iv.max      \* forgets the size of the party
HasRoom(iv, i) == iv.used <= iv.max - i.party

\* A new claim that meets exactly its session: the party joins it.  Inside one
\* snapshot the create fails only for an overlap, so the retry loop of
\* reserveOrJoin never comes round a second time.
JoinCapacity(t, k, i) ==
    /\ InCall(t) /\ RequireValidInterval(i)
    /\ txn[t].claims[k] = NoClaim
    /\ ~FreeOfOverlap(txn[t].days[i.day], i)
    /\ \E iv \in txn[t].days[i.day] :
          /\ IntentMatches(iv, i) /\ HasRoom(iv, i)
          /\ Write(t, k, Applied(i, iv.id), i.day,
                   (txn[t].days[i.day] \ {iv}) \cup {[iv EXCEPT !.used = @ + i.party]})

\* An existing claim authorises no write: it is answered from the interval its
\* effect names, or, for a historical claim, from the interval of its own id.
Replay(t, k, i) ==
    /\ InCall(t) /\ RequireValidInterval(i)
    /\ txn[t].claims[k] # NoClaim
    /\ LET c == txn[t].claims[k] IN
         \E iv \in txn[t].days[i.day] :
           /\ iv.id = c.actual /\ IntentMatches(iv, i)
           /\ \/ c.effect = "APPLIED" /\ c.slot = i /\ iv.used >= i.party
              \/ /\ c.effect = "NONE" /\ c.slot.day = i.day
                 /\ c.slot.service = i.service /\ c.slot.party = i.party
    /\ Read(t)

-----------------------------------------------------------------------------
(* release *)

\* releaseInterval: decrement, then pull the interval once it is empty.
ReleaseInterval(ivs, iv, n) ==
    (ivs \ {iv}) \cup (IF iv.used = n THEN {} ELSE {[iv EXCEPT !.used = @ - n]})

\* What becomes of the claim of a party that leaves.
ReleasedMutated(c) == c                 \* the effect is never advanced
Released(c) == [c EXCEPT !.effect = "RELEASED"]

\* The keyed release of an applied party.
ReleaseApplied(t, k) ==
    /\ InCall(t)
    /\ txn[t].claims[k] # NoClaim
    /\ LET c == txn[t].claims[k] IN
         /\ c.effect = "APPLIED"
         /\ \E iv \in txn[t].days[c.slot.day] :
              /\ iv.id = c.actual /\ IntentMatches(iv, c.slot) /\ iv.used >= c.slot.party
              /\ Write(t, k, Released(c), c.slot.day,
                       ReleaseInterval(txn[t].days[c.slot.day], iv, c.slot.party))

\* A repeated release is acknowledged and changes nothing.
AlreadyReleased(t, k) ==
    /\ InCall(t)
    /\ txn[t].claims[k] # NoClaim /\ txn[t].claims[k].effect = "RELEASED"
    /\ Read(t)

\* hasEffectForInterval: a recorded party sits (or sat) in the interval.
HasEffectForInterval(t, id) ==
    \E k \in Keys : /\ txn[t].claims[k] # NoClaim
                    /\ txn[t].claims[k].effect # "NONE" /\ txn[t].claims[k].actual = id

\* The release of a historical exclusive interval, with its own key or with none:
\* only when no recorded party ever sat in it.  The claim is left alone.
MayReleaseHistoricalMutated(t, iv) == iv.max = 1    \* forgets the recorded parties
MayReleaseHistorical(t, iv) == ~HasEffectForInterval(t, iv.id) /\ iv.max = 1

ReleaseHistorical(t, d) ==
    /\ InCall(t)
    /\ \E iv \in txn[t].days[d] :
         /\ MayReleaseHistorical(t, iv)
         /\ CanWrite(t, {}, {d})
         /\ txn' = [txn EXCEPT ![t].days[d] = ReleaseInterval(@, iv, 1),
                               ![t].wDays = @ \cup {d}, ![t].calls = @ + 1]
    /\ UNCHANGED <<claims, days>>

-----------------------------------------------------------------------------
Init ==
    /\ claims = [k \in Keys |->
          IF \E h \in Historical : h.key = k
          THEN [slot |-> (CHOOSE h \in Historical : h.key = k).slot,
                actual |-> k, effect |-> "NONE"]
          ELSE NoClaim]
    /\ days = [d \in Days |-> {IntervalFor(h.key, h.slot) :
                                  h \in {g \in Historical : g.slot.day = d}}]
    /\ txn = [t \in Txns |-> Idle]

Call(t) ==
    \/ \E k \in Keys, i \in Intents :
         CreateInterval(t, k, i) \/ JoinCapacity(t, k, i) \/ Replay(t, k, i)
    \/ \E k \in Keys : ReleaseApplied(t, k) \/ AlreadyReleased(t, k)
    \/ \E d \in Days : ReleaseHistorical(t, d)

Next == \E t \in Txns : Begin(t) \/ Call(t) \/ Commit(t) \/ Abort(t)

Spec == Init /\ [][Next]_vars

-----------------------------------------------------------------------------
(* Properties *)

Transaction == [open : BOOLEAN, claims : [Keys -> Claim \cup {NoClaim}],
                days : [Days -> SUBSET Interval],
                wKeys : SUBSET Keys, wDays : SUBSET Days,
                sKeys : SUBSET Keys, sDays : SUBSET Days, calls : 0..MaxCalls]

\* The type invariant of the two collections and of the transactions.
TypeOK == /\ claims \in [Keys -> Claim \cup {NoClaim}]
          /\ days \in [Days -> SUBSET Interval]
          /\ txn \in [Txns -> Transaction]

\* Key k's party sits in interval iv of day d, by the claims cl.
Sits(cl, d, k, iv) == /\ cl[k] # NoClaim /\ cl[k].effect # "RELEASED"
                      /\ cl[k].slot.day = d /\ cl[k].actual = iv.id

\* The seats of iv: one for each person of each party that sits in it.
Seats(cl, d, iv) == {x \in Keys \X (1..iv.max) :
                        Sits(cl, d, x[1], iv) /\ x[2] <= cl[x[1]].slot.party}

NoOverlap(ivs) == \A iv, jv \in ivs : iv # jv => ~Overlap(iv, jv) /\ iv.id # jv.id

\* No two committed intervals of a staff-day overlap, whichever transactions
\* created them and however they interleaved (createInterval's promise in
\* booking-slot-reservation.model.ts).
NoDoubleBooking == \A d \in Days : NoOverlap(days[d])

UsedIsSeats(cl, ivs, d) ==
    \A iv \in ivs : iv.used \in 1..iv.max /\ iv.used = Cardinality(Seats(cl, d, iv))

\* capacityUsed of every committed interval is exactly the number of persons of the
\* parties whose claims say that they sit there, never zero and never above the
\* ceiling: joins, releases and replays of one session never lose or repeat a party.
CapacityExact == \A d \in Days : UsedIsSeats(claims, days[d], d)

PartiesSeated(cl, ivs, d) ==
    \A k \in Keys :
        cl[k] # NoClaim /\ cl[k].effect = "APPLIED" /\ cl[k].slot.day = d
          => \E iv \in ivs : iv.id = cl[k].actual /\ IntentMatches(iv, cl[k].slot)

\* A party whose effect is APPLIED really occupies its slot: the interval its claim
\* names exists on the day and is the slot that was asked for.
EffectsBacked == \A d \in Days : PartiesSeated(claims, days[d], d)

\* A claim's party is applied at most once and released at most once: the effect
\* only goes from APPLIED to RELEASED, and slot and interval never change
\* (transitionReservationEffect).
EffectOnce ==
    [][\A k \in Keys : claims[k] # NoClaim =>
          \/ claims'[k] = claims[k]
          \/ claims[k].effect = "APPLIED" /\ claims'[k] = Released(claims[k])]_claims

\* The parties that the abstract calendar sees: the applied claims, and the
\* historical rows that still have their interval.
SeatedKeys ==
    {k \in Keys : /\ claims[k] # NoClaim
                  /\ \/ claims[k].effect = "APPLIED"
                     \/ /\ claims[k].effect = "NONE"
                        /\ \E iv \in days[claims[k].slot.day] : iv.id = k}

Occ == INSTANCE Occupancy
         WITH seated <- {[key |-> k, slot |-> claims[k].slot] : k \in SeatedKeys},
              left   <- {k \in Keys : claims[k] # NoClaim} \ SeatedKeys

\* The collections implement the abstract staff calendar.
ImplementsOccupancy == Occ!Spec

-----------------------------------------------------------------------------
(* The inductive invariant: every view of the store, committed or not, is      *)
(* sound day by day, and a transaction's view differs from the store only in   *)
(* the documents it wrote and in those that went stale.                        *)

PartiesFit(cl, ivs, d) ==
    \A k \in Keys : cl[k] # NoClaim /\ cl[k].slot.day = d =>
        /\ RequireValidInterval(cl[k].slot)
        /\ cl[cl[k].actual] # NoClaim /\ cl[cl[k].actual].slot.day = d
        /\ \A iv \in ivs : Sits(cl, d, k, iv) => IntentMatches(iv, cl[k].slot)

IdsClaimed(cl, ivs, d) ==
    \A iv \in ivs : cl[iv.id] # NoClaim /\ cl[iv.id].slot.day = d

DayOK(cl, ivs, d) ==
    /\ NoOverlap(ivs)
    /\ UsedIsSeats(cl, ivs, d)
    /\ PartiesSeated(cl, ivs, d)
    /\ PartiesFit(cl, ivs, d)
    /\ IdsClaimed(cl, ivs, d)

\* What a transaction may do to a claim of the store between snapshot and commit.
Advanced(c, e) == c = NoClaim \/ (c.effect = "APPLIED" /\ e = Released(c))

SameSlot(c, e) == c # NoClaim /\ e # NoClaim => c.slot = e.slot

\* The intervals are old ones or the claims ks created them.
IdsFrom(ivs, old, ks) == \A iv \in ivs : iv.id \in ks \/ \E jv \in old : jv.id = iv.id

FrameOK(x, cl, ds) ==
    /\ x.wKeys \cap x.sKeys = {} /\ x.wDays \cap x.sDays = {}
    /\ \A d \in Days \ (x.wDays \cup x.sDays) : x.days[d] = ds[d]
    /\ \A k \in Keys \ (x.wKeys \cup x.sKeys) : x.claims[k] = cl[k]
    /\ \A d \in x.wDays : IdsFrom(x.days[d], ds[d], x.wKeys)
    /\ \A k \in x.wKeys : /\ x.claims[k] # NoClaim /\ x.claims[k].slot.day \in x.wDays
                          /\ x.claims[k].effect # "NONE"
                          /\ Advanced(cl[k], x.claims[k])
    /\ \A k \in x.sKeys : /\ cl[k] # NoClaim /\ cl[k].slot.day \in x.sDays
                          /\ SameSlot(x.claims[k], cl[k])

StoreOK == \A d \in Days : DayOK(claims, days[d], d)

ViewsOK == \A t \in Txns : txn[t].open =>
              /\ FrameOK(txn[t], claims, days)
              /\ \A d \in Days : DayOK(txn[t].claims, txn[t].days[d], d)

WritersApart ==
    /\ \A t \in Txns : ~txn[t].open => txn[t] = Idle
    /\ \A t, u \in Txns : t # u => /\ txn[t].wKeys \cap txn[u].wKeys = {}
                                   /\ txn[t].wDays \cap txn[u].wDays = {}

\* A historical claim pins its own reservation id.
HistoricalOwn ==
    \A k \in Keys : claims[k] # NoClaim /\ claims[k].effect = "NONE" => claims[k].actual = k

Inv == TypeOK /\ StoreOK /\ ViewsOK /\ WritersApart /\ HistoricalOwn
=============================================================================
