----------------------- MODULE SlotReservationProofs -----------------------
(***************************************************************************)
(* Proofs about SlotReservation, for any number of keys, transactions,     *)
(* staff-days and services: the type invariant, no double booking, exact   *)
(* capacity, effects applied once, and the refinement of Occupancy.        *)
(***************************************************************************)
EXTENDS SlotReservation, FiniteSetTheorems, TLAPS

Claims == [Keys -> Claim \cup {NoClaim}]

-----------------------------------------------------------------------------
(* Counting seats *)

\* The seats of one interval are a finite set.
LEMMA SeatsFinite ==
    ASSUME NEW cl, NEW d, NEW iv \in Interval
    PROVE  IsFiniteSet(Seats(cl, d, iv))
<1>1. iv.max \in Nat
  BY DEF Interval
<1>2. IsFiniteSet(1..iv.max)
  BY <1>1, FS_Interval
<1>3. IsFiniteSet(Keys \X (1..iv.max))
  BY <1>2, IntentsAssumption, FS_Product
<1>4. Seats(cl, d, iv) \subseteq Keys \X (1..iv.max)
  BY DEF Seats
<1> QED
  BY <1>3, <1>4, FS_Subset

\* A party of p persons takes p seats.
LEMMA PartySeats ==
    ASSUME NEW k \in Keys, NEW p \in Nat
    PROVE  IsFiniteSet({k} \X (1..p)) /\ Cardinality({k} \X (1..p)) = p
<1>1. IsFiniteSet(1..p) /\ Cardinality(1..p) = p
  BY FS_Interval
<1>2. IsFiniteSet({k}) /\ Cardinality({k}) = 1
  BY FS_Singleton
<1>3. Cardinality({k} \X (1..p)) = 1 * p
  BY <1>1, <1>2, FS_Product
<1>4. IsFiniteSet({k} \X (1..p))
  BY <1>1, <1>2, FS_Product
<1> QED
  BY <1>3, <1>4

-----------------------------------------------------------------------------
(* What one call does to a sound view.  A call touches one claim and one day;  *)
(* the other days do not notice, because claims that say nothing of a day are  *)
(* irrelevant to it.                                                           *)

Speaks(cl, k, d) == cl[k] # NoClaim /\ cl[k].slot.day = d

AgreeOn(c1, c2, d) ==
    \A k \in Keys : Speaks(c1, k, d) \/ Speaks(c2, k, d) => c1[k] = c2[k]

\* A day is sound under any claims that agree about it.
LEMMA DayFrame ==
    ASSUME NEW c1 \in Claims, NEW c2 \in Claims, NEW d \in Days,
           NEW ivs \in SUBSET Interval,
           DayOK(c1, ivs, d), AgreeOn(c1, c2, d)
    PROVE  DayOK(c2, ivs, d)
<1>1. \A k \in Keys : Speaks(c1, k, d) <=> Speaks(c2, k, d)
  BY DEF AgreeOn, Speaks
<1>2. \A k \in Keys : Speaks(c2, k, d) => c2[k] = c1[k]
  BY DEF AgreeOn
<1>3. \A k \in Keys : \A iv \in ivs : Sits(c1, d, k, iv) <=> Sits(c2, d, k, iv)
  BY <1>1, <1>2 DEF Sits, Speaks
<1>4. NoOverlap(ivs)
  BY DEF DayOK
<1>5. UsedIsSeats(c2, ivs, d)
  <2> SUFFICES ASSUME NEW iv \in ivs
               PROVE  Seats(c2, d, iv) = Seats(c1, d, iv)
    BY DEF DayOK, UsedIsSeats
  <2>1. \A k \in Keys : Sits(c1, d, k, iv) => c1[k].slot.party = c2[k].slot.party
    BY <1>1, <1>2 DEF Sits, Speaks
  <2> QED
    BY <1>3, <2>1 DEF Seats
<1>6. PartiesSeated(c2, ivs, d)
  BY <1>1, <1>2 DEF DayOK, PartiesSeated, Speaks
<1>7. PartiesFit(c2, ivs, d)
  <2> SUFFICES ASSUME NEW k \in Keys, Speaks(c2, k, d)
               PROVE  /\ RequireValidInterval(c2[k].slot)
                      /\ Speaks(c2, c2[k].actual, d)
                      /\ \A iv \in ivs : Sits(c2, d, k, iv) => IntentMatches(iv, c2[k].slot)
    BY DEF PartiesFit, Speaks
  <2>1. c2[k] = c1[k] /\ Speaks(c1, k, d)
    BY <1>1, <1>2
  <2>2. c1[k].actual \in Keys
    BY <2>1 DEF Claims, Claim, Speaks
  <2>3. Speaks(c1, c1[k].actual, d)
    BY <2>1 DEF DayOK, PartiesFit, Speaks
  <2> QED
    BY <2>1, <2>2, <2>3, <1>1, <1>3 DEF DayOK, PartiesFit, Speaks
<1>8. IdsClaimed(c2, ivs, d)
  <2> SUFFICES ASSUME NEW iv \in ivs PROVE Speaks(c2, iv.id, d)
    BY DEF IdsClaimed, Speaks
  <2>1. iv.id \in Keys /\ Speaks(c1, iv.id, d)
    BY DEF DayOK, IdsClaimed, Speaks, Interval
  <2> QED
    BY <1>1, <2>1
<1> QED
  BY <1>4, <1>5, <1>6, <1>7, <1>8 DEF DayOK

\* What the proofs about one call start from: a sound day d of typed documents.
SoundDay(cl, ivs, d) == cl \in Claims /\ ivs \in SUBSET Interval /\ DayOK(cl, ivs, d)

\* createInterval leaves the day sound: the new interval overlaps nothing, its id
\* is new on the day, and its only party is the creator.
LEMMA CreateKeepsDay ==
    ASSUME NEW cl, NEW ivs, NEW k \in Keys, NEW i \in Intents,
           SoundDay(cl, ivs, i.day), cl[k] = NoClaim,
           RequireValidInterval(i), FreeOfOverlap(ivs, i)
    PROVE  SoundDay([cl EXCEPT ![k] = Applied(i, k)], ivs \cup {IntervalFor(k, i)}, i.day)
<1> DEFINE d  == i.day
           c2 == [cl EXCEPT ![k] = Applied(i, k)]
           n  == IntervalFor(k, i)
<1>1. i \in Slot
  BY IntentsAssumption
<1>2. Applied(i, k) \in Claim /\ Applied(i, k) # NoClaim
  BY NoClaimAssumption DEF Applied, Claim
<1>3. c2 \in Claims /\ c2[k] = Applied(i, k) /\ \A j \in Keys : j # k => c2[j] = cl[j]
  BY <1>2 DEF Claims, SoundDay
<1>4. n \in Interval /\ n.id = k /\ n.max = i.max /\ n.used = i.party
      /\ IntentMatches(n, i) /\ n.start = i.start /\ n.end = i.end
  BY <1>1 DEF IntervalFor, Interval, Slot, IntentMatches, ExactMatch
<1>5. Applied(i, k).slot = i /\ Applied(i, k).actual = k /\ Applied(i, k).effect = "APPLIED"
  BY DEF Applied
<1>6. \A iv \in ivs : iv \in Interval /\ iv.id # k
  BY DEF SoundDay, DayOK, IdsClaimed
<1>7. \A j \in Keys : Speaks(cl, j, d) => cl[j].actual # k /\ cl[j].actual \in Keys
  BY DEF SoundDay, DayOK, PartiesFit, Speaks, Claims, Claim
<1>8. \A j \in Keys, iv \in ivs : Sits(c2, d, j, iv) <=> Sits(cl, d, j, iv)
  BY <1>3, <1>5, <1>6 DEF Sits
<1>9. \A j \in Keys : Sits(c2, d, j, n) <=> j = k
  BY <1>2, <1>3, <1>4, <1>5, <1>7 DEF Sits, Speaks
<1>10. NoOverlap(ivs \cup {n})
  BY <1>4, <1>6 DEF SoundDay, DayOK, NoOverlap, FreeOfOverlap, Overlap
<1>11. UsedIsSeats(c2, ivs \cup {n}, d)
  <2>1. ASSUME NEW iv \in ivs
        PROVE  Seats(c2, d, iv) = Seats(cl, d, iv)
    <3>1. \A j \in Keys : Sits(cl, d, j, iv) => c2[j] = cl[j]
      BY <1>3 DEF Sits
    <3> QED
      BY <1>8, <3>1 DEF Seats
  <2>2. Seats(c2, d, n) = {k} \X (1..i.party)
    <3>1. i.party \in Nat /\ i.max \in Nat /\ i.party <= i.max
      BY <1>1 DEF Slot, RequireValidInterval
    <3>2. 1..i.party = {m \in 1..i.max : m <= i.party}
      BY <3>1
    <3> QED
      BY <1>3, <1>4, <1>5, <1>9, <3>2 DEF Seats
  <2>3. Cardinality(Seats(c2, d, n)) = n.used /\ n.used \in 1..n.max
    BY <2>2, <1>1, <1>4, PartySeats DEF Slot, RequireValidInterval
  <2> QED
    BY <2>1, <2>3 DEF SoundDay, DayOK, UsedIsSeats
<1>12. PartiesSeated(c2, ivs \cup {n}, d)
  BY <1>3, <1>4, <1>5 DEF SoundDay, DayOK, PartiesSeated
<1>13. PartiesFit(c2, ivs \cup {n}, d)
  <2> SUFFICES ASSUME NEW j \in Keys, Speaks(c2, j, d)
               PROVE  /\ RequireValidInterval(c2[j].slot)
                      /\ Speaks(c2, c2[j].actual, d)
                      /\ \A iv \in ivs \cup {n} :
                           Sits(c2, d, j, iv) => IntentMatches(iv, c2[j].slot)
    BY DEF PartiesFit, Speaks
  <2>1. CASE j = k
    BY <2>1, <1>2, <1>3, <1>4, <1>5, <1>6 DEF Speaks, Sits
  <2>2. CASE j # k
    <3>1. c2[j] = cl[j] /\ Speaks(cl, j, d)
      BY <2>2, <1>3 DEF Speaks
    <3>2. Speaks(c2, cl[j].actual, d)
      BY <3>1, <1>3, <1>7 DEF SoundDay, DayOK, PartiesFit, Speaks
    <3> QED
      BY <3>1, <3>2, <1>8, <1>9, <2>2 DEF SoundDay, DayOK, PartiesFit, Speaks
  <2> QED
    BY <2>1, <2>2
<1>14. IdsClaimed(c2, ivs \cup {n}, d)
  BY <1>2, <1>3, <1>4, <1>5, <1>6 DEF SoundDay, DayOK, IdsClaimed, Interval
<1> QED
  BY <1>3, <1>4, <1>10, <1>11, <1>12, <1>13, <1>14 DEF SoundDay, DayOK

\* joinCapacity leaves the day sound: the joiner's seats are new, and the ceiling
\* test left room for them.
LEMMA JoinKeepsDay ==
    ASSUME NEW cl, NEW ivs, NEW k \in Keys, NEW i \in Intents, NEW iv \in ivs,
           SoundDay(cl, ivs, i.day), cl[k] = NoClaim,
           RequireValidInterval(i), IntentMatches(iv, i), HasRoom(iv, i)
    PROVE  SoundDay([cl EXCEPT ![k] = Applied(i, iv.id)],
                    (ivs \ {iv}) \cup {[iv EXCEPT !.used = @ + i.party]}, i.day)
<1> DEFINE d  == i.day
           c2 == [cl EXCEPT ![k] = Applied(i, iv.id)]
           m  == [iv EXCEPT !.used = @ + i.party]
           rest == ivs \ {iv}
<1>1. /\ i \in Slot /\ iv \in Interval /\ iv.id \in Keys
      /\ i.party \in Nat /\ i.party >= 1 /\ iv.max \in Nat /\ iv.used \in Nat
  BY IntentsAssumption DEF SoundDay, Interval, Slot, RequireValidInterval
<1>2. Applied(i, iv.id) \in Claim /\ Applied(i, iv.id) # NoClaim
  BY <1>1, NoClaimAssumption DEF Applied, Claim
<1>3. c2 \in Claims /\ c2[k] = Applied(i, iv.id) /\ \A j \in Keys : j # k => c2[j] = cl[j]
  BY <1>2 DEF Claims, SoundDay
<1>4. /\ m \in Interval /\ m.id = iv.id /\ m.max = iv.max /\ m.used = iv.used + i.party
      /\ m.start = iv.start /\ m.end = iv.end /\ m.service = iv.service
  BY <1>1 DEF Interval
<1>5. Applied(i, iv.id).slot = i /\ Applied(i, iv.id).actual = iv.id
      /\ Applied(i, iv.id).effect = "APPLIED"
  BY DEF Applied
<1>6. \A jv \in rest : jv \in Interval /\ jv.id # iv.id /\ ~Overlap(iv, jv) /\ ~Overlap(jv, iv)
  BY DEF SoundDay, DayOK, NoOverlap
<1>7. \A j \in Keys, jv \in rest : Sits(c2, d, j, jv) <=> Sits(cl, d, j, jv)
  BY <1>3, <1>5, <1>6 DEF Sits
<1>8. \A j \in Keys : Sits(c2, d, j, m) <=> j = k \/ Sits(cl, d, j, iv)
  BY <1>2, <1>3, <1>4, <1>5 DEF Sits
<1>9. i.max = iv.max /\ i.party <= iv.max /\ iv.used + i.party <= iv.max
  BY <1>1 DEF IntentMatches, HasRoom, RequireValidInterval, Slot
<1>10. NoOverlap(rest \cup {m})
  BY <1>4, <1>6 DEF SoundDay, DayOK, NoOverlap, Overlap
<1>11. UsedIsSeats(c2, rest \cup {m}, d)
  <2>1. ASSUME NEW jv \in rest
        PROVE  Seats(c2, d, jv) = Seats(cl, d, jv)
    <3>1. \A j \in Keys : Sits(cl, d, j, jv) => c2[j] = cl[j]
      BY <1>3 DEF Sits
    <3> QED
      BY <1>7, <3>1 DEF Seats
  <2>2. Seats(c2, d, m) = Seats(cl, d, iv) \cup ({k} \X (1..i.party))
    <3>1. 1..i.party = {x \in 1..iv.max : x <= i.party}
      BY <1>1, <1>9
    <3>2. \A j \in Keys : Sits(cl, d, j, iv) => c2[j] = cl[j] /\ j # k
      BY <1>3 DEF Sits
    <3> QED
      BY <1>3, <1>4, <1>5, <1>8, <3>1, <3>2 DEF Seats
  <2>3. Seats(cl, d, iv) \cap ({k} \X (1..i.party)) = {}
    BY DEF Seats, Sits
  <2>4. Cardinality(Seats(cl, d, iv)) = iv.used /\ iv.used >= 1
    BY <1>1 DEF SoundDay, DayOK, UsedIsSeats
  <2>5. IsFiniteSet(Seats(cl, d, iv))
    BY <1>1, SeatsFinite
  <2>6. IsFiniteSet({k} \X (1..i.party)) /\ Cardinality({k} \X (1..i.party)) = i.party
    BY <1>1, PartySeats
  <2>7. Cardinality(Seats(c2, d, m)) = iv.used + i.party
    <3> DEFINE S == Seats(cl, d, iv)
               P == {k} \X (1..i.party)
    <3>1. Cardinality(S \cup P) = Cardinality(S) + Cardinality(P) - Cardinality(S \cap P)
      BY <2>5, <2>6, FS_Union
    <3>2. Cardinality(S \cap P) = 0
      BY <2>3, FS_EmptySet
    <3>3. Cardinality(S) = iv.used /\ Cardinality(P) = i.party
      BY <2>4, <2>6
    <3> HIDE DEF S, P
    <3>4. Cardinality(S \cup P) = iv.used + i.party
      BY <3>1, <3>2, <3>3, <1>1
    <3> QED
      BY <3>4, <2>2 DEF S, P
  <2>8. m.used \in 1..m.max /\ m.used = Cardinality(Seats(c2, d, m))
    BY <1>1, <1>4, <1>9, <2>4, <2>7
  <2> QED
    BY <2>1, <2>8 DEF SoundDay, DayOK, UsedIsSeats
<1>12. PartiesSeated(c2, rest \cup {m}, d)
  <2> SUFFICES ASSUME NEW j \in Keys, Speaks(c2, j, d), c2[j].effect = "APPLIED"
               PROVE  \E jv \in rest \cup {m} :
                         jv.id = c2[j].actual /\ IntentMatches(jv, c2[j].slot)
    BY DEF PartiesSeated, Speaks
  <2>1. CASE j = k
    BY <2>1, <1>3, <1>4, <1>5 DEF IntentMatches, ExactMatch
  <2>2. CASE j # k
    <3>1. c2[j] = cl[j] /\ Speaks(cl, j, d)
      BY <2>2, <1>3 DEF Speaks
    <3>2. PICK jv \in ivs : jv.id = cl[j].actual /\ IntentMatches(jv, cl[j].slot)
      BY <3>1 DEF SoundDay, DayOK, PartiesSeated, Speaks
    <3>3. CASE jv = iv
      BY <3>1, <3>2, <3>3, <1>4 DEF IntentMatches, ExactMatch
    <3>4. CASE jv # iv
      BY <3>1, <3>2, <3>4
    <3> QED
      BY <3>3, <3>4
  <2> QED
    BY <2>1, <2>2
<1>13. PartiesFit(c2, rest \cup {m}, d)
  <2> SUFFICES ASSUME NEW j \in Keys, Speaks(c2, j, d)
               PROVE  /\ RequireValidInterval(c2[j].slot)
                      /\ Speaks(c2, c2[j].actual, d)
                      /\ \A jv \in rest \cup {m} :
                           Sits(c2, d, j, jv) => IntentMatches(jv, c2[j].slot)
    BY DEF PartiesFit, Speaks
  <2>1. CASE j = k
    <3>1. Speaks(cl, iv.id, d) /\ iv.id # k
      BY DEF SoundDay, DayOK, IdsClaimed, Speaks
    <3>2. Speaks(c2, iv.id, d)
      BY <3>1, <1>1, <1>3 DEF Speaks
    <3>3. IntentMatches(m, i)
      BY <1>4 DEF IntentMatches, ExactMatch
    <3> QED
      BY <2>1, <3>2, <3>3, <1>3, <1>5, <1>6 DEF Sits
  <2>2. CASE j # k
    <3>1. c2[j] = cl[j] /\ Speaks(cl, j, d) /\ cl[j].actual \in Keys
      BY <2>2, <1>3 DEF Speaks, SoundDay, Claims, Claim
    <3>2. RequireValidInterval(cl[j].slot) /\ Speaks(cl, cl[j].actual, d)
      BY <3>1 DEF SoundDay, DayOK, PartiesFit, Speaks
    <3>3. Speaks(c2, cl[j].actual, d)
      BY <3>1, <3>2, <1>3 DEF Speaks
    <3>4. \A jv \in ivs : Sits(cl, d, j, jv) => IntentMatches(jv, cl[j].slot)
      BY <3>1 DEF SoundDay, DayOK, PartiesFit, Speaks
    <3>5. Sits(c2, d, j, m) => IntentMatches(m, cl[j].slot)
      BY <3>4, <1>4, <1>8, <2>2 DEF IntentMatches, ExactMatch
    <3> QED
      BY <3>1, <3>2, <3>3, <3>4, <3>5, <1>7
  <2> QED
    BY <2>1, <2>2
<1>14. IdsClaimed(c2, rest \cup {m}, d)
  BY <1>1, <1>3, <1>4 DEF SoundDay, DayOK, IdsClaimed, Interval
<1> QED
  BY <1>3, <1>4, <1>10, <1>11, <1>12, <1>13, <1>14 DEF SoundDay, DayOK

\* The keyed release leaves the day sound: it gives back exactly the seats of the
\* party, and pulls the interval exactly when nobody else sits in it.
LEMMA ReleaseKeepsDay ==
    ASSUME NEW cl, NEW ivs, NEW k \in Keys, NEW iv \in ivs,
           cl[k] # NoClaim, SoundDay(cl, ivs, cl[k].slot.day),
           cl[k].effect = "APPLIED", iv.id = cl[k].actual,
           IntentMatches(iv, cl[k].slot), iv.used >= cl[k].slot.party
    PROVE  SoundDay([cl EXCEPT ![k] = Released(cl[k])],
                    ReleaseInterval(ivs, iv, cl[k].slot.party), cl[k].slot.day)
<1> DEFINE p  == cl[k].slot.party
           d  == cl[k].slot.day
           c2 == [cl EXCEPT ![k] = Released(cl[k])]
           m  == [iv EXCEPT !.used = @ - p]
           rest == ivs \ {iv}
           new == ReleaseInterval(ivs, iv, p)
<1>1. cl[k] \in Claim /\ cl[k].slot \in Slot /\ RequireValidInterval(cl[k].slot)
  BY IntentsAssumption DEF SoundDay, Claims, Claim, DayOK, PartiesFit
<1>2. /\ iv \in Interval /\ iv.max \in Nat /\ iv.used \in Nat
      /\ p \in Nat /\ p >= 1 /\ p <= iv.max
  BY <1>1 DEF SoundDay, Interval, Slot, RequireValidInterval, IntentMatches
<1>3. Released(cl[k]) \in Claim /\ Released(cl[k]) # NoClaim
  BY <1>1, NoClaimAssumption DEF Released, Claim
<1>4. /\ Released(cl[k]).slot = cl[k].slot /\ Released(cl[k]).actual = cl[k].actual
      /\ Released(cl[k]).effect = "RELEASED"
  BY <1>1 DEF Released, Claim
<1>5. c2 \in Claims /\ c2[k] = Released(cl[k]) /\ \A j \in Keys : j # k => c2[j] = cl[j]
  BY <1>3 DEF Claims, SoundDay
<1>6. iv.used # p => /\ m \in Interval /\ m.id = iv.id /\ m.max = iv.max
                     /\ m.used = iv.used - p /\ m.used >= 1 /\ m.used <= iv.max
                     /\ m.start = iv.start /\ m.end = iv.end /\ m.service = iv.service
  <2>1. iv.used <= iv.max
    BY <1>2 DEF SoundDay, DayOK, UsedIsSeats
  <2> QED
    BY <1>2, <2>1 DEF Interval
<1>7. \A jv \in new : jv \in rest \/ (iv.used # p /\ jv = m)
  BY DEF ReleaseInterval
<1>8. rest \subseteq new /\ (iv.used # p => m \in new)
  BY DEF ReleaseInterval
<1>9. \A jv \in rest : /\ jv \in Interval /\ jv.id # iv.id
                       /\ ~Overlap(iv, jv) /\ ~Overlap(jv, iv)
  BY DEF SoundDay, DayOK, NoOverlap
<1>10. \A j \in Keys : \A jv \in rest : Sits(c2, d, j, jv) <=> Sits(cl, d, j, jv)
  BY <1>4, <1>5, <1>9 DEF Sits
<1>11. ~Sits(c2, d, k, iv) /\ Sits(cl, d, k, iv)
       /\ \A j \in Keys : j # k => (Sits(c2, d, j, iv) <=> Sits(cl, d, j, iv))
  BY <1>3, <1>4, <1>5 DEF Sits
<1>12. new \subseteq Interval
  BY <1>6, <1>7, <1>9
<1>13. NoOverlap(new)
  <2> SUFFICES ASSUME NEW jv \in new, NEW lv \in new, jv # lv
               PROVE  ~Overlap(jv, lv) /\ jv.id # lv.id
    BY DEF NoOverlap
  <2>1. CASE jv \in rest /\ lv \in rest
    BY <2>1 DEF SoundDay, DayOK, NoOverlap
  <2>2. CASE ~(jv \in rest /\ lv \in rest)
    BY <2>2, <1>6, <1>7, <1>9 DEF Overlap
  <2> QED
    BY <2>1, <2>2
<1>14. Seats(c2, d, iv) = Seats(cl, d, iv) \ ({k} \X (1..p))
  <2>1. \A j \in Keys : Sits(c2, d, j, iv) => j # k /\ Sits(cl, d, j, iv) /\ c2[j] = cl[j]
    BY <1>5, <1>11
  <2>2. \A j \in Keys : Sits(cl, d, j, iv) /\ j # k => Sits(c2, d, j, iv) /\ c2[j] = cl[j]
    BY <1>5, <1>11
  <2>3. \A x \in Seats(cl, d, iv) : x \in {k} \X (1..p) <=> x[1] = k
    BY <1>2 DEF Seats
  <2>4. ASSUME NEW x \in Seats(c2, d, iv)
        PROVE  x \in Seats(cl, d, iv) /\ x[1] # k
    BY <2>1 DEF Seats
  <2>5. ASSUME NEW x \in Seats(cl, d, iv), x[1] # k
        PROVE  x \in Seats(c2, d, iv)
    BY <2>2, <2>5 DEF Seats
  <2> QED
    BY <2>3, <2>4, <2>5
<1>15. Cardinality(Seats(c2, d, iv)) = iv.used - p /\ IsFiniteSet(Seats(c2, d, iv))
  <2> DEFINE S == Seats(cl, d, iv)
             P == {k} \X (1..p)
  <2>1. IsFiniteSet(S) /\ Cardinality(S) = iv.used
    BY <1>2, SeatsFinite DEF SoundDay, DayOK, UsedIsSeats
  <2>2. IsFiniteSet(P) /\ Cardinality(P) = p
    BY <1>2, PartySeats
  <2>3. S \cap P = P
    <3>1. \A n \in 1..p : n \in 1..iv.max /\ n <= p
      BY <1>2
    <3> QED
      BY <1>11, <3>1 DEF Seats
  <2>4. Cardinality(S \ P) = Cardinality(S) - Cardinality(S \cap P) /\ IsFiniteSet(S \ P)
    BY <2>1, FS_Difference
  <2> HIDE DEF S, P
  <2>5. Cardinality(S \ P) = iv.used - p
    BY <2>1, <2>2, <2>3, <2>4
  <2> QED
    BY <2>4, <2>5, <1>14 DEF S, P
<1>16. UsedIsSeats(c2, new, d)
  <2>1. ASSUME NEW jv \in rest
        PROVE  Seats(c2, d, jv) = Seats(cl, d, jv)
    <3>1. \A j \in Keys : Sits(cl, d, j, jv) => c2[j] = cl[j]
      BY <1>5, <1>9 DEF Sits
    <3> QED
      BY <1>10, <3>1 DEF Seats
  <2>2. iv.used # p => Seats(c2, d, m) = Seats(c2, d, iv)
    BY <1>6 DEF Seats, Sits
  <2>3. iv.used # p => m.used \in 1..m.max /\ m.used = Cardinality(Seats(c2, d, m))
    BY <1>2, <1>6, <1>15, <2>2
  <2> QED
    BY <1>7, <2>1, <2>3 DEF SoundDay, DayOK, UsedIsSeats
<1>17. iv.used = p => \A j \in Keys : ~(j # k /\ Sits(cl, d, j, iv))
  <2> SUFFICES ASSUME iv.used = p, NEW j \in Keys, j # k, Sits(cl, d, j, iv)
               PROVE  FALSE
    OBVIOUS
  <2>1. Seats(c2, d, iv) = {}
    BY <1>2, <1>15, FS_EmptySet
  <2>2. c2[j] = cl[j] /\ Sits(c2, d, j, iv)
    BY <1>5, <1>11
  <2>3. Speaks(cl, j, d) /\ cl[j] \in Claim
    BY DEF Sits, Speaks, SoundDay, Claims
  <2>4. cl[j].slot.party >= 1 /\ cl[j].slot.party \in Nat
    BY <2>3, IntentsAssumption
       DEF Speaks, SoundDay, DayOK, PartiesFit, Claim, Slot, RequireValidInterval
  <2>5. <<j, 1>> \in Seats(c2, d, iv)
    BY <2>2, <2>4, <1>2 DEF Seats
  <2> QED
    BY <2>1, <2>5
<1>18. PartiesSeated(c2, new, d)
  <2> SUFFICES ASSUME NEW j \in Keys, Speaks(c2, j, d), c2[j].effect = "APPLIED"
               PROVE  \E jv \in new : jv.id = c2[j].actual /\ IntentMatches(jv, c2[j].slot)
    BY DEF PartiesSeated, Speaks
  <2>1. j # k /\ c2[j] = cl[j] /\ Speaks(cl, j, d)
    BY <1>4, <1>5 DEF Speaks
  <2>2. PICK jv \in ivs : jv.id = cl[j].actual /\ IntentMatches(jv, cl[j].slot)
    BY <2>1 DEF SoundDay, DayOK, PartiesSeated, Speaks
  <2>3. CASE jv = iv
    <3>1. iv.used # p
      BY <2>1, <2>2, <2>3, <1>17 DEF Sits, Speaks
    <3> QED
      BY <3>1, <2>1, <2>2, <2>3, <1>6, <1>8 DEF IntentMatches, ExactMatch
  <2>4. CASE jv # iv
    BY <2>1, <2>2, <2>4, <1>8
  <2> QED
    BY <2>3, <2>4
<1>19. PartiesFit(c2, new, d)
  <2> SUFFICES ASSUME NEW j \in Keys, Speaks(c2, j, d)
               PROVE  /\ RequireValidInterval(c2[j].slot)
                      /\ Speaks(c2, c2[j].actual, d)
                      /\ \A jv \in new : Sits(c2, d, j, jv) => IntentMatches(jv, c2[j].slot)
    BY DEF PartiesFit, Speaks
  <2>1. /\ cl[j] # NoClaim /\ cl[j] \in Claim /\ cl[j].slot.day = d
        /\ c2[j].slot = cl[j].slot /\ c2[j].actual = cl[j].actual /\ cl[j].actual \in Keys
    BY <1>1, <1>4, <1>5 DEF Speaks, SoundDay, Claims, Claim
  <2>2. RequireValidInterval(cl[j].slot) /\ Speaks(cl, cl[j].actual, d)
    BY <2>1 DEF SoundDay, DayOK, PartiesFit, Speaks
  <2>3. Speaks(c2, cl[j].actual, d)
    BY <2>1, <2>2, <1>3, <1>4, <1>5 DEF Speaks
  <2>4. ASSUME NEW jv \in new, Sits(c2, d, j, jv)
        PROVE  IntentMatches(jv, c2[j].slot)
    <3>1. CASE jv \in rest
      BY <2>1, <2>4, <3>1, <1>10 DEF SoundDay, DayOK, PartiesFit
    <3>2. CASE iv.used # p /\ jv = m
      <4>1. Sits(c2, d, j, iv)
        BY <2>4, <3>2, <1>6 DEF Sits
      <4>2. IntentMatches(iv, cl[j].slot)
        BY <4>1, <2>1, <1>11 DEF SoundDay, DayOK, PartiesFit
      <4> QED
        BY <4>2, <2>1, <3>2, <1>6 DEF IntentMatches, ExactMatch
    <3> QED
      BY <3>1, <3>2, <1>7
  <2> QED
    BY <2>1, <2>2, <2>3, <2>4
<1>20. IdsClaimed(c2, new, d)
  <2> SUFFICES ASSUME NEW jv \in new
               PROVE  Speaks(c2, jv.id, d)
    BY DEF IdsClaimed, Speaks
  <2>1. PICK lv \in ivs : lv.id = jv.id
    BY <1>6, <1>7
  <2>2. jv.id \in Keys /\ Speaks(cl, jv.id, d)
    BY <2>1, <1>12 DEF SoundDay, DayOK, IdsClaimed, Speaks, Interval
  <2> QED
    BY <2>2, <1>3, <1>4, <1>5 DEF Speaks
<1> QED
  BY <1>5, <1>12, <1>13, <1>16, <1>18, <1>19, <1>20 DEF SoundDay, DayOK

\* The release of a historical exclusive interval leaves the day sound: no recorded
\* party sits in it, and its one seat is the last.
LEMMA ReleaseHistoricalKeepsDay ==
    ASSUME NEW cl, NEW ivs, NEW d \in Days, NEW iv \in ivs,
           SoundDay(cl, ivs, d), iv.max = 1,
           ~ \E k \in Keys : /\ cl[k] # NoClaim /\ cl[k].effect # "NONE"
                             /\ cl[k].actual = iv.id
    PROVE  SoundDay(cl, ReleaseInterval(ivs, iv, 1), d)
<1> DEFINE rest == ivs \ {iv}
<1>1. iv.used = 1
  BY DEF SoundDay, DayOK, UsedIsSeats
<1>2. ReleaseInterval(ivs, iv, 1) = rest
  BY <1>1 DEF ReleaseInterval
<1>3. PartiesSeated(cl, rest, d)
  BY DEF SoundDay, DayOK, PartiesSeated
<1>4. /\ NoOverlap(rest) /\ UsedIsSeats(cl, rest, d)
      /\ PartiesFit(cl, rest, d) /\ IdsClaimed(cl, rest, d)
  BY DEF SoundDay, DayOK, NoOverlap, UsedIsSeats, PartiesFit, IdsClaimed
<1> QED
  BY <1>2, <1>3, <1>4 DEF SoundDay, DayOK

-----------------------------------------------------------------------------
(* Inv is inductive *)

\* A view of an open transaction is typed and sound on every day.
LEMMA ViewSound ==
    ASSUME Inv, NEW t \in Txns, txn[t].open
    PROVE  /\ txn[t] \in Transaction /\ txn[t].claims \in Claims
           /\ \A d \in Days : /\ txn[t].days[d] \in SUBSET Interval
                              /\ SoundDay(txn[t].claims, txn[t].days[d], d)
<1>1. txn[t] \in Transaction
  BY DEF Inv, TypeOK
<1>2. txn[t].claims \in Claims /\ txn[t].days \in [Days -> SUBSET Interval]
  BY <1>1 DEF Transaction, Claims
<1> QED
  BY <1>1, <1>2 DEF Inv, ViewsOK, SoundDay

\* A step that changes one transaction only, from t's record to y.
LEMMA LocalStep ==
    ASSUME Inv, NEW t \in Txns, NEW y \in Transaction,
           claims' = claims, days' = days, txn' = [txn EXCEPT ![t] = y],
           y.open \/ y = Idle,
           y.open => /\ FrameOK(y, claims, days)
                     /\ \A e \in Days : DayOK(y.claims, y.days[e], e),
           \A u \in Txns \ {t} : /\ y.wKeys \cap txn[u].wKeys = {}
                                 /\ y.wDays \cap txn[u].wDays = {}
    PROVE  Inv'
<1>1. txn'[t] = y /\ \A u \in Txns : u # t => txn'[u] = txn[u]
  BY DEF Inv, TypeOK
<1>2. TypeOK'
  BY DEF Inv, TypeOK
<1>3. StoreOK' /\ HistoricalOwn'
  BY DEF Inv, StoreOK, HistoricalOwn
<1>4. ViewsOK'
  <2> SUFFICES ASSUME NEW u \in Txns, txn'[u].open
               PROVE  /\ FrameOK(txn'[u], claims, days)
                      /\ \A e \in Days : DayOK(txn'[u].claims, txn'[u].days[e], e)
    BY DEF ViewsOK
  <2>1. CASE u = t
    BY <2>1, <1>1
  <2>2. CASE u # t
    BY <2>2, <1>1 DEF Inv, ViewsOK
  <2> QED
    BY <2>1, <2>2
<1>5. WritersApart'
  <2>1. ASSUME NEW u \in Txns, ~txn'[u].open
        PROVE  txn'[u] = Idle
    BY <2>1, <1>1 DEF Inv, WritersApart
  <2>2. ASSUME NEW u \in Txns, NEW v \in Txns, u # v
        PROVE  txn'[u].wKeys \cap txn'[v].wKeys = {} /\ txn'[u].wDays \cap txn'[v].wDays = {}
    <3>1. txn[u].wKeys \cap txn[v].wKeys = {} /\ txn[u].wDays \cap txn[v].wDays = {}
      BY <2>2 DEF Inv, WritersApart
    <3>2. CASE u = t
      BY <2>2, <3>2, <1>1
    <3>3. CASE v = t
      BY <2>2, <3>3, <1>1
    <3>4. CASE u # t /\ v # t
      BY <3>1, <3>4, <1>1
    <3> QED
      BY <3>2, <3>3, <3>4
  <2> QED
    BY <2>1, <2>2 DEF WritersApart
<1> QED
  BY <1>2, <1>3, <1>4, <1>5 DEF Inv

\* The fields of a transaction that a call touches.
Updated(x, cl, ds, ks, es, n) ==
    [x EXCEPT !.claims = cl, !.days = ds, !.wKeys = ks, !.wDays = es, !.calls = n]

LEMMA UpdateTransaction ==
    ASSUME NEW x \in Transaction, NEW cl \in [Keys -> Claim \cup {NoClaim}],
           NEW ds \in [Days -> SUBSET Interval], NEW ks \in SUBSET Keys,
           NEW es \in SUBSET Days, NEW n \in 0..MaxCalls
    PROVE  LET y == Updated(x, cl, ds, ks, es, n) IN
             /\ y \in Transaction
             /\ y.open = x.open /\ y.claims = cl /\ y.days = ds /\ y.wKeys = ks
             /\ y.wDays = es /\ y.sKeys = x.sKeys /\ y.sDays = x.sDays
<1> DEFINE y == Updated(x, cl, ds, ks, es, n)
<1>1. /\ DOMAIN y = DOMAIN x
      /\ y.open = x.open /\ y.claims = cl /\ y.days = ds /\ y.wKeys = ks
      /\ y.wDays = es /\ y.sKeys = x.sKeys /\ y.sDays = x.sDays
  BY DEF Transaction, Updated
<1>2. y \in Transaction
  BY DEF Transaction, Updated
<1> QED
  BY <1>1, <1>2

\* A call that writes claim c of key k and the intervals of its day d.
LEMMA WriteStep ==
    ASSUME Inv, NEW t \in Txns, InCall(t), NEW k \in Keys, NEW c \in Claim, NEW d \in Days,
           NEW ivs, c.slot.day = d,
           SoundDay([txn[t].claims EXCEPT ![k] = c], ivs, d),
           Advanced(txn[t].claims[k], c), c.effect # "NONE",
           IdsFrom(ivs, txn[t].days[d], {k}),
           Write(t, k, c, d, ivs)
    PROVE  Inv'
<1> DEFINE x == txn[t]
           y == txn'[t]
<1>1. x \in Transaction /\ x.open /\ x.calls + 1 \in 0..MaxCalls
  BY IntentsAssumption DEF Inv, TypeOK, InCall, Transaction
<1>2. /\ y = [x EXCEPT !.claims = [x.claims EXCEPT ![k] = c],
                       !.days = [x.days EXCEPT ![d] = ivs],
                       !.wKeys = x.wKeys \cup {k}, !.wDays = x.wDays \cup {d},
                       !.calls = x.calls + 1]
      /\ \A u \in Txns : u # t => txn'[u] = txn[u]
      /\ txn' = [txn EXCEPT ![t] = y]
  BY DEF Write, Inv, TypeOK, Transaction
<1>3. ivs \in SUBSET Interval
  BY DEF SoundDay
<1>4. /\ y \in Transaction
      /\ y.open = x.open /\ y.claims = [x.claims EXCEPT ![k] = c]
      /\ y.days = [x.days EXCEPT ![d] = ivs]
      /\ y.wKeys = x.wKeys \cup {k} /\ y.wDays = x.wDays \cup {d}
      /\ y.sKeys = x.sKeys /\ y.sDays = x.sDays
  <2> DEFINE cl == [x.claims EXCEPT ![k] = c]
             ds == [x.days EXCEPT ![d] = ivs]
             ks == x.wKeys \cup {k}
             es == x.wDays \cup {d}
             n  == x.calls + 1
  <2>1. /\ cl \in [Keys -> Claim \cup {NoClaim}] /\ ds \in [Days -> SUBSET Interval]
        /\ ks \in SUBSET Keys /\ es \in SUBSET Days
    BY <1>1, <1>3 DEF Transaction
  <2>2. y = Updated(x, cl, ds, ks, es, n)
    BY <1>2 DEF Updated
  <2>3. x \in Transaction /\ n \in 0..MaxCalls
    BY <1>1
  <2> HIDE DEF x, y, cl, ds, ks, es, n
  <2>4. /\ y \in Transaction
        /\ y.open = x.open /\ y.claims = cl /\ y.days = ds /\ y.wKeys = ks
        /\ y.wDays = es /\ y.sKeys = x.sKeys /\ y.sDays = x.sDays
    BY <2>1, <2>2, <2>3, UpdateTransaction
  <2> QED
    BY <2>4 DEF cl, ds, ks, es
<1>5. claims' = claims /\ days' = days
  BY DEF Write
<1>8. /\ k \notin x.sKeys /\ d \notin x.sDays
      /\ \A u \in Txns \ {t} : k \notin txn[u].wKeys /\ d \notin txn[u].wDays
  BY DEF Write, CanWrite
<1>9. x.claims \in Claims /\ \A e \in Days : SoundDay(x.claims, x.days[e], e)
  BY <1>1, ViewSound
<1>10. c # NoClaim
  BY NoClaimAssumption DEF Claim
<1>11. /\ y.claims[k] = c /\ \A j \in Keys : j # k => y.claims[j] = x.claims[j]
       /\ y.days[d] = ivs /\ \A e \in Days : e # d => y.days[e] = x.days[e]
  BY <1>1, <1>4 DEF Transaction
<1>12. FrameOK(x, claims, days)
  BY <1>1 DEF Inv, ViewsOK
<1>13. \A e \in Days : DayOK(y.claims, y.days[e], e)
  <2> TAKE e \in Days
  <2>1. CASE e = d
    BY <2>1, <1>4, <1>11 DEF SoundDay
  <2>2. CASE e # d
    <3>1. x.claims[k] = NoClaim \/ x.claims[k].slot.day = d
      <4>1. x.claims[k] # NoClaim => x.claims[k] \in Claim
        BY <1>9 DEF Claims
      <4> QED
        BY <4>1 DEF Advanced, Released, Claim
    <3>2. AgreeOn(x.claims, y.claims, e)
      BY <2>2, <3>1, <1>11 DEF AgreeOn, Speaks
    <3>3. y.claims \in Claims
      BY <1>4 DEF Transaction, Claims
    <3> QED
      BY <2>2, <3>2, <3>3, <1>9, <1>11, DayFrame DEF SoundDay
  <2> QED
    BY <2>1, <2>2
<1>14. FrameOK(y, claims, days)
  <2>1. y.wKeys \cap y.sKeys = {} /\ y.wDays \cap y.sDays = {}
    BY <1>4, <1>8, <1>12 DEF FrameOK
  <2>2. \A e \in Days \ (y.wDays \cup y.sDays) : y.days[e] = days[e]
    BY <1>4, <1>11, <1>12 DEF FrameOK
  <2>3. \A j \in Keys \ (y.wKeys \cup y.sKeys) : y.claims[j] = claims[j]
    BY <1>4, <1>11, <1>12 DEF FrameOK
  <2>4. \A j \in y.wKeys : /\ y.claims[j] # NoClaim /\ y.claims[j].slot.day \in y.wDays
                           /\ y.claims[j].effect # "NONE"
                           /\ Advanced(claims[j], y.claims[j])
    <3> SUFFICES ASSUME NEW j \in y.wKeys
                 PROVE  /\ y.claims[j] # NoClaim /\ y.claims[j].slot.day \in y.wDays
                        /\ y.claims[j].effect # "NONE"
                        /\ Advanced(claims[j], y.claims[j])
      OBVIOUS
    <3>1. CASE j # k
      <4>1. j \in x.wKeys /\ j \in Keys
        BY <3>1, <1>1, <1>4 DEF Transaction
      <4> QED
        BY <3>1, <4>1, <1>4, <1>11, <1>12 DEF FrameOK
    <3>2. CASE j = k
      <4>1. CASE k \in x.wKeys
        <5>1. x.claims[k] # NoClaim /\ Advanced(claims[k], x.claims[k])
          BY <4>1, <1>12 DEF FrameOK
        <5>2. x.claims[k].effect = "APPLIED" /\ c = Released(x.claims[k])
          BY <5>1 DEF Advanced
        <5>3. claims[k] # NoClaim => claims[k] \in Claim
          BY DEF Inv, TypeOK
        <5>4. claims[k] = NoClaim
          BY <5>1, <5>2, <5>3 DEF Advanced, Released, Claim
        <5> QED
          BY <5>4, <3>2, <1>4, <1>10, <1>11 DEF Advanced
      <4>2. CASE k \notin x.wKeys
        <5>1. claims[k] = x.claims[k]
          BY <4>2, <1>8, <1>12 DEF FrameOK
        <5> QED
          BY <5>1, <3>2, <1>4, <1>10, <1>11
      <4> QED
        BY <4>1, <4>2
    <3> QED
      BY <3>1, <3>2
  <2>5. \A j \in y.sKeys : /\ claims[j] # NoClaim /\ claims[j].slot.day \in y.sDays
                           /\ SameSlot(y.claims[j], claims[j])
    <3> SUFFICES ASSUME NEW j \in x.sKeys
                 PROVE  /\ claims[j] # NoClaim /\ claims[j].slot.day \in x.sDays
                        /\ SameSlot(y.claims[j], claims[j])
      BY <1>4
    <3>1. j \in Keys /\ j # k
      BY <1>1, <1>8 DEF Transaction
    <3> QED
      BY <3>1, <1>11, <1>12 DEF FrameOK
  <2>6. \A e \in y.wDays : IdsFrom(y.days[e], days[e], y.wKeys)
    <3> SUFFICES ASSUME NEW e \in y.wDays PROVE IdsFrom(y.days[e], days[e], y.wKeys)
      OBVIOUS
    <3>1. e \in x.wDays => IdsFrom(x.days[e], days[e], x.wKeys)
      BY <1>12 DEF FrameOK
    <3>2. e \in Days /\ (e \notin x.wDays => e = d)
      BY <1>1, <1>4 DEF Transaction
    <3>3. e \notin x.wDays => x.days[d] = days[d]
      BY <3>2, <1>8, <1>12 DEF FrameOK
    <3>4. CASE e # d
      BY <3>1, <3>2, <3>4, <1>4, <1>11 DEF IdsFrom
    <3>5. CASE e = d
      BY <3>1, <3>3, <3>5, <1>4, <1>11 DEF IdsFrom
    <3> QED
      BY <3>4, <3>5
  <2> QED
    BY <2>1, <2>2, <2>3, <2>4, <2>5, <2>6 DEF FrameOK
<1>15. \A u \in Txns \ {t} : y.wKeys \cap txn[u].wKeys = {} /\ y.wDays \cap txn[u].wDays = {}
  BY <1>4, <1>8 DEF Inv, WritersApart
<1>16. txn' = [txn EXCEPT ![t] = y] /\ y \in Transaction /\ y.open
  BY <1>1, <1>2, <1>4
<1> HIDE DEF x, y
<1> QED
  BY <1>5, <1>13, <1>14, <1>15, <1>16, LocalStep

\* The three writing calls of reserveOrJoin and release.
LEMMA CreateStep ==
    ASSUME Inv, NEW t \in Txns, NEW k \in Keys, NEW i \in Intents, CreateInterval(t, k, i)
    PROVE  Inv'
<1> DEFINE cl == txn[t].claims
           ivs == txn[t].days[i.day]
           new == ivs \cup {IntervalFor(k, i)}
<1>1. InCall(t) /\ txn[t].open
  BY DEF CreateInterval, InCall
<1>2. i.day \in Days /\ i \in Slot
  BY IntentsAssumption DEF Slot
<1>3. SoundDay(cl, ivs, i.day)
  BY <1>1, <1>2, ViewSound
<1>4. SoundDay([cl EXCEPT ![k] = Applied(i, k)], new, i.day)
  BY <1>3, CreateKeepsDay DEF CreateInterval
<1>5. Applied(i, k) \in Claim /\ Applied(i, k).slot.day = i.day /\ Applied(i, k).effect # "NONE"
  BY DEF Applied, Claim
<1>6. IdsFrom(new, ivs, {k})
  BY DEF IdsFrom, IntervalFor
<1>7. Advanced(cl[k], Applied(i, k)) /\ Write(t, k, Applied(i, k), i.day, new)
  BY DEF CreateInterval, Advanced
<1> HIDE DEF new
<1> QED
  BY <1>1, <1>2, <1>4, <1>5, <1>6, <1>7, WriteStep

LEMMA JoinStep ==
    ASSUME Inv, NEW t \in Txns, NEW k \in Keys, NEW i \in Intents, JoinCapacity(t, k, i)
    PROVE  Inv'
<1> DEFINE cl == txn[t].claims
           ivs == txn[t].days[i.day]
<1>1. InCall(t) /\ txn[t].open /\ RequireValidInterval(i) /\ cl[k] = NoClaim
  BY DEF JoinCapacity, InCall
<1>2. i.day \in Days /\ i \in Slot
  BY IntentsAssumption DEF Slot
<1>3. SoundDay(cl, ivs, i.day) /\ ivs \in SUBSET Interval
  BY <1>1, <1>2, ViewSound
<1>4. PICK iv \in ivs :
         /\ IntentMatches(iv, i) /\ HasRoom(iv, i)
         /\ Write(t, k, Applied(i, iv.id), i.day,
                  (ivs \ {iv}) \cup {[iv EXCEPT !.used = @ + i.party]})
  BY DEF JoinCapacity
<1> DEFINE new == (ivs \ {iv}) \cup {[iv EXCEPT !.used = @ + i.party]}
<1>5. SoundDay([cl EXCEPT ![k] = Applied(i, iv.id)], new, i.day)
  BY <1>1, <1>3, <1>4, JoinKeepsDay
<1>6. /\ Applied(i, iv.id) \in Claim /\ Applied(i, iv.id).slot.day = i.day
      /\ Applied(i, iv.id).effect # "NONE"
  BY <1>3 DEF Applied, Claim, Interval
<1>7. IdsFrom(new, ivs, {k})
  <2>1. [iv EXCEPT !.used = @ + i.party].id = iv.id
    BY <1>3 DEF Interval
  <2> QED
    BY <2>1 DEF IdsFrom
<1>8. Advanced(cl[k], Applied(i, iv.id)) /\ Write(t, k, Applied(i, iv.id), i.day, new)
  BY <1>1, <1>4 DEF Advanced
<1> HIDE DEF new
<1> QED
  BY <1>1, <1>2, <1>5, <1>6, <1>7, <1>8, WriteStep

LEMMA ReleaseStep ==
    ASSUME Inv, NEW t \in Txns, NEW k \in Keys, ReleaseApplied(t, k)
    PROVE  Inv'
<1> DEFINE cl == txn[t].claims
           c == cl[k]
           d == c.slot.day
           ivs == txn[t].days[d]
<1>1. InCall(t) /\ txn[t].open /\ c # NoClaim /\ c.effect = "APPLIED"
  BY DEF ReleaseApplied, InCall
<1>2. cl \in Claims /\ \A e \in Days : /\ txn[t].days[e] \in SUBSET Interval
                                       /\ SoundDay(cl, txn[t].days[e], e)
  BY <1>1, ViewSound
<1>3. c \in Claim /\ d \in Days
  BY <1>1, <1>2, IntentsAssumption DEF Claims, Claim, Slot
<1>4. PICK iv \in ivs :
         /\ iv.id = c.actual /\ IntentMatches(iv, c.slot) /\ iv.used >= c.slot.party
         /\ Write(t, k, Released(c), d, ReleaseInterval(ivs, iv, c.slot.party))
  BY DEF ReleaseApplied
<1> DEFINE new == ReleaseInterval(ivs, iv, c.slot.party)
<1>5. SoundDay([cl EXCEPT ![k] = Released(c)], new, d)
  BY <1>1, <1>2, <1>3, <1>4, ReleaseKeepsDay
<1>6. /\ Released(c) \in Claim /\ Released(c).slot.day = d
      /\ Released(c).effect # "NONE" /\ Advanced(cl[k], Released(c))
  BY <1>1, <1>3 DEF Released, Claim, Advanced
<1>7. IdsFrom(new, ivs, {k})
  <2>1. [iv EXCEPT !.used = @ - c.slot.party].id = iv.id
    BY <1>2, <1>3 DEF Interval
  <2> QED
    BY <2>1 DEF IdsFrom, ReleaseInterval
<1>8. Write(t, k, Released(c), d, new)
  BY <1>4
<1> HIDE DEF new
<1> QED
  BY <1>1, <1>3, <1>5, <1>6, <1>7, <1>8, WriteStep

\* A call that only reads.
LEMMA ReadStep ==
    ASSUME Inv, NEW t \in Txns, InCall(t), Read(t)
    PROVE  Inv'
<1> DEFINE x == txn[t]
           y == Updated(x, x.claims, x.days, x.wKeys, x.wDays, x.calls + 1)
<1>1. x \in Transaction /\ x.open /\ x.calls + 1 \in 0..MaxCalls
  BY IntentsAssumption DEF Inv, TypeOK, InCall, Transaction
<1>2. /\ x.claims \in [Keys -> Claim \cup {NoClaim}] /\ x.days \in [Days -> SUBSET Interval]
      /\ x.wKeys \in SUBSET Keys /\ x.wDays \in SUBSET Days
  BY <1>1 DEF Transaction
<1>3. /\ y \in Transaction
      /\ y.open = x.open /\ y.claims = x.claims /\ y.days = x.days /\ y.wKeys = x.wKeys
      /\ y.wDays = x.wDays /\ y.sKeys = x.sKeys /\ y.sDays = x.sDays
  <2> DEFINE n == x.calls + 1
             z == Updated(x, x.claims, x.days, x.wKeys, x.wDays, n)
  <2>1. n \in 0..MaxCalls /\ x \in Transaction
    BY <1>1
  <2> HIDE DEF x, n
  <2>2. /\ z \in Transaction
        /\ z.open = x.open /\ z.claims = x.claims /\ z.days = x.days /\ z.wKeys = x.wKeys
        /\ z.wDays = x.wDays /\ z.sKeys = x.sKeys /\ z.sDays = x.sDays
    BY <1>2, <2>1, UpdateTransaction
  <2> HIDE DEF z
  <2>3. z = y
    BY DEF z, n
  <2> QED
    BY <2>2, <2>3
<1>4. y = [x EXCEPT !.calls = x.calls + 1]
  BY <1>1 DEF Updated, Transaction
<1>5. txn' = [txn EXCEPT ![t] = y] /\ claims' = claims /\ days' = days
  BY <1>4 DEF Read
<1>6. FrameOK(y, claims, days) /\ \A e \in Days : DayOK(y.claims, y.days[e], e)
  <2>1. FrameOK(x, claims, days) /\ \A e \in Days : DayOK(x.claims, x.days[e], e)
    BY <1>1 DEF Inv, ViewsOK
  <2> QED
    BY <2>1, <1>3 DEF FrameOK
<1>7. \A u \in Txns \ {t} : y.wKeys \cap txn[u].wKeys = {} /\ y.wDays \cap txn[u].wDays = {}
  BY <1>3 DEF Inv, WritersApart
<1> HIDE DEF x, y
<1> QED
  BY <1>1, <1>3, <1>5, <1>6, <1>7, LocalStep

\* The release of a historical interval writes the day and no claim.
LEMMA HistoricalStep ==
    ASSUME Inv, NEW t \in Txns, NEW d \in Days, ReleaseHistorical(t, d)
    PROVE  Inv'
<1> DEFINE x == txn[t]
<1>1. InCall(t) /\ x \in Transaction /\ x.open /\ x.calls + 1 \in 0..MaxCalls
  BY IntentsAssumption DEF Inv, TypeOK, ReleaseHistorical, InCall, Transaction
<1>2. PICK iv \in x.days[d] :
         /\ MayReleaseHistorical(t, iv) /\ CanWrite(t, {}, {d})
         /\ txn' = [txn EXCEPT ![t].days[d] = ReleaseInterval(@, iv, 1),
                               ![t].wDays = @ \cup {d}, ![t].calls = @ + 1]
  BY DEF ReleaseHistorical
<1> DEFINE ivs == ReleaseInterval(x.days[d], iv, 1)
           ds == [x.days EXCEPT ![d] = ivs]
           y == Updated(x, x.claims, ds, x.wKeys, x.wDays \cup {d}, x.calls + 1)
<1>3. SoundDay(x.claims, x.days[d], d) /\ x.claims \in Claims
      /\ \A e \in Days : SoundDay(x.claims, x.days[e], e)
  BY <1>1, ViewSound
<1>4. SoundDay(x.claims, ivs, d)
  BY <1>2, <1>3, ReleaseHistoricalKeepsDay DEF MayReleaseHistorical, HasEffectForInterval
<1>5. /\ ds \in [Days -> SUBSET Interval] /\ ds[d] = ivs
      /\ \A e \in Days : e # d => ds[e] = x.days[e]
  BY <1>1, <1>4 DEF SoundDay, Transaction
<1>6. /\ x.claims \in [Keys -> Claim \cup {NoClaim}]
      /\ x.wKeys \in SUBSET Keys /\ x.wDays \cup {d} \in SUBSET Days
  BY <1>1 DEF Transaction
<1>7. /\ y \in Transaction
      /\ y.open = x.open /\ y.claims = x.claims /\ y.days = ds /\ y.wKeys = x.wKeys
      /\ y.wDays = x.wDays \cup {d} /\ y.sKeys = x.sKeys /\ y.sDays = x.sDays
  <2> HIDE DEF ds
  <2> DEFINE es == x.wDays \cup {d}
             n == x.calls + 1
             z == Updated(x, x.claims, ds, x.wKeys, es, n)
  <2>1. es \in SUBSET Days /\ n \in 0..MaxCalls /\ x \in Transaction
    BY <1>1, <1>6
  <2> HIDE DEF x, es, n
  <2>2. /\ z \in Transaction
        /\ z.open = x.open /\ z.claims = x.claims /\ z.days = ds /\ z.wKeys = x.wKeys
        /\ z.wDays = es /\ z.sKeys = x.sKeys /\ z.sDays = x.sDays
    BY <1>5, <1>6, <2>1, UpdateTransaction
  <2> HIDE DEF z
  <2>3. z = y
    BY DEF z, es, n
  <2> QED
    BY <2>2, <2>3 DEF es
<1>8. txn' = [txn EXCEPT ![t] = y]
  <2>1. y = [x EXCEPT !.days = [x.days EXCEPT ![d] = ivs],
                      !.wDays = x.wDays \cup {d}, !.calls = x.calls + 1]
    BY <1>1 DEF Updated, Transaction
  <2> QED
    BY <1>2, <2>1
<1>9. claims' = claims /\ days' = days
  BY DEF ReleaseHistorical
<1> HIDE DEF y, ds, ivs
<1>10. d \notin x.sDays /\ \A u \in Txns \ {t} : d \notin txn[u].wDays
  BY <1>2 DEF CanWrite
<1>11. FrameOK(x, claims, days)
  BY <1>1 DEF Inv, ViewsOK
<1>12. \A e \in Days : DayOK(y.claims, y.days[e], e)
  BY <1>3, <1>4, <1>5, <1>7 DEF SoundDay
<1>13. FrameOK(y, claims, days)
  <2>1. \A e \in y.wDays : IdsFrom(y.days[e], days[e], y.wKeys)
    <3>1. IdsFrom(ivs, x.days[d], x.wKeys)
      <4>1. [iv EXCEPT !.used = @ - 1].id = iv.id
        BY <1>3 DEF SoundDay, Interval
      <4> QED
        BY <4>1 DEF IdsFrom, ReleaseInterval, ivs
    <3>2. d \in x.wDays => IdsFrom(x.days[d], days[d], x.wKeys)
      BY <1>11 DEF FrameOK
    <3>3. d \notin x.wDays => x.days[d] = days[d]
      BY <1>10, <1>11 DEF FrameOK
    <3>4. IdsFrom(ivs, days[d], x.wKeys)
      BY <3>1, <3>2, <3>3 DEF IdsFrom
    <3>5. \A e \in x.wDays : e # d => ds[e] = x.days[e] /\ IdsFrom(x.days[e], days[e], x.wKeys)
      BY <1>1, <1>5, <1>11 DEF FrameOK, Transaction
    <3> QED
      BY <3>4, <3>5, <1>5, <1>7
  <2> QED
    BY <2>1, <1>5, <1>7, <1>10, <1>11 DEF FrameOK
<1>14. \A u \in Txns \ {t} : y.wKeys \cap txn[u].wKeys = {} /\ y.wDays \cap txn[u].wDays = {}
  BY <1>7, <1>10 DEF Inv, WritersApart
<1>15. y.open
  BY <1>1, <1>7
<1> HIDE DEF x
<1> QED
  BY <1>7, <1>8, <1>9, <1>12, <1>13, <1>14, <1>15, LocalStep

\* Opening a transaction, and abandoning one.
LEMMA BeginStep ==
    ASSUME Inv, NEW t \in Txns, Begin(t)
    PROVE  Inv'
<1> DEFINE y == Snapshot
<1>1. /\ y \in Transaction /\ y.open /\ y.claims = claims /\ y.days = days
      /\ y.wKeys = {} /\ y.wDays = {} /\ y.sKeys = {} /\ y.sDays = {}
  BY IntentsAssumption DEF Snapshot, Session, Transaction, Inv, TypeOK
<1>2. FrameOK(y, claims, days) /\ \A e \in Days : DayOK(y.claims, y.days[e], e)
  BY <1>1 DEF FrameOK, Inv, StoreOK
<1>3. txn' = [txn EXCEPT ![t] = y] /\ claims' = claims /\ days' = days
  BY DEF Begin
<1>4. \A u \in Txns \ {t} : y.wKeys \cap txn[u].wKeys = {} /\ y.wDays \cap txn[u].wDays = {}
  BY <1>1
<1> HIDE DEF y
<1> QED
  BY <1>1, <1>2, <1>3, <1>4, LocalStep

LEMMA IdleTransaction == Idle \in Transaction /\ ~Idle.open /\ Idle.wKeys = {} /\ Idle.wDays = {}
BY IntentsAssumption DEF Idle, Session, Transaction

LEMMA AbortStep ==
    ASSUME Inv, NEW t \in Txns, Abort(t)
    PROVE  Inv'
<1>1. txn' = [txn EXCEPT ![t] = Idle] /\ claims' = claims /\ days' = days
  BY DEF Abort
<1>2. \A u \in Txns \ {t} : Idle.wKeys \cap txn[u].wKeys = {} /\ Idle.wDays \cap txn[u].wDays = {}
  BY IdleTransaction
<1> QED
  BY <1>1, <1>2, IdleTransaction, LocalStep

\* What a committed transaction leaves of each claim: it advanced, or it is as before.
LEMMA CommitClaims ==
    ASSUME Inv, NEW t \in Txns, Commit(t)
    PROVE  /\ claims' \in Claims
           /\ \A k \in Keys : /\ claims'[k] = claims[k] \/ Advanced(claims[k], claims'[k])
                              /\ k \notin txn[t].wKeys => claims'[k] = claims[k]
                              /\ k \in txn[t].wKeys => claims'[k] = txn[t].claims[k]
                              /\ SameSlot(claims[k], claims'[k])
<1> DEFINE x == txn[t]
<1>1. x.open /\ x \in Transaction /\ claims \in Claims
  BY DEF Commit, Inv, TypeOK, Claims
<1>2. x.claims \in Claims
  BY <1>1 DEF Transaction, Claims
<1>3. claims' = [k \in Keys |-> IF k \in x.wKeys THEN x.claims[k] ELSE claims[k]]
  BY DEF Commit
<1>4. claims' \in Claims
  BY <1>1, <1>2, <1>3 DEF Claims
<1>5. FrameOK(x, claims, days)
  BY <1>1 DEF Inv, ViewsOK
<1>6. ASSUME NEW k \in Keys
      PROVE  /\ claims'[k] = claims[k] \/ Advanced(claims[k], claims'[k])
             /\ k \notin x.wKeys => claims'[k] = claims[k]
             /\ k \in x.wKeys => claims'[k] = x.claims[k]
  BY <1>3, <1>5 DEF FrameOK
<1>7. ASSUME NEW k \in Keys PROVE SameSlot(claims[k], claims'[k])
  <2>1. claims[k] # NoClaim => claims[k] \in Claim
    BY <1>1 DEF Claims
  <2> QED
    BY <2>1, <1>6 DEF SameSlot, Advanced, Released, Claim
<1> QED
  BY <1>4, <1>6, <1>7

\* Commit merges a view with whatever was committed meanwhile, and the merge is sound
\* because the two wrote different days and different claims.
LEMMA CommitStep ==
    ASSUME Inv, NEW t \in Txns, Commit(t)
    PROVE  Inv'
<1> DEFINE x == txn[t]
<1>1. x.open /\ x \in Transaction /\ x.claims \in Claims /\ claims \in Claims
      /\ x.days \in [Days -> SUBSET Interval] /\ days \in [Days -> SUBSET Interval]
  BY DEF Commit, Inv, TypeOK, Transaction, Claims
<1>2. FrameOK(x, claims, days) /\ \A d \in Days : DayOK(x.claims, x.days[d], d)
  BY <1>1 DEF Inv, ViewsOK
<1>3. /\ claims' \in Claims
      /\ \A k \in Keys : /\ k \notin x.wKeys => claims'[k] = claims[k]
                         /\ k \in x.wKeys => claims'[k] = x.claims[k]
                         /\ SameSlot(claims[k], claims'[k])
  BY CommitClaims
<1>4. /\ days' \in [Days -> SUBSET Interval]
      /\ \A d \in Days : days'[d] = IF d \in x.wDays THEN x.days[d] ELSE days[d]
  BY <1>1 DEF Commit
<1>5. /\ txn'[t] = Idle
      /\ \A u \in Txns : u # t /\ ~txn[u].open => txn'[u] = txn[u]
      /\ \A u \in Txns : u # t /\ txn[u].open =>
           txn'[u] = [txn[u] EXCEPT !.sKeys = @ \cup x.wKeys, !.sDays = @ \cup x.wDays]
  BY DEF Commit
<1>6. ASSUME NEW u \in Txns, u # t, txn[u].open
      PROVE  /\ txn'[u] \in Transaction /\ txn'[u].open
             /\ txn'[u].claims = txn[u].claims /\ txn'[u].days = txn[u].days
             /\ txn'[u].wKeys = txn[u].wKeys /\ txn'[u].wDays = txn[u].wDays
             /\ txn'[u].sKeys = txn[u].sKeys \cup x.wKeys
             /\ txn'[u].sDays = txn[u].sDays \cup x.wDays
  <2>1. txn[u] \in Transaction
    BY DEF Inv, TypeOK
  <2> HIDE DEF x
  <2>2. txn'[u] = [txn[u] EXCEPT !.sKeys = @ \cup x.wKeys, !.sDays = @ \cup x.wDays]
    BY <1>5, <1>6
  <2> QED
    BY <1>1, <1>6, <2>1, <2>2 DEF Transaction
<1>7. TypeOK'
  <2>1. ASSUME NEW u \in Txns PROVE txn'[u] \in Transaction
    <3>1. txn[u] \in Transaction
      BY DEF Inv, TypeOK
    <3> QED
      BY <3>1, <1>5, <1>6, IdleTransaction
  <2>2. txn' \in [Txns -> Transaction]
    BY <2>1 DEF Commit
  <2> QED
    BY <2>2, <1>3, <1>4 DEF TypeOK, Claims
<1>8. StoreOK'
  <2> SUFFICES ASSUME NEW d \in Days PROVE DayOK(claims', days'[d], d)
    BY DEF StoreOK
  <2>1. CASE d \in x.wDays
    <3>1. AgreeOn(x.claims, claims', d)
      <4> SUFFICES ASSUME NEW k \in Keys, Speaks(x.claims, k, d) \/ Speaks(claims', k, d)
                   PROVE  x.claims[k] = claims'[k]
        BY DEF AgreeOn
      <4>1. CASE k \in x.wKeys
        BY <4>1, <1>3
      <4>2. CASE k \notin x.wKeys
        <5>1. claims'[k] = claims[k]
          BY <4>2, <1>3
        <5>2. k \notin x.sKeys
          BY <5>1, <2>1, <1>2 DEF FrameOK, SameSlot, Speaks
        <5> QED
          BY <5>1, <5>2, <4>2, <1>2 DEF FrameOK
      <4> QED
        BY <4>1, <4>2
    <3>2. days'[d] = x.days[d] /\ x.days[d] \in SUBSET Interval
      BY <2>1, <1>1, <1>4
    <3> QED
      BY <3>1, <3>2, <1>1, <1>2, <1>3, DayFrame
  <2>2. CASE d \notin x.wDays
    <3>1. AgreeOn(claims, claims', d)
      <4> SUFFICES ASSUME NEW k \in Keys, Speaks(claims, k, d) \/ Speaks(claims', k, d)
                   PROVE  claims[k] = claims'[k]
        BY DEF AgreeOn
      <4>1. k \in x.wKeys => claims'[k] # NoClaim /\ claims'[k].slot.day \in x.wDays
        BY <1>2, <1>3 DEF FrameOK
      <4>2. k \notin x.wKeys
        BY <4>1, <2>2, <1>3 DEF SameSlot, Speaks
      <4> QED
        BY <4>2, <1>3
    <3>2. days'[d] = days[d] /\ days[d] \in SUBSET Interval
      BY <2>2, <1>1, <1>4
    <3>3. DayOK(claims, days[d], d)
      BY DEF Inv, StoreOK
    <3> QED
      BY <3>1, <3>2, <3>3, <1>1, <1>3, DayFrame
  <2> QED
    BY <2>1, <2>2
<1>9. ASSUME NEW u \in Txns, txn'[u].open
      PROVE  /\ FrameOK(txn'[u], claims', days')
             /\ \A d \in Days : DayOK(txn'[u].claims, txn'[u].days[d], d)
  <2> DEFINE z == txn[u]
             y == txn'[u]
  <2>1. u # t /\ z.open
    BY <1>5, <1>9, IdleTransaction
  <2>2. FrameOK(z, claims, days) /\ \A d \in Days : DayOK(z.claims, z.days[d], d)
    BY <2>1 DEF Inv, ViewsOK
  <2>3. /\ y.claims = z.claims /\ y.days = z.days /\ y.wKeys = z.wKeys /\ y.wDays = z.wDays
        /\ y.sKeys = z.sKeys \cup x.wKeys /\ y.sDays = z.sDays \cup x.wDays
    BY <2>1, <1>6
  <2>4. z.wKeys \cap x.wKeys = {} /\ z.wDays \cap x.wDays = {}
    BY <2>1 DEF Inv, WritersApart
  <2>5. /\ z.wKeys \subseteq Keys /\ z.sKeys \subseteq Keys /\ z.wDays \subseteq Days
        /\ x.wKeys \subseteq Keys
    BY <1>1 DEF Inv, TypeOK, Transaction
  <2> HIDE DEF x, y, z
  <2>6. y.wKeys \cap y.sKeys = {} /\ y.wDays \cap y.sDays = {}
    BY <2>2, <2>3, <2>4 DEF FrameOK
  <2>7. \A d \in Days \ (y.wDays \cup y.sDays) : y.days[d] = days'[d]
    BY <2>2, <2>3, <1>4 DEF FrameOK
  <2>8. \A k \in Keys \ (y.wKeys \cup y.sKeys) : y.claims[k] = claims'[k]
    BY <2>2, <2>3, <1>3 DEF FrameOK
  <2>9. \A d \in y.wDays : IdsFrom(y.days[d], days'[d], y.wKeys)
    <3> SUFFICES ASSUME NEW d \in z.wDays PROVE IdsFrom(z.days[d], days'[d], z.wKeys)
      BY <2>3
    <3>1. days'[d] = days[d]
      BY <2>4, <2>5, <1>4
    <3> QED
      BY <3>1, <2>2 DEF FrameOK
  <2>10. \A k \in y.wKeys : /\ y.claims[k] # NoClaim /\ y.claims[k].slot.day \in y.wDays
                            /\ y.claims[k].effect # "NONE"
                            /\ Advanced(claims'[k], y.claims[k])
    <3> SUFFICES ASSUME NEW k \in z.wKeys
                 PROVE  /\ z.claims[k] # NoClaim /\ z.claims[k].slot.day \in z.wDays
                        /\ z.claims[k].effect # "NONE"
                        /\ Advanced(claims'[k], z.claims[k])
      BY <2>3
    <3>1. claims'[k] = claims[k]
      BY <2>4, <2>5, <1>3
    <3> QED
      BY <3>1, <2>2 DEF FrameOK
  <2>11. \A k \in y.sKeys : /\ claims'[k] # NoClaim /\ claims'[k].slot.day \in y.sDays
                            /\ SameSlot(y.claims[k], claims'[k])
    <3> SUFFICES ASSUME NEW k \in z.sKeys \cup x.wKeys
                 PROVE  /\ claims'[k] # NoClaim
                        /\ claims'[k].slot.day \in z.sDays \cup x.wDays
                        /\ SameSlot(z.claims[k], claims'[k])
      BY <2>3
    <3>1. k \in Keys /\ k \notin z.wKeys
      BY <2>2, <2>4, <2>5 DEF FrameOK
    <3>2. z.claims[k] = claims[k] \/ (claims[k] # NoClaim /\ SameSlot(z.claims[k], claims[k]))
      BY <3>1, <2>2 DEF FrameOK
    <3>3. SameSlot(claims[k], claims'[k])
      BY <3>1, <1>3
    <3>4. SameSlot(z.claims[k], claims'[k])
      BY <3>2, <3>3 DEF SameSlot
    <3>5. CASE k \in x.wKeys
      BY <3>1, <3>4, <3>5, <1>2, <1>3 DEF FrameOK
    <3>6. CASE k \notin x.wKeys
      BY <3>1, <3>4, <3>6, <2>2, <1>3 DEF FrameOK
    <3> QED
      BY <3>5, <3>6
  <2>12. FrameOK(y, claims', days')
    BY <2>6, <2>7, <2>8, <2>9, <2>10, <2>11 DEF FrameOK
  <2> QED
    BY <2>2, <2>3, <2>12 DEF y
<1>10. ViewsOK'
  BY <1>9 DEF ViewsOK
<1>11. WritersApart'
  <2>1. ASSUME NEW u \in Txns, ~txn'[u].open PROVE txn'[u] = Idle
    BY <2>1, <1>5, <1>6 DEF Inv, WritersApart
  <2>2. \A u \in Txns : \/ txn'[u].wKeys = {} /\ txn'[u].wDays = {}
                        \/ txn'[u].wKeys = txn[u].wKeys /\ txn'[u].wDays = txn[u].wDays
    BY <1>5, <1>6, IdleTransaction
  <2> QED
    BY <2>1, <2>2 DEF Inv, WritersApart
<1>12. HistoricalOwn'
  <2> SUFFICES ASSUME NEW k \in Keys, claims'[k] # NoClaim, claims'[k].effect = "NONE"
               PROVE  claims'[k].actual = k
    BY DEF HistoricalOwn
  <2>1. k \notin x.wKeys
    BY <1>2, <1>3 DEF FrameOK
  <2> QED
    BY <2>1, <1>3 DEF Inv, HistoricalOwn
<1> QED
  BY <1>7, <1>8, <1>10, <1>11, <1>12 DEF Inv

\* The claim of a historical row.
Row(h) == [slot |-> h.slot, actual |-> h.key, effect |-> "NONE"]

\* The historical rows alone are a sound store.
LEMMA InitInv == Init => Inv
<1> SUFFICES ASSUME Init PROVE Inv
  OBVIOUS
<1>1. ASSUME NEW h \in Historical
      PROVE  /\ h.key \in Keys /\ h.slot \in Intents /\ h.slot \in Slot
             /\ RequireValidInterval(h.slot)
  BY <1>1, HistoricalAssumption, IntentsAssumption
<1>2. \A g, h \in Historical : g.key = h.key => g = h
  BY HistoricalAssumption
<1>3. ASSUME NEW h \in Historical
      PROVE  claims[h.key] = Row(h)
  <2>1. h.key \in Keys /\ (CHOOSE g \in Historical : g.key = h.key) = h
    BY <1>1, <1>2
  <2> QED
    BY <2>1 DEF Init, Row
<1>4. ASSUME NEW k \in Keys
      PROVE  claims[k] = NoClaim \/ \E h \in Historical : h.key = k
  BY DEF Init
<1>5. ASSUME NEW h \in Historical
      PROVE  /\ claims[h.key] \in Claim /\ claims[h.key] # NoClaim
             /\ claims[h.key].slot = h.slot /\ claims[h.key].actual = h.key
             /\ claims[h.key].effect = "NONE"
  <2>1. h.key \in Keys /\ h.slot \in Intents
    BY <1>1
  <2>2. Row(h) \in Claim
    BY <2>1 DEF Row, Claim
  <2>3. Row(h).slot = h.slot /\ Row(h).actual = h.key /\ Row(h).effect = "NONE"
    BY DEF Row
  <2>4. Row(h) # NoClaim
    BY <2>2, NoClaimAssumption DEF Claim
  <2> QED
    BY <1>3, <2>2, <2>3, <2>4
<1>6. ASSUME NEW k \in Keys, claims[k] # NoClaim
      PROVE  \E h \in Historical :
                /\ h.key = k /\ claims[k].slot = h.slot /\ claims[k].actual = h.key
                /\ claims[k].effect = "NONE"
  BY <1>4, <1>5, <1>6
<1>7. claims \in Claims
  <2>1. \A k \in Keys : claims[k] \in Claim \cup {NoClaim}
    BY <1>4, <1>5
  <2>2. claims = [k \in Keys |-> claims[k]]
    BY DEF Init
  <2> QED
    BY <2>1, <2>2 DEF Claims
<1>8. ASSUME NEW d \in Days, NEW iv \in days[d]
      PROVE  \E h \in Historical : h.slot.day = d /\ iv = IntervalFor(h.key, h.slot)
  BY DEF Init
<1>9. ASSUME NEW h \in Historical
      PROVE  IntervalFor(h.key, h.slot) \in Interval
  BY <1>1 DEF IntervalFor, Interval, Slot
<1>10. days \in [Days -> SUBSET Interval]
  <2>1. \A d \in Days : days[d] \subseteq Interval
    BY <1>8, <1>9
  <2>2. days = [d \in Days |-> days[d]]
    BY DEF Init
  <2> QED
    BY <2>1, <2>2
<1>11. TypeOK
  BY <1>7, <1>10, IdleTransaction DEF Init, TypeOK, Claims
<1>12. ASSUME NEW d \in Days
       PROVE  DayOK(claims, days[d], d)
  <2>1. NoOverlap(days[d])
    <3> SUFFICES ASSUME NEW iv \in days[d], NEW jv \in days[d], iv # jv
                 PROVE  ~Overlap(iv, jv) /\ iv.id # jv.id
      BY DEF NoOverlap
    <3>1. PICK g \in Historical : g.slot.day = d /\ iv = IntervalFor(g.key, g.slot)
      BY <1>8
    <3>2. PICK h \in Historical : h.slot.day = d /\ jv = IntervalFor(h.key, h.slot)
      BY <1>8
    <3>3. g # h
      BY <3>1, <3>2
    <3>4. g.key # h.key /\ ~Overlap(g.slot, h.slot)
      BY <3>1, <3>2, <3>3, HistoricalAssumption
    <3> QED
      BY <3>1, <3>2, <3>4 DEF IntervalFor, Overlap
  <2>2. UsedIsSeats(claims, days[d], d)
    <3> SUFFICES ASSUME NEW iv \in days[d]
                 PROVE  iv.used \in 1..iv.max /\ iv.used = Cardinality(Seats(claims, d, iv))
      BY DEF UsedIsSeats
    <3>1. PICK h \in Historical : h.slot.day = d /\ iv = IntervalFor(h.key, h.slot)
      BY <1>8
    <3>2. iv.id = h.key /\ iv.max = h.slot.max /\ iv.used = h.slot.party
      BY <3>1 DEF IntervalFor
    <3>3. \A k \in Keys : Sits(claims, d, k, iv) <=> k = h.key
      <4>1. ASSUME NEW k \in Keys, Sits(claims, d, k, iv) PROVE k = h.key
        BY <4>1, <1>6, <3>2 DEF Sits
      <4>2. Sits(claims, d, h.key, iv)
        BY <1>5, <3>1, <3>2 DEF Sits
      <4> QED
        BY <4>1, <4>2
    <3>4. h.slot.party \in Nat /\ h.slot.max \in Nat /\ h.slot.party \in 1..h.slot.max
      BY <1>1 DEF Slot, RequireValidInterval
    <3>5. 1..h.slot.party = {n \in 1..h.slot.max : n <= h.slot.party}
      BY <3>4
    <3>6. Seats(claims, d, iv) = {h.key} \X (1..h.slot.party)
      BY <1>1, <1>5, <3>2, <3>3, <3>5 DEF Seats
    <3>7. Cardinality(Seats(claims, d, iv)) = h.slot.party
      BY <1>1, <3>4, <3>6, PartySeats
    <3> QED
      BY <3>2, <3>4, <3>7
  <2>3. PartiesSeated(claims, days[d], d)
    BY <1>6 DEF PartiesSeated
  <2>4. PartiesFit(claims, days[d], d)
    <3> SUFFICES ASSUME NEW k \in Keys, claims[k] # NoClaim, claims[k].slot.day = d
                 PROVE  /\ RequireValidInterval(claims[k].slot)
                        /\ claims[claims[k].actual] # NoClaim
                        /\ claims[claims[k].actual].slot.day = d
                        /\ \A iv \in days[d] :
                             Sits(claims, d, k, iv) => IntentMatches(iv, claims[k].slot)
      BY DEF PartiesFit
    <3>1. PICK h \in Historical : h.key = k
      BY <1>4
    <3>2. claims[k].slot = h.slot /\ claims[k].actual = k
      BY <1>5, <3>1
    <3>3. ASSUME NEW iv \in days[d], Sits(claims, d, k, iv)
          PROVE  IntentMatches(iv, h.slot)
      <4>1. PICK g \in Historical : iv = IntervalFor(g.key, g.slot)
        BY <1>8
      <4>2. g = h
        BY <4>1, <3>1, <3>2, <3>3, <1>2 DEF Sits, IntervalFor
      <4> QED
        BY <4>1, <4>2 DEF IntervalFor, IntentMatches, ExactMatch
    <3> QED
      BY <1>1, <3>1, <3>2, <3>3
  <2>5. IdsClaimed(claims, days[d], d)
    BY <1>5, <1>8 DEF IdsClaimed, IntervalFor
  <2> QED
    BY <2>1, <2>2, <2>3, <2>4, <2>5 DEF DayOK
<1>13. StoreOK
  BY <1>12 DEF StoreOK
<1>14. \A t \in Txns : txn[t] = Idle
  BY DEF Init
<1>15. ViewsOK /\ WritersApart
  BY <1>14, IdleTransaction DEF ViewsOK, WritersApart
<1>16. HistoricalOwn
  BY <1>6 DEF HistoricalOwn
<1> QED
  BY <1>11, <1>13, <1>15, <1>16 DEF Inv

\* Every step of every transaction preserves the invariant.
LEMMA InvInductive == Inv /\ [Next]_vars => Inv'
<1> SUFFICES ASSUME Inv, [Next]_vars PROVE Inv'
  OBVIOUS
<1>1. ASSUME NEW t \in Txns, Begin(t) PROVE Inv'
  BY <1>1, BeginStep
<1>2. ASSUME NEW t \in Txns, Call(t) PROVE Inv'
  <2>1. ASSUME NEW k \in Keys, NEW i \in Intents, CreateInterval(t, k, i) PROVE Inv'
    BY <2>1, CreateStep
  <2>2. ASSUME NEW k \in Keys, NEW i \in Intents, JoinCapacity(t, k, i) PROVE Inv'
    BY <2>2, JoinStep
  <2>3. ASSUME NEW k \in Keys, NEW i \in Intents, Replay(t, k, i) PROVE Inv'
    <3>1. InCall(t) /\ Read(t)
      BY <2>3 DEF Replay
    <3> QED
      BY <3>1, ReadStep
  <2>4. ASSUME NEW k \in Keys, ReleaseApplied(t, k) PROVE Inv'
    BY <2>4, ReleaseStep
  <2>5. ASSUME NEW k \in Keys, AlreadyReleased(t, k) PROVE Inv'
    <3>1. InCall(t) /\ Read(t)
      BY <2>5 DEF AlreadyReleased
    <3> QED
      BY <3>1, ReadStep
  <2>6. ASSUME NEW d \in Days, ReleaseHistorical(t, d) PROVE Inv'
    BY <2>6, HistoricalStep
  <2> QED
    BY <1>2, <2>1, <2>2, <2>3, <2>4, <2>5, <2>6 DEF Call
<1>3. ASSUME NEW t \in Txns, Commit(t) PROVE Inv'
  BY <1>3, CommitStep
<1>4. ASSUME NEW t \in Txns, Abort(t) PROVE Inv'
  BY <1>4, AbortStep
<1>5. CASE UNCHANGED vars
  BY <1>5 DEF vars, Inv, TypeOK, StoreOK, ViewsOK, WritersApart, HistoricalOwn
<1> QED
  BY <1>1, <1>2, <1>3, <1>4, <1>5 DEF Next

-----------------------------------------------------------------------------
(* The theorems *)

\* Every reachable state, with every view a transaction may have of it, is sound.
THEOREM Invariance == Spec => []Inv
<1> QED
  BY InitInv, InvInductive, PTL DEF Spec

\* Claims, day documents and transactions always have their types.
THEOREM TypeCorrect == Spec => []TypeOK
<1>1. Inv => TypeOK
  BY DEF Inv
<1> QED
  BY <1>1, Invariance, PTL

\* However transactions interleave, abort and replay, no two committed intervals of a
\* staff-day overlap.
THEOREM NeverDoubleBooked == Spec => []NoDoubleBooking
<1>1. Inv => NoDoubleBooking
  BY DEF Inv, StoreOK, DayOK, NoDoubleBooking
<1> QED
  BY <1>1, Invariance, PTL

\* capacityUsed is always exactly the number of persons whose claims sit there.
THEOREM CapacityCounted == Spec => []CapacityExact
<1>1. Inv => CapacityExact
  BY DEF Inv, StoreOK, DayOK, CapacityExact
<1> QED
  BY <1>1, Invariance, PTL

\* An applied party always has its interval.
THEOREM PartiesBacked == Spec => []EffectsBacked
<1>1. Inv => EffectsBacked
  BY DEF Inv, StoreOK, DayOK, EffectsBacked
<1> QED
  BY <1>1, Invariance, PTL

\* The committed claims only advance: what EffectOnce says of one step.
LEMMA ClaimsAdvance ==
    ASSUME Inv, [Next]_vars
    PROVE  \A k \in Keys : claims'[k] = claims[k] \/ Advanced(claims[k], claims'[k])
<1>1. CASE UNCHANGED claims
  BY <1>1
<1>2. ASSUME NEW t \in Txns, Commit(t)
      PROVE  \A k \in Keys : claims'[k] = claims[k] \/ Advanced(claims[k], claims'[k])
  BY <1>2, CommitClaims
<1>3. ASSUME NEW t \in Txns, Begin(t) \/ Abort(t) PROVE claims' = claims
  BY <1>3 DEF Begin, Abort
<1>4. ASSUME NEW t \in Txns, Call(t) PROVE claims' = claims
  <2>1. ASSUME NEW k \in Keys, NEW i \in Intents,
               CreateInterval(t, k, i) \/ JoinCapacity(t, k, i) \/ Replay(t, k, i)
        PROVE  claims' = claims
    BY <2>1 DEF CreateInterval, JoinCapacity, Replay, Write, Read
  <2>2. ASSUME NEW k \in Keys, ReleaseApplied(t, k) \/ AlreadyReleased(t, k)
        PROVE  claims' = claims
    BY <2>2 DEF ReleaseApplied, AlreadyReleased, Write, Read
  <2>3. ASSUME NEW d \in Days, ReleaseHistorical(t, d) PROVE claims' = claims
    BY <2>3 DEF ReleaseHistorical
  <2> QED
    BY <1>4, <2>1, <2>2, <2>3 DEF Call
<1> QED
  BY <1>1, <1>2, <1>3, <1>4 DEF Next, vars

\* A claim's party is applied once and released once, for ever.
THEOREM EffectsOnce == Spec => EffectOnce
<1>1. Inv /\ [Next]_vars =>
        [\A k \in Keys : claims[k] # NoClaim =>
            \/ claims'[k] = claims[k]
            \/ claims[k].effect = "APPLIED" /\ claims'[k] = Released(claims[k])]_claims
  BY ClaimsAdvance DEF Advanced
<1> QED
  BY <1>1, Invariance, PTL DEF Spec, EffectOnce

-----------------------------------------------------------------------------
(* The collections implement the abstract staff calendar *)

Seated == {[key |-> k, slot |-> claims[k].slot] : k \in SeatedKeys}

Left == {k \in Keys : claims[k] # NoClaim} \ SeatedKeys

\* A seated party is found in one interval of its day, which is its slot.
LEMMA SeatOf ==
    ASSUME Inv, NEW k \in SeatedKeys
    PROVE  /\ k \in Keys /\ claims[k] \in Claim /\ claims[k] # NoClaim
           /\ claims[k].slot \in Slot /\ RequireValidInterval(claims[k].slot)
           /\ \E iv \in days[claims[k].slot.day] :
                 Sits(claims, claims[k].slot.day, k, iv) /\ IntentMatches(iv, claims[k].slot)
<1>1. k \in Keys /\ claims[k] # NoClaim /\ claims[k] \in Claim
  BY DEF SeatedKeys, Inv, TypeOK
<1>2. claims[k].slot \in Slot /\ claims[k].slot.day \in Days
  BY <1>1, IntentsAssumption DEF Claim, Slot
<1> DEFINE d == claims[k].slot.day
<1>3. DayOK(claims, days[d], d)
  BY <1>2 DEF Inv, StoreOK
<1>4. PICK iv \in days[d] : Sits(claims, d, k, iv)
  <2>1. CASE claims[k].effect = "APPLIED"
    BY <2>1, <1>1, <1>3 DEF DayOK, PartiesSeated, Sits
  <2>2. CASE claims[k].effect = "NONE" /\ \E iv \in days[d] : iv.id = k
    BY <2>2, <1>1 DEF Inv, HistoricalOwn, Sits
  <2> QED
    BY <2>1, <2>2 DEF SeatedKeys
<1>5. RequireValidInterval(claims[k].slot) /\ IntentMatches(iv, claims[k].slot)
  BY <1>1, <1>3, <1>4 DEF DayOK, PartiesFit
<1> QED
  BY <1>1, <1>2, <1>4, <1>5

\* Two seated parties whose slots overlap sit in the same interval.
LEMMA OverlapShares ==
    ASSUME Inv, NEW j \in SeatedKeys, NEW k \in SeatedKeys,
           claims[j].slot.day = claims[k].slot.day,
           Overlap(claims[j].slot, claims[k].slot),
           NEW iv \in days[claims[k].slot.day], IntentMatches(iv, claims[k].slot)
    PROVE  Sits(claims, claims[k].slot.day, j, iv) /\ IntentMatches(iv, claims[j].slot)
<1> DEFINE d == claims[k].slot.day
<1>1. PICK jv \in days[d] : Sits(claims, d, j, jv) /\ IntentMatches(jv, claims[j].slot)
  BY SeatOf
<1>2. Overlap(jv, iv)
  BY <1>1 DEF Overlap, IntentMatches, ExactMatch
<1>3. NoOverlap(days[d])
  <2>1. d \in Days
    BY SeatOf DEF Slot
  <2> QED
    BY <2>1 DEF Inv, StoreOK, DayOK
<1>4. jv = iv
  BY <1>2, <1>3 DEF NoOverlap
<1> QED
  BY <1>1, <1>4

\* The parties that the calendar sees are always consistent.
LEMMA SeatedConsistent == Inv => Occ!Consistent(Seated)
<1> SUFFICES ASSUME Inv PROVE Occ!Consistent(Seated)
  OBVIOUS
<1>1. \A p \in Seated : /\ p.key \in SeatedKeys /\ p.slot = claims[p.key].slot
                        /\ p = [key |-> p.key, slot |-> claims[p.key].slot]
  BY DEF Seated
<1>2. ASSUME NEW p \in Seated, NEW q \in Seated,
             p.slot.day = q.slot.day, Overlap(p.slot, q.slot)
      PROVE  Occ!SameSession(p.slot, q.slot)
  <2>1. PICK iv \in days[q.slot.day] : IntentMatches(iv, q.slot)
    BY <1>1, SeatOf
  <2>2. IntentMatches(iv, p.slot)
    BY <1>1, <1>2, <2>1, OverlapShares
  <2> QED
    BY <1>2, <2>1, <2>2 DEF Occ!SameSession, IntentMatches, ExactMatch
<1>3. Occ!NoClash(Seated)
  BY <1>2 DEF Occ!NoClash, Occ!Overlap, Overlap
<1>4. ASSUME NEW p \in Seated
      PROVE  Cardinality(Occ!SeatsTaken(Seated, p.slot)) <= p.slot.max
  <2> DEFINE d == p.slot.day
             T == Occ!SeatsTaken(Seated, p.slot)
  <2>1. /\ p.slot \in Slot /\ d \in Days /\ RequireValidInterval(p.slot)
        /\ p.slot.start \in Int /\ p.slot.end \in Int
    BY <1>1, SeatOf, IntentsAssumption DEF Slot
  <2>2. PICK iv \in days[d] : IntentMatches(iv, p.slot)
    BY <1>1, SeatOf
  <2>3. /\ iv \in Interval /\ iv.used = Cardinality(Seats(claims, d, iv))
        /\ iv.used \in Nat /\ iv.used <= iv.max
    BY <2>1 DEF Inv, TypeOK, StoreOK, DayOK, UsedIsSeats, Interval
  <2>4. iv.max = p.slot.max
    BY <2>2 DEF IntentMatches
  <2>5. ASSUME NEW x \in T
        PROVE  x \in Seats(claims, d, iv)
    <3>1. x \in Keys \X (1..p.slot.max)
      BY DEF Occ!SeatsTaken
    <3>2. PICK q \in Seated : /\ q.key = x[1] /\ x[2] <= q.slot.party
                              /\ Occ!SameSession(q.slot, p.slot)
      BY DEF Occ!SeatsTaken
    <3>3. q.slot.day = p.slot.day /\ Overlap(q.slot, p.slot)
      BY <3>2, <2>1 DEF Occ!SameSession, Overlap, RequireValidInterval
    <3>4. Sits(claims, d, q.key, iv) /\ q.slot = claims[q.key].slot
      BY <1>1, <2>2, <3>3, OverlapShares
    <3> QED
      BY <3>1, <3>2, <3>4, <2>4 DEF Seats
  <2>6. IsFiniteSet(Seats(claims, d, iv))
    BY <2>3, SeatsFinite
  <2>7. Cardinality(T) <= Cardinality(Seats(claims, d, iv)) /\ IsFiniteSet(T)
    BY <2>5, <2>6, FS_Subset
  <2>8. Cardinality(T) \in Nat
    BY <2>7, FS_CardinalityType
  <2> HIDE DEF T
  <2>9. iv.max \in Nat
    BY <2>3 DEF Interval
  <2> QED
    BY <2>3, <2>4, <2>7, <2>8, <2>9 DEF T
<1>5. Occ!WithinCapacity(Seated)
  <2>1. ASSUME NEW S PROVE Occ!Cardinality(S) = Cardinality(S)
    BY DEF Occ!Cardinality, Cardinality
  <2> QED
    BY <1>4, <2>1 DEF Occ!WithinCapacity
<1>6. Occ!OneSlotEach(Seated)
  BY <1>1 DEF Occ!OneSlotEach
<1> QED
  BY <1>3, <1>5, <1>6 DEF Occ!Consistent

\* What the calendar sees of a state: all that Occ!Init asks for.
Calendar == /\ Occ!TypeOK /\ Occ!Consistent(Seated)
            /\ \A p \in Seated : p.key \notin Left

LEMMA CalendarSound == Inv => Calendar
<1> SUFFICES ASSUME Inv PROVE Calendar
  OBVIOUS
<1>1. \A k \in SeatedKeys : k \in Keys /\ claims[k].slot \in Intents
  BY SeatOf DEF Claim
<1>2. Seated \subseteq [key : Keys, slot : Intents] /\ Left \subseteq Keys
  BY <1>1 DEF Seated, Left
<1>3. Occ!TypeOK
  BY <1>2 DEF Occ!TypeOK, Seated, Left
<1>4. \A p \in Seated : p.key \notin Left
  BY DEF Seated, Left
<1> QED
  BY <1>3, <1>4, SeatedConsistent DEF Calendar

\* A historical party whose interval is gone never gets it back.
LEMMA HistoricalGone ==
    ASSUME Inv, [Next]_vars, NEW k \in Keys, claims[k] # NoClaim, claims[k].effect = "NONE",
           NEW d \in Days, \A iv \in days[d] : iv.id # k
    PROVE  \A iv \in days'[d] : iv.id # k
<1>1. CASE UNCHANGED days
  BY <1>1
<1>2. ASSUME NEW t \in Txns, Commit(t)
      PROVE  \A iv \in days'[d] : iv.id # k
  <2>1. txn[t].open /\ FrameOK(txn[t], claims, days) /\ txn[t] \in Transaction
    BY <1>2 DEF Commit, Inv, ViewsOK, TypeOK
  <2>2. days'[d] = IF d \in txn[t].wDays THEN txn[t].days[d] ELSE days[d]
    BY <1>2 DEF Commit
  <2>3. k \notin txn[t].wKeys
    BY <2>1 DEF FrameOK, Advanced
  <2> QED
    BY <2>1, <2>2, <2>3 DEF FrameOK, IdsFrom
<1>3. ASSUME NEW t \in Txns, Begin(t) \/ Abort(t) PROVE days' = days
  BY <1>3 DEF Begin, Abort
<1>4. ASSUME NEW t \in Txns, Call(t) PROVE days' = days
  <2>1. ASSUME NEW j \in Keys, NEW i \in Intents,
               CreateInterval(t, j, i) \/ JoinCapacity(t, j, i) \/ Replay(t, j, i)
        PROVE  days' = days
    BY <2>1 DEF CreateInterval, JoinCapacity, Replay, Write, Read
  <2>2. ASSUME NEW j \in Keys, ReleaseApplied(t, j) \/ AlreadyReleased(t, j)
        PROVE  days' = days
    BY <2>2 DEF ReleaseApplied, AlreadyReleased, Write, Read
  <2>3. ASSUME NEW e \in Days, ReleaseHistorical(t, e) PROVE days' = days
    BY <2>3 DEF ReleaseHistorical
  <2> QED
    BY <1>4, <2>1, <2>2, <2>3 DEF Call
<1> QED
  BY <1>1, <1>2, <1>3, <1>4 DEF Next, vars

\* Every step of the collections is a step of the calendar.
LEMMA StepMaps ==
    ASSUME Inv, [Next]_vars, Calendar'
    PROVE  Occ!Next
<1>1. ASSUME NEW k \in Keys, claims[k] # NoClaim
      PROVE  /\ claims'[k] # NoClaim /\ claims'[k].slot = claims[k].slot
             /\ \/ claims'[k] = claims[k]
                \/ claims[k].effect = "APPLIED" /\ claims'[k].effect = "RELEASED"
  <2>1. claims[k] \in Claim
    BY <1>1 DEF Inv, TypeOK
  <2>2. claims'[k] = claims[k] \/ (claims[k].effect = "APPLIED" /\ claims'[k] = Released(claims[k]))
    BY <1>1, ClaimsAdvance DEF Advanced
  <2>3. /\ Released(claims[k]) \in Claim /\ Released(claims[k]).slot = claims[k].slot
        /\ Released(claims[k]).effect = "RELEASED"
    BY <2>1 DEF Released, Claim
  <2>4. Released(claims[k]) # NoClaim
    BY <2>3, NoClaimAssumption DEF Claim
  <2> QED
    BY <1>1, <2>2, <2>3, <2>4
<1>2. ASSUME NEW k \in Left PROVE k \in Left'
  <2>1. k \in Keys /\ claims[k] # NoClaim /\ k \notin SeatedKeys /\ claims[k] \in Claim
    BY DEF Left, Inv, TypeOK
  <2>2. claims[k].effect # "APPLIED" /\ claims'[k] = claims[k]
    BY <1>1, <2>1 DEF SeatedKeys
  <2>3. claims[k].effect = "NONE" => \A iv \in days'[claims[k].slot.day] : iv.id # k
    <3>1. claims[k].slot.day \in Days
      BY <2>1, IntentsAssumption DEF Claim, Slot
    <3> QED
      BY <2>1, <3>1, HistoricalGone DEF SeatedKeys
  <2>4. k \notin SeatedKeys'
    BY <2>2, <2>3 DEF SeatedKeys
  <2> QED
    BY <2>1, <2>2, <2>4 DEF Left
<1>3. ASSUME NEW p \in Seated PROVE p \in Seated' \/ p.key \in Left'
  <2>1. PICK k \in SeatedKeys : p = [key |-> k, slot |-> claims[k].slot]
    BY DEF Seated
  <2>2. k \in Keys /\ claims'[k] # NoClaim /\ claims'[k].slot = claims[k].slot
    BY <1>1, SeatOf
  <2>3. CASE k \in SeatedKeys'
    BY <2>1, <2>2, <2>3 DEF Seated
  <2>4. CASE k \notin SeatedKeys'
    BY <2>1, <2>2, <2>4 DEF Left
  <2> QED
    BY <2>3, <2>4
<1>4. Occ!TypeOK' /\ Occ!Consistent(Seated') /\ \A p \in Seated' : p.key \notin Left'
  BY DEF Calendar
<1> QED
  BY <1>2, <1>3, <1>4 DEF Occ!Next, Seated, Left

\* The slot-reservation collections implement the abstract staff calendar: no
\* clash, no session above its capacity, no party seated twice or after it left.
THEOREM ImplementsTheCalendar == Spec => ImplementsOccupancy
<1>1. Calendar => Occ!Init
  BY DEF Calendar, Occ!Init, Seated, Left
<1>2. Inv /\ Calendar' /\ [Next]_vars => Occ!Next
  BY StepMaps
<1> QED
  BY <1>1, <1>2, CalendarSound, Invariance, PTL DEF Spec, ImplementsOccupancy, Occ!Spec
=============================================================================
