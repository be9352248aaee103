---------------------------- MODULE MCStandalone ----------------------------
(* The five components of Standalone, for TLC. *)
EXTENDS Standalone, TLC

CONSTANTS k1, k2, r1, r2, w, c,            \* FirstRelationship
          o1, o2, a1, a2, d,                   \* CentralPayout
          t1, t2, t3, f1, f2, p1, p2,      \* RefreshSession
          b1, b2, c1, c2,                  \* PromoUsage
          q1, q2, e1, e2                   \* AppointmentReminder

MCLifecycle == [o \in {o1, o2} |-> IF o = o1 THEN {"failed"} ELSE {}]

Sym == Permutations(Keys) \cup Permutations(Requests) \cup Permutations(Admins)

\* Revisions are only compared, so a state is one up to whether the row a process
\* read is the current one, one behind, or older; that row itself is of no use once
\* it is behind and the writes it is for all ask for its revision.
Behind(revision) == IF rel.revision > revision + 1 THEN 2 ELSE rel.revision - revision
Lost(p) == /\ At(p, "unbound") \/ At(p, "abandoned") \/ At(p, "attempt") \/ At(p, "bound")
           /\ ~SameRevision(p)
Age(p) == IF Row(p) = None THEN proc[p]
          ELSE IF Lost(p) THEN [proc[p] EXCEPT !.row = "lost"]
          ELSE [proc[p] EXCEPT !.row.revision = Behind(@)]
View == CASE part = "first" -> <<[rel EXCEPT !.revision = 0], claim, attempt, booking, refund,
                                 calls, [p \in Procs |-> Age(p)]>>
          [] part = "payout" -> <<part, payoutVars>>
          [] part = "session" -> <<part, sessionVars>>
          [] part = "promo" -> <<part, promoVars>>
          [] part = "reminder" -> <<part, reminderVars>>
=============================================================================
