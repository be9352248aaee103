------------------------- MODULE MCSlotReservation -------------------------
(* A small instance of SlotReservation for TLC: two staff-days, an exclusive   *)
(* service x and a group service g whose session holds three, two open         *)
(* transactions of two calls each, one historical exclusive row.               *)
EXTENDS SlotReservation

CONSTANTS k1, k2, k3, d1, d2, x, g, t1, t2

MCTimes == 0..4

Ask(d, sv, s, e, m, p) == [day |-> d, endDay |-> d, service |-> sv, start |-> s,
                           end |-> e, max |-> m, party |-> p]

\* Exclusive slots that overlap (0-2, 1-3), a group session (2-4) that touches one
\* and overlaps the other, asked for by parties of one and of two, and a slot that
\* runs past midnight.
MCIntents == {Ask(d1, x, 0, 2, 1, 1), Ask(d1, x, 1, 3, 1, 1),
              Ask(d1, g, 2, 4, 3, 1), Ask(d1, g, 2, 4, 3, 2),
              Ask(d2, x, 0, 2, 1, 1),
              [Ask(d1, x, 3, 4, 1, 1) EXCEPT !.endDay = d2]}

MCHistorical == {[key |-> k3, slot |-> Ask(d1, x, 0, 2, 1, 1)]}
=============================================================================
