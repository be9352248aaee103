------------------------------ MODULE Delivery ------------------------------
(***************************************************************************)
(* What an outbox promises about one message, with no workers, claims or   *)
(* rows: it is queued once, handed to the provider at most Limit times,    *)
(* and settled once; it counts as sent only if the provider took it.       *)
(***************************************************************************)
EXTENDS Naturals

CONSTANT Limit       \* how often the provider may be called

VARIABLES state,     \* "none", "queued", "sent", "dead" or "unknown"
          calls,     \* provider calls made for the message
          taken      \* provider calls that were accepted

dvars == <<state, calls, taken>>

Init == state = "none" /\ calls = 0 /\ taken = 0

Queue == state = "none" /\ state' = "queued" /\ UNCHANGED <<calls, taken>>

\* A process that lost its claim may still make the call it was about to make.
Send == /\ state # "none" /\ calls < Limit /\ calls' = calls + 1
        /\ taken' \in {taken, taken + 1} /\ UNCHANGED state

Settle == /\ state = "queued"
          /\ \/ state' = "sent" /\ taken > 0
             \/ state' \in {"dead", "unknown"}
          /\ UNCHANGED <<calls, taken>>

Next == Queue \/ Send \/ Settle

Spec == Init /\ [][Next]_dvars
=============================================================================
