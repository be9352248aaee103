--------------------------- MODULE RefreshSession ---------------------------
(***************************************************************************)
(* The refresh tokens of one user.  A login starts a family; a rotation    *)
(* consumes the token it was given and adds its successor to the family;   *)
(* a token that is shown again, or a logout, ends the family.  Rotation    *)
(* and revokeFamily are transactions that conflict on the rows both write, *)
(* and are run again; the revocations of a whole user are plain updates.   *)
(*                                                                         *)
(* A process may stop at any point, as Next obliges none.  A row that      *)
(* expires only stops being live, so expiry is left out.                   *)
(***************************************************************************)
EXTENDS Naturals

CONSTANTS Tokens, Families,
          Clients       \* requests of the user's devices

ASSUME SessionAssumption == "none" \notin Families /\ "none" \notin Tokens

VARIABLES row,          \* Session documents: family, and revokedAt set or not
          client,       \* what a request is doing
          ended         \* families whose revokeFamily has returned

sessionVars == <<row, client, ended>>

SessionRow == [state : {"absent", "live", "revoked"}, family : Families \cup {"none"}]
NoRow == [state |-> "absent", family |-> "none"]

\* writes are the rows of the open transaction or of the update, stale that another write
\* of one of them was committed since its snapshot.
Client == [at : {"idle", "rotate", "rotating", "revoke", "revoking", "updating"},
           token : Tokens \cup {"none"}, family : Families \cup {"none"},
           writes : SUBSET Tokens, stale : BOOLEAN]
AtRest == [at |-> "idle", token |-> "none", family |-> "none", writes |-> {}, stale |-> FALSE]

Members(f) == {t \in Tokens : row[t].family = f}
Live == {t \in Tokens : row[t].state = "live"}

\* The committed write of some rows: transactions that write one of them are stale.
Overlaps(c, written) == client[c].writes \cap written # {}
Written(p, written, next) ==
    client' = [c \in Clients |-> IF c = p THEN next
                                 ELSE [client[c] EXCEPT !.stale = @ \/ Overlaps(c, written)]]
Revoked(written) == [t \in Tokens |-> IF t \in written THEN [row[t] EXCEPT !.state = "revoked"]
                                      ELSE row[t]]

-----------------------------------------------------------------------------
\* createRefreshSession
Login(p) ==
    /\ client[p].at = "idle"
    /\ \E t \in Tokens, f \in Families :
         /\ row[t].state = "absent" /\ Members(f) = {}
         /\ row' = [row EXCEPT ![t] = [state |-> "live", family |-> f]]
    /\ UNCHANGED <<client, ended>>

\* rotateRefreshToken looks the token up; one that was used before ends its family.
Present(p) ==
    /\ client[p].at = "idle"
    /\ \E t \in Tokens :
         /\ row[t].state # "absent"
         /\ client' = [client EXCEPT ![p] =
              [AtRest EXCEPT !.at = IF row[t].state = "live" THEN "rotate" ELSE "revoke",
                             !.token = t, !.family = row[t].family]]
    /\ UNCHANGED <<row, ended>>

\* rotate: the transaction takes its row, if it is still live; else it is reuse.
MayConsumeTokenMutated(t) == TRUE
MayConsumeToken(t) == row[t].state = "live"

BeginRotation(p) ==
    /\ client[p].at = "rotate"
    /\ client' = [client EXCEPT ![p] =
         IF MayConsumeToken(@.token)
         THEN [@ EXCEPT !.at = "rotating", !.writes = {client[p].token}, !.stale = FALSE]
         ELSE [@ EXCEPT !.at = "revoke"]]
    /\ UNCHANGED <<row, ended>>

CommitRotation(p) ==
    /\ client[p].at = "rotating"
    /\ \/ /\ ~client[p].stale
          /\ \E successor \in Tokens :
               /\ row[successor].state = "absent"
               /\ row' = [Revoked({client[p].token}) EXCEPT ![successor] =
                            [state |-> "live", family |-> client[p].family]]
          /\ Written(p, {client[p].token}, AtRest)
       \/ /\ client[p].stale                          \* the driver runs it again
          /\ client' = [client EXCEPT ![p].at = "rotate", ![p].writes = {}]
          /\ UNCHANGED row
    /\ UNCHANGED ended

\* revokeRefreshToken and revokeIntendedFamily: a logout, by any token of the family.
Logout(p) ==
    /\ client[p].at = "idle"
    /\ \E t \in Tokens :
         /\ row[t].state # "absent"
         /\ client' = [client EXCEPT ![p] = [AtRest EXCEPT !.at = "revoke", !.token = t,
                                                           !.family = row[t].family]]
    /\ UNCHANGED <<row, ended>>

\* revokeFamily writes the consumed rows as well, in one transaction.
MayCommitRevocationMutated(p) == TRUE                  \* a plain update
MayCommitRevocation(p) == ~client[p].stale

BeginRevocation(p) ==
    /\ client[p].at = "revoke"
    /\ client' = [client EXCEPT ![p].at = "revoking", ![p].stale = FALSE,
                                ![p].writes = Members(client[p].family)]
    /\ UNCHANGED <<row, ended>>

CommitRevocation(p) ==
    /\ client[p].at = "revoking"
    /\ \/ /\ MayCommitRevocation(p)
          /\ row' = Revoked(client[p].writes)
          /\ ended' = ended \cup {client[p].family}
          /\ Written(p, client[p].writes, AtRest)
       \/ /\ ~MayCommitRevocation(p)
          /\ client' = [client EXCEPT ![p].at = "revoke", ![p].writes = {}]
          /\ UNCHANGED <<row, ended>>

\* revokeAllForUser and revokeAllForUserExcept: an update finds the live rows, all or all
\* but the caller's, and revokes those that still are.
FindLive(p) ==
    /\ client[p].at = "idle"
    /\ \E own \in SUBSET Live :
         /\ \A s, t \in own : s = t
         /\ client' = [client EXCEPT ![p] = [AtRest EXCEPT !.at = "updating",
                                                           !.writes = Live \ own]]
    /\ UNCHANGED <<row, ended>>

RevokeFound(p) ==
    /\ client[p].at = "updating"
    /\ row' = Revoked(client[p].writes \cap Live)
    /\ Written(p, client[p].writes \cap Live, AtRest)
    /\ UNCHANGED ended

SessionInit ==
    /\ row = [t \in Tokens |-> NoRow]
    /\ client = [p \in Clients |-> AtRest]
    /\ ended = {}

SessionNext ==
    \E p \in Clients :
        \/ Login(p) \/ Present(p) \/ BeginRotation(p) \/ CommitRotation(p) \/ Logout(p)
        \/ BeginRevocation(p) \/ CommitRevocation(p) \/ FindLive(p) \/ RevokeFound(p)

SessionSpec == SessionInit /\ [][SessionNext]_sessionVars

-----------------------------------------------------------------------------
\* Every variable has its type, a row has a family once it exists, and a rotation that
\* can commit consumes a live row.
SessionTypeOK ==
    /\ row \in [Tokens -> SessionRow]
    /\ client \in [Clients -> Client]
    /\ ended \in SUBSET Families
    /\ \A t \in Tokens : row[t].state = "absent" <=> row[t].family = "none"
    /\ \A p \in Clients : client[p].at = "rotating" /\ ~client[p].stale
                            => row[client[p].token].state = "live"

\* A family has one token that can be used, however requests rotate the same token,
\* answer late or run again.
OneLive == \A s, t \in Live : row[s].family = row[t].family => s = t

\* Once a family was ended no token of it can be used, also not the successor a rotation
\* was about to insert.
EndedStaysEnded == \A t \in Live : row[t].family \notin ended
=============================================================================
