-------------------------- MODULE StandaloneProofs --------------------------
(***************************************************************************)
(* Proofs about the components of Standalone: refresh tokens, promo usage, *)
(* central payouts and appointment reminders, a section for each, and that *)
(* side by side they keep their types.  (FirstRelationshipProofs has the   *)
(* fifth.)                                                                 *)
(***************************************************************************)
EXTENDS Standalone, FirstRelationshipProofs, FiniteSetTheorems, TLAPS

-----------------------------------------------------------------------------
(* Refresh tokens *)
\* Proofs about RefreshSession: its types, that a family has one live
\* token and that an ended family has none, for any tokens, families and
\* number of clients.  A transaction is carried from its snapshot to its
\* commit by what it has not been told: as long as it is not stale, the
\* rows it is about to write are those it was meant to.

InFamily == {"rotate", "rotating", "revoke", "revoking"}

\* A request works on rows that exist, and a rotation writes the token it was given.
Given ==
    \A p \in Clients :
        /\ client[p].at \in InFamily =>
             /\ client[p].token \in Tokens /\ client[p].family \in Families
             /\ row[client[p].token].family = client[p].family
        /\ client[p].at = "rotating" => client[p].writes = {client[p].token}
        /\ \A t \in client[p].writes : row[t].state # "absent"

\* A revocation that can commit writes every live token of its family.
Covers ==
    \A p \in Clients : client[p].at = "revoking" /\ ~client[p].stale =>
        \A t \in Live : row[t].family = client[p].family => t \in client[p].writes

\* An ended family has tokens, so no login takes it.
EndedExist == \A f \in ended : \E t \in Tokens : row[t].family = f

SessionInv ==
    SessionTypeOK /\ OneLive /\ EndedStaysEnded /\ Given /\ Covers /\ EndedExist

-----------------------------------------------------------------------------
(* A step of a client that writes no row keeps the invariant, if the client's *)
(* new state is in order.                                                     *)
Ordered(c) ==
    /\ c \in Client
    /\ c.at \in InFamily => /\ c.token \in Tokens /\ c.family \in Families
                            /\ row[c.token].family = c.family
    /\ c.at = "rotating" => c.writes = {c.token} /\ (~c.stale => row[c.token].state = "live")
    /\ c.at = "revoking" /\ ~c.stale =>
         \A t \in Live : row[t].family = c.family => t \in c.writes
    /\ \A t \in c.writes : row[t].state # "absent"

LEMMA OwnStep ==
    ASSUME SessionInv, NEW p \in Clients, NEW c, Ordered(c),
           client' = [client EXCEPT ![p] = c], UNCHANGED <<row, ended>>
    PROVE  SessionInv'
<1>1. client \in [Clients -> Client]
  BY DEF SessionInv, SessionTypeOK
<1>2. client' \in [Clients -> Client] /\ \A q \in Clients : client'[q] = c \/ client'[q] = client[q]
  BY <1>1 DEF Ordered
<1>3. Live' = Live
  BY DEF Live
<1>4. SessionTypeOK'
  BY <1>2 DEF SessionInv, SessionTypeOK, Ordered
<1>5. OneLive' /\ EndedStaysEnded' /\ EndedExist'
  BY <1>3 DEF SessionInv, OneLive, EndedStaysEnded, EndedExist
<1>6. Given' /\ Covers'
  BY <1>2, <1>3 DEF SessionInv, Given, Covers, Ordered
<1> QED
  BY <1>4, <1>5, <1>6 DEF SessionInv

LEMMA Rows ==
    SessionInv => /\ row \in [Tokens -> SessionRow] /\ client \in [Clients -> Client]
                  /\ \A t \in Tokens : row[t].state # "absent" => row[t].family \in Families
BY SessionAssumption DEF SessionInv, SessionTypeOK, SessionRow

LEMMA PresentInv == ASSUME SessionInv, NEW p \in Clients, Present(p) \/ Logout(p)
                    PROVE  SessionInv'
<1>1. PICK t \in Tokens, at \in {"rotate", "revoke"} :
        /\ row[t].state # "absent"
        /\ client' = [client EXCEPT ![p] = [AtRest EXCEPT !.at = at, !.token = t,
                                                          !.family = row[t].family]]
        /\ UNCHANGED <<row, ended>>
  BY DEF Present, Logout
<1> DEFINE c == [AtRest EXCEPT !.at = at, !.token = t, !.family = row[t].family]
<1>2. row[t].family \in Families
  BY <1>1, Rows
<1>3. Ordered(c)
  BY <1>1, <1>2 DEF AtRest, Ordered, Client, InFamily
<1> QED
  BY <1>1, <1>3, OwnStep

LEMMA BeginTransactionInv == ASSUME SessionInv, NEW p \in Clients, BeginRotation(p) \/ BeginRevocation(p)
                  PROVE  SessionInv'
<1>1. client[p] \in Client /\ client \in [Clients -> Client]
  BY Rows
<1>2. /\ client[p].token \in Tokens /\ client[p].family \in Families
      /\ row[client[p].token].family = client[p].family
      /\ \A t \in client[p].writes : row[t].state # "absent"
      /\ UNCHANGED <<row, ended>>
  BY DEF BeginRotation, BeginRevocation, SessionInv, Given, InFamily
<1> DEFINE rotating == [client[p] EXCEPT !.at = "rotating", !.writes = {client[p].token},
                                         !.stale = FALSE]
           reused == [client[p] EXCEPT !.at = "revoke"]
           revoking == [client[p] EXCEPT !.at = "revoking", !.stale = FALSE,
                                         !.writes = Members(client[p].family)]
<1>3. CASE MayConsumeToken(client[p].token) /\ client' = [client EXCEPT ![p] = rotating]
  <2>1. Ordered(rotating)
    BY <1>1, <1>2, <1>3 DEF Ordered, Client, InFamily, MayConsumeToken
  <2> QED
    BY <1>2, <1>3, <2>1, OwnStep
<1>4. CASE client' = [client EXCEPT ![p] = reused]
  <2>1. Ordered(reused)
    BY <1>1, <1>2 DEF Ordered, Client, InFamily
  <2> QED
    BY <1>2, <1>4, <2>1, OwnStep
<1>5. CASE client' = [client EXCEPT ![p] = revoking]
  <2>1. \A t \in Members(client[p].family) : row[t].state # "absent"
    BY <1>2, SessionAssumption DEF Members, SessionInv, SessionTypeOK
  <2>2. revoking \in Client /\ revoking.at = "revoking"
    BY <1>1 DEF Client, Members
  <2>3. Ordered(revoking)
    BY <1>1, <1>2, <2>1, <2>2 DEF Ordered, InFamily, Members, Live
  <2> QED
    BY <1>2, <1>5, <2>3, OwnStep
<1>6. BeginRotation(p) => \/ MayConsumeToken(client[p].token) /\ client' = [client EXCEPT ![p] = rotating]
                          \/ client' = [client EXCEPT ![p] = reused]
  BY <1>1 DEF BeginRotation
<1>7. BeginRevocation(p) => client' = [client EXCEPT ![p] = revoking]
  BY <1>1 DEF BeginRevocation
<1> QED
  BY <1>3, <1>4, <1>5, <1>6, <1>7

LEMMA FindInv == ASSUME SessionInv, NEW p \in Clients, FindLive(p) PROVE SessionInv'
<1>1. PICK own \in SUBSET Live :
        client' = [client EXCEPT ![p] = [AtRest EXCEPT !.at = "updating", !.writes = Live \ own]]
  BY DEF FindLive
<1>2. Ordered([AtRest EXCEPT !.at = "updating", !.writes = Live \ own])
  BY DEF Ordered, AtRest, Client, InFamily, Live
<1> QED
  BY <1>1, <1>2, OwnStep DEF FindLive

\* A transaction that is stale runs again.
LEMMA AgainInv ==
    ASSUME SessionInv, NEW p \in Clients, NEW at \in {"rotate", "revoke"},
           client[p].at \in InFamily,
           client' = [client EXCEPT ![p].at = at, ![p].writes = {}], UNCHANGED <<row, ended>>
    PROVE  SessionInv'
<1> DEFINE again == [client[p] EXCEPT !.at = at, !.writes = {}]
<1>1. client[p] \in Client /\ client \in [Clients -> Client]
  BY Rows
<1>2. Ordered(again)
  BY <1>1 DEF Ordered, Client, InFamily, SessionInv, Given
<1>3. client' = [client EXCEPT ![p] = again]
  BY <1>1
<1> QED
  BY <1>2, <1>3, OwnStep

-----------------------------------------------------------------------------
\* A committed write of rows W tells the other clients: one that is not stale after it
\* was not before, and writes none of them.
Told(q, W) == /\ client'[q] \in Client /\ client'[q].at = client[q].at
              /\ client'[q].token = client[q].token /\ client'[q].family = client[q].family
              /\ client'[q].writes = client[q].writes
              /\ ~client'[q].stale => ~client[q].stale /\ client[q].writes \cap W = {}

LEMMA WrittenTells ==
    ASSUME client \in [Clients -> Client], NEW p \in Clients, NEW W, Written(p, W, AtRest),
           NEW q \in Clients, client'[q] # AtRest
    PROVE  Told(q, W)
<1>1. client'[q] = [client[q] EXCEPT !.stale = @ \/ Overlaps(q, W)] /\ client[q] \in Client
  BY DEF Written
<1>2. CASE Overlaps(q, W)
  BY <1>1, <1>2 DEF Client, Told
<1>3. CASE ~Overlaps(q, W)
  BY <1>1, <1>3 DEF Client, Overlaps, Told
<1> QED
  BY <1>2, <1>3

(* Rows are revoked, perhaps for the end of families all of whose live tokens *)
(* are among them.                                                            *)
LEMMA RevokeInv ==
    ASSUME SessionInv, NEW p \in Clients, NEW W \in SUBSET Tokens, NEW F \in SUBSET Families,
           \A t \in W : row[t].state # "absent",
           \A f \in F : /\ \E t \in Tokens : row[t].family = f
                        /\ \A t \in Live : row[t].family = f => t \in W,
           row' = Revoked(W), Written(p, W, AtRest), ended' = ended \cup F
    PROVE  SessionInv'
<1>1. /\ row \in [Tokens -> SessionRow] /\ client \in [Clients -> Client]
      /\ ended \in SUBSET Families
  BY DEF SessionInv, SessionTypeOK
<1>2. \A t \in Tokens : /\ row'[t] \in SessionRow /\ row'[t].family = row[t].family
                        /\ row'[t].state = IF t \in W THEN "revoked" ELSE row[t].state
  BY <1>1 DEF Revoked, SessionRow
<1>3. row' \in [Tokens -> SessionRow]
  BY <1>2 DEF Revoked
<1>4. Live' = Live \ W
  BY <1>2 DEF Live
<1>5. /\ AtRest \in Client /\ AtRest.at = "idle" /\ AtRest.writes = {}
  BY DEF AtRest, Client
<1>7. \A q \in Clients : client'[q] = AtRest \/ Told(q, W)
  BY <1>1, WrittenTells
<1>8. client' \in [Clients -> Client]
  BY <1>5, <1>7 DEF Written, Told
<1>9. SessionTypeOK'
  <2>1. \A t \in Tokens : row'[t].state = "absent" <=> row'[t].family = "none"
    BY <1>2 DEF SessionInv, SessionTypeOK
  <2>2. \A q \in Clients : client'[q].at = "rotating" /\ ~client'[q].stale
                            => row'[client'[q].token].state = "live"
    BY <1>1, <1>2, <1>5, <1>7 DEF SessionInv, SessionTypeOK, Given, InFamily, Told
  <2> QED
    BY <1>1, <1>3, <1>8, <2>1, <2>2 DEF SessionTypeOK
<1>10. OneLive' /\ EndedStaysEnded' /\ EndedExist'
  BY <1>2, <1>4 DEF SessionInv, OneLive, EndedStaysEnded, EndedExist, Live
<1>11. Given'
  BY <1>1, <1>2, <1>5, <1>7 DEF SessionInv, Given, InFamily, Client, Told
<1>12. Covers'
  BY <1>1, <1>2, <1>4, <1>5, <1>7 DEF SessionInv, Covers, Live, Told
<1> QED
  BY <1>9, <1>10, <1>11, <1>12 DEF SessionInv

LEMMA CommitRevocationInv == ASSUME SessionInv, NEW p \in Clients, CommitRevocation(p)
                             PROVE  SessionInv'
<1>1. client[p] \in Client /\ client[p].at = "revoking"
  BY Rows DEF CommitRevocation
<1>2. CASE ~MayCommitRevocation(p)
  BY <1>1, <1>2, AgainInv DEF CommitRevocation, InFamily
<1>3. CASE MayCommitRevocation(p)
  <2>1. /\ client[p].family \in Families /\ client[p].token \in Tokens
        /\ row[client[p].token].family = client[p].family
        /\ \A t \in client[p].writes : row[t].state # "absent"
        /\ \A t \in Live : row[t].family = client[p].family => t \in client[p].writes
    BY <1>1, <1>3 DEF SessionInv, Given, Covers, InFamily, MayCommitRevocation
  <2>2. client[p].writes \in SUBSET Tokens /\ {client[p].family} \in SUBSET Families
    BY <1>1, <2>1 DEF Client
  <2>3. /\ row' = Revoked(client[p].writes) /\ Written(p, client[p].writes, AtRest)
        /\ ended' = ended \cup {client[p].family}
    BY <1>3 DEF CommitRevocation
  <2>4. \A f \in {client[p].family} :
          /\ \E t \in Tokens : row[t].family = f
          /\ \A t \in Live : row[t].family = f => t \in client[p].writes
    BY <2>1
  <2> QED
    BY <2>1, <2>2, <2>3, <2>4, RevokeInv
<1> QED
  BY <1>2, <1>3

LEMMA RevokeFoundInv == ASSUME SessionInv, NEW p \in Clients, RevokeFound(p)
                        PROVE  SessionInv'
<1>1. client[p].writes \cap Live \in SUBSET Tokens /\ {} \in SUBSET Families
  BY DEF Live
<1>2. \A t \in client[p].writes \cap Live : row[t].state # "absent"
  BY DEF Live
<1>3. /\ row' = Revoked(client[p].writes \cap Live)
      /\ Written(p, client[p].writes \cap Live, AtRest) /\ ended' = ended \cup {}
  BY DEF RevokeFound
<1> QED
  BY <1>1, <1>2, <1>3, RevokeInv

-----------------------------------------------------------------------------
(* Rows are added *)

LEMMA LoginInv == ASSUME SessionInv, NEW p \in Clients, Login(p) PROVE SessionInv'
<1>1. PICK t \in Tokens, f \in Families :
        /\ row[t].state = "absent" /\ Members(f) = {}
        /\ row' = [row EXCEPT ![t] = [state |-> "live", family |-> f]]
        /\ UNCHANGED <<client, ended>>
  BY DEF Login
<1>2. /\ row \in [Tokens -> SessionRow] /\ client \in [Clients -> Client]
      /\ ended \in SUBSET Families
  BY DEF SessionInv, SessionTypeOK
<1>3. row' \in [Tokens -> SessionRow] /\ Live' = Live \cup {t} /\ row'[t].family = f
  BY <1>1, <1>2 DEF SessionRow, Live
<1>4. \A s \in Tokens : /\ row[s].state # "absent" => row'[s] = row[s] /\ row[s].family # f
                        /\ s # t => row'[s] = row[s]
  BY <1>1, <1>2 DEF Members
<1>5. /\ row'[t].state = "live" /\ row[t].family = "none" /\ f # "none"
  BY <1>1, <1>2, SessionAssumption DEF SessionInv, SessionTypeOK
<1>6. SessionTypeOK'
  BY <1>1, <1>2, <1>3, <1>4, <1>5 DEF SessionInv, SessionTypeOK, Given, InFamily
<1>7. OneLive'
  BY <1>3, <1>4 DEF SessionInv, OneLive, Live
<1>8. EndedStaysEnded' /\ EndedExist'
  BY <1>1, <1>2, <1>3, <1>4, <1>5, SessionAssumption
  DEF SessionInv, EndedStaysEnded, EndedExist, Live, Members
<1>9. Given'
  <2>1. ASSUME NEW q \in Clients PROVE client[q].writes \in SUBSET Tokens
    BY <1>2 DEF Client
  <2> QED
    BY <1>1, <1>2, <1>4, <1>5, <2>1, SessionAssumption DEF SessionInv, Given, InFamily
<1>10. Covers'
  BY <1>1, <1>3, <1>4 DEF SessionInv, Covers, Given, InFamily, Live, Members
<1> QED
  BY <1>6, <1>7, <1>8, <1>9, <1>10 DEF SessionInv

LEMMA CommitRotationInv == ASSUME SessionInv, NEW p \in Clients, CommitRotation(p)
                           PROVE  SessionInv'
<1>1. CASE client[p].stale
  BY <1>1, AgainInv DEF CommitRotation, InFamily
<1>2. CASE ~client[p].stale
  <2> DEFINE t == client[p].token
             f == client[p].family
  <2>1. /\ row \in [Tokens -> SessionRow] /\ client \in [Clients -> Client]
        /\ ended \in SUBSET Families
    BY DEF SessionInv, SessionTypeOK
  <2>2. t \in Tokens /\ f \in Families /\ f # "none" /\ row[t].family = f /\ row[t].state = "live"
    BY <1>2, SessionAssumption
    DEF CommitRotation, SessionInv, SessionTypeOK, Given, InFamily
  <2>3. PICK s \in Tokens :
          /\ row[s].state = "absent"
          /\ row' = [Revoked({t}) EXCEPT ![s] = [state |-> "live", family |-> f]]
          /\ Written(p, {t}, AtRest) /\ UNCHANGED ended
    BY <1>2 DEF CommitRotation
  <2>4. s # t /\ row[s].family = "none" /\ row[s].state = "absent" /\ ended' = ended
    BY <2>2, <2>3 DEF SessionInv, SessionTypeOK
  <2>5. /\ row'[s] = [state |-> "live", family |-> f]
        /\ row'[t] = [row[t] EXCEPT !.state = "revoked"]
        /\ \A u \in Tokens \ {s, t} : row'[u] = row[u]
    BY <2>1, <2>2, <2>3, <2>4 DEF Revoked
  <2>6. /\ row'[t].state = "revoked" /\ row'[t].family = f
        /\ row'[s].state = "live" /\ row'[s].family = f
        /\ \A u \in Tokens \ {s, t} : row'[u] = row[u]
        /\ row' \in [Tokens -> SessionRow]
    BY <2>1, <2>2, <2>3, <2>4, <2>5 DEF SessionRow, Revoked
  <2>7. Live' = (Live \ {t}) \cup {s}
    BY <2>2, <2>4, <2>6 DEF Live
  <2>8. AtRest \in Client /\ AtRest.at = "idle" /\ AtRest.writes = {}
    BY DEF AtRest, Client
  <2>9. \A q \in Clients : client'[q] = AtRest \/ Told(q, {t})
    BY <2>1, <2>3, WrittenTells
  <2>10. client' \in [Clients -> Client]
    BY <2>3, <2>8, <2>9 DEF Written, Told
  <2>11. SessionTypeOK'
    <3>1. \A u \in Tokens : row'[u].state = "absent" <=> row'[u].family = "none"
      BY <2>2, <2>6 DEF SessionInv, SessionTypeOK
    <3>2. ASSUME NEW q \in Clients, client'[q].at = "rotating", ~client'[q].stale
          PROVE  row'[client'[q].token].state = "live"
      <4>1. /\ client[q].at = "rotating" /\ ~client[q].stale /\ t \notin client[q].writes
            /\ client'[q].token = client[q].token
        BY <2>8, <2>9, <3>2 DEF Told
      <4>2. /\ client[q].token # t /\ client[q].token \in Tokens
            /\ row[client[q].token].state = "live"
        BY <4>1 DEF SessionInv, SessionTypeOK, Given, InFamily
      <4> QED
        BY <2>4, <2>6, <4>1, <4>2
    <3> QED
      BY <2>1, <2>4, <2>6, <2>10, <3>1, <3>2 DEF SessionTypeOK
  <2>12. OneLive' /\ EndedStaysEnded'
    BY <2>2, <2>4, <2>6, <2>7 DEF SessionInv, OneLive, EndedStaysEnded, Live
  <2>13. EndedExist'
    BY <2>1, <2>2, <2>4, <2>6, SessionAssumption DEF SessionInv, EndedExist
  <2>14. Given'
    <3>1. \A u \in Tokens : row[u].state # "absent"
            => row'[u].state # "absent" /\ row'[u].family = row[u].family
      BY <2>2, <2>4, <2>6
    <3>2. ASSUME NEW q \in Clients PROVE client[q].writes \in SUBSET Tokens
      BY <2>1 DEF Client
    <3>3. \A u \in Tokens, g \in Families : row[u].family = g => row'[u].family = g
      BY <2>2, <2>4, <2>6, SessionAssumption
    <3> QED
      BY <2>8, <2>9, <3>1, <3>2, <3>3 DEF SessionInv, Given, InFamily, Told
  <2>15. Covers'
    <3> SUFFICES ASSUME NEW q \in Clients, client'[q].at = "revoking", ~client'[q].stale,
                        NEW u \in Live', row'[u].family = client'[q].family
                 PROVE  u \in client'[q].writes
      BY DEF Covers
    <3>1. /\ client[q].at = "revoking" /\ ~client[q].stale /\ t \notin client[q].writes
          /\ client'[q].family = client[q].family /\ client'[q].writes = client[q].writes
      BY <2>8, <2>9 DEF Told
    <3>2. t \in Live
      BY <2>2 DEF Live
    <3>3. client[q].family # f
      BY <2>2, <3>1, <3>2 DEF SessionInv, Covers
    <3>4. u \in Live /\ row'[u] = row[u]
      BY <2>6, <2>7, <3>1, <3>3 DEF Live
    <3> QED
      BY <3>1, <3>4 DEF SessionInv, Covers
  <2> QED
    BY <2>11, <2>12, <2>13, <2>14, <2>15 DEF SessionInv
<1> QED
  BY <1>1, <1>2

-----------------------------------------------------------------------------
LEMMA SessionInitInv == SessionInit => SessionInv
<1> SUFFICES ASSUME SessionInit PROVE SessionInv
  OBVIOUS
<1>1. NoRow \in SessionRow /\ NoRow.state = "absent" /\ NoRow.family = "none"
  BY DEF NoRow, SessionRow
<1>2. AtRest \in Client /\ AtRest.at = "idle" /\ AtRest.writes = {}
  BY DEF AtRest, Client
<1>3. Live = {}
  BY <1>1 DEF SessionInit, Live
<1> QED
  BY <1>1, <1>2, <1>3
  DEF SessionInit, SessionInv, SessionTypeOK, OneLive, EndedStaysEnded, Given, Covers,
      EndedExist, InFamily

LEMMA SessionStep == SessionInv /\ [SessionNext]_sessionVars => SessionInv'
<1> SUFFICES ASSUME SessionInv, [SessionNext]_sessionVars PROVE SessionInv'
  OBVIOUS
<1>1. CASE UNCHANGED sessionVars
  BY <1>1
  DEF sessionVars, SessionInv, SessionTypeOK, OneLive, EndedStaysEnded, Given, Covers,
      EndedExist, Live
<1>2. ASSUME NEW p \in Clients, Login(p) \/ CommitRotation(p) PROVE SessionInv'
  BY <1>2, LoginInv, CommitRotationInv
<1>3. ASSUME NEW p \in Clients, Present(p) \/ Logout(p) \/ BeginRotation(p)
                                  \/ BeginRevocation(p) \/ FindLive(p)
      PROVE  SessionInv'
  BY <1>3, PresentInv, BeginTransactionInv, FindInv
<1>4. ASSUME NEW p \in Clients, CommitRevocation(p) \/ RevokeFound(p) PROVE SessionInv'
  BY <1>4, CommitRevocationInv, RevokeFoundInv
<1> QED
  BY <1>1, <1>2, <1>3, <1>4 DEF SessionNext

LEMMA SessionInvariance == SessionSpec => []SessionInv
BY SessionInitInv, SessionStep, PTL DEF SessionSpec

\* The session rows and what the requests carry have their types.
THEOREM SessionsTyped == SessionSpec => []SessionTypeOK
BY SessionInvariance, PTL DEF SessionInv

\* However rotations, logouts and revocations interleave, at most one token of a family
\* can be used.
THEOREM OneLivePerFamily == SessionSpec => []OneLive
BY SessionInvariance, PTL DEF SessionInv

\* A family whose revocation has committed never has a live token again.
THEOREM EndedIsFinal == SessionSpec => []EndedStaysEnded
BY SessionInvariance, PTL DEF SessionInv

-----------------------------------------------------------------------------
(* Promo usage *)
\* Proofs about PromoUsage: its types, and that both counters say what the
\* redemptions say, for any purchases, customers and limits.

\* A purchase that resolved the code did so for a customer.
ResolvedForCustomer == \A k \in Purchases : checkout[k].state # "none" => checkout[k].by \in Customers

PromoInv == PromoTypeOK /\ CountersAgree /\ ResolvedForCustomer

\* The uses that count for customer c.
Counted(c) == {k \in Used : redemption[k].by = c /\ redemption[k].counted}

LEMMA RedemptionsFinite == IsFiniteSet(Used) /\ \A c \in Customers : IsFiniteSet(Counted(c))
<1>1. Used \in SUBSET Purchases /\ \A c \in Customers : Counted(c) \in SUBSET Purchases
  BY DEF Used, Counted
<1> QED
  BY <1>1, PromoAssumption, FS_Subset

LEMMA PromoTyping == PromoInv => /\ promo \in Promo /\ usage \in [Customers -> Nat]
                            /\ redemption \in [Purchases -> Redemption]
                            /\ checkout \in [Purchases -> Checkout]
                            /\ deletion \in {"none", "counted"}
BY DEF PromoInv, PromoTypeOK

\* Steps that neither count a use nor write a redemption.
LEMMA QuietInv ==
    ASSUME PromoInv, UNCHANGED <<usage, redemption>>, promo' \in Promo,
           promo'.redeemed = promo.redeemed, promo'.status # "deleted" => Exists,
           checkout' \in [Purchases -> Checkout], deletion' \in {"none", "counted"},
           \A k \in Purchases : \/ checkout'[k] = checkout[k]
                                \/ checkout[k].state = "none" /\ checkout'[k].by \in Customers
    PROVE  PromoInv'
<1>1. PromoTypeOK'
  <2>1. ASSUME NEW k \in Purchases, redemption[k].state # "none"
        PROVE  checkout'[k] = checkout[k]
    BY <2>1 DEF PromoInv, PromoTypeOK
  <2> QED
    BY <2>1 DEF PromoInv, PromoTypeOK
<1>2. CountersAgree'
  BY DEF PromoInv, CountersAgree, Exists, Used
<1>3. ResolvedForCustomer'
  BY DEF PromoInv, ResolvedForCustomer
<1> QED
  BY <1>1, <1>2, <1>3 DEF PromoInv

LEMMA ResolveInv == ASSUME PromoInv, NEW k \in Purchases, Resolve(k) PROVE PromoInv'
<1>1. PICK c \in Customers :
        /\ checkout[k].state = "none"
        /\ checkout' = [checkout EXCEPT ![k] = [state |-> "resolved", by |-> c,
                                                total |-> promo.total,
                                                perUser |-> promo.perUser]]
        /\ UNCHANGED <<promo, usage, redemption, deletion>>
  BY DEF Resolve
<1>2. checkout' \in [Purchases -> Checkout]
  BY <1>1, PromoTyping DEF Checkout, Promo
<1>3. \A j \in Purchases : \/ checkout'[j] = checkout[j]
                           \/ checkout[j].state = "none" /\ checkout'[j].by \in Customers
  BY <1>1, PromoTyping
<1> QED
  BY <1>1, <1>2, <1>3, PromoTyping, QuietInv DEF Exists

LEMMA AdminInv == ASSUME PromoInv, UpdatePromo \/ CountRedemptions \/ DeletePromo
                  PROVE  PromoInv'
<1>1. /\ UNCHANGED <<usage, redemption, checkout>>
      /\ promo \in Promo /\ checkout \in [Purchases -> Checkout]
      /\ deletion \in {"none", "counted"}
  BY PromoTyping DEF UpdatePromo, CountRedemptions, DeletePromo
<1>2. CASE UpdatePromo
  <2>1. PICK total \in Limits, perUser \in Limits, status \in {"ACTIVE", "DEACTIVATED"} :
          promo' = [promo EXCEPT !.total = total, !.perUser = perUser, !.status = status]
    BY <1>1, <1>2 DEF UpdatePromo, Promo
  <2>2. promo' \in Promo /\ promo'.redeemed = promo.redeemed
    BY <1>1, <2>1 DEF Promo
  <2> QED
    BY <1>1, <1>2, <2>2, QuietInv DEF UpdatePromo
<1>3. CASE CountRedemptions \/ DeletePromo
  <2>1. /\ promo' = promo \/ \E s \in {"DEACTIVATED", "deleted"} : promo' = [promo EXCEPT !.status = s]
        /\ promo'.status # "deleted" => Exists /\ deletion' \in {"none", "counted"}
        /\ deletion' \in {"none", "counted"}
    BY <1>1, <1>3 DEF CountRedemptions, DeletePromo, Promo, Exists
  <2>2. promo' \in Promo /\ promo'.redeemed = promo.redeemed
    BY <1>1, <2>1 DEF Promo
  <2> QED
    BY <1>1, <2>1, <2>2, QuietInv
<1> QED
  BY <1>2, <1>3

-----------------------------------------------------------------------------
(* The booking transaction *)

LEMMA RedeemInv == ASSUME PromoInv, NEW k \in Purchases, Redeem(k) PROVE PromoInv'
<1> DEFINE order == checkout[k]
<1>1. /\ order.state = "resolved" /\ order \in Checkout /\ order.by \in Customers
      /\ redemption[k].state = "none"
      /\ checkout' = [checkout EXCEPT ![k].state = "ended"]
      /\ UNCHANGED deletion
  BY PromoTyping DEF Redeem, PromoInv, PromoTypeOK, ResolvedForCustomer
<1>2. /\ checkout' \in [Purchases -> Checkout]
      /\ \A j \in Purchases : /\ checkout'[j].by = checkout[j].by
                              /\ checkout'[j].perUser = checkout[j].perUser
                              /\ j # k => checkout'[j] = checkout[j]
      /\ checkout'[k].state = "ended"
  BY <1>1, PromoTyping DEF Checkout
<1>3. ResolvedForCustomer'
  BY <1>1, <1>2 DEF PromoInv, ResolvedForCustomer
<1>4. CASE UNCHANGED <<promo, usage, redemption>>
  <2>1. PromoTypeOK'
    BY <1>1, <1>2, <1>4 DEF PromoInv, PromoTypeOK
  <2>2. CountersAgree'
    BY <1>4 DEF PromoInv, CountersAgree, Exists, Used
  <2> QED
    BY <1>3, <2>1, <2>2 DEF PromoInv
<1>5. CASE /\ Exists
           /\ promo' = [promo EXCEPT !.redeemed = @ + 1]
           /\ usage' = IF order.perUser # 0 THEN [usage EXCEPT ![order.by] = @ + 1] ELSE usage
           /\ redemption' = [redemption EXCEPT ![k] = [state |-> "used", by |-> order.by,
                                                       counted |-> order.perUser # 0]]
  <2>1. /\ promo' \in Promo /\ promo'.redeemed = promo.redeemed + 1
        /\ promo'.status = promo.status /\ promo.redeemed \in Nat
    BY <1>5, PromoTyping DEF Promo
  <2>2. /\ usage' \in [Customers -> Nat]
        /\ \A c \in Customers : usage'[c] = IF c = order.by /\ order.perUser # 0
                                            THEN usage[c] + 1 ELSE usage[c]
    BY <1>1, <1>5, PromoTyping
  <2>3. /\ redemption' \in [Purchases -> Redemption]
        /\ redemption'[k].state = "used" /\ redemption'[k].by = order.by
        /\ redemption'[k].counted <=> order.perUser # 0
        /\ \A j \in Purchases \ {k} : redemption'[j] = redemption[j]
    BY <1>1, <1>5, PromoTyping DEF Redemption
  <2>4. PromoTypeOK'
    BY <1>1, <1>2, <2>1, <2>2, <2>3 DEF PromoInv, PromoTypeOK
  <2>5. k \notin Used /\ Used' = Used \cup {k}
    BY <1>1, <2>3 DEF Used
  <2>6. promo'.redeemed = Cardinality(Used')
    <3>1. Cardinality(Used') = Cardinality(Used) + 1
      BY <2>5, RedemptionsFinite, FS_AddElement
    <3> QED
      BY <1>5, <2>1, <3>1 DEF PromoInv, CountersAgree
  <2>7. ASSUME NEW c \in Customers PROVE usage'[c] = Cardinality(Counted(c)')
    <3>1. usage[c] = Cardinality(Counted(c)) /\ usage[c] \in Nat
      BY PromoTyping DEF PromoInv, CountersAgree, Counted
    <3>2. CASE c = order.by /\ order.perUser # 0
      <4>1. k \notin Counted(c) /\ Counted(c)' = Counted(c) \cup {k}
        BY <2>3, <2>5, <3>2 DEF Counted, Used
      <4>2. Cardinality(Counted(c) \cup {k}) = Cardinality(Counted(c)) + 1
        BY <4>1, RedemptionsFinite, FS_AddElement
      <4> QED
        BY <2>2, <3>1, <3>2, <4>1, <4>2
    <3>3. CASE ~(c = order.by /\ order.perUser # 0)
      <4>1. Counted(c)' = Counted(c)
        BY <2>3, <2>5, <3>3 DEF Counted, Used
      <4> QED
        BY <2>2, <3>1, <3>3, <4>1
    <3> QED
      BY <3>2, <3>3
  <2>8. CountersAgree'
    BY <2>6, <2>7 DEF CountersAgree, Counted
  <2> QED
    BY <1>3, <2>4, <2>8 DEF PromoInv
<1> QED
  BY <1>4, <1>5 DEF Redeem, CountedFor

\* Counting a use once and giving it back once.
LEMMA RestoreUsageInv == ASSUME PromoInv, NEW k \in Purchases, RestoreUsage(k) PROVE PromoInv'
<1> DEFINE r == redemption[k]
<1>1. /\ r.state = "used" /\ r \in Redemption /\ Exists /\ promo.redeemed >= 1
      /\ r.counted => usage[r.by] >= 1
      /\ promo' = [promo EXCEPT !.redeemed = @ - 1]
      /\ usage' = IF r.counted THEN [usage EXCEPT ![r.by] = @ - 1] ELSE usage
      /\ redemption' = [redemption EXCEPT ![k].state = "restored"]
      /\ UNCHANGED <<checkout, deletion>>
  BY PromoTyping DEF RestoreUsage, Restorable
<1>2. r.by \in Customers
  BY <1>1 DEF PromoInv, PromoTypeOK, ResolvedForCustomer
<1>3. /\ promo' \in Promo /\ promo'.redeemed = promo.redeemed - 1
      /\ promo'.status = promo.status /\ promo.redeemed \in Nat
  BY <1>1, PromoTyping DEF Promo
<1>4. /\ usage' \in [Customers -> Nat]
      /\ \A c \in Customers : usage'[c] = IF c = r.by /\ r.counted THEN usage[c] - 1 ELSE usage[c]
  BY <1>1, <1>2, PromoTyping
<1>5. /\ redemption' \in [Purchases -> Redemption]
      /\ redemption'[k].state = "restored" /\ redemption'[k].by = r.by
      /\ redemption'[k].counted = r.counted
      /\ \A j \in Purchases \ {k} : redemption'[j] = redemption[j]
  BY <1>1, PromoTyping DEF Redemption
<1>6. PromoTypeOK'
  <2>1. r.counted \in BOOLEAN
    BY <1>1 DEF Redemption
  <2> QED
    BY <1>1, <1>3, <1>4, <1>5, <2>1 DEF PromoInv, PromoTypeOK
<1>7. k \in Used /\ Used' = Used \ {k}
  BY <1>1, <1>5 DEF Used
<1>8. promo'.redeemed = Cardinality(Used')
  <2>1. Cardinality(Used') = Cardinality(Used) - 1
    BY <1>7, RedemptionsFinite, FS_RemoveElement
  <2> QED
    BY <1>1, <1>3, <2>1 DEF PromoInv, CountersAgree
<1>9. ASSUME NEW c \in Customers PROVE usage'[c] = Cardinality(Counted(c)')
  <2>1. usage[c] = Cardinality(Counted(c)) /\ usage[c] \in Nat
    BY PromoTyping DEF PromoInv, CountersAgree, Counted
  <2>2. CASE c = r.by /\ r.counted
    <3>1. k \in Counted(c) /\ Counted(c)' = Counted(c) \ {k}
      BY <1>5, <1>7, <2>2 DEF Counted, Used
    <3>2. Cardinality(Counted(c) \ {k}) = Cardinality(Counted(c)) - 1
      BY <3>1, RedemptionsFinite, FS_RemoveElement
    <3> QED
      BY <1>4, <2>1, <2>2, <3>1, <3>2
  <2>3. CASE ~(c = r.by /\ r.counted)
    <3>1. Counted(c)' = Counted(c)
      BY <1>1, <1>5, <1>7, <2>3 DEF Counted, Used
    <3> QED
      BY <1>4, <2>1, <2>3, <3>1
  <2> QED
    BY <2>2, <2>3
<1>10. CountersAgree' /\ ResolvedForCustomer'
  BY <1>1, <1>8, <1>9 DEF CountersAgree, Counted, PromoInv, ResolvedForCustomer
<1> QED
  BY <1>6, <1>10 DEF PromoInv

-----------------------------------------------------------------------------
LEMMA PromoInitInv == PromoInit => PromoInv
<1> SUFFICES ASSUME PromoInit PROVE PromoInv
  OBVIOUS
<1>1. PromoTypeOK /\ ResolvedForCustomer
  BY DEF PromoInit, PromoTypeOK, ResolvedForCustomer, Promo, Redemption, Checkout
<1>2. Used = {} /\ \A c \in Customers : Counted(c) = {}
  BY DEF PromoInit, Used, Counted
<1>3. CountersAgree
  BY <1>2, FS_EmptySet DEF PromoInit, CountersAgree, Counted
<1> QED
  BY <1>1, <1>3 DEF PromoInv

LEMMA PromoStep == PromoInv /\ [PromoNext]_promoVars => PromoInv'
<1> SUFFICES ASSUME PromoInv, [PromoNext]_promoVars PROVE PromoInv'
  OBVIOUS
<1>1. CASE UNCHANGED promoVars
  BY <1>1, PromoTyping, QuietInv DEF promoVars, Exists
<1>2. CASE PromoNext
  BY <1>2, ResolveInv, RedeemInv, RestoreUsageInv, AdminInv DEF PromoNext
<1> QED
  BY <1>1, <1>2

LEMMA PromoInvariance == PromoSpec => []PromoInv
BY PromoInitInv, PromoStep, PTL DEF PromoSpec

\* The documents have their types, and a use is counted for its customer exactly if its
\* checkout resolved a limit per customer.
THEOREM PromoTyped == PromoSpec => []PromoTypeOK
BY PromoInvariance, PTL DEF PromoInv

\* The promo's counter and every customer's counter are the number of uses that stand,
\* whatever limits are set, uses given back and checkouts lost in between.
THEOREM CountersCountUses == PromoSpec => []CountersAgree
BY PromoInvariance, PTL DEF PromoInv

-----------------------------------------------------------------------------
(* Central payouts *)
\* Proofs about CentralPayout: its types and the single slot, that what was
\* closed as not sent is not paid, that no acknowledged status is lost
\* and that what is stored only goes forward, for any withdrawals, calls,
\* deliveries and retries.  Documents are used long after they were read,
\* so the invariant says what is still true of them: Stripe's decision and
\* a confirmed status never go back, so an old one bounds a new one.

Actors == Admins \cup Deliveries

PayoutTypes ==
    /\ operation \in [Withdrawals -> Operation]
    /\ payout \in [Withdrawals -> Status \cup {"none"}]
    /\ notices \in [Withdrawals -> SUBSET Status]
    /\ acknowledged \in [Withdrawals -> SUBSET Status]
    /\ actor \in [Actors -> Actor]
    /\ allowed \in BOOLEAN

OneSlot == \A o, other \in Withdrawals : operation[o].slot /\ operation[other].slot => o = other

\* A withdrawal that was closed as never sent has no call left that could send it, once
\* the settings allow it again.
Closing(o) == /\ operation[o].state = "REJECTED" /\ payout[o] = "none" /\ ~operation[o].sent
              /\ allowed => \A a \in Actors : actor[a].of # o

\* Status s of Stripe is stored, or a later one, unless a refusal has closed the withdrawal.
NotLost(o, s) == \/ operation[o].state = "SUBMITTED" /\ Rank[operation[o].status] >= Rank[s]
              \/ GivenUp(o)

Sound(o) ==
    /\ operation[o].slot <=> Unconfirmed(o)
    /\ operation[o].state = "SUBMITTED" => operation[o].status \in Status
    /\ operation[o].state = "absent" => ~operation[o].sent
    /\ ~operation[o].sent => payout[o] = "none"
    /\ notices[o] # {} => payout[o] \in Status
    /\ \A s \in acknowledged[o] : NotLost(o, s)
    /\ operation[o].notSent => Closing(o)

\* What call or delivery x may rely on.
KnownOf(x) ==
    x.at # "idle" =>
      /\ x.of \in Withdrawals /\ operation[x.of].state # "absent"
      /\ x.at = "send" => operation[x.of].sent
      /\ x.at \in {"apply", "reread", "ack"} => x.status \in Status /\ payout[x.of] \in Status
      /\ x.at = "reread" => operation[x.of].state = "SUBMITTED" \/ GivenUp(x.of)
      /\ x.at = "ack" => NotLost(x.of, x.status)
      /\ x.doc.state = "SUBMITTED" =>
           /\ operation[x.of].state = "SUBMITTED" /\ x.doc.status \in Status
           /\ Rank[operation[x.of].status] >= Rank[x.doc.status]

PayoutInv == /\ PayoutTypes /\ OneSlot
             /\ \A o \in Withdrawals : Sound(o)
             /\ \A a \in Actors : KnownOf(actor[a])

LEMMA RankNat == \A s \in Status : Rank[s] \in Nat
<1> TAKE s \in Status
<1> QED
  BY DEF Status, Rank

LEMMA Implied == PayoutInv => PayoutTypeOK /\ NotSentUnpaid /\ AcknowledgedKept
<1> SUFFICES ASSUME PayoutInv PROVE PayoutTypeOK /\ NotSentUnpaid /\ AcknowledgedKept
  OBVIOUS
<1>1. PayoutTypeOK
  BY DEF PayoutInv, PayoutTypes, OneSlot, Sound, PayoutTypeOK, Actors
<1>2. NotSentUnpaid /\ AcknowledgedKept
  BY DEF PayoutInv, Sound, Closing, NotLost, NotSentUnpaid, AcknowledgedKept
<1> QED
  BY <1>1, <1>2

-----------------------------------------------------------------------------
(* What never goes back *)

Onward(o) ==
    /\ operation[o].sent => operation'[o].sent
    /\ operation[o].state # "absent" => operation'[o].state # "absent"
    /\ operation[o].state = "SUBMITTED" =>
         /\ operation'[o].state = "SUBMITTED" /\ operation'[o].status \in Status
         /\ Rank[operation[o].status] <= Rank[operation'[o].status]
    /\ GivenUp(o) => GivenUp(o)'
    /\ payout[o] \in Status => payout'[o] \in Status

LEMMA KnownKept ==
    ASSUME PayoutInv, \A o \in Withdrawals : Onward(o), NEW x \in Actor, KnownOf(x)
    PROVE  KnownOf(x)'
<1>1. CASE x.at = "idle"
  BY <1>1 DEF KnownOf
<1>2. CASE x.at # "idle"
  <2>1. Onward(x.of) /\ Sound(x.of) /\ x.of \in Withdrawals
    BY <1>2 DEF KnownOf, PayoutInv
  <2>2. /\ x.at = "ack" => NotLost(x.of, x.status)'
        /\ x.doc.state = "SUBMITTED" => Rank[operation'[x.of].status] >= Rank[x.doc.status]
    <3>1. ASSUME NEW s \in Status, operation[x.of].state = "SUBMITTED",
                 Rank[operation[x.of].status] >= Rank[s]
          PROVE  Rank[operation'[x.of].status] >= Rank[s]
      <4>1. /\ operation[x.of].status \in Status /\ operation'[x.of].status \in Status
            /\ Rank[operation[x.of].status] <= Rank[operation'[x.of].status]
        BY <2>1, <3>1 DEF Onward, Sound
      <4>2. /\ Rank[operation[x.of].status] \in Nat /\ Rank[operation'[x.of].status] \in Nat
            /\ Rank[s] \in Nat
        BY <4>1, RankNat
      <4> QED
        BY <3>1, <4>1, <4>2
    <3> QED
      BY <1>2, <2>1, <3>1 DEF KnownOf, NotLost, Onward
  <2> QED
    BY <1>2, <2>1, <2>2 DEF KnownOf, Onward
<1> QED
  BY <1>1, <1>2

LEMMA SameWithdrawal == ASSUME PayoutInv, NEW o \in Withdrawals, operation'[o] = operation[o],
                     payout[o] \in Status => payout'[o] \in Status
              PROVE  Onward(o)
<1>1. Sound(o)
  BY DEF PayoutInv
<1>2. operation[o].state = "SUBMITTED" => Rank[operation[o].status] \in Nat
  BY <1>1, RankNat DEF Sound
<1> QED
  BY <1>1, <1>2 DEF Onward, Sound, GivenUp

\* A step of actor a.
LEMMA OthersKnow ==
    ASSUME PayoutInv, \A o \in Withdrawals : Onward(o), NEW a \in Actors, NEW x \in Actor,
           actor' = [actor EXCEPT ![a] = x], KnownOf(x)'
    PROVE  /\ actor' \in [Actors -> Actor]
           /\ \A b \in Actors : KnownOf(actor[b])'
<1>1. actor \in [Actors -> Actor]
  BY DEF PayoutInv, PayoutTypes
<1>2. ASSUME NEW b \in Actors PROVE KnownOf(actor[b])'
  <2>1. CASE b = a
    <3>1. actor'[b] = x
      BY <1>1, <2>1
    <3> QED
      BY <3>1 DEF KnownOf
  <2>2. CASE b # a
    <3> DEFINE y == actor[b]
    <3>1. actor'[b] = actor[b] /\ actor[b] \in Actor
      BY <1>1, <2>2
    <3>2. PICK z \in Actor : z = actor[b] /\ actor'[b] = z
      BY <3>1
    <3>3. KnownOf(z)
      BY <3>2 DEF PayoutInv
    <3>4. KnownOf(z)'
      BY <3>3, KnownKept
    <3> QED
      BY <3>2, <3>4 DEF KnownOf
  <2> QED
    BY <2>1, <2>2
<1> QED
  BY <1>1, <1>2

-----------------------------------------------------------------------------
(* Steps that only concern the actor, or write one operation *)

\* An actor keeps its withdrawal, leaves it, or turns to one that may have been sent.
MayTake(a, x) == \/ x.of = actor[a].of
                 \/ x.of \notin Withdrawals
                 \/ x.of \in Withdrawals /\ ~operation[x.of].notSent

LEMMA ActorInv ==
    ASSUME PayoutInv, NEW a \in Actors, NEW x \in Actor, KnownOf(x), MayTake(a, x),
           actor' = [actor EXCEPT ![a] = x],
           UNCHANGED <<operation, payout, notices, acknowledged, allowed>>
    PROVE  PayoutInv'
<1>1. \A o \in Withdrawals : Onward(o)
  BY SameWithdrawal
<1>2. KnownOf(x)'
  BY <1>1, KnownKept
<1>3. /\ actor' \in [Actors -> Actor]
      /\ \A b \in Actors : KnownOf(actor[b])'
  BY <1>1, <1>2, OthersKnow
<1>4. actor \in [Actors -> Actor]
  BY DEF PayoutInv, PayoutTypes
<1>5. ASSUME NEW o \in Withdrawals PROVE Sound(o)'
  <2>1. operation[o].notSent => Closing(o)'
    BY <1>4 DEF PayoutInv, Sound, Closing, MayTake
  <2> QED
    BY <2>1 DEF PayoutInv, Sound, Unconfirmed, NotLost, GivenUp
<1>6. PayoutTypes' /\ OneSlot'
  BY <1>3 DEF PayoutInv, PayoutTypes, OneSlot
<1> QED
  BY <1>3, <1>5, <1>6 DEF PayoutInv

LEMMA OperationInv ==
    ASSUME PayoutInv, NEW a \in Actors, NEW x \in Actor, NEW o \in Withdrawals,
           NEW new \in Operation, Onward(o), KnownOf(x)', Sound(o)',
           new.slot => operation[o].slot \/ \A other \in Withdrawals : ~operation[other].slot,
           x.of = actor[a].of \/ x.of \notin Withdrawals \/ x.of = o,
           operation' = [operation EXCEPT ![o] = new],
           actor' = [actor EXCEPT ![a] = x],
           UNCHANGED <<payout, notices, acknowledged, allowed>>
    PROVE  PayoutInv'
<1>1. /\ operation \in [Withdrawals -> Operation] /\ actor \in [Actors -> Actor]
      /\ operation' \in [Withdrawals -> Operation]
      /\ operation'[o] = new
      /\ \A other \in Withdrawals \ {o} : operation'[other] = operation[other]
  BY DEF PayoutInv, PayoutTypes
<1>2. \A other \in Withdrawals : Onward(other)
  BY <1>1, SameWithdrawal
<1>3. /\ actor' \in [Actors -> Actor]
      /\ \A b \in Actors : KnownOf(actor[b])'
  BY <1>2, OthersKnow
<1>4. ASSUME NEW other \in Withdrawals PROVE Sound(other)'
  <2>1. CASE other = o
    BY <2>1
  <2>2. CASE other # o
    <3>1. operation[other].notSent => Closing(other)'
      BY <1>1, <2>2 DEF PayoutInv, Sound, Closing
    <3> QED
      BY <1>1, <2>2, <3>1 DEF PayoutInv, Sound, Unconfirmed, NotLost, GivenUp
  <2> QED
    BY <2>1, <2>2
<1>5. PayoutTypes' /\ OneSlot'
  BY <1>1, <1>3 DEF PayoutInv, PayoutTypes, OneSlot
<1> QED
  BY <1>3, <1>4, <1>5 DEF PayoutInv

LEMMA WithdrawalTyped ==
    PayoutInv => /\ \A a \in Actors : actor[a] \in Actor /\ KnownOf(actor[a])
                 /\ \A o \in Withdrawals : operation[o] \in Operation /\ Sound(o)
                 /\ actor \in [Actors -> Actor] /\ operation \in [Withdrawals -> Operation]
BY DEF PayoutInv, PayoutTypes

LEMMA FreeKnown == /\ Free \in Actor /\ Free.of \notin Withdrawals /\ Free.at = "idle"
                   /\ KnownOf(Free) /\ KnownOf(Free)'
BY PayoutAssumption DEF Free, Absent, Actor, Operation, KnownOf

LEMMA StopInv ==
    ASSUME PayoutInv, NEW a \in Actors, Stop(a),
           UNCHANGED <<operation, payout, notices, acknowledged, allowed>>
    PROVE  PayoutInv'
BY ActorInv, FreeKnown DEF Stop, MayTake

LEMMA RefreshInv == ASSUME PayoutInv, NEW a \in Actors, Refresh(a) PROVE PayoutInv'
<1>1. PICK o \in Withdrawals :
        /\ Unconfirmed(o) \/ operation[o].state = "SUBMITTED"
        /\ actor' = [actor EXCEPT ![a] = [Free EXCEPT !.at = "look", !.of = o,
                                                      !.doc = operation[o]]]
  BY DEF Refresh
<1> DEFINE x == [Free EXCEPT !.at = "look", !.of = o, !.doc = operation[o]]
<1>2. operation[o] \in Operation /\ Sound(o)
  BY WithdrawalTyped
<1>3. x \in Actor /\ x.at = "look" /\ x.of = o /\ x.doc = operation[o]
  BY <1>2, FreeKnown DEF Free, Actor
<1>4. operation[o].state = "SUBMITTED" => Rank[operation[o].status] \in Nat
  BY <1>2, RankNat DEF Sound
<1>5. KnownOf(x)
  BY <1>1, <1>2, <1>3, <1>4 DEF KnownOf, Sound, Unconfirmed
<1>6. MayTake(a, x)
  BY <1>1, <1>2, <1>3 DEF MayTake, Unconfirmed, Sound, Closing
<1> HIDE DEF x
<1> QED
  BY <1>1, <1>3, <1>5, <1>6, ActorInv DEF Refresh, x

LEMMA DeliverInv == ASSUME PayoutInv, NEW a \in Actors, Deliver(a) PROVE PayoutInv'
<1>0. PICK o \in Withdrawals : \E s \in notices[o] :
        actor' = [actor EXCEPT ![a] = [at |-> "apply", of |-> o, doc |-> operation[o],
                                       status |-> s, retries |-> MaxRetries]]
  BY DEF Deliver
<1>1. PICK s \in notices[o] :
        actor' = [actor EXCEPT ![a] = [at |-> "apply", of |-> o, doc |-> operation[o],
                                       status |-> s, retries |-> MaxRetries]]
  BY <1>0
<1> DEFINE x == [at |-> "apply", of |-> o, doc |-> operation[o], status |-> s,
                 retries |-> MaxRetries]
<1>2. /\ operation[o] \in Operation /\ Sound(o) /\ s \in Status
      /\ notices[o] # {} /\ payout[o] \in Status
  BY WithdrawalTyped DEF PayoutInv, PayoutTypes, Sound
<1>3. x \in Actor /\ x.at = "apply" /\ x.of = o /\ x.doc = operation[o] /\ x.status = s
  BY <1>2, PayoutAssumption DEF Actor
<1>4. operation[o].state = "SUBMITTED" => Rank[operation[o].status] \in Nat
  BY <1>2, RankNat DEF Sound
<1>5. operation[o].state # "absent"
  BY <1>2 DEF Sound, Status
<1>6. KnownOf(x)
  BY <1>2, <1>3, <1>4, <1>5 DEF KnownOf, Sound
<1>7. MayTake(a, x)
  BY <1>2, <1>3 DEF MayTake, Sound, Closing, Status
<1> HIDE DEF x
<1> QED
  BY <1>1, <1>3, <1>6, <1>7, ActorInv DEF Deliver, x

WithAt(a, at) == [actor[a] EXCEPT !.at = at]
Applying(a, s) == [actor[a] EXCEPT !.at = "apply", !.status = s, !.retries = MaxRetries]

LEMMA Moves1 ==
    ASSUME PayoutInv, NEW a \in Actors
    PROVE  /\ \A at : Move(a, at) => actor' = [actor EXCEPT ![a] = WithAt(a, at)]
           /\ \A s : ToApply(a, s) => actor' = [actor EXCEPT ![a] = Applying(a, s)]
           /\ \A at \in {"dispatch", "send", "refused", "unclear", "reread", "ack"} :
                WithAt(a, at) \in Actor
           /\ \A s \in Status : Applying(a, s) \in Actor
<1>1. actor \in [Actors -> Actor] /\ actor[a] \in Actor
  BY WithdrawalTyped
<1>2. /\ \A at : Move(a, at) => actor' = [actor EXCEPT ![a] = WithAt(a, at)]
      /\ \A s : ToApply(a, s) => actor' = [actor EXCEPT ![a] = Applying(a, s)]
  BY <1>1 DEF Move, WithAt, ToApply, Applying
<1>3. \A at \in {"dispatch", "send", "refused", "unclear", "reread", "ack"} :
        WithAt(a, at) \in Actor
  BY <1>1 DEF WithAt, Actor
<1>4. MaxRetries \in 0..MaxRetries
  BY PayoutAssumption
<1>5. \A s \in Status : Applying(a, s) \in Actor
  BY <1>1, <1>4 DEF Applying, Actor
<1> QED
  BY <1>2, <1>3, <1>5

\* An actor goes on with what it has, to a step that asks no more of the state.
LEMMA MoveInv ==
    ASSUME PayoutInv, NEW a \in Actors, actor[a].at # "idle",
           NEW at \in {"dispatch", "send", "refused", "unclear", "reread", "ack"}, Move(a, at),
           KnownOf(WithAt(a, at)),
           UNCHANGED <<operation, payout, notices, acknowledged, allowed>>
    PROVE  PayoutInv'
<1> DEFINE x == WithAt(a, at)
<1>1. x \in Actor /\ actor' = [actor EXCEPT ![a] = x]
  BY Moves1
<1>2. MayTake(a, x)
  <2>1. actor[a] \in Actor
    BY WithdrawalTyped
  <2> QED
    BY <2>1 DEF MayTake, WithAt, Actor
<1> HIDE DEF x
<1>3. KnownOf(x)
  BY DEF x
<1> QED
  BY <1>1, <1>2, <1>3, ActorInv

LEMMA LookUpInv == ASSUME PayoutInv, NEW a \in Actors, LookUp(a) PROVE PayoutInv'
<1>1. /\ actor[a].at = "look" /\ actor[a] \in Actor /\ KnownOf(actor[a])
      /\ UNCHANGED <<operation, payout, notices, acknowledged, allowed>>
  BY WithdrawalTyped DEF LookUp
<1>2. CASE payout[actor[a].of] \in Status /\ ToApply(a, payout[actor[a].of])
  <2> DEFINE x == Applying(a, payout[actor[a].of])
  <2>1. x \in Actor /\ actor' = [actor EXCEPT ![a] = x]
    BY <1>2, Moves1
  <2>2. /\ x.at = "apply" /\ x.of = actor[a].of /\ x.doc = actor[a].doc
        /\ x.status = payout[actor[a].of]
    BY <1>1 DEF Applying, Actor
  <2>3. KnownOf(x) /\ MayTake(a, x)
    BY <1>1, <1>2, <2>2 DEF KnownOf, MayTake
  <2> HIDE DEF x
  <2> QED
    BY <1>1, <2>1, <2>3, ActorInv
<1>3. CASE Doc(a).state # "SUBMITTED" /\ Move(a, "dispatch")
  <2>1. KnownOf(WithAt(a, "dispatch"))
    BY <1>1 DEF KnownOf, WithAt, Actor
  <2> QED
    BY <1>1, <1>3, <2>1, MoveInv
<1>4. CASE Stop(a)
  BY <1>1, <1>4, StopInv
<1> QED
  BY <1>2, <1>3, <1>4 DEF LookUp

LEMMA RereadInv == ASSUME PayoutInv, NEW a \in Actors, Reread(a) PROVE PayoutInv'
<1> DEFINE o == actor[a].of
<1>1. /\ actor[a].at = "reread" /\ actor[a] \in Actor /\ KnownOf(actor[a])
      /\ actor \in [Actors -> Actor]
      /\ UNCHANGED <<operation, payout, notices, acknowledged, allowed>>
  BY WithdrawalTyped DEF Reread
<1>2. /\ o \in Withdrawals /\ operation[o] \in Operation /\ Sound(o)
      /\ operation[o].state = "SUBMITTED" \/ GivenUp(o)
      /\ actor[a].status \in Status /\ payout[o] \in Status
      /\ operation[o].state = "SUBMITTED" =>
           /\ operation[o].status \in Status
           /\ Rank[operation[o].status] \in Nat /\ Rank[actor[a].status] \in Nat
  BY <1>1, WithdrawalTyped, RankNat DEF KnownOf, Sound
<1>3. CASE ~MustReapply(Stored(a), actor[a].status) /\ Finish(a)
  <2>1. NotLost(o, actor[a].status)
    BY <1>2, <1>3 DEF MustReapply, Stored, NotLost
  <2>2. KnownOf(WithAt(a, "ack"))
    BY <1>1, <1>2, <2>1 DEF KnownOf, WithAt, Actor
  <2> QED
    BY <1>1, <1>3, <2>2, MoveInv, StopInv DEF Finish
<1>4. CASE /\ MustReapply(Stored(a), actor[a].status)
           /\ actor' = [actor EXCEPT ![a].at = "apply", ![a].doc = Stored(a),
                                     ![a].retries = @ - 1] /\ actor[a].retries # 0
  <2> DEFINE x == [actor[a] EXCEPT !.at = "apply", !.doc = Stored(a), !.retries = @ - 1]
  <2>1. actor[a].retries - 1 \in 0..MaxRetries
    BY <1>1, <1>4, PayoutAssumption DEF Actor
  <2>2. /\ x \in Actor /\ x.at = "apply" /\ x.of = o /\ x.doc = operation[o]
        /\ x.status = actor[a].status
    BY <1>1, <1>2, <2>1 DEF Actor, Stored
  <2>3. KnownOf(x) /\ MayTake(a, x)
    BY <1>2, <1>4, <2>2 DEF KnownOf, MayTake, MustReapply, Stored
  <2>4. actor' = [actor EXCEPT ![a] = x]
    BY <1>1, <1>4
  <2> HIDE DEF x
  <2> QED
    BY <1>1, <2>2, <2>3, <2>4, ActorInv
<1>5. CASE Stop(a)
  BY <1>1, <1>5, StopInv
<1> QED
  BY <1>3, <1>4, <1>5 DEF Reread

LEMMA InitiateInv == ASSUME PayoutInv, NEW a \in Actors, Initiate(a) PROVE PayoutInv'
<1> DEFINE new == [Absent EXCEPT !.state = "PREPARED", !.slot = TRUE]
           x(o) == [Free EXCEPT !.at = "dispatch", !.of = o, !.doc = new]
<1>1. PICK o \in Withdrawals :
        /\ operation[o].state = "absent" /\ \A other \in Withdrawals : ~operation[other].slot
        /\ operation' = [operation EXCEPT ![o] = new]
        /\ actor' = [actor EXCEPT ![a] = [Free EXCEPT !.at = "dispatch", !.of = o,
                                                      !.doc = operation'[o]]]
        /\ UNCHANGED <<payout, notices, acknowledged, allowed>>
  BY DEF Initiate, Store
<1>2. operation[o] \in Operation /\ Sound(o) /\ operation \in [Withdrawals -> Operation]
  BY WithdrawalTyped
<1>3. /\ new \in Operation /\ operation'[o] = new /\ new.state = "PREPARED" /\ new.slot
      /\ ~new.sent /\ ~new.notSent
  BY <1>1, <1>2 DEF Absent, Operation
<1>4. /\ x(o) \in Actor /\ x(o).of = o /\ x(o).at = "dispatch" /\ x(o).doc = new
      /\ actor' = [actor EXCEPT ![a] = x(o)]
  BY <1>1, <1>3, FreeKnown DEF Free, Actor
<1>5. Onward(o)
  BY <1>1, <1>2 DEF Onward, Sound, Status, GivenUp
<1> HIDE DEF new, x
<1>6. KnownOf(x(o))'
  BY <1>3, <1>4 DEF KnownOf
<1>7. Sound(o)'
  BY <1>1, <1>2, <1>3 DEF Sound, Unconfirmed, Status, NotLost, GivenUp
<1> QED
  BY <1>1, <1>3, <1>4, <1>5, <1>6, <1>7, OperationInv

LEMMA SendOrBlockInv == ASSUME PayoutInv, NEW a \in Actors, SendOrBlock(a) PROVE PayoutInv'
<1>1. /\ actor[a].at = "dispatch" /\ actor[a] \in Actor /\ KnownOf(actor[a])
      /\ UNCHANGED <<payout, notices, acknowledged, allowed>>
      /\ operation \in [Withdrawals -> Operation] /\ actor \in [Actors -> Actor]
  BY WithdrawalTyped DEF SendOrBlock
<1>2. PICK o \in Withdrawals : o = actor[a].of
  BY <1>1 DEF KnownOf
<1>3. /\ operation[o] \in Operation /\ Sound(o) /\ operation[o].state # "absent"
      /\ operation[o].state = "SUBMITTED" => Rank[operation[o].status] \in Nat
  BY <1>1, <1>2, WithdrawalTyped, RankNat DEF KnownOf, Sound
<1>4. CASE allowed /\ Store(o, [Stored(a) EXCEPT !.sent = TRUE]) /\ Move(a, "send")
  <2>0. PICK new \in Operation : new = [operation[o] EXCEPT !.sent = TRUE]
    BY <1>3 DEF Operation
  <2>1. /\ new.sent /\ new.state = operation[o].state
        /\ new.status = operation[o].status /\ new.slot = operation[o].slot
        /\ new.notSent = operation[o].notSent
    BY <1>3, <2>0 DEF Operation
  <2>2. operation' = [operation EXCEPT ![o] = new] /\ operation'[o] = new
    BY <1>1, <1>2, <1>4, <2>0 DEF Store, Stored
  <2>3. PICK x \in Actor : x = WithAt(a, "send")
    BY Moves1
  <2>4. /\ actor' = [actor EXCEPT ![a] = x]
        /\ x.at = "send" /\ x.of = o /\ x.doc = actor[a].doc
    <3>1. actor' = [actor EXCEPT ![a] = x]
      BY <1>4, <2>3, Moves1
    <3> QED
      BY <1>1, <1>2, <2>3, <3>1 DEF WithAt, Actor
  <2>5. Onward(o)
    BY <1>1, <1>3, <2>1, <2>2 DEF Onward, Sound, GivenUp
  <2>6. KnownOf(x)'
    BY <1>1, <1>2, <1>3, <2>1, <2>2, <2>4 DEF KnownOf
  <2>7. Sound(o)'
    <3>1. ~operation[o].notSent
      BY <1>2, <1>3, <1>4 DEF Sound, Closing
    <3> QED
      BY <1>1, <1>3, <2>1, <2>2, <3>1 DEF Sound, Unconfirmed, NotLost, GivenUp
  <2> QED
    BY <1>1, <1>2, <2>1, <2>2, <2>4, <2>5, <2>6, <2>7, OperationInv
<1>5. CASE /\ ~allowed /\ Stored(a).state = "PREPARED" /\ NeverSent(Stored(a))
           /\ operation' = [operation EXCEPT ![o] = Closed(@, TRUE)] /\ Stop(a)
  <2>1. PICK new \in Operation : new = Closed(operation[o], TRUE)
    BY <1>3 DEF Operation, Closed
  <2>2. /\ ~new.sent /\ new.state = "REJECTED" /\ ~new.slot
        /\ ~operation[o].sent /\ operation[o].state = "PREPARED"
    BY <1>2, <1>3, <1>5, <2>1 DEF Operation, Closed, NeverSent, Stored
  <2>3. operation' = [operation EXCEPT ![o] = new] /\ operation'[o] = new
    BY <1>1, <1>5, <2>1
  <2>4. Free \in Actor /\ actor' = [actor EXCEPT ![a] = Free]
    BY <1>5, FreeKnown DEF Stop
  <2>5. Onward(o)
    BY <1>1, <2>2, <2>3 DEF Onward, GivenUp
  <2>6. Sound(o)'
    BY <1>1, <1>3, <1>5, <2>2, <2>3 DEF Sound, Unconfirmed, Closing, NotLost, GivenUp
  <2> QED
    BY <1>1, <2>2, <2>3, <2>4, <2>5, <2>6, FreeKnown, OperationInv
<1>6. CASE Stop(a) /\ UNCHANGED operation
  BY <1>1, <1>6, StopInv
<1> QED
  BY <1>2, <1>4, <1>5, <1>6 DEF SendOrBlock

LEMMA RecordFailureInv == ASSUME PayoutInv, NEW a \in Actors, RecordFailure(a) PROVE PayoutInv'
<1>1. /\ actor[a].at \in {"refused", "unclear"} /\ actor[a] \in Actor /\ KnownOf(actor[a])
      /\ UNCHANGED <<payout, notices, acknowledged, allowed>> /\ Stop(a)
      /\ operation \in [Withdrawals -> Operation] /\ actor \in [Actors -> Actor]
  BY WithdrawalTyped DEF RecordFailure
<1>2. PICK o \in Withdrawals : o = actor[a].of
  BY <1>1 DEF KnownOf
<1>3. operation[o] \in Operation /\ Sound(o)
  BY <1>1, <1>2, WithdrawalTyped
<1>4. CASE ~Unconfirmed(o)
  BY <1>1, <1>2, <1>4, StopInv DEF RecordFailure
<1>5. CASE Unconfirmed(o)
  <2>1. PICK new \in Operation :
          new = IF actor[a].at = "refused" THEN Closed(operation[o], FALSE)
                ELSE [operation[o] EXCEPT !.state = "UNKNOWN"]
    BY <1>3 DEF Operation, Closed
  <2>2. /\ new.sent = operation[o].sent /\ ~new.notSent
        /\ \/ new.state = "REJECTED" /\ ~new.slot
           \/ new.state = "UNKNOWN" /\ new.slot = operation[o].slot
    BY <1>1, <1>3, <1>5, <2>1 DEF Operation, Closed, Sound, Closing, Unconfirmed
  <2>3. operation' = [operation EXCEPT ![o] = new] /\ operation'[o] = new
    BY <1>1, <1>2, <1>5, <2>1 DEF RecordFailure
  <2>4. Free \in Actor /\ actor' = [actor EXCEPT ![a] = Free]
    BY <1>1, FreeKnown DEF Stop
  <2>5. Onward(o)
    BY <1>1, <1>5, <2>2, <2>3 DEF Onward, Unconfirmed, GivenUp
  <2>6. Sound(o)'
    BY <1>1, <1>3, <1>5, <2>2, <2>3 DEF Sound, Unconfirmed, NotLost, GivenUp
  <2> QED
    BY <1>1, <2>2, <2>3, <2>4, <2>5, <2>6, FreeKnown, OperationInv
<1> QED
  BY <1>4, <1>5

LEMMA ApplyInv == ASSUME PayoutInv, NEW a \in Actors, Apply(a) PROVE PayoutInv'
<1>1. /\ actor[a].at = "apply" /\ actor[a] \in Actor /\ KnownOf(actor[a])
      /\ UNCHANGED <<payout, notices, acknowledged, allowed>>
      /\ operation \in [Withdrawals -> Operation] /\ actor \in [Actors -> Actor]
  BY WithdrawalTyped DEF Apply
<1>2. PICK o \in Withdrawals, s \in Status, doc \in Operation :
        o = actor[a].of /\ s = actor[a].status /\ doc = actor[a].doc
  BY <1>1 DEF KnownOf, Actor
<1>3. /\ operation[o] \in Operation /\ Sound(o)
      /\ operation[o].state # "absent" /\ payout[o] \in Status
      /\ ~operation[o].notSent /\ Rank[s] \in Nat
      /\ operation[o].state = "SUBMITTED" => Rank[operation[o].status] \in Nat
      /\ doc.state = "SUBMITTED" =>
           /\ operation[o].state = "SUBMITTED" /\ doc.status \in Status
           /\ Rank[operation[o].status] >= Rank[doc.status] /\ Rank[doc.status] \in Nat
  BY <1>1, <1>2, WithdrawalTyped, RankNat DEF KnownOf, Sound, Closing, Status
<1>4. CASE Outdated(doc, s) /\ Finish(a) /\ UNCHANGED operation
  <2>1. NotLost(o, s)
    BY <1>3, <1>4 DEF Outdated, NotLost
  <2>2. KnownOf(WithAt(a, "ack"))
    BY <1>1, <1>2, <1>3, <2>1 DEF KnownOf, WithAt, Actor
  <2> QED
    BY <1>1, <1>4, <2>2, MoveInv, StopInv DEF Finish
<1>5. CASE /\ ~Outdated(doc, s) /\ ~MayApply(operation[o], doc)
           /\ Move(a, "reread") /\ UNCHANGED operation
  <2>1. operation[o].state = "SUBMITTED" \/ GivenUp(o)
    BY <1>3, <1>5 DEF MayApply, Operation, GivenUp
  <2>2. KnownOf(WithAt(a, "reread"))
    BY <1>1, <1>2, <1>3, <2>1 DEF KnownOf, WithAt, Actor
  <2> QED
    BY <1>1, <1>5, <2>2, MoveInv
<1>6. CASE /\ ~Outdated(doc, s) /\ MayApply(operation[o], doc) /\ Finish(a)
           /\ Store(o, [operation[o] EXCEPT !.state = "SUBMITTED", !.status = s,
                                            !.slot = FALSE])
  <2>1. PICK new \in Operation :
          new = [operation[o] EXCEPT !.state = "SUBMITTED", !.status = s, !.slot = FALSE]
    BY <1>3 DEF Operation
  <2>2. /\ new.sent = operation[o].sent /\ new.state = "SUBMITTED"
        /\ new.status = s /\ ~new.slot /\ ~new.notSent /\ operation[o].state # "REJECTED"
    BY <1>3, <1>6, <2>1 DEF Operation, MayApply
  <2>3. operation' = [operation EXCEPT ![o] = new] /\ operation'[o] = new
    BY <1>1, <1>6, <2>1 DEF Store
  <2>4. operation[o].state = "SUBMITTED" => Rank[operation[o].status] <= Rank[s]
    BY <1>3, <1>6 DEF MayApply, Outdated
  <2>5. Onward(o)
    BY <1>1, <1>3, <2>2, <2>3, <2>4 DEF Onward, GivenUp
  <2>6. Sound(o)'
    <3>1. \A t \in acknowledged[o] : operation[o].state = "SUBMITTED" /\ Rank[s] >= Rank[t]
      <4> TAKE t \in acknowledged[o]
      <4>1. /\ operation[o].state = "SUBMITTED" /\ Rank[operation[o].status] >= Rank[t]
            /\ t \in Status
        BY <1>3, <2>2 DEF Sound, PayoutInv, PayoutTypes, NotLost, GivenUp
      <4>2. Rank[t] \in Nat
        BY <4>1, RankNat
      <4> QED
        BY <1>3, <2>4, <4>1, <4>2
    <3> QED
      BY <1>1, <1>3, <2>2, <2>3, <3>1 DEF Sound, Unconfirmed, NotLost
  <2>7. CASE Stop(a)
    <3>1. Free \in Actor /\ actor' = [actor EXCEPT ![a] = Free]
      BY <2>7, FreeKnown DEF Stop
    <3> QED
      BY <1>1, <2>2, <2>3, <2>5, <2>6, <3>1, FreeKnown, OperationInv
  <2>8. CASE Move(a, "ack")
    <3>1. PICK x \in Actor : x = WithAt(a, "ack")
      BY Moves1
    <3>2. /\ actor' = [actor EXCEPT ![a] = x]
          /\ x.at = "ack" /\ x.of = o /\ x.doc = doc /\ x.status = s
      <4>1. actor' = [actor EXCEPT ![a] = x]
        BY <2>8, <3>1, Moves1
      <4> QED
        BY <1>1, <1>2, <3>1, <4>1 DEF WithAt, Actor
    <3>3. doc.state = "SUBMITTED" => Rank[s] >= Rank[doc.status]
      BY <1>3, <2>4
    <3>4. KnownOf(x)'
      BY <1>1, <1>3, <2>2, <2>3, <3>2, <3>3 DEF KnownOf, NotLost
    <3> QED
      BY <1>1, <1>2, <2>2, <2>3, <2>5, <2>6, <3>2, <3>4, OperationInv
  <2> QED
    BY <1>6, <2>7, <2>8 DEF Finish
<1> QED
  BY <1>2, <1>4, <1>5, <1>6 DEF Apply, Stored, Doc

-----------------------------------------------------------------------------
(* Stripe's side *)

\* Stripe's record and its notices change for o, and a goes on.
LEMMA StripeInv ==
    ASSUME PayoutInv, NEW o \in Withdrawals, \A other \in Withdrawals : Onward(other),
           operation[o].sent, NEW status \in Status, NEW news \in SUBSET Status,
           payout' = [payout EXCEPT ![o] = status], notices' = [notices EXCEPT ![o] = news],
           UNCHANGED <<operation, acknowledged, allowed>>,
           actor' \in [Actors -> Actor], \A b \in Actors : KnownOf(actor[b])',
           \A b \in Actors : actor'[b].of = actor[b].of \/ actor'[b].of \notin Withdrawals
    PROVE  PayoutInv'
<1>1. /\ payout \in [Withdrawals -> Status \cup {"none"}]
      /\ notices \in [Withdrawals -> SUBSET Status]
  BY DEF PayoutInv, PayoutTypes
<1>2. /\ payout'[o] = status /\ notices'[o] = news
      /\ \A other \in Withdrawals \ {o} : /\ payout'[other] = payout[other]
                                          /\ notices'[other] = notices[other]
  BY <1>1
<1>3. PayoutTypes' /\ OneSlot'
  BY <1>1 DEF PayoutInv, PayoutTypes, OneSlot
<1>4. ASSUME NEW other \in Withdrawals PROVE Sound(other)'
  <2>1. Sound(other) /\ Onward(other)
    BY DEF PayoutInv
  <2>2. operation[other].notSent => Closing(other)'
    BY <1>2, <2>1 DEF Sound, Closing
  <2>3. notices'[other] # {} => payout'[other] \in Status
    BY <1>2, <2>1 DEF Sound
  <2>4. ~operation[other].sent => payout'[other] = "none"
    BY <1>2, <2>1 DEF Sound
  <2> QED
    BY <2>1, <2>2, <2>3, <2>4 DEF Sound, Unconfirmed, NotLost, GivenUp
<1> QED
  BY <1>3, <1>4 DEF PayoutInv

LEMMA CreatePayoutInv == ASSUME PayoutInv, NEW a \in Actors, CreatePayout(a) PROVE PayoutInv'
<1>1. /\ actor[a].at = "send" /\ actor[a] \in Actor /\ KnownOf(actor[a])
      /\ UNCHANGED <<operation, acknowledged, allowed>>
      /\ actor \in [Actors -> Actor]
      /\ payout \in [Withdrawals -> Status \cup {"none"}]
  BY WithdrawalTyped DEF CreatePayout, PayoutInv, PayoutTypes
<1>2. PICK o \in Withdrawals : o = actor[a].of
  BY <1>1 DEF KnownOf
<1>3. operation[o].sent /\ operation[o].state # "absent"
  BY <1>1, <1>2 DEF KnownOf
\* How a goes on, whatever Stripe did.
<1>4. PICK x \in Actor :
        /\ actor' = [actor EXCEPT ![a] = x] /\ x.of = o /\ x.doc = actor[a].doc
        /\ \/ x.at = "apply" /\ x.status \in Status /\ payout'[o] \in Status
           \/ x.at \in {"refused", "unclear"}
  <2>1. CASE payout'[o] \in Status /\ ToApply(a, "pending")
    <3>1. "pending" \in Status
      BY DEF Status
    <3>2. /\ Applying(a, "pending") \in Actor
          /\ actor' = [actor EXCEPT ![a] = Applying(a, "pending")]
      BY <2>1, <3>1, Moves1
    <3>3. /\ Applying(a, "pending").at = "apply" /\ Applying(a, "pending").of = o
          /\ Applying(a, "pending").doc = actor[a].doc
          /\ Applying(a, "pending").status = "pending"
      BY <1>1, <1>2 DEF Applying, Actor
    <3> QED
      BY <2>1, <3>1, <3>2, <3>3
  <2>2. ASSUME NEW at \in {"refused", "unclear"}, Move(a, at)
        PROVE  \E x \in Actor :
                 /\ actor' = [actor EXCEPT ![a] = x] /\ x.of = o /\ x.doc = actor[a].doc
                 /\ x.at \in {"refused", "unclear"}
    <3>1. WithAt(a, at) \in Actor /\ actor' = [actor EXCEPT ![a] = WithAt(a, at)]
      BY <2>2, Moves1
    <3>2. /\ WithAt(a, at).at = at /\ WithAt(a, at).of = o
          /\ WithAt(a, at).doc = actor[a].doc
      BY <1>1, <1>2 DEF WithAt, Actor
    <3> QED
      BY <3>1, <3>2
  <2> QED
    BY <1>2, <2>1, <2>2 DEF CreatePayout
<1>5. CASE UNCHANGED <<payout, notices>>
  <2>1. KnownOf(x)
    BY <1>1, <1>2, <1>3, <1>4, <1>5 DEF KnownOf
  <2>2. MayTake(a, x)
    BY <1>2, <1>4 DEF MayTake
  <2> QED
    BY <1>1, <1>4, <1>5, <2>1, <2>2, ActorInv
<1>6. CASE /\ payout[o] = "none"
           /\ payout' = [payout EXCEPT ![o] = "pending"]
           /\ notices' = [notices EXCEPT ![o] = {"pending"}]
  <2>1. "pending" \in Status /\ {"pending"} \in SUBSET Status /\ payout[o] \notin Status
    BY <1>6 DEF Status
  <2>2. \A other \in Withdrawals : payout[other] \in Status => payout'[other] \in Status
    BY <1>1, <1>6, <2>1
  <2>3. \A other \in Withdrawals : Onward(other)
    BY <1>1, <2>2, SameWithdrawal
  <2>4. KnownOf(x)'
    BY <1>1, <1>2, <1>3, <1>4 DEF KnownOf
  <2>5. /\ actor' \in [Actors -> Actor] /\ \A b \in Actors : KnownOf(actor[b])'
        /\ \A b \in Actors : actor'[b].of = actor[b].of \/ actor'[b].of \notin Withdrawals
    BY <1>1, <1>2, <1>4, <2>3, <2>4, OthersKnow
  <2> QED
    BY <1>1, <1>3, <1>6, <2>1, <2>3, <2>5, StripeInv
<1> QED
  BY <1>2, <1>5, <1>6 DEF CreatePayout

LEMMA ProgressInv == ASSUME PayoutInv, NEW o \in Withdrawals, Progress(o) PROVE PayoutInv'
<1>1. PICK s \in Moves(payout[o]) \cap Lifecycle[o] :
        /\ payout' = [payout EXCEPT ![o] = s]
        /\ notices' = [notices EXCEPT ![o] = @ \cup {s}]
        /\ UNCHANGED <<operation, acknowledged, actor, allowed>>
  BY DEF Progress
<1>2. /\ payout \in [Withdrawals -> Status \cup {"none"}]
      /\ notices \in [Withdrawals -> SUBSET Status] /\ actor \in [Actors -> Actor] /\ Sound(o)
  BY DEF PayoutInv, PayoutTypes
<1>3. s \in Status /\ payout[o] \in Status
  BY <1>1 DEF Moves, Status
<1>4. payout'[o] = s /\ \A other \in Withdrawals \ {o} : payout'[other] = payout[other]
  BY <1>1, <1>2
<1>5. ASSUME NEW other \in Withdrawals PROVE Onward(other)
  BY <1>1, <1>3, <1>4, SameWithdrawal DEF Status
<1>6. operation[o].sent
  BY <1>2, <1>3 DEF Sound, Status
<1>7. ASSUME NEW b \in Actors PROVE KnownOf(actor[b])'
  <2>1. PICK z \in Actor : z = actor[b] /\ actor'[b] = z
    BY <1>1, <1>2
  <2>2. KnownOf(z)
    BY <2>1 DEF PayoutInv
  <2>3. KnownOf(z)'
    BY <1>5, <2>2, KnownKept
  <2> QED
    BY <2>1, <2>3 DEF KnownOf
<1>8. notices[o] \cup {s} \in SUBSET Status
  BY <1>2, <1>3
<1> QED
  BY <1>1, <1>2, <1>3, <1>5, <1>6, <1>7, <1>8, StripeInv

LEMMA AcknowledgeInv == ASSUME PayoutInv, NEW a \in Actors, Acknowledge(a) PROVE PayoutInv'
<1>1. /\ actor[a].at = "ack" /\ actor[a] \in Actor /\ KnownOf(actor[a])
      /\ Stop(a) /\ UNCHANGED <<operation, payout, allowed>>
  BY WithdrawalTyped DEF Acknowledge
<1>2. PICK o \in Withdrawals, s \in Status :
        /\ o = actor[a].of /\ s = actor[a].status
        /\ NotLost(o, s)
        /\ acknowledged' = [acknowledged EXCEPT ![o] = @ \cup {s}]
        /\ notices' = [notices EXCEPT ![o] = @ \ {s}]
  BY <1>1 DEF KnownOf, Acknowledge
<1>3. /\ acknowledged \in [Withdrawals -> SUBSET Status]
      /\ notices \in [Withdrawals -> SUBSET Status] /\ actor \in [Actors -> Actor]
  BY DEF PayoutInv, PayoutTypes
<1>4. /\ \A other \in Withdrawals : Onward(other)
      /\ Free \in Actor /\ actor' = [actor EXCEPT ![a] = Free]
  BY <1>1, SameWithdrawal, FreeKnown DEF Stop
<1>5. actor' \in [Actors -> Actor] /\ \A b \in Actors : KnownOf(actor[b])'
  BY <1>4, FreeKnown, OthersKnow
<1>6. PayoutTypes' /\ OneSlot'
  BY <1>1, <1>2, <1>3, <1>5 DEF PayoutInv, PayoutTypes, OneSlot
<1>7. ASSUME NEW other \in Withdrawals PROVE Sound(other)'
  <2>1. Sound(other)
    BY DEF PayoutInv
  <2>2. operation[other].notSent => Closing(other)'
    BY <1>1, <1>3, <1>4, <2>1, FreeKnown DEF Sound, Closing
  <2>3. notices'[other] # {} => payout'[other] \in Status
    BY <1>1, <1>2, <1>3, <2>1 DEF Sound
  <2>4. \A t \in acknowledged'[other] : NotLost(other, t)
    BY <1>2, <1>3, <2>1 DEF Sound
  <2> QED
    BY <1>1, <2>1, <2>2, <2>3, <2>4 DEF Sound, Unconfirmed, NotLost, GivenUp
<1> QED
  BY <1>5, <1>6, <1>7 DEF PayoutInv

LEMMA RestartInv == ASSUME PayoutInv, Restart PROVE PayoutInv'
<1>1. /\ actor' = [a \in Actors |-> Free] /\ allowed' \in BOOLEAN
      /\ UNCHANGED <<operation, payout, notices, acknowledged>>
  BY DEF Restart, Actors
<1>2. \A b \in Actors : KnownOf(actor[b])' /\ actor'[b].of \notin Withdrawals
  BY <1>1, FreeKnown DEF KnownOf
<1>3. PayoutTypes' /\ OneSlot'
  BY <1>1, FreeKnown DEF PayoutInv, PayoutTypes, OneSlot
<1>4. ASSUME NEW o \in Withdrawals PROVE Sound(o)'
  BY <1>1, <1>2 DEF PayoutInv, Sound, Closing, Unconfirmed, NotLost, GivenUp
<1> QED
  BY <1>2, <1>3, <1>4 DEF PayoutInv

-----------------------------------------------------------------------------
LEMMA PayoutInitInv == PayoutInit => PayoutInv
<1> SUFFICES ASSUME PayoutInit PROVE PayoutInv
  OBVIOUS
<1>1. /\ Absent \in Operation /\ Absent.state = "absent" /\ ~Absent.slot /\ ~Absent.sent
      /\ ~Absent.notSent
  BY DEF Absent, Operation
<1>2. PayoutTypes /\ OneSlot
  BY <1>1, FreeKnown DEF PayoutInit, PayoutTypes, OneSlot, Actors
<1>3. ASSUME NEW o \in Withdrawals PROVE Sound(o)
  BY <1>1 DEF PayoutInit, Sound, Unconfirmed
<1>4. ASSUME NEW a \in Actors PROVE KnownOf(actor[a])
  BY FreeKnown DEF PayoutInit, KnownOf, Actors
<1> QED
  BY <1>2, <1>3, <1>4 DEF PayoutInv

LEMMA PayoutStep == PayoutInv /\ [PayoutNext]_payoutVars => PayoutInv'
<1> SUFFICES ASSUME PayoutInv, [PayoutNext]_payoutVars PROVE PayoutInv'
  OBVIOUS
<1>1. CASE UNCHANGED payoutVars
  BY <1>1
  DEF payoutVars, PayoutInv, PayoutTypes, OneSlot, Sound, Closing, Unconfirmed, KnownOf, NotLost, GivenUp
<1>2. ASSUME NEW a \in Admins, Initiate(a) \/ Refresh(a) \/ LookUp(a) PROVE PayoutInv'
  BY <1>2, InitiateInv, RefreshInv, LookUpInv DEF Actors
<1>3. ASSUME NEW a \in Deliveries, Deliver(a) PROVE PayoutInv'
  BY <1>3, DeliverInv DEF Actors
<1>4. ASSUME NEW a \in Admins \cup Deliveries, Act(a) PROVE PayoutInv'
  <2>1. a \in Actors
    BY DEF Actors
  <2> QED
    BY <1>4, <2>1, SendOrBlockInv, CreatePayoutInv, RecordFailureInv, ApplyInv, RereadInv,
       AcknowledgeInv
    DEF Act
<1>5. ASSUME NEW o \in Withdrawals, Progress(o) PROVE PayoutInv'
  BY <1>5, ProgressInv
<1>6. CASE Restart
  BY <1>6, RestartInv
<1> QED
  BY <1>1, <1>2, <1>3, <1>4, <1>5, <1>6 DEF PayoutNext

LEMMA PayoutInvariance == PayoutSpec => []PayoutInv
BY PayoutInitInv, PayoutStep, PTL DEF PayoutSpec

\* The documents have their types, and at most one withdrawal, an unconfirmed one, has
\* the slot.
THEOREM PayoutsTyped == PayoutSpec => []PayoutTypeOK
BY PayoutInvariance, Implied, PTL

\* A withdrawal the program closed as not sent is not paid by Stripe, also not by a call
\* still under way.
THEOREM NotSentIsUnpaid == PayoutSpec => []NotSentUnpaid
BY PayoutInvariance, Implied, PTL

\* What the program acknowledged to Stripe is stored and never overwritten by something
\* older, unless a refusal closed the withdrawal.
THEOREM AcknowledgedIsKept == PayoutSpec => []AcknowledgedKept
BY PayoutInvariance, Implied, PTL

-----------------------------------------------------------------------------
Forward(o) ==
    /\ operation[o].state \in {"SUBMITTED", "REJECTED"} => operation'[o].state = operation[o].state
    /\ operation[o].state = "SUBMITTED"
         => Rank[operation[o].status] <= Rank[operation'[o].status]

LEMMA UnwrittenForward == ASSUME PayoutInv, NEW o \in Withdrawals,
                          \/ operation'[o] = operation[o]
                          \/ operation[o].state \notin {"SUBMITTED", "REJECTED"}
                          \/ /\ operation'[o].state = operation[o].state
                             /\ operation'[o].status = operation[o].status
                   PROVE  Forward(o)
<1>1. operation[o].state = "SUBMITTED" => Rank[operation[o].status] \in Nat
  BY WithdrawalTyped, RankNat DEF Sound
<1> QED
  BY <1>1 DEF Forward

LEMMA ForwardStep == ASSUME PayoutInv, PayoutNext, NEW o \in Withdrawals PROVE Forward(o)
<1>1. operation \in [Withdrawals -> Operation] /\ operation[o] \in Operation
  BY WithdrawalTyped
<1>2. ASSUME NEW a \in Admins, Initiate(a) PROVE Forward(o)
  <2>1. \/ operation'[o] = operation[o]
        \/ operation[o].state = "absent"
    BY <1>1, <1>2 DEF Initiate, Store
  <2> QED
    BY <2>1, UnwrittenForward
<1>3. ASSUME NEW a \in Actors, SendOrBlock(a) PROVE Forward(o)
  <2>1. \/ operation' = [operation EXCEPT ![actor[a].of] =
                          [operation[actor[a].of] EXCEPT !.sent = TRUE]]
        \/ /\ operation' = [operation EXCEPT ![actor[a].of] = Closed(@, TRUE)]
           /\ operation[actor[a].of].state = "PREPARED"
        \/ operation' = operation
    BY <1>3 DEF SendOrBlock, Store, Stored
  <2>2. \/ operation'[o] = operation[o]
        \/ operation[o].state = "PREPARED"
        \/ /\ operation'[o].state = operation[o].state
           /\ operation'[o].status = operation[o].status
    <3>1. CASE operation' = [operation EXCEPT ![actor[a].of] =
                               [operation[actor[a].of] EXCEPT !.sent = TRUE]]
      <4>1. \/ operation'[o] = operation[o]
            \/ operation'[o] = [operation[o] EXCEPT !.sent = TRUE]
        BY <1>1, <3>1
      <4> QED
        BY <1>1, <4>1 DEF Operation
    <3> QED
      BY <1>1, <2>1, <3>1
  <2> QED
    BY <2>2, UnwrittenForward
<1>4. ASSUME NEW a \in Actors, RecordFailure(a) PROVE Forward(o)
  <2>1. operation'[o] = operation[o] \/ Unconfirmed(o)
    BY <1>1, <1>4 DEF RecordFailure
  <2> QED
    BY <2>1, UnwrittenForward DEF Unconfirmed
<1>5. ASSUME NEW a \in Actors, Apply(a) PROVE Forward(o)
  <2>1. actor[a].at = "apply" /\ actor[a] \in Actor /\ KnownOf(actor[a])
    BY <1>5, WithdrawalTyped DEF Apply
  <2>2. CASE operation'[o] = operation[o]
    BY <2>2, UnwrittenForward
  <2>3. CASE operation'[o] # operation[o]
    <3>1. o = actor[a].of /\ ~Outdated(Doc(a), actor[a].status) /\ MayApply(operation[o], Doc(a))
          /\ operation'[o] = [operation[o] EXCEPT !.state = "SUBMITTED",
                                                  !.status = actor[a].status, !.slot = FALSE]
      BY <1>1, <1>5, <2>3 DEF Apply, Store, Stored
    <3>2. operation'[o].state = "SUBMITTED" /\ operation'[o].status = actor[a].status
      BY <1>1, <3>1 DEF Operation
    <3>3. /\ actor[a].status \in Status
          /\ Doc(a).state = "SUBMITTED" => Doc(a).status \in Status
      BY <2>1 DEF KnownOf, Doc
    <3>4. /\ Rank[actor[a].status] \in Nat
          /\ Doc(a).state = "SUBMITTED" => Rank[Doc(a).status] \in Nat
      BY <3>3, RankNat
    <3> QED
      BY <3>1, <3>2, <3>4 DEF MayApply, Outdated, Forward
  <2> QED
    BY <2>2, <2>3
<1>6. ASSUME UNCHANGED operation PROVE Forward(o)
  BY <1>6, UnwrittenForward
<1>7. ASSUME NEW a \in Actors, CreatePayout(a) \/ Reread(a) \/ Acknowledge(a)
      PROVE UNCHANGED operation
  BY <1>7 DEF CreatePayout, Reread, Acknowledge
<1>8. ASSUME NEW a \in Admins \cup Deliveries, Act(a) PROVE Forward(o)
  BY <1>3, <1>4, <1>5, <1>6, <1>7, <1>8 DEF Act, Actors
<1>9. ASSUME \/ \E a \in Admins : Refresh(a) \/ LookUp(a)
             \/ \E a \in Deliveries : Deliver(a)
             \/ \E other \in Withdrawals : Progress(other)
             \/ Restart
      PROVE  Forward(o)
  BY <1>6, <1>9 DEF Refresh, LookUp, Deliver, Progress, Restart
<1> QED
  BY <1>2, <1>8, <1>9 DEF PayoutNext

\* A stored status never goes back and a final decision stays.
THEOREM StatusNeverBack == PayoutSpec => StatusForward
<1>1. PayoutInv /\ [PayoutNext]_payoutVars =>
        [\A o \in Withdrawals :
           /\ operation[o].state \in {"SUBMITTED", "REJECTED"}
                => operation'[o].state = operation[o].state
           /\ operation[o].state = "SUBMITTED"
                => Rank[operation[o].status] <= Rank[operation'[o].status]]_payoutVars
  BY ForwardStep DEF Forward
<1> QED
  BY <1>1, PayoutInvariance, PTL DEF PayoutSpec, StatusForward

-----------------------------------------------------------------------------
(* Appointment reminders *)
\* One reminder: its types, that each channel has one message at most, and
\* that a decision is final, for any runners, addresses and attempts.  A
\* runner works on with what it read of a row that others may have taken;
\* what it read of an address stays true, and what it writes on the row
\* asks for the claim, under which nobody else has decided anything.

RunnerSteps == {"idle", "check", "skip", "close", "channel", "recheck", "freeze", "enqueue",
                "record", "release"}
RunnerState == [at : RunnerSteps, left : SUBSET Channels,
                seen : [Channels -> Addresses \cup {Unset}], to : Addresses \cup {Unset},
                decides : Decision, enqueued : BOOLEAN, failed : BOOLEAN]

\* A message goes to the address on the row only, which never changes; a decision to
\* have sent it tells the truth; the row that is not there has decided nothing.
RowAndOutbox ==
    /\ \A ch \in Channels :
         /\ outbox[ch] \subseteq {reminder.frozen[ch]}
         /\ reminder.decision[ch] = "ENQUEUED" => outbox[ch] = {reminder.frozen[ch]}
    /\ reminder.status = "absent" => Undecided(reminder) = Channels

\* What the runner may rely on, however long ago its claim was taken by another.
Relies(p) ==
    /\ \A ch \in Channels :
         runner[p].seen[ch] # Unset => reminder.frozen[ch] = runner[p].seen[ch]
    /\ Does(p, "recheck") => "email" \notin runner[p].left
    /\ Does(p, "recheck") \/ Does(p, "freeze") =>
         /\ runner[p].to \in Addresses
         /\ runner[p].seen[Channel(p)] # Unset => runner[p].to = runner[p].seen[Channel(p)]
    /\ Does(p, "enqueue") =>
         runner[p].to \in Addresses /\ reminder.frozen[Channel(p)] = runner[p].to
    /\ Does(p, "record") /\ runner[p].decides = "ENQUEUED" =>
         outbox[Channel(p)] = {reminder.frozen[Channel(p)]}
    /\ Does(p, "skip") => runner[p].left = Channels

\* Under its claim the channels a runner has before it are undecided.
HoldsOpen(p) == HoldsReminder(p) => runner[p].left \subseteq Undecided(reminder)

ReminderInv == /\ ReminderTypeOK /\ runner \in [Runners -> RunnerState]
               /\ RowAndOutbox
               /\ \A p \in Runners : Relies(p) /\ HoldsOpen(p)
Unread == [ch \in Channels |-> Unset]

LEMMA RestTyped == Rest \in RunnerState /\ Rest.at = "idle" /\ Rest.left = {} /\ Rest.seen = Unread
BY DEF Rest, RunnerState, RunnerSteps, Decision, Channels, Unread

LEMMA ChannelTyped == \A p \in Runners : Channel(p) \in Channels
BY DEF Channel, Channels

\* A runner that does nothing keeps what it relies on: the address on the row is set
\* once, messages stay, and nobody decides a channel under another's claim.
LEMMA StillRelies ==
    ASSUME ReminderInv, NEW q \in Runners, runner'[q] = runner[q], RowAndOutbox',
           \A ch \in Channels : /\ reminder.frozen[ch] # Unset
                                      => reminder'.frozen[ch] = reminder.frozen[ch]
                                /\ outbox[ch] \subseteq outbox'[ch],
           HoldsReminder(q)' =>
               HoldsReminder(q) /\ Undecided(reminder) \subseteq Undecided(reminder')
    PROVE  Relies(q)' /\ HoldsOpen(q)'
<1>0. Relies(q) /\ HoldsOpen(q) /\ Channel(q)' = Channel(q) /\ Channel(q) \in Channels
      /\ Unset \notin Addresses
  BY ChannelTyped, ReminderAssumption DEF ReminderInv, Channel
<1>1. Does(q, "record")' /\ runner'[q].decides = "ENQUEUED"
        => outbox'[Channel(q)] = {reminder'.frozen[Channel(q)]}
  <2> SUFFICES ASSUME Does(q, "record"), runner[q].decides = "ENQUEUED"
               PROVE  outbox'[Channel(q)] = {reminder'.frozen[Channel(q)]}
    BY DEF Does
  <2>1. outbox[Channel(q)] = {reminder.frozen[Channel(q)]}
    BY <1>0 DEF Relies
  <2> QED
    BY <1>0, <2>1 DEF RowAndOutbox
<1>2. HoldsOpen(q)'
  BY <1>0 DEF HoldsOpen
<1>3. ASSUME NEW ch \in Channels, runner[q].seen[ch] # Unset
      PROVE  reminder'.frozen[ch] = runner[q].seen[ch]
  BY <1>0, <1>3 DEF Relies
<1>4. Does(q, "enqueue") => reminder'.frozen[Channel(q)] = runner[q].to
  BY <1>0 DEF Relies
<1> QED
  BY <1>0, <1>1, <1>2, <1>3, <1>4 DEF Relies, Does

\* A step of the booking or of time: it leaves the runners and the outboxes alone, and
\* whoever holds the claim afterwards held it before, over a row as undecided.
LEMMA RowInv ==
    ASSUME ReminderInv, UNCHANGED <<kind, outbox, runner>>,
           appointment' \in {"none", "here", "elsewhere", "over"},
           reminder' \in Reminder, reminder'.frozen = reminder.frozen,
           reminder'.claimedBy # Unset <=> reminder'.status = "PROCESSING",
           reminder'.status \in {"COMPLETED", "SKIPPED"} <=> Undecided(reminder') = {},
           reminder'.status # "absent" \/ reminder' = reminder,
           \A ch \in Channels : reminder'.decision[ch] = "ENQUEUED" => reminder.decision[ch] = "ENQUEUED",
           reminder'.status = "PROCESSING" =>
             /\ reminder.status = "PROCESSING" /\ reminder'.claimedBy = reminder.claimedBy
             /\ reminder'.decision = reminder.decision
    PROVE  ReminderInv'
<1>1. ReminderTypeOK'
  BY DEF ReminderInv, ReminderTypeOK, Undecided
<1>2. RowAndOutbox'
  <2>1. reminder'.status = "absent" => Undecided(reminder') = Channels
    BY DEF ReminderInv, RowAndOutbox
  <2>2. \A ch \in Channels :
          /\ outbox'[ch] \subseteq {reminder'.frozen[ch]}
          /\ reminder'.decision[ch] = "ENQUEUED" => outbox'[ch] = {reminder'.frozen[ch]}
    BY DEF ReminderInv, RowAndOutbox
  <2> QED
    BY <2>1, <2>2 DEF RowAndOutbox, Undecided
<1>3. ASSUME NEW q \in Runners PROVE Relies(q)' /\ HoldsOpen(q)'
  <2>1. HoldsReminder(q)' => HoldsReminder(q) /\ Undecided(reminder) \subseteq Undecided(reminder')
    BY DEF HoldsReminder, Undecided
  <2> QED
    BY <1>2, <2>1, StillRelies
<1> QED
  BY <1>1, <1>2, <1>3 DEF ReminderInv

LEMMA BookHereInv == ASSUME ReminderInv, BookHere PROVE ReminderInv'
<1>1. CASE reminder' = reminder
  BY <1>1, RowInv DEF BookHere, ReminderInv, ReminderTypeOK
<1>2. CASE reminder.status = "absent" /\ \E late \in BOOLEAN : reminder' = Fresh(late)
  <2>1. PICK f \in {"SKIPPED", "PENDING"}, s \in {"SKIPPED", "PENDING", "NOT_APPLICABLE"} :
          /\ reminder' = [reminder EXCEPT !.status = f, !.decision = [email |-> f, sms |-> s]]
          /\ s = f \/ s = "NOT_APPLICABLE"
    BY <1>2 DEF Fresh
  <2>2. reminder \in Reminder /\ reminder.claimedBy = Unset
    BY <1>2 DEF ReminderInv, ReminderTypeOK
  <2>3. [email |-> f, sms |-> s] \in [Channels -> Decision]
    BY DEF Channels, Decision
  <2>4. reminder' \in Reminder /\ reminder'.frozen = reminder.frozen /\ reminder'.claimedBy = Unset
        /\ reminder'.status = f /\ reminder'.decision = [email |-> f, sms |-> s]
    BY <2>1, <2>2, <2>3 DEF Reminder
  <2>5. reminder'.status \in {"COMPLETED", "SKIPPED"} <=> Undecided(reminder') = {}
    BY <2>1, <2>4 DEF Undecided, Channels
  <2>6. \A ch \in Channels : reminder'.decision[ch] # "ENQUEUED"
    BY <2>4 DEF Channels
  <2> QED
    BY <2>4, <2>5, <2>6, RowInv DEF BookHere
<1> QED
  BY <1>1, <1>2 DEF BookHere, Scheduled

LEMMA RetiredInv ==
    ASSUME ReminderInv, UNCHANGED <<kind, outbox, runner>>, reminder' = Retired,
           appointment' \in {"none", "here", "elsewhere", "over"}
    PROVE  ReminderInv'
<1>1. CASE ~Active
  BY <1>1, RowInv DEF Retired, ReminderInv, ReminderTypeOK
<1>2. CASE Active
  <2>1. /\ reminder' \in Reminder /\ reminder'.frozen = reminder.frozen /\ reminder'.claimedBy = Unset
        /\ reminder'.status = "CANCELLED" /\ reminder'.decision = reminder.decision
    BY <1>2 DEF Retired, ReminderInv, ReminderTypeOK, Reminder
  <2>2. Undecided(reminder') # {}
    BY <1>2, <2>1 DEF Active, Undecided, ReminderInv, ReminderTypeOK
  <2> QED
    BY <2>1, <2>2, RowInv
<1> QED
  BY <1>1, <1>2

LEMMA OutsideReminderInv ==
    ASSUME ReminderInv,
           MoveAway \/ LeaveUpcoming \/ RetireReminders \/ ClaimGoesStale \/ ResetStale
    PROVE  ReminderInv'
<1>1. CASE MoveAway
  BY <1>1, RetiredInv DEF MoveAway
<1>2. CASE RetireReminders
  BY <1>2, RetiredInv DEF RetireReminders, ReminderInv, ReminderTypeOK
<1>3. CASE LeaveUpcoming
  BY <1>3, RowInv DEF LeaveUpcoming, ReminderInv, ReminderTypeOK
<1>4. CASE ClaimGoesStale
  <2>1. reminder' \in Reminder /\ UNCHANGED <<reminder.frozen, reminder.claimedBy, reminder.status, reminder.decision>>
    BY <1>4 DEF ClaimGoesStale, ReminderInv, ReminderTypeOK, Reminder
  <2>2. Undecided(reminder') = Undecided(reminder)
    BY <2>1 DEF Undecided
  <2> QED
    BY <1>4, <2>1, <2>2, RowInv DEF ClaimGoesStale, ReminderInv, ReminderTypeOK
<1>5. CASE ResetStale
  <2>1. reminder' \in Reminder /\ UNCHANGED <<reminder.frozen, reminder.decision>>
        /\ reminder'.status = "PENDING" /\ reminder'.claimedBy = Unset
    BY <1>5 DEF ResetStale, ReminderInv, ReminderTypeOK, Reminder
  <2>2. Undecided(reminder') = Undecided(reminder)
    BY <2>1 DEF Undecided
  <2> QED
    BY <1>5, <2>1, <2>2, RowInv DEF ResetStale, ReminderInv, ReminderTypeOK
<1> QED
  BY <1>1, <1>2, <1>3, <1>4, <1>5
\* A step of runner p, who goes on as x.
LEMMA RunnerStepInv ==
    ASSUME ReminderInv, NEW p \in Runners, NEW x \in RunnerState,
           runner' = [runner EXCEPT ![p] = x],
           ReminderTypeOK', RowAndOutbox',
           \A ch \in Channels : /\ reminder.frozen[ch] # Unset
                                      => reminder'.frozen[ch] = reminder.frozen[ch]
                                /\ outbox[ch] \subseteq outbox'[ch],
           \A q \in Runners \ {p} : HoldsReminder(q)' =>
               HoldsReminder(q) /\ Undecided(reminder) \subseteq Undecided(reminder'),
           Relies(p)', HoldsOpen(p)'
    PROVE  ReminderInv'
<1>1. runner' \in [Runners -> RunnerState]
  BY DEF ReminderInv
<1>2. ASSUME NEW q \in Runners PROVE Relies(q)' /\ HoldsOpen(q)'
  <2>1. CASE q = p
    BY <2>1
  <2>2. CASE q # p
    <3>1. runner'[q] = runner[q]
      BY <2>2
    <3> QED
      BY <2>2, <3>1, StillRelies
  <2> QED
    BY <2>1, <2>2
<1> QED
  BY <1>1, <1>2 DEF ReminderInv

\* A step of p that writes nothing.
LEMMA RunnerReadInv ==
    ASSUME ReminderInv, NEW p \in Runners, NEW x \in RunnerState,
           runner' = [runner EXCEPT ![p] = x],
           UNCHANGED <<kind, appointment, reminder, outbox>>,
           Relies(p)', x.left \subseteq runner[p].left
    PROVE  ReminderInv'
<1>1. ReminderTypeOK' /\ RowAndOutbox'
  BY DEF ReminderInv, ReminderTypeOK, RowAndOutbox, Undecided
<1>2. \A q \in Runners : HoldsReminder(q)' => HoldsReminder(q)
  BY DEF HoldsReminder
<1>3. HoldsOpen(p)'
  <2>1. runner'[p].left \subseteq runner[p].left
    BY DEF ReminderInv
  <2> QED
    BY <1>2, <2>1 DEF HoldsOpen, ReminderInv, Undecided
<1>4. Undecided(reminder') = Undecided(reminder)
  BY DEF Undecided
<1> QED
  BY <1>1, <1>2, <1>3, <1>4, RunnerStepInv

\* A runner whose next step is to decide, release or begin again relies on the addresses
\* it has seen, and on nothing else.
LEMMA AtEase ==
    ASSUME NEW p \in Runners, runner'[p].at \in {"idle", "check", "close", "channel", "release"},
           \A ch \in Channels : runner'[p].seen[ch] # Unset
                                    => reminder'.frozen[ch] = runner'[p].seen[ch]
    PROVE  Relies(p)'
BY DEF Relies, Does

\* Going through a channel leaves no more channels than before.
LEMMA ThroughIs ==
    ASSUME ReminderInv, NEW p \in Runners, NEW failed \in BOOLEAN, Through(p, failed)
    PROVE  \E x \in RunnerState :
             /\ runner' = [runner EXCEPT ![p] = x]
             /\ x.at \in {"idle", "release", "channel"}
             /\ x.left \subseteq runner[p].left \ {Channel(p)}
             /\ x.seen = runner[p].seen \/ x.seen = Unread
<1> DEFINE left == runner[p].left \ {Channel(p)}
           bad == failed \/ runner[p].failed
           sent == runner[p].enqueued \/ (~failed /\ runner[p].decides = "ENQUEUED")
           at == IF left = {} THEN "release" ELSE "channel"
           x == [runner[p] EXCEPT !.left = left, !.failed = bad, !.to = Unset,
                                  !.decides = "PENDING", !.at = at, !.enqueued = sent]
<1>0. runner[p] \in RunnerState /\ runner \in [Runners -> RunnerState]
  BY DEF ReminderInv
<1>1. bad \in BOOLEAN /\ sent \in BOOLEAN
  BY DEF ReminderInv
<1>2. left \in SUBSET Channels /\ at \in RunnerSteps
  BY <1>0 DEF RunnerState, RunnerSteps
<1>3. CASE ClaimOver(p)
  BY <1>3, RestTyped DEF ClaimOver
<1>4. CASE runner' = [runner EXCEPT ![p].left = left, ![p].failed = bad, ![p].to = Unset,
                        ![p].decides = "PENDING", ![p].at = at, ![p].enqueued = sent]
  <2>1. at \in {"idle", "release", "channel"}
    OBVIOUS
  <2> HIDE DEF left, bad, sent, at
  <2>2. x \in RunnerState
    BY <1>0, <1>1, <1>2 DEF RunnerState, Decision
  <2>3. runner' = [runner EXCEPT ![p] = x]
    BY <1>0, <1>4
  <2>4. x.at = at /\ x.left = left /\ x.seen = runner[p].seen
    BY <1>0 DEF RunnerState
  <2> HIDE DEF x
  <2>5. x.left \subseteq runner[p].left \ {Channel(p)}
    BY <2>4 DEF left
  <2> QED
    BY <2>1, <2>2, <2>3, <2>4, <2>5
<1> QED
  BY <1>3, <1>4 DEF Through
LEMMA ClaimReminderInv == ASSUME ReminderInv, NEW p \in Runners, ClaimReminder(p) PROVE ReminderInv'
<1> DEFINE x == [Rest EXCEPT !.at = "check", !.left = Undecided(reminder), !.seen = reminder.frozen]
<1>0. /\ reminder \in Reminder /\ reminder.attempts + 1 \in 0..MaxAttempts
      /\ reminder.status \in {"PENDING", "PROCESSING"} /\ p # Unset
  BY ReminderAssumption DEF ClaimReminder, ClaimableReminder, ReminderInv, ReminderTypeOK, Reminder
<1>1. x \in RunnerState /\ x.at = "check" /\ x.left = Undecided(reminder) /\ x.seen = reminder.frozen
  BY <1>0, RestTyped DEF RunnerState, RunnerSteps, Undecided, Reminder
<1>2. /\ reminder' \in Reminder /\ reminder'.claimedBy = p /\ reminder'.status = "PROCESSING"
      /\ reminder'.frozen = reminder.frozen /\ reminder'.decision = reminder.decision
  BY <1>0 DEF ClaimReminder, Reminder
<1>3. UNCHANGED <<kind, appointment, outbox>> /\ runner' = [runner EXCEPT ![p] = x]
  BY DEF ClaimReminder
<1> HIDE DEF x
<1>4. ReminderTypeOK'
  BY <1>0, <1>2, <1>3 DEF ReminderInv, ReminderTypeOK, Undecided
<1>5. RowAndOutbox'
  BY <1>2, <1>3 DEF ReminderInv, RowAndOutbox
<1>6. \A q \in Runners \ {p} : ~HoldsReminder(q)'
  BY <1>2 DEF HoldsReminder
<1>7. runner'[p] = x
  BY <1>3 DEF ReminderInv
<1>8. Relies(p)'
  BY <1>1, <1>2, <1>7, AtEase
<1>9. HoldsOpen(p)'
  BY <1>1, <1>2, <1>7 DEF HoldsOpen, Undecided
<1> QED
  BY <1>1, <1>2, <1>3, <1>4, <1>5, <1>6, <1>8, <1>9, RunnerStepInv

LEMMA CheckBookingInv == ASSUME ReminderInv, NEW p \in Runners, CheckBooking(p) PROVE ReminderInv'
<1>1. PICK s \in {"channel", "skip", "close"} :
        /\ runner' = [runner EXCEPT ![p].at = s]
        /\ s = "skip" => runner[p].left = Channels
  BY DEF CheckBooking, Turn
<1> DEFINE x == [runner[p] EXCEPT !.at = s]
<1>2. runner[p] \in RunnerState /\ runner \in [Runners -> RunnerState]
      /\ UNCHANGED <<kind, appointment, reminder, outbox>>
  BY DEF CheckBooking, ReminderInv
<1>3. x \in RunnerState /\ x.at = s /\ x.left = runner[p].left /\ x.seen = runner[p].seen
  BY <1>2 DEF RunnerState, RunnerSteps
<1>4. runner' = [runner EXCEPT ![p] = x] /\ runner'[p] = x
  BY <1>1, <1>2
<1> HIDE DEF x
<1>5. Relies(p)'
  BY <1>1, <1>2, <1>3, <1>4 DEF Relies, Does, ReminderInv
<1> QED
  BY <1>2, <1>3, <1>4, <1>5, RunnerReadInv

\* The end of a claim, whatever it writes on the row.
LEMMA OverInv ==
    ASSUME ReminderInv, NEW p \in Runners, ClaimOver(p), UNCHANGED <<kind, appointment, outbox>>,
           \/ reminder' = reminder
           \/ /\ HoldsReminder(p) /\ reminder' \in Reminder
              /\ reminder'.frozen = reminder.frozen
              /\ reminder'.status # "absent"
              /\ reminder'.claimedBy # Unset <=> reminder'.status = "PROCESSING"
              /\ reminder'.status = "PROCESSING" => reminder'.claimedBy = p
              /\ reminder'.status \in {"COMPLETED", "SKIPPED"} <=> Undecided(reminder') = {}
              /\ \A ch \in Channels : reminder'.decision[ch] = "ENQUEUED"
                                          => reminder.decision[ch] = "ENQUEUED"
    PROVE  ReminderInv'
<1>1. runner'[p] = Rest /\ Rest \in RunnerState /\ runner' = [runner EXCEPT ![p] = Rest]
  BY RestTyped DEF ClaimOver, ReminderInv
<1>2. Relies(p)'
  BY <1>1, RestTyped, AtEase DEF Unread
<1>3. CASE reminder' = reminder
  BY <1>1, <1>2, <1>3, RestTyped, RunnerReadInv
<1>4. CASE reminder' # reminder
  <2>1. ReminderTypeOK'
    BY <1>4 DEF ReminderInv, ReminderTypeOK, Undecided
  <2>2. RowAndOutbox'
    BY <1>4 DEF ReminderInv, RowAndOutbox
  <2>3. \A q \in Runners \ {p} : ~HoldsReminder(q)'
    BY <1>4 DEF HoldsReminder
  <2>4. HoldsOpen(p)'
    BY <1>1, RestTyped DEF HoldsOpen
  <2> QED
    BY <1>1, <1>2, <1>4, <2>1, <2>2, <2>3, <2>4, RunnerStepInv
<1> QED
  BY <1>3, <1>4

\* The row with one more decision.
LEMMA WithDecisionIs ==
    ASSUME ReminderInv, NEW p \in Runners, NEW d \in Decision, MayDecide(p),
           reminder' = WithDecision(p, d)
    PROVE  /\ reminder' \in Reminder /\ reminder'.frozen = reminder.frozen
           /\ reminder'.status \in {"PROCESSING", "COMPLETED"}
           /\ reminder'.claimedBy # Unset <=> reminder'.status = "PROCESSING"
           /\ reminder'.status = "PROCESSING" => reminder'.claimedBy = p
           /\ reminder'.status = "COMPLETED" <=> Undecided(reminder') = {}
           /\ reminder'.decision[Channel(p)] = d
           /\ \A ch \in Channels \ {Channel(p)} : reminder'.decision[ch] = reminder.decision[ch]
<1> DEFINE decided == [reminder EXCEPT !.decision[Channel(p)] = d]
<1>0. /\ Channel(p) \in Channels /\ reminder \in Reminder /\ reminder.status = "PROCESSING"
      /\ reminder.claimedBy = p /\ p # Unset
  BY ChannelTyped, ReminderAssumption DEF MayDecide, HoldsReminder, ReminderInv, ReminderTypeOK
<1>1. /\ decided \in Reminder /\ decided.frozen = reminder.frozen /\ decided.status = "PROCESSING"
      /\ decided.claimedBy = p /\ decided.decision[Channel(p)] = d
      /\ \A ch \in Channels \ {Channel(p)} : decided.decision[ch] = reminder.decision[ch]
  BY <1>0 DEF Reminder
<1>2. reminder' = IF Undecided(decided) = {}
                  THEN [decided EXCEPT !.status = "COMPLETED", !.claimedBy = Unset, !.stale = FALSE]
                  ELSE decided
  BY DEF WithDecision
<1> HIDE DEF decided
<1>3. CASE Undecided(decided) = {}
  <2>0. reminder' = [decided EXCEPT !.status = "COMPLETED", !.claimedBy = Unset, !.stale = FALSE]
    BY <1>2, <1>3
  <2>1. reminder' \in Reminder /\ reminder'.status = "COMPLETED" /\ reminder'.claimedBy = Unset
        /\ reminder'.decision = decided.decision /\ reminder'.frozen = decided.frozen
    BY <1>1, <2>0 DEF Reminder
  <2> QED
    BY <1>1, <1>3, <2>1 DEF Undecided
<1>4. CASE Undecided(decided) # {}
  BY <1>0, <1>1, <1>2, <1>4
<1> QED
  BY <1>3, <1>4

LEMMA EndsInv ==
    ASSUME ReminderInv, NEW p \in Runners,
           MarkSkipped(p) \/ CloseChannel(p) \/ ReleaseReminder(p) \/ RunnerDies(p)
    PROVE  ReminderInv'
<1>0. ClaimOver(p) /\ UNCHANGED <<kind, appointment, outbox>> /\ reminder \in Reminder
  BY DEF MarkSkipped, CloseChannel, ReleaseReminder, RunnerDies, ReminderInv, ReminderTypeOK
<1>1. CASE reminder' = reminder
  BY <1>0, <1>1, OverInv
<1>2. CASE HoldsReminder(p) /\ reminder' = [reminder EXCEPT !.status = "SKIPPED",
             !.claimedBy = Unset, !.stale = FALSE, !.decision = [ch \in Channels |-> "SKIPPED"]]
  <2>1. reminder' \in Reminder /\ reminder'.status = "SKIPPED" /\ reminder'.claimedBy = Unset
        /\ reminder'.frozen = reminder.frozen /\ reminder'.decision = [ch \in Channels |-> "SKIPPED"]
    BY <1>0, <1>2 DEF Reminder, Decision
  <2>2. Undecided(reminder') = {} /\ \A ch \in Channels : reminder'.decision[ch] # "ENQUEUED"
    BY <2>1 DEF Undecided
  <2> QED
    BY <1>0, <1>2, <2>1, <2>2, OverInv
<1>3. CASE MayDecide(p) /\ reminder' = WithDecision(p, "SKIPPED")
  <2>1. "SKIPPED" \in Decision /\ HoldsReminder(p) /\ Channel(p) \in Channels
    BY <1>3, ChannelTyped DEF Decision, MayDecide
  <2>2. /\ reminder' \in Reminder /\ reminder'.frozen = reminder.frozen
        /\ reminder'.status \in {"PROCESSING", "COMPLETED"}
        /\ reminder'.claimedBy # Unset <=> reminder'.status = "PROCESSING"
        /\ reminder'.status = "PROCESSING" => reminder'.claimedBy = p
        /\ reminder'.status = "COMPLETED" <=> Undecided(reminder') = {}
        /\ reminder'.decision[Channel(p)] = "SKIPPED"
        /\ \A ch \in Channels \ {Channel(p)} : reminder'.decision[ch] = reminder.decision[ch]
    BY <1>3, <2>1, WithDecisionIs
  <2> QED
    BY <1>0, <2>1, <2>2, OverInv
<1>4. CASE HoldsReminder(p) /\ \E s \in {"FAILED", "PENDING"} :
             reminder' = [reminder EXCEPT !.claimedBy = Unset, !.stale = FALSE, !.status = s]
  <2>1. reminder' \in Reminder /\ reminder'.status \in {"FAILED", "PENDING"}
        /\ reminder'.claimedBy = Unset
        /\ reminder'.frozen = reminder.frozen /\ reminder'.decision = reminder.decision
    BY <1>0, <1>4 DEF Reminder
  <2>2. Undecided(reminder') = Undecided(reminder) /\ Undecided(reminder) # {}
    BY <1>4, <2>1 DEF Undecided, HoldsReminder, ReminderInv, ReminderTypeOK
  <2> QED
    BY <1>0, <1>4, <2>1, <2>2, OverInv
<1> QED
  BY <1>1, <1>2, <1>3, <1>4 DEF MarkSkipped, CloseChannel, ReleaseReminder, RunnerDies
LEMMA ChooseRecipientInv == ASSUME ReminderInv, NEW p \in Runners, ChooseRecipient(p) PROVE ReminderInv'
<1>0. /\ runner[p] \in RunnerState /\ runner \in [Runners -> RunnerState]
      /\ UNCHANGED <<kind, appointment, reminder, outbox>> /\ Relies(p)
      /\ Channel(p) \in Channels
  BY ChannelTyped DEF ChooseRecipient, ReminderInv
<1>1. CASE \E d \in {"SUPPRESSED", "SKIPPED"} : Decide(p, d)
  <2>1. PICK d \in {"SUPPRESSED", "SKIPPED"} : Decide(p, d)
    BY <1>1
  <2> DEFINE x == [runner[p] EXCEPT !.at = "record", !.decides = d]
  <2>2. x \in RunnerState /\ x.at = "record" /\ x.decides = d /\ x.left = runner[p].left
        /\ x.seen = runner[p].seen
    BY <1>0 DEF RunnerState, RunnerSteps, Decision
  <2>3. runner' = [runner EXCEPT ![p] = x] /\ runner'[p] = x
    BY <1>0, <2>1 DEF Decide
  <2> HIDE DEF x
  <2>4. Relies(p)'
    BY <1>0, <2>2, <2>3 DEF Relies, Does
  <2> QED
    BY <1>0, <2>2, <2>3, <2>4, RunnerReadInv
<1>2. ASSUME NEW a \in IF runner[p].seen[Channel(p)] = Unset THEN Addresses
                       ELSE {runner[p].seen[Channel(p)]},
             runner' = [runner EXCEPT ![p].to = a,
                          ![p].at = IF Channel(p) = "sms" /\ runner[p].enqueued THEN "recheck"
                                    ELSE IF runner[p].seen[Channel(p)] = Unset THEN "freeze"
                                    ELSE "enqueue"]
      PROVE  ReminderInv'
  <2> DEFINE at == IF Channel(p) = "sms" /\ runner[p].enqueued THEN "recheck"
                   ELSE IF runner[p].seen[Channel(p)] = Unset THEN "freeze" ELSE "enqueue"
             x == [runner[p] EXCEPT !.to = a, !.at = at]
  <2>1. a \in Addresses /\ (runner[p].seen[Channel(p)] # Unset => a = runner[p].seen[Channel(p)])
    BY <1>0, <1>2 DEF RunnerState
  <2>2. /\ at \in {"recheck", "freeze", "enqueue"}
        /\ at = "recheck" => "email" \notin runner[p].left
        /\ at = "enqueue" => runner[p].seen[Channel(p)] # Unset
    BY DEF Channel
  <2> HIDE DEF at
  <2>3. x \in RunnerState /\ x.at = at /\ x.to = a /\ x.left = runner[p].left
        /\ x.seen = runner[p].seen
    BY <1>0, <2>1, <2>2 DEF RunnerState, RunnerSteps
  <2>4. runner' = [runner EXCEPT ![p] = x] /\ runner'[p] = x
    BY <1>0, <1>2 DEF at
  <2> HIDE DEF x
  <2>5. Channel(p)' = Channel(p)
    BY <2>3, <2>4 DEF Channel
  <2>6. Relies(p)'
    BY <1>0, <2>1, <2>2, <2>3, <2>4, <2>5 DEF Relies, Does
  <2> QED
    BY <1>0, <2>3, <2>4, <2>6, RunnerReadInv
<1> QED
  BY <1>1, <1>2 DEF ChooseRecipient

LEMMA RecheckBookingInv == ASSUME ReminderInv, NEW p \in Runners, RecheckBooking(p) PROVE ReminderInv'
<1>0. /\ runner[p] \in RunnerState /\ runner \in [Runners -> RunnerState]
      /\ UNCHANGED <<kind, appointment, reminder, outbox>> /\ Relies(p) /\ Channel(p) = "sms"
      /\ runner[p].to \in Addresses
      /\ runner[p].seen["sms"] # Unset => runner[p].to = runner[p].seen["sms"]
  BY DEF RecheckBooking, ReminderInv, Relies, Channel
<1>1. PICK s \in {"freeze", "enqueue", "record"}, d \in {runner[p].decides, "SKIPPED"} :
        /\ runner' = [runner EXCEPT ![p].at = s, ![p].decides = d]
        /\ s = "record" => d = "SKIPPED"
        /\ s = "enqueue" => runner[p].seen["sms"] # Unset
  <2>1. CASE Eligible
    <3>1. PICK s \in {"freeze", "enqueue"} : Turn(p, s) /\ (s = "enqueue" => runner[p].seen["sms"] # Unset)
      BY <2>1 DEF RecheckBooking
    <3>2. runner' = [runner EXCEPT ![p].at = s, ![p].decides = runner[p].decides]
      BY <1>0, <3>1 DEF Turn, RunnerState
    <3> QED
      BY <3>1, <3>2
  <2>2. CASE ~Eligible
    BY <2>2 DEF RecheckBooking, Decide
  <2> QED
    BY <2>1, <2>2
<1> DEFINE x == [runner[p] EXCEPT !.at = s, !.decides = d]
<1>2. x \in RunnerState /\ x.at = s /\ x.decides = d /\ x.left = runner[p].left
      /\ x.seen = runner[p].seen /\ x.to = runner[p].to
  BY <1>0 DEF RunnerState, RunnerSteps, Decision
<1>3. runner' = [runner EXCEPT ![p] = x] /\ runner'[p] = x
  BY <1>0, <1>1
<1> HIDE DEF x
<1>4. Channel(p)' = Channel(p)
  BY <1>2, <1>3 DEF Channel
<1>5. Relies(p)'
  BY <1>0, <1>1, <1>2, <1>3, <1>4 DEF Relies, Does, Channels
<1> QED
  BY <1>0, <1>2, <1>3, <1>5, RunnerReadInv

\* A channel that is given up with an error, nothing written.
LEMMA ErrorInv ==
    ASSUME ReminderInv, NEW p \in Runners, Through(p, TRUE),
           UNCHANGED <<kind, appointment, reminder, outbox>>
    PROVE  ReminderInv'
<1>1. PICK x \in RunnerState :
        /\ runner' = [runner EXCEPT ![p] = x] /\ x.at \in {"idle", "release", "channel"}
        /\ x.left \subseteq runner[p].left \ {Channel(p)}
        /\ x.seen = runner[p].seen \/ x.seen = Unread
  BY ThroughIs
<1>2. runner'[p] = x /\ Relies(p)
  BY <1>1 DEF ReminderInv
<1>3. Relies(p)'
  BY <1>1, <1>2, AtEase DEF Relies, Unread
<1> QED
  BY <1>1, <1>3, RunnerReadInv

\* The address is set once: the row that had none is given this one.
LEMMA FreezeRecipientInv == ASSUME ReminderInv, NEW p \in Runners, FreezeRecipient(p) PROVE ReminderInv'
<1> DEFINE ch == Channel(p)
           a == IF reminder.frozen[ch] = Unset THEN runner[p].to ELSE reminder.frozen[ch]
<1>0. /\ runner[p] \in RunnerState /\ runner \in [Runners -> RunnerState] /\ reminder \in Reminder
      /\ UNCHANGED <<kind, appointment, outbox>> /\ Relies(p) /\ ch \in Channels
      /\ runner[p].to \in Addresses /\ outbox \in [Channels -> SUBSET Addresses]
      /\ Unset \notin Addresses
  BY ChannelTyped, ReminderAssumption DEF FreezeRecipient, ReminderInv, Relies, ReminderTypeOK
<1>1. a \in Addresses /\ (reminder.frozen[ch] # Unset => a = reminder.frozen[ch])
  BY <1>0 DEF Reminder
<1>2. CASE ~HoldsReminder(p)
  BY <1>0, <1>2, OverInv DEF FreezeRecipient
<1>3. CASE HoldsReminder(p)
  <2>1. reminder' = [reminder EXCEPT !.frozen[ch] = a]
    BY <1>3 DEF FreezeRecipient, Frozen
  <2>2. \/ runner' = [runner EXCEPT ![p].at = "enqueue", ![p].to = a]
        \/ Through(p, TRUE)
    BY <1>3 DEF FreezeRecipient
  <2> HIDE DEF ch, a
  <2>3. /\ reminder' \in Reminder /\ reminder'.frozen[ch] = a
        /\ \A o \in Channels \ {ch} : reminder'.frozen[o] = reminder.frozen[o]
        /\ UNCHANGED <<reminder.status, reminder.claimedBy, reminder.decision>>
    BY <1>0, <1>1, <2>1 DEF Reminder
  <2>4. Undecided(reminder') = Undecided(reminder)
    BY <2>3 DEF Undecided
  <2>5. \A o \in Channels : reminder.frozen[o] # Unset => reminder'.frozen[o] = reminder.frozen[o]
    BY <1>1, <2>3
  <2>6. ReminderTypeOK'
    BY <1>0, <2>3, <2>4 DEF ReminderInv, ReminderTypeOK
  <2>7. RowAndOutbox'
    <3>1. ASSUME NEW o \in Channels
          PROVE  /\ outbox'[o] \subseteq {reminder'.frozen[o]}
                 /\ reminder'.decision[o] = "ENQUEUED" => outbox'[o] = {reminder'.frozen[o]}
      <4>1. /\ outbox[o] \subseteq {reminder.frozen[o]} /\ outbox[o] \subseteq Addresses
            /\ reminder.decision[o] = "ENQUEUED" => outbox[o] = {reminder.frozen[o]}
        BY <1>0 DEF ReminderInv, RowAndOutbox
      <4>2. CASE reminder.frozen[o] = Unset
        BY <1>0, <2>3, <4>1, <4>2
      <4>3. CASE reminder.frozen[o] # Unset
        BY <1>0, <2>3, <2>5, <4>1, <4>3
      <4> QED
        BY <4>2, <4>3
    <3> QED
      BY <2>3, <2>4, <3>1 DEF ReminderInv, RowAndOutbox
  <2>8. \A q \in Runners : HoldsReminder(q)' => HoldsReminder(q)
    BY <2>3 DEF HoldsReminder
  <2>9. PICK x \in RunnerState :
          /\ runner' = [runner EXCEPT ![p] = x]
          /\ x.left \subseteq runner[p].left
          /\ x.seen = runner[p].seen \/ x.seen = Unread
          /\ \/ x.at \in {"idle", "release", "channel"}
             \/ x.at = "enqueue" /\ x.to = a /\ x.left = runner[p].left
    <3>1. CASE Through(p, TRUE)
      BY <3>1, ThroughIs
    <3>2. CASE runner' = [runner EXCEPT ![p].at = "enqueue", ![p].to = a]
      <4> DEFINE y == [runner[p] EXCEPT !.at = "enqueue", !.to = a]
      <4>1. y \in RunnerState /\ y.at = "enqueue" /\ y.to = a /\ y.left = runner[p].left
            /\ y.seen = runner[p].seen
        BY <1>0, <1>1 DEF RunnerState, RunnerSteps
      <4>2. runner' = [runner EXCEPT ![p] = y]
        BY <1>0, <3>2
      <4> HIDE DEF y
      <4> QED
        BY <4>1, <4>2
    <3> QED
      BY <2>2, <3>1, <3>2
  <2>10. runner'[p] = x
    BY <1>0, <2>9
  <2>11. \A o \in Channels : x.seen[o] # Unset => reminder'.frozen[o] = x.seen[o]
    BY <1>0, <2>5, <2>9 DEF Relies, Unread
  <2>12. Relies(p)'
    <3>1. CASE x.at \in {"idle", "release", "channel"}
      BY <2>10, <2>11, <3>1, AtEase
    <3>2. CASE x.at = "enqueue" /\ x.to = a /\ x.left = runner[p].left
      <4>1. Channel(p)' = ch
        BY <2>10, <3>2 DEF Channel, ch
      <4> QED
        BY <1>1, <2>3, <2>10, <2>11, <3>2, <4>1 DEF Relies, Does
    <3> QED
      BY <2>9, <3>1, <3>2
  <2>13. HoldsOpen(p)'
    BY <2>4, <2>8, <2>9, <2>10 DEF HoldsOpen, ReminderInv, Undecided
  <2> QED
    BY <1>0, <2>4, <2>5, <2>6, <2>7, <2>8, <2>9, <2>12, <2>13, RunnerStepInv
<1> QED
  BY <1>2, <1>3
\* What is enqueued goes to the address on the row, so it is what was enqueued before.
LEMMA EnqueueMessageInv == ASSUME ReminderInv, NEW p \in Runners, EnqueueMessage(p) PROVE ReminderInv'
<1> DEFINE ch == Channel(p)
<1>0. /\ runner[p] \in RunnerState /\ runner \in [Runners -> RunnerState]
      /\ UNCHANGED <<kind, appointment, reminder>> /\ Relies(p) /\ ch \in Channels
      /\ runner[p].to \in Addresses /\ reminder.frozen[ch] = runner[p].to
      /\ outbox \in [Channels -> SUBSET Addresses]
      /\ outbox' = [outbox EXCEPT ![ch] = @ \cup {runner[p].to}]
  BY ChannelTyped DEF EnqueueMessage, ReminderInv, Relies, ReminderTypeOK
<1> HIDE DEF ch
<1>1. /\ outbox' \in [Channels -> SUBSET Addresses] /\ outbox'[ch] = {reminder.frozen[ch]}
      /\ \A o \in Channels \ {ch} : outbox'[o] = outbox[o]
      /\ \A o \in Channels : outbox[o] \subseteq outbox'[o]
  BY <1>0 DEF ReminderInv, RowAndOutbox
<1>2. ReminderTypeOK'
  BY <1>0, <1>1 DEF ReminderInv, ReminderTypeOK, Undecided
<1>3. RowAndOutbox'
  BY <1>0, <1>1 DEF ReminderInv, RowAndOutbox, Undecided
<1>4. \A q \in Runners : HoldsReminder(q)' => HoldsReminder(q)
  BY <1>0 DEF HoldsReminder
<1>5. PICK x \in RunnerState :
        /\ runner' = [runner EXCEPT ![p] = x] /\ x.left \subseteq runner[p].left
        /\ x.seen = runner[p].seen \/ x.seen = Unread
        /\ \/ x.at \in {"idle", "release", "channel"}
           \/ x.at = "record" /\ x.left = runner[p].left
  <2>1. CASE Through(p, TRUE)
    BY <2>1, ThroughIs
  <2>2. CASE Decide(p, "ENQUEUED")
    <3> DEFINE y == [runner[p] EXCEPT !.at = "record", !.decides = "ENQUEUED"]
    <3>1. y \in RunnerState /\ y.at = "record" /\ y.left = runner[p].left /\ y.seen = runner[p].seen
      BY <1>0 DEF RunnerState, RunnerSteps, Decision
    <3>2. runner' = [runner EXCEPT ![p] = y]
      BY <1>0, <2>2 DEF Decide
    <3> HIDE DEF y
    <3> QED
      BY <3>1, <3>2
  <2> QED
    BY <2>1, <2>2 DEF EnqueueMessage
<1>6. runner'[p] = x
  BY <1>0, <1>5
<1>7. \A o \in Channels : x.seen[o] # Unset => reminder'.frozen[o] = x.seen[o]
  BY <1>0, <1>5 DEF Relies, Unread
<1>8. Relies(p)'
  <2>1. CASE x.at \in {"idle", "release", "channel"}
    BY <1>6, <1>7, <2>1, AtEase
  <2>2. CASE x.at = "record" /\ x.left = runner[p].left
    <3>1. Channel(p)' = ch
      BY <1>6, <2>2 DEF Channel, ch
    <3> QED
      BY <1>0, <1>1, <1>6, <1>7, <2>2, <3>1 DEF Relies, Does
  <2> QED
    BY <1>5, <2>1, <2>2
<1>9. HoldsOpen(p)'
  BY <1>0, <1>4, <1>5, <1>6 DEF HoldsOpen, ReminderInv, Undecided
<1> QED
  BY <1>0, <1>1, <1>2, <1>3, <1>4, <1>5, <1>8, <1>9, RunnerStepInv DEF Undecided

LEMMA RecordDecisionInv == ASSUME ReminderInv, NEW p \in Runners, RecordDecision(p) PROVE ReminderInv'
<1>0. /\ runner[p] \in RunnerState /\ runner \in [Runners -> RunnerState]
      /\ UNCHANGED <<kind, appointment, outbox>> /\ Relies(p) /\ Channel(p) \in Channels
      /\ HoldsOpen(p) /\ runner[p].decides \in Decision
      /\ runner[p].decides = "ENQUEUED" => outbox[Channel(p)] = {reminder.frozen[Channel(p)]}
  BY ChannelTyped DEF RecordDecision, ReminderInv, Relies, RunnerState
<1>1. CASE ~MayDecide(p)
  BY <1>0, <1>1, OverInv DEF RecordDecision
<1>2. CASE MayDecide(p)
  <2>0. HoldsReminder(p) /\ reminder.claimedBy = p /\ reminder.status = "PROCESSING"
    BY <1>2 DEF MayDecide, HoldsReminder
  <2>1. /\ reminder' \in Reminder /\ reminder'.frozen = reminder.frozen
        /\ reminder'.status \in {"PROCESSING", "COMPLETED"}
        /\ reminder'.claimedBy # Unset <=> reminder'.status = "PROCESSING"
        /\ reminder'.status = "PROCESSING" => reminder'.claimedBy = p
        /\ reminder'.status = "COMPLETED" <=> Undecided(reminder') = {}
        /\ reminder'.decision[Channel(p)] = runner[p].decides
        /\ \A ch \in Channels \ {Channel(p)} : reminder'.decision[ch] = reminder.decision[ch]
    BY <1>0, <1>2, WithDecisionIs DEF RecordDecision
  <2>2. PICK failed \in BOOLEAN : Through(p, failed)
    BY <1>2 DEF RecordDecision
  <2>3. PICK x \in RunnerState :
          /\ runner' = [runner EXCEPT ![p] = x] /\ x.at \in {"idle", "release", "channel"}
          /\ x.left \subseteq runner[p].left \ {Channel(p)}
          /\ x.seen = runner[p].seen \/ x.seen = Unread
    BY <2>2, ThroughIs
  <2>4. runner'[p] = x
    BY <1>0, <2>3
  <2>5. ReminderTypeOK'
    BY <1>0, <2>1 DEF ReminderInv, ReminderTypeOK, Undecided
  <2>6. RowAndOutbox'
    BY <1>0, <2>1 DEF ReminderInv, RowAndOutbox
  <2>7. \A q \in Runners \ {p} : ~HoldsReminder(q)'
    BY <2>1 DEF HoldsReminder
  <2>8. Relies(p)'
    BY <1>0, <2>1, <2>3, <2>4, AtEase DEF Relies, Unread
  <2>9. HoldsOpen(p)'
    BY <1>0, <2>0, <2>1, <2>3, <2>4 DEF HoldsOpen, Undecided
  <2> QED
    BY <1>0, <2>1, <2>3, <2>5, <2>6, <2>7, <2>8, <2>9, RunnerStepInv
<1> QED
  BY <1>1, <1>2

LEMMA ReminderInitInv == ReminderInit => ReminderInv
<1> SUFFICES ASSUME ReminderInit PROVE ReminderInv
  OBVIOUS
<1>1. reminder \in Reminder
  BY ReminderAssumption DEF ReminderInit, Reminder, Decision
<1>2. Undecided(reminder) = Channels /\ Channels # {}
  BY DEF ReminderInit, Undecided, Channels
<1>3. ReminderTypeOK
  BY <1>1, <1>2 DEF ReminderInit, ReminderTypeOK
<1>4. RowAndOutbox
  BY <1>2 DEF ReminderInit, RowAndOutbox
<1>5. runner \in [Runners -> RunnerState]
  BY RestTyped DEF ReminderInit
<1>6. ASSUME NEW p \in Runners PROVE Relies(p) /\ HoldsOpen(p)
  BY RestTyped DEF ReminderInit, Relies, HoldsOpen, Does, HoldsReminder, Unread
<1> QED
  BY <1>3, <1>4, <1>5, <1>6 DEF ReminderInv

LEMMA ReminderStep == ReminderInv /\ [ReminderNext]_reminderVars => ReminderInv'
<1> SUFFICES ASSUME ReminderInv, [ReminderNext]_reminderVars PROVE ReminderInv'
  OBVIOUS
<1>1. CASE UNCHANGED reminderVars
  BY <1>1, RowInv DEF reminderVars, ReminderInv, ReminderTypeOK
<1>2. ASSUME NEW p \in Runners, InfraError(p) PROVE ReminderInv'
  BY <1>2, ErrorInv DEF InfraError
<1> QED
  BY <1>1, <1>2, BookHereInv, OutsideReminderInv, ClaimReminderInv, CheckBookingInv, EndsInv,
     ChooseRecipientInv, RecheckBookingInv, FreezeRecipientInv, EnqueueMessageInv, RecordDecisionInv
  DEF ReminderNext

LEMMA ReminderInvariance == ReminderSpec => []ReminderInv
BY ReminderInitInv, ReminderStep, PTL DEF ReminderSpec

\* The row, the outboxes and their kind have their types; a row is claimed just while it
\* is PROCESSING, and has ended just when no decision is open.
THEOREM ReminderTyped == ReminderSpec => []ReminderTypeOK
<1>1. ReminderInv => ReminderTypeOK
  BY DEF ReminderInv
<1> QED
  BY <1>1, ReminderInvariance, PTL

\* However many runners lose their claims to each other, one message at most is enqueued
\* on a channel, and for the address on the row.
THEOREM OneMessagePerChannel == ReminderSpec => []OneMessage
<1>1. ASSUME ReminderInv PROVE OneMessage
  <2>1. ASSUME NEW ch \in Channels PROVE Cardinality(outbox[ch]) <= 1
    <3>1. outbox[ch] = {} \/ outbox[ch] = {reminder.frozen[ch]}
      BY <1>1 DEF ReminderInv, RowAndOutbox
    <3>2. Cardinality({}) = 0 /\ Cardinality({reminder.frozen[ch]}) = 1
      BY FS_EmptySet, FS_Singleton, Zenon
    <3>3. Cardinality(outbox[ch]) = 0 \/ Cardinality(outbox[ch]) = 1
      BY <3>1, <3>2, Zenon
    <3> QED
      BY <3>3
  <2> QED
    BY <1>1, <2>1 DEF ReminderInv, RowAndOutbox, OneMessage
<1> QED
  BY <1>1, ReminderInvariance, PTL
\* A step writes decisions over open ones only, and leaves a row that has ended alone.
Decides == /\ \A ch \in Channels \ Undecided(reminder) : reminder'.decision[ch] = reminder.decision[ch]
           /\ Active \/ reminder.status = "absent" \/ reminder'.status = reminder.status

LEMMA DecideStep == ASSUME ReminderInv, ReminderNext PROVE Decides
<1>0. reminder \in Reminder
  BY DEF ReminderInv, ReminderTypeOK
<1>1. CASE reminder' = reminder
  BY <1>1 DEF Decides
<1>2. CASE BookHere
  <2>1. CASE reminder.status = "absent"
    BY <2>1 DEF ReminderInv, RowAndOutbox, Decides
  <2>2. CASE reminder.status # "absent"
    BY <1>1, <1>2, <2>2 DEF BookHere, Scheduled
  <2> QED
    BY <2>1, <2>2
<1>3. CASE reminder' = Retired
  BY <1>0, <1>1, <1>3 DEF Retired, Decides, Reminder
<1>4. CASE ClaimGoesStale \/ ResetStale
  BY <1>0, <1>4 DEF ClaimGoesStale, ResetStale, Decides, Reminder, Active
<1>5. ASSUME NEW p \in Runners, ClaimReminder(p) PROVE Decides
  BY <1>0, <1>5 DEF ClaimReminder, ClaimableReminder, Decides, Reminder, Active
<1>6. ASSUME NEW p \in Runners, HoldsReminder(p), MarkSkipped(p) PROVE Decides
  <2>1. Undecided(reminder) = Channels
    BY <1>6 DEF MarkSkipped, ReminderInv, Relies, HoldsOpen, Undecided
  <2> QED
    BY <1>6, <2>1 DEF Decides, HoldsReminder, Active
<1>7. ASSUME NEW p \in Runners, NEW d \in Decision, MayDecide(p), reminder' = WithDecision(p, d)
      PROVE  Decides
  <2>1. Channel(p) \in Undecided(reminder)
    BY <1>7, ChannelTyped DEF MayDecide, Undecided
  <2>2. \A ch \in Channels \ {Channel(p)} : reminder'.decision[ch] = reminder.decision[ch]
    BY <1>7, WithDecisionIs
  <2> QED
    BY <1>7, <2>1, <2>2 DEF Decides, MayDecide, HoldsReminder, Active
<1>8. ASSUME NEW p \in Runners, HoldsReminder(p), FreezeRecipient(p) \/ ReleaseReminder(p)
      PROVE  Decides
  BY <1>0, <1>8 DEF FreezeRecipient, Frozen, ReleaseReminder, Decides, Reminder, HoldsReminder, Active
<1>9. ASSUME NEW p \in Runners, CloseChannel(p) \/ RecordDecision(p) PROVE Decides
  <2>1. runner[p].decides \in Decision /\ "SKIPPED" \in Decision
    BY DEF ReminderInv, RunnerState, Decision
  <2> QED
    BY <1>1, <1>7, <1>9, <2>1 DEF CloseChannel, RecordDecision
<1>10. ASSUME NEW p \in Runners,
              \/ MarkSkipped(p) \/ FreezeRecipient(p) \/ ReleaseReminder(p)
              \/ CheckBooking(p) \/ ChooseRecipient(p) \/ RecheckBooking(p) \/ EnqueueMessage(p)
              \/ InfraError(p) \/ RunnerDies(p)
       PROVE  Decides
  <2>1. CASE HoldsReminder(p) /\ (MarkSkipped(p) \/ FreezeRecipient(p) \/ ReleaseReminder(p))
    BY <1>6, <1>8, <2>1
  <2>2. CASE ~(HoldsReminder(p) /\ (MarkSkipped(p) \/ FreezeRecipient(p) \/ ReleaseReminder(p)))
    BY <1>1, <1>10, <2>2 DEF MarkSkipped, FreezeRecipient, ReleaseReminder, CheckBooking,
       ChooseRecipient, RecheckBooking, EnqueueMessage, InfraError, RunnerDies
  <2> QED
    BY <2>1, <2>2
<1> QED
  BY <1>1, <1>2, <1>3, <1>4, <1>5, <1>9, <1>10 DEF ReminderNext, MoveAway, LeaveUpcoming, RetireReminders

\* No claim, skip, retirement or release takes a decision back, and none takes up a row
\* that has ended.
THEOREM DecisionsAreFinal == ReminderSpec => DecisionKept
<1>1. ReminderInv /\ [ReminderNext]_reminderVars =>
        [/\ \A ch \in Channels \ Undecided(reminder) : reminder'.decision[ch] = reminder.decision[ch]
         /\ Active \/ reminder.status = "absent" \/ reminder'.status = reminder.status]_reminderVars
  BY DecideStep DEF Decides
<1> QED
  BY <1>1, ReminderInvariance, PTL DEF ReminderSpec, DecisionKept

-----------------------------------------------------------------------------
(* Side by side *)

\* A behaviour of the five is one of each: while one runs, the others stutter.
LEMMA Apart == AllSpec => /\ Spec /\ PayoutSpec /\ SessionSpec /\ PromoSpec /\ ReminderSpec
<1>1. AllInit => Init /\ PayoutInit /\ SessionInit /\ PromoInit /\ ReminderInit
  BY DEF AllInit
<1>2. [AllNext]_<<vars, payoutVars, sessionVars, promoVars, reminderVars, part>> =>
        /\ [Next]_vars /\ [PayoutNext]_payoutVars /\ [SessionNext]_sessionVars
        /\ [PromoNext]_promoVars /\ [ReminderNext]_reminderVars
  BY DEF AllNext, First, Payout, Session, PromoPart, ReminderPart
<1> QED
  BY <1>1, <1>2, PTL DEF AllSpec, Spec, PayoutSpec, SessionSpec, PromoSpec, ReminderSpec

\* Side by side, the five components keep their types and what each ties to them.
THEOREM AllTyped == AllSpec => []TypesOK
<1>1. TypeOK /\ PayoutTypeOK /\ SessionTypeOK /\ PromoTypeOK /\ ReminderTypeOK => TypesOK
  BY DEF TypesOK
<1> QED
  BY <1>1, Apart, TypesHold, PayoutsTyped, SessionsTyped, PromoTyped, ReminderTyped, PTL
=============================================================================
