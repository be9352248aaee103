---------------------- MODULE FirstRelationshipProofs ----------------------
(* The FIRST relationship of FirstRelationship: types, one FIRST at a time, *)
(* charged claims kept and restored only once the money is back.            *)
EXTENDS FirstRelationship, SequenceTheorems, TLAPS

USE ProcsAssumption

ProcState == [todo : Seq(Step), key : Keys \cup {None}, new : BOOLEAN,
              class : Class \cup {None}, row : Relationship \cup {None}]

\* What a process still has to do: one step, and perhaps the claim it gives back.
Shape(x) == \/ x.todo \in {<<>>, <<"drop", "release">>}
            \/ \E s \in Step : x.todo = <<s>>
            \/ \E s \in Step \ {"drop"} : x.todo = <<s, "drop">>
Doing(x, s) == x.todo # <<>> /\ Head(x.todo) = s
Drops(x) == \/ x.todo \in {<<"drop">>, <<"drop", "release">>}
            \/ \E s \in Step : x.todo = <<s, "drop">>

\* A request that still decides about the claim of its key.
Holds(x) == Drops(x) \/ \E s \in {"terms", "record", "charge", "persist"} : Doing(x, s)
Tried(k) == attempt[k].status # "none"

\* A request, a sweep and a restorer, with what each has read.
OwnFit(x) == x.todo # <<>> =>
    LET k == x.key
    IN /\ k \in Keys
       /\ Holds(x) => claim[k] # "none" /\ (booking[k] # "none" => Tried(k))
       /\ Tried(k) => /\ ~Drops(x)
                      /\ \A s \in {"terms", "record", "charge"} : Doing(x, s) => ~x.new
       /\ Doing(x, "record") => x.class \in Class
       /\ Doing(x, "charge") => x.class = "FIRST" /\ claim[k] = "FIRST"
       /\ Doing(x, "bind") \/ Doing(x, "dispatch") => Tried(k) /\ x.class = "FIRST"
       /\ Doing(x, "compensate") => Tried(k)
       /\ Doing(x, "persist") => \/ x.class = "FIRST" /\ Tried(k)
                                 \/ x.class \in {"FREE", "RETURNING"} /\ claim[k] = x.class
                                    /\ ~Tried(k)

Sweeping == {"booking", "consumed", "unbound", "abandoned", "attempt", "bound", "restore"}
PassFit(x) ==
    /\ (\E s \in Sweeping : Doing(x, s)) => x.row \in Relationship /\ x.row.pending # None
    /\ Doing(x, "bound") => attempt[x.row.pending.key].failed
    /\ Doing(x, "consumed") => booking[x.row.pending.key] # "none"

RestFit(x) == x.todo # <<>> =>
    /\ x.key \in Keys
    /\ Doing(x, "commit") /\ x.row # None => x.row.state = "CONSUMED" /\ x.row.consumed = x.key
    /\ (\E s \in {"history", "restore", "recheck", "revert"} : Doing(x, s)) =>
         /\ booking[x.key] = "CANCELLED_BY_CUSTOMER" /\ x.row \in Relationship
         /\ rel.consumed # None

\* A call to Stripe, and what may come of it, has the claim.
Unsettled(k) == ~attempt[k].failed /\ attempt[k].comp # "REFUNDED" /\ booking[k] = "none"
BoundTo(k) == rel.pending # None /\ rel.pending.key = k /\ rel.pending.bound
CallFit(x) == Doing(x, "dispatch") /\ Unsettled(x.key) => BoundTo(x.key)

Fit(p, x) == /\ Shape(x)
             /\ p \in Requests => OwnFit(x) /\ CallFit(x)
             /\ p \in Requests \cup Sweeps => PassFit(x)
             /\ p \in Restorers => RestFit(x)

KeyFit(k) ==
    /\ claim[k] = "none" => ~Tried(k)
    /\ Tried(k) => claim[k] = "FIRST"
    /\ booking[k] # "none" => claim[k] \in Class
    /\ attempt[k].status = "FAILED" => attempt[k].failed
    /\ attempt[k].sent => attempt[k].status \in {"OPEN", "SUCCEEDED", "FAILED"}
    /\ Charged(k) => BoundTo(k)
    /\ attempt[k].comp # "NOT_REQUIRED" => Tried(k)

\* Until there is an attempt one request at a time holds a key.
Alone == \A p, q \in Requests :
    Holds(proc[p]) /\ Holds(proc[q]) /\ proc[p].key = proc[q].key /\ ~Tried(proc[p].key)
      => p = q

RelOK == /\ rel \in Relationship
         /\ rel.pending = None <=> rel.state \in {"ELIGIBLE", "CONSUMED"}
         /\ rel.state = "CONSUMED" => rel.consumed # None

Types == /\ RelOK
         /\ claim \in [Keys -> ClaimState]
         /\ attempt \in [Keys -> AttemptState]
         /\ booking \in [Keys -> BookingState]
         /\ refund \in [Keys -> RefundState]
         /\ proc \in [Procs -> ProcState]
         /\ calls \in 0..MaxCalls

Inv == /\ Types /\ Alone /\ OneFirst
       /\ \A k \in Keys : KeyFit(k)
       /\ \A p \in Procs : Fit(p, proc[p])

-----------------------------------------------------------------------------
LEMMA One == ASSUME NEW x, NEW s \in Step, x.todo = <<s>>
             PROVE  /\ Shape(x) /\ (Drops(x) => s = "drop") /\ x.todo # <<>>
                    /\ \A t : Doing(x, t) <=> t = s
                    /\ Tail(x.todo) = <<>> /\ x.todo \in Seq(Step)
  BY DEF Shape, Doing, Drops

LEMMA Two == ASSUME NEW x, NEW s \in Step \ {"drop"}, x.todo = <<s, "drop">>
             PROVE  /\ Shape(x) /\ Drops(x) /\ x.todo # <<>>
                    /\ \A t : Doing(x, t) <=> t = s
                    /\ Tail(x.todo) = <<"drop">> /\ x.todo \in Seq(Step)
  BY DEF Shape, Doing, Drops, Step

LEMMA Last == ASSUME NEW x, x.todo = <<"drop", "release">>
              PROVE  /\ Shape(x) /\ Drops(x) /\ x.todo # <<>>
                    /\ \A t : Doing(x, t) <=> t = "drop"
                    /\ Tail(x.todo) = <<"release">> /\ x.todo \in Seq(Step)
  BY DEF Shape, Doing, Drops, Step

LEMMA Joined ==
    ASSUME NEW s \in Step
    PROVE  <<s>> \o <<>> = <<s>> /\ <<s>> \o <<"drop">> = <<s, "drop">>
<1>1. <<s>> \in Seq(Step) /\ <<"drop">> \in Seq(Step)
  BY DEF Step
<1>2. <<s>> \o <<>> = <<s>>
  BY <1>1, ConcatEmptySeq
<1>3. <<s>> \o <<"drop">> = <<s, "drop">>
  <2> DEFINE both == <<s>> \o <<"drop">>
  <2>1. /\ both \in Seq(Step) /\ Len(both) = 2
        /\ \A i \in 1..2 : both[i] = IF i <= 1 THEN <<s>>[i] ELSE <<"drop">>[i - 1]
    BY <1>1, ConcatProperties
  <2>2. both[1] = s /\ both[2] = "drop"
    BY <2>1
  <2>3. <<s, "drop">> \in Seq(Step) /\ Len(<<s, "drop">>) = 2
    BY DEF Step
  <2> HIDE DEF both
  <2>4. \A i \in 1..Len(both) : both[i] = <<s, "drop">>[i]
    BY <2>1, <2>2
  <2>5. both = <<s, "drop">>
    BY <2>1, <2>3, <2>4, SeqEqual
  <2> QED
    BY <2>5 DEF both
<1> QED
  BY <1>2, <1>3

LEMMA DropFirst == <<"drop">> \o <<"release">> = <<"drop", "release">>
<1> DEFINE both == <<"drop">> \o <<"release">>
<1>1. <<"drop">> \in Seq(Step) /\ <<"release">> \in Seq(Step)
  BY DEF Step
<1>2. /\ both \in Seq(Step) /\ Len(both) = 2
      /\ \A i \in 1..2 : both[i] = IF i <= 1 THEN <<"drop">>[i] ELSE <<"release">>[i - 1]
  BY <1>1, ConcatProperties
<1>3. both[1] = "drop" /\ both[2] = "release"
  BY <1>2
<1>4. <<"drop", "release">> \in Seq(Step) /\ Len(<<"drop", "release">>) = 2
  BY DEF Step
<1> HIDE DEF both
<1>5. \A i \in 1..Len(both) : both[i] = <<"drop", "release">>[i]
  BY <1>2, <1>3
<1>6. both = <<"drop", "release">>
  BY <1>2, <1>4, <1>5, SeqEqual
<1> QED
  BY <1>6 DEF both

-----------------------------------------------------------------------------
(* What a process has to do after a step. *)

\* x is y with other steps to do and another row.
Same(x, y) == x.key = y.key /\ x.new = y.new /\ x.class = y.class

LEMMA IdleFits == Idle \in ProcState /\ Shape(Idle) /\ Idle.todo = <<>>
  BY EmptySeq DEF Idle, ProcState, Shape

\* It goes on to step s; what else it had to do it still has.
Goes(p, s, row) == Then(p, <<s>>, row)
Gone(p, x, s, row) ==
    /\ proc' = [proc EXCEPT ![p] = x] /\ Shape(x) /\ Same(x, proc[p]) /\ x.row = row
    /\ x.todo # <<>> /\ \A u : Doing(x, u) <=> u = s
    /\ Drops(x) => Drops(proc[p])

LEMMA Onto ==
    ASSUME Types, NEW p \in Procs, Shape(proc[p]), NEW t \in Step \ {"drop"}, At(p, t),
           NEW s \in Step \ {"drop"}, NEW row \in Relationship \cup {None}, Goes(p, s, row)
    PROVE  \E x \in ProcState : Gone(p, x, s, row)
<1> DEFINE y == proc[p]
           x == [y EXCEPT !.todo = <<s>> \o Tail(y.todo), !.row = row]
<1>1. y \in ProcState
  BY DEF Types
<1>2. Tail(y.todo) = <<>> \/ (Tail(y.todo) = <<"drop">> /\ Drops(y))
  <2>1. y.todo # <<>> /\ Head(y.todo) # "drop"
    BY DEF At
  <2>2. CASE y.todo = <<"drop", "release">>
    BY <2>1, <2>2
  <2>3. CASE \E u \in Step : y.todo = <<u>>
    BY <2>3, One
  <2>4. CASE \E u \in Step \ {"drop"} : y.todo = <<u, "drop">>
    BY <2>4, Two
  <2> QED
    BY <2>1, <2>2, <2>3, <2>4 DEF Shape
<1>3. x.todo = <<s>> \/ (x.todo = <<s, "drop">> /\ Drops(y))
  BY <1>1, <1>2, Joined DEF ProcState
<1>4. Shape(x) /\ x.todo # <<>> /\ x.todo \in Seq(Step) /\ \A u : Doing(x, u) <=> u = s
  <2> HIDE DEF x
  <2> QED
    BY <1>3, One, Two
<1>5. Drops(x) => Drops(y)
  <2> HIDE DEF x
  <2> QED
    BY <1>3, One
<1>6. x \in ProcState /\ Same(x, y) /\ x.row = row
  BY <1>1, <1>4 DEF ProcState, Same
<1>7. proc' = [proc EXCEPT ![p] = x]
  BY <1>4 DEF Then, Goes
<1> QED
  BY <1>4, <1>5, <1>6, <1>7 DEF Gone

\* It has done its last step, and at most gives its claim back.
LEMMA Finished ==
    ASSUME Types, NEW p \in Procs, Shape(proc[p]), NEW t \in Step \ {"drop"}, At(p, t), Done(p)
    PROVE  \E x \in ProcState :
             /\ proc' = [proc EXCEPT ![p] = x] /\ Shape(x)
             /\ x.todo # <<>> => /\ x.key = proc[p].key /\ Drops(proc[p])
                                 /\ \A u : Doing(x, u) <=> u = "drop"
<1> DEFINE y == proc[p]
<1>1. y \in ProcState
  BY DEF Types
<1>2. Tail(y.todo) = <<>> \/ (Tail(y.todo) = <<"drop">> /\ Drops(y))
  <2>1. y.todo # <<>> /\ Head(y.todo) # "drop"
    BY DEF At
  <2>2. CASE y.todo = <<"drop", "release">>
    BY <2>1, <2>2
  <2>3. CASE \E u \in Step : y.todo = <<u>>
    BY <2>3, One
  <2>4. CASE \E u \in Step \ {"drop"} : y.todo = <<u, "drop">>
    BY <2>4, Two
  <2> QED
    BY <2>1, <2>2, <2>3, <2>4 DEF Shape
<1>3. CASE Tail(y.todo) = <<>>
  <2>1. <<>> \o Tail(y.todo) = <<>>
    BY <1>3, EmptySeq, ConcatEmptySeq
  <2>2. proc' = [proc EXCEPT ![p] = Idle]
    BY <2>1 DEF Done, Then
  <2>3. Idle \in ProcState /\ Shape(Idle) /\ Idle.todo = <<>>
    BY EmptySeq DEF Idle, ProcState, Shape
  <2> QED
    BY <2>2, <2>3
<1>4. CASE Tail(y.todo) = <<"drop">> /\ Drops(y)
  <2> DEFINE x == [y EXCEPT !.todo = <<"drop">>, !.row = None]
  <2>1. <<"drop">> \in Seq(Step) /\ "drop" \in Step
    BY DEF Step
  <2>2. <<>> \o Tail(y.todo) = <<"drop">> /\ <<"drop">> # <<>>
    BY <1>4, <2>1, ConcatEmptySeq
  <2>3. proc' = [proc EXCEPT ![p] = x]
    BY <2>2 DEF Done, Then
  <2>4. x \in ProcState /\ x.key = y.key /\ x.todo = <<"drop">>
    BY <1>1, <2>1 DEF ProcState
  <2> HIDE DEF x
  <2>5. Shape(x) /\ \A u : Doing(x, u) <=> u = "drop"
    BY <2>1, <2>4, One
  <2> QED
    BY <1>4, <2>3, <2>4, <2>5
<1> QED
  BY <1>2, <1>3, <1>4

LEMMA Dropped ==
    ASSUME Types, NEW p \in Procs, Shape(proc[p]), At(p, "drop"), Done(p)
    PROVE  /\ Drops(proc[p])
           /\ \E x \in ProcState :
                /\ proc' = [proc EXCEPT ![p] = x] /\ Shape(x) /\ ~Drops(x)
                /\ x.todo # <<>> => /\ x.key = proc[p].key
                                    /\ \A u : Doing(x, u) <=> u = "release"
<1> DEFINE y == proc[p]
<1>1. y \in ProcState
  BY DEF Types
<1>2. y.todo = <<"drop">> \/ y.todo = <<"drop", "release">>
  <2>1. y.todo # <<>> /\ Head(y.todo) = "drop"
    BY DEF At
  <2>3. CASE \E u \in Step : y.todo = <<u>>
    BY <2>1, <2>3
  <2>4. CASE \E u \in Step \ {"drop"} : y.todo = <<u, "drop">>
    BY <2>1, <2>4
  <2> QED
    BY <2>1, <2>3, <2>4 DEF Shape
<1>3. CASE y.todo = <<"drop">>
  <2>1. <<>> \o Tail(y.todo) = <<>>
    BY <1>3, EmptySeq, ConcatEmptySeq
  <2>2. proc' = [proc EXCEPT ![p] = Idle]
    BY <2>1 DEF Done, Then
  <2>3. Idle \in ProcState /\ Shape(Idle) /\ ~Drops(Idle) /\ Idle.todo = <<>>
    BY EmptySeq DEF Idle, ProcState, Shape, Drops
  <2> QED
    BY <1>3, <2>2, <2>3 DEF Drops
<1>4. CASE y.todo = <<"drop", "release">>
  <2> DEFINE x == [y EXCEPT !.todo = <<"release">>, !.row = None]
  <2>1. <<"release">> \in Seq(Step) /\ "release" \in Step
    BY DEF Step
  <2>2. <<>> \o Tail(y.todo) = <<"release">> /\ <<"release">> # <<>>
    BY <1>4, <2>1, ConcatEmptySeq
  <2>3. proc' = [proc EXCEPT ![p] = x]
    BY <2>2 DEF Done, Then
  <2>4. x \in ProcState /\ x.key = y.key /\ x.todo = <<"release">>
    BY <1>1, <2>1 DEF ProcState
  <2> HIDE DEF x
  <2>5. Shape(x) /\ ~Drops(x) /\ \A u : Doing(x, u) <=> u = "release"
    BY <2>1, <2>4, One
  <2> QED
    BY <1>4, <2>3, <2>4, <2>5 DEF Drops
<1> QED
  BY <1>2, <1>3, <1>4

\* It gives up all but some steps.
LeftTo(p, x, steps) == /\ proc' = [proc EXCEPT ![p] = x] /\ x.todo = steps
                       /\ steps # <<>> => x.key = proc[p].key

LEMMA Left ==
    ASSUME Types, NEW p \in Procs, NEW steps \in Seq(Step), Leave(p, steps)
    PROVE  \E x \in ProcState : LeftTo(p, x, steps)
<1> DEFINE x == IF steps = <<>> THEN Idle ELSE [Idle EXCEPT !.todo = steps, !.key = Key(p)]
<1>1. proc' = [proc EXCEPT ![p] = x]
  BY DEF Leave
<1>2. x \in ProcState /\ x.todo = steps /\ (steps # <<>> => x.key = proc[p].key)
  BY EmptySeq DEF Idle, ProcState, Key, Types
<1> QED
  BY <1>1, <1>2 DEF LeftTo

-----------------------------------------------------------------------------
(* What a step leaves true of the processes that do not take it. *)

Mine(p, k) == p \in Requests /\ Holds(proc[p]) /\ Key(p) = k

Kept(k) == /\ claim'[k] = claim[k]
           /\ attempt'[k].status # "none" => Tried(k)
           /\ booking'[k] # "none" => booking[k] # "none" \/ Tried(k)

Lasting(k) == /\ Tried(k) => attempt'[k].status # "none" /\ claim'[k] = claim[k]
              /\ attempt[k].failed => attempt'[k].failed
              /\ attempt[k].comp = "REFUNDED" => attempt'[k].comp = "REFUNDED"
              /\ booking[k] # "none" => booking'[k] # "none"
              /\ booking[k] = "CANCELLED_BY_CUSTOMER" => booking'[k] = "CANCELLED_BY_CUSTOMER"
              /\ BoundTo(k) /\ Unsettled(k)' => BoundTo(k)'

Stable == /\ \A k \in Keys : Lasting(k)
          /\ rel.consumed # None => rel'.consumed # None

LEMMA StillFits ==
    ASSUME Stable, NEW q \in Procs, NEW y \in ProcState, Fit(q, y),
           q \in Requests /\ y.todo # <<>> /\ Holds(y) => Kept(y.key)
    PROVE  Fit(q, y)'
<1> USE DEF Stable, Lasting, Tried
<1>1. q \in Requests => OwnFit(y)'
  <2> SUFFICES ASSUME q \in Requests, y.todo # <<>> PROVE OwnFit(y)'
    BY DEF OwnFit
  <2>1. OwnFit(y) /\ y.key \in Keys
    BY DEF Fit, OwnFit
  <2>2. CASE Holds(y)
    BY <2>1, <2>2 DEF OwnFit, Kept
  <2>3. CASE ~Holds(y)
    BY <2>1, <2>3 DEF OwnFit, Holds
  <2> QED
    BY <2>2, <2>3
<1>2. q \in Requests => CallFit(y)'
  <2> SUFFICES ASSUME q \in Requests, Doing(y, "dispatch"), Unsettled(y.key)' PROVE BoundTo(y.key)'
    BY DEF CallFit
  <2>1. y.key \in Keys
    BY DEF Fit, OwnFit, Doing
  <2>2. Unsettled(y.key)
    BY <2>1 DEF Unsettled
  <2> QED
    BY <2>1, <2>2 DEF Fit, CallFit
<1>3. q \in Requests \cup Sweeps => PassFit(y)'
  <2> SUFFICES ASSUME q \in Requests \cup Sweeps PROVE PassFit(y)'
    OBVIOUS
  <2>1. PassFit(y)
    BY DEF Fit
  <2>2. Doing(y, "bound") \/ Doing(y, "consumed") => y.row.pending.key \in Keys
    BY <2>1 DEF PassFit, Sweeping, Relationship, Pending
  <2> QED
    BY <2>1, <2>2 DEF PassFit
<1>4. q \in Restorers => RestFit(y)'
  BY DEF Fit, RestFit
<1> QED
  BY <1>1, <1>2, <1>3, <1>4 DEF Fit

\* A step of process p to x.
LEMMA StepInv ==
    ASSUME Inv, Stable, Types', OneFirst', \A k \in Keys : KeyFit(k)',
           NEW p \in Procs, NEW x \in ProcState, proc' = [proc EXCEPT ![p] = x], Fit(p, x)',
           \A k \in Keys : Kept(k) \/ (~Tried(k) /\ (claim[k] = "none" \/ Mine(p, k))),
           p \in Requests /\ Holds(x) =>
             Mine(p, x.key) \/ claim[x.key] = "none" \/ attempt'[x.key].status # "none"
    PROVE  Inv'
<1>1. proc \in [Procs -> ProcState]
  BY DEF Inv, Types
<1>2. ASSUME NEW q \in Requests, NEW y, y = proc[q], Holds(y), q # p
      PROVE  /\ y.key \in Keys /\ claim[y.key] # "none" /\ Kept(y.key)
             /\ Tried(y.key) \/ ~Mine(p, y.key)
  <2>1. Fit(q, y) /\ y.todo # <<>>
    BY <1>2 DEF Inv, Procs, Holds, Drops, Doing
  <2>2. y.key \in Keys /\ claim[y.key] # "none"
    BY <1>2, <2>1 DEF Fit, OwnFit
  <2>3. Tried(y.key) \/ ~Mine(p, y.key)
    BY <1>2, <2>2 DEF Inv, Alone, Mine, Key
  <2> QED
    BY <2>2, <2>3
<1>3. ASSUME NEW q \in Procs PROVE Fit(q, proc[q])'
  <2> PICK y \in ProcState : y = proc[q]
    BY <1>1
  <2>1. CASE q = p
    BY <2>1, <1>1
  <2>2. CASE q # p
    <3>1. Fit(q, y)
      BY DEF Inv
    <3>2. q \in Requests /\ Holds(y) => Kept(y.key)
      BY <1>2, <2>2
    <3>3. Fit(q, y)'
      BY <3>1, <3>2, StillFits
    <3>4. proc'[q] = y
      BY <2>2, <1>1
    <3> QED
      BY <3>3, <3>4
  <2> QED
    BY <2>1, <2>2
<1>4. Alone'
  <2> SUFFICES ASSUME NEW q \in Requests, NEW r \in Requests, Holds(proc'[q]), Holds(proc'[r]),
                      proc'[q].key = proc'[r].key, attempt'[proc'[q].key].status = "none"
               PROVE  q = r
    BY DEF Alone, Tried
  <2>1. q \in Procs /\ r \in Procs
    BY DEF Procs
  <2>2. ASSUME NEW s \in Requests, Holds(proc'[s]), proc'[s].key = x.key, p \in Requests, Holds(x),
               attempt'[x.key].status = "none", s # p
        PROVE  FALSE
    <3>1. proc'[s] = proc[s]
      BY <2>2, <1>1 DEF Procs
    <3>2. /\ x.key \in Keys /\ claim[x.key] # "none"
          /\ Tried(x.key) \/ ~Mine(p, x.key)
      BY <2>2, <3>1, <1>2
    <3>3. ~Tried(x.key)
      BY <2>2, <3>2 DEF Stable, Lasting
    <3> QED
      BY <2>2, <3>2, <3>3
  <2>3. CASE q = p
    BY <2>1, <2>2, <2>3, <1>1
  <2>4. CASE r = p
    BY <2>1, <2>2, <2>4, <1>1
  <2>5. CASE q # p /\ r # p
    <3>1. proc'[q] = proc[q] /\ proc'[r] = proc[r]
      BY <2>1, <2>5, <1>1
    <3>2. proc[q].key \in Keys
      BY <3>1, <2>5, <1>2
    <3>3. ~Tried(proc[q].key)
      BY <3>1, <3>2 DEF Stable, Lasting
    <3> QED
      BY <3>1, <3>3 DEF Inv, Alone
  <2> QED
    BY <2>3, <2>4, <2>5
<1> QED
  BY <1>3, <1>4 DEF Inv

\* A step of the payment side, or a cancellation that is one transaction.
LEMMA StayInv ==
    ASSUME Inv, Stable, Types', OneFirst', \A k \in Keys : KeyFit(k)', \A k \in Keys : Kept(k),
           proc' = proc
    PROVE  Inv'
<1>1. proc \in [Procs -> ProcState]
  BY DEF Inv, Types
<1>2. ASSUME NEW q \in Procs PROVE Fit(q, proc[q])'
  <2> PICK y \in ProcState : y = proc[q]
    BY <1>1
  <2>1. Fit(q, y)
    BY DEF Inv
  <2>2. q \in Requests /\ y.todo # <<>> => y.key \in Keys
    BY <2>1 DEF Fit, OwnFit
  <2>3. Fit(q, y)'
    BY <2>1, <2>2, StillFits
  <2> QED
    BY <2>3
<1>3. Alone'
  <2> SUFFICES ASSUME NEW q \in Requests, NEW r \in Requests, Holds(proc[q]), Holds(proc[r]),
                      proc[q].key = proc[r].key, attempt'[proc[q].key].status = "none"
               PROVE  q = r
    BY DEF Alone, Tried
  <2>1. proc[q].key \in Keys
    <3>1. Fit(q, proc[q]) /\ proc[q].todo # <<>>
      BY DEF Inv, Procs, Holds, Drops, Doing
    <3> QED
      BY <3>1 DEF Fit, OwnFit
  <2>2. ~Tried(proc[q].key)
    BY <2>1 DEF Stable, Lasting
  <2> QED
    BY <2>2 DEF Inv, Alone
<1> QED
  BY <1>2, <1>3 DEF Inv

-----------------------------------------------------------------------------
(* Steps that write the relationship only, or nothing but what they have to do. *)

RelStep == /\ RelOK' /\ (rel.consumed # None => rel'.consumed # None)
           /\ rel.state = "CONSUMED" =>
                rel' = rel \/ \A k \in Keys : rel.consumed = k => booking[k] # "UPCOMING"
           /\ \A k \in Keys : BoundTo(k) /\ Unsettled(k) => BoundTo(k)'

Others == <<claim, attempt, booking, refund, calls>>

LEMMA RelInv ==
    ASSUME Inv, UNCHANGED <<claim, attempt, booking, calls>>, refund' \in [Keys -> RefundState], RelStep,
           NEW p \in Procs, NEW x \in ProcState, proc' = [proc EXCEPT ![p] = x], Fit(p, x)',
           p \in Requests /\ Holds(x) => Mine(p, x.key) \/ claim[x.key] = "none" \/ Tried(x.key)
    PROVE  Inv'
<1> USE DEF RelStep
<1>1. Types'
  BY DEF Inv, Types
<1>2. Stable
  BY DEF Stable, Lasting, Tried, Unsettled
<1>3. OneFirst'
  BY DEF Inv, OneFirst
<1>4. ASSUME NEW k \in Keys PROVE KeyFit(k)'
  <2>1. KeyFit(k) /\ (Charged(k)' => Charged(k) /\ Unsettled(k))
    BY DEF Inv, Charged, Unsettled
  <2> QED
    BY <2>1 DEF KeyFit, Tried
<1>5. \A k \in Keys : Kept(k)
  BY DEF Kept, Tried
<1> QED
  BY <1>1, <1>2, <1>3, <1>4, <1>5, StepInv DEF Tried

LEMMA RelStays == ASSUME Inv, UNCHANGED rel PROVE RelStep
  BY DEF Inv, Types, RelOK, RelStep, BoundTo

\* A claim that is released, or given back after it was consumed.
LEMMA ToFields ==
    ASSUME rel \in Relationship, NEW pending \in Pending \cup {None},
           NEW state \in {"ELIGIBLE", "FIRST_PENDING", "RESTORATION_PENDING", "CONSUMED"}
    PROVE  LET r == To(state, pending)
           IN /\ r \in Relationship /\ r.state = state /\ r.pending = pending
              /\ r.consumed = rel.consumed
<1>1. PICK y \in Relationship : y = rel
  OBVIOUS
<1>2. y.revision + 1 \in Nat
  BY DEF Relationship
<1>3. To(state, pending) = [y EXCEPT !.state = state, !.pending = pending,
                                     !.revision = y.revision + 1, !.released = None]
  BY <1>1 DEF To
<1>4. To(state, pending) = [state |-> state, revision |-> y.revision + 1, pending |-> pending,
                            consumed |-> y.consumed, released |-> None]
  BY <1>3 DEF Relationship
<1> QED
  BY <1>1, <1>2, <1>4 DEF Relationship

LEMMA ReleasedFields ==
    ASSUME rel \in Relationship
    PROVE  /\ Released \in Relationship /\ Released.state = "ELIGIBLE"
           /\ Released.pending = None /\ Released.consumed = rel.consumed
  BY ToFields DEF Released

LEMMA GivenBack ==
    ASSUME Inv, rel' \in Relationship, rel'.state = "ELIGIBLE", rel'.pending = None,
           rel'.consumed = rel.consumed,
           \/ rel.pending # None /\ (rel.pending.bound => ~Unsettled(rel.pending.key))
           \/ rel.state = "CONSUMED" /\ booking[rel.consumed] # "UPCOMING"
    PROVE  RelStep
<1>1. RelOK /\ rel \in Relationship
  BY DEF Inv, Types, RelOK
<1>2. RelOK'
  BY DEF RelOK
<1>3. rel.state = "CONSUMED" => rel.pending = None
  BY <1>1 DEF RelOK
<1>4. \A j \in Keys : BoundTo(j) => ~Unsettled(j)
  BY <1>3 DEF BoundTo
<1>5. rel.state = "CONSUMED" => \A j \in Keys : rel.consumed = j => booking[j] # "UPCOMING"
  BY <1>3
<1> QED
  BY <1>2, <1>4, <1>5 DEF RelStep

LEMMA ReleasedOK ==
    ASSUME Inv, rel' = Released,
           rel.pending # None, rel.pending.bound => ~Unsettled(rel.pending.key)
    PROVE  RelStep
<1>1. rel \in Relationship
  BY DEF Inv, Types, RelOK
<1> QED
  BY <1>1, ReleasedFields, GivenBack

\* One more step of reconcile: it decides nothing about the claim of a request.
LEMMA PassInv ==
    ASSUME Inv, UNCHANGED Others, RelStep,
           NEW p \in Requests \cup Sweeps, proc[p].todo # <<>>,
           NEW x \in ProcState, proc' = [proc EXCEPT ![p] = x], Shape(x), PassFit(x)',
           x.todo # <<>> => /\ x.key = proc[p].key /\ (Drops(x) => Drops(proc[p]))
                            /\ \A u : Doing(x, u) => u \in Sweeping \cup {"drop", "row"}
    PROVE  Inv'
<1>1. p \in Procs /\ p \notin Restorers
  BY DEF Procs
<1>2. ASSUME p \in Requests PROVE OwnFit(x)' /\ CallFit(x)' /\ (Holds(x) => Mine(p, x.key))
  <2>1. OwnFit(proc[p])
    BY <1>1, <1>2 DEF Inv, Fit
  <2>2. x.todo # <<>> => \A u \in {"terms", "record", "charge", "bind", "dispatch", "persist", "compensate"} :
                           ~Doing(x, u)
    BY DEF Sweeping
  <2>3. x.todo = <<>> => ~Holds(x) /\ \A u : ~Doing(x, u)
    BY DEF Holds, Doing, Drops
  <2>4. Holds(x) => Drops(x) /\ Drops(proc[p]) /\ x.todo # <<>>
    BY <2>2, <2>3 DEF Holds
  <2>5. OwnFit(x)'
    BY <2>1, <2>2, <2>4 DEF OwnFit, Others, Tried, Holds
  <2>6. CallFit(x)'
    BY <2>2, <2>3 DEF CallFit
  <2>7. Holds(x) => Mine(p, x.key)
    BY <1>2, <2>4 DEF Mine, Key, Holds
  <2> QED
    BY <2>5, <2>6, <2>7
<1>3. Fit(p, x)'
  BY <1>1, <1>2 DEF Fit
<1>4. UNCHANGED <<claim, attempt, booking, calls>> /\ refund' \in [Keys -> RefundState]
  BY DEF Others, Inv, Types
<1> QED
  BY <1>1, <1>2, <1>3, <1>4, RelInv

\* A step of reconcile that ends it.
LEMMA PassDone ==
    ASSUME Inv, UNCHANGED Others, RelStep, NEW p \in Requests \cup Sweeps,
           NEW t \in Step \ {"drop"}, At(p, t), Done(p)
    PROVE  Inv'
<1>1. p \in Procs /\ Shape(proc[p]) /\ Types /\ proc[p].todo # <<>>
  BY DEF Procs, Inv, Fit, At
<1>2. PICK x \in ProcState :
             /\ proc' = [proc EXCEPT ![p] = x] /\ Shape(x)
             /\ x.todo # <<>> => /\ x.key = proc[p].key /\ Drops(proc[p])
                                 /\ \A u : Doing(x, u) <=> u = "drop"
  BY <1>1, Finished
<1>3. \A u : Doing(x, u) => u = "drop"
  BY <1>2 DEF Doing
<1>4. PassFit(x)'
  BY <1>3 DEF PassFit, Sweeping
<1> QED
  BY <1>1, <1>2, <1>3, <1>4, PassInv

\* A step of reconcile that goes on to s with row.
Passing(p) == \E t \in Step \ {"drop"} : At(p, t)
Ahead(p, s, row) ==
    /\ s \in Sweeping \cup {"row"} /\ row \in Relationship \cup {None} /\ Goes(p, s, row)
    /\ s # "row" => row \in Relationship /\ row.pending # None
    /\ s = "bound" => attempt[row.pending.key].failed
    /\ s = "consumed" => booking[row.pending.key] # "none"

LEMMA PassOn ==
    ASSUME Inv, UNCHANGED Others, RelStep, NEW p \in Requests \cup Sweeps,
           Passing(p), NEW s, NEW row, Ahead(p, s, row)
    PROVE  Inv'
<1>a. PICK t \in Step \ {"drop"} : At(p, t)
  BY DEF Passing
<1>1. p \in Procs /\ Shape(proc[p]) /\ Types /\ proc[p].todo # <<>>
  BY <1>a DEF Procs, Inv, Fit, At
<1>2. s \in Step \ {"drop"}
  BY DEF Step, Sweeping, Ahead
<1>3. PICK x \in ProcState : Gone(p, x, s, row)
  BY <1>a, <1>1, <1>2, Onto DEF Ahead
<1>4. PassFit(x)'
  BY <1>3 DEF PassFit, Sweeping, Others, Ahead, Gone
<1>5. /\ x.key = proc[p].key /\ (Drops(x) => Drops(proc[p]))
      /\ \A u : Doing(x, u) => u \in Sweeping \cup {"drop", "row"}
  BY <1>3 DEF Same, Ahead, Gone
<1> QED
  BY <1>1, <1>3, <1>4, <1>5, PassInv DEF Gone

-----------------------------------------------------------------------------
(* reconcile *)

LEMMA RowFit ==
    ASSUME Inv, NEW p \in Requests \cup Sweeps, NEW s \in Sweeping, At(p, s)
    PROVE  /\ Row(p) \in Relationship /\ Row(p).pending \in Pending /\ Row(p).pending # None
           /\ Row(p).pending.key \in Keys
           /\ s = "bound" => attempt[Row(p).pending.key].failed
           /\ s = "consumed" => booking[Row(p).pending.key] # "none"
<1>1. PassFit(proc[p]) /\ Doing(proc[p], s)
  BY DEF Inv, Fit, Procs, At, Doing
<1>2. Row(p) \in Relationship /\ Row(p).pending # None
  BY <1>1 DEF PassFit, Row
<1>3. Row(p).pending \in Pending
  BY <1>2 DEF Relationship
<1> QED
  BY <1>1, <1>2, <1>3 DEF PassFit, Row, Pending

LEMMA RelTypes == ASSUME Inv PROVE RelOK /\ rel \in Relationship
  BY DEF Inv, Types, RelOK

\* Whether the write to the relationship finds its filter or not.
LEMMA MaybeReleased ==
    ASSUME Inv, NEW cond, rel' = If(cond, Released),
           cond => rel.pending # None /\ (rel.pending.bound => ~Unsettled(rel.pending.key))
    PROVE  RelStep
  BY ReleasedOK, RelStays DEF If

LEMMA StartSweepInv == ASSUME Inv, NEW p \in Sweeps, StartSweep(p) PROVE Inv'
<1>1. proc \in [Procs -> ProcState] /\ p \in Procs /\ p \notin Requests /\ p \notin Restorers
  BY DEF Inv, Types, Procs
<1>2. \E x \in ProcState : /\ proc' = [proc EXCEPT ![p] = x] /\ x.todo = <<"booking">>
                           /\ x.row = rel
  <2> DEFINE x == [proc[p] EXCEPT !.todo = <<"booking">>, !.row = rel]
  <2>1. <<"booking">> \in Seq(Step)
    BY DEF Step
  <2>2. x \in ProcState /\ x.todo = <<"booking">> /\ x.row = rel
    BY <1>1, <2>1, RelTypes DEF ProcState
  <2>3. proc' = [proc EXCEPT ![p] = x]
    BY <1>1 DEF StartSweep, ProcState
  <2> QED
    BY <2>2, <2>3
<1>3. PICK x \in ProcState : /\ proc' = [proc EXCEPT ![p] = x] /\ x.todo = <<"booking">>
                             /\ x.row = rel
  BY <1>2
<1>4. /\ UNCHANGED <<claim, attempt, booking, calls>> /\ RelStep /\ UNCHANGED rel
      /\ refund' \in [Keys -> RefundState]
  BY RelStays DEF StartSweep, Inv, Types
<1>5. Shape(x) /\ \A u : Doing(x, u) <=> u = "booking"
  BY <1>3, One DEF Step
<1>6. PassFit(x)'
  BY <1>3, <1>5, RelTypes DEF PassFit, StartSweep
<1>7. Fit(p, x)'
  BY <1>1, <1>5, <1>6 DEF Fit
<1> QED
  BY <1>1, <1>3, <1>4, <1>7, RelInv

LEMMA ReadRowInv == ASSUME Inv, NEW p \in Requests \cup Sweeps, ReadRow(p) PROVE Inv'
<1>1. /\ UNCHANGED Others /\ RelStep /\ At(p, "row") /\ "row" \in Step \ {"drop"}
      /\ Passing(p)
  BY RelStays DEF ReadRow, Others, Step, Passing
<1>2. CASE rel.pending = None
  BY <1>1, <1>2, PassDone DEF ReadRow
<1>3. CASE rel.pending # None
  <2>1. Ahead(p, "booking", rel)
    BY <1>1, <1>3, RelTypes DEF ReadRow, Ahead, Sweeping, Goes
  <2> QED
    BY <1>1, <2>1, PassOn
<1> QED
  BY <1>2, <1>3

LEMMA ReadBookingInv == ASSUME Inv, NEW p \in Requests \cup Sweeps, ReadBooking(p) PROVE Inv'
<1>1. /\ UNCHANGED Others /\ RelStep /\ At(p, "booking") /\ "booking" \in Step \ {"drop"}
      /\ Passing(p)
  BY RelStays DEF ReadBooking, Others, Step, Passing
<1>2. Row(p) \in Relationship /\ Row(p).pending # None
  BY <1>1, RowFit DEF Sweeping
<1>3. \/ Done(p)
      \/ \E s \in {"restore", "unbound", "attempt"} : Then(p, <<s>>, Row(p))
      \/ booking[Row(p).pending.key] # "none" /\ Then(p, <<"consumed">>, Row(p))
  BY DEF ReadBooking
<1>4. CASE Done(p)
  BY <1>1, <1>4, PassDone
<1>5. ASSUME NEW s \in {"restore", "unbound", "attempt"}, Then(p, <<s>>, Row(p)) PROVE Inv'
  <2>1. Ahead(p, s, Row(p))
    BY <1>1, <1>2, <1>5 DEF Ahead, Sweeping, Goes
  <2> QED
    BY <1>1, <2>1, PassOn
<1>6. CASE booking[Row(p).pending.key] # "none" /\ Then(p, <<"consumed">>, Row(p))
  <2>1. Ahead(p, "consumed", Row(p))
    BY <1>1, <1>2, <1>6 DEF Ahead, Sweeping, Goes
  <2> QED
    BY <1>1, <2>1, PassOn
<1> QED
  BY <1>3, <1>4, <1>5, <1>6

LEMMA ReadKeyedAttemptInv ==
    ASSUME Inv, NEW p \in Requests \cup Sweeps, ReadKeyedAttempt(p) PROVE Inv'
<1>1. /\ UNCHANGED Others /\ RelStep /\ At(p, "unbound") /\ "unbound" \in Step \ {"drop"}
      /\ Passing(p)
  BY RelStays DEF ReadKeyedAttempt, Others, Step, Passing
<1>2. Row(p) \in Relationship /\ Row(p).pending # None
  BY <1>1, RowFit DEF Sweeping
<1>3. Done(p) \/ Then(p, <<"abandoned">>, Row(p))
  BY DEF ReadKeyedAttempt
<1>4. CASE Done(p)
  BY <1>1, <1>4, PassDone
<1>5. CASE Then(p, <<"abandoned">>, Row(p))
  <2>1. Ahead(p, "abandoned", Row(p))
    BY <1>1, <1>2, <1>5 DEF Ahead, Sweeping, Goes
  <2> QED
    BY <1>1, <2>1, PassOn
<1> QED
  BY <1>3, <1>4, <1>5

LEMMA ReleaseAbandonedInv ==
    ASSUME Inv, NEW p \in Requests \cup Sweeps, ReleaseAbandoned(p) PROVE Inv'
<1>1. UNCHANGED Others /\ At(p, "abandoned") /\ "abandoned" \in Step \ {"drop"} /\ Done(p)
  BY DEF ReleaseAbandoned, Others, Step
<1>2. RelStep
  BY MaybeReleased DEF ReleaseAbandoned, MayReleaseUnbound, Owns
<1> QED
  BY <1>1, <1>2, PassDone

LEMMA ReleaseFailedInv ==
    ASSUME Inv, NEW p \in Requests \cup Sweeps, ReleaseFailed(p) PROVE Inv'
<1>1. UNCHANGED Others /\ At(p, "bound") /\ "bound" \in Step \ {"drop"} /\ Done(p)
  BY DEF ReleaseFailed, Others, Step
<1>2. attempt[Row(p).pending.key].failed
  BY <1>1, RowFit DEF Sweeping
<1>3. RelStep
  BY <1>2, MaybeReleased DEF ReleaseFailed, MayReleaseBound, Owns, Unsettled
<1> QED
  BY <1>1, <1>3, PassDone

LEMMA FinishBusinessRestorationInv ==
    ASSUME Inv, NEW p \in Requests \cup Sweeps, FinishBusinessRestoration(p) PROVE Inv'
<1>1. UNCHANGED Others /\ At(p, "restore") /\ "restore" \in Step \ {"drop"} /\ Done(p)
  BY DEF FinishBusinessRestoration, Others, Step
<1>2. RelStep
  BY MaybeReleased DEF FinishBusinessRestoration, MayFinish, Owns, Unsettled
<1> QED
  BY <1>1, <1>2, PassDone

LEMMA ConsumedFields ==
    ASSUME rel \in Relationship, NEW k \in Keys
    PROVE  /\ Consumed(k) \in Relationship /\ Consumed(k).state = "CONSUMED"
           /\ Consumed(k).pending = None /\ Consumed(k).consumed = k
<1>1. PICK r \in Relationship : r = To("CONSUMED", None) /\ r.state = "CONSUMED" /\ r.pending = None
  BY ToFields
<1>2. Consumed(k) = [r EXCEPT !.consumed = k, !.released = rel.released]
  BY <1>1 DEF Consumed
<1>3. rel.released \in Keys \cup {None}
  BY DEF Relationship
<1> QED
  BY <1>1, <1>2, <1>3 DEF Relationship

LEMMA ConsumeForBookingInv ==
    ASSUME Inv, NEW p \in Requests \cup Sweeps, ConsumeForBooking(p) PROVE Inv'
<1>1. UNCHANGED Others /\ At(p, "consumed") /\ "consumed" \in Step \ {"drop"} /\ Done(p)
  BY DEF ConsumeForBooking, Others, Step
<1>2. PICK k \in Keys : k = Row(p).pending.key /\ booking[k] # "none"
  BY <1>1, RowFit DEF Sweeping
<1>3. CASE MayConsume(k, Row(p).pending.bound)
  <2>1. rel' = Consumed(k)
    BY <1>2, <1>3 DEF ConsumeForBooking, If
  <2>2. rel' \in Relationship /\ rel'.state = "CONSUMED" /\ rel'.pending = None /\ rel'.consumed = k
    BY <2>1, RelTypes, ConsumedFields
  <2>3. RelOK'
    BY <2>2 DEF RelOK
  <2>4. rel.state # "CONSUMED" /\ \A j \in Keys : BoundTo(j) => ~Unsettled(j)
    BY <1>2, <1>3 DEF MayConsume, Owns, BoundTo, Unsettled
  <2> QED
    BY <1>1, <2>2, <2>3, <2>4, PassDone DEF RelStep
<1>4. CASE ~MayConsume(k, Row(p).pending.bound)
  BY <1>1, <1>2, <1>4, RelStays, PassDone DEF ConsumeForBooking, If
<1> QED
  BY <1>3, <1>4

LEMMA MarkedFields ==
    ASSUME rel \in Relationship
    PROVE  /\ Marked \in Relationship /\ Marked.state = "RESTORATION_PENDING"
           /\ Marked.pending = rel.pending /\ Marked.consumed = rel.consumed
<1>1. PICK y \in Relationship : y = rel
  OBVIOUS
<1>2. Marked = [y EXCEPT !.state = "RESTORATION_PENDING", !.revision = y.revision + 1]
  BY <1>1 DEF Marked
<1>3. Marked = [state |-> "RESTORATION_PENDING", revision |-> y.revision + 1, pending |-> y.pending,
                consumed |-> y.consumed, released |-> y.released]
  BY <1>2 DEF Relationship
<1>4. y.revision + 1 \in Nat
  BY DEF Relationship
<1> QED
  BY <1>1, <1>3, <1>4 DEF Relationship

LEMMA ReadBoundAttemptInv ==
    ASSUME Inv, NEW p \in Requests \cup Sweeps, ReadBoundAttempt(p) PROVE Inv'
<1>1. /\ UNCHANGED Others /\ At(p, "attempt") /\ "attempt" \in Step \ {"drop"}
      /\ Passing(p)
  BY DEF ReadBoundAttempt, Others, Step, Passing
<1>2. /\ Row(p) \in Relationship /\ Row(p).pending # None /\ Row(p).pending.key \in Keys
  BY <1>1, RowFit DEF Sweeping
<1>3. CASE attempt[Row(p).pending.key].status = "FAILED" /\ Then(p, <<"bound">>, Row(p)) /\ UNCHANGED rel
  <2>1. attempt[Row(p).pending.key].failed
    BY <1>2, <1>3 DEF Inv, KeyFit
  <2>2. RelStep
    BY <1>3, RelStays
  <2>3. Ahead(p, "bound", Row(p))
    BY <1>1, <1>2, <1>3, <2>1 DEF Ahead, Sweeping, Goes
  <2> QED
    BY <1>1, <2>2, <2>3, PassOn
<1>4. CASE MayMark(p) /\ rel' = Marked /\ Then(p, <<"attempt">>, rel')
  <2>1. /\ rel' \in Relationship /\ rel'.state = "RESTORATION_PENDING"
        /\ rel'.pending = rel.pending /\ rel'.consumed = rel.consumed
    BY <1>4, RelTypes, MarkedFields
  <2>2. rel.pending # None /\ rel.state # "CONSUMED"
    BY <1>4 DEF MayMark, MayReleaseBound, Owns
  <2>3. RelStep
    BY <2>1, <2>2 DEF RelStep, RelOK, BoundTo
  <2>4. PICK row \in Relationship : row = rel'
    BY <2>1
  <2>5. Ahead(p, "attempt", row)
    BY <1>1, <1>4, <2>1, <2>2, <2>4 DEF Ahead, Sweeping, Goes
  <2> QED
    BY <1>1, <2>3, <2>5, PassOn
<1>5. CASE Done(p) /\ rel' = rel
  BY <1>1, <1>5, RelStays, PassDone
<1>6. CASE /\ CompensationRefunded(attempt[Row(p).pending.key])
           /\ rel' = If(MayRestore(p), Released) /\ Done(p)
  <2>1. RelStep
    BY <1>6, MaybeReleased DEF MayRestore, Owns, Unsettled, CompensationRefunded
  <2> QED
    BY <1>1, <1>6, <2>1, PassDone
<1> QED
  BY <1>3, <1>4, <1>5, <1>6 DEF ReadBoundAttempt, If

-----------------------------------------------------------------------------
(* Steps that write one attempt *)

AttemptStep(k, a) ==
    /\ attempt' = [attempt EXCEPT ![k] = a] /\ a \in AttemptState
    /\ UNCHANGED <<rel, claim, booking, refund, calls>>
    /\ a.status # "none" /\ claim[k] = "FIRST"
    /\ attempt[k].failed => a.failed
    /\ attempt[k].comp = "REFUNDED" => a.comp = "REFUNDED"
    /\ a.status = "FAILED" => a.failed
    /\ a.sent => a.status \in {"OPEN", "SUCCEEDED", "FAILED"}
    /\ a.status \in {"OPEN", "SUCCEEDED"} /\ ~a.failed /\ a.comp # "REFUNDED" /\ booking[k] = "none"
         => BoundTo(k)

LEMMA AttemptOK ==
    ASSUME Inv, NEW k \in Keys, NEW a, AttemptStep(k, a)
    PROVE  /\ Stable /\ OneFirst' /\ attempt' \in [Keys -> AttemptState] /\ RelOK'
           /\ \A j \in Keys : KeyFit(j)'
           /\ \A j \in Keys : Kept(j) \/ (j = k /\ ~Tried(k))
<1>1. attempt \in [Keys -> AttemptState]
  BY DEF Inv, Types
<1>2. /\ attempt' \in [Keys -> AttemptState] /\ attempt'[k] = a
      /\ \A j \in Keys \ {k} : attempt'[j] = attempt[j]
  BY <1>1 DEF AttemptStep
<1>3. RelOK' /\ OneFirst'
  BY RelTypes DEF AttemptStep, RelOK, Inv, OneFirst
<1>4. Stable
  BY <1>2 DEF Stable, Lasting, AttemptStep, BoundTo, Tried
<1>5. ASSUME NEW j \in Keys PROVE KeyFit(j)'
  <2>1. KeyFit(j)
    BY DEF Inv
  <2>2. CASE j = k
    BY <1>2, <2>1, <2>2 DEF KeyFit, AttemptStep, Tried, Charged, BoundTo
  <2>3. CASE j # k
    BY <1>2, <2>1, <2>3 DEF KeyFit, AttemptStep, Tried, Charged, BoundTo
  <2> QED
    BY <2>2, <2>3
<1>6. \A j \in Keys : Kept(j) \/ (j = k /\ ~Tried(k))
  BY <1>2 DEF Kept, AttemptStep, Tried
<1> QED
  BY <1>2, <1>3, <1>4, <1>5, <1>6

LEMMA PaymentStep ==
    ASSUME Inv, NEW k \in Keys, NEW a, AttemptStep(k, a), Tried(k), proc' = proc
    PROVE  Inv'
<1>1. /\ Stable /\ OneFirst' /\ attempt' \in [Keys -> AttemptState] /\ RelOK'
      /\ \A j \in Keys : KeyFit(j)'
      /\ \A j \in Keys : Kept(j)
  BY AttemptOK
<1>2. Types'
  BY <1>1 DEF Inv, Types, AttemptStep
<1> QED
  BY <1>1, <1>2, StayInv

LEMMA AttemptFit ==
    ASSUME Inv, NEW k \in Keys
    PROVE  /\ attempt[k] \in AttemptState /\ KeyFit(k)
           /\ Tried(k) => claim[k] = "FIRST"
  BY DEF Inv, Types, KeyFit

\* What Stripe's answer s makes of an attempt.
Answered(a, s) == [a EXCEPT !.status = s, !.sent = TRUE, !.failed = a.failed \/ s = "FAILED"]

LEMMA AnsweredFields ==
    ASSUME NEW a \in AttemptState, NEW s \in {"OPEN", "SUCCEEDED", "FAILED"}
    PROVE  /\ Answered(a, s) \in AttemptState /\ Answered(a, s).status = s
           /\ Answered(a, s).failed = (a.failed \/ s = "FAILED")
           /\ Answered(a, s).comp = a.comp
  BY DEF Answered, AttemptState

\* It is recorded; an attempt that no longer has the claim does not become chargeable.
LEMMA RecordedStep ==
    ASSUME Inv, NEW k \in Keys, Tried(k), attempt[k].status # "SUCCEEDED",
           NEW s \in {"OPEN", "SUCCEEDED", "FAILED"},
           attempt' = Recorded(k, s), UNCHANGED <<rel, claim, booking, refund, calls>>,
           s # "FAILED" /\ Unsettled(k) => BoundTo(k)
    PROVE  AttemptStep(k, Answered(attempt[k], s))
<1>1. attempt[k] \in AttemptState /\ KeyFit(k) /\ claim[k] = "FIRST"
  BY AttemptFit
<1>2. PICK a \in AttemptState : a = Answered(attempt[k], s) /\ a.status = s /\ a.comp = attempt[k].comp
                                /\ a.failed = (attempt[k].failed \/ s = "FAILED")
  BY <1>1, AnsweredFields
<1>3. attempt \in [Keys -> AttemptState]
  BY DEF Inv, Types
<1>4. attempt' = [attempt EXCEPT ![k] = Answered(attempt[k], s)]
  BY <1>3 DEF Recorded, Answered
<1>5. attempt' = [attempt EXCEPT ![k] = a]
  BY <1>2, <1>4
<1>6. AttemptStep(k, a)
  BY <1>1, <1>2, <1>5 DEF AttemptStep, Unsettled
<1> QED
  BY <1>2, <1>6

LEMMA ProviderReportsInv == ASSUME Inv, NEW k \in Keys, ProviderReports(k) PROVE Inv'
<1>1. attempt[k] \in AttemptState /\ KeyFit(k) /\ attempt[k].status # "SUCCEEDED"
  BY AttemptFit DEF ProviderReports
<1>2. attempt[k].status \in {"OPEN", "FAILED"} /\ Tried(k)
  BY <1>1 DEF ProviderReports, KeyFit, Tried
<1>3. Unsettled(k) => BoundTo(k)
  BY <1>1, <1>2 DEF KeyFit, Charged, Unsettled
<1>4. UNCHANGED <<rel, claim, booking, refund, calls>> /\ proc' = proc
  BY DEF ProviderReports
<1>5. PICK s \in {"SUCCEEDED", "FAILED"} : attempt' = Recorded(k, s)
  BY DEF ProviderReports
<1>6. AttemptStep(k, Answered(attempt[k], s))
  BY <1>1, <1>2, <1>3, <1>4, <1>5, RecordedStep
<1> QED
  BY <1>2, <1>4, <1>6, PaymentStep

LEMMA ResolveUnsentInv == ASSUME Inv, NEW k \in Keys, ResolveUnsent(k) PROVE Inv'
<1>1. attempt[k] \in AttemptState /\ KeyFit(k) /\ attempt \in [Keys -> AttemptState]
  BY AttemptFit DEF Inv, Types
<1>2. PICK a \in AttemptState : a = [attempt[k] EXCEPT !.status = "FAILED", !.failed = TRUE]
  BY <1>1 DEF AttemptState
<1>3. a.status = "FAILED" /\ a.failed /\ a.comp = attempt[k].comp
  BY <1>1, <1>2 DEF AttemptState
<1>4. attempt' = [attempt EXCEPT ![k] = a]
  BY <1>1, <1>2 DEF ResolveUnsent
<1>5. Tried(k) /\ claim[k] = "FIRST"
  BY <1>1 DEF ResolveUnsent, Tried, KeyFit
<1>6. AttemptStep(k, a)
  BY <1>3, <1>4, <1>5 DEF AttemptStep, ResolveUnsent
<1> QED
  BY <1>5, <1>6, PaymentStep DEF ResolveUnsent

\* The compensation of an attempt goes on to c.
LEMMA CompStep ==
    ASSUME Inv, NEW k \in Keys, Tried(k), NEW c \in {"REQUIRED", "REFUNDED"},
           attempt' = [attempt EXCEPT ![k].comp = c], UNCHANGED <<rel, claim, booking, refund, calls>>,
           attempt[k].comp # "REFUNDED"
    PROVE  \E a : AttemptStep(k, a)
<1>1. attempt[k] \in AttemptState /\ KeyFit(k) /\ attempt \in [Keys -> AttemptState]
  BY AttemptFit DEF Inv, Types
<1>2. PICK a \in AttemptState : a = [attempt[k] EXCEPT !.comp = c]
  BY <1>1 DEF AttemptState
<1>3. a.status = attempt[k].status /\ a.failed = attempt[k].failed /\ a.comp = c /\ a.sent = attempt[k].sent
  BY <1>1, <1>2 DEF AttemptState
<1>4. attempt' = [attempt EXCEPT ![k] = a]
  BY <1>1, <1>2
<1>5. AttemptStep(k, a)
  BY <1>1, <1>3, <1>4 DEF AttemptStep, KeyFit, Tried, Charged
<1> QED
  BY <1>5

LEMMA CompensationInv ==
    ASSUME Inv, NEW k \in Keys, CompensateOrphan(k) \/ Compensate(k), Tried(k) PROVE Inv'
<1>1. PICK c \in {"REQUIRED", "REFUNDED"} : attempt' = [attempt EXCEPT ![k].comp = c]
  BY DEF CompensateOrphan, Compensate
<1>2. attempt[k].comp # "REFUNDED" /\ UNCHANGED <<rel, claim, booking, refund, calls, proc>>
  BY DEF CompensateOrphan, Compensate
<1>3. PICK a : AttemptStep(k, a)
  BY <1>1, <1>2, CompStep
<1> QED
  BY <1>2, <1>3, PaymentStep

LEMMA QuietStable ==
    ASSUME Inv, UNCHANGED <<rel, claim, attempt, booking>>
    PROVE  /\ Stable /\ RelOK' /\ OneFirst' /\ \A k \in Keys : KeyFit(k)' /\ Kept(k)
<1>1. Stable
  BY DEF Stable, Lasting, Tried, BoundTo
<1>2. RelOK' /\ OneFirst'
  BY RelTypes DEF RelOK, Inv, OneFirst
<1>3. ASSUME NEW k \in Keys PROVE KeyFit(k)' /\ Kept(k)
  <2>1. KeyFit(k)
    BY DEF Inv
  <2> QED
    BY <2>1 DEF KeyFit, Tried, Charged, BoundTo, Kept
<1> QED
  BY <1>1, <1>2, <1>3

LEMMA RefundSucceedsInv == ASSUME Inv, NEW k \in Keys, RefundSucceeds(k) PROVE Inv'
<1>1. UNCHANGED <<rel, claim, attempt, booking, proc, calls>>
  BY DEF RefundSucceeds
<1>2. refund' \in [Keys -> RefundState]
  BY DEF RefundSucceeds, Inv, Types, RefundState
<1>3. /\ Stable /\ RelOK' /\ OneFirst' /\ \A j \in Keys : KeyFit(j)' /\ Kept(j)
  BY <1>1, QuietStable
<1>4. Types'
  BY <1>1, <1>2, <1>3 DEF Inv, Types
<1> QED
  BY <1>1, <1>3, <1>4, StayInv

-----------------------------------------------------------------------------
(* Cancellations *)

\* Booking k is cancelled; its FIRST, if it was one, is on its way back or stays consumed.
CancelStep(k, b) ==
    /\ booking[k] = "UPCOMING" /\ b \in {"CANCELLED_BY_CUSTOMER", "CANCELLED_BY_BUSINESS"}
    /\ booking' = [booking EXCEPT ![k] = b] /\ UNCHANGED <<claim, attempt, calls>>
    /\ \/ rel' = rel
       \/ rel.state = "CONSUMED" /\ rel.consumed = k /\ rel'.consumed # None

LEMMA CancelStable ==
    ASSUME Inv, NEW k \in Keys, NEW b, CancelStep(k, b)
    PROVE  /\ Stable /\ OneFirst' /\ booking' \in [Keys -> BookingState]
           /\ \A j \in Keys : KeyFit(j)' /\ Kept(j)
<1>1. booking \in [Keys -> BookingState] /\ \A j \in Keys : KeyFit(j)
  BY DEF Inv, Types
<1>2. booking' \in [Keys -> BookingState] /\ booking'[k] = b /\ b # "none" /\ b # "UPCOMING"
      /\ \A j \in Keys \ {k} : booking'[j] = booking[j]
  BY <1>1 DEF CancelStep, BookingState
<1>3. rel' = rel \/ \A j \in Keys : ~BoundTo(j)
  BY RelTypes DEF CancelStep, RelOK, BoundTo
<1>4. Stable
  BY <1>2, <1>3 DEF Stable, Lasting, CancelStep, Tried, BoundTo, Unsettled
<1>5. OneFirst'
  <2> SUFFICES ASSUME NEW j \in Keys, booking'[j] = "UPCOMING", IsFirst(claim[j])
               PROVE  rel'.state = "CONSUMED" /\ rel'.consumed = j
    BY DEF OneFirst, CancelStep
  <2>1. j # k /\ booking[j] = "UPCOMING"
    BY <1>2
  <2>2. rel.state = "CONSUMED" /\ rel.consumed = j
    BY <2>1 DEF Inv, OneFirst
  <2> QED
    BY <2>1, <2>2 DEF CancelStep
<1>6. ASSUME NEW j \in Keys PROVE KeyFit(j)' /\ Kept(j)
  <2>1. booking'[j] = "none" <=> booking[j] = "none"
    BY <1>2 DEF CancelStep
  <2>2. KeyFit(j)'
    <3>1. Charged(j)' => Charged(j)
      BY <2>1 DEF Charged, CancelStep
    <3>2. BoundTo(j) => BoundTo(j)'
      BY <1>3 DEF BoundTo
    <3> QED
      BY <1>1, <2>1, <3>1, <3>2 DEF KeyFit, CancelStep, Tried
  <2>3. Kept(j)
    BY <2>1 DEF Kept, CancelStep, Tried
  <2> QED
    BY <2>2, <2>3
<1> QED
  BY <1>2, <1>4, <1>5, <1>6

\* A paid FIRST that a business cancellation gives back.
BeingRestored(k) == [rel EXCEPT !.state = "RESTORATION_PENDING", !.revision = @ + 1,
                                !.pending = [key |-> k, bound |-> FALSE, refund |-> TRUE]]

LEMMA BeingRestoredFields ==
    ASSUME rel \in Relationship, NEW k \in Keys
    PROVE  \E r \in Relationship :
             /\ r = BeingRestored(k) /\ r.state = "RESTORATION_PENDING" /\ r.consumed = rel.consumed
             /\ r.pending \in Pending
<1>1. PICK y \in Relationship : y = rel
  OBVIOUS
<1>2. PICK w \in Pending : w = [key |-> k, bound |-> FALSE, refund |-> TRUE]
  BY DEF Pending
<1>3. BeingRestored(k) = [y EXCEPT !.state = "RESTORATION_PENDING", !.revision = y.revision + 1,
                                     !.pending = w]
  BY <1>1, <1>2 DEF BeingRestored
<1>4. BeingRestored(k) = [state |-> "RESTORATION_PENDING", revision |-> y.revision + 1,
                            pending |-> w, consumed |-> y.consumed, released |-> y.released]
  BY <1>3 DEF Relationship
<1>5. y.revision + 1 \in Nat
  BY DEF Relationship
<1>6. BeingRestored(k) \in Relationship
  BY <1>4, <1>5 DEF Relationship
<1>7. /\ BeingRestored(k).state = "RESTORATION_PENDING" /\ BeingRestored(k).pending = w
      /\ BeingRestored(k).consumed = y.consumed
  BY <1>4
<1> QED
  BY <1>1, <1>6, <1>7

LEMMA CancelByBusinessInv == ASSUME Inv, NEW k \in Keys, CancelByBusiness(k) PROVE Inv'
<1>1. /\ booking[k] = "UPCOMING" /\ UNCHANGED <<claim, attempt, proc, calls>>
      /\ booking' = [booking EXCEPT ![k] = "CANCELLED_BY_BUSINESS"]
      /\ IsFirst(claim[k]) => rel.state = "CONSUMED" /\ rel.consumed = k
  BY DEF CancelByBusiness, MayBeginRestoration
<1>2. refund' \in [Keys -> RefundState]
  BY DEF CancelByBusiness, Inv, Types, RefundState
<1>3. RelOK' /\ (rel' = rel \/ (IsFirst(claim[k]) /\ rel'.consumed = rel.consumed))
  <2>1. CASE ~IsFirst(claim[k])
    BY <2>1, RelTypes DEF CancelByBusiness, If, RelOK
  <2>2. CASE claim[k] = "FIRST"
    <3>1. rel' = BeingRestored(k)
      BY <2>2 DEF CancelByBusiness, If, IsFirst, Restoring, BeingRestored
    <3>2. /\ rel' \in Relationship /\ rel'.state = "RESTORATION_PENDING" /\ rel'.pending \in Pending
          /\ rel'.consumed = rel.consumed
      BY <3>1, RelTypes, BeingRestoredFields
    <3> QED
      BY <2>2, <3>2, NoneAssumption DEF RelOK, IsFirst
  <2>3. CASE claim[k] = "FREE"
    <3>1. rel' = Released
      BY <2>3 DEF CancelByBusiness, If, IsFirst, Restoring
    <3> QED
      BY <2>3, <3>1, RelTypes, ReleasedFields DEF RelOK, IsFirst
  <2> QED
    BY <2>1, <2>2, <2>3 DEF IsFirst
<1>4. CancelStep(k, "CANCELLED_BY_BUSINESS")
  BY <1>1, <1>3, NoneAssumption DEF CancelStep
<1>5. /\ Stable /\ OneFirst' /\ booking' \in [Keys -> BookingState]
      /\ \A j \in Keys : KeyFit(j)' /\ Kept(j)
  BY <1>4, CancelStable
<1>6. Types'
  BY <1>1, <1>2, <1>3, <1>5 DEF Inv, Types
<1> QED
  BY <1>1, <1>5, <1>6, StayInv

LEMMA CancelByCustomerInv == ASSUME Inv, NEW k \in Keys, CancelByCustomer(k) PROVE Inv'
<1>1. /\ UNCHANGED <<rel, claim, attempt, proc, calls>>
      /\ CancelStep(k, "CANCELLED_BY_CUSTOMER")
  BY DEF CancelByCustomer, CancelStep
<1>2. refund' \in [Keys -> RefundState]
  BY DEF CancelByCustomer, Inv, Types, RefundState
<1>3. RelOK'
  BY <1>1, RelTypes DEF RelOK
<1>4. /\ Stable /\ OneFirst' /\ booking' \in [Keys -> BookingState]
      /\ \A j \in Keys : KeyFit(j)' /\ Kept(j)
  BY <1>1, CancelStable
<1>5. Types'
  BY <1>1, <1>2, <1>3, <1>4 DEF Inv, Types
<1> QED
  BY <1>1, <1>4, <1>5, StayInv

-----------------------------------------------------------------------------
(* Restorations *)

LEMMA RestInv ==
    ASSUME Inv, UNCHANGED <<claim, attempt, booking, calls>>, refund' \in [Keys -> RefundState], RelStep,
           NEW p \in Restorers, NEW x \in ProcState, proc' = [proc EXCEPT ![p] = x],
           Shape(x), RestFit(x)'
    PROVE  Inv'
<1>1. p \in Procs /\ p \notin Requests /\ p \notin Sweeps
  BY DEF Procs
<1>2. Fit(p, x)'
  BY <1>1 DEF Fit
<1> QED
  BY <1>1, <1>2, RelInv

\* The cancellation is over for this process.
LEMMA RestDone ==
    ASSUME Inv, UNCHANGED <<claim, attempt, booking, calls>>, refund' \in [Keys -> RefundState], RelStep,
           NEW p \in Restorers, Leave(p, <<>>)
    PROVE  Inv'
<1>1. \E x \in ProcState : proc' = [proc EXCEPT ![p] = x] /\ x.todo = <<>>
  <2>1. proc' = [proc EXCEPT ![p] = Idle]
    BY DEF Leave
  <2> QED
    BY <2>1, IdleFits
<1>2. PICK x \in ProcState : proc' = [proc EXCEPT ![p] = x] /\ x.todo = <<>>
  BY <1>1
<1>3. Shape(x) /\ RestFit(x)'
  BY <1>2 DEF Shape, RestFit
<1> QED
  BY <1>2, <1>3, RestInv

Undoing == {"history", "restore", "recheck", "revert"}

LEMMA RestAt ==
    ASSUME Inv, NEW p \in Restorers, NEW s, At(p, s)
    PROVE  /\ Key(p) \in Keys /\ Shape(proc[p]) /\ p \in Procs /\ Types
           /\ s = "commit" /\ Row(p) # None => Row(p).state = "CONSUMED" /\ Row(p).consumed = Key(p)
           /\ s \in Undoing => /\ booking[Key(p)] = "CANCELLED_BY_CUSTOMER"
                                  /\ Row(p) \in Relationship /\ rel.consumed # None
<1>1. RestFit(proc[p]) /\ Doing(proc[p], s) /\ Shape(proc[p]) /\ p \in Procs /\ Types
  BY DEF Inv, Fit, Procs, At, Doing
<1> QED
  BY <1>1 DEF RestFit, Doing, Key, Row, Undoing

\* It goes on to s with the row it has.
RestAhead(p, s) == /\ \E t \in Undoing : At(p, t)
                   /\ s \in Undoing /\ Goes(p, s, Row(p))

LEMMA RestOn ==
    ASSUME Inv, UNCHANGED <<claim, attempt, booking, calls>>, refund' \in [Keys -> RefundState], RelStep,
           NEW p \in Restorers, NEW s, RestAhead(p, s)
    PROVE  Inv'
<1>1. PICK t \in Undoing : At(p, t)
  BY DEF RestAhead
<1>2. /\ Shape(proc[p]) /\ p \in Procs /\ Types
      /\ Key(p) \in Keys /\ booking[Key(p)] = "CANCELLED_BY_CUSTOMER"
      /\ Row(p) \in Relationship /\ rel.consumed # None
  BY <1>1, RestAt
<1>3. t \in Step \ {"drop"} /\ s \in Step \ {"drop"}
  BY DEF RestAhead, Undoing, Step
<1>4. PICK row \in Relationship : row = Row(p)
  BY <1>2
<1>5. Goes(p, s, row) /\ row \in Relationship \cup {None}
  BY <1>4 DEF RestAhead
<1>6. PICK x \in ProcState : Gone(p, x, s, row)
  BY <1>1, <1>2, <1>3, <1>5, Onto
<1>7. x.key = Key(p)
  BY <1>6 DEF Same, Key, Gone
<1>8. s # "commit"
  BY DEF RestAhead, Undoing
<1>9. RestFit(x)'
  BY <1>2, <1>4, <1>6, <1>7, <1>8 DEF RestFit, RelStep, Gone
<1> QED
  BY <1>6, <1>9, RestInv DEF Gone

\* It begins: key k, step s and row.
Starts(p, k, s, row) ==
    proc' = [proc EXCEPT ![p] = [@ EXCEPT !.key = k, !.todo = <<s>>, !.row = row]]
Started(p, x, k, s, row) ==
    /\ proc' = [proc EXCEPT ![p] = x] /\ Shape(x) /\ x.key = k /\ x.row = row
    /\ \A u : Doing(x, u) <=> u = s

LEMMA RestStart ==
    ASSUME Inv, NEW p \in Restorers, NEW k \in Keys, NEW s \in {"commit", "history"},
           NEW row \in Relationship \cup {None}, Starts(p, k, s, row)
    PROVE  \E x \in ProcState : Started(p, x, k, s, row)
<1>1. p \in Procs /\ proc \in [Procs -> ProcState]
  BY DEF Procs, Inv, Types
<1> DEFINE x == [proc[p] EXCEPT !.key = k, !.todo = <<s>>, !.row = row]
<1>2. s \in Step /\ <<s>> \in Seq(Step)
  BY DEF Step
<1>3. x \in ProcState /\ x.todo = <<s>> /\ x.key = k /\ x.row = row
  BY <1>1, <1>2 DEF ProcState
<1>4. proc' = [proc EXCEPT ![p] = x]
  BY <1>1 DEF Starts
<1> HIDE DEF x
<1>5. Shape(x) /\ \A u : Doing(x, u) <=> u = s
  BY <1>2, <1>3, One
<1> QED
  BY <1>3, <1>4, <1>5 DEF Started

LEMMA CancelFreeInv == ASSUME Inv, NEW p \in Restorers, CancelFree(p) PROVE Inv'
<1>1. PICK k \in Keys :
        proc' = [proc EXCEPT ![p] = [@ EXCEPT !.key = k, !.todo = <<"commit">>,
                   !.row = IF MayBeginRestoration(k) /\ ~HasOtherQualifyingHistory(k)
                           THEN rel ELSE None]]
  BY DEF CancelFree
<1>2. PICK row \in Relationship \cup {None} :
             /\ row = IF MayBeginRestoration(k) /\ ~HasOtherQualifyingHistory(k) THEN rel ELSE None
             /\ row # None => MayBeginRestoration(k) /\ row = rel
  BY RelTypes
<1>3. Starts(p, k, "commit", row)
  BY <1>1, <1>2 DEF Starts
<1>4. PICK x \in ProcState : Started(p, x, k, "commit", row)
  BY <1>3, RestStart
<1>5. RestFit(x)'
  BY <1>2, <1>4 DEF RestFit, MayBeginRestoration, Started
<1>6. UNCHANGED <<rel, claim, attempt, booking, calls>> /\ refund' \in [Keys -> RefundState]
  BY DEF CancelFree, Inv, Types
<1> QED
  BY <1>4, <1>5, <1>6, RelStays, RestInv DEF Started

LEMMA ReadConsumedInv == ASSUME Inv, NEW p \in Restorers, ReadConsumed(p) PROVE Inv'
<1>1. PICK k \in Keys :
        /\ booking[k] = "CANCELLED_BY_CUSTOMER"
        /\ \/ /\ MayBeginRestoration(k) /\ UNCHANGED refund
              /\ proc' = [proc EXCEPT ![p] = [@ EXCEPT !.key = k, !.todo = <<"history">>, !.row = rel]]
           \/ refund' = [refund EXCEPT ![k] = "RECORDED"] /\ UNCHANGED proc
  BY DEF ReadConsumed
<1>2. UNCHANGED <<rel, claim, attempt, booking, calls>> /\ refund' \in [Keys -> RefundState]
  BY <1>1 DEF ReadConsumed, Inv, Types, RefundState
<1>3. CASE UNCHANGED proc
  <2>1. /\ Stable /\ RelOK' /\ OneFirst' /\ \A j \in Keys : KeyFit(j)' /\ Kept(j)
    BY <1>2, QuietStable
  <2>2. Types'
    BY <1>2, <1>3, <2>1 DEF Inv, Types
  <2> QED
    BY <1>3, <2>1, <2>2, StayInv
<1>4. CASE /\ MayBeginRestoration(k)
           /\ proc' = [proc EXCEPT ![p] = [@ EXCEPT !.key = k, !.todo = <<"history">>, !.row = rel]]
  <2>1. PICK row \in Relationship : row = rel
    BY RelTypes
  <2>2. Starts(p, k, "history", row)
    BY <1>4, <2>1 DEF Starts
  <2>3. PICK x \in ProcState : Started(p, x, k, "history", row)
    BY <2>2, RestStart
  <2>4. rel.consumed # None
    BY <1>4, RelTypes DEF MayBeginRestoration, RelOK
  <2>5. RestFit(x)'
    BY <1>1, <1>2, <2>1, <2>3, <2>4 DEF RestFit, Started
  <2> QED
    BY <1>2, <2>3, <2>5, RelStays, RestInv DEF Started
<1> QED
  BY <1>1, <1>3, <1>4

\* A FIRST that the customer's cancellation gives back.
LEMMA EarlyFields ==
    ASSUME rel \in Relationship, NEW k \in Keys
    PROVE  LET r == [Released EXCEPT !.released = k]
           IN /\ r \in Relationship /\ r.state = "ELIGIBLE" /\ r.pending = None
              /\ r.consumed = rel.consumed
<1>1. PICK y \in Relationship : /\ y = Released /\ y.state = "ELIGIBLE" /\ y.pending = None
                                /\ y.consumed = rel.consumed
  BY ReleasedFields
<1>2. [y EXCEPT !.released = k] = [state |-> y.state, revision |-> y.revision, pending |-> y.pending,
                                   consumed |-> y.consumed, released |-> k]
  BY DEF Relationship
<1>3. [y EXCEPT !.released = k] \in Relationship
  BY <1>2 DEF Relationship
<1> QED
  BY <1>1, <1>2, <1>3

LEMMA CommitFreeInv == ASSUME Inv, NEW p \in Restorers, CommitFree(p) PROVE Inv'
<1>1. At(p, "commit") /\ Leave(p, <<>>) /\ UNCHANGED <<claim, attempt, refund, calls>>
  BY DEF CommitFree
<1>2. PICK k \in Keys : /\ k = Key(p) /\ p \in Procs
                        /\ Row(p) # None => Row(p).state = "CONSUMED" /\ Row(p).consumed = k
  BY <1>1, RestAt
<1>3. CASE UNCHANGED <<booking, rel>>
  BY <1>1, <1>3, RelStays, RestDone DEF Inv, Types
<1>4. CASE /\ booking[k] = "UPCOMING" /\ (Row(p) # None => rel = Row(p))
           /\ booking' = [booking EXCEPT ![k] = "CANCELLED_BY_CUSTOMER"]
           /\ rel' = If(Row(p) # None, [Released EXCEPT !.released = k])
  <2>1. \/ rel' = rel
        \/ /\ rel.state = "CONSUMED" /\ rel.consumed = k
           /\ rel' \in Relationship /\ rel'.state = "ELIGIBLE" /\ rel'.pending = None
           /\ rel'.consumed = rel.consumed
    BY <1>2, <1>4, RelTypes, EarlyFields DEF If
  <2>2. RelOK' /\ rel'.consumed = rel.consumed /\ (rel.state = "CONSUMED" => rel.consumed # None)
    BY <2>1, RelTypes DEF RelOK
  <2>3. CancelStep(k, "CANCELLED_BY_CUSTOMER")
    BY <1>1, <1>4, <2>1, <2>2 DEF CancelStep
  <2>4. /\ Stable /\ OneFirst' /\ booking' \in [Keys -> BookingState]
        /\ \A j \in Keys : KeyFit(j)' /\ Kept(j)
    BY <2>3, CancelStable
  <2>5. PICK x \in ProcState : proc' = [proc EXCEPT ![p] = x] /\ Shape(x) /\ x.todo = <<>>
    BY <1>1, IdleFits DEF Leave
  <2>6. Types'
    <3>1. proc' \in [Procs -> ProcState]
      BY <1>2, <2>5 DEF Inv, Types
    <3> QED
      BY <1>1, <2>2, <2>4, <3>1 DEF Inv, Types
  <2>7. Fit(p, x)' /\ p \notin Requests
    BY <2>5 DEF Fit, RestFit
  <2> QED
    BY <1>2, <2>4, <2>5, <2>6, <2>7, StepInv
<1> QED
  BY <1>2, <1>3, <1>4 DEF CommitFree

LEMMA DecidedTypes == ASSUME Inv, NEW p \in Restorers, NEW s, At(p, s), Decided(p)
                      PROVE  refund' \in [Keys -> RefundState] /\ Leave(p, <<>>)
  BY RestAt DEF Decided, Inv, Types, RefundState

LEMMA CheckHistoryInv == ASSUME Inv, NEW p \in Restorers, CheckHistory(p) PROVE Inv'
<1>1. At(p, "history") /\ UNCHANGED <<rel, claim, attempt, booking, calls>> /\ RelStep
  BY RelStays DEF CheckHistory
<1>2. CASE Decided(p)
  BY <1>1, <1>2, DecidedTypes, RestDone
<1>3. CASE Then(p, <<"restore">>, Row(p)) /\ UNCHANGED refund
  <2>1. RestAhead(p, "restore") /\ refund' \in [Keys -> RefundState]
    BY <1>1, <1>3 DEF RestAhead, Undoing, Goes, Inv, Types
  <2> QED
    BY <1>1, <2>1, RestOn
<1> QED
  BY <1>2, <1>3 DEF CheckHistory

LEMMA RecheckHistoryInv == ASSUME Inv, NEW p \in Restorers, RecheckHistory(p) PROVE Inv'
<1>1. At(p, "recheck") /\ UNCHANGED <<rel, claim, attempt, booking, calls>> /\ RelStep
  BY RelStays DEF RecheckHistory
<1>2. CASE Decided(p)
  BY <1>1, <1>2, DecidedTypes, RestDone
<1>3. CASE Then(p, <<"revert">>, Row(p)) /\ UNCHANGED refund
  <2>1. RestAhead(p, "revert") /\ refund' \in [Keys -> RefundState]
    BY <1>1, <1>3 DEF RestAhead, Undoing, Goes, Inv, Types
  <2> QED
    BY <1>1, <2>1, RestOn
<1> QED
  BY <1>2, <1>3 DEF RecheckHistory

LEMMA RestoreEligibleInv == ASSUME Inv, NEW p \in Restorers, RestoreEligible(p) PROVE Inv'
<1>1. /\ At(p, "restore") /\ UNCHANGED <<claim, attempt, booking, refund, calls>>
      /\ refund' \in [Keys -> RefundState]
  BY DEF RestoreEligible, Inv, Types
<1>2. PICK k \in Keys : k = Key(p) /\ booking[k] = "CANCELLED_BY_CUSTOMER"
  BY <1>1, RestAt DEF Undoing
<1>3. CASE MayBeginRestoration(k) /\ SameRevision(p)
  <2>1. rel' = [Released EXCEPT !.released = k] /\ Then(p, <<"recheck">>, Row(p))
    BY <1>2, <1>3 DEF RestoreEligible, If
  <2>2. RelStep
    BY <1>2, <1>3, <2>1, RelTypes, EarlyFields, GivenBack DEF MayBeginRestoration
  <2>3. RestAhead(p, "recheck")
    BY <1>1, <2>1 DEF RestAhead, Undoing, Goes
  <2> QED
    BY <1>1, <2>2, <2>3, RestOn
<1>4. CASE ~(MayBeginRestoration(k) /\ SameRevision(p))
  <2>1. UNCHANGED rel /\ Leave(p, <<>>)
    BY <1>2, <1>4 DEF RestoreEligible, If
  <2> QED
    BY <1>1, <2>1, RelStays, RestDone
<1> QED
  BY <1>3, <1>4

LEMMA RevertRestorationInv == ASSUME Inv, NEW p \in Restorers, RevertRestoration(p) PROVE Inv'
<1>1. At(p, "revert") /\ UNCHANGED <<claim, attempt, booking, calls>> /\ Decided(p)
  BY DEF RevertRestoration
<1>2. refund' \in [Keys -> RefundState] /\ Leave(p, <<>>)
  BY <1>1, DecidedTypes
<1>3. Row(p) \in Relationship /\ rel.consumed # None
  BY <1>1, RestAt DEF Undoing
<1>4. RelStep
  <2>1. CASE ~MayRevert(p)
    BY <2>1, RelStays DEF RevertRestoration, If
  <2>2. CASE MayRevert(p)
    <3>1. PICK y \in Relationship : /\ y = To("CONSUMED", rel.pending) /\ y.state = "CONSUMED"
                                    /\ y.pending = rel.pending /\ y.consumed = rel.consumed
      <4>1. rel \in Relationship /\ rel.pending \in Pending \cup {None}
        BY RelTypes DEF Relationship
      <4> QED
        BY <4>1, ToFields
    <3>2. rel' = [y EXCEPT !.released = Row(p).released]
      BY <2>2, <3>1 DEF RevertRestoration, If
    <3>3. PICK w \in Keys \cup {None} : w = Row(p).released
      BY <1>3 DEF Relationship
    <3>4. rel' = [state |-> y.state, revision |-> y.revision, pending |-> y.pending,
                  consumed |-> y.consumed, released |-> w]
      BY <3>2, <3>3 DEF Relationship
    <3>5. rel' \in Relationship
      BY <3>4 DEF Relationship
    <3>6. rel'.state = "CONSUMED" /\ rel'.pending = None /\ rel'.consumed # None
      BY <1>3, <2>2, <3>1, <3>4, RelTypes DEF MayRevert, RelOK
    <3>7. rel.state # "CONSUMED" /\ \A k \in Keys : ~BoundTo(k)
      BY <2>2, RelTypes DEF MayRevert, RelOK, BoundTo
    <3> QED
      BY <3>5, <3>6, <3>7 DEF RelStep, RelOK
  <2> QED
    BY <2>1, <2>2
<1> QED
  BY <1>1, <1>2, <1>4, RestDone

LEMMA AbandonInv == ASSUME Inv, NEW p \in Restorers, Abandon(p) PROVE Inv'
<1>1. /\ UNCHANGED <<rel, claim, attempt, booking, calls>> /\ refund' \in [Keys -> RefundState]
      /\ Leave(p, <<>>)
  BY DEF Abandon, Inv, Types
<1> QED
  BY <1>1, RelStays, RestDone

-----------------------------------------------------------------------------
(* The checkout request *)

LEMMA OwnAt ==
    ASSUME Inv, NEW p \in Requests, NEW s, At(p, s)
    PROVE  /\ p \in Procs /\ p \notin Restorers /\ Types /\ Shape(proc[p]) /\ proc[p] \in ProcState
           /\ Key(p) \in Keys /\ KeyFit(Key(p))
           /\ s \in {"terms", "record", "charge", "persist"} =>
                /\ Mine(p, Key(p)) /\ claim[Key(p)] # "none"
                /\ booking[Key(p)] # "none" => Tried(Key(p))
           /\ s \in {"terms", "record", "charge"} /\ Tried(Key(p)) => ~proc[p].new
           /\ s = "record" => proc[p].class \in Class
           /\ s = "charge" => proc[p].class = "FIRST" /\ claim[Key(p)] = "FIRST"
           /\ s \in {"bind", "dispatch"} => Tried(Key(p)) /\ proc[p].class = "FIRST"
           /\ s = "compensate" => Tried(Key(p))
           /\ s = "persist" => \/ proc[p].class = "FIRST" /\ Tried(Key(p))
                               \/ /\ proc[p].class \in {"FREE", "RETURNING"} /\ ~Tried(Key(p))
                                  /\ claim[Key(p)] = proc[p].class
           /\ s = "dispatch" /\ Unsettled(Key(p)) => BoundTo(Key(p))
<1>1. /\ p \in Procs /\ p \notin Restorers /\ Types /\ proc[p] \in ProcState /\ Fit(p, proc[p])
  BY DEF Inv, Types, Procs
<1>2. Doing(proc[p], s) /\ proc[p].todo # <<>>
  BY DEF At, Doing
<1>3. OwnFit(proc[p]) /\ CallFit(proc[p]) /\ Shape(proc[p])
  BY <1>1 DEF Fit
<1>4. Key(p) \in Keys /\ KeyFit(Key(p))
  BY <1>2, <1>3 DEF OwnFit, Key, Inv
<1>5. s \in {"terms", "record", "charge", "persist"} => Holds(proc[p])
  BY <1>2 DEF Holds
<1> QED
  BY <1>1, <1>2, <1>3, <1>4, <1>5 DEF OwnFit, CallFit, Key, Mine

\* The request goes on to s.
Moved(p, x, s) ==
    /\ proc' = [proc EXCEPT ![p] = x] /\ Shape(x) /\ Same(x, proc[p]) /\ ~Drops(x)
    /\ x.todo # <<>> /\ \A u : Doing(x, u) <=> u = s

LEMMA GotoMoves ==
    ASSUME Types, NEW p \in Procs, NEW s \in Step \ {"drop"}, Goto(p, s)
    PROVE  \E x \in ProcState : Moved(p, x, s)
<1> DEFINE x == [proc[p] EXCEPT !.todo = <<s>>]
<1>1. proc \in [Procs -> ProcState] /\ <<s>> \in Seq(Step)
  BY DEF Types
<1>2. x \in ProcState /\ x.todo = <<s>> /\ Same(x, proc[p])
  BY <1>1 DEF ProcState, Same
<1>3. proc' = [proc EXCEPT ![p] = x]
  BY <1>1 DEF Goto
<1> HIDE DEF x
<1>4. Shape(x) /\ ~Drops(x) /\ x.todo # <<>> /\ \A u : Doing(x, u) <=> u = s
  BY <1>2, One
<1> QED
  BY <1>2, <1>3, <1>4 DEF Moved

\* A request that gives up has only its relationship or its claim left.
Ended(p, x) ==
    /\ proc' = [proc EXCEPT ![p] = x] /\ Shape(x) /\ (x.todo # <<>> => x.key = Key(p))
    /\ \A u : Doing(x, u) => u \in {"release", "drop", "row"}

LEMMA LeaveOne ==
    ASSUME Types, NEW p \in Procs, NEW s \in {"release", "row"}, Leave(p, <<s>>)
    PROVE  \E x \in ProcState : Ended(p, x) /\ ~Drops(x)
<1>1. s \in Step /\ s # "drop" /\ <<s>> \in Seq(Step)
  BY DEF Step
<1>2. PICK steps \in Seq(Step) : steps = <<s>> /\ steps # <<>>
  BY <1>1
<1>3. PICK x \in ProcState : LeftTo(p, x, steps)
  BY <1>2, Left
<1>4. Shape(x) /\ ~Drops(x) /\ \A u : Doing(x, u) <=> u = s
  BY <1>1, <1>2, <1>3, One DEF LeftTo
<1> QED
  BY <1>2, <1>3, <1>4 DEF Ended, Key, LeftTo

LEMMA LeaveNone ==
    ASSUME NEW p, Leave(p, <<>>)
    PROVE  \E x \in ProcState : Ended(p, x) /\ ~Drops(x) /\ x.todo = <<>>
<1>1. proc' = [proc EXCEPT ![p] = Idle]
  BY DEF Leave
<1>2. Ended(p, Idle) /\ ~Drops(Idle)
  BY <1>1, IdleFits DEF Ended, Drops, Doing
<1> QED
  BY <1>2, IdleFits

\* What it owes with a claim of its own, before the booking and after the payment.
LEMMA LeaveDrop ==
    ASSUME Types, NEW p \in Procs,
           \/ Leave(p, <<"drop">>) \/ Leave(p, <<"release", "drop">>) \/ Leave(p, <<"drop", "release">>)
    PROVE  \E x \in ProcState : Ended(p, x)
<1>1. /\ <<"drop">> \in Seq(Step) /\ <<"release", "drop">> \in Seq(Step)
      /\ <<"drop", "release">> \in Seq(Step) /\ "drop" \in Step /\ "release" \in Step
  BY DEF Step
<1>2. CASE Leave(p, <<"drop">>)
  <2>1. PICK steps \in Seq(Step) : steps = <<"drop">> /\ steps # <<>>
    BY <1>1
  <2>2. PICK x \in ProcState : LeftTo(p, x, steps)
    BY <1>2, <2>1, Left
  <2>3. Shape(x) /\ \A u : Doing(x, u) <=> u = "drop"
    BY <1>1, <2>1, <2>2 DEF LeftTo, Shape, Doing
  <2> QED
    BY <2>1, <2>2, <2>3 DEF Ended, Key, LeftTo
<1>3. CASE Leave(p, <<"release", "drop">>)
  <2>1. PICK steps \in Seq(Step) : steps = <<"release", "drop">> /\ steps # <<>>
    BY <1>1
  <2>2. PICK x \in ProcState : LeftTo(p, x, steps)
    BY <1>3, <2>1, Left
  <2>3. Shape(x) /\ \A u : Doing(x, u) <=> u = "release"
    BY <1>1, <2>1, <2>2 DEF LeftTo, Shape, Doing
  <2> QED
    BY <2>1, <2>2, <2>3 DEF Ended, Key, LeftTo
<1>4. CASE Leave(p, <<"drop", "release">>)
  <2>1. PICK steps \in Seq(Step) : steps = <<"drop", "release">> /\ steps # <<>>
    BY <1>1
  <2>2. PICK x \in ProcState : LeftTo(p, x, steps)
    BY <1>4, <2>1, Left
  <2>3. Shape(x) /\ \A u : Doing(x, u) <=> u = "drop"
    BY <1>1, <2>1, <2>2 DEF LeftTo, Shape, Doing
  <2> QED
    BY <2>1, <2>2, <2>3 DEF Ended, Key, LeftTo
<1> QED
  BY <1>2, <1>3, <1>4

LEMMA GivesBack ==
    ASSUME Types, NEW p \in Procs, NEW class, Leave(p, GiveBack(p, class))
    PROVE  \E x \in ProcState : Ended(p, x) /\ (Drops(x) => proc[p].new)
<1>1. proc[p].new \in BOOLEAN /\ "release" \in Step
  BY DEF Types, ProcState, Step
<1>2. /\ <<"release">> \o <<>> = <<"release">> /\ <<"release">> \o <<"drop">> = <<"release", "drop">>
  BY <1>1, Joined
<1>3. <<>> \o <<>> = <<>> /\ <<>> \o <<"drop">> = <<"drop">>
  <2>1. <<"drop">> \in Seq(Step) /\ <<>> \in Seq(Step)
    BY EmptySeq DEF Step
  <2> QED
    BY <2>1, ConcatEmptySeq
<1>4. CASE IsFirst(class) /\ proc[p].new
  <2>1. Leave(p, <<"release", "drop">>)
    BY <1>2, <1>4 DEF GiveBack
  <2> QED
    BY <1>4, <2>1, LeaveDrop
<1>5. CASE IsFirst(class) /\ ~proc[p].new
  <2>1. Leave(p, <<"release">>)
    BY <1>2, <1>5 DEF GiveBack
  <2> QED
    BY <2>1, LeaveOne
<1>6. CASE ~IsFirst(class) /\ proc[p].new
  <2>1. Leave(p, <<"drop">>)
    BY <1>3, <1>6 DEF GiveBack
  <2> QED
    BY <1>6, <2>1, LeaveDrop
<1>7. CASE ~IsFirst(class) /\ ~proc[p].new
  <2>1. Leave(p, <<>>)
    BY <1>3, <1>7 DEF GiveBack
  <2> QED
    BY <2>1, LeaveNone
<1> QED
  BY <1>1, <1>4, <1>5, <1>6, <1>7

LEMMA EndedFit ==
    ASSUME NEW p \in Requests, Key(p) \in Keys, NEW x \in ProcState, Ended(p, x),
           Drops(x) => /\ attempt'[Key(p)].status = "none" /\ claim'[Key(p)] # "none"
                       /\ booking'[Key(p)] = "none"
    PROVE  Fit(p, x)' /\ (Holds(x) => Drops(x) /\ x.key = Key(p))
<1>1. p \notin Restorers
  OBVIOUS
<1>2. \A u : Doing(x, u) => u \in {"release", "drop", "row"}
  BY DEF Ended
<1>3. /\ \A u \in Sweeping : ~Doing(x, u)
      /\ \A u \in {"terms", "record", "charge", "bind", "dispatch", "persist", "compensate"} : ~Doing(x, u)
  BY <1>2 DEF Sweeping
<1>4. Holds(x) => Drops(x) /\ x.todo # <<>>
  BY <1>3 DEF Holds, Drops
<1>5. OwnFit(x)'
  BY <1>3, <1>4 DEF OwnFit, Ended, Tried, Holds
<1>6. CallFit(x)' /\ PassFit(x)'
  BY <1>3 DEF CallFit, PassFit, Sweeping
<1> QED
  BY <1>1, <1>4, <1>5, <1>6 DEF Fit, Ended

LEMMA MovedFit ==
    ASSUME NEW p \in Requests, NEW x \in ProcState, NEW s, Moved(p, x, s), s \notin Sweeping,
           OwnFit(x)', CallFit(x)'
    PROVE  Fit(p, x)'
<1>1. \A u \in Sweeping : ~Doing(x, u)
  BY DEF Moved
<1>2. PassFit(x)'
  BY <1>1 DEF PassFit, Sweeping
<1> QED
  BY <1>2 DEF Fit, Moved

\* The claim of k, which nobody has paid or booked, goes on to c.
ClaimStep(k, c) ==
    /\ claim' = [claim EXCEPT ![k] = c] /\ c \in ClaimState
    /\ UNCHANGED <<rel, attempt, booking, refund>>
    /\ c # claim[k] => ~Tried(k) /\ booking[k] = "none"

LEMMA ClaimOK ==
    ASSUME Inv, NEW k \in Keys, NEW c, ClaimStep(k, c)
    PROVE  /\ Stable /\ OneFirst' /\ claim' \in [Keys -> ClaimState] /\ RelOK' /\ claim'[k] = c
           /\ \A j \in Keys : KeyFit(j)'
           /\ \A j \in Keys : Kept(j) \/ (j = k /\ ~Tried(k))
<1>1. claim \in [Keys -> ClaimState]
  BY DEF Inv, Types
<1>2. /\ claim' \in [Keys -> ClaimState] /\ claim'[k] = c
      /\ \A j \in Keys \ {k} : claim'[j] = claim[j]
  BY <1>1 DEF ClaimStep
<1>3. \A j \in Keys : claim'[j] = claim[j] \/ (j = k /\ ~Tried(k) /\ booking[k] = "none")
  BY <1>2 DEF ClaimStep
<1>4. RelOK'
  BY RelTypes DEF ClaimStep, RelOK
<1>5. OneFirst'
  BY <1>3 DEF ClaimStep, Inv, OneFirst
<1>6. Stable
  BY <1>3 DEF Stable, Lasting, ClaimStep, BoundTo, Tried
<1>7. ASSUME NEW j \in Keys PROVE KeyFit(j)'
  <2>1. KeyFit(j)
    BY DEF Inv
  <2>2. CASE claim'[j] = claim[j]
    BY <2>1, <2>2 DEF KeyFit, ClaimStep, Tried, Charged, BoundTo
  <2>3. CASE j = k /\ ~Tried(k) /\ booking[k] = "none"
    BY <2>1, <2>3 DEF KeyFit, ClaimStep, Tried, Charged, BoundTo
  <2> QED
    BY <1>3, <2>2, <2>3
<1>8. \A j \in Keys : Kept(j) \/ (j = k /\ ~Tried(k))
  BY <1>3 DEF Kept, ClaimStep, Tried
<1> QED
  BY <1>2, <1>4, <1>5, <1>6, <1>7, <1>8

LEMMA BeginInv == ASSUME Inv, NEW p \in Requests, Begin(p) PROVE Inv'
<1>1. PICK k \in Keys :
        /\ booking[k] = "none"
        /\ \/ claim[k] = "none" /\ claim' = [claim EXCEPT ![k] = "held"]
           \/ claim[k] # "none" /\ Tried(k) /\ UNCHANGED claim
        /\ proc' = [proc EXCEPT ![p] = [Idle EXCEPT !.todo = <<"terms">>, !.key = k,
                                                    !.new = claim[k] = "none"]]
  BY DEF Begin, Tried
<1>2. /\ UNCHANGED <<rel, attempt, booking, refund>> /\ calls < MaxCalls /\ calls' = calls + 1
      /\ p \in Procs /\ p \notin Restorers /\ KeyFit(k) /\ Types
  BY DEF Begin, Procs, Inv
<1>3. PICK c \in ClaimState : ClaimStep(k, c) /\ c # "none"
  <2>1. claim \in [Keys -> ClaimState]
    BY <1>2 DEF Types
  <2>2. CASE claim[k] = "none"
    BY <1>1, <1>2, <2>2 DEF ClaimStep, KeyFit, ClaimState
  <2>3. CASE claim[k] # "none"
    BY <1>1, <1>2, <2>1, <2>3 DEF ClaimStep
  <2> QED
    BY <2>2, <2>3
<1>4. /\ Stable /\ OneFirst' /\ claim' \in [Keys -> ClaimState] /\ RelOK' /\ claim'[k] = c
      /\ \A j \in Keys : KeyFit(j)'
      /\ \A j \in Keys : Kept(j) \/ (j = k /\ ~Tried(k))
  BY <1>3, ClaimOK
<1>5. \A j \in Keys : Kept(j) \/ (~Tried(j) /\ claim[j] = "none")
  BY <1>1, <1>2, <1>4 DEF Kept, Tried
<1> DEFINE y == [Idle EXCEPT !.todo = <<"terms">>, !.key = k, !.new = claim[k] = "none"]
<1>6. PICK x \in ProcState : /\ x = y /\ x.todo = <<"terms">> /\ x.key = k
                             /\ x.new = (claim[k] = "none")
  <2>1. <<"terms">> \in Seq(Step)
    BY DEF Step
  <2>2. y \in ProcState /\ y.todo = <<"terms">> /\ y.key = k /\ y.new = (claim[k] = "none")
    BY <2>1, IdleFits DEF Idle, ProcState
  <2> QED
    BY <2>2
<1>7. proc' = [proc EXCEPT ![p] = x]
  BY <1>1, <1>6
<1> HIDE DEF y
<1>8. Shape(x) /\ ~Drops(x) /\ x.todo # <<>> /\ \A u : Doing(x, u) <=> u = "terms"
  BY <1>6, One DEF Step
<1>9. OwnFit(x)' /\ CallFit(x)' /\ PassFit(x)'
  <2>1. Tried(k) => ~x.new
    BY <1>2, <1>6 DEF KeyFit
  <2>2. OwnFit(x)'
    BY <1>1, <1>2, <1>3, <1>4, <1>6, <1>8, <2>1 DEF OwnFit, Tried
  <2> QED
    BY <1>8, <2>2 DEF CallFit, PassFit, Sweeping
<1>10. Fit(p, x)'
  BY <1>2, <1>8, <1>9 DEF Fit
<1>11. Types'
  <2>1. proc' \in [Procs -> ProcState] /\ calls' \in 0..MaxCalls
    BY <1>2, <1>7 DEF Types
  <2> QED
    BY <1>2, <1>4, <2>1 DEF Types
<1>12. claim[x.key] = "none" \/ attempt'[x.key].status # "none"
  BY <1>1, <1>2, <1>6 DEF Tried
<1> QED
  BY <1>2, <1>4, <1>5, <1>7, <1>10, <1>11, <1>12, StepInv

\* A step that only gives up.
LEMMA EndedInv ==
    ASSUME Inv, UNCHANGED <<rel, claim, attempt, booking, refund, calls>>, NEW p \in Requests,
           NEW s, At(p, s), NEW x \in ProcState, Ended(p, x),
           Drops(x) => Mine(p, Key(p)) /\ ~Tried(Key(p))
    PROVE  Inv'
<1>1. p \in Procs /\ Key(p) \in Keys /\ OwnFit(proc[p]) /\ proc[p].todo # <<>>
  BY OwnAt DEF Inv, Fit, Procs, At
<1>2. Drops(x) => claim[Key(p)] # "none" /\ booking[Key(p)] = "none"
  BY <1>1 DEF OwnFit, Mine, Key
<1>3. Fit(p, x)' /\ (Holds(x) => Drops(x) /\ x.key = Key(p))
  BY <1>1, <1>2, EndedFit DEF Tried
<1>4. Holds(x) => Mine(p, x.key)
  BY <1>3
<1>5. proc' = [proc EXCEPT ![p] = x] /\ refund' \in [Keys -> RefundState]
  BY DEF Ended, Inv, Types
<1> QED
  BY <1>1, <1>3, <1>4, <1>5, RelStays, RelInv

LEMMA ClaimedFields ==
    ASSUME rel \in Relationship, NEW k \in Keys
    PROVE  /\ Claimed(k) \in Relationship /\ Claimed(k).state = "FIRST_PENDING"
           /\ Claimed(k).pending \in Pending /\ Claimed(k).consumed = rel.consumed
<1>1. PICK w \in Pending : w = [key |-> k, bound |-> FALSE, refund |-> FALSE]
  BY DEF Pending
<1>2. PICK y \in Relationship : /\ y = To("FIRST_PENDING", w) /\ y.state = "FIRST_PENDING"
                                /\ y.pending = w /\ y.consumed = rel.consumed
  BY ToFields
<1>3. PICK r \in Keys \cup {None} : r = rel.released
  BY DEF Relationship
<1>4. Claimed(k) = [y EXCEPT !.released = r]
  BY <1>1, <1>2, <1>3 DEF Claimed
<1>5. Claimed(k) = [state |-> y.state, revision |-> y.revision, pending |-> y.pending,
                    consumed |-> y.consumed, released |-> r]
  BY <1>4 DEF Relationship
<1>6. Claimed(k) \in Relationship
  BY <1>5 DEF Relationship
<1> QED
  BY <1>1, <1>2, <1>5, <1>6

LEMMA ResolveForFinalizeInv == ASSUME Inv, NEW p \in Requests, ResolveForFinalize(p) PROVE Inv'
<1>1. /\ At(p, "terms") /\ UNCHANGED <<claim, attempt, booking, refund, calls>>
      /\ refund' \in [Keys -> RefundState]
  BY DEF ResolveForFinalize, Inv, Types
<1>2. /\ p \in Procs /\ p \notin Restorers /\ Types /\ Shape(proc[p]) /\ proc[p] \in ProcState
      /\ Key(p) \in Keys /\ Mine(p, Key(p)) /\ claim[Key(p)] # "none"
      /\ booking[Key(p)] # "none" => Tried(Key(p))
      /\ Tried(Key(p)) => ~proc[p].new
  BY <1>1, OwnAt
<1>3. \/ /\ rel' = rel \/ (rel.state = "ELIGIBLE" /\ rel' = Claimed(Key(p)))
         /\ \E c \in Class : Classified(p, c)
      \/ Leave(p, GiveBack(p, "RETURNING")) /\ UNCHANGED rel
  BY DEF ResolveForFinalize, Class
<1>4. CASE /\ rel' = rel \/ (rel.state = "ELIGIBLE" /\ rel' = Claimed(Key(p)))
           /\ \E c \in Class : Classified(p, c)
  <2>1. PICK c \in Class : Classified(p, c)
    BY <1>4
  <2> DEFINE y == [proc[p] EXCEPT !.todo = <<"record">>, !.class = c]
  <2>2. "record" \in Step /\ <<"record">> \in Seq(Step)
    BY DEF Step
  <2>3. PICK x \in ProcState : /\ x = y /\ x.todo = <<"record">> /\ x.key = proc[p].key
                               /\ x.new = proc[p].new /\ x.class = c
    <3>1. y \in ProcState /\ y.todo = <<"record">> /\ y.key = proc[p].key /\ y.new = proc[p].new /\ y.class = c
      BY <1>2, <2>2 DEF ProcState
    <3> QED
      BY <3>1
  <2>4. proc' = [proc EXCEPT ![p] = x]
    BY <1>2, <2>1, <2>3 DEF Classified, Types
  <2> HIDE DEF y
  <2>5. Shape(x) /\ ~Drops(x) /\ x.todo # <<>> /\ \A u : Doing(x, u) <=> u = "record"
    BY <2>2, <2>3, One
  <2>6. OwnFit(x)'
    BY <1>1, <1>2, <2>3, <2>5 DEF OwnFit, Tried, Key
  <2>7. CallFit(x)' /\ PassFit(x)'
    BY <2>5 DEF CallFit, PassFit, Sweeping
  <2>8. Fit(p, x)'
    BY <1>2, <2>5, <2>6, <2>7 DEF Fit
  <2>9. RelStep
    <3>1. CASE rel' = rel
      BY <3>1, RelStays
    <3>2. CASE rel.state = "ELIGIBLE" /\ rel' = Claimed(Key(p))
      <4>1. /\ rel' \in Relationship /\ rel'.state = "FIRST_PENDING" /\ rel'.pending \in Pending
            /\ rel'.consumed = rel.consumed
        BY <1>2, <3>2, RelTypes, ClaimedFields
      <4>2. \A j \in Keys : ~BoundTo(j)
        BY <3>2, RelTypes DEF RelOK, BoundTo
      <4> QED
        BY <3>2, <4>1, <4>2, NoneAssumption DEF RelStep, RelOK
    <3> QED
      BY <1>4, <3>1, <3>2
  <2>10. Mine(p, x.key)
    BY <1>2, <2>3 DEF Key
  <2> QED
    BY <1>1, <1>2, <2>4, <2>8, <2>9, <2>10, RelInv
<1>5. CASE Leave(p, GiveBack(p, "RETURNING")) /\ UNCHANGED rel
  <2>1. PICK x \in ProcState : Ended(p, x) /\ (Drops(x) => proc[p].new)
    BY <1>2, <1>5, GivesBack
  <2> QED
    BY <1>1, <1>2, <1>5, <2>1, EndedInv
<1> QED
  BY <1>3, <1>4, <1>5

LEMMA RecordContractInv == ASSUME Inv, NEW p \in Requests, RecordContract(p) PROVE Inv'
<1> DEFINE class == proc[p].class
<1>1. /\ At(p, "record") /\ UNCHANGED <<rel, attempt, booking, refund, calls>>
      /\ refund' \in [Keys -> RefundState]
  BY DEF RecordContract, Inv, Types
<1>2. PICK k \in Keys : k = Key(p)
  BY <1>1, OwnAt
<1>3. /\ p \in Procs /\ p \notin Restorers /\ Types /\ Shape(proc[p]) /\ proc[p] \in ProcState
      /\ Mine(p, k) /\ claim[k] # "none" /\ KeyFit(k)
      /\ booking[k] # "none" => Tried(k)
      /\ Tried(k) => ~proc[p].new
      /\ class \in Class
  BY <1>1, <1>2, OwnAt
<1>4. \/ /\ claim[k] \in {"held", class} /\ claim' = [claim EXCEPT ![k] = class]
         /\ Goto(p, IF class = "FIRST" THEN "charge" ELSE "persist")
      \/ Leave(p, GiveBack(p, class)) /\ UNCHANGED claim
  BY <1>2 DEF RecordContract
<1>5. CASE /\ claim[k] \in {"held", class} /\ claim' = [claim EXCEPT ![k] = class]
           /\ Goto(p, IF class = "FIRST" THEN "charge" ELSE "persist")
  <2>1. PICK c \in Class : c = class
    BY <1>3
  <2>2. Tried(k) => c = "FIRST"
    BY <1>3, <1>5, <2>1 DEF KeyFit
  <2>3. ClaimStep(k, c)
    BY <1>1, <1>3, <1>5, <2>1 DEF ClaimStep, KeyFit, ClaimState
  <2>4. /\ Stable /\ OneFirst' /\ claim' \in [Keys -> ClaimState] /\ RelOK' /\ claim'[k] = c
        /\ \A j \in Keys : KeyFit(j)'
        /\ \A j \in Keys : Kept(j) \/ (j = k /\ ~Tried(k))
    BY <2>3, ClaimOK
  <2>5. PICK s \in Step \ {"drop"} : /\ s = IF c = "FIRST" THEN "charge" ELSE "persist"
                                     /\ Goto(p, s)
    BY <1>5, <2>1 DEF Step
  <2>6. PICK x \in ProcState : Moved(p, x, s)
    BY <1>3, <2>5, GotoMoves
  <2>7. x.key = k /\ x.new = proc[p].new /\ x.class = c
    BY <1>2, <2>1, <2>6 DEF Moved, Same, Key
  <2>8. OwnFit(x)'
    <3>1. \A u : Doing(x, u) <=> u = s
      BY <2>6 DEF Moved
    <3>2. ~Drops(x)
      BY <2>6 DEF Moved
    <3>3. c # "none"
      BY DEF Class
    <3>4. s = "persist" => c \in {"FREE", "RETURNING"} /\ ~Tried(k)
      BY <2>2, <2>5 DEF Class
    <3> QED
      BY <1>1, <1>3, <2>4, <2>5, <2>7, <3>1, <3>2, <3>3, <3>4 DEF OwnFit, Tried
  <2>9. CallFit(x)'
    BY <2>5, <2>6 DEF CallFit, Moved
  <2>10. Fit(p, x)'
    BY <2>5, <2>6, <2>8, <2>9, MovedFit DEF Sweeping
  <2>11. proc' = [proc EXCEPT ![p] = x]
    BY <2>6 DEF Moved
  <2>12. Types'
    BY <1>1, <1>3, <2>4, <2>11 DEF Types
  <2> QED
    BY <1>3, <2>4, <2>7, <2>10, <2>11, <2>12, StepInv
<1>6. CASE Leave(p, GiveBack(p, class)) /\ UNCHANGED claim
  <2>1. PICK x \in ProcState : Ended(p, x) /\ (Drops(x) => proc[p].new)
    BY <1>3, <1>6, GivesBack
  <2> QED
    BY <1>1, <1>2, <1>3, <1>6, <2>1, EndedInv
<1> QED
  BY <1>4, <1>5, <1>6

LEMMA BoundFields ==
    ASSUME rel \in Relationship, rel.pending \in Pending
    PROVE  LET r == [rel EXCEPT !.pending.bound = TRUE]
           IN /\ r \in Relationship /\ r.state = rel.state /\ r.consumed = rel.consumed
              /\ r.pending \in Pending /\ r.pending.key = rel.pending.key /\ r.pending.bound
<1>a. PICK v \in Pending : v = rel.pending
  OBVIOUS
<1>b. [v EXCEPT !.bound = TRUE] \in Pending
  BY DEF Pending
<1>c. [v EXCEPT !.bound = TRUE].key = v.key /\ [v EXCEPT !.bound = TRUE].bound
  BY DEF Pending
<1>1. PICK w \in Pending : w = [v EXCEPT !.bound = TRUE] /\ w.key = v.key /\ w.bound
  BY <1>b, <1>c
<1>2. [rel EXCEPT !.pending.bound = TRUE] = [rel EXCEPT !.pending = w]
  BY <1>a, <1>1 DEF Relationship
<1>3. [rel EXCEPT !.pending = w] = [state |-> rel.state, revision |-> rel.revision, pending |-> w,
                                    consumed |-> rel.consumed, released |-> rel.released]
  BY DEF Relationship
<1>4. [rel EXCEPT !.pending = w] \in Relationship
  BY DEF Relationship
<1> QED
  BY <1>a, <1>1, <1>2, <1>3, <1>4

LEMMA BindPaymentAttemptInv == ASSUME Inv, NEW p \in Requests, BindPaymentAttempt(p) PROVE Inv'
<1>1. /\ At(p, "bind") /\ UNCHANGED <<claim, attempt, booking, refund, calls>>
      /\ refund' \in [Keys -> RefundState]
  BY DEF BindPaymentAttempt, Inv, Types
<1>2. PICK k \in Keys : k = Key(p)
  BY <1>1, OwnAt
<1>3. /\ p \in Procs /\ p \notin Restorers /\ Types /\ Shape(proc[p]) /\ proc[p] \in ProcState
      /\ Tried(k) /\ proc[p].class = "FIRST" /\ KeyFit(k)
  BY <1>1, <1>2, OwnAt
<1>4. CASE MayBind(k) /\ rel' = [rel EXCEPT !.pending.bound = TRUE] /\ Goto(p, "dispatch")
  <2>1. rel.state = "FIRST_PENDING" /\ rel.pending # None /\ rel.pending.key = k
    BY <1>4 DEF MayBind, Owns
  <2>2. rel \in Relationship /\ rel.pending \in Pending
    BY <2>1, RelTypes DEF Relationship
  <2>3. /\ rel' \in Relationship /\ rel'.state = "FIRST_PENDING" /\ rel'.consumed = rel.consumed
        /\ rel'.pending \in Pending /\ rel'.pending.key = k /\ rel'.pending.bound
    BY <1>4, <2>1, <2>2, BoundFields
  <2>4. RelStep
    BY <2>1, <2>3, NoneAssumption DEF RelStep, RelOK, BoundTo
  <2>5. PICK x \in ProcState : Moved(p, x, "dispatch")
    BY <1>3, <1>4, GotoMoves DEF Step
  <2>6. x.key = k /\ x.class = "FIRST"
    BY <1>2, <1>3, <2>5 DEF Moved, Same, Key
  <2>7. (\A u : Doing(x, u) <=> u = "dispatch") /\ ~Drops(x)
    BY <2>5 DEF Moved
  <2>8. ~Holds(x)
    BY <2>7 DEF Holds
  <2>9. OwnFit(x)' /\ CallFit(x)'
    BY <1>1, <1>3, <2>3, <2>6, <2>7, <2>8, NoneAssumption DEF OwnFit, Tried, CallFit, BoundTo, Holds
  <2>10. Fit(p, x)'
    BY <2>5, <2>9, MovedFit DEF Sweeping
  <2> QED
    BY <1>1, <1>3, <2>4, <2>5, <2>8, <2>10, RelInv DEF Moved
<1>5. CASE Leave(p, <<"release">>) /\ UNCHANGED rel
  <2>1. PICK x \in ProcState : Ended(p, x) /\ ~Drops(x)
    BY <1>3, <1>5, LeaveOne
  <2> QED
    BY <1>1, <1>5, <2>1, EndedInv
<1> QED
  BY <1>2, <1>4, <1>5 DEF BindPaymentAttempt

\* A request that has an attempt gives nothing else up.
LEMMA EndedAfter ==
    ASSUME Inv, Stable, NEW k \in Keys, Tried(k), NEW p \in Requests, NEW s, At(p, s), k = Key(p),
           OneFirst', RelOK', \A j \in Keys : KeyFit(j)' /\ Kept(j),
           attempt' \in [Keys -> AttemptState], UNCHANGED <<claim, booking, refund, calls>>,
           NEW x \in ProcState, proc' = [proc EXCEPT ![p] = x], Fit(p, x)', Holds(x) => x.key = k
    PROVE  Inv'
<1>1. p \in Procs /\ Types
  BY DEF Procs, Inv
<1>2. proc' \in [Procs -> ProcState]
  BY <1>1 DEF Types
<1>3. Types'
  BY <1>1, <1>2 DEF Types
<1>4. attempt'[k].status # "none"
  BY DEF Stable, Lasting
<1> QED
  BY <1>1, <1>3, <1>4, StepInv

LEMMA ChargeInv == ASSUME Inv, NEW p \in Requests, Charge(p) PROVE Inv'
<1>1. At(p, "charge") /\ UNCHANGED <<rel, claim, booking, refund, calls>>
  BY DEF Charge
<1>2. PICK k \in Keys : k = Key(p)
  BY <1>1, OwnAt
<1>3. /\ p \in Procs /\ p \notin Restorers /\ Types /\ Shape(proc[p]) /\ proc[p] \in ProcState
      /\ Mine(p, k) /\ KeyFit(k) /\ proc[p].class = "FIRST" /\ claim[k] = "FIRST"
      /\ booking[k] # "none" => Tried(k)
      /\ Tried(k) => ~proc[p].new
  BY <1>1, <1>2, OwnAt
<1>4. \/ Leave(p, GiveBack(p, "FIRST")) /\ UNCHANGED attempt
      \/ Leave(p, <<"release">>) /\ UNCHANGED attempt
      \/ /\ attempt' = IF attempt[k].status = "none"
                       THEN [attempt EXCEPT ![k].status = "NOT_CREATED"] ELSE attempt
         /\ Goto(p, "bind")
  BY <1>2 DEF Charge
<1>5. CASE Leave(p, GiveBack(p, "FIRST")) /\ UNCHANGED attempt
  <2>1. PICK x \in ProcState : Ended(p, x) /\ (Drops(x) => proc[p].new)
    BY <1>3, <1>5, GivesBack
  <2> QED
    BY <1>1, <1>2, <1>3, <1>5, <2>1, EndedInv
<1>6. CASE Leave(p, <<"release">>) /\ UNCHANGED attempt
  <2>1. PICK x \in ProcState : Ended(p, x) /\ ~Drops(x)
    BY <1>3, <1>6, LeaveOne
  <2> QED
    BY <1>1, <1>6, <2>1, EndedInv
<1>7. CASE /\ attempt' = IF attempt[k].status = "none"
                         THEN [attempt EXCEPT ![k].status = "NOT_CREATED"] ELSE attempt
           /\ Goto(p, "bind")
  <2>1. PICK x \in ProcState : Moved(p, x, "bind")
    BY <1>3, <1>7, GotoMoves DEF Step
  <2>2. x.key = k /\ x.class = "FIRST"
    BY <1>2, <1>3, <2>1 DEF Moved, Same, Key
  <2>3. (\A u : Doing(x, u) <=> u = "bind") /\ ~Drops(x) /\ proc' = [proc EXCEPT ![p] = x]
    BY <2>1 DEF Moved
  <2>4. ~Holds(x)
    BY <2>3 DEF Holds
  <2>5. CallFit(x)'
    BY <2>3 DEF CallFit
  <2>6. ASSUME attempt'[k].status # "none" PROVE Fit(p, x)'
    <3>1. OwnFit(x)'
      BY <2>2, <2>3, <2>4, <2>6 DEF OwnFit, Tried, Holds
    <3> QED
      BY <2>1, <2>5, <3>1, MovedFit DEF Sweeping
  <2>7. CASE Tried(k)
    <3>1. UNCHANGED attempt
      BY <1>7, <2>7 DEF Tried
    <3>2. Fit(p, x)' /\ refund' \in [Keys -> RefundState]
      BY <1>1, <2>6, <2>7, <3>1 DEF Tried, Inv, Types
    <3> QED
      BY <1>1, <1>3, <2>3, <2>4, <3>1, <3>2, RelStays, RelInv
  <2>8. CASE ~Tried(k)
    <3>1. attempt[k] \in AttemptState /\ attempt \in [Keys -> AttemptState]
      BY <1>3 DEF Types
    <3>a. PICK a \in AttemptState : a = [attempt[k] EXCEPT !.status = "NOT_CREATED"]
      BY <3>1 DEF AttemptState
    <3>2. /\ a.status = "NOT_CREATED" /\ a.failed = attempt[k].failed
          /\ a.comp = attempt[k].comp /\ a.sent = attempt[k].sent
      BY <3>1, <3>a DEF AttemptState
    <3>3. attempt' = [attempt EXCEPT ![k] = a]
      BY <1>7, <2>8, <3>1, <3>a DEF Tried
    <3>4. AttemptStep(k, a)
      BY <1>1, <1>3, <2>8, <3>2, <3>3 DEF AttemptStep, KeyFit, Tried
    <3>5. /\ Stable /\ OneFirst' /\ attempt' \in [Keys -> AttemptState] /\ RelOK'
          /\ \A j \in Keys : KeyFit(j)'
          /\ \A j \in Keys : Kept(j) \/ (j = k /\ ~Tried(k))
      BY <3>4, AttemptOK
    <3>6. attempt'[k].status # "none"
      BY <3>1, <3>2, <3>3
    <3>7. Types'
      <4>1. proc' \in [Procs -> ProcState]
        BY <1>3, <2>3 DEF Types
      <4> QED
        BY <1>1, <1>3, <3>5, <4>1 DEF Types
    <3> QED
      BY <1>3, <2>3, <2>4, <2>6, <3>5, <3>6, <3>7, StepInv
  <2> QED
    BY <2>7, <2>8
<1> QED
  BY <1>4, <1>5, <1>6, <1>7

LEMMA DispatchInv == ASSUME Inv, NEW p \in Requests, Dispatch(p) PROVE Inv'
<1>1. At(p, "dispatch") /\ UNCHANGED <<rel, claim, booking, refund, calls>>
  BY DEF Dispatch
<1>2. PICK k \in Keys : k = Key(p)
  BY <1>1, OwnAt
<1>3. /\ p \in Procs /\ p \notin Restorers /\ Types /\ Shape(proc[p]) /\ proc[p] \in ProcState
      /\ KeyFit(k) /\ Tried(k) /\ proc[p].class = "FIRST"
      /\ Unsettled(k) => BoundTo(k)
  BY <1>1, <1>2, OwnAt
<1>4. PICK s \in {"OPEN", "SUCCEEDED", "FAILED"} : attempt' = Recorded(k, s)
  BY <1>2 DEF Dispatch
<1>5. /\ Stable /\ OneFirst' /\ RelOK' /\ attempt' \in [Keys -> AttemptState]
      /\ \A j \in Keys : KeyFit(j)' /\ Kept(j)
  <2>1. CASE attempt[k].status = "SUCCEEDED"
    <3>1. UNCHANGED attempt
      BY <1>4, <2>1 DEF Recorded
    <3> QED
      BY <1>1, <1>3, <3>1, QuietStable DEF Types
  <2>2. CASE attempt[k].status # "SUCCEEDED"
    <3>1. AttemptStep(k, Answered(attempt[k], s))
      BY <1>1, <1>3, <1>4, <2>2, RecordedStep
    <3> QED
      BY <1>3, <3>1, AttemptOK
  <2> QED
    BY <2>1, <2>2
<1>6. /\ claim'[k] = "FIRST" /\ attempt'[k].status # "none"
  BY <1>1, <1>3, <1>5 DEF Stable, Lasting, KeyFit
<1>7. Goto(p, "persist") \/ Leave(p, <<>>) \/ Leave(p, <<"release">>)
  BY DEF Dispatch
<1>8. CASE Goto(p, "persist")
  <2>1. PICK x \in ProcState : Moved(p, x, "persist")
    BY <1>3, <1>8, GotoMoves DEF Step
  <2>2. x.key = k /\ x.class = "FIRST"
    BY <1>2, <1>3, <2>1 DEF Moved, Same, Key
  <2>3. (\A u : Doing(x, u) <=> u = "persist") /\ ~Drops(x) /\ proc' = [proc EXCEPT ![p] = x]
    BY <2>1 DEF Moved
  <2>4. OwnFit(x)' /\ CallFit(x)'
    BY <1>6, <2>2, <2>3 DEF OwnFit, Tried, CallFit
  <2>5. Fit(p, x)'
    BY <2>1, <2>4, MovedFit DEF Sweeping
  <2> QED
    BY <1>1, <1>2, <1>3, <1>5, <2>2, <2>3, <2>5, EndedAfter
<1>9. CASE Leave(p, <<>>) \/ Leave(p, <<"release">>)
  <2>1. PICK x \in ProcState : Ended(p, x) /\ ~Drops(x)
    BY <1>3, <1>9, LeaveOne, LeaveNone
  <2>2. Fit(p, x)' /\ ~Holds(x)
    BY <1>2, <2>1, EndedFit
  <2>3. proc' = [proc EXCEPT ![p] = x]
    BY <2>1 DEF Ended
  <2> QED
    BY <1>1, <1>2, <1>3, <1>5, <2>2, <2>3, EndedAfter
<1> QED
  BY <1>7, <1>8, <1>9

LEMMA RequireCompensationInv == ASSUME Inv, NEW p \in Requests, RequireCompensation(p) PROVE Inv'
<1>1. At(p, "compensate") /\ UNCHANGED <<rel, claim, booking, refund, calls>> /\ Leave(p, <<"row">>)
  BY DEF RequireCompensation
<1>2. PICK k \in Keys : k = Key(p)
  BY <1>1, OwnAt
<1>3. p \in Procs /\ Types /\ KeyFit(k) /\ Tried(k)
  BY <1>1, <1>2, OwnAt
<1>4. \/ UNCHANGED attempt
      \/ attempt[k].comp = "NOT_REQUIRED" /\ attempt' = [attempt EXCEPT ![k].comp = "REQUIRED"]
  BY <1>2 DEF RequireCompensation
<1>5. /\ Stable /\ OneFirst' /\ RelOK' /\ attempt' \in [Keys -> AttemptState]
      /\ \A j \in Keys : KeyFit(j)' /\ Kept(j)
  <2>1. CASE UNCHANGED attempt
    BY <1>1, <1>3, <2>1, QuietStable DEF Types
  <2>2. CASE attempt[k].comp = "NOT_REQUIRED" /\ attempt' = [attempt EXCEPT ![k].comp = "REQUIRED"]
    <3>1. PICK a : AttemptStep(k, a)
      BY <1>1, <1>3, <2>2, CompStep
    <3> QED
      BY <1>3, <3>1, AttemptOK
  <2> QED
    BY <1>4, <2>1, <2>2
<1>6. PICK x \in ProcState : Ended(p, x) /\ ~Drops(x)
  BY <1>1, <1>3, LeaveOne
<1>7. Fit(p, x)' /\ ~Holds(x)
  BY <1>2, <1>6, EndedFit
<1>8. proc' = [proc EXCEPT ![p] = x]
  BY <1>6 DEF Ended
<1> QED
  BY <1>1, <1>2, <1>3, <1>5, <1>7, <1>8, EndedAfter

LEMMA ReleaseAfterFailureInv == ASSUME Inv, NEW p \in Requests, ReleaseAfterFailure(p) PROVE Inv'
<1>1. /\ UNCHANGED Others /\ At(p, "release") /\ "release" \in Step \ {"drop"}
      /\ Passing(p)
  BY DEF ReleaseAfterFailure, Others, Step, Passing
<1>2. RelStep
  BY MaybeReleased DEF ReleaseAfterFailure, MayReleaseUnbound, Owns
<1>3. CASE Done(p)
  BY <1>1, <1>2, <1>3, PassDone
<1>4. CASE Then(p, <<"row">>, None)
  <2>1. Ahead(p, "row", None)
    BY <1>4 DEF Ahead, Goes, Sweeping
  <2> QED
    BY <1>1, <1>2, <2>1, PassOn
<1> QED
  BY <1>3, <1>4 DEF ReleaseAfterFailure

LEMMA DropClaimInv == ASSUME Inv, NEW p \in Requests, DropClaim(p) PROVE Inv'
<1>1. /\ At(p, "drop") /\ Done(p) /\ UNCHANGED <<rel, attempt, booking, refund, calls>>
      /\ claim' = [claim EXCEPT ![Key(p)] = "none"]
  BY DEF DropClaim
<1>2. PICK k \in Keys : k = Key(p)
  BY <1>1, OwnAt
<1>3. p \in Procs /\ p \notin Restorers /\ Types /\ Shape(proc[p]) /\ KeyFit(k) /\ OwnFit(proc[p])
  BY <1>1, <1>2, OwnAt DEF Inv, Fit
<1>4. /\ Drops(proc[p])
      /\ \E x \in ProcState :
           /\ proc' = [proc EXCEPT ![p] = x] /\ Shape(x) /\ ~Drops(x)
           /\ x.todo # <<>> => x.key = proc[p].key /\ \A u : Doing(x, u) <=> u = "release"
  BY <1>1, <1>3, Dropped
<1>5. PICK x \in ProcState :
           /\ proc' = [proc EXCEPT ![p] = x] /\ Shape(x) /\ ~Drops(x)
           /\ x.todo # <<>> => x.key = proc[p].key /\ \A u : Doing(x, u) <=> u = "release"
  BY <1>4
<1>6. Mine(p, k) /\ ~Tried(k) /\ booking[k] = "none"
  BY <1>1, <1>2, <1>3, <1>4 DEF OwnFit, At, Holds, Mine, Key
<1>7. ClaimStep(k, "none")
  BY <1>1, <1>2, <1>6 DEF ClaimStep, ClaimState
<1>8. /\ Stable /\ OneFirst' /\ claim' \in [Keys -> ClaimState] /\ RelOK'
      /\ \A j \in Keys : KeyFit(j)'
      /\ \A j \in Keys : Kept(j) \/ (j = k /\ ~Tried(k))
  BY <1>7, ClaimOK
<1>9. Ended(p, x)
  BY <1>5 DEF Ended, Key, Doing
<1>10. Fit(p, x)' /\ ~Holds(x)
  BY <1>2, <1>5, <1>9, EndedFit
<1>11. Types'
  <2>1. proc' \in [Procs -> ProcState]
    BY <1>3, <1>5 DEF Types
  <2> QED
    BY <1>1, <1>3, <1>8, <2>1 DEF Types
<1> QED
  BY <1>3, <1>5, <1>6, <1>8, <1>10, <1>11, StepInv

\* The booking of k exists; the claim of a FIRST is consumed with it.
LEMMA BookedOK ==
    ASSUME Inv, NEW k \in Keys, claim[k] \in Class, booking[k] = "none",
           booking' = [booking EXCEPT ![k] = "UPCOMING"], UNCHANGED <<claim, attempt>>,
           \/ ~IsFirst(claim[k]) /\ rel' = rel
           \/ Owns(k, "FIRST_PENDING") /\ rel' = Consumed(k)
    PROVE  /\ Stable /\ OneFirst' /\ RelOK' /\ booking' \in [Keys -> BookingState]
           /\ \A j \in Keys : KeyFit(j)'
           /\ \A j \in Keys : Kept(j) \/ (j = k /\ ~Tried(k))
<1>1. booking \in [Keys -> BookingState]
  BY DEF Inv, Types
<1>2. /\ booking' \in [Keys -> BookingState] /\ booking'[k] = "UPCOMING"
      /\ \A j \in Keys \ {k} : booking'[j] = booking[j]
  BY <1>1 DEF BookingState
<1>3. \/ ~IsFirst(claim[k]) /\ rel' = rel
      \/ /\ rel.state = "FIRST_PENDING" /\ rel.pending # None /\ rel.pending.key = k
         /\ rel' \in Relationship /\ rel'.state = "CONSUMED" /\ rel'.pending = None
         /\ rel'.consumed = k
  BY RelTypes, ConsumedFields DEF Owns
<1>4. RelOK' /\ (rel.consumed # None => rel'.consumed # None)
  BY <1>3, RelTypes DEF RelOK
<1>5. OneFirst'
  <2> SUFFICES ASSUME NEW j \in Keys, booking'[j] = "UPCOMING", IsFirst(claim[j])
               PROVE  rel'.state = "CONSUMED" /\ rel'.consumed = j
    BY DEF OneFirst
  <2>1. CASE j = k
    BY <1>3, <2>1
  <2>2. CASE j # k
    <3>1. rel.state = "CONSUMED" /\ rel.consumed = j
      BY <1>2, <2>2 DEF Inv, OneFirst
    <3> QED
      BY <1>3, <3>1
  <2> QED
    BY <2>1, <2>2
<1>6. \A j \in Keys : booking'[j] = "none" => booking[j] = "none" /\ j # k
  BY <1>2
<1>7. \A j \in Keys : BoundTo(j) /\ j # k => BoundTo(j)'
  BY <1>3 DEF BoundTo
<1>8. Stable
  BY <1>2, <1>4, <1>6, <1>7 DEF Stable, Lasting, Tried, Unsettled
<1>9. ASSUME NEW j \in Keys PROVE KeyFit(j)'
  <2>1. KeyFit(j) /\ (booking'[j] # "none" => claim[j] \in Class)
    BY <1>2 DEF Inv, KeyFit
  <2>2. Charged(j)' => Charged(j) /\ j # k
    BY <1>6 DEF Charged
  <2> QED
    BY <1>7, <2>1, <2>2 DEF KeyFit, Tried
<1>10. \A j \in Keys : Kept(j) \/ (j = k /\ ~Tried(k))
  BY <1>2 DEF Kept, Tried
<1> QED
  BY <1>2, <1>4, <1>5, <1>8, <1>9, <1>10

LEMMA PersistInv == ASSUME Inv, NEW p \in Requests, Persist(p) PROVE Inv'
<1>1. At(p, "persist") /\ UNCHANGED <<claim, attempt, refund, calls>>
  BY DEF Persist
<1>2. PICK k \in Keys : k = Key(p)
  BY <1>1, OwnAt
<1>3. PICK c : c = proc[p].class
  OBVIOUS
<1>4. /\ p \in Procs /\ p \notin Restorers /\ Types /\ Shape(proc[p]) /\ proc[p] \in ProcState
      /\ Mine(p, k) /\ claim[k] # "none" /\ KeyFit(k)
      /\ \/ c = "FIRST" /\ Tried(k)
         \/ c \in {"FREE", "RETURNING"} /\ ~Tried(k) /\ claim[k] = c
  BY <1>1, <1>2, <1>3, OwnAt
<1>5. claim[k] = c /\ c \in Class
  BY <1>4 DEF KeyFit, Class
<1>6. \/ /\ booking[k] = "none" /\ (IsFirst(c) => Owns(k, "FIRST_PENDING"))
         /\ booking' = [booking EXCEPT ![k] = "UPCOMING"]
         /\ rel' = If(IsFirst(c), Consumed(k)) /\ Leave(p, <<>>)
      \/ /\ Leave(p, IF c = "FIRST" THEN <<"compensate">>
                    ELSE <<"drop">> \o (IF IsFirst(c) THEN <<"release">> ELSE <<>>))
         /\ UNCHANGED <<rel, booking>>
      \/ Leave(p, <<>>) /\ UNCHANGED <<rel, booking>>
  BY <1>2, <1>3 DEF Persist, MayConsume
<1>7. CASE /\ booking[k] = "none" /\ (IsFirst(c) => Owns(k, "FIRST_PENDING"))
           /\ booking' = [booking EXCEPT ![k] = "UPCOMING"]
           /\ rel' = If(IsFirst(c), Consumed(k)) /\ Leave(p, <<>>)
  <2>1. \/ ~IsFirst(claim[k]) /\ rel' = rel
        \/ Owns(k, "FIRST_PENDING") /\ rel' = Consumed(k)
    BY <1>5, <1>7 DEF If
  <2>2. /\ Stable /\ OneFirst' /\ RelOK' /\ booking' \in [Keys -> BookingState]
        /\ \A j \in Keys : KeyFit(j)'
        /\ \A j \in Keys : Kept(j) \/ (j = k /\ ~Tried(k))
    BY <1>1, <1>5, <1>7, <2>1, BookedOK
  <2>3. PICK x \in ProcState : Ended(p, x) /\ ~Drops(x)
    BY <1>7, LeaveNone
  <2>4. Fit(p, x)' /\ ~Holds(x) /\ proc' = [proc EXCEPT ![p] = x]
    BY <1>2, <2>3, EndedFit DEF Ended
  <2>5. Types'
    <3>1. proc' \in [Procs -> ProcState]
      BY <1>4, <2>4 DEF Types
    <3> QED
      BY <1>1, <1>4, <2>2, <3>1 DEF Types
  <2> QED
    BY <1>4, <2>2, <2>4, <2>5, StepInv
<1>8. CASE Leave(p, <<>>) /\ UNCHANGED <<rel, booking>>
  <2>1. PICK x \in ProcState : Ended(p, x) /\ ~Drops(x)
    BY <1>8, LeaveNone
  <2> QED
    BY <1>1, <1>8, <2>1, EndedInv
<1>9. CASE c = "FIRST" /\ Leave(p, <<"compensate">>) /\ UNCHANGED <<rel, booking>>
  <2>1. "compensate" \in Step /\ <<"compensate">> \in Seq(Step)
    BY DEF Step
  <2>2. PICK steps \in Seq(Step) : steps = <<"compensate">> /\ steps # <<>>
    BY <2>1
  <2>3. PICK x \in ProcState : LeftTo(p, x, steps)
    BY <1>4, <1>9, <2>2, Left
  <2>4. /\ Shape(x) /\ ~Drops(x) /\ x.key = k /\ proc' = [proc EXCEPT ![p] = x]
        /\ \A u : Doing(x, u) <=> u = "compensate"
    BY <1>2, <2>1, <2>2, <2>3, One DEF LeftTo, Key
  <2>5. ~Holds(x)
    BY <2>4 DEF Holds
  <2>6. OwnFit(x)' /\ CallFit(x)' /\ PassFit(x)'
    BY <1>1, <1>4, <1>9, <2>4, <2>5 DEF OwnFit, CallFit, PassFit, Sweeping, Tried, Holds
  <2>7. Fit(p, x)' /\ refund' \in [Keys -> RefundState]
    BY <1>1, <1>4, <2>4, <2>6 DEF Fit, Types
  <2> QED
    BY <1>1, <1>4, <1>9, <2>4, <2>5, <2>7, RelStays, RelInv
<1>10. CASE /\ c # "FIRST" /\ UNCHANGED <<rel, booking>>
            /\ Leave(p, <<"drop">> \o (IF IsFirst(c) THEN <<"release">> ELSE <<>>))
  <2>1. Leave(p, <<"drop">>) \/ Leave(p, <<"drop", "release">>)
    <3>1. <<"drop">> \o <<>> = <<"drop">>
      BY Joined DEF Step
    <3>2. <<"drop">> \o <<"release">> = <<"drop", "release">>
      BY DropFirst
    <3> QED
      BY <1>10, <3>1, <3>2
  <2>2. PICK x \in ProcState : Ended(p, x)
    BY <1>4, <2>1, LeaveDrop
  <2> QED
    BY <1>1, <1>2, <1>4, <1>10, <2>2, EndedInv
<1> QED
  BY <1>6, <1>7, <1>8, <1>9, <1>10

-----------------------------------------------------------------------------
LEMMA InitInv == Init => Inv
<1> SUFFICES ASSUME Init PROVE Inv
  OBVIOUS
<1>1. RelOK
  <2>1. rel \in Relationship
    BY DEF Init, Relationship
  <2> QED
    BY <2>1 DEF Init, RelOK
<1>2. Types
  BY <1>1, IdleFits, ProcsAssumption DEF Init, Types, ClaimState, AttemptState, BookingState, RefundState
<1>3. \A p \in Procs : proc[p] = Idle
  BY DEF Init
<1>4. ~Holds(Idle) /\ Idle.todo = <<>>
  BY IdleFits DEF Holds, Drops, Doing
<1>5. \A p \in Procs : Fit(p, Idle)
  BY <1>4, IdleFits DEF Fit, OwnFit, CallFit, PassFit, RestFit, Doing, Sweeping
<1>6. Alone
  BY <1>3, <1>4 DEF Alone, Procs
<1>7. OneFirst
  BY DEF Init, OneFirst
<1>8. \A k \in Keys : KeyFit(k)
  BY DEF Init, KeyFit, Tried, Charged
<1> QED
  BY <1>2, <1>3, <1>5, <1>6, <1>7, <1>8 DEF Inv

LEMMA RequestInv == ASSUME Inv, NEW p \in Requests, Request(p) PROVE Inv'
  BY BeginInv, ResolveForFinalizeInv, RecordContractInv, ChargeInv, BindPaymentAttemptInv, DispatchInv,
     PersistInv, RequireCompensationInv, ReleaseAfterFailureInv, DropClaimInv DEF Request

LEMMA ReconcileInv == ASSUME Inv, NEW p \in Requests \cup Sweeps, Reconcile(p) PROVE Inv'
  BY ReadRowInv, ReadBookingInv, ConsumeForBookingInv, ReadKeyedAttemptInv, ReleaseAbandonedInv,
     ReadBoundAttemptInv, ReleaseFailedInv, FinishBusinessRestorationInv DEF Reconcile

LEMMA RestoreInv == ASSUME Inv, NEW p \in Restorers, Restore(p) PROVE Inv'
  BY CancelFreeInv, CommitFreeInv, ReadConsumedInv, CheckHistoryInv, RestoreEligibleInv,
     RecheckHistoryInv, RevertRestorationInv, AbandonInv DEF Restore

LEMMA PaymentInv == ASSUME Inv, NEW k \in Keys, Payment(k) PROVE Inv'
<1>1. CASE ProviderReports(k) \/ ResolveUnsent(k) \/ RefundSucceeds(k)
  BY <1>1, ProviderReportsInv, ResolveUnsentInv, RefundSucceedsInv
<1>2. CASE CompensateOrphan(k) \/ Compensate(k)
  <2>1. KeyFit(k)
    BY DEF Inv
  <2>2. Tried(k)
    BY <1>2, <2>1 DEF KeyFit, CompensateOrphan, Compensate, Tried
  <2> QED
    BY <1>2, <2>2, CompensationInv
<1> QED
  BY <1>1, <1>2 DEF Payment

LEMMA StutterInv == ASSUME Inv, UNCHANGED vars PROVE Inv'
<1>1. UNCHANGED <<rel, claim, attempt, booking, refund, proc, calls>>
  BY DEF vars
<1>2. Stable /\ RelOK' /\ OneFirst' /\ \A k \in Keys : KeyFit(k)' /\ Kept(k)
  BY <1>1, QuietStable
<1>3. Types'
  BY <1>1, <1>2 DEF Inv, Types
<1> QED
  BY <1>1, <1>2, <1>3, StayInv

LEMMA NextInv == ASSUME Inv, [Next]_vars PROVE Inv'
  BY RequestInv, ReconcileInv, StartSweepInv, RestoreInv, PaymentInv, CancelByBusinessInv,
     CancelByCustomerInv, StutterInv DEF Next

LEMMA Invariance == Spec => []Inv
<1>1. Init => Inv
  BY InitInv
<1>2. Inv /\ [Next]_vars => Inv'
  BY NextInv
<1> QED
  BY <1>1, <1>2, PTL DEF Spec

-----------------------------------------------------------------------------
\* Every variable of the relationship, the claims, attempts, bookings and processes has its type.
THEOREM TypesHold == Spec => []TypeOK
<1>1. Inv => TypeOK
  BY DEF Inv, Types, RelOK, TypeOK, ProcState
<1> QED
  BY <1>1, Invariance, PTL

\* However many requests, sweeps, refunds and restorations interleave over however many
\* purchases, a standing booking sold as FIRST is the one the relationship was consumed by
\* (consumeFirst in the booking transaction, beginBusinessCancellation, restoreFirst...).
THEOREM OneFirstAtATime == Spec => []OneFirst
<1>1. Inv => OneFirst
  BY DEF Inv
<1> QED
  BY <1>1, Invariance, PTL

\* No other purchase gets the FIRST while Stripe has, or may get, the money of the one that
\* claimed it (bindPaymentAttempt before the dispatch, releaseFirstClaim only unbound or failed).
THEOREM ChargedKeepsTheClaim == Spec => []ChargedKeepsClaim
<1>1. Inv => ChargedKeepsClaim
  BY DEF Inv, KeyFit, BoundTo, ChargedKeepsClaim
<1> QED
  BY <1>1, Invariance, PTL

LEMMA RequestWaits ==
    ASSUME NEW p \in Requests, Request(p), rel.state = "RESTORATION_PENDING" PROVE rel' = rel
<1>1. CASE Begin(p) \/ RecordContract(p) \/ Charge(p) \/ Dispatch(p) \/ RequireCompensation(p)
           \/ DropClaim(p)
  BY <1>1 DEF Begin, RecordContract, Charge, Dispatch, RequireCompensation, DropClaim
<1>2. CASE ResolveForFinalize(p)
  BY <1>2 DEF ResolveForFinalize
<1>3. CASE BindPaymentAttempt(p)
  BY <1>3 DEF BindPaymentAttempt, MayBind, Owns
<1>4. CASE Persist(p)
  BY <1>4 DEF Persist, MayConsume, Owns, If
<1>5. CASE ReleaseAfterFailure(p)
  BY <1>5 DEF ReleaseAfterFailure, MayReleaseUnbound, Owns, If
<1> QED
  BY <1>1, <1>2, <1>3, <1>4, <1>5 DEF Request

\* reconcile gives the claim back when the compensation is refunded (restoreAfterCompensation),
\* reconcileBusinessCancellation when the refund of the cancelled booking is.
LEMMA ReconcileWaits ==
    ASSUME NEW p, Reconcile(p), rel.state = "RESTORATION_PENDING"
    PROVE  \/ rel'.state = "RESTORATION_PENDING"
           \/ attempt[rel.pending.key].comp = "REFUNDED"
           \/ refund[rel.pending.key] = "SUCCEEDED"
<1>1. CASE ReadRow(p) \/ ReadBooking(p) \/ ReadKeyedAttempt(p)
  BY <1>1 DEF ReadRow, ReadBooking, ReadKeyedAttempt
<1>2. CASE ConsumeForBooking(p)
  BY <1>2 DEF ConsumeForBooking, MayConsume, Owns, If
<1>3. CASE ReleaseAbandoned(p)
  BY <1>3 DEF ReleaseAbandoned, MayReleaseUnbound, Owns, If
<1>4. CASE ReleaseFailed(p)
  BY <1>4 DEF ReleaseFailed, MayReleaseBound, Owns, If
<1>5. CASE ReadBoundAttempt(p)
  <2>1. \/ rel' = rel \/ rel' = If(MayMark(p), Marked)
        \/ /\ CompensationRefunded(attempt[Row(p).pending.key])
           /\ rel' = If(MayRestore(p), Released)
    BY <1>5 DEF ReadBoundAttempt
  <2>2. CASE rel' = If(MayMark(p), Marked)
    BY <2>2 DEF MayMark, MayReleaseBound, Owns, If
  <2>3. CASE /\ CompensationRefunded(attempt[Row(p).pending.key])
             /\ rel' = If(MayRestore(p), Released)
    BY <2>3 DEF CompensationRefunded, MayRestore, Owns, If
  <2> QED
    BY <2>1, <2>2, <2>3
<1>6. CASE FinishBusinessRestoration(p)
  BY <1>6 DEF FinishBusinessRestoration, MayFinish, Owns, If
<1> QED
  BY <1>1, <1>2, <1>3, <1>4, <1>5, <1>6 DEF Reconcile

LEMMA RestoreWaits ==
    ASSUME Inv, NEW p \in Restorers, Restore(p), rel.state = "RESTORATION_PENDING"
    PROVE  rel' = rel
<1>1. CASE CancelFree(p) \/ ReadConsumed(p) \/ CheckHistory(p) \/ RecheckHistory(p) \/ Abandon(p)
  BY <1>1 DEF CancelFree, ReadConsumed, CheckHistory, RecheckHistory, Abandon
<1>2. CASE CommitFree(p)
  <2>1. Row(p) # None => Row(p).state = "CONSUMED"
    BY <1>2, RestAt DEF CommitFree
  <2> QED
    BY <1>2, <2>1 DEF CommitFree, If
<1>3. CASE RestoreEligible(p)
  BY <1>3 DEF RestoreEligible, MayBeginRestoration, If
<1>4. CASE RevertRestoration(p)
  BY <1>4 DEF RevertRestoration, MayRevert, If
<1> QED
  BY <1>1, <1>2, <1>3, <1>4 DEF Restore

LEMMA PaymentWaits ==
    ASSUME NEW k \in Keys, rel.state = "RESTORATION_PENDING",
           Payment(k) \/ CancelByBusiness(k) \/ CancelByCustomer(k)
    PROVE  rel' = rel
<1>1. CASE Payment(k) \/ CancelByCustomer(k)
  BY <1>1 DEF Payment, ProviderReports, ResolveUnsent, CompensateOrphan, Compensate,
     RefundSucceeds, CancelByCustomer
<1>2. CASE CancelByBusiness(k)
  BY <1>2 DEF CancelByBusiness, MayBeginRestoration, If
<1> QED
  BY <1>1, <1>2

\* A FIRST that waits for money to come back is not offered again before that purchase's
\* compensation or cancellation refund succeeded, whoever else touches the relationship.
THEOREM WaitsForTheMoney == Spec => RestoredIsRefunded
<1> DEFINE Back == rel.state = "RESTORATION_PENDING" /\ rel'.state # "RESTORATION_PENDING"
                     => \/ attempt[rel.pending.key].comp = "REFUNDED"
                        \/ refund[rel.pending.key] = "SUCCEEDED"
<1>1. ASSUME Inv, [Next]_vars PROVE [Back]_vars
  <2> SUFFICES ASSUME rel.state = "RESTORATION_PENDING", Next PROVE Back
    BY <1>1
  <2>1. CASE \E p \in Requests : Request(p)
    BY <2>1, RequestWaits
  <2>2. CASE \E p \in Requests \cup Sweeps : Reconcile(p)
    BY <2>2, ReconcileWaits
  <2>3. CASE \E p \in Sweeps : StartSweep(p)
    BY <2>3 DEF StartSweep
  <2>4. CASE \E p \in Restorers : Restore(p)
    BY <1>1, <2>4, RestoreWaits
  <2>5. CASE \E k \in Keys : Payment(k) \/ CancelByBusiness(k) \/ CancelByCustomer(k)
    BY <2>5, PaymentWaits
  <2> QED
    BY <2>1, <2>2, <2>3, <2>4, <2>5 DEF Next
<1> QED
  BY <1>1, Invariance, PTL DEF Spec, RestoredIsRefunded
=============================================================================
