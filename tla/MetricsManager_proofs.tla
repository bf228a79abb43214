----------------------- MODULE MetricsManager_proofs ------------------------
(***************************************************************************)
(* No interleaving of requests makes a counter count a report twice.  The  *)
(* invariant speaks of every metric the process holds, not only of those   *)
(* the store shows: stale elements past the length, arrays that a racing   *)
(* append dropped, the arguments and results of calls under way - any of   *)
(* them may come back into a counter.                                      *)
(*                                                                         *)
(* Requests that take turns lose none either: a counter never loses a      *)
(* contribution, so those that a request has stored by the time it is      *)
(* answered stay in the slice.                                             *)
(***************************************************************************)
EXTENDS MetricsManager, MemStore_proofs, FiniteSetTheorems

OnceSet == {m \in Metric : Once(m)}

ManagerInv ==
    /\ StoreIn(OnceSet, heap, hdr, call)
    /\ RequestsTypeOK

Request == [pc : {"new"} \cup Working \cup Outcomes, body : Seq(Item), i : Nat \ {0}]

\* A store within S is within any larger set of metrics.
LEMMA StoreInMonotone ==
    ASSUME NEW S, NEW T, S \subseteq T, NEW h, NEW d, NEW c, StoreIn(S, h, d, c)
    PROVE  StoreIn(T, h, d, c)
<1>1. Seq(S) \subseteq Seq(T)
  OBVIOUS
<1>2. Seq(Seq(S)) \subseteq Seq(Seq(T))
  BY <1>1
<1>3. CallIn(S) \subseteq CallIn(T)
  BY DEF CallIn
<1> QED BY <1>2, <1>3 DEF StoreIn

\* One goroutine starts another call; the store stays within S.
LEMMA CallChanges ==
    ASSUME NEW S, NEW h, NEW d, NEW c, StoreIn(S, h, d, c),
           NEW p \in Callers, NEW x \in CallIn(S),
           x.at.ptr \in DOMAIN h, x.pc # "shrink"
    PROVE  StoreIn(S, h, d, [c EXCEPT ![p] = x])
BY DEF StoreIn

\* The zero metric counts nothing.
LEMMA ZeroOnce == Zero \in OnceSet
BY DEF OnceSet, Zero, Metric, Once

\* Overwriting a metric that counts each item once with another gives a third.
LEMMA OnceSetClosed == Closed(OnceSet)
<1> SUFFICES ASSUME NEW a \in OnceSet, NEW b \in OnceSet
             PROVE  Overwrite(a, b) \in OnceSet
  BY ZeroOnce DEF Closed
<1>1. CASE b.mtype = "gauge"
  BY <1>1 DEF OnceSet, Metric, Once, Overwrite
<1>2. CASE b.mtype = "counter"
  BY <1>2 DEF OnceSet, Metric, Once, Overwrite
<1>3. CASE b.mtype # "gauge" /\ b.mtype # "counter"
  BY <1>3 DEF Overwrite
<1> QED BY <1>1, <1>2, <1>3

\* A request that moves forward spends more items, never fewer.
LEMMA MovingOn ==
    ASSUME RequestsTypeOK, NEW r \in Requests, NEW STATE s, s \in Request,
           st' = [st EXCEPT ![r] = s],
           \A i \in 1..Len(s.body) : <<r, i>> \in Tags,
           s.pc \in {"known", "store"} => s.i <= Len(s.body),
           \/ s.i > st[r].i
           \/ s.i = st[r].i /\ (st[r].pc \in {"store", "aborted"} => s.pc \in {"store", "aborted"})
    PROVE  RequestsTypeOK' /\ OnceSet \subseteq OnceSet'
<1>1. st \in [Requests -> Request]
  BY DEF RequestsTypeOK, Request
<1>2. RequestsTypeOK'
  <2>1. st' \in [Requests -> Request]
    BY <1>1
  <2>2. ASSUME NEW q \in Requests
        PROVE  /\ \A i \in 1..Len(st'[q].body) : <<q, i>> \in Tags
               /\ st'[q].pc \in {"known", "store"} => st'[q].i <= Len(st'[q].body)
    <3>1. CASE q = r
      BY <1>1, <3>1
    <3>2. CASE q # r
      BY <1>1, <3>2 DEF RequestsTypeOK, MoreItems
    <3> QED BY <3>1, <3>2
  <2> QED BY <2>1, <2>2 DEF RequestsTypeOK, MoreItems, Request
<1>3. ASSUME NEW t \in Tags, Spent(t)
      PROVE  Spent(t)'
  <2>1. t[1] \in Requests /\ t[2] \in Nat
    BY ManagerAssumption
  <2>2. CASE t[1] = r
    BY <1>1, <1>3, <2>1, <2>2 DEF Spent, Request
  <2>3. CASE t[1] # r
    BY <1>1, <1>3, <2>1, <2>3 DEF Spent
  <2> QED BY <2>2, <2>3
<1>4. ASSUME NEW m \in OnceSet
      PROVE  m \in OnceSet'
  <2>1. m \in Metric /\ Once(m)
    BY DEF OnceSet
  <2>2. CASE m.delta = Nil
    BY <2>1, <2>2 DEF OnceSet, Once
  <2>3. CASE m.delta # Nil
    <3>1. m.delta \in [Tags -> Nat]
      BY <2>1, <2>3 DEF Metric, Delta
    <3>2. \A t \in Tags : m.delta[t] <= (IF Spent(t)' THEN 1 ELSE 0)
      BY <1>3, <2>1, <2>3, <3>1 DEF Once
    <3> QED BY <2>1, <3>2 DEF OnceSet, Once
  <2> QED BY <2>2, <2>3
<1> QED BY <1>2, <1>4

\* What a request reports counts its own item and nothing else.
LEMMA ReportedOnce ==
    ASSUME RequestsTypeOK, NEW r \in Requests, MoreItems(r)
    PROVE  LET m == Reported(r) t == <<r, st[r].i>>
           IN  /\ m \in Metric /\ t \in Tags
               /\ m.delta # Nil => \A u \in Tags : m.delta[u] = IF u = t THEN 1 ELSE 0
<1> DEFINE t == <<r, st[r].i>>
<1>1. /\ st[r].i \in 1..Len(st[r].body) /\ st[r].body \in Seq(Item)
  BY DEF RequestsTypeOK, MoreItems
<1>2. t \in Tags
  BY <1>1 DEF RequestsTypeOK
<1>3. Current(r) \in Item
  BY <1>1 DEF Current
<1>4. Counted(t) \in Delta /\ \A u \in Tags : Counted(t)[u] = IF u = t THEN 1 ELSE 0
  BY DEF Counted, Delta
<1> HIDE DEF t
<1>5. Reported(r) = [id |-> Current(r).id, mtype |-> Current(r).mtype,
                     delta |-> IF Current(r).mtype = "counter" /\ Current(r).data
                               THEN Counted(t) ELSE Nil,
                     value |-> IF Current(r).mtype = "gauge" /\ Current(r).data
                               THEN t ELSE Nil]
  BY DEF Reported, t
<1>6. Reported(r) \in Metric
  BY <1>2, <1>3, <1>4, <1>5 DEF Metric, Item
<1> QED BY <1>2, <1>4, <1>5, <1>6 DEF t

\* A call with a metric of S, on the header as it is, is a call within S.
LEMMA NewCallIn ==
    ASSUME NEW STATE S, StoreIn(S, heap, hdr, call), NEW op \in {"get", "upsert", "delete"},
           NEW m \in S
    PROVE  /\ NewCall(op, m) \in CallIn(S)
           /\ NewCall(op, m).at.ptr \in DOMAIN heap /\ NewCall(op, m).pc # "shrink"
<1>1. hdr \in Header /\ hdr.ptr \in DOMAIN heap
  BY DEF StoreIn, Header
<1> QED BY <1>1 DEF NewCall, CallIn, Steps

\* A request's own step keeps the invariant, and the items spent only grow.
LEMMA RequestKeeps ==
    ASSUME ManagerInv, NEW r \in Requests, Receive(r) \/ RequestStep(r) \/ Reply(r)
    PROVE  ManagerInv' /\ OnceSet \subseteq OnceSet'
<1> DEFINE Now(step) == [st[r] EXCEPT !.pc = step]
<1>a. /\ StoreIn(OnceSet, heap, hdr, call) /\ RequestsTypeOK
      /\ st[r] \in Request /\ r \in Callers
      /\ \A i \in 1..Len(st[r].body) : <<r, i>> \in Tags
      /\ st[r].pc \in {"known", "store"} => st[r].i <= Len(st[r].body)
  BY ManagerAssumption DEF ManagerInv, RequestsTypeOK, Request, MoreItems
<1>b. ASSUME NEW step \in {"new"} \cup Working \cup Outcomes
      PROVE  /\ Now(step) \in Request /\ Now(step).i = st[r].i
             /\ Now(step).body = st[r].body /\ Now(step).pc = step
  BY <1>a DEF Request
<1>c. ASSUME RequestsTypeOK', OnceSet \subseteq OnceSet', UNCHANGED <<heap, hdr>>,
             \/ UNCHANGED call
             \/ \E x \in CallIn(OnceSet') : /\ call' = [call EXCEPT ![r] = x]
                                            /\ x.at.ptr \in DOMAIN heap
                                            /\ x.pc # "shrink"
      PROVE  ManagerInv'
  <2>1. StoreIn(OnceSet', heap, hdr, call)
    BY <1>a, <1>c, StoreInMonotone
  <2>2. StoreIn(OnceSet', heap, hdr, call')
    BY <1>a, <1>c, <2>1, CallChanges
  <2> QED BY <1>c, <2>2 DEF ManagerInv
<1>1. CASE Receive(r)
  <2>1. PICK b \in Bodies :
            /\ st' = [st EXCEPT ![r] = [st[r] EXCEPT !.pc = "item", !.body = b]]
            /\ UNCHANGED <<heap, hdr, call>> /\ st[r].pc = "new"
    BY <1>1 DEF Receive, In
  <2> DEFINE s == [st[r] EXCEPT !.pc = "item", !.body = b]
  <2>2. b \in Seq(Item) /\ \A i \in 1..Len(b) : <<r, i>> \in Tags
    BY ManagerAssumption
  <2>3. s \in Request /\ s.i = st[r].i /\ s.pc = "item" /\ s.body = b
    BY <1>a, <2>2 DEF Request, Working
  <2> HIDE DEF s
  <2>4. RequestsTypeOK' /\ OnceSet \subseteq OnceSet'
    BY <1>a, <2>1, <2>2, <2>3, MovingOn DEF s
  <2> QED BY <1>c, <2>1, <2>4
<1>2. CASE Reject(r) \/ NilDelta(r) \/ Abort(r) \/ AllStored(r) \/ Reply(r)
  <2>1. PICK step \in {"rejected", "aborted", "flush", "ok"} :
            /\ st' = [st EXCEPT ![r] = Now(step)]
            /\ UNCHANGED <<heap, hdr, call>>
            /\ st[r].pc = "store" => step = "aborted"
            /\ st[r].pc # "aborted"
    BY <1>2 DEF Reject, NilDelta, Abort, AllStored, Reply, In, Goto
  <2>2. step \in {"new"} \cup Working \cup Outcomes
    BY DEF Working, Outcomes
  <2> HIDE DEF Now
  <2>3. RequestsTypeOK' /\ OnceSet \subseteq OnceSet'
    BY <1>a, <1>b, <2>1, <2>2, MovingOn
  <2> QED BY <1>c, <2>1, <2>3
<1>3. CASE StoreOther(r) \/ AskKnown(r)
  <2>1. PICK step \in {"known", "store"}, op \in {"get", "upsert", "delete"},
             m \in {Reported(r), [Reported(r) EXCEPT !.delta = Nil]} :
            /\ st' = [st EXCEPT ![r] = Now(step)]
            /\ call' = [call EXCEPT ![r] = NewCall(op, m)]
            /\ UNCHANGED <<heap, hdr>>
            /\ st[r].pc = "item" /\ MoreItems(r)
            /\ m = [Reported(r) EXCEPT !.delta = Nil] \/ Current(r).mtype # "counter"
    <3>1. CASE StoreOther(r)
      BY <3>1 DEF StoreOther, In, Goto, Calls
    <3>2. CASE AskKnown(r)
      BY <3>2 DEF AskKnown, In, Goto, Calls
    <3> QED BY <1>3, <3>1, <3>2
  <2>2. step \in {"new"} \cup Working \cup Outcomes
    BY DEF Working
  <2> HIDE DEF Now
  <2>3. RequestsTypeOK' /\ OnceSet \subseteq OnceSet'
    BY <1>a, <1>b, <2>1, <2>2, MovingOn DEF MoreItems
  <2>4. m \in OnceSet
    <3>1. Reported(r) \in Metric
      BY <1>a, <2>1, ReportedOnce
    <3>2. m \in Metric /\ m.delta = Nil
      BY <2>1, <3>1 DEF Metric, Reported
    <3> QED BY <3>2 DEF OnceSet, Once
  <2>5. /\ NewCall(op, m) \in CallIn(OnceSet)
        /\ NewCall(op, m).at.ptr \in DOMAIN heap /\ NewCall(op, m).pc # "shrink"
    BY <1>a, <2>4, NewCallIn
  <2>6. NewCall(op, m) \in CallIn(OnceSet')
    BY <2>3, <2>5 DEF CallIn
  <2> QED BY <1>c, <2>1, <2>3, <2>5, <2>6
<1>4. CASE Accumulate(r)
  <2> DEFINE new == Reported(r)
             old == call[r].got
  <2>1. PICK m \in {new, [new EXCEPT !.delta = Sum(new.delta, old.delta)]} :
            /\ st' = [st EXCEPT ![r] = Now("store")]
            /\ call' = [call EXCEPT ![r] = NewCall("upsert", m)]
            /\ UNCHANGED <<heap, hdr>>
            /\ st[r].pc = "known"
            /\ m = new \/ (old # Nil /\ old.delta # Nil /\ new.delta # Nil)
    BY <1>4 DEF Accumulate, In, Goto, Calls
  <2>2. "store" \in {"new"} \cup Working \cup Outcomes
    BY DEF Working
  <2>3. RequestsTypeOK' /\ OnceSet \subseteq OnceSet'
    <3> HIDE DEF Now
    <3> QED BY <1>a, <1>b, <2>1, <2>2, MovingOn
  <2>a. <<r, st[r].i>> \in Tags
    BY <1>a, <2>1, ReportedOnce DEF MoreItems
  <2>b. PICK t \in Tags : t = <<r, st[r].i>>
    BY <2>a
  <2>4. /\ new \in Metric
        /\ new.delta # Nil => \A u \in Tags : new.delta[u] = IF u = t THEN 1 ELSE 0
    BY <1>a, <2>1, <2>b, ReportedOnce DEF MoreItems
  <2>5. Spent(t)' /\ ~Spent(t)
    <3>1. st[r].pc = "known" /\ st[r].i \in Nat /\ st'[r].pc = "store" /\ st'[r].i = st[r].i
      BY <1>a, <2>1 DEF Request, RequestsTypeOK
    <3> QED BY <2>b, <3>1 DEF Spent
  <2>6. m \in OnceSet'
    <3>1. CASE m = new
      <4>1. ASSUME new.delta # Nil, NEW u \in Tags
            PROVE  new.delta[u] <= (IF Spent(u)' THEN 1 ELSE 0)
        BY <2>4, <2>5, <4>1
      <4> HIDE DEF new
      <4> QED BY <2>4, <3>1, <4>1 DEF OnceSet, Once
    <3>2. CASE m # new
      <4> DEFINE d == Sum(new.delta, old.delta)
      <4>1. m = [new EXCEPT !.delta = d] /\ old # Nil /\ old.delta # Nil /\ new.delta # Nil
        BY <2>1, <3>2
      <4>2. old \in OnceSet /\ old \in OnceSet'
        BY <1>a, <2>3, <4>1 DEF StoreIn, CallIn
      <4>3. old.delta \in Delta /\ new.delta \in Delta
        BY <2>4, <4>1, <4>2 DEF OnceSet, Metric
      <4>4. d \in Delta /\ \A u \in Tags : d[u] = new.delta[u] + old.delta[u]
        BY <4>3 DEF Sum, Delta
      <4>5. /\ \A u \in Tags : old.delta[u] <= (IF Spent(u)' THEN 1 ELSE 0)
            /\ old.delta[t] <= 0
        BY <2>4, <2>5, <4>1, <4>2 DEF OnceSet, Once
      <4>6. \A u \in Tags : d[u] <= (IF Spent(u)' THEN 1 ELSE 0)
        <5> TAKE u \in Tags
        <5>1. old.delta[u] \in Nat
          BY <4>3 DEF Delta
        <5>2. CASE u = t
          <6>1. new.delta[u] = 1 /\ old.delta[u] <= 0 /\ Spent(u)'
            BY <2>4, <2>5, <4>1, <4>5, <5>2
          <6>2. d[u] = new.delta[u] + old.delta[u]
            BY <4>4
          <6> HIDE DEF d, new, old
          <6> QED BY <5>1, <6>1, <6>2
        <5>3. CASE u # t
          BY <2>4, <4>1, <4>4, <4>5, <5>1, <5>3
        <5> QED BY <5>2, <5>3
      <4> HIDE DEF d
      <4>7. m \in Metric /\ m.delta = d
        BY <2>4, <4>1, <4>4 DEF Metric
      <4> QED BY <4>6, <4>7 DEF OnceSet, Once
    <3> QED BY <3>1, <3>2
  <2>7. /\ NewCall("upsert", m) \in CallIn(OnceSet')
        /\ NewCall("upsert", m).at.ptr \in DOMAIN heap /\ NewCall("upsert", m).pc # "shrink"
    <3>1. StoreIn(OnceSet', heap, hdr, call)
      BY <1>a, <2>3, StoreInMonotone
    <3>2. hdr \in Header /\ hdr.ptr \in DOMAIN heap
      BY <1>a DEF StoreIn, Header
    <3> QED BY <2>6, <3>2 DEF NewCall, CallIn, Steps
  <2> QED BY <1>c, <2>1, <2>3, <2>7
<1>5. CASE NextItem(r)
  <2> DEFINE s == [st[r] EXCEPT !.pc = "item", !.i = @ + 1]
  <2>1. /\ st' = [st EXCEPT ![r] = s]
        /\ call' = [call EXCEPT ![r] = NoCall]
        /\ UNCHANGED <<heap, hdr>>
    BY <1>5 DEF NextItem
  <2>2. st[r].i + 1 \in Nat \ {0} /\ st[r].i + 1 > st[r].i
    BY <1>a DEF Request
  <2>3. s \in Request /\ s.i = st[r].i + 1 /\ s.pc = "item" /\ s.body = st[r].body
    BY <1>a, <2>2 DEF Request, Working
  <2> HIDE DEF s
  <2>4. RequestsTypeOK' /\ OnceSet \subseteq OnceSet'
    BY <1>a, <2>1, <2>2, <2>3, MovingOn
  <2>5. NoCall \in CallIn(OnceSet) /\ NoCall.at.ptr = 1 /\ NoCall.pc # "shrink"
    BY ZeroOnce DEF NoCall, CallIn, Header, Steps
  <2>6. 1 \in DOMAIN heap
    BY <1>a DEF StoreIn
  <2>7. NoCall \in CallIn(OnceSet')
    BY <2>4, <2>5 DEF CallIn
  <2> QED BY <1>c, <2>1, <2>4, <2>5, <2>6, <2>7
<1> QED BY <1>1, <1>2, <1>3, <1>4, <1>5 DEF RequestStep

\* A step of the storage call a request is executing keeps the invariant.
LEMMA StoreCallKeeps ==
    ASSUME ManagerInv, NEW p \in Callers, StoreStep(p), UNCHANGED st
    PROVE  ManagerInv' /\ OnceSet' = OnceSet
<1>1. OnceSet' = OnceSet
  BY DEF OnceSet, Once, Spent
<1>2. StoreIn(OnceSet, heap', hdr', call')
  BY OnceSetClosed, StoreStepIn DEF ManagerInv
<1>3. RequestsTypeOK'
  BY DEF ManagerInv, RequestsTypeOK, MoreItems
<1> QED BY <1>1, <1>2, <1>3 DEF ManagerInv

\* When a process ends, its memory and its calls are gone, and the requests it was
\* serving are aborted: they have spent what they had spent.
LEMMA ProcessEnds ==
    ASSUME ManagerInv,
           heap' = << <<>> >>, hdr' = [ptr |-> 1, len |-> 0], call' = [p \in Callers |-> NoCall],
           st' = [r \in Requests |-> IF r \in InFlight THEN [st[r] EXCEPT !.pc = "aborted"] ELSE st[r]]
    PROVE  ManagerInv' /\ OnceSet \subseteq OnceSet'
<1>1. \A r \in Requests : /\ st'[r] = IF r \in InFlight THEN [st[r] EXCEPT !.pc = "aborted"] ELSE st[r]
                          /\ st[r] \in Request
  BY DEF ManagerInv, RequestsTypeOK, Request
<1>2. \A r \in Requests : /\ st'[r] \in Request /\ st'[r].i = st[r].i /\ st'[r].body = st[r].body
                          /\ st[r].pc \in {"store", "aborted"} => st'[r].pc = "aborted"
                          /\ st'[r].pc \notin {"known", "store"}
  <2> TAKE r \in Requests
  <2>1. CASE r \in InFlight
    <3>1. st'[r] = [st[r] EXCEPT !.pc = "aborted"] /\ st[r] \in Request
      BY <1>1, <2>1
    <3>2. [st[r] EXCEPT !.pc = "aborted"] \in Request
      BY <3>1 DEF Request, Outcomes
    <3>3. st'[r].i = st[r].i /\ st'[r].body = st[r].body /\ st'[r].pc = "aborted"
      BY <3>1 DEF Request
    <3> QED BY <3>1, <3>2, <3>3
  <2>2. CASE r \notin InFlight
    BY <1>1, <2>2 DEF InFlight, Working, Outcomes, Request
  <2> QED BY <2>1, <2>2
<1>3. RequestsTypeOK'
  <2>1. st' \in [Requests -> Request]
    BY <1>2
  <2> QED BY <1>2, <2>1 DEF ManagerInv, RequestsTypeOK, Request
<1>4. ASSUME NEW t \in Tags, Spent(t) PROVE Spent(t)'
  <2>1. t[1] \in Requests
    BY ManagerAssumption
  <2> QED BY <1>2, <1>4, <2>1 DEF Spent
<1>5. OnceSet \subseteq OnceSet'
  <2> SUFFICES ASSUME NEW m \in OnceSet PROVE m \in OnceSet'
    OBVIOUS
  <2>1. m \in Metric /\ Once(m)
    BY DEF OnceSet
  <2>2. CASE m.delta = Nil
    BY <2>1, <2>2 DEF OnceSet, Once
  <2>3. CASE m.delta # Nil
    <3>1. m.delta \in [Tags -> Nat]
      BY <2>1, <2>3 DEF Metric, Delta
    <3>2. \A t \in Tags : m.delta[t] <= (IF Spent(t)' THEN 1 ELSE 0)
      BY <1>4, <2>1, <2>3, <3>1 DEF Once
    <3> QED BY <2>1, <3>2 DEF OnceSet, Once
  <2> QED BY <2>2, <2>3
<1>6. StoreIn(OnceSet', heap', hdr', call')
  <2>1. /\ heap' \in Seq(Seq(OnceSet')) /\ DOMAIN heap' = {1}
        /\ hdr' = [ptr |-> 1, len |-> 0] /\ call' = [p \in Callers |-> NoCall]
    OBVIOUS
  <2>2. NoCall \in CallIn(OnceSet') /\ NoCall.at.ptr = 1 /\ NoCall.pc = "idle"
    BY <1>5, ZeroOnce DEF NoCall, CallIn, Header, Steps
  <2> HIDE DEF NoCall
  <2> QED BY <2>1, <2>2 DEF StoreIn
<1> QED BY <1>3, <1>5, <1>6 DEF ManagerInv

\* The invariant holds before any request.
LEMMA ManagerInitInv == ManagerInit => ManagerInv
<1> SUFFICES ASSUME ManagerInit PROVE ManagerInv
  OBVIOUS
<1>1. StoreIn(OnceSet, heap, hdr, call)
  BY ZeroOnce, StoreInitIn DEF ManagerInit
<1>2. RequestsTypeOK
  BY DEF ManagerInit, RequestsTypeOK, Working, Outcomes, MoreItems
<1> QED BY <1>1, <1>2 DEF ManagerInv

\* Every step of a request and of its storage calls keeps the invariant.
LEMMA ManagerNextInv == ManagerInv /\ [ManagerNext]_managerVars => ManagerInv'
<1> SUFFICES ASSUME ManagerInv, [ManagerNext]_managerVars PROVE ManagerInv'
  OBVIOUS
<1>1. ASSUME NEW r \in Requests, Receive(r) \/ RequestStep(r) \/ Reply(r)
      PROVE  ManagerInv'
  BY <1>1, RequestKeeps
<1>2. ASSUME NEW r \in Requests, StoreStep(r), UNCHANGED st
      PROVE  ManagerInv'
  BY <1>2, ManagerAssumption, StoreCallKeeps
<1>3. CASE UNCHANGED managerVars
  BY <1>3 DEF managerVars, ManagerInv, RequestsTypeOK, MoreItems, OnceSet, Once, Spent
<1> QED BY <1>1, <1>2, <1>3 DEF ManagerNext

\* The inductive invariant gives the two invariants that are checked.
LEMMA ManagerInvImplies == ManagerInv => ManagerTypeOK /\ CountedAtMostOnce
<1> SUFFICES ASSUME ManagerInv PROVE ManagerTypeOK /\ CountedAtMostOnce
  OBVIOUS
<1>1. StoreIn(Metric, heap, hdr, call)
  BY StoreInMonotone DEF ManagerInv, OnceSet
<1>2. CallIn(Metric) \subseteq Call
  BY DEF CallIn, Call
<1>3. ManagerTypeOK
  BY <1>1, <1>2 DEF StoreIn, ManagerTypeOK, StoreTypeOK, ManagerInv
<1>4. ASSUME NEW i \in 1..hdr.len
      PROVE  Once(Visible[i])
  <2>1. hdr.ptr \in DOMAIN heap /\ i \in Nat /\ heap \in Seq(Seq(OnceSet))
    BY DEF ManagerInv, StoreIn
  <2>2. CellAt(hdr.ptr, i) \in OnceSet
    BY <2>1, OnceSetClosed, CellAtIn
  <2> QED BY <2>2 DEF Visible, OnceSet
<1> QED BY <1>3, <1>4 DEF CountedAtMostOnce

\* The manager's variables keep their types, and the slice its pointer valid.
THEOREM ManagerTypeCorrect == ManagerSpec => []ManagerTypeOK
<1> QED BY ManagerInitInv, ManagerNextInv, ManagerInvImplies, PTL DEF ManagerSpec

\* For any requests, bodies and interleaving of their steps, no counter in the
\* store counts a reported item twice or counts a rejected one.
THEOREM ManagerCountsOnce == ManagerSpec => []CountedAtMostOnce
<1> QED BY ManagerInitInv, ManagerNextInv, ManagerInvImplies, PTL DEF ManagerSpec

-----------------------------------------------------------------------------
(* Requests that take turns *)

\* What requests store: a metric with a name, and the value of its type at most.
Proper == {m \in Metric : /\ m.id \in Names
                          /\ m.delta # Nil => m.mtype = "counter"
                          /\ m.value # Nil => m.mtype = "gauge"}

\* One metric counts all that another counts.
Covers(m, x) == x.delta # Nil => m.delta # Nil /\ \A t \in Tags : x.delta[t] <= m.delta[t]
HeldGrows == \A x \in Held : \E y \in Held' : SameKey(x, y) /\ Covers(y, x)

\* The store has a counter of the item's name that counts the item.
Keeps(t) ==
    \E x \in Held : /\ x.id = st[t[1]].body[t[2]].id /\ x.mtype = "counter"
                    /\ x.delta # Nil /\ x.delta[t] >= 1

\* What Get returned is what is held; what Upsert is given counts that, and the item.
Found(got, m) == \/ got \in Held /\ SameKey(got, m)
                 \/ got = Nil /\ \A x \in Held : ~SameKey(x, m)
Carries(r) ==
    LET m == call[r].m
        new == Reported(r)
    IN  /\ SameKey(m, new)
        /\ new.delta # Nil => m.delta # Nil /\ m.delta[<<r, st[r].i>>] >= 1
        /\ \A x \in Held : SameKey(x, m) => Covers(m, x)
Knows(r) ==
    /\ In(r, "known") =>
        /\ ~At(r, "idle") /\ call[r].op = "get"
        /\ SameKey(call[r].m, Reported(r)) /\ Reported(r).mtype = "counter"
        /\ At(r, "done") => Found(call[r].got, Reported(r))
    /\ In(r, "store") =>
        /\ ~At(r, "idle") /\ call[r].op = "upsert"
        /\ At(r, "done") \/ Carries(r)

\* The items a request has stored are kept, and it is answered after the last.
Past(r, i) == i < st[r].i \/ (i = st[r].i /\ In(r, "store") /\ At(r, "done"))
ItemsKept(r) == \A i \in 1..Len(st[r].body) : Past(r, i) /\ Counter(r, i) => Keeps(<<r, i>>)
Served(r) ==
    /\ Knows(r)
    /\ st[r].pc \in Working \cup {"ok"} => ItemsKept(r)
    /\ st[r].pc \in {"flush", "ok"} => ~MoreItems(r)
    /\ st[r].pc = "new" => st[r].i = 1

\* A request that has the store to itself takes a step.
Alone(r) ==
    /\ Orderly(Proper) /\ Served(r)
    /\ \A q \in Callers \ {r} : ~Busy(q)
    /\ Busy(r) => st[r].pc \in {"known", "store"}
ServeStep(r) == RequestStep(r) \/ (StoreStep(r) /\ UNCHANGED st)
MapStep(r) == AsMap!Invoke(r) \/ AsMap!Effect(r) \/ AsMap!Return(r) \/ UNCHANGED AsMap!vars

\* A metric of a request is replaced as a whole by another with its key.
LEMMA ProperReplaces == Replaces(Proper)
<1> SUFFICES ASSUME NEW old \in Proper, NEW m \in Proper, SameKey(old, m)
             PROVE  Overwrite(old, m) = m
  BY DEF Replaces, Proper
<1>1. /\ old \in Metric /\ m \in Metric /\ old.id = m.id /\ old.mtype = m.mtype
      /\ m.delta # Nil \/ old.delta # Nil => m.mtype = "counter"
      /\ m.value # Nil \/ old.value # Nil => m.mtype = "gauge"
  BY DEF Proper, SameKey
<1>2. \A x, y \in Metric : x.id = y.id /\ x.mtype = y.mtype /\ x.delta = y.delta /\ x.value = y.value => x = y
  BY DEF Metric
<1>3. CASE m.mtype = "gauge"
  <2>1. Overwrite(old, m) = [old EXCEPT !.value = m.value] /\ m.delta = Nil /\ old.delta = Nil
    BY <1>1, <1>3 DEF Overwrite
  <2>2. [old EXCEPT !.value = m.value] = m
    BY <1>1, <2>1 DEF Metric
  <2> QED BY <2>1, <2>2
<1>4. CASE m.mtype = "counter"
  <2>1. Overwrite(old, m) = [old EXCEPT !.delta = m.delta] /\ m.value = Nil /\ old.value = Nil
    BY <1>1, <1>4 DEF Overwrite
  <2>2. [old EXCEPT !.delta = m.delta] = m
    BY <1>1, <2>1 DEF Metric
  <2> QED BY <2>1, <2>2
<1>5. CASE m.mtype # "gauge" /\ m.mtype # "counter"
  <2>1. Overwrite(old, m) = old
    BY <1>5 DEF Overwrite
  <2> QED BY <1>1, <1>2, <1>5, <2>1
<1> QED BY <1>3, <1>4, <1>5

LEMMA ProperOverwrites == Overwrites(Proper)
BY ProperReplaces DEF Replaces, Overwrites

\* A counter that is kept stays kept as the store grows.
LEMMA KeepsGrows ==
    ASSUME NEW t \in Tags, Keeps(t), HeldGrows, st'[t[1]].body = st[t[1]].body,
           Held \subseteq Metric, Held' \subseteq Metric
    PROVE  Keeps(t)'
<1>1. PICK x \in Held : /\ x.id = st[t[1]].body[t[2]].id /\ x.mtype = "counter"
                        /\ x.delta # Nil /\ x.delta[t] >= 1
  BY DEF Keeps
<1>2. PICK y \in Held' : SameKey(x, y) /\ Covers(y, x)
  BY DEF HeldGrows
<1>3. y.delta # Nil /\ x.delta[t] <= y.delta[t] /\ y.id = x.id /\ y.mtype = "counter"
  BY <1>1, <1>2 DEF Covers, SameKey
<1>4. x.delta[t] \in Nat /\ y.delta[t] \in Nat
  BY <1>1, <1>3 DEF Metric, Delta
<1>5. y.delta[t] >= 1
  BY <1>1, <1>3, <1>4
<1> HIDE DEF Held
<1> QED BY <1>1, <1>3, <1>5 DEF Keeps

\* What the store holds is proper, and metrics.
LEMMA HeldProper ==
    ASSUME Orderly(Proper) PROVE Held \subseteq Proper
BY DEF Orderly, Keyed, Held

\* What an item reports is a proper metric of the item's key.
LEMMA ReportedProper ==
    ASSUME RequestsTypeOK, NEW r \in Requests, MoreItems(r)
    PROVE  /\ Reported(r) \in Proper /\ Current(r) \in Item /\ <<r, st[r].i>> \in Tags
           /\ st[r].i \in 1..Len(st[r].body)
           /\ Reported(r).id = Current(r).id /\ Reported(r).mtype = Current(r).mtype
           /\ Reported(r).delta # Nil => Reported(r).delta = Counted(<<r, st[r].i>>)
           /\ Counter(r, st[r].i) => Reported(r).delta # Nil
<1>1. /\ st[r].i \in 1..Len(st[r].body) /\ st[r].body \in Seq(Item)
  BY DEF RequestsTypeOK, MoreItems
<1>2. Current(r) \in Item
  BY <1>1 DEF Current
<1>3. Reported(r) \in Metric /\ <<r, st[r].i>> \in Tags
  BY ReportedOnce
<1>4. /\ Reported(r).id = Current(r).id /\ Reported(r).mtype = Current(r).mtype
      /\ Reported(r).delta = (IF Current(r).mtype = "counter" /\ Current(r).data
                              THEN Counted(<<r, st[r].i>>) ELSE Nil)
      /\ Reported(r).value = (IF Current(r).mtype = "gauge" /\ Current(r).data
                              THEN <<r, st[r].i>> ELSE Nil)
  BY DEF Reported
<1>5. Reported(r) \in Proper
  BY <1>2, <1>3, <1>4 DEF Proper, Item
<1>6. Counter(r, st[r].i) => Reported(r).delta # Nil
  <2>1. Counted(<<r, st[r].i>>) \in Delta
    BY DEF Counted, Delta
  <2> QED BY <1>4, <2>1, NilAssumption DEF Counter, Current
<1> QED BY <1>1, <1>2, <1>3, <1>4, <1>5, <1>6

\* A step of a storage call leaves the store with all that it counted, and the request
\* with what it knows (memory.go:22-110).
LEMMA StoreStepServed ==
    ASSUME ManagerInv, NEW r \in Requests, Alone(r), StoreStep(r), UNCHANGED st
    PROVE  /\ Orderly(Proper)' /\ HeldGrows /\ Served(r)' /\ MapStep(r)
           /\ \A q \in Callers \ {r} : call'[q] = call[q]
           /\ st[r].pc \in {"known", "store"}
           /\ \A x \in Held' : x \in Held \/ SameKey(x, Reported(r))
<1>a. /\ StoreIn(Metric, heap, hdr, call) /\ RequestsTypeOK /\ r \in Callers
      /\ StoreIn(Metric, heap, hdr, call)'
  <2>1. StoreIn(Metric, heap, hdr, call)
    BY StoreInMonotone DEF ManagerInv, OnceSet
  <2>2. r \in Callers
    BY ManagerAssumption
  <2> QED BY <2>1, <2>2, MetricClosed, StoreStepIn DEF ManagerInv
<1>b. Busy(r) /\ ~At(r, "done") /\ ~At(r, "idle")
  BY DEF StoreStep, FindNext, FindHit, FindMiss, Fetch, Update, LoadRoom, LoadFull,
     Extend, Swap, Fill, Shift, Shrink, At, Busy
<1>c. /\ st[r].pc \in {"known", "store"} /\ MoreItems(r)
      /\ Orderly(Proper) /\ Served(r) /\ CallOrderly(Proper, r)
  BY <1>a, <1>b DEF Alone, RequestsTypeOK, Orderly
<1>d. /\ Orderly(Proper)' /\ (Quiet(r) \/ Lands(r))
      /\ \A q \in Callers \ {r} : call'[q] = call[q]
  BY <1>a, ProperOverwrites, StepOrderly DEF Alone
<1>e. /\ Held \subseteq Proper /\ Reported(r) \in Proper /\ <<r, st[r].i>> \in Tags
      /\ st[r].i \in Nat
      /\ Reported(r)' = Reported(r) /\ MoreItems(r)' = MoreItems(r)
  <2>1. Held \subseteq Proper /\ Reported(r) \in Proper /\ <<r, st[r].i>> \in Tags
        /\ st[r].i \in Nat
    BY <1>a, <1>c, HeldProper, ReportedProper
  <2>2. Reported(r)' = Reported(r) /\ MoreItems(r)' = MoreItems(r)
    BY DEF Reported, Current, MoreItems
  <2> QED BY <2>1, <2>2
<1>f. Held' \subseteq Proper
  BY <1>d DEF Orderly, Keyed, Held
<1>g. /\ In(r, "known") => call[r].op = "get"
      /\ In(r, "store") => call[r].op = "upsert" /\ Carries(r) /\ call[r].m \in Proper
  BY <1>b, <1>c DEF Served, Knows, In, CallOrderly
<1>1. MapStep(r)
  <2>1. call[r].op = "get" => call[r].m.id \in Names /\ call[r].m.mtype \in Types
    BY <1>c, <1>e, <1>g DEF Served, Knows, In, SameKey, Types, Proper
  <2> QED BY <1>a, <2>1, ProperReplaces, StepOfMap DEF MapStep, Alone
<1>2. HeldGrows /\ \A x \in Held' : x \in Held \/ SameKey(x, Reported(r))
  <2>a. \A x \in Held : Covers(x, x)
    BY <1>e DEF Covers, Proper, Metric, Delta
  <2>1. CASE Held' = Held
    BY <2>a, <2>1 DEF HeldGrows, SameKey
  <2>2. CASE Lands(r) /\ call[r].op = "upsert"
    <3> DEFINE m == call[r].m
    <3>1. m \in Proper /\ SameKey(m, Reported(r)) /\ (\A x \in Held : SameKey(x, m) => Covers(m, x))
      BY <1>b, <1>c, <1>g, <2>2 DEF In, Carries
    <3>2. \A old \in Held : SameKey(old, m) => Overwrite(old, m) = m
      BY <1>e, <3>1, ProperReplaces DEF Replaces
    <3>3. \/ Held' = Held \cup {m} /\ \A x \in Held : ~SameKey(x, m)
          \/ \E old \in Held : /\ SameKey(old, m)
                               /\ Held' = Besides(m) \cup {Overwrite(old, m)}
      BY <2>2 DEF Lands
    <3>4. Held' = Besides(m) \cup {m}
      BY <3>2, <3>3 DEF Besides
    <3> HIDE DEF m
    <3>5. /\ \A x \in Held : x \in Held' \/ (m \in Held' /\ SameKey(x, m))
          /\ \A x \in Held' : x \in Held \/ x = m
      BY <3>4 DEF Besides
    <3> HIDE DEF Held
    <3> QED BY <2>a, <3>1, <3>5 DEF HeldGrows, SameKey
  <2> QED BY <1>c, <1>d, <1>g, <2>1, <2>2 DEF Quiet, Lands, In
<1>3. ASSUME NEW i \in 1..Len(st[r].body), Counter(r, i), Keeps(<<r, i>>)
      PROVE  Keeps(<<r, i>>)'
  <2>1. <<r, i>> \in Tags /\ Held \subseteq Metric /\ Held' \subseteq Metric
    BY <1>a, <1>e, <1>f DEF RequestsTypeOK, Proper
  <2> QED BY <1>2, <1>3, <2>1, KeepsGrows
<1>4. ASSUME Quiet(r) PROVE Served(r)'
  <2>1. /\ ~At(r, "done")' /\ ~At(r, "idle")' /\ call'[r].op = call[r].op
        /\ call'[r].m = call[r].m /\ Held' = Held
    <3>1. Asked(r)' = Asked(r) /\ Held' = Held
      BY <1>4 DEF Quiet
    <3>2. Asked(r) = [st |-> Status(r), op |-> call[r].op, m |-> call[r].m, got |-> call[r].got]
      BY <1>b DEF Asked
    <3>3. /\ Asked(r)'.st = Status(r)'
          /\ ~At(r, "idle")' => Asked(r)'.op = call'[r].op /\ Asked(r)'.m = call'[r].m
      BY DEF Asked
    <3>4. Status(r) = "called"
      <4>1. call[r].pc # "shrink"
        BY <1>c, <1>g DEF CallOrderly, In
      <4> QED BY <1>b, <4>1 DEF Status, At
    <3>5. (At(r, "idle")' => Status(r)' = "idle") /\ (At(r, "done")' => Status(r)' = "done")
      BY DEF Status, At
    <3> HIDE DEF Status, Asked
    <3> QED BY <3>1, <3>2, <3>3, <3>4, <3>5
  <2>2. Knows(r)'
    <3>1. In(r, "store") => Carries(r)'
      BY <1>e, <1>g, <2>1 DEF Carries
    <3> QED BY <1>c, <1>e, <2>1, <3>1 DEF Served, Knows, In
  <2>3. ItemsKept(r)'
    <3>1. ItemsKept(r)
      BY <1>c DEF Served, Working
    <3>2. \A i : Past(r, i)' => Past(r, i)
      BY <2>1 DEF Past, In
    <3> QED BY <1>3, <3>1, <3>2 DEF ItemsKept, Counter
  <2> QED BY <1>c, <2>2, <2>3 DEF Served
<1>5. ASSUME Lands(r) PROVE Served(r)'
  <2>1. At(r, "done")' /\ ~At(r, "idle")' /\ call'[r].op = call[r].op /\ call'[r].m = call[r].m
    <3>1. Status(r) = "called" /\ Status(r)' = "done" /\ call'[r].op = call[r].op /\ call'[r].m = call[r].m
      BY <1>5 DEF Lands
    <3>2. call'[r].pc # "shrink"
      BY <1>a, <1>c, <1>d, <1>g, <3>1 DEF Orderly, CallOrderly, At, In
    <3> QED BY <3>1, <3>2 DEF Status, At
  <2>2. Knows(r)'
    <3>1. In(r, "known") => Found(call[r].got, Reported(r))'
      <4>1. ASSUME In(r, "known")
            PROVE  /\ Held' = Held
                   /\ \/ call'[r].got \in Held /\ SameKey(call'[r].got, call[r].m)
                      \/ call'[r].got = Nil /\ \A x \in Held : ~SameKey(x, call[r].m)
        BY <1>5, <1>g, <4>1 DEF Lands
      <4>2. In(r, "known") => SameKey(call[r].m, Reported(r))
        BY <1>c DEF Served, Knows
      <4> QED BY <1>e, <4>1, <4>2 DEF Found, SameKey
    <3> QED BY <1>c, <1>e, <2>1, <3>1 DEF Served, Knows, In
  <2>3. ItemsKept(r)'
    <3>1. ItemsKept(r)
      BY <1>c DEF Served, Working
    <3>2. ASSUME NEW i \in 1..Len(st[r].body), i = st[r].i, In(r, "store"), Counter(r, i)
          PROVE  Keeps(<<r, i>>)'
      <4> DEFINE m == call[r].m
      <4>1. m \in Proper /\ SameKey(m, Reported(r)) /\ m.delta # Nil /\ m.delta[<<r, i>>] >= 1
        BY <1>a, <1>c, <1>g, <3>2, ReportedProper DEF Carries
      <4>2. m \in Held'
        <5>1. \A old \in Held : SameKey(old, m) => Overwrite(old, m) = m
          BY <1>e, <4>1, ProperReplaces DEF Replaces
        <5>2. \/ Held' = Held \cup {m}
              \/ \E old \in Held : SameKey(old, m) /\ Held' = Besides(m) \cup {Overwrite(old, m)}
          BY <1>5, <1>g, <3>2 DEF Lands
        <5> QED BY <5>1, <5>2
      <4>3. m.mtype = "counter" /\ m.id = st[r].body[i].id
        BY <1>a, <1>c, <3>2, <4>1, ReportedProper DEF Proper, SameKey, Current
      <4> HIDE DEF m
      <4> QED BY <4>1, <4>2, <4>3 DEF Keeps
    <3> QED BY <1>3, <3>1, <3>2 DEF ItemsKept, Counter, Past, In
  <2> QED BY <1>c, <2>2, <2>3 DEF Served
<1> QED BY <1>1, <1>2, <1>c, <1>d, <1>4, <1>5

\* A step of the request itself leaves what is held alone (manager.go:87-163).
LEMMA RequestStepServed ==
    ASSUME ManagerInv, NEW r \in Requests, Alone(r), RequestStep(r)
    PROVE  /\ Orderly(Proper)' /\ Held' = Held /\ Served(r)' /\ MapStep(r)
           /\ \A q \in Callers \ {r} : call'[q] = call[q]
           /\ Busy(r)' => st'[r].pc \in {"known", "store"}
<1>a. /\ StoreIn(Metric, heap, hdr, call) /\ RequestsTypeOK /\ r \in Callers
      /\ StoreIn(Metric, heap, hdr, call)' /\ st \in [Requests -> Request]
  <2>1. StoreIn(Metric, heap, hdr, call)
    BY StoreInMonotone DEF ManagerInv, OnceSet
  <2>2. ManagerInv'
    BY RequestKeeps
  <2>3. StoreIn(Metric, heap, hdr, call)'
    BY <2>2, StoreInMonotone DEF ManagerInv, OnceSet
  <2>4. r \in Callers /\ st \in [Requests -> Request]
    BY ManagerAssumption DEF ManagerInv, RequestsTypeOK, Request
  <2> QED BY <2>1, <2>3, <2>4 DEF ManagerInv
<1>b. /\ Orderly(Proper) /\ Served(r) /\ CallOrderly(Proper, r) /\ Held \subseteq Proper
      /\ \A q \in Callers \ {r} : ~Busy(q)
      /\ st[r].i \in Nat /\ st[r].body \in Seq(Item)
  BY <1>a, HeldProper DEF Alone, Orderly, Request
<1>c. ~Busy(r)
  <2>1. ~At(r, "panic")
    BY <1>b DEF CallOrderly
  <2> QED BY <2>1 DEF RequestStep, Reject, StoreOther, AskKnown, Accumulate, NilDelta, Abort,
         NextItem, AllStored, In, At, Busy, Alone
<1>d. \A q \in Callers : ~Busy(q)
  BY <1>b, <1>c
\* What a step leaves of the items that are kept.
<1>e. ASSUME Held' = Held, NEW s \in Request, st' = [st EXCEPT ![r] = s], s.body = st[r].body,
             st[r].pc \in Working,
             \A i \in Nat : Past(r, i)' => Past(r, i)
      PROVE  ItemsKept(r)'
  <2>1. st'[r] = s
    BY <1>a, <1>e
  <2>2. \A i : Keeps(<<r, i>>)' <=> Keeps(<<r, i>>)
    BY <1>e, <2>1 DEF Keeps
  <2>3. ItemsKept(r)
    BY <1>b, <1>e DEF Served
  <2> QED BY <1>b, <1>e, <2>1, <2>2, <2>3 DEF ItemsKept, Counter
<1>1. CASE Reject(r) \/ AllStored(r) \/ NilDelta(r) \/ Abort(r)
  <2>1. PICK step \in Outcomes \cup {"flush"} :
            /\ st' = [st EXCEPT ![r] = [st[r] EXCEPT !.pc = step]] /\ UNCHANGED storeVars
            /\ st[r].pc \in Working /\ step # "ok"
            /\ step = "flush" => ~MoreItems(r)
    BY <1>1 DEF Reject, AllStored, NilDelta, Abort, In, Goto, storeVars, Outcomes, Working
  <2> DEFINE s == [st[r] EXCEPT !.pc = step]
  <2>2. /\ s.i = st[r].i /\ s.body = st[r].body /\ s.pc = step /\ s \in Request
        /\ step \notin {"known", "store", "new"}
    BY <1>a, <2>1 DEF Request, Outcomes, Working
  <2> HIDE DEF s
  <2>3. st'[r] = s
    BY <1>a, <2>1 DEF s
  <2>4. Orderly(Proper)' /\ Held' = Held /\ call' = call
    BY <1>b, <2>1 DEF Orderly, LastInUse, Held, CallOrderly, Busy, At, storeVars
  <2>5. MapStep(r)
    <3>1. UNCHANGED AsMap!vars
      BY <2>1 DEF AsMap!vars, storeVars, Stored, Listed, Visible, CellAt, LastInUse, At, Asked, Status
    <3> QED BY <3>1 DEF MapStep
  <2>6. Served(r)'
    <3>1. \A i \in Nat : Past(r, i)' => Past(r, i)
      BY <1>b, <2>2, <2>3 DEF Past, In
    <3>2. ItemsKept(r)'
      BY <1>e, <2>1, <2>2, <2>4, <3>1 DEF s
    <3>3. Knows(r)'
      BY <2>2, <2>3 DEF Knows, In
    <3>4. s.pc \in {"flush", "ok"} => ~MoreItems(r)'
      BY <2>1, <2>2, <2>3 DEF MoreItems
    <3> QED BY <2>2, <2>3, <3>2, <3>3, <3>4 DEF Served
  <2>7. ~Busy(r)'
    BY <1>c, <2>4 DEF Busy
  <2> QED BY <2>4, <2>5, <2>6, <2>7
\* What a call that starts leaves, if it is one that the request should make.
<1>f. ASSUME NEW op \in {"get", "upsert"}, NEW m \in Metric, NEW step \in {"known", "store"},
             st[r].pc \in {"item", "known"},
             op = "upsert" => m \in Proper,
             Calls(r, op, m), Goto(r, step), UNCHANGED <<heap, hdr>>,
             SameKey(m, Reported(r)),
             step = "known" => op = "get" /\ Reported(r).mtype = "counter",
             step = "store" =>
                /\ op = "upsert"
                /\ Reported(r).delta # Nil => m.delta # Nil /\ m.delta[<<r, st[r].i>>] >= 1
                /\ \A x \in Held : SameKey(x, m) => Covers(m, x)
      PROVE  /\ Orderly(Proper)' /\ Held' = Held /\ Served(r)' /\ MapStep(r)
             /\ \A q \in Callers \ {r} : call'[q] = call[q]
             /\ Busy(r)' => st'[r].pc \in {"known", "store"}
  <2> DEFINE c == NewCall(op, m)
             s == [st[r] EXCEPT !.pc = step]
  <2>1. call' = [call EXCEPT ![r] = c] /\ st' = [st EXCEPT ![r] = s]
    BY <1>f DEF Calls, Goto
  <2>2. c.pc = "find" /\ c.op = op /\ c.m = m
    BY DEF NewCall
  <2>3. s.i = st[r].i /\ s.body = st[r].body /\ s.pc = step /\ s \in Request
    BY <1>a DEF Request, Working
  <2>4. /\ \E o, k : c = NewCall(o, k) /\ (o = "upsert" => k \in Proper)
        /\ \E o \in {"get", "upsert", "delete"}, k \in Metric : c = NewCall(o, k) /\ (o = "upsert" => k \in Proper)
    BY <1>f
  <2> HIDE DEF c, s
  <2>5. /\ Orderly(Proper)' /\ Held' = Held
        /\ call'[r] = c /\ \A q \in Callers \ {r} : call'[q] = call[q]
    BY <1>a, <1>b, <1>d, <1>f, <2>1, <2>4, StartOrderly
  <2>6. MapStep(r)
    BY <1>a, <1>b, <1>d, <1>f, <2>1, <2>4, ProperReplaces, StartOfMap DEF MapStep
  <2>7. st'[r] = s
    BY <1>a, <2>1
  <2>8. Served(r)'
    <3>1. \A i \in Nat : Past(r, i)' => Past(r, i)
      BY <2>2, <2>3, <2>5, <2>7 DEF Past, In, At
    <3>2. ItemsKept(r)'
      BY <1>e, <1>f, <2>1, <2>3, <2>5, <3>1 DEF Working
    <3>3. Reported(r)' = Reported(r)
      BY <2>3, <2>7 DEF Reported, Current
    <3>4. Knows(r)'
      BY <1>f, <2>2, <2>3, <2>5, <2>7, <3>3 DEF Knows, In, At, Carries
    <3> QED BY <2>3, <2>7, <3>2, <3>4 DEF Served
  <2> QED BY <2>3, <2>5, <2>6, <2>7, <2>8
<1>g. ASSUME MoreItems(r)
      PROVE  /\ Reported(r) \in Proper /\ Reported(r) \in Metric /\ <<r, st[r].i>> \in Tags
             /\ Reported(r).mtype = Current(r).mtype
             /\ Reported(r).delta # Nil => Reported(r).delta = Counted(<<r, st[r].i>>)
  BY <1>a, <1>g, ReportedProper DEF Proper
<1>2. CASE StoreOther(r)
  <2>1. /\ MoreItems(r) /\ Current(r).mtype # "counter" /\ Calls(r, "upsert", Reported(r))
        /\ Goto(r, "store") /\ UNCHANGED <<heap, hdr>> /\ st[r].pc = "item"
    BY <1>2 DEF StoreOther, In
  <2>2. Reported(r).delta = Nil
    BY <1>g, <2>1 DEF Proper
  <2>3. \A x \in Held : SameKey(x, Reported(r)) => Covers(Reported(r), x)
    BY <1>b, <1>g, <2>1 DEF Proper, SameKey, Covers
  <2>4. SameKey(Reported(r), Reported(r))
    BY DEF SameKey
  <2> HIDE DEF Held
  <2> QED BY <1>f, <1>g, <2>1, <2>2, <2>3, <2>4
<1>3. CASE AskKnown(r)
  <2> DEFINE m == [Reported(r) EXCEPT !.delta = Nil]
  <2>1. /\ MoreItems(r) /\ Current(r).mtype = "counter" /\ Calls(r, "get", m)
        /\ Goto(r, "known") /\ UNCHANGED <<heap, hdr>> /\ st[r].pc = "item"
    BY <1>3 DEF AskKnown, In
  <2>2. m \in Metric /\ SameKey(m, Reported(r))
    BY <1>g, <2>1 DEF Metric, SameKey
  <2> HIDE DEF m
  <2> QED BY <1>f, <1>g, <2>1, <2>2
<1>4. CASE Accumulate(r)
  <2> DEFINE new == Reported(r)
             old == call[r].got
             t == <<r, st[r].i>>
  <2>1. /\ Goto(r, "store") /\ UNCHANGED <<heap, hdr>> /\ st[r].pc = "known"
        /\ \/ old = Nil /\ Calls(r, "upsert", new)
           \/ /\ old # Nil /\ old.delta # Nil /\ new.delta # Nil
              /\ Calls(r, "upsert", [new EXCEPT !.delta = Sum(new.delta, old.delta)])
    BY <1>4 DEF Accumulate, In
  <2>2. /\ MoreItems(r) /\ Found(old, new) /\ new.mtype = "counter"
    BY <1>4, <1>a, <1>b DEF Served, Knows, Accumulate, In, RequestsTypeOK
  <2>3. /\ new \in Proper /\ new \in Metric /\ t \in Tags
        /\ new.delta # Nil => new.delta \in Delta /\ new.delta[t] = 1
    <3>1. t \in Tags => Counted(t)[t] = 1 /\ Counted(t) \in Delta
      BY DEF Counted, Delta
    <3> QED BY <1>g, <2>2, <3>1
  <2>4. \A x \in Held : x \in Metric
    BY <1>b DEF Proper
  <2> HIDE DEF new, old, t, Held
  <2>5. CASE old = Nil /\ Calls(r, "upsert", new)
    <3>1. \A x \in Held : ~SameKey(x, new)
      BY <2>2, <2>4, <2>5, NilAssumption DEF Found
    <3>2. SameKey(new, new) /\ (new.delta # Nil => new.delta[t] >= 1)
      BY <2>3 DEF SameKey
    <3> QED BY <1>f, <2>1, <2>3, <2>5, <3>1, <3>2 DEF new, t
  <2>6. CASE /\ old # Nil /\ old.delta # Nil /\ new.delta # Nil
             /\ Calls(r, "upsert", [new EXCEPT !.delta = Sum(new.delta, old.delta)])
    <3> DEFINE d == Sum(new.delta, old.delta)
               m == [new EXCEPT !.delta = d]
    <3>1. old \in Held /\ SameKey(old, new) /\ old \in Metric
      BY <2>2, <2>4, <2>6 DEF Found
    <3>2. old.delta \in Delta /\ new.delta \in Delta /\ new.delta[t] = 1
      BY <2>3, <2>6, <3>1 DEF Metric
    <3>3. d \in Delta /\ \A u \in Tags : d[u] = new.delta[u] + old.delta[u]
      BY <3>2 DEF Sum, Delta
    <3>4. \A u \in Tags : new.delta[u] \in Nat /\ old.delta[u] \in Nat
      BY <3>2 DEF Delta
    <3> HIDE DEF d
    <3>5. d # Nil /\ d[t] >= 1 /\ \A u \in Tags : old.delta[u] <= d[u]
      BY <2>3, <3>2, <3>3, <3>4, NilAssumption
    <3>6. m \in Metric /\ m.id = new.id /\ m.mtype = new.mtype /\ m.delta = d /\ m.value = new.value
      BY <2>3, <3>3 DEF Metric
    <3>7. m \in Proper
      BY <2>2, <2>3, <3>6 DEF Proper
    <3> HIDE DEF m
    <3>8. \A x \in Held : SameKey(x, m) => x = old
      <4>1. \A x \in Held : SameKey(x, m) => SameKey(x, old)
        BY <3>1, <3>6 DEF SameKey
      <4>2. \A x, y \in Held : SameKey(x, y) => x = y
        BY <1>b DEF Orderly, Keyed, Held
      <4> QED BY <3>1, <4>1, <4>2
    <3>9. \A x \in Held : SameKey(x, m) => Covers(m, x)
      BY <3>5, <3>6, <3>8 DEF Covers
    <3>10. SameKey(m, new) /\ m.delta # Nil /\ m.delta[t] >= 1
      BY <3>5, <3>6 DEF SameKey
    <3>11. Calls(r, "upsert", m)
      BY <2>6 DEF m, d
    <3> QED BY <1>f, <2>1, <3>6, <3>7, <3>9, <3>10, <3>11 DEF new, t
  <2> QED BY <2>1, <2>5, <2>6
<1>5. CASE NextItem(r)
  <2> DEFINE s == [st[r] EXCEPT !.pc = "item", !.i = @ + 1]
  <2>1. /\ call' = [call EXCEPT ![r] = NoCall] /\ st' = [st EXCEPT ![r] = s]
        /\ UNCHANGED <<heap, hdr>> /\ In(r, "store") /\ At(r, "done")
    BY <1>5 DEF NextItem
  <2>a. st[r].i + 1 \in Nat \ {0}
    BY <1>a DEF Request
  <2>2. s.i = st[r].i + 1 /\ s.pc = "item" /\ s.body = st[r].body /\ s \in Request
    BY <1>a, <2>a DEF Request, Working
  <2>3. NoCall.pc = "idle"
    BY DEF NoCall
  <2>4. /\ Orderly(Proper)' /\ Held' = Held
        /\ call'[r] = NoCall /\ \A q \in Callers \ {r} : call'[q] = call[q]
    <3> HIDE DEF s, NoCall
    <3> QED BY <1>a, <1>b, <1>d, <2>1, StartOrderly
  <2>5. MapStep(r)
    <3> HIDE DEF s, NoCall
    <3> QED BY <1>a, <1>b, <1>d, <2>1, ProperReplaces, StartOfMap DEF MapStep
  <2>6. st'[r] = s
    BY <1>a, <2>1
  <2> HIDE DEF s
  <2>7. Served(r)'
    <3>1. \A i \in Nat : Past(r, i)' => Past(r, i)
      BY <1>b, <2>1, <2>2, <2>6 DEF Past, In
    <3>2. st[r].pc \in Working
      BY <2>1 DEF In, Working
    <3>3. ItemsKept(r)'
      BY <1>e, <2>1, <2>2, <2>4, <3>1, <3>2
    <3> QED BY <2>2, <2>6, <3>3 DEF Served, Knows, In
  <2>8. ~Busy(r)'
    BY <2>3, <2>4 DEF Busy
  <2> QED BY <2>4, <2>5, <2>7, <2>8
<1> QED BY <1>1, <1>2, <1>3, <1>4, <1>5 DEF RequestStep

-----------------------------------------------------------------------------
(* Clients that keep one request open at a time *)

TurnsInv ==
    /\ ManagerInv /\ Orderly(Proper)
    /\ \A r, q \in InFlight : r = q
    /\ \A p \in Callers : Busy(p) => p \in Requests /\ st[p].pc \in {"known", "store"}
    /\ \A r \in Requests : Served(r)

\* A request that is served has the store to itself.
LEMMA TurnsAlone ==
    ASSUME TurnsInv, NEW r \in InFlight PROVE Alone(r)
<1>1. \A q \in Callers \ {r} : ~Busy(q)
  BY DEF TurnsInv, InFlight, Working
<1> QED BY <1>1, ManagerAssumption DEF TurnsInv, Alone, InFlight

\* What another request has stored stays kept.
LEMMA OthersServed ==
    ASSUME RequestsTypeOK, Orderly(Proper), Orderly(Proper)', HeldGrows,
           NEW r \in Requests, NEW q \in Requests \ {r}, Served(q),
           st'[q] = st[q], st[q].pc \notin {"known", "store"}
    PROVE  Served(q)'
<1>1. Held \subseteq Metric /\ Held' \subseteq Metric
  BY DEF Orderly, Keyed, Held, Proper
<1>2. \A i \in 1..Len(st[q].body) : <<q, i>> \in Tags
  BY DEF RequestsTypeOK
<1>3. ASSUME NEW i \in 1..Len(st[q].body), Keeps(<<q, i>>)
      PROVE  Keeps(<<q, i>>)'
  BY <1>1, <1>2, <1>3, KeepsGrows
<1>4. ItemsKept(q) => ItemsKept(q)'
  BY <1>3 DEF ItemsKept, Past, Counter, In
<1> QED BY <1>4 DEF Served, Knows, In, MoreItems

\* Nothing that is held, is not lost.
LEMMA SameGrows ==
    ASSUME Orderly(Proper), Held' = Held PROVE HeldGrows
<1>1. Held \subseteq Metric
  BY DEF Orderly, Keyed, Held, Proper
<1>2. \A x \in Held : Covers(x, x)
  BY <1>1 DEF Covers, Metric, Delta
<1> HIDE DEF Held
<1> QED BY <1>2 DEF HeldGrows, SameKey

\* A request that is received has stored nothing.
LEMMA ReceiveServed ==
    ASSUME st \in [Requests -> Request], NEW r \in Requests, Receive(r), Served(r)
    PROVE  Served(r)' /\ st'[r].pc = "item" /\ \A q \in Requests \ {r} : st'[q] = st[q]
<1>1. /\ \E b : st' = [st EXCEPT ![r] = [st[r] EXCEPT !.pc = "item", !.body = b]]
      /\ st[r].pc = "new"
  BY DEF Receive, In
<1>2. st'[r].i = 1 /\ st'[r].pc = "item" /\ \A q \in Requests \ {r} : st'[q] = st[q]
  BY <1>1 DEF Served, Request
<1> QED BY <1>2 DEF Served, Knows, In, ItemsKept, Past

\* An accepted request, and one that is answered, leave the store alone.
LEMMA TurnsEnds ==
    ASSUME TurnsInv, ManagerInv', NEW r \in Requests, UNCHANGED <<heap, hdr, call>>,
           \/ Receive(r) /\ InFlight = {}
           \/ Reply(r)
    PROVE  TurnsInv'
<1>a. /\ st \in [Requests -> Request] /\ RequestsTypeOK
      /\ Orderly(Proper) /\ Served(r)
  BY DEF TurnsInv, ManagerInv, RequestsTypeOK, Request
<1>1. Orderly(Proper)' /\ Held' = Held /\ \A p \in Callers : Busy(p)' = Busy(p)
  BY <1>a DEF Orderly, LastInUse, Held, CallOrderly, Busy, At
<1>2. PICK s : st' = [st EXCEPT ![r] = s]
  BY DEF Receive, Reply, Goto
<1>3. /\ st'[r].pc \in {"item", "ok"} /\ st'[r].i = st[r].i /\ st[r].pc \in {"new", "flush"}
      /\ \A q \in Requests \ {r} : st'[q] = st[q]
      /\ st[r].pc = "flush" => st'[r].pc = "ok" /\ st'[r].body = st[r].body
      /\ st[r].pc = "new" => st'[r].pc = "item" /\ InFlight = {}
  <2>1. CASE Receive(r) /\ InFlight = {}
    <3>1. /\ \E b : st' = [st EXCEPT ![r] = [st[r] EXCEPT !.pc = "item", !.body = b]]
          /\ st[r].pc = "new"
      BY <2>1 DEF Receive, In
    <3> QED BY <1>a, <2>1, <3>1 DEF Request
  <2>2. CASE Reply(r)
    BY <1>a, <2>2 DEF Reply, Goto, In, Request
  <2> QED BY <2>1, <2>2
<1>4. /\ \A q \in Requests \ {r} : st[q].pc \notin Working
      /\ \A p \in Callers : ~Busy(p)
  <2>1. \A q \in Requests \ {r} : st[q].pc \notin Working
    BY <1>3 DEF TurnsInv, InFlight, Working
  <2> QED BY <1>3, <2>1 DEF TurnsInv, Working
<1>5. \A q, k \in InFlight' : q = k
  BY <1>3, <1>4 DEF InFlight
<1>6. \A q \in Requests \ {r} : Served(q)'
  BY <1>a, <1>1, <1>3, <1>4, SameGrows, OthersServed DEF TurnsInv, Working
<1>7. Served(r)'
  <2>1. CASE st[r].pc = "new"
    <3>1. Receive(r)
      BY <2>1 DEF Reply, In
    <3> QED BY <1>a, <3>1, ReceiveServed
  <2>2. CASE st[r].pc = "flush"
    <3>1. ItemsKept(r)'
      <4>1. \A i : Keeps(<<r, i>>)' <=> Keeps(<<r, i>>)
        BY <1>1, <1>3, <2>2 DEF Keeps
      <4> QED BY <1>a, <1>3, <2>2, <4>1 DEF Served, ItemsKept, Past, Counter, In, Working
    <3> QED BY <1>a, <1>3, <2>2, <3>1 DEF Served, Knows, In, MoreItems
  <2> QED BY <1>3, <2>1, <2>2
<1> QED BY <1>1, <1>4, <1>5, <1>6, <1>7 DEF TurnsInv

\* A request that has steps to take in the manager is in flight.
LEMMA ServeInFlight ==
    ASSUME RequestsTypeOK, NEW r \in Requests, ServeStep(r), Busy(r) => st[r].pc \in {"known", "store"}
    PROVE  r \in InFlight /\ ~In(r, "flush")
<1>1. CASE RequestStep(r)
  BY <1>1 DEF RequestStep, Reject, StoreOther, AskKnown, Accumulate, NilDelta, Abort,
     NextItem, AllStored, In, InFlight, Working
<1>2. CASE StoreStep(r)
  <2>1. Busy(r)
    BY <1>2 DEF StoreStep, FindNext, FindHit, FindMiss, Fetch, Update, LoadRoom, LoadFull,
       Extend, Swap, Fill, Shift, Shrink, At, Busy
  <2> QED BY <2>1 DEF InFlight, Working, In
<1> QED BY <1>1, <1>2 DEF ServeStep

\* What a step of the request that is served does, and leaves to the others.
LEMMA ServeServed ==
    ASSUME ManagerInv, NEW r \in Requests, Alone(r), ServeStep(r)
    PROVE  /\ Orderly(Proper)' /\ HeldGrows /\ Served(r)' /\ MapStep(r)
           /\ \A x \in Held' : x \in Held \/ (MoreItems(r) /\ SameKey(x, Reported(r)))
           /\ \A q \in Callers \ {r} : call'[q] = call[q]
           /\ Busy(r)' => st'[r].pc \in {"known", "store"}
           /\ \A q \in Requests \ {r} : st'[q] = st[q]
           /\ st'[r].body = st[r].body /\ st'[r].pc \notin {"new", "ok"}
<1>0. st \in [Requests -> Request] /\ RequestsTypeOK
  BY DEF ManagerInv, RequestsTypeOK, Request
<1>1. CASE RequestStep(r)
  <2>1. /\ \E s : st' = [st EXCEPT ![r] = s]
        /\ st'[r].body = st[r].body /\ st'[r].pc \notin {"new", "ok"}
    BY <1>0, <1>1 DEF RequestStep, Reject, StoreOther, AskKnown, Accumulate, NilDelta, Abort,
       NextItem, AllStored, Goto, Request
  <2>2. /\ Orderly(Proper)' /\ Held' = Held /\ Served(r)' /\ MapStep(r)
        /\ \A q \in Callers \ {r} : call'[q] = call[q]
        /\ Busy(r)' => st'[r].pc \in {"known", "store"}
    BY <1>1, RequestStepServed
  <2>3. HeldGrows
    BY <2>2, SameGrows DEF Alone
  <2> QED BY <1>0, <2>1, <2>2, <2>3
<1>2. CASE StoreStep(r) /\ UNCHANGED st
  <2>1. MoreItems(r)
    BY <1>0, <1>2, StoreStepServed DEF RequestsTypeOK
  <2> QED BY <1>0, <1>2, <2>1, StoreStepServed
<1> QED BY <1>1, <1>2 DEF ServeStep

\* A step of the request that is served keeps the invariant.
LEMMA TurnsServe ==
    ASSUME TurnsInv, ManagerInv', NEW r \in Requests, ServeStep(r)
    PROVE  TurnsInv' /\ MapStep(r)
<1>1. r \in InFlight /\ RequestsTypeOK
  BY ManagerAssumption, ServeInFlight DEF TurnsInv, ManagerInv
<1>2. Alone(r) /\ ManagerInv
  BY <1>1, TurnsAlone DEF TurnsInv
<1>3. /\ Orderly(Proper)' /\ HeldGrows /\ Served(r)' /\ MapStep(r)
      /\ \A q \in Callers \ {r} : call'[q] = call[q]
      /\ Busy(r)' => st'[r].pc \in {"known", "store"}
      /\ \A q \in Requests \ {r} : st'[q] = st[q]
  BY <1>2, ServeServed
<1>4. \A q \in Requests \ {r} : st[q].pc \notin Working
  BY <1>1 DEF TurnsInv, InFlight
<1>5. \A q \in Requests \ {r} : Served(q)'
  BY <1>1, <1>2, <1>3, <1>4, OthersServed DEF TurnsInv, Working, Alone
<1>6. \A q, k \in InFlight' : q = k
  BY <1>3, <1>4 DEF InFlight
<1>7. \A p \in Callers : Busy(p)' => p \in Requests /\ st'[p].pc \in {"known", "store"}
  BY <1>2, <1>3 DEF Alone, Busy
<1> QED BY <1>3, <1>5, <1>6, <1>7 DEF TurnsInv

LEMMA TurnsInit == ManagerInit => TurnsInv
<1> SUFFICES ASSUME ManagerInit PROVE TurnsInv
  OBVIOUS
<1>1. /\ hdr.len = 0 /\ heap[hdr.ptr] = <<>> /\ \A p \in Callers : call[p].pc = "idle"
      /\ \A r \in Requests : st[r] = [pc |-> "new", body |-> <<>>, i |-> 1]
  BY DEF ManagerInit, StoreInit, NoCall
<1>2. Orderly(Proper)
  BY <1>1, OrderlyInit
<1>3. \A r \in Requests : Served(r)
  BY <1>1 DEF Served, Knows, In, Working
<1> QED BY <1>1, <1>2, <1>3, ManagerInitInv DEF TurnsInv, Busy, InFlight, Working

\* One request at a time is accepted if clients keep one open.
LEMMA TurnsNext ==
    ASSUME MaxInFlight = 1, TurnsInv, ManagerNext
    PROVE  TurnsInv' /\ ((\E p \in Callers : AsMap!Invoke(p) \/ AsMap!Effect(p) \/ AsMap!Return(p))
                         \/ UNCHANGED AsMap!vars)
<1>0. ManagerInv'
  BY ManagerNextInv DEF TurnsInv
<1>1. ASSUME NEW r \in Requests, Receive(r) \/ Reply(r)
      PROVE  TurnsInv' /\ UNCHANGED AsMap!vars
  <2>1. Receive(r) => InFlight = {}
    <3>1. ASSUME NEW q \in InFlight PROVE Cardinality(InFlight) = 1
      <4>1. InFlight = {q}
        BY DEF TurnsInv
      <4> QED BY <4>1, FS_Singleton
    <3> QED BY <3>1 DEF Receive
  <2>2. UNCHANGED <<heap, hdr, call>>
    BY <1>1 DEF Receive, Reply
  <2>3. UNCHANGED AsMap!vars
    BY <2>2 DEF AsMap!vars, Stored, Listed, Visible, CellAt, LastInUse, At, Asked, Status
  <2> QED BY <1>0, <1>1, <2>1, <2>2, <2>3, TurnsEnds
<1>2. ASSUME NEW r \in Requests, ServeStep(r)
      PROVE  TurnsInv' /\ MapStep(r)
  BY <1>0, <1>2, TurnsServe
<1> QED BY <1>1, <1>2, ManagerAssumption DEF ManagerNext, ServeStep, MapStep

LEMMA ServedStays ==
    ASSUME NEW r \in Requests, Served(r), UNCHANGED <<heap, hdr, call, st>> PROVE Served(r)'
<1>1. Held' = Held
  BY DEF Held, LastInUse, At
<1>2. \A t : Keeps(t)' <=> Keeps(t)
  BY <1>1 DEF Keeps
<1>3. Reported(r)' = Reported(r)
  BY DEF Reported, Current
<1>4. Carries(r)' <=> Carries(r)
  BY <1>1, <1>3 DEF Carries
<1> QED BY <1>1, <1>2, <1>3, <1>4 DEF Served, Knows, ItemsKept, Past, Counter, In, At, MoreItems, Found

LEMMA TurnsStutter == TurnsInv /\ UNCHANGED managerVars => TurnsInv' /\ UNCHANGED AsMap!vars
<1> SUFFICES ASSUME TurnsInv, UNCHANGED managerVars PROVE TurnsInv' /\ UNCHANGED AsMap!vars
  OBVIOUS
<1>1. UNCHANGED <<heap, hdr, call, st>>
  BY DEF managerVars
<1>2. ManagerInv'
  BY ManagerNextInv DEF TurnsInv
<1>3. Orderly(Proper)' /\ Held' = Held
  BY <1>1, OrderlyStays DEF TurnsInv
<1>4. \A r \in Requests : Served(r)'
  BY <1>1, ServedStays DEF TurnsInv
<1>5. UNCHANGED AsMap!vars
  BY <1>1 DEF AsMap!vars, Stored, Listed, Visible, CellAt, LastInUse, At, Asked, Status
<1> QED BY <1>1, <1>2, <1>3, <1>4, <1>5 DEF TurnsInv, InFlight, Busy

\* A counter that is kept is counted once, in the metrics that the store shows.
LEMMA KeepsKept ==
    ASSUME ManagerInv, Orderly(Proper), LastInUse \in 0..hdr.len, NEW t \in Tags, Keeps(t)
    PROVE  Kept(t)
<1>1. PICK i \in 1..LastInUse :
          LET x == heap[hdr.ptr][i]
          IN  /\ x.id = st[t[1]].body[t[2]].id /\ x.mtype = "counter"
              /\ x.delta # Nil /\ x.delta[t] >= 1
  BY DEF Keeps, Held
<1>2. /\ i \in 1..hdr.len /\ hdr.len \in Nat /\ i \in DOMAIN heap[hdr.ptr]
      /\ heap[hdr.ptr][i] \in OnceSet
  BY DEF ManagerInv, StoreIn, Orderly
<1>3. Visible[i] = heap[hdr.ptr][i]
  BY <1>2 DEF Visible, CellAt
<1>4. heap[hdr.ptr][i].delta[t] = 1
  <2> DEFINE x == heap[hdr.ptr][i]
  <2>0. x \in OnceSet /\ x.delta # Nil /\ x.delta[t] >= 1
    BY <1>1, <1>2
  <2> HIDE DEF x
  <2>1. x.delta \in Delta /\ x.delta[t] <= (IF Spent(t) THEN 1 ELSE 0)
    BY <2>0 DEF OnceSet, Once, Metric
  <2>2. x.delta[t] \in Nat /\ x.delta[t] <= 1 /\ x.delta[t] >= 1
    BY <2>0, <2>1 DEF Delta
  <2>3. x.delta[t] = 1
    BY <2>2
  <2> QED BY <2>3 DEF x
<1> QED BY <1>1, <1>2, <1>3, <1>4 DEF Kept

\* The slots in use are slots of the slice.
LEMMA UsedWithin ==
    ASSUME ManagerInv, Orderly(Proper) PROVE LastInUse \in 0..hdr.len
<1>1. hdr.len \in Nat
  BY DEF ManagerInv, StoreIn
<1>2. \A p \in Callers : At(p, "fill") \/ At(p, "shrink") => hdr.len > 0
  <2> TAKE p \in Callers
  <2>1. CallOrderly(Proper, p) /\ call[p].at.len \in Nat
    BY DEF Orderly, ManagerInv, StoreIn, CallIn, Header
  <2> QED BY <2>1 DEF CallOrderly, At
<1> QED BY <1>1, <1>2 DEF LastInUse

LEMMA TurnsKept == TurnsInv => AcknowledgedKept
<1> SUFFICES ASSUME TurnsInv, NEW r \in Requests, In(r, "ok"),
                    NEW i \in 1..Len(st[r].body), Counter(r, i)
             PROVE  Kept(<<r, i>>)
  BY DEF AcknowledgedKept
<1>1. LastInUse \in 0..hdr.len
  BY UsedWithin DEF TurnsInv
<1>2. Keeps(<<r, i>>) /\ <<r, i>> \in Tags
  <2>1. i < st[r].i /\ <<r, i>> \in Tags
    BY DEF TurnsInv, ManagerInv, RequestsTypeOK, Served, MoreItems, In
  <2> QED BY <2>1 DEF TurnsInv, Served, ItemsKept, Past, In
<1> QED BY <1>1, <1>2, KeepsKept DEF TurnsInv

\* Clients that wait for the answer before the next request lose no update: every
\* counter of a request answered 200 is in the value that the store keeps
\* (manager.go:87-163).
THEOREM AcknowledgedAreKept ==
    ASSUME MaxInFlight = 1 PROVE ManagerSpec => []AcknowledgedKept
<1>1. TurnsInv /\ [ManagerNext]_managerVars => TurnsInv'
  BY TurnsNext, TurnsStutter
<1> QED BY <1>1, TurnsInit, TurnsKept, PTL DEF ManagerSpec

\* For them the slice is the map that storage.Repository promises, one call at a time
\* taking effect at one instant (memory.go:22-110).
THEOREM StoreBehavesAsMap ==
    ASSUME MaxInFlight = 1 PROVE ManagerSpec => BehavesAsMap
<1>1. TurnsInv /\ [ManagerNext]_managerVars => TurnsInv' /\ [AsMap!Next]_(AsMap!vars)
  BY TurnsNext, TurnsStutter DEF AsMap!Next
<1>2. ManagerInit => AsMap!Init
  <2> SUFFICES ASSUME ManagerInit PROVE AsMap!Init
    OBVIOUS
  <2>1. /\ StoreIn(Metric, heap, hdr, call) /\ Orderly(Proper) /\ Held = {}
    <3>1. hdr.len = 0 /\ heap[hdr.ptr] = <<>> /\ \A p \in Callers : call[p].pc = "idle"
      BY DEF ManagerInit, StoreInit, NoCall
    <3>2. StoreIn(Metric, heap, hdr, call)
      BY StoreInitIn, MetricClosed DEF ManagerInit, Closed
    <3> QED BY <3>1, <3>2, OrderlyInit
  <2>2. \A k : Stored(k) = Nil
    BY <2>1, StoredIs DEF StoredRight
  <2>3. \A p \in Callers : Asked(p) = AsMap!Idle
    BY DEF ManagerInit, StoreInit, NoCall, Asked, Status, At, AsMap!Idle
  <2> QED BY <2>2, <2>3 DEF AsMap!Init, AsMap!Keys
<1> QED BY <1>1, <1>2, TurnsInit, PTL DEF ManagerSpec, BehavesAsMap, AsMap!Spec
=============================================================================
