-------------------------- MODULE MemStore_proofs ---------------------------
(***************************************************************************)
(* Whatever its callers do and however they interleave, the store holds    *)
(* only metrics it was given, or mixtures of two of them under one key.    *)
(*                                                                         *)
(* As long as one goroutine at a time calls it, the slice has each key     *)
(* once: Find finds the only metric of a key, or that there is none,       *)
(* append adds the key it did not find, and a delete moves the others down *)
(* and takes away that one alone.  Its steps are then those of a map.      *)
(***************************************************************************)
EXTENDS StoreAsMap, TLAPS

\* The store, given as three values, holds metrics of S only: in its arrays,
\* also past the length in use, and in its calls.
CallIn(S) == [pc : Steps, op : {"get", "upsert", "delete"}, m : S,
              at : Header, idx : Nat \ {0}, got : S \cup {Nil}]
StoreIn(S, h, d, c) ==
    /\ h \in Seq(Seq(S))
    /\ d \in [ptr : DOMAIN h, len : Nat]
    /\ c \in [Callers -> CallIn(S)]
    /\ \A p \in Callers : /\ c[p].at.ptr \in DOMAIN h
                          /\ c[p].pc = "shrink" => c[p].at.len > 0

Closed(S) == Zero \in S /\ \A a, b \in S : Overwrite(a, b) \in S

\* Reading a position, in the array or past its end, gives a metric of S.
LEMMA CellAtIn ==
    ASSUME NEW STATE S, Closed(S), heap \in Seq(Seq(S)),
           NEW a \in DOMAIN heap, NEW i \in Nat
    PROVE  CellAt(a, i) \in S
<1>1. heap[a] \in Seq(S)
  OBVIOUS
<1>2. CASE i \in DOMAIN heap[a]
  BY <1>1, <1>2 DEF CellAt
<1>3. CASE i \notin DOMAIN heap[a]
  BY <1>3 DEF CellAt, Closed
<1> QED BY <1>2, <1>3

\* Writing a metric of S keeps every array within S.
LEMMA WrittenIn ==
    ASSUME NEW STATE S, heap \in Seq(Seq(S)),
           NEW a \in DOMAIN heap, NEW i \in Nat, NEW m \in S
    PROVE  Written(a, i, m) \in Seq(Seq(S)) /\ DOMAIN Written(a, i, m) = DOMAIN heap
<1>1. heap[a] \in Seq(S)
  OBVIOUS
<1>2. CASE i \in DOMAIN heap[a]
  <2>1. [heap[a] EXCEPT ![i] = m] \in Seq(S)
    BY <1>1, <1>2
  <2>2. Written(a, i, m) = [heap EXCEPT ![a] = [heap[a] EXCEPT ![i] = m]]
    BY <1>2 DEF Written
  <2> QED BY <2>1, <2>2
<1>3. CASE i \notin DOMAIN heap[a]
  BY <1>3 DEF Written
<1> QED BY <1>2, <1>3

\* The array append allocates holds the old elements and zero metrics.
LEMMA GrownIn ==
    ASSUME NEW STATE S, Closed(S), NEW a \in Seq(S)
    PROVE  Grown(a) \in Seq(S)
<1> DEFINE n == IF a = <<>> THEN 1 ELSE 2 * Len(a)
<1>1. n \in Nat
  OBVIOUS
<1>2. \A i \in 1..n : (IF i <= Len(a) THEN a[i] ELSE Zero) \in S
  BY DEF Closed
<1> HIDE DEF n
<1>3. [i \in 1..n |-> IF i <= Len(a) THEN a[i] ELSE Zero] \in Seq(S)
  BY <1>1, <1>2
<1> QED BY <1>3 DEF Grown, n

\* One call moved on to c: the store stays within S if c and the new array do.
LEMMA CallMovesTo ==
    ASSUME NEW STATE S, StoreIn(S, heap, hdr, call), NEW p \in Callers,
           NEW STATE c, c \in CallIn(S),
           call' = [call EXCEPT ![p] = c],
           heap' \in Seq(Seq(S)), DOMAIN heap \subseteq DOMAIN heap',
           hdr' \in [ptr : DOMAIN heap', len : Nat],
           c.at.ptr \in DOMAIN heap',
           c.pc = "shrink" => c.at.len > 0
    PROVE  StoreIn(S, heap', hdr', call')
<1>1. call' \in [Callers -> CallIn(S)]
  BY DEF StoreIn
<1>2. \A q \in Callers : call'[q].at.ptr \in DOMAIN heap'
                         /\ (call'[q].pc = "shrink" => call'[q].at.len > 0)
  <2> TAKE q \in Callers
  <2>1. call'[q] = IF q = p THEN c ELSE call[q]
    BY DEF StoreIn
  <2>2. call[q].at.ptr \in DOMAIN heap /\ (call[q].pc = "shrink" => call[q].at.len > 0)
    BY DEF StoreIn
  <2> QED BY <2>1, <2>2
<1> QED BY <1>1, <1>2 DEF StoreIn

\* A step of a storage call (memory.go:22-92) keeps the store within any set of
\* metrics that has the zero metric and is closed under overwriting.
THEOREM StoreStepIn ==
    ASSUME NEW STATE S, Closed(S), StoreIn(S, heap, hdr, call),
           NEW p \in Callers, StoreStep(p)
    PROVE  StoreIn(S, heap', hdr', call')
<1> DEFINE To(step) == [call[p] EXCEPT !.pc = step]
<1>a. /\ call[p] \in CallIn(S) /\ call[p].at.ptr \in DOMAIN heap
      /\ heap \in Seq(Seq(S))
      /\ hdr \in [ptr : DOMAIN heap, len : Nat]
      /\ hdr.ptr \in DOMAIN heap /\ hdr.len \in Nat
  BY DEF StoreIn
<1>b. /\ call[p].m \in S /\ call[p].idx \in Nat /\ call[p].at \in Header
      /\ call[p].at.ptr \in Nat /\ call[p].at.len \in Nat
      /\ call[p].pc = "shrink" => call[p].at.len > 0
  BY <1>a DEF CallIn, Header, StoreIn
<1>c. ASSUME NEW step \in Steps
      PROVE  /\ To(step) \in CallIn(S) /\ To(step).at = call[p].at
             /\ To(step).pc = step
  BY <1>a DEF CallIn, Steps
<1>1. CASE FindNext(p)
  <2> DEFINE c == [call[p] EXCEPT !.idx = @ + 1]
  <2>a. call[p].idx + 1 \in Nat \ {0} /\ call[p].pc = "find"
    BY <1>b, <1>1 DEF FindNext, At
  <2>1. c \in CallIn(S) /\ c.at = call[p].at /\ c.pc # "shrink"
    BY <1>a, <2>a DEF CallIn
  <2>2. call' = [call EXCEPT ![p] = c] /\ UNCHANGED <<heap, hdr>>
    BY <1>1 DEF FindNext
  <2> HIDE DEF c
  <2> QED BY <1>a, <2>1, <2>2, CallMovesTo
<1>2. CASE FindHit(p) \/ FindMiss(p) \/ ((Update(p) \/ Shift(p)) /\ ~InRange(p))
  <2>1. PICK step \in Steps \ {"shrink"} :
            call' = [call EXCEPT ![p] = To(step)] /\ UNCHANGED <<heap, hdr>>
    BY <1>2 DEF FindHit, FindMiss, Update, Shift, Panics, Steps
  <2> HIDE DEF To
  <2> QED BY <1>a, <1>c, <2>1, CallMovesTo
<1>4. CASE Fetch(p)
  <2> DEFINE c == [call[p] EXCEPT !.pc = "done", !.got = Here(p)]
  <2>1. Here(p) \in S
    BY <1>a, <1>b, CellAtIn DEF Here
  <2>2. c \in CallIn(S) /\ c.at = call[p].at /\ c.pc # "shrink"
    BY <1>a, <2>1 DEF CallIn, Steps
  <2>3. call' = [call EXCEPT ![p] = c] /\ UNCHANGED <<heap, hdr>>
    BY <1>4 DEF Fetch
  <2> HIDE DEF c
  <2> QED BY <1>a, <2>2, <2>3, CallMovesTo
<1>5. CASE Update(p) /\ InRange(p)
  <2>1. Overwrite(CellAt(hdr.ptr, call[p].idx), call[p].m) \in S
    BY <1>a, <1>b, CellAtIn DEF Closed
  <2>2. heap' \in Seq(Seq(S)) /\ DOMAIN heap' = DOMAIN heap
    <3> DEFINE i == call[p].idx
               m == Overwrite(CellAt(hdr.ptr, i), call[p].m)
    <3>1. heap' = Written(hdr.ptr, i, m)
      BY <1>5 DEF Update
    <3>2. i \in Nat /\ m \in S /\ hdr.ptr \in DOMAIN heap /\ heap \in Seq(Seq(S))
      BY <1>a, <1>b, <2>1
    <3> HIDE DEF i, m
    <3> QED BY <3>1, <3>2, WrittenIn
  <2>3. call' = [call EXCEPT ![p] = To("done")] /\ UNCHANGED hdr
    BY <1>5 DEF Update
  <2>4. "done" \in Steps
    BY DEF Steps
  <2> HIDE DEF To
  <2> QED BY <1>a, <1>c, <2>2, <2>3, <2>4, CallMovesTo
<1>6. CASE LoadRoom(p)
  <2> DEFINE c == [call[p] EXCEPT !.pc = "extend", !.at = hdr]
  <2>a. hdr \in Header
    BY <1>a DEF Header
  <2>1. c \in CallIn(S) /\ c.at = hdr /\ c.pc # "shrink"
    BY <1>a, <2>a DEF CallIn, Steps
  <2>2. call' = [call EXCEPT ![p] = c] /\ UNCHANGED <<heap, hdr>>
    BY <1>6 DEF LoadRoom
  <2> HIDE DEF c
  <2> QED BY <1>a, <2>1, <2>2, CallMovesTo
<1>7. CASE LoadFull(p)
  <2> DEFINE c == [call[p] EXCEPT !.pc = "swap",
                                  !.at = [ptr |-> Len(heap) + 1, len |-> hdr.len]]
  <2>a. [ptr |-> Len(heap) + 1, len |-> hdr.len] \in Header
    BY <1>a DEF Header
  <2>1. c \in CallIn(S) /\ c.at.ptr = Len(heap) + 1 /\ c.pc # "shrink"
    BY <1>a, <2>a DEF CallIn, Steps
  <2>2. Grown(heap[hdr.ptr]) \in Seq(S)
    BY <1>a, GrownIn
  <2>3. heap' \in Seq(Seq(S)) /\ DOMAIN heap' = DOMAIN heap \cup {Len(heap) + 1}
    BY <1>a, <1>7, <2>2 DEF LoadFull
  <2>4. call' = [call EXCEPT ![p] = c] /\ UNCHANGED hdr
    BY <1>7 DEF LoadFull
  <2> HIDE DEF c
  <2> QED BY <1>a, <2>1, <2>3, <2>4, CallMovesTo
<1>8. CASE Extend(p) \/ Swap(p)
  <2>1. call' = [call EXCEPT ![p] = To("fill")] /\ UNCHANGED heap
    BY <1>8 DEF Extend, Swap
  <2>2. hdr' \in [ptr : DOMAIN heap, len : Nat]
    <3>1. call[p].at.len + 1 \in Nat
      BY <1>b
    <3>2. hdr' = [hdr EXCEPT !.len = call[p].at.len + 1]
          \/ hdr' = [ptr |-> call[p].at.ptr, len |-> call[p].at.len + 1]
      BY <1>8 DEF Extend, Swap
    <3> QED BY <1>a, <3>1, <3>2
  <2>3. "fill" \in Steps
    BY DEF Steps
  <2> HIDE DEF To
  <2> QED BY <1>a, <1>c, <2>1, <2>2, <2>3, CallMovesTo
<1>9. CASE Fill(p)
  <2>1. heap' \in Seq(Seq(S)) /\ DOMAIN heap' = DOMAIN heap
    <3> DEFINE a == call[p].at.ptr
               i == call[p].at.len + 1
               m == call[p].m
    <3>1. heap' = Written(a, i, m)
      BY <1>9 DEF Fill
    <3>2. i \in Nat /\ m \in S /\ a \in DOMAIN heap /\ heap \in Seq(Seq(S))
      BY SMTT(20), <1>a, <1>b
    <3> HIDE DEF a, i, m
    <3> QED BY <3>1, <3>2, WrittenIn
  <2>2. call' = [call EXCEPT ![p] = To("done")] /\ UNCHANGED hdr
    BY <1>9 DEF Fill
  <2>3. "done" \in Steps
    BY DEF Steps
  <2> HIDE DEF To
  <2> QED BY <1>a, <1>c, <2>1, <2>2, <2>3, CallMovesTo
<1>10. CASE Shift(p) /\ InRange(p)
  <2> DEFINE a == heap[hdr.ptr]
             moved == [i \in DOMAIN a |-> IF i \in call[p].idx..(hdr.len - 1)
                                          THEN CellAt(hdr.ptr, i + 1) ELSE a[i]]
             c == [call[p] EXCEPT !.pc = "shrink", !.at = hdr]
  <2>1. a \in Seq(S)
    BY <1>a
  <2>2. \A i \in 1..Len(a) : moved[i] \in S
    <3> TAKE i \in 1..Len(a)
    <3>1. i + 1 \in Nat /\ i \in DOMAIN a /\ a[i] \in S
      BY <2>1
    <3>2. CellAt(hdr.ptr, i + 1) \in S
      BY <1>a, <3>1, CellAtIn
    <3> QED BY <3>1, <3>2
  <2>3. moved \in Seq(S)
    <3>1. Len(a) \in Nat /\ DOMAIN a = 1..Len(a)
      BY <2>1
    <3>2. moved \in [1..Len(a) -> S]
      BY <2>2, <3>1
    <3> QED BY <3>1, <3>2
  <2>4. heap' = [heap EXCEPT ![hdr.ptr] = moved]
    BY <1>10 DEF Shift
  <2>5. heap' \in Seq(Seq(S)) /\ DOMAIN heap' = DOMAIN heap
    BY <1>a, <2>3, <2>4
  <2>6. c \in CallIn(S) /\ c.at = hdr /\ c.at.len > 0
    <3>1. hdr.len > 0
      BY <1>a, <1>10 DEF InRange, CallIn
    <3>2. hdr \in Header
      BY <1>a DEF Header
    <3> QED BY <1>a, <3>1, <3>2 DEF CallIn, Steps
  <2>7. call' = [call EXCEPT ![p] = c] /\ UNCHANGED hdr
    BY <1>10 DEF Shift
  <2> HIDE DEF c, moved
  <2> QED BY <1>a, <2>5, <2>6, <2>7, CallMovesTo
<1>11. CASE Shrink(p)
  <2>1. call' = [call EXCEPT ![p] = To("done")] /\ UNCHANGED heap
    BY <1>11 DEF Shrink
  <2>2. hdr' \in [ptr : DOMAIN heap, len : Nat]
    <3>1. call[p].at.len - 1 \in Nat
      BY <1>b, <1>11 DEF Shrink, At
    <3>2. hdr' = [ptr |-> call[p].at.ptr, len |-> call[p].at.len - 1]
      BY <1>11 DEF Shrink
    <3> QED BY <1>a, <3>1, <3>2
  <2>3. "done" \in Steps
    BY DEF Steps
  <2> HIDE DEF To
  <2> QED BY <1>a, <1>c, <2>1, <2>2, <2>3, CallMovesTo
<1> QED
  BY <1>1, <1>2, <1>4, <1>5, <1>6, <1>7, <1>8, <1>9, <1>10, <1>11 DEF StoreStep

\* Arrays are never freed while a goroutine may hold a header into them.
LEMMA ArraysStay ==
    ASSUME NEW STATE S, StoreIn(S, heap, hdr, call), NEW p \in Callers, StoreStep(p)
    PROVE  DOMAIN heap \subseteq DOMAIN heap'
<1>1. heap \in Seq(Seq(S))
  BY DEF StoreIn
<1>2. CASE Update(p) \/ Fill(p)
  BY <1>2 DEF Update, Fill, Written, Panics
<1>3. CASE LoadFull(p)
  BY <1>1, <1>3 DEF LoadFull
<1>4. CASE Shift(p)
  BY <1>4 DEF Shift, Panics
<1>5. CASE UNCHANGED heap
  BY <1>5
<1> QED
  BY <1>2, <1>3, <1>4, <1>5 DEF StoreStep, FindNext, FindHit, FindMiss, Fetch,
     LoadRoom, Extend, Swap, Shrink

\* The empty store is within every set that has the zero metric.
LEMMA StoreInitIn ==
    ASSUME NEW STATE S, Zero \in S, StoreInit
    PROVE  StoreIn(S, heap, hdr, call)
<1>1. heap \in Seq(Seq(S)) /\ DOMAIN heap = {1}
  BY DEF StoreInit
<1>2. NoCall \in CallIn(S) /\ NoCall.at.ptr = 1 /\ NoCall.pc = "idle"
  BY DEF NoCall, CallIn, Header, Steps
<1>3. call = [p \in Callers |-> NoCall] /\ hdr = [ptr |-> 1, len |-> 0]
  BY DEF StoreInit
<1> HIDE DEF NoCall
<1> QED BY <1>1, <1>2, <1>3 DEF StoreIn

\* Metrics of the model stay metrics when one overwrites another.
LEMMA MetricClosed == Closed(Metric)
<1>1. Zero \in Metric
  BY DEF Zero, Metric
<1>2. ASSUME NEW a \in Metric, NEW b \in Metric PROVE Overwrite(a, b) \in Metric
  <2>1. CASE b.mtype = "gauge"
    BY <2>1 DEF Metric, Overwrite
  <2>2. CASE b.mtype = "counter"
    BY <2>2 DEF Metric, Overwrite
  <2>3. CASE b.mtype # "gauge" /\ b.mtype # "counter"
    BY <2>3 DEF Overwrite
  <2> QED BY <2>1, <2>2, <2>3
<1> QED BY <1>1, <1>2 DEF Closed

-----------------------------------------------------------------------------
(* One goroutine at a time *)

Busy(p) == call[p].pc \notin {"idle", "done"}

\* The first n metrics of an array are of S and have their keys to themselves, or
\* not that of m.
Keyed(S, a, n) ==
    /\ \A i, j \in 1..n : SameKey(a[i], a[j]) => i = j
    /\ \A i \in 1..n : a[i] \in S
Fresh(a, m, n) == \A i \in 1..n : ~SameKey(a[i], m)

\* Metrics that stay among themselves when one overwrites another of its key.
Overwrites(S) ==
    S \subseteq Metric /\ \A old, m \in S : SameKey(old, m) => Overwrite(old, m) \in S

\* Where a call stands, and what it has found out by then.
CallOrderly(S, p) ==
    /\ ~At(p, "panic")
    /\ Busy(p) => call[p].got = Nil /\ (call[p].op = "upsert" => call[p].m \in S)
    /\ At(p, "fetch") => call[p].op = "get"
    /\ call[p].pc \in {"update", "append", "extend", "swap", "fill"} => call[p].op = "upsert"
    /\ call[p].pc \in {"shift", "shrink"} => call[p].op = "delete"
    /\ At(p, "find") => /\ call[p].at = hdr /\ call[p].idx \in 1..(hdr.len + 1)
                        /\ Fresh(heap[hdr.ptr], call[p].m, call[p].idx - 1)
    /\ At(p, "fetch") => call[p].at = hdr
    /\ call[p].pc \in {"fetch", "update", "shift"} =>
            call[p].idx \in 1..hdr.len /\ SameKey(heap[hdr.ptr][call[p].idx], call[p].m)
    /\ call[p].pc \in {"append", "extend", "swap"} => Fresh(heap[hdr.ptr], call[p].m, hdr.len)
    /\ At(p, "extend") => call[p].at = hdr /\ hdr.len < Len(heap[hdr.ptr])
    /\ At(p, "swap") => /\ call[p].at.len = hdr.len /\ hdr.len < Len(heap[call[p].at.ptr])
                        /\ \A i \in 1..hdr.len : heap[call[p].at.ptr][i] = heap[hdr.ptr][i]
    /\ At(p, "fill") => /\ call[p].at.ptr = hdr.ptr /\ hdr.len = call[p].at.len + 1
                        /\ Fresh(heap[hdr.ptr], call[p].m, call[p].at.len)
    /\ At(p, "shrink") => /\ call[p].at = hdr /\ hdr.len > 0
                          /\ Fresh(heap[hdr.ptr], call[p].m, hdr.len - 1)

Orderly(S) ==
    /\ hdr.len <= Len(heap[hdr.ptr])
    /\ Keyed(S, heap[hdr.ptr], LastInUse)
    /\ \A p \in Callers : CallOrderly(S, p)

\* The metrics the store holds, and those of another key than m.
Held == {heap[hdr.ptr][i] : i \in 1..LastInUse}
Besides(m) == {x \in Held : ~SameKey(x, m)}

\* A step between the instants at which a call begins, takes effect and returns, or
\* that at which it takes effect.
Quiet(p) == Held' = Held /\ Asked(p)' = Asked(p)
Lands(p) ==
    LET m == call[p].m
        got == call'[p].got
    IN  /\ Status(p) = "called" /\ Status(p)' = "done"
        /\ call'[p].op = call[p].op /\ call'[p].m = m
        /\ \/ /\ call[p].op = "get" /\ Held' = Held
              /\ \/ got \in Held /\ SameKey(got, m)
                 \/ got = Nil /\ \A x \in Held : ~SameKey(x, m)
           \/ /\ call[p].op = "upsert" /\ got = Nil
              /\ \/ Held' = Held \cup {m} /\ \A x \in Held : ~SameKey(x, m)
                 \/ \E old \in Held : /\ SameKey(old, m)
                                      /\ Held' = Besides(m) \cup {Overwrite(old, m)}
           \/ call[p].op = "delete" /\ got = Nil /\ Held' = Besides(m)

\* The slots in use after a step of the one call under way.
UsedBy(p) == IF At(p, "shrink") \/ At(p, "fill") THEN hdr.len - 1 ELSE hdr.len

\* The one call under way moved on; what the others hold stays in order.
LEMMA CallMoves ==
    ASSUME NEW S, StoreIn(Metric, heap, hdr, call), Orderly(S), NEW p \in Callers,
           \A q \in Callers \ {p} : ~Busy(q),
           NEW STATE c, call' = [call EXCEPT ![p] = c],
           hdr'.len <= Len(heap'[hdr'.ptr]),
           Keyed(S, heap[hdr.ptr], UsedBy(p))',
           CallOrderly(S, p)'
    PROVE  Orderly(S)' /\ Held' = {heap[hdr.ptr][i] : i \in 1..UsedBy(p)}'
<1>1. call'[p] = c /\ \A q \in Callers \ {p} : call'[q] = call[q]
  BY DEF StoreIn
<1>2. \A q \in Callers \ {p} : CallOrderly(S, q)'
  BY <1>1 DEF Busy, CallOrderly, At
<1>3. LastInUse' = UsedBy(p)'
  BY <1>1 DEF LastInUse, UsedBy, At, Busy
<1> QED BY <1>2, <1>3 DEF Orderly, Held

\* A step that leaves what is held, and what was asked for, is quiet.
LEMMA QuietStep ==
    ASSUME NEW p \in Callers, Held' = Held, Status(p)' = Status(p),
           ~At(p, "idle"), ~At(p, "idle")', call'[p].op = call[p].op,
           call'[p].m = call[p].m, call'[p].got = call[p].got
    PROVE  Quiet(p)
BY DEF Quiet, Asked

\* A call that walks the slice, or returns, leaves it as it was (memory.go:22-37, 66-74).
LEMMA WalkOrderly ==
    ASSUME NEW S, StoreIn(Metric, heap, hdr, call), Orderly(S), NEW p \in Callers,
           FindNext(p) \/ FindHit(p) \/ FindMiss(p) \/ Fetch(p),
           \A q \in Callers \ {p} : ~Busy(q)
    PROVE  Orderly(S)' /\ (Quiet(p) \/ Lands(p))
<1>a. /\ call[p] \in CallIn(Metric) /\ CallOrderly(S, p)
      /\ hdr \in [ptr : DOMAIN heap, len : Nat] /\ hdr.len <= Len(heap[hdr.ptr])
      /\ UNCHANGED <<heap, hdr>>
  BY DEF StoreIn, Orderly, FindNext, FindHit, FindMiss, Fetch
<1>b. Keyed(S, heap[hdr.ptr], hdr.len)
  BY DEF Orderly, LastInUse, Busy, At, FindNext, FindHit, FindMiss, Fetch
<1>e. Held = {heap[hdr.ptr][i] : i \in 1..hdr.len}
  BY DEF Held, LastInUse, Busy, At, FindNext, FindHit, FindMiss, Fetch
<1>c. ASSUME NEW STATE c, call' = [call EXCEPT ![p] = c], c.pc \notin {"fill", "shrink"}, CallOrderly(S, p)'
      PROVE  Orderly(S)' /\ Held' = Held /\ call'[p] = c
  <2>1. call'[p] = c
    BY <1>c DEF StoreIn
  <2>2. Keyed(S, heap[hdr.ptr], UsedBy(p))'
    BY <1>a, <1>b, <1>c, <2>1 DEF UsedBy, At
  <2>3. Orderly(S)' /\ Held' = {heap[hdr.ptr][i] : i \in 1..hdr.len}
    <3>1. UsedBy(p)' = hdr.len
      BY <1>a, <1>c, <2>1 DEF UsedBy, At
    <3>2. Orderly(S)' /\ Held' = {heap[hdr.ptr][i] : i \in 1..UsedBy(p)}'
      BY <1>a, <1>c, <2>2, CallMoves
    <3> QED BY <1>a, <3>1, <3>2
  <2> QED BY <1>e, <2>1, <2>3
\* Here(p) is an element of the slice while a call finds its way.
<1>d. At(p, "find") =>
        /\ call[p].at = hdr /\ call[p].idx \in 1..(hdr.len + 1)
        /\ call[p].idx <= hdr.len => Here(p) = heap[hdr.ptr][call[p].idx]
  BY <1>a DEF CallOrderly, Here, CellAt, StoreIn
<1>1. CASE FindNext(p)
  <2> DEFINE c == [call[p] EXCEPT !.idx = @ + 1]
  <2>1. call' = [call EXCEPT ![p] = c] /\ At(p, "find") /\ call[p].idx <= hdr.len
    BY <1>1, <1>a DEF FindNext, CallOrderly
  <2>2. /\ c.pc = "find" /\ c.at = hdr /\ c.m = call[p].m /\ c.op = call[p].op
        /\ c.idx = call[p].idx + 1 /\ c.idx \in 1..(hdr.len + 1) /\ c.got = call[p].got
    BY <1>a, <1>d, <2>1 DEF CallIn, At
  <2>3. Fresh(heap[hdr.ptr], c.m, c.idx - 1)
    <3>1. ~SameKey(heap[hdr.ptr][call[p].idx], call[p].m)
      BY <1>1, <1>d, <2>1 DEF FindNext
    <3>2. Fresh(heap[hdr.ptr], call[p].m, call[p].idx - 1)
      BY <1>a, <2>1 DEF CallOrderly
    <3> QED BY <1>d, <2>1, <2>2, <3>1, <3>2 DEF Fresh
  <2>4. call'[p] = c
    BY <2>1 DEF StoreIn
  <2> HIDE DEF c
  <2>5. CallOrderly(S, p)'
    BY <1>a, <2>1, <2>2, <2>3, <2>4 DEF CallOrderly, Busy, At, Fresh
  <2>6. Orderly(S)' /\ Held' = Held
    BY <1>c, <2>1, <2>2, <2>5
  <2>7. ~At(p, "idle") /\ ~At(p, "idle")' /\ Status(p) = "called" /\ Status(p)' = "called"
    BY <2>1, <2>2, <2>4 DEF At, Status
  <2> QED BY <2>2, <2>4, <2>6, <2>7, QuietStep
<1>2. CASE FindHit(p)
  <2> DEFINE step == CASE call[p].op = "get" -> "fetch" [] call[p].op = "upsert" -> "update"
                       [] OTHER -> "shift"
             c == [call[p] EXCEPT !.pc = step]
  <2>1. /\ call' = [call EXCEPT ![p] = c] /\ At(p, "find")
        /\ call[p].idx \in 1..hdr.len /\ SameKey(heap[hdr.ptr][call[p].idx], call[p].m)
    <3>1. At(p, "find") /\ call[p].op \in {"get", "upsert", "delete"}
      BY <1>2, <1>a DEF FindHit, CallIn
    <3> QED BY <1>2, <1>a, <1>d, <3>1 DEF FindHit, At
  <2>2. /\ c.pc = step /\ c.m = call[p].m /\ c.op = call[p].op /\ c.idx = call[p].idx
        /\ c.at = call[p].at /\ c.got = call[p].got
    BY <1>a DEF CallIn
  <2>3. call'[p] = c
    BY <2>1 DEF StoreIn
  <2>4. /\ call[p].op = "upsert" => call[p].m \in S
        /\ call[p].op \in {"get", "upsert", "delete"}
    BY <1>a, <2>1 DEF CallOrderly, Busy, At, CallIn
  <2> HIDE DEF c
  <2>5. CallOrderly(S, p)'
    BY <1>a, <2>1, <2>2, <2>3, <2>4 DEF CallOrderly, Busy, At, Fresh
  <2>6. Orderly(S)' /\ Held' = Held
    BY <1>c, <2>1, <2>2, <2>5
  <2>7. ~At(p, "idle") /\ ~At(p, "idle")' /\ Status(p) = "called" /\ Status(p)' = "called"
    BY <2>1, <2>2, <2>3, <2>4 DEF At, Status
  <2> QED BY <2>2, <2>3, <2>6, <2>7, QuietStep
<1>3. CASE FindMiss(p)
  <2> DEFINE step == IF call[p].op = "upsert" THEN "append" ELSE "done"
             c == [call[p] EXCEPT !.pc = step]
  <2>1. /\ call' = [call EXCEPT ![p] = c] /\ At(p, "find")
        /\ call[p].idx = hdr.len + 1 /\ Fresh(heap[hdr.ptr], call[p].m, hdr.len)
    BY <1>3, <1>a, <1>d DEF FindMiss, CallOrderly
  <2>2. c.pc = step /\ c.m = call[p].m /\ c.op = call[p].op /\ c.got = call[p].got
    BY <1>a DEF CallIn
  <2>3. call'[p] = c
    BY <2>1 DEF StoreIn
  <2>4. /\ call[p].op = "upsert" => call[p].m \in S
        /\ call[p].op \in {"get", "upsert", "delete"}
    BY <1>a, <2>1 DEF CallOrderly, Busy, At, CallIn
  <2> HIDE DEF c
  <2>5. CallOrderly(S, p)'
    BY <1>a, <2>1, <2>2, <2>3, <2>4 DEF CallOrderly, Busy, At, Fresh
  <2>6. Orderly(S)' /\ Held' = Held
    BY <1>c, <2>1, <2>2, <2>5
  <2>7. CASE call[p].op = "upsert"
    <3>1. ~At(p, "idle") /\ ~At(p, "idle")' /\ Status(p) = "called" /\ Status(p)' = "called"
      BY <2>1, <2>2, <2>3, <2>7 DEF At, Status
    <3> QED BY <2>2, <2>3, <2>6, <3>1, QuietStep
  <2>8. CASE call[p].op # "upsert"
    <3>1. Status(p) = "called" /\ Status(p)' = "done"
      BY <2>1, <2>2, <2>3, <2>8 DEF At, Status
    <3>2. call[p].got = Nil /\ \A x \in Held : ~SameKey(x, call[p].m)
      BY <1>a, <1>e, <2>1 DEF CallOrderly, Busy, At, Fresh
    <3>3. Held = Besides(call[p].m)
      BY <3>2 DEF Besides
    <3> QED BY <2>2, <2>3, <2>4, <2>6, <2>8, <3>1, <3>2, <3>3 DEF Lands
  <2> QED BY <2>6, <2>7, <2>8
<1>4. CASE Fetch(p)
  <2> DEFINE c == [call[p] EXCEPT !.pc = "done", !.got = Here(p)]
  <2>1. call' = [call EXCEPT ![p] = c]
    BY <1>4 DEF Fetch
  <2>2. c.pc = "done" /\ c.op = call[p].op /\ c.m = call[p].m /\ c.got = Here(p)
    BY <1>a DEF CallIn
  <2>3. call'[p] = c
    BY <2>1 DEF StoreIn
  <2> HIDE DEF c
  <2>5. CallOrderly(S, p)'
    BY <2>2, <2>3 DEF CallOrderly, Busy, At
  <2>6. Orderly(S)' /\ Held' = Held
    BY <1>c, <2>1, <2>2, <2>5
  <2>7. /\ call[p].op = "get" /\ Here(p) = heap[hdr.ptr][call[p].idx]
        /\ call[p].idx \in 1..hdr.len /\ SameKey(heap[hdr.ptr][call[p].idx], call[p].m)
    BY <1>4, <1>a DEF Fetch, CallOrderly, At, Here, CellAt, StoreIn
  <2>8. Status(p) = "called" /\ Status(p)' = "done"
    BY <1>4, <2>2, <2>3 DEF Fetch, At, Status
  <2> QED BY <1>e, <2>2, <2>3, <2>6, <2>7, <2>8 DEF Lands
<1> QED BY <1>1, <1>2, <1>3, <1>4

\* An element that was found keeps its key (memory.go:38-51).
LEMMA UpdateOrderly ==
    ASSUME NEW S, Overwrites(S), StoreIn(Metric, heap, hdr, call), Orderly(S),
           NEW p \in Callers, Update(p), \A q \in Callers \ {p} : ~Busy(q)
    PROVE  Orderly(S)' /\ Lands(p)
<1> DEFINE c == [call[p] EXCEPT !.pc = "done"]
           a == hdr.ptr
           n == hdr.len
           i == call[p].idx
           m == Overwrite(heap[a][i], call[p].m)
<1>a. /\ call[p] \in CallIn(Metric) /\ CallOrderly(S, p) /\ At(p, "update")
      /\ a \in DOMAIN heap /\ n \in Nat /\ n <= Len(heap[a])
      /\ heap \in Seq(Seq(Metric)) /\ heap[a] \in Seq(Metric) /\ hdr' = hdr
  BY DEF StoreIn, Orderly, Update
<1>b. /\ Keyed(S, heap[a], n) /\ i \in 1..n /\ i \in DOMAIN heap[a]
      /\ Held = {heap[a][j] : j \in 1..n}
  <2>1. LastInUse = n
    BY <1>a DEF LastInUse, Busy, At
  <2>2. i \in 1..n
    BY <1>a DEF CallOrderly, At
  <2>3. DOMAIN heap[a] = 1..Len(heap[a]) /\ Len(heap[a]) \in Nat
    BY <1>a
  <2> QED BY <1>a, <2>1, <2>2, <2>3 DEF Orderly, Held
<1>c. call' = [call EXCEPT ![p] = c] /\ heap' = [heap EXCEPT ![a][i] = m]
  BY <1>a, <1>b DEF Update, InRange, CellAt, Written
<1>d. c.pc = "done" /\ c.op = call[p].op /\ c.m = call[p].m /\ c.got = call[p].got /\ call'[p] = c
  BY <1>a, <1>c DEF CallIn, StoreIn
<1>g. /\ SameKey(heap[a][i], call[p].m) /\ call[p].op = "upsert" /\ call[p].got = Nil
      /\ call[p].m \in S
  BY <1>a DEF CallOrderly, At, Busy
<1>e. SameKey(m, heap[a][i]) /\ m \in S
  <2>1. heap[a][i] \in Metric /\ heap[a][i] \in S
    BY <1>a, <1>b DEF Keyed
  <2>2. m \in S
    BY <1>g, <2>1 DEF Overwrites
  <2> QED BY <2>1, <2>2 DEF Overwrite, SameKey, Metric
<1> HIDE DEF c
<1>f. /\ Len(heap'[a]) = Len(heap[a])
      /\ \A j \in 1..n : heap'[a][j] = IF j = i THEN m ELSE heap[a][j]
  <2> HIDE DEF m
  <2> QED BY <1>a, <1>b, <1>c
<1>1. CallOrderly(S, p)'
  BY <1>d DEF CallOrderly, Busy, At
<1>2. UsedBy(p)' = n
  BY <1>a, <1>d DEF UsedBy, At
<1>3. Keyed(S, heap[hdr.ptr], UsedBy(p))'
  <2> HIDE DEF m
  <2>1. \A j \in 1..n : /\ heap'[a][j].id = heap[a][j].id
                        /\ heap'[a][j].mtype = heap[a][j].mtype
                        /\ heap'[a][j] \in S
    BY <1>b, <1>e, <1>f DEF SameKey, Keyed
  <2>2. Keyed(S, heap'[a], n)
    BY <1>a, <1>b, <2>1 DEF Keyed, SameKey
  <2> QED BY <1>a, <1>2, <2>2
<1>4. Orderly(S)' /\ Held' = {heap'[a][j] : j \in 1..n}
  <2>1. hdr'.len <= Len(heap'[hdr'.ptr])
    BY <1>a, <1>f
  <2>2. Orderly(S)' /\ Held' = {heap[hdr.ptr][j] : j \in 1..UsedBy(p)}'
    BY <1>c, <1>1, <1>3, <2>1, CallMoves
  <2> QED BY <1>a, <1>2, <2>2
<1>5. Held' = Besides(call[p].m) \cup {m} /\ heap[a][i] \in Held
  <2>1. \A j \in 1..n : SameKey(heap[a][j], call[p].m) <=> j = i
    BY <1>b, <1>g DEF Keyed, SameKey
  <2> HIDE DEF m
  <2>2. Besides(call[p].m) = {heap[a][j] : j \in (1..n) \ {i}}
    BY <1>b, <2>1 DEF Besides
  <2>3. Held' = {heap[a][j] : j \in (1..n) \ {i}} \cup {m}
    BY <1>b, <1>4, <1>f
  <2> QED BY <1>b, <2>2, <2>3
<1>6. Status(p) = "called" /\ Status(p)' = "done"
  BY <1>a, <1>d DEF Status, At
<1> QED BY <1>4, <1>5, <1>6, <1>d, <1>g DEF Lands

\* Append publishes a slot and fills it with a key that was not there (memory.go:36-37).
LEMMA AppendOrderly ==
    ASSUME NEW S, StoreIn(Metric, heap, hdr, call), Orderly(S), NEW p \in Callers,
           LoadRoom(p) \/ LoadFull(p) \/ Extend(p) \/ Swap(p) \/ Fill(p),
           \A q \in Callers \ {p} : ~Busy(q)
    PROVE  Orderly(S)' /\ (Quiet(p) \/ Lands(p))
<1> DEFINE a == hdr.ptr
           n == hdr.len
           m == call[p].m
           b == call[p].at.ptr
<1>a. /\ call[p] \in CallIn(Metric) /\ CallOrderly(S, p) /\ Busy(p)
      /\ a \in DOMAIN heap /\ n \in Nat /\ n <= Len(heap[a])
      /\ b \in DOMAIN heap /\ heap[b] \in Seq(Metric)
      /\ heap \in Seq(Seq(Metric)) /\ heap[a] \in Seq(Metric)
      /\ call[p].op = "upsert" /\ m \in S /\ call[p].got = Nil
  BY DEF StoreIn, Orderly, LoadRoom, LoadFull, Extend, Swap, Fill, Busy, At, CallOrderly
<1>b. Keyed(S, heap[a], UsedBy(p)) /\ Held = {heap[a][j] : j \in 1..UsedBy(p)}
  <2>1. LastInUse = UsedBy(p)
    BY DEF LastInUse, UsedBy, Busy, At
  <2> QED BY <2>1 DEF Orderly, Held
\* What is left to show of the steps before the last.
<1>c. ASSUME NEW STATE c, call' = [call EXCEPT ![p] = c], c.pc \in {"extend", "swap", "fill"},
             c.m = m, c.op = call[p].op, c.got = Nil, UsedBy(p) = n, UsedBy(p)' = n,
             hdr'.len <= Len(heap'[hdr'.ptr]), CallOrderly(S, p)', ~At(p, "fill"),
             \A j \in 1..n : heap'[hdr'.ptr][j] = heap[a][j]
      PROVE  Orderly(S)' /\ Quiet(p)
  <2>1. call'[p] = c
    BY <1>c DEF StoreIn
  <2>2. Keyed(S, heap[hdr.ptr], UsedBy(p))'
    <3> HIDE DEF a, n
    <3>1. Keyed(S, heap'[hdr'.ptr], n)
      BY <1>b, <1>c DEF Keyed
    <3> QED BY <1>c, <3>1
  <2>3. Orderly(S)' /\ Held' = {heap[hdr.ptr][j] : j \in 1..UsedBy(p)}'
    BY <1>c, <2>2, CallMoves
  <2>4. Held' = {heap'[hdr'.ptr][j] : j \in 1..n} /\ Held = {heap[a][j] : j \in 1..n}
    BY <1>b, <1>c, <2>3
  <2>5. Held' = Held
    <3> HIDE DEF a, n
    <3> QED BY <1>c, <2>4
  <2>6. ~At(p, "idle") /\ ~At(p, "idle")' /\ Status(p) = "called" /\ Status(p)' = "called"
    <3>1. call[p].pc \in {"append", "extend", "swap"}
      BY <1>c DEF LoadRoom, LoadFull, Extend, Swap, Fill, At
    <3> QED BY <1>c, <2>1, <3>1 DEF At, Status
  <2> QED BY <1>a, <1>c, <2>1, <2>3, <2>5, <2>6, QuietStep
<1>1. CASE LoadRoom(p)
  <2> DEFINE c == [call[p] EXCEPT !.pc = "extend", !.at = hdr]
  <2>1. /\ call' = [call EXCEPT ![p] = c] /\ At(p, "append") /\ n < Len(heap[a])
        /\ UNCHANGED <<heap, hdr>>
    BY <1>1 DEF LoadRoom
  <2>2. /\ c.pc = "extend" /\ c.at = hdr /\ c.m = m /\ c.op = call[p].op /\ c.got = Nil
        /\ call'[p] = c
    BY <1>a, <2>1 DEF CallIn, StoreIn
  <2> HIDE DEF c
  <2>3. CallOrderly(S, p)'
    BY <1>a, <2>1, <2>2 DEF CallOrderly, Busy, At, Fresh
  <2>4. UsedBy(p) = n /\ UsedBy(p)' = n
    BY <1>a, <2>1, <2>2 DEF UsedBy, At
  <2> QED BY <1>a, <1>c, <2>1, <2>2, <2>3, <2>4 DEF At
<1>2. CASE LoadFull(p)
  <2> DEFINE k == Len(heap) + 1
             g == Grown(heap[a])
             c == [call[p] EXCEPT !.pc = "swap", !.at = [ptr |-> k, len |-> n]]
  <2>1. /\ call' = [call EXCEPT ![p] = c] /\ At(p, "append") /\ n >= Len(heap[a])
        /\ heap' = Append(heap, g) /\ hdr' = hdr
    BY <1>2 DEF LoadFull
  <2>2. /\ c.pc = "swap" /\ c.at.ptr = k /\ c.at.len = n /\ c.m = m /\ c.op = call[p].op
        /\ call'[p] = c /\ c.got = Nil
    BY <1>a, <2>1 DEF CallIn, StoreIn
  <2>3. /\ n < Len(g) /\ \A i \in 1..n : g[i] = heap[a][i]
    BY SMTT(20), <1>a, <2>1 DEF Grown
  <2> HIDE DEF c, g
  <2>4. heap'[k] = g /\ heap'[a] = heap[a]
    BY <1>a, <2>1
  <2>a. Fresh(heap[a], m, n)
    BY <1>a, <2>1 DEF CallOrderly, At
  <2>b. Fresh(heap'[a], m, n)
    BY <2>1, <2>4, <2>a DEF Fresh
  <2>5. CallOrderly(S, p)'
    <3>1. /\ hdr'.ptr = a /\ hdr'.len = n /\ call'[p].pc = "swap" /\ call'[p].at.ptr = k
          /\ call'[p].at.len = n /\ call'[p].m = m /\ call'[p].op = call[p].op
          /\ call'[p].got = Nil
      BY <2>1, <2>2
    <3>2. n < Len(heap'[k]) /\ \A i \in 1..n : heap'[k][i] = heap'[a][i]
      BY <2>3, <2>4
    <3> HIDE DEF a, n, m, k
    <3> QED BY <1>a, <2>b, <3>1, <3>2 DEF CallOrderly, Busy, At
  <2>6. UsedBy(p) = n /\ UsedBy(p)' = n
    BY <1>a, <2>1, <2>2 DEF UsedBy, At
  <2> QED BY <1>a, <1>c, <2>1, <2>2, <2>4, <2>5, <2>6 DEF At
<1>3. CASE Extend(p) \/ Swap(p)
  <2> DEFINE c == [call[p] EXCEPT !.pc = "fill"]
  <2>1. /\ call' = [call EXCEPT ![p] = c] /\ heap' = heap /\ call[p].pc \in {"extend", "swap"}
        /\ hdr' = [ptr |-> b, len |-> n + 1]
    <3>1. CASE Extend(p)
      BY <1>a, <3>1 DEF Extend, CallOrderly, At, StoreIn
    <3>2. CASE Swap(p)
      BY <1>a, <3>2 DEF Swap, CallOrderly, At
    <3> QED BY <1>3, <3>1, <3>2
  <2>2. /\ c.pc = "fill" /\ c.at = call[p].at /\ c.m = m /\ c.op = call[p].op /\ call'[p] = c
        /\ c.got = Nil
    BY <1>a, <2>1 DEF CallIn, StoreIn
  <2>3. /\ call[p].at.len = n /\ n < Len(heap[b]) /\ Fresh(heap[a], m, n)
        /\ \A i \in 1..n : heap[b][i] = heap[a][i]
    BY <1>a, <2>1 DEF CallOrderly, At
  <2> HIDE DEF c
  <2>a. /\ hdr'.ptr = b /\ hdr'.len = n + 1 /\ hdr'.len <= Len(heap'[b])
        /\ \A i \in 1..n : heap'[b][i] = heap[a][i]
    BY <1>a, <2>1, <2>3
  <2>4. CallOrderly(S, p)'
    <3>1. \A i \in 1..n : ~SameKey(heap'[b][i], m)
      BY <2>3, <2>a DEF Fresh
    <3>2. Fresh(heap'[b], m, n)
      BY <2>a, <3>1 DEF Fresh
    <3> QED BY <1>a, <2>2, <2>3, <2>a, <3>2 DEF CallOrderly, Busy, At
  <2>5. UsedBy(p) = n /\ UsedBy(p)' = n
    BY <1>a, <2>1, <2>2, <2>a DEF UsedBy, At
  <2> QED BY <1>c, <2>1, <2>2, <2>4, <2>5, <2>a DEF At
<1>4. CASE Fill(p)
  <2> DEFINE c == [call[p] EXCEPT !.pc = "done"]
  <2>1. /\ call' = [call EXCEPT ![p] = c] /\ At(p, "fill") /\ hdr' = hdr
        /\ b = a /\ call[p].at.len = n - 1 /\ Fresh(heap[a], m, n - 1) /\ n \in DOMAIN heap[a]
    <3>1. At(p, "fill") /\ call' = [call EXCEPT ![p] = c] /\ hdr' = hdr
      BY <1>4 DEF Fill
    <3>2. call[p].at.len \in Nat
      BY <1>a DEF CallIn, Header
    <3>3. b = a /\ n = call[p].at.len + 1 /\ Fresh(heap[a], m, call[p].at.len)
      BY <1>a, <3>1 DEF CallOrderly
    <3>4. DOMAIN heap[a] = 1..Len(heap[a]) /\ Len(heap[a]) \in Nat
      BY <1>a
    <3>5. call[p].at.len = n - 1 /\ n >= 1
      BY <3>2, <3>3
    <3> QED BY <1>a, <3>1, <3>3, <3>4, <3>5
  <2>2. heap' = [heap EXCEPT ![a][n] = m]
    <3>1. call[p].at.len + 1 = n
      BY <1>a, <2>1
    <3> QED BY <1>4, <2>1, <3>1 DEF Fill, Written
  <2>3. c.pc = "done" /\ call'[p] = c /\ c.op = call[p].op /\ c.m = m /\ c.got = Nil
    BY <1>a, <2>1 DEF CallIn, StoreIn
  <2> HIDE DEF c
  <2>4. /\ Len(heap'[a]) = Len(heap[a]) /\ heap'[a][n] = m
        /\ \A i \in 1..(n - 1) : heap'[a][i] = heap[a][i]
    BY <1>a, <2>1, <2>2
  <2>5. CallOrderly(S, p)'
    BY <2>3 DEF CallOrderly, Busy, At
  <2>6. UsedBy(p) = n - 1 /\ UsedBy(p)' = n
    BY <2>1, <2>3 DEF UsedBy, At
  <2>7. Keyed(S, heap[hdr.ptr], UsedBy(p))'
    <3>1. Keyed(S, heap[a], n - 1)
      BY <1>b, <2>6
    <3>2. \A i \in 1..n : i = n \/ i \in 1..(n - 1)
      BY <1>a
    <3>3. ASSUME NEW i \in 1..n, NEW j \in 1..n, SameKey(heap'[a][i], heap'[a][j])
          PROVE  i = j
      <4>1. CASE i \in 1..(n - 1) /\ j \in 1..(n - 1)
        BY <2>4, <3>1, <3>3, <4>1 DEF Keyed
      <4>2. \A k \in 1..(n - 1) : ~SameKey(heap'[a][k], m) /\ ~SameKey(m, heap'[a][k])
        BY <2>1, <2>4 DEF Fresh, SameKey
      <4> QED BY <2>4, <3>2, <3>3, <4>1, <4>2
    <3>4. \A i \in 1..n : heap'[a][i] \in S
      BY <1>a, <2>4, <3>1, <3>2 DEF Keyed
    <3>5. Keyed(S, heap'[a], n)
      BY <3>3, <3>4 DEF Keyed
    <3> QED BY <2>1, <2>6, <3>5
  <2>8. Orderly(S)' /\ Held' = {heap'[a][j] : j \in 1..n}
    <3>1. hdr'.len <= Len(heap'[hdr'.ptr])
      BY <1>a, <2>1, <2>4
    <3>2. Orderly(S)' /\ Held' = {heap[hdr.ptr][j] : j \in 1..UsedBy(p)}'
      BY <2>1, <2>5, <2>7, <3>1, CallMoves
    <3> QED BY <2>1, <2>6, <3>2
  <2>9. Held' = Held \cup {m} /\ \A x \in Held : ~SameKey(x, m)
    <3>1. Held = {heap[a][j] : j \in 1..(n - 1)}
      BY <1>b, <2>6
    <3>2. 1..n = (1..(n - 1)) \cup {n}
      BY <1>a, <2>1
    <3>3. \A x \in Held : ~SameKey(x, m)
      BY <2>1, <3>1 DEF Fresh
    <3> HIDE DEF m
    <3>4. Held' = {heap'[a][j] : j \in 1..(n - 1)} \cup {m}
      BY <2>4, <2>8, <3>2
    <3> QED BY <2>4, <3>1, <3>3, <3>4
  <2>b. Status(p) = "called" /\ Status(p)' = "done"
    BY <2>1, <2>3 DEF Status, At
  <2> QED BY <1>a, <2>3, <2>8, <2>9, <2>b DEF Lands
<1> QED BY <1>1, <1>2, <1>3, <1>4

\* A delete takes the metric of its key away, and leaves the others, in their order
\* (memory.go:76-92).
LEMMA DeleteOrderly ==
    ASSUME NEW S, StoreIn(Metric, heap, hdr, call), Orderly(S), NEW p \in Callers,
           Shift(p) \/ Shrink(p), \A q \in Callers \ {p} : ~Busy(q)
    PROVE  Orderly(S)' /\ (Quiet(p) \/ Lands(p))
<1> DEFINE a == hdr.ptr
           n == hdr.len
           m == call[p].m
           i == call[p].idx
<1>a. /\ call[p] \in CallIn(Metric) /\ CallOrderly(S, p) /\ Busy(p)
      /\ a \in DOMAIN heap /\ n \in Nat /\ n <= Len(heap[a])
      /\ heap \in Seq(Seq(Metric)) /\ heap[a] \in Seq(Metric)
      /\ hdr \in [ptr : DOMAIN heap, len : Nat]
      /\ call[p].op = "delete" /\ call[p].got = Nil
  <2>1. hdr \in [ptr : DOMAIN heap, len : Nat] /\ heap \in Seq(Seq(Metric))
        /\ call[p] \in CallIn(Metric)
    BY DEF StoreIn
  <2>2. CallOrderly(S, p) /\ hdr.len <= Len(heap[hdr.ptr])
    BY DEF Orderly
  <2>3. At(p, "shift") \/ At(p, "shrink")
    BY DEF Shift, Shrink
  <2>4. Busy(p) /\ call[p].op = "delete" /\ call[p].got = Nil
    BY <2>2, <2>3 DEF CallOrderly, Busy, At
  <2>5. a \in DOMAIN heap /\ n \in Nat /\ heap[a] \in Seq(Metric)
    BY <2>1
  <2> QED BY <2>1, <2>2, <2>4, <2>5
<1>b. Keyed(S, heap[a], UsedBy(p)) /\ Held = {heap[a][j] : j \in 1..UsedBy(p)}
  <2>1. LastInUse = UsedBy(p)
    BY DEF LastInUse, UsedBy, Busy, At
  <2> QED BY <2>1 DEF Orderly, Held
<1>1. CASE Shift(p)
  <2> DEFINE c == [call[p] EXCEPT !.pc = "shrink", !.at = hdr]
             f == [j \in DOMAIN heap[a] |-> IF j \in i..(n - 1) THEN CellAt(a, j + 1) ELSE heap[a][j]]
  <2>1. At(p, "shift") /\ i \in 1..n /\ SameKey(heap[a][i], m) /\ hdr' = hdr
    BY <1>1, <1>a DEF Shift, CallOrderly, At
  <2>2. call' = [call EXCEPT ![p] = c] /\ heap' = [heap EXCEPT ![a] = f]
    <3>1. InRange(p)
      BY <1>a, <2>1 DEF InRange
    <3>2. /\ call' = [call EXCEPT ![p].pc = "shrink", ![p].at = hdr]
          /\ heap' = [heap EXCEPT ![hdr.ptr] =
                        [j \in DOMAIN heap[hdr.ptr] |-> IF j \in call[p].idx..(hdr.len - 1)
                                              THEN CellAt(hdr.ptr, j + 1) ELSE heap[hdr.ptr][j]]]
      BY <1>1, <3>1 DEF Shift
    <3> QED BY <3>2
  <2>3. /\ c.pc = "shrink" /\ c.at = hdr /\ c.op = "delete" /\ c.m = m /\ c.got = Nil
        /\ call'[p] = c
    BY <1>a, <2>2 DEF CallIn, StoreIn
  <2>4. UsedBy(p) = n /\ UsedBy(p)' = n - 1
    BY <2>1, <2>3 DEF UsedBy, At
  <2>5. /\ Len(heap'[a]) = Len(heap[a])
        /\ \A j \in 1..(i - 1) : heap'[a][j] = heap[a][j]
        /\ \A j \in i..(n - 1) : heap'[a][j] = heap[a][j + 1]
    <3>1. heap'[a] = f /\ DOMAIN f = DOMAIN heap[a] /\ DOMAIN heap[a] = 1..Len(heap[a])
      BY <1>a, <2>2
    <3>2. Len(f) = Len(heap[a])
      BY <1>a, <3>1
    <3>3. \A j \in 1..(i - 1) : f[j] = heap[a][j]
      BY <1>a, <2>1, <3>1
    <3>4. \A j \in i..(n - 1) : f[j] = heap[a][j + 1]
      BY <1>a, <2>1, <3>1 DEF CellAt
    <3> QED BY <3>1, <3>2, <3>3, <3>4
  <2> HIDE DEF c, f
  <2>6. Keyed(S, heap[a], n) /\ \A j \in 1..n : SameKey(heap[a][j], m) <=> j = i
    BY <1>b, <2>1, <2>4 DEF Keyed, SameKey
  \* Where the element j of what is left comes from.
  <2> DEFINE from(j) == IF j < i THEN j ELSE j + 1
  <2>7. \A j \in 1..(n - 1) : heap'[a][j] = heap[a][from(j)] /\ from(j) \in (1..n) \ {i}
    <3> TAKE j \in 1..(n - 1)
    <3>1. CASE j < i
      BY SMTT(20), <1>a, <2>1, <2>5, <3>1
    <3>2. CASE j >= i
      <4>1. j \in i..(n - 1) /\ from(j) = j + 1 /\ j + 1 \in (1..n) \ {i}
        BY <1>a, <2>1, <3>2
      <4> HIDE DEF from
      <4> QED BY <2>5, <4>1
    <3> QED BY <1>a, <2>1, <3>1, <3>2
  <2>8. \A j \in (1..n) \ {i} : \E k \in 1..(n - 1) : from(k) = j
    <3> TAKE j \in (1..n) \ {i}
    <3>1. CASE j < i
      BY <1>a, <2>1, <3>1
    <3>2. CASE j > i
      <4>1. j - 1 \in 1..(n - 1) /\ from(j - 1) = j
        BY <1>a, <2>1, <3>2
      <4> HIDE DEF from
      <4> QED BY <4>1
    <3>3. i \in Nat /\ j \in Nat /\ j # i
      BY <1>a, <2>1
    <3> HIDE DEF i, n, from
    <3>4. j < i \/ j > i
      BY <3>3
    <3> QED BY <3>1, <3>2, <3>4
  <2>9. \A j, k \in 1..(n - 1) : from(j) = from(k) => j = k
    BY SMTT(20), <1>a, <2>1
  <2> HIDE DEF from, i
  <2>a. Keyed(S, heap[hdr.ptr], UsedBy(p))'
    <3>1. Keyed(S, heap'[a], n - 1)
      BY <2>6, <2>7, <2>9 DEF Keyed
    <3> QED BY <2>1, <2>4, <3>1
  <2>b. Fresh(heap'[a], m, n - 1)
    BY <2>6, <2>7 DEF Fresh
  <2>c. CallOrderly(S, p)'
    <3>1. n > 0
      BY <1>a, <2>1
    <3> QED BY <1>a, <2>1, <2>3, <2>b, <3>1 DEF CallOrderly, Busy, At
  <2>d. Orderly(S)' /\ Held' = {heap'[a][j] : j \in 1..(n - 1)}
    <3>1. hdr'.len <= Len(heap'[hdr'.ptr])
      BY <1>a, <2>1, <2>5
    <3>2. Orderly(S)' /\ Held' = {heap[hdr.ptr][j] : j \in 1..UsedBy(p)}'
      BY <2>2, <2>a, <2>c, <3>1, CallMoves
    <3> QED BY <2>1, <2>4, <3>2
  <2>e. Held' = Besides(m)
    <3>1. Besides(m) = {heap[a][j] : j \in (1..n) \ {i}}
      BY <1>b, <2>4, <2>6 DEF Besides
    <3>2. {heap'[a][j] : j \in 1..(n - 1)} = {heap[a][j] : j \in (1..n) \ {i}}
      BY <2>7, <2>8
    <3> QED BY <2>d, <3>1, <3>2
  <2>f. Status(p) = "called" /\ Status(p)' = "done"
    BY <2>1, <2>3 DEF Status, At
  <2> QED BY <1>a, <2>3, <2>d, <2>e, <2>f DEF Lands
<1>2. CASE Shrink(p)
  <2> DEFINE c == [call[p] EXCEPT !.pc = "done"]
  <2>1. /\ call' = [call EXCEPT ![p] = c] /\ heap' = heap /\ At(p, "shrink")
        /\ call[p].at = hdr /\ n > 0
    BY <1>2, <1>a DEF Shrink, CallOrderly
  <2>2. c.pc = "done" /\ c.op = call[p].op /\ c.m = m /\ c.got = call[p].got /\ call'[p] = c
    BY <1>a, <2>1 DEF CallIn, StoreIn
  <2>3. hdr'.ptr = a /\ hdr'.len = n - 1
    BY <1>2, <1>a, <2>1 DEF Shrink
  <2> HIDE DEF c
  <2>4. UsedBy(p) = n - 1 /\ UsedBy(p)' = n - 1
    BY <2>1, <2>2, <2>3 DEF UsedBy, At
  <2>5. Keyed(S, heap[hdr.ptr], UsedBy(p))'
    BY <1>b, <2>1, <2>3, <2>4
  <2>6. CallOrderly(S, p)'
    BY <2>2 DEF CallOrderly, Busy, At
  <2>7. Orderly(S)' /\ Held' = {heap[hdr.ptr][j] : j \in 1..UsedBy(p)}'
    <3>1. hdr'.len <= Len(heap'[hdr'.ptr])
      BY <1>a, <2>1, <2>3
    <3> QED BY <2>1, <2>5, <2>6, <3>1, CallMoves
  <2>8. Held' = Held
    BY <1>b, <2>1, <2>3, <2>4, <2>7
  <2>9. ~At(p, "idle") /\ ~At(p, "idle")' /\ Status(p) = "done" /\ Status(p)' = "done"
    BY <2>1, <2>2 DEF At, Status
  <2> QED BY <2>2, <2>7, <2>8, <2>9, QuietStep
<1> QED BY <1>1, <1>2

\* A goroutine that has no call under way starts one, or forgets the one that returned.
LEMMA StartOrderly ==
    ASSUME NEW S, StoreIn(Metric, heap, hdr, call), Orderly(S), NEW p \in Callers,
           \A q \in Callers : ~Busy(q),
           NEW STATE c, call' = [call EXCEPT ![p] = c], UNCHANGED <<heap, hdr>>,
           \/ c = NoCall
           \/ \E op, m : c = NewCall(op, m) /\ (op = "upsert" => m \in S)
    PROVE  /\ Orderly(S)' /\ Held' = Held
           /\ call'[p] = c /\ \A q \in Callers \ {p} : call'[q] = call[q]
<1>1. call'[p] = c /\ \A q \in Callers \ {p} : call'[q] = call[q]
  BY DEF StoreIn
<1>2. LastInUse = hdr.len /\ hdr.len \in Nat /\ hdr \in [ptr : DOMAIN heap, len : Nat]
  BY DEF LastInUse, Busy, At, StoreIn
<1>3. c.pc \in {"idle", "find"}
  BY DEF NoCall, NewCall
<1>4. UsedBy(p)' = hdr.len
  BY <1>1, <1>3 DEF UsedBy, At
<1>5. Keyed(S, heap[hdr.ptr], UsedBy(p))'
  BY <1>2, <1>4 DEF Orderly
<1>6. CallOrderly(S, p)'
  <2>1. CASE c = NoCall
    BY <1>1, <2>1 DEF NoCall, CallOrderly, Busy, At
  <2>2. ASSUME NEW op, NEW m, c = NewCall(op, m), op = "upsert" => m \in S
        PROVE  CallOrderly(S, p)'
    <3>1. c.pc = "find" /\ c.op = op /\ c.m = m /\ c.at = hdr /\ c.idx = 1 /\ c.got = Nil
      BY <2>2 DEF NewCall
    <3> QED BY <1>1, <1>2, <2>2, <3>1 DEF CallOrderly, Busy, At, Fresh
  <2> QED BY <2>1, <2>2
<1>7. hdr'.len <= Len(heap'[hdr'.ptr])
  BY DEF Orderly
<1>8. Orderly(S)' /\ Held' = {heap[hdr.ptr][i] : i \in 1..UsedBy(p)}'
  BY <1>5, <1>6, <1>7, CallMoves
<1> QED BY <1>1, <1>2, <1>4, <1>8 DEF Held

\* Each step of the one call under way.
LEMMA StepOrderly ==
    ASSUME NEW S, Overwrites(S), StoreIn(Metric, heap, hdr, call), Orderly(S),
           NEW p \in Callers, StoreStep(p), \A q \in Callers \ {p} : ~Busy(q)
    PROVE  /\ Orderly(S)' /\ (Quiet(p) \/ Lands(p))
           /\ \A q \in Callers \ {p} : call'[q] = call[q]
<1>1. Orderly(S)' /\ (Quiet(p) \/ Lands(p))
  BY WalkOrderly, UpdateOrderly, AppendOrderly, DeleteOrderly DEF StoreStep
<1>2. \A q \in Callers \ {p} : call'[q] = call[q]
  BY DEF StoreIn, StoreStep, FindNext, FindHit, FindMiss, Fetch, Update, Panics,
     LoadRoom, LoadFull, Extend, Swap, Fill, Shift, Shrink
<1> QED BY <1>1, <1>2

\* An empty store is in order, and holds nothing.
LEMMA OrderlyInit ==
    ASSUME NEW S, hdr.len = 0, heap[hdr.ptr] = <<>>, \A p \in Callers : call[p].pc = "idle"
    PROVE  Orderly(S) /\ Held = {}
<1>1. \A p \in Callers : CallOrderly(S, p)
  BY DEF CallOrderly, Busy, At
<1>2. LastInUse = 0
  BY DEF LastInUse, At
<1> QED BY <1>1, <1>2 DEF Orderly, Keyed, Held

\* Nothing happened to the store and to its calls.
LEMMA OrderlyStays ==
    ASSUME NEW S, Orderly(S), UNCHANGED <<heap, hdr, call>> PROVE Orderly(S)' /\ Held' = Held
BY DEF Orderly, LastInUse, Held, CallOrderly, Busy, At

\* An upsert of a key that is not there leaves the slots in use as they are, and in the
\* end adds one: the order of the slice is that of the upserts (memory.go:22-37).
LEMMA AppendsInOrder ==
    ASSUME NEW S, StoreIn(Metric, heap, hdr, call), Orderly(S), NEW p \in Callers,
           StoreStep(p), \A q \in Callers \ {p} : ~Busy(q), call[p].op = "upsert",
           Fresh(heap[hdr.ptr], call[p].m, LastInUse)
    PROVE  /\ call'[p].op = "upsert" /\ call'[p].m = call[p].m /\ ~At(p, "idle")'
           /\ LastInUse' = IF Busy(p)' THEN LastInUse ELSE LastInUse + 1
           /\ \A j \in 1..LastInUse : heap'[hdr'.ptr][j] = heap[hdr.ptr][j]
           /\ ~Busy(p)' => heap'[hdr'.ptr][LastInUse'] = call[p].m
<1> DEFINE a == hdr.ptr
           n == hdr.len
           m == call[p].m
           b == call[p].at.ptr
<1>a. /\ call[p] \in CallIn(Metric) /\ CallOrderly(S, p) /\ Busy(p)
      /\ a \in DOMAIN heap /\ n \in Nat /\ n <= Len(heap[a])
      /\ b \in DOMAIN heap /\ heap[b] \in Seq(Metric)
      /\ heap \in Seq(Seq(Metric)) /\ heap[a] \in Seq(Metric)
  BY DEF StoreIn, Orderly, StoreStep, FindNext, FindHit, FindMiss, Fetch, Update, LoadRoom,
     LoadFull, Extend, Swap, Fill, Shift, Shrink, Busy, At
<1>b. LastInUse = UsedBy(p) /\ Fresh(heap[a], m, UsedBy(p))
  BY DEF LastInUse, UsedBy, Busy, At
\* What is left to show is how the call, the header and the slots move.
<1>c. ASSUME NEW STATE c, call' = [call EXCEPT ![p] = c],
             c.op = "upsert", c.m = m, c.pc \notin {"idle", "shrink"}
      PROVE  /\ call'[p] = c /\ LastInUse' = UsedBy(p)'
             /\ UsedBy(p)' = IF c.pc = "fill" THEN hdr'.len - 1 ELSE hdr'.len
             /\ Busy(p)' <=> c.pc # "done"
  <2>1. call'[p] = c /\ \A q \in Callers \ {p} : call'[q] = call[q]
    BY <1>c DEF StoreIn
  <2> QED BY <1>c, <2>1 DEF LastInUse, UsedBy, Busy, At
<1>1. CASE FindNext(p) \/ FindHit(p) \/ FindMiss(p) \/ LoadRoom(p)
  <2>1. PICK c : /\ call' = [call EXCEPT ![p] = c] /\ c.op = "upsert" /\ c.m = m
                 /\ c.pc \in {"find", "update", "append", "extend"}
    <3>1. CASE FindNext(p)
      <4> DEFINE c == [call[p] EXCEPT !.idx = @ + 1]
      <4>1. call' = [call EXCEPT ![p] = c]
        BY <3>1 DEF FindNext
      <4>2. c.op = "upsert" /\ c.m = m /\ c.pc = "find"
        BY <1>a, <3>1 DEF FindNext, At, CallIn
      <4> QED BY <4>1, <4>2
    <3>2. CASE FindHit(p)
      <4> DEFINE c == [call[p] EXCEPT !.pc = "update"]
      <4>1. call' = [call EXCEPT ![p] = c]
        BY <3>2 DEF FindHit
      <4>2. c.op = "upsert" /\ c.m = m /\ c.pc = "update"
        BY <1>a DEF CallIn
      <4> QED BY <4>1, <4>2
    <3>3. CASE FindMiss(p)
      <4> DEFINE c == [call[p] EXCEPT !.pc = "append"]
      <4>1. call' = [call EXCEPT ![p] = c]
        BY <3>3 DEF FindMiss
      <4>2. c.op = "upsert" /\ c.m = m /\ c.pc = "append"
        BY <1>a DEF CallIn
      <4> QED BY <4>1, <4>2
    <3>4. CASE LoadRoom(p)
      <4> DEFINE c == [call[p] EXCEPT !.pc = "extend", !.at = hdr]
      <4>1. call' = [call EXCEPT ![p] = c]
        BY <3>4 DEF LoadRoom
      <4>2. c.op = "upsert" /\ c.m = m /\ c.pc = "extend"
        BY <1>a DEF CallIn
      <4> QED BY <4>1, <4>2
    <3> QED BY <1>1, <3>1, <3>2, <3>3, <3>4
  <2>2. UNCHANGED <<heap, hdr>> /\ UsedBy(p) = n
    BY <1>1 DEF FindNext, FindHit, FindMiss, LoadRoom, UsedBy, At
  <2>3. /\ call'[p] = c /\ LastInUse' = hdr'.len /\ Busy(p)'
    BY <1>c, <2>1
  <2> QED BY <1>b, <2>1, <2>2, <2>3 DEF At
<1>2. CASE Fetch(p) \/ Update(p) \/ Shift(p) \/ Shrink(p)
  <2>1. CASE Update(p)
    <3>1. call[p].idx \in 1..n /\ SameKey(heap[a][call[p].idx], m)
      BY <1>a, <2>1 DEF CallOrderly, Update, At
    <3>2. UsedBy(p) = n
      BY <2>1 DEF Update, UsedBy, At
    <3> QED BY <1>b, <3>1, <3>2 DEF Fresh
  <2>2. CASE Fetch(p) \/ Shift(p) \/ Shrink(p)
    BY <1>a, <2>2 DEF Fetch, Shift, Shrink, CallOrderly, At
  <2> QED BY <1>2, <2>1, <2>2
<1>3. CASE LoadFull(p)
  <2> DEFINE c == [call[p] EXCEPT !.pc = "swap", !.at = [ptr |-> Len(heap) + 1, len |-> hdr.len]]
  <2>1. /\ call' = [call EXCEPT ![p] = c] /\ hdr' = hdr /\ UsedBy(p) = n
        /\ heap' = Append(heap, Grown(heap[a]))
    BY <1>3 DEF LoadFull, UsedBy, At
  <2>2. c.op = "upsert" /\ c.m = m /\ c.pc = "swap"
    BY <1>a DEF CallIn
  <2>3. heap'[a] = heap[a]
    BY <1>a, <2>1
  <2> HIDE DEF c
  <2>4. call'[p] = c /\ LastInUse' = n /\ Busy(p)'
    BY <1>c, <2>1, <2>2
  <2> QED BY <1>b, <2>1, <2>2, <2>3, <2>4 DEF At
<1>4. CASE Extend(p) \/ Swap(p)
  <2> DEFINE c == [call[p] EXCEPT !.pc = "fill"]
  <2>1. /\ call' = [call EXCEPT ![p] = c] /\ heap' = heap /\ UsedBy(p) = n
        /\ hdr'.ptr = b /\ hdr'.len = n + 1
        /\ \A i \in 1..n : heap[b][i] = heap[a][i]
    <3>1. CASE Extend(p)
      BY <1>a, <3>1 DEF Extend, CallOrderly, At, StoreIn, UsedBy
    <3>2. CASE Swap(p)
      BY <1>a, <3>2 DEF Swap, CallOrderly, At, UsedBy
    <3> QED BY <1>4, <3>1, <3>2
  <2>2. c.op = "upsert" /\ c.m = m /\ c.pc = "fill"
    BY <1>a DEF CallIn
  <2> HIDE DEF c
  <2>3. call'[p] = c /\ LastInUse' = hdr'.len - 1 /\ Busy(p)'
    BY <1>c, <2>1, <2>2
  <2>4. LastInUse' = n
    BY <1>a, <2>1, <2>3
  <2> QED BY <1>b, <2>1, <2>2, <2>3, <2>4 DEF At
<1>5. CASE Fill(p)
  <2> DEFINE c == [call[p] EXCEPT !.pc = "done"]
  <2>1. call' = [call EXCEPT ![p] = c] /\ hdr' = hdr /\ UsedBy(p) = n - 1 /\ At(p, "fill")
    BY <1>5 DEF Fill, UsedBy, At
  <2>2. c.op = "upsert" /\ c.m = m /\ c.pc = "done"
    BY <1>a DEF CallIn
  <2>3. call[p].at.len \in Nat /\ b = a /\ n = call[p].at.len + 1
    BY <1>a, <2>1 DEF CallIn, Header, CallOrderly
  <2>4. heap' = [heap EXCEPT ![a][n] = m]
    <3>1. n \in DOMAIN heap[a]
      BY <1>a, <2>3
    <3> QED BY <1>5, <2>3, <3>1 DEF Fill, Written
  <2>5. heap'[a][n] = m /\ \A j \in 1..(n - 1) : heap'[a][j] = heap[a][j]
    BY <1>a, <2>3, <2>4
  <2> HIDE DEF c
  <2>6. call'[p] = c /\ LastInUse' = n /\ ~Busy(p)'
    BY <1>c, <2>1, <2>2
  <2>7. n = (n - 1) + 1
    BY <1>a
  <2> QED BY <1>b, <2>1, <2>2, <2>5, <2>6, <2>7 DEF At
<1> QED BY <1>1, <1>2, <1>3, <1>4, <1>5 DEF StoreStep

-----------------------------------------------------------------------------
(* The map the slice stands for *)

\* The abstract value of a key is the metric held under it, if there is one.
StoredRight ==
    \A S, k : StoreIn(Metric, heap, hdr, call) /\ Orderly(S) =>
        /\ \A x \in Held : <<x.id, x.mtype>> = k => Stored(k) = x
        /\ (\A x \in Held : <<x.id, x.mtype>> # k) => Stored(k) = Nil

LEMMA StoredIs == StoredRight
<1> SUFFICES ASSUME NEW S, NEW k, StoreIn(Metric, heap, hdr, call), Orderly(S)
             PROVE  /\ \A x \in Held : <<x.id, x.mtype>> = k => Stored(k) = x
                    /\ (\A x \in Held : <<x.id, x.mtype>> # k) => Stored(k) = Nil
  BY DEF StoredRight
<1> DEFINE hits == {i \in Listed(k) : i <= LastInUse}
           a == heap[hdr.ptr]
<1>1. /\ hdr.len \in Nat /\ LastInUse \in {hdr.len, hdr.len - 1} /\ hdr.len <= Len(a)
      /\ a \in Seq(Metric)
  BY DEF StoreIn, Orderly, LastInUse
<1>2. \A i \in 1..hdr.len : Visible[i] = a[i]
  BY <1>1 DEF Visible, CellAt
<1>3. hits = {i \in 1..LastInUse : <<a[i].id, a[i].mtype>> = k}
  BY <1>1, <1>2 DEF Listed
<1>4. \A i, j \in hits : i = j
  BY <1>3 DEF Orderly, Keyed, SameKey
<1>5. Held = {a[i] : i \in 1..LastInUse}
  BY DEF Held
<1>6. Stored(k) = IF hits = {} THEN Nil ELSE Visible[CHOOSE i \in hits : \A j \in hits : i <= j]
  BY DEF Stored
<1> HIDE DEF hits, a
<1>7. ASSUME NEW x \in Held, <<x.id, x.mtype>> = k PROVE Stored(k) = x
  <2>1. PICK i \in 1..LastInUse : x = a[i]
    BY <1>5
  <2>2. i \in hits /\ i \in 1..hdr.len /\ i <= i
    BY <1>1, <1>3, <1>7, <2>1
  <2>3. (\A j \in hits : i <= j) /\ \A h \in hits : h = i
    BY <1>4, <2>2
  <2>4. (CHOOSE h \in hits : \A j \in hits : h <= j) = i
    BY <2>2, <2>3
  <2> QED BY <1>2, <1>6, <2>1, <2>2, <2>4
<1>8. ASSUME \A x \in Held : <<x.id, x.mtype>> # k PROVE Stored(k) = Nil
  BY <1>3, <1>5, <1>6, <1>8
<1> QED BY <1>7, <1>8

\* The same after a step.
LEMMA StoredIsNext == StoredRight'
BY StoredIs, PTL

\* Metrics that one of the same key replaces as a whole.
Replaces(S) ==
    S \subseteq Metric /\ \A old, m \in S : SameKey(old, m) => Overwrite(old, m) = m

\* What a step of the one call under way does to the map (memory.go:22-110).
LEMMA StoredAfter ==
    ASSUME NEW S, Replaces(S), StoreIn(Metric, heap, hdr, call), Orderly(S),
           StoreIn(Metric, heap, hdr, call)', Orderly(S)',
           NEW p \in Callers, NEW m, NEW k
    PROVE  /\ Held' = Held => Stored(k)' = Stored(k)
           /\ Held' = Besides(m) => Stored(k)' = IF k = <<m.id, m.mtype>> THEN Nil ELSE Stored(k)
           /\ Held' = Besides(m) \cup {m} =>
                Stored(k)' = IF k = <<m.id, m.mtype>> THEN m ELSE Stored(k)
<1>1. /\ \A x \in Held : <<x.id, x.mtype>> = k => Stored(k) = x
      /\ (\A x \in Held : <<x.id, x.mtype>> # k) => Stored(k) = Nil
  BY StoredIs DEF StoredRight
<1>2. /\ \A x \in Held' : <<x.id, x.mtype>> = k => Stored(k)' = x
      /\ (\A x \in Held' : <<x.id, x.mtype>> # k) => Stored(k)' = Nil
  BY StoredIsNext DEF StoredRight
<1> HIDE DEF Held, Stored
<1> QED BY <1>1, <1>2 DEF Besides, SameKey

\* Goroutines that take turns find in the slice the map that storage.Repository
\* promises: a step of a call is the one at which it takes effect, or none.
THEOREM StepOfMap ==
    ASSUME NEW S, Replaces(S), StoreIn(Metric, heap, hdr, call), Orderly(S),
           NEW p \in Callers, StoreStep(p), \A q \in Callers \ {p} : ~Busy(q),
           call[p].op = "get" => call[p].m.id \in Names /\ call[p].m.mtype \in Types
    PROVE  AsMap!Effect(p) \/ UNCHANGED AsMap!vars
<1> DEFINE m == call[p].m
           Map == [k \in Names \X Types |-> Stored(k)]
           Reqs == [q \in Callers |-> Asked(q)]
<1>1. /\ Orderly(S)' /\ (Quiet(p) \/ Lands(p))
      /\ \A q \in Callers \ {p} : call'[q] = call[q]
  BY StepOrderly DEF Replaces, Overwrites
<1>2. StoreIn(Metric, heap, hdr, call)'
  BY StoreStepIn, MetricClosed
<1>3. \A q \in Callers \ {p} : Asked(q)' = Asked(q)
  BY <1>1 DEF Asked, Status, At
<1>4. \A k : /\ Held' = Held => Stored(k)' = Stored(k)
             /\ Held' = Besides(m) => Stored(k)' = IF k = <<m.id, m.mtype>> THEN Nil ELSE Stored(k)
             /\ Held' = Besides(m) \cup {m} =>
                  Stored(k)' = IF k = <<m.id, m.mtype>> THEN m ELSE Stored(k)
  BY <1>1, <1>2, StoredAfter
<1>5. CASE Quiet(p)
  <2>1. Map' = Map
    BY <1>4, <1>5 DEF Quiet
  <2>2. Reqs' = Reqs
    BY <1>3, <1>5 DEF Quiet
  <2> QED BY <2>1, <2>2 DEF AsMap!vars
<1>6. CASE Lands(p)
  <2>1. /\ Status(p) = "called" /\ Status(p)' = "done"
        /\ call'[p].op = call[p].op /\ call'[p].m = m
    BY <1>6 DEF Lands
  <2>2. ~At(p, "idle") /\ ~At(p, "idle")'
    <3>1. At(p, "idle") => Status(p) = "idle"
      BY DEF Status, At
    <3>2. At(p, "idle")' => Status(p)' = "idle"
      BY DEF Status, At
    <3> HIDE DEF Status
    <3> QED BY <2>1, <3>1, <3>2
  <2>3. Asked(p) = [st |-> "called", op |-> call[p].op, m |-> m, got |-> call[p].got]
    BY <2>1, <2>2 DEF Asked
  <2>4. Asked(p)' = [st |-> "done", op |-> call[p].op, m |-> m, got |-> call'[p].got]
    BY <2>1, <2>2 DEF Asked
  <2>5. /\ Reqs \in [Callers -> {Asked(q) : q \in Callers}]
        /\ Reqs[p] = Asked(p) /\ Reqs[p].st = "called" /\ Reqs[p].op = call[p].op /\ Reqs[p].m = m
    BY <2>3
  <2>6. Reqs' = [Reqs EXCEPT ![p] = [st |-> "done", op |-> call[p].op, m |-> m, got |-> call'[p].got]]
    BY <1>3, <2>4, <2>5
  <2>7. call[p].got = Nil
    BY <2>1 DEF Orderly, CallOrderly, Busy, Status, At
  <2> HIDE DEF m
  <2>8. CASE call[p].op = "get"
    <3>1. Map' = Map
      BY <1>4, <1>6, <2>8 DEF Lands
    <3>2. call'[p].got = Map[<<m.id, m.mtype>>]
      <4>1. <<m.id, m.mtype>> \in Names \X Types
        BY <2>8 DEF m
      <4>2. Map[<<m.id, m.mtype>>] = Stored(<<m.id, m.mtype>>)
        BY <4>1
      <4>3. \/ call'[p].got \in Held /\ SameKey(call'[p].got, m)
            \/ call'[p].got = Nil /\ \A x \in Held : ~SameKey(x, m)
        BY <1>6, <2>8 DEF Lands, m
      <4> QED BY <4>2, <4>3, StoredIs DEF StoredRight, SameKey
    <3>3. Reqs' = [Reqs EXCEPT ![p].st = "done", ![p].got = Map[<<m.id, m.mtype>>]]
      BY <2>3, <2>5, <2>6, <3>2
    <3> QED BY <2>3, <2>5, <2>8, <3>1, <3>3 DEF AsMap!Effect
  <2>9. CASE call[p].op = "upsert"
    <3>1. Held' = Besides(m) \cup {m}
      <4>1. m \in S /\ \A x \in Held : x \in S
        BY <2>1, <2>9 DEF Orderly, CallOrderly, Busy, Status, At, m, Held, Keyed
      <4>2. \A old \in Held : SameKey(old, m) => Overwrite(old, m) = m
        BY <4>1 DEF Replaces
      <4>3. \/ Held' = Held \cup {m} /\ \A x \in Held : ~SameKey(x, m)
            \/ \E old \in Held : /\ SameKey(old, m)
                                 /\ Held' = Besides(m) \cup {Overwrite(old, m)}
        BY <1>6, <2>9 DEF Lands, m
      <4> QED BY <4>2, <4>3 DEF Besides
    <3>2. Map' = [Map EXCEPT ![<<m.id, m.mtype>>] = m]
      BY <1>4, <3>1 DEF m
    <3>3. Reqs' = [Reqs EXCEPT ![p].st = "done"]
      <4>1. call'[p].got = Nil
        BY <1>6, <2>9 DEF Lands
      <4>2. [Asked(p) EXCEPT !.st = "done"]
                = [st |-> "done", op |-> call[p].op, m |-> m, got |-> call'[p].got]
        BY <2>3, <2>7, <4>1
      <4> HIDE DEF Reqs
      <4> QED BY <2>5, <2>6, <4>2
    <3> QED BY <2>3, <2>5, <2>9, <3>2, <3>3 DEF AsMap!Effect
  <2>10. CASE call[p].op = "delete"
    <3>1. Held' = Besides(m)
      BY <1>6, <2>10 DEF Lands, m
    <3>2. Map' = [Map EXCEPT ![<<m.id, m.mtype>>] = Nil]
      BY <1>4, <3>1 DEF m
    <3>3. Reqs' = [Reqs EXCEPT ![p].st = "done"]
      <4>1. call'[p].got = Nil
        BY <1>6, <2>10 DEF Lands
      <4>2. [Asked(p) EXCEPT !.st = "done"]
                = [st |-> "done", op |-> call[p].op, m |-> m, got |-> call'[p].got]
        BY <2>3, <2>7, <4>1
      <4> HIDE DEF Reqs
      <4> QED BY <2>5, <2>6, <4>2
    <3> QED BY <2>3, <2>5, <2>10, <3>2, <3>3 DEF AsMap!Effect
  <2> QED BY <2>8, <2>9, <2>10, <1>6 DEF Lands
<1> QED BY <1>1, <1>5, <1>6

\* A call that starts, or is forgotten once it has returned, is invoked or returns in
\* the map.
LEMMA StartOfMap ==
    ASSUME NEW S, Replaces(S), StoreIn(Metric, heap, hdr, call), Orderly(S),
           NEW p \in Callers, \A q \in Callers : ~Busy(q),
           NEW STATE c, call' = [call EXCEPT ![p] = c], UNCHANGED <<heap, hdr>>,
           StoreIn(Metric, heap, hdr, call)',
           \/ c = NoCall /\ At(p, "done")
           \/ \E op \in {"get", "upsert", "delete"}, m \in Metric :
                c = NewCall(op, m) /\ (op = "upsert" => m \in S)
    PROVE  AsMap!Invoke(p) \/ AsMap!Return(p)
<1> DEFINE Map == [k \in Names \X Types |-> Stored(k)]
           Reqs == [q \in Callers |-> Asked(q)]
<1>1. /\ Orderly(S)' /\ Held' = Held
      /\ call'[p] = c /\ \A q \in Callers \ {p} : call'[q] = call[q]
  BY StartOrderly
<1>2. Map' = Map
  BY <1>1, StoredAfter
<1>3. \A q \in Callers \ {p} : Asked(q)' = Asked(q)
  BY <1>1 DEF Asked, Status, At
<1>4. Reqs[p] = Asked(p) /\ Asked(p).st \in {"idle", "done"} /\ (At(p, "done") => Asked(p).st = "done")
  BY DEF Asked, Status, At, Busy
<1>5. Reqs' = [Reqs EXCEPT ![p] = Asked(p)'] /\ Reqs'[p] = Asked(p)'
  BY <1>3
<1>6. CASE c = NoCall /\ At(p, "done")
  <2>1. Asked(p)' = AsMap!Idle
    BY <1>1, <1>6 DEF Asked, Status, At, NoCall, AsMap!Idle
  <2> QED BY <1>2, <1>4, <1>5, <1>6, <2>1 DEF AsMap!Return
<1>7. ASSUME NEW op \in {"get", "upsert", "delete"}, NEW m \in Metric, c = NewCall(op, m)
      PROVE  AsMap!Invoke(p)
  <2>1. Asked(p)' = [st |-> "called", op |-> op, m |-> m, got |-> Nil]
    BY <1>1, <1>7 DEF Asked, Status, At, NewCall
  <2>2. Reqs'[p] \in AsMap!Calls
    BY <1>5, <2>1 DEF AsMap!Calls
  <2> QED BY <1>2, <1>4, <1>5, <2>2 DEF AsMap!Invoke
<1> QED BY <1>6, <1>7
=============================================================================
