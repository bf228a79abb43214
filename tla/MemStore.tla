------------------------------ MODULE MemStore ------------------------------
(***************************************************************************)
(* The in-memory store (internal/storage/memstore/memory.go): one Go slice *)
(* of metrics shared by every goroutine of the process, with no lock.      *)
(*                                                                         *)
(* A slice is a header (pointer, length) over a backing array whose length *)
(* is its capacity. `append` and element writes are therefore several      *)
(* steps, and goroutines interleave between them.  The steps are those of  *)
(* the compiled code: the header is loaded once per use of store.metrics,  *)
(* append stores the new header before the new element, and stores only    *)
(* the length when the array has room.                                     *)
(*                                                                         *)
(* Abstractions: a header is loaded and stored in one step, an element too *)
(* (no torn words); the hash of a metric is left out, since every reader   *)
(* computes it again; a counter is the formal sum of the contributions     *)
(* (tags) added into it, which determines its int64 value, wrap included.  *)
(***************************************************************************)
EXTENDS Integers, Sequences

CONSTANTS
    Callers,   \* the goroutines that call the store
    Names,     \* metric ids
    Tags,      \* contributions: one per counted increment or measured value
    Nil        \* a nil pointer, and the empty string of a zero metric

VARIABLES
    heap,      \* the backing arrays allocated so far
    hdr,       \* store.metrics: which array, and how much of it is in use
    call       \* per goroutine, the storage call it is executing

storeVars == <<heap, hdr, call>>

Types == {"gauge", "counter"}
Delta == [Tags -> Nat]
Metric == [id : Names \cup {Nil}, mtype : Types \cup {Nil},
           delta : Delta \cup {Nil}, value : Tags \cup {Nil}]
Zero == [id |-> Nil, mtype |-> Nil, delta |-> Nil, value |-> Nil]

ASSUME NilAssumption == Nil \notin Metric \cup Delta \cup Tags \cup Types

Header == [ptr : Nat, len : Nat]
Steps == {"idle", "find", "fetch", "update", "append", "extend", "swap",
          "fill", "shift", "shrink", "done", "panic"}
Call == [pc : Steps, op : {"get", "upsert", "delete"}, m : Metric,
         at : Header, idx : Nat, got : Metric \cup {Nil}]

SameKey(a, b) == a.mtype = b.mtype /\ a.id = b.id

\* Reading and writing position i of array a.  Racing appends and deletes can
\* leave a length longer than the array: past its end is memory of no interest
\* here, which reads as zero metrics and where writes are lost.
CellAt(a, i) == IF i \in DOMAIN heap[a] THEN heap[a][i] ELSE Zero
Written(a, i, m) ==
    IF i \in DOMAIN heap[a] THEN [heap EXCEPT ![a][i] = m] ELSE heap

\* The metrics store.metrics designates now, in order.
Visible == [i \in 1..hdr.len |-> CellAt(hdr.ptr, i)]

NewCall(op, m) == [pc |-> "find", op |-> op, m |-> m, at |-> hdr, idx |-> 1, got |-> Nil]
NoCall == [pc |-> "idle", op |-> "get", m |-> Zero,
           at |-> [ptr |-> 1, len |-> 0], idx |-> 1, got |-> Nil]

\* New(): make([]Metric, 0).
StoreInit ==
    /\ heap = << <<>> >>
    /\ hdr = [ptr |-> 1, len |-> 0]
    /\ call = [p \in Callers |-> NoCall]

At(p, step) == call[p].pc = step
Here(p) == CellAt(call[p].at.ptr, call[p].idx)

-----------------------------------------------------------------------------
(* Find: a value receiver, so it walks the header copied at the call, while *)
(* the elements it compares are the live ones.                              *)

FindNext(p) ==
    /\ At(p, "find")
    /\ call[p].idx <= call[p].at.len
    /\ ~SameKey(Here(p), call[p].m)
    /\ call' = [call EXCEPT ![p].idx = @ + 1]
    /\ UNCHANGED <<heap, hdr>>

FindHit(p) ==
    /\ At(p, "find")
    /\ call[p].idx <= call[p].at.len
    /\ SameKey(Here(p), call[p].m)
    /\ \/ call[p].op = "get"    /\ call' = [call EXCEPT ![p].pc = "fetch"]
       \/ call[p].op = "upsert" /\ call' = [call EXCEPT ![p].pc = "update"]
       \/ call[p].op = "delete" /\ call' = [call EXCEPT ![p].pc = "shift"]
    /\ UNCHANGED <<heap, hdr>>

FindMiss(p) ==
    /\ At(p, "find")
    /\ call[p].idx > call[p].at.len
    /\ \/ call[p].op = "upsert" /\ call' = [call EXCEPT ![p].pc = "append"]
       \/ call[p].op # "upsert" /\ call' = [call EXCEPT ![p].pc = "done"]
    /\ UNCHANGED <<heap, hdr>>

\* Get returns the element as it is by now, through the header it copied.
Fetch(p) ==
    /\ At(p, "fetch")
    /\ call' = [call EXCEPT ![p].pc = "done", ![p].got = Here(p)]
    /\ UNCHANGED <<heap, hdr>>

\* Mutants of Overwrite: the known metric gets its type for an id, the store adds
\* counters that the manager has already added.
WrongField(old, m) == [old EXCEPT !.id = m.mtype]
AddAgain(old, m) ==
    IF old.delta = Nil \/ m.delta = Nil THEN old
    ELSE [old EXCEPT !.delta = [t \in Tags |-> @[t] + m.delta[t]]]

Overwrite(old, m) ==
    CASE m.mtype = "gauge"   -> [old EXCEPT !.value = m.value]
      [] m.mtype = "counter" -> [old EXCEPT !.delta = m.delta]
      [] OTHER               -> old

\* store.metrics[idx] indexes the slice as it is now, not the one Find walked: out
\* of its range the goroutine panics.
InRange(p) == call[p].idx <= hdr.len
Panics(p) == call' = [call EXCEPT ![p].pc = "panic"] /\ UNCHANGED heap

Update(p) ==
    /\ At(p, "update")
    /\ IF InRange(p)
       THEN /\ heap' = Written(hdr.ptr, call[p].idx,
                               Overwrite(CellAt(hdr.ptr, call[p].idx), call[p].m))
            /\ call' = [call EXCEPT ![p].pc = "done"]
       ELSE Panics(p)
    /\ UNCHANGED hdr

-----------------------------------------------------------------------------
(* store.metrics = append(store.metrics, metric) *)

Grown(a) == [i \in 1..(IF a = <<>> THEN 1 ELSE 2 * Len(a)) |->
                IF i <= Len(a) THEN a[i] ELSE Zero]

LoadRoom(p) ==
    /\ At(p, "append")
    /\ hdr.len < Len(heap[hdr.ptr])
    /\ call' = [call EXCEPT ![p].pc = "extend", ![p].at = hdr]
    /\ UNCHANGED <<heap, hdr>>

LoadFull(p) ==
    /\ At(p, "append")
    /\ hdr.len >= Len(heap[hdr.ptr])
    /\ heap' = Append(heap, Grown(heap[hdr.ptr]))
    /\ call' = [call EXCEPT ![p].pc = "swap",
                            ![p].at = [ptr |-> Len(heap) + 1, len |-> hdr.len]]
    /\ UNCHANGED hdr

Extend(p) ==
    /\ At(p, "extend")
    /\ hdr' = [hdr EXCEPT !.len = call[p].at.len + 1]
    /\ call' = [call EXCEPT ![p].pc = "fill"]
    /\ UNCHANGED heap

Swap(p) ==
    /\ At(p, "swap")
    /\ hdr' = [ptr |-> call[p].at.ptr, len |-> call[p].at.len + 1]
    /\ call' = [call EXCEPT ![p].pc = "fill"]
    /\ UNCHANGED heap

Fill(p) ==
    /\ At(p, "fill")
    /\ heap' = Written(call[p].at.ptr, call[p].at.len + 1, call[p].m)
    /\ call' = [call EXCEPT ![p].pc = "done"]
    /\ UNCHANGED hdr

-----------------------------------------------------------------------------
(* Delete: append(store.metrics[:idx], store.metrics[idx+1:]...) moves the  *)
(* tail down in the same array, then stores the shorter header.  The two    *)
(* loads of the header are taken for one, and so is the move: a walk that   *)
(* meets the tail half-way down is left out.                                *)

Shift(p) ==
    /\ At(p, "shift")
    /\ IF InRange(p)
       THEN /\ heap' = [heap EXCEPT ![hdr.ptr] =
                          [i \in DOMAIN @ |-> IF i \in call[p].idx..(hdr.len - 1)
                                              THEN CellAt(hdr.ptr, i + 1) ELSE @[i]]]
            /\ call' = [call EXCEPT ![p].pc = "shrink", ![p].at = hdr]
       ELSE Panics(p)
    /\ UNCHANGED hdr

\* Mutant: the shorter header is dropped.
ShrinkNothing(p) ==
    /\ At(p, "shrink")
    /\ call' = [call EXCEPT ![p].pc = "done"]
    /\ UNCHANGED <<heap, hdr>>

Shrink(p) ==
    /\ At(p, "shrink")
    /\ hdr' = [ptr |-> call[p].at.ptr, len |-> call[p].at.len - 1]
    /\ call' = [call EXCEPT ![p].pc = "done"]
    /\ UNCHANGED heap

StoreStep(p) ==
    \/ FindNext(p) \/ FindHit(p) \/ FindMiss(p) \/ Fetch(p)
    \/ Update(p)
    \/ LoadRoom(p) \/ LoadFull(p) \/ Extend(p) \/ Swap(p) \/ Fill(p)
    \/ Shift(p) \/ Shrink(p)

-----------------------------------------------------------------------------
Counted(t) == [u \in Tags |-> IF u = t THEN 1 ELSE 0]

\* Every variable holds a value of its type, and store.metrics designates an
\* array that exists (memory.go:10-12).
StoreTypeOK ==
    /\ heap \in Seq(Seq(Metric))
    /\ hdr \in [ptr : DOMAIN heap, len : Nat]
    /\ call \in [Callers -> Call]
    /\ \A p \in Callers : call[p].at.ptr \in DOMAIN heap
=============================================================================
