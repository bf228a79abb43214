----------------------------- MODULE StoreAsMap -----------------------------
(* The slice of MemStore as the map of Repository, for the components that  *)
(* call it.                                                                 *)
EXTENDS MemStore

Listed(k) == {i \in 1..hdr.len : <<Visible[i].id, Visible[i].mtype>> = k}

\* The abstract value of a key: the metric Find would stop at.  The last slot
\* does not count while a delete has moved the tail and not yet shortened the
\* header, and while an append has extended it and not yet filled the slot
\* (which then still holds whatever an earlier delete left there).
LastInUse ==
    IF \E p \in Callers : At(p, "shrink") \/ At(p, "fill") THEN hdr.len - 1 ELSE hdr.len
Stored(k) ==
    LET hits == {i \in Listed(k) : i <= LastInUse}
    IN  IF hits = {} THEN Nil ELSE Visible[CHOOSE i \in hits : \A j \in hits : i <= j]

Status(p) ==
    CASE At(p, "idle")               -> "idle"
      [] call[p].pc \in {"done", "shrink"} -> "done"
      [] OTHER                       -> "called"
Asked(p) ==
    [st |-> Status(p), op |-> IF At(p, "idle") THEN Nil ELSE call[p].op,
     m |-> IF At(p, "idle") THEN Nil ELSE call[p].m, got |-> call[p].got]

AsMap == INSTANCE Repository WITH
    Inputs <- Metric,
    store <- [k \in Names \X Types |-> Stored(k)],
    req <- [p \in Callers |-> Asked(p)]

\* The slice behaves as an atomic map, if its callers take turns: Get finds what the
\* last Upsert of the key left (memory.go:33-110).
BehavesAsMap == AsMap!Spec
=============================================================================
