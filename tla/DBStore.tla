------------------------------ MODULE DBStore -------------------------------
(***************************************************************************)
(* The database back end (internal/storage/dbstore/postgres.go): the       *)
(* in-memory store, which Flush writes to a table in one transaction and   *)
(* Restore loads back.  Updates and reads are the memory's.                *)
(*                                                                         *)
(* The table's key is the name alone, so a gauge and a counter of one name *)
(* share a row: its type is that of the last one written, each has its own *)
(* column.  A row written by an open transaction is locked until it ends,  *)
(* and the table shows only what was committed.                            *)
(***************************************************************************)
EXTENDS MemStore

CONSTANTS
    LongNames,     \* the names that do not fit in VARCHAR(50)
    Unnamed,       \* the names CreateMetric refuses: the empty one
    MaxDBErrors    \* bound on the failed statements of a behaviour

ASSUME DBAssumption ==
    LongNames \subseteq Names /\ Unnamed \subseteq Names /\ MaxDBErrors \in Nat

VARIABLES
    table,         \* the committed rows, by name
    open,          \* the process has a usable handle to the database
    tx,            \* per goroutine, the Flush it is executing
    dbErrors       \* failed statements so far

dbVars == <<table, open, tx, dbErrors>>

\* A row has the columns of a metric.
Rows == [Names -> Metric \cup {Nil}]
NoRows == [n \in Names |-> Nil]
Tx == [pc : {"idle", "begin", "list", "next", "exec", "done"},
       at : Header, i : Nat \ {0}, m : Metric, rows : Rows]
NoTx == [pc |-> "idle", at |-> [ptr |-> 1, len |-> 0], i |-> 1, m |-> Zero, rows |-> NoRows]

DBInit ==
    /\ table = NoRows
    /\ open = FALSE
    /\ tx = [p \in Callers |-> NoTx]
    /\ dbErrors = 0

InTx(p, step) == tx[p].pc = step
StartFlush(p) == tx' = [tx EXCEPT ![p] = [NoTx EXCEPT !.pc = "begin"]]

BeginTx(p) ==
    /\ InTx(p, "begin")
    /\ open
    /\ tx' = [tx EXCEPT ![p].pc = "list"]
    /\ UNCHANGED <<table, open, dbErrors>>

\* The two statements are prepared, then the slice is taken, not copied.
GetBatch(p) ==
    /\ InTx(p, "list")
    /\ tx' = [tx EXCEPT ![p].pc = "next", ![p].at = hdr]
    /\ UNCHANGED <<table, open, dbErrors>>

MoreToFlush(p) == tx[p].i <= tx[p].at.len
Storable(m) ==
    \/ m.mtype = "gauge" /\ m.value # Nil
    \/ m.mtype = "counter" /\ m.delta # Nil

\* The loop copies an element; one without a value, or of another type, is skipped.
NextMetric(p) ==
    LET m == CellAt(tx[p].at.ptr, tx[p].i)
    IN  /\ InTx(p, "next") /\ MoreToFlush(p)
        /\ tx' = [tx EXCEPT ![p].pc = IF Storable(m) THEN "exec" ELSE @,
                            ![p].m = m, ![p].i = @ + 1]
        /\ UNCHANGED <<table, open, dbErrors>>

\* INSERT ... ON CONFLICT (name) DO UPDATE sets the type and the type's column.
\* Mutant: a conflict does nothing.
DoNothing(old, m) == IF old = Nil THEN m ELSE old
Put(old, m) ==
    [Overwrite(IF old = Nil THEN [Zero EXCEPT !.id = m.id] ELSE old, m) EXCEPT !.mtype = m.mtype]

Seen(p) == [n \in Names |-> IF tx[p].rows[n] = Nil THEN table[n] ELSE tx[p].rows[n]]
Locked(n, p) == \E q \in Callers \ {p} : tx[q].rows[n] # Nil

Exec(p) ==
    LET m == tx[p].m
    IN  /\ InTx(p, "exec")
        /\ m.id \notin LongNames /\ ~Locked(m.id, p)
        /\ tx' = [tx EXCEPT ![p].pc = "next", ![p].rows[m.id] = Put(Seen(p)[m.id], m)]
        /\ UNCHANGED <<table, open, dbErrors>>

Commit(p) ==
    /\ InTx(p, "next") /\ ~MoreToFlush(p)
    /\ table' = Seen(p)
    /\ tx' = [tx EXCEPT ![p] = [NoTx EXCEPT !.pc = "done"]]
    /\ UNCHANGED <<open, dbErrors>>

\* An error ends the flush, and the deferred Rollback gives up its writes.
RollBack(p) == tx' = [tx EXCEPT ![p] = [NoTx EXCEPT !.pc = "done"]]

\* A name too long, or a handle that New has closed, fails every time.
Refused(p) ==
    /\ \/ InTx(p, "exec") /\ tx[p].m.id \in LongNames
       \/ InTx(p, "begin") /\ ~open
    /\ RollBack(p)
    /\ UNCHANGED <<table, open, dbErrors>>

DBError == dbErrors < MaxDBErrors /\ dbErrors' = dbErrors + 1

\* Any statement may fail: the connection breaks, the database is down or ends
\* one of two transactions that wait for each other.  A COMMIT whose answer is
\* lost may have been carried out.
StatementFails(p) ==
    /\ DBError
    /\ \/ tx[p].pc \in {"begin", "list", "exec"} /\ UNCHANGED table
       \/ InTx(p, "next") /\ ~MoreToFlush(p) /\ table' \in {table, Seen(p)}
    /\ RollBack(p)
    /\ UNCHANGED open

FlushStep(p) ==
    \/ BeginTx(p) \/ GetBatch(p) \/ NextMetric(p) \/ Exec(p) \/ Commit(p)
    \/ Refused(p) \/ StatementFails(p)

\* CreateMetric takes a name and a type that are not empty; a row always has its type.
Creatable(n) == n \notin Unnamed

\* The metric Restore makes of a row: the column of its type, the other left out.
\* Mutant: the row's type is not looked at.
AnyColumn(row) == [row EXCEPT !.mtype = "gauge"]
Restored(row) ==
    [row EXCEPT !.delta = IF row.mtype = "counter" THEN @ ELSE Nil,
                !.value = IF row.mtype = "gauge" THEN @ ELSE Nil]

DBTypeOK ==
    /\ table \in Rows /\ open \in BOOLEAN /\ dbErrors \in Nat
    /\ tx \in [Callers -> Tx]
=============================================================================
