------------------------------ MODULE DBServer ------------------------------
(***************************************************************************)
(* The server process with the database back end (cmd/server/main.go): it  *)
(* migrates and restores the table when the storage is built, restores it  *)
(* again if asked to, serves requests through the manager and saves the    *)
(* metrics before each answer, whatever the configured interval.           *)
(***************************************************************************)
EXTENDS MetricsManager, DBStore

CONSTANTS
    Main,        \* the goroutine that builds and restores the storage
    Restore,     \* the -r flag
    MaxExits     \* bound on the times the process stops or dies

ASSUME ServerAssumption ==
    Main \in Callers \ Requests /\ Restore \in BOOLEAN /\ MaxExits \in Nat

VARIABLES
    srv,         \* the process: its phase, the restores still to do, the rows to load
    exits,       \* how many processes have ended
    overlapped   \* whether two requests have ever been open at once

vars == <<heap, hdr, call, st, table, open, tx, dbErrors, srv, exits, overlapped>>

Phases == {"down", "stopped", "migrating", "querying", "restoring", "up"}
Up == srv.pc = "up"
Srv == [pc : Phases, passes : 0..2, todo : SUBSET Names]

Init ==
    /\ ManagerInit /\ DBInit
    /\ srv = [pc |-> "down", passes |-> 0, todo |-> {}]
    /\ exits = 0
    /\ overlapped = FALSE

-----------------------------------------------------------------------------
(* Start: dbstore.New restores in any case, the manager's New if -r is set. *)

Boot ==
    /\ srv.pc \in {"down", "stopped"}
    /\ srv' = [pc |-> "migrating", passes |-> IF Restore THEN 2 ELSE 1, todo |-> {}]
    /\ UNCHANGED <<managerVars, dbVars, exits, overlapped>>

\* A migration that fails closes the handle, and New goes on with it closed.
Migrate ==
    /\ srv.pc = "migrating"
    /\ srv' = [srv EXCEPT !.pc = "querying"]
    /\ \/ open' = TRUE /\ UNCHANGED dbErrors
       \/ DBError /\ open' = FALSE
    /\ UNCHANGED <<managerVars, table, tx, exits, overlapped>>

Query ==
    /\ srv.pc = "querying" /\ open
    /\ srv' = [srv EXCEPT !.pc = "restoring", !.todo = {n \in Names : table[n] # Nil}]
    /\ UNCHANGED <<managerVars, dbVars, exits, overlapped>>

AfterRestore == [pc |-> IF srv.passes = 1 THEN "up" ELSE "querying",
                 passes |-> srv.passes - 1, todo |-> {}]
Free == At(Main, "idle") \/ At(Main, "done")

\* The rows come in no particular order.
LoadNext ==
    /\ srv.pc = "restoring" /\ Free
    /\ \E n \in srv.todo :
        /\ Creatable(n)
        /\ Calls(Main, "upsert", Restored(table[n]))
        /\ srv' = [srv EXCEPT !.todo = @ \ {n}]
    /\ UNCHANGED <<heap, hdr, st, dbVars, exits, overlapped>>

\* A row of which no metric can be made is logged and left out.
SkipRow ==
    /\ srv.pc = "restoring" /\ Free
    /\ \E n \in srv.todo :
        /\ ~Creatable(n)
        /\ srv' = [srv EXCEPT !.todo = @ \ {n}]
    /\ UNCHANGED <<managerVars, dbVars, exits, overlapped>>

LoadStep ==
    /\ srv.pc = "restoring"
    /\ StoreStep(Main)
    /\ UNCHANGED <<st, dbVars, srv, exits, overlapped>>

Loaded ==
    /\ srv.pc = "restoring" /\ Free /\ srv.todo = {}
    /\ srv' = AfterRestore
    /\ call' = [call EXCEPT ![Main] = NoCall]
    /\ UNCHANGED <<heap, hdr, st, dbVars, exits, overlapped>>

\* The query fails, or the connection breaks half-way: the error is logged, and
\* the server goes on with the rows it has.
LoadFails ==
    /\ \/ srv.pc = "querying" /\ (DBError \/ (~open /\ UNCHANGED dbErrors))
       \/ srv.pc = "restoring" /\ Free /\ srv.todo # {} /\ DBError
    /\ srv' = AfterRestore
    /\ call' = [call EXCEPT ![Main] = NoCall]
    /\ UNCHANGED <<heap, hdr, st, table, open, tx, exits, overlapped>>

-----------------------------------------------------------------------------
(* Service *)

Accept(r) ==
    /\ Up
    /\ Receive(r)
    /\ overlapped' = (overlapped \/ InFlight # {})
    /\ UNCHANGED <<dbVars, srv, exits>>

Serve(r) ==
    /\ Up
    /\ RequestStep(r) \/ (StoreStep(r) /\ UNCHANGED st)
    /\ UNCHANGED <<dbVars, srv, exits, overlapped>>

FlushAfterUpdate(r) ==
    /\ Up
    /\ In(r, "flush") /\ InTx(r, "idle")
    /\ StartFlush(r)
    /\ UNCHANGED <<managerVars, table, open, dbErrors, srv, exits, overlapped>>

FlushProgress(r) ==
    /\ Up
    /\ FlushStep(r)
    /\ UNCHANGED <<managerVars, srv, exits, overlapped>>

\* Mutant: the answer does not wait for the flush.
NotAwaited(r) == TRUE
Flushed(r) == InTx(r, "done")

\* The answer is 200 whether or not the flush succeeded.
Answer(r) ==
    /\ Up
    /\ Flushed(r)
    /\ Reply(r)
    /\ tx' = [tx EXCEPT ![r] = NoTx]
    /\ UNCHANGED <<table, open, dbErrors, srv, exits, overlapped>>

\* The end of a process takes its memory, its goroutines and the transactions
\* they have open; a request it was serving gets no answer.
EndProcess(phase) ==
    /\ exits < MaxExits
    /\ exits' = exits + 1
    /\ srv' = [pc |-> phase, passes |-> 0, todo |-> {}]
    /\ heap' = << <<>> >> /\ hdr' = [ptr |-> 1, len |-> 0]
    /\ call' = [p \in Callers |-> NoCall]
    /\ tx' = [p \in Callers |-> NoTx]
    /\ open' = FALSE
    /\ st' = [r \in Requests |-> IF r \in InFlight THEN [st[r] EXCEPT !.pc = "aborted"] ELSE st[r]]
    /\ UNCHANGED <<table, dbErrors, overlapped>>

Crash == srv.pc \notin {"down", "stopped"} /\ EndProcess("down")
Shutdown == Up /\ InFlight = {} /\ EndProcess("stopped")

Next ==
    \/ Boot \/ Migrate \/ Query
    \/ LoadNext \/ SkipRow \/ LoadStep \/ Loaded \/ LoadFails
    \/ \E r \in Requests :
        Accept(r) \/ Serve(r) \/ FlushAfterUpdate(r) \/ FlushProgress(r) \/ Answer(r)
    \/ Crash \/ Shutdown

Spec == Init /\ [][Next]_vars

-----------------------------------------------------------------------------
\* The process is in one of its phases and every variable has its type.
DBServerTypeOK ==
    /\ ManagerTypeOK /\ DBTypeOK
    /\ srv \in Srv /\ exits \in Nat /\ overlapped \in BOOLEAN

\* Across interleavings, transactions, failed statements, crashes and restarts
\* (two restores each), no counter in memory or in the table counts one reported
\* item twice, and none counts an item that was rejected.
RowsCountOnce ==
    /\ CountedAtMostOnce
    /\ \A n \in Names : table[n] # Nil => Once(table[n])

\* What memory holds of a metric, its row holds too.
InRow(m) ==
    Storable(m) =>
        /\ table[m.id] # Nil
        /\ m.mtype = "gauge" => table[m.id].value = m.value
        /\ m.mtype = "counter" => table[m.id].delta = m.delta

\* As long as requests do not overlap, a flush that commits brings the table up to
\* the memory, whatever failed before it and whichever names share a row
\* (postgres.go:101-178).
CommitSavesAll ==
    [][\A r \in Requests : Commit(r) /\ ~overlapped =>
           \A j \in 1..hdr.len : InRow(Visible[j])']_vars

\* The conditions under which a database keeps what is acknowledged: requests one
\* at a time, no failed statement, no name with two types, and none stored that is
\* too long for a row, or empty, which Restore leaves out of the memory and the
\* next update then overwrites in the table (postgres.go:207-211).
Bodily(r) == {st[r].body[i] : i \in 1..Len(st[r].body)}
Received == UNION {Bodily(r) : r \in Requests}
OneTypePerName == \A a, b \in Received : a.id = b.id => a.mtype = b.mtype
Clean ==
    /\ ~overlapped /\ dbErrors = 0
    /\ OneTypePerName
    /\ \A a \in Received : a.id \notin LongNames \cup Unnamed

\* Then, unlike in the file, there is no moment at which a crash loses a counter
\* that was acknowledged: it is in the table from before the answer on, and in
\* the memory of every process that serves.
AcknowledgedInTable ==
    Clean => \A r \in Requests : In(r, "ok") => \A i \in 1..Len(st[r].body) :
        Counter(r, i) =>
            LET row == table[st[r].body[i].id]
            IN  row # Nil /\ row.delta # Nil /\ row.delta[<<r, i>>] = 1
AcknowledgedServed == Clean /\ Up => AcknowledgedKept
=============================================================================
