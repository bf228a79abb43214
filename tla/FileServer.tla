----------------------------- MODULE FileServer -----------------------------
(***************************************************************************)
(* The server process with the file back end (cmd/server/main.go): it      *)
(* restores the file, serves requests through the manager, saves the       *)
(* metrics after each request (interval 0) or by a ticker, and stops on a  *)
(* signal or dies; the next process starts from what is on disk.           *)
(***************************************************************************)
EXTENDS MetricsManager, FileStorage

CONSTANTS
    Main,        \* the goroutine that restores at start, then runs the ticker
    SyncFlush,   \* TRUE iff the store interval is 0
    Restore,     \* the -r flag: load the file at start
    MaxExits     \* bound on the times the process stops or dies

ASSUME ServerAssumption ==
    /\ Main \in Callers \ Requests
    /\ SyncFlush \in BOOLEAN /\ Restore \in BOOLEAN /\ MaxExits \in Nat

VARIABLES
    srv,         \* the process: its phase, and how many metrics it restored
    exits,       \* how many processes have ended
    overlapped   \* whether two requests have ever been open at once

vars == <<heap, hdr, call, st, file, flush, ioErrors, srv, exits, overlapped>>

Phases == {"down", "stopped", "restoring", "up"}
Up == srv.pc = "up"

Init ==
    /\ ManagerInit /\ FileInit
    /\ srv = [pc |-> "down", n |-> 0]
    /\ exits = 0
    /\ overlapped = FALSE

\* main builds the storage and the manager, whose constructor restores before
\* the ticker starts and before any port is open.
Boot ==
    /\ srv.pc \in {"down", "stopped"}
    /\ srv' = [pc |-> IF Restore /\ Loadable # <<>> THEN "restoring" ELSE "up", n |-> 0]
    /\ UNCHANGED <<managerVars, fileVars, exits, overlapped>>

\* Restore upserts the metrics it decoded, one after another.
LoadNext ==
    /\ srv.pc = "restoring" /\ srv.n < Len(Loadable)
    /\ At(Main, "idle") \/ At(Main, "done")
    /\ Calls(Main, "upsert", Loadable[srv.n + 1])
    /\ srv' = [srv EXCEPT !.n = @ + 1]
    /\ UNCHANGED <<heap, hdr, st, fileVars, exits, overlapped>>

LoadStep ==
    /\ srv.pc = "restoring"
    /\ StoreStep(Main)
    /\ UNCHANGED <<st, fileVars, srv, exits, overlapped>>

Loaded ==
    /\ srv.pc = "restoring" /\ srv.n = Len(Loadable)
    /\ At(Main, "done")
    /\ call' = [call EXCEPT ![Main] = NoCall]
    /\ srv' = [srv EXCEPT !.pc = "up"]
    /\ UNCHANGED <<heap, hdr, st, fileVars, exits, overlapped>>

Accept(r) ==
    /\ Up
    /\ Receive(r)
    /\ overlapped' = (overlapped \/ InFlight # {})
    /\ UNCHANGED <<fileVars, srv, exits>>

\* A goroutine of the server serves a request.
Serve(r) ==
    /\ Up
    /\ RequestStep(r) \/ (StoreStep(r) /\ UNCHANGED st)
    /\ UNCHANGED <<fileVars, srv, exits, overlapped>>

\* Mutants: every update flushes; the answer does not wait for the flush.
AlwaysNow == TRUE
NotAwaited(r) == TRUE

\* Flush of the manager: a storage flush if the interval is 0, else nothing.
FlushesNow == SyncFlush
Flushed(r) == FlushesNow => Flushing(r, "done")

FlushAfterUpdate(r) ==
    /\ Up /\ FlushesNow
    /\ In(r, "flush") /\ Flushing(r, "idle")
    /\ StartFlush(r)
    /\ UNCHANGED <<managerVars, file, ioErrors, srv, exits, overlapped>>

\* The answer is 200 whether or not the flush succeeded.
Answer(r) ==
    /\ Up
    /\ Flushed(r)
    /\ Reply(r)
    /\ flush' = [flush EXCEPT ![r] = NoFlush]
    /\ UNCHANGED <<file, ioErrors, srv, exits, overlapped>>

\* Mutant: the loop of the ticker ends after its first flush.
TickOnce ==
    /\ Up /\ ~SyncFlush
    /\ Flushing(Main, "idle")
    /\ StartFlush(Main)
    /\ UNCHANGED <<managerVars, file, ioErrors, srv, exits, overlapped>>

Tick ==
    /\ Up /\ ~SyncFlush
    /\ Flushing(Main, "idle") \/ Flushing(Main, "done")
    /\ StartFlush(Main)
    /\ UNCHANGED <<managerVars, file, ioErrors, srv, exits, overlapped>>

FlushProgress(p) ==
    /\ Up
    /\ FlushStep(p)
    /\ UNCHANGED <<managerVars, srv, exits, overlapped>>

MemoryLost == heap' = << <<>> >> /\ hdr' = [ptr |-> 1, len |-> 0]

GoroutinesEnd ==
    /\ call' = [p \in Callers |-> NoCall]
    /\ flush' = [p \in Callers |-> NoFlush]

\* The end of a process takes its memory and its goroutines; a request it was
\* serving gets no answer.
EndProcess(phase) ==
    /\ exits < MaxExits
    /\ exits' = exits + 1
    /\ srv' = [pc |-> phase, n |-> 0]
    /\ MemoryLost /\ GoroutinesEnd
    /\ st' = [r \in Requests |-> IF r \in InFlight THEN [st[r] EXCEPT !.pc = "aborted"] ELSE st[r]]
    /\ UNCHANGED <<file, ioErrors, overlapped>>

Crash == srv.pc \in {"restoring", "up"} /\ EndProcess("down")

\* On a signal main waits for the open requests and returns.  One that takes more
\* than 2 s, or that came over gRPC, is cut off: that end is a Crash.
Shutdown == Up /\ InFlight = {} /\ EndProcess("stopped")

Next ==
    \/ Boot \/ LoadNext \/ LoadStep \/ Loaded
    \/ \E r \in Requests : Accept(r) \/ Serve(r) \/ FlushAfterUpdate(r) \/ Answer(r)
    \/ Tick
    \/ \E p \in Callers : FlushProgress(p)
    \/ Crash \/ Shutdown

Spec == Init /\ [][Next]_vars

\* Goroutines that can run are scheduled, and the ticker ticks while the
\* process lives.  Nothing obliges a client to send or a process to end.
Fairness ==
    /\ WF_vars(Boot) /\ WF_vars(LoadNext \/ LoadStep \/ Loaded)
    /\ WF_vars(Tick) /\ WF_vars(FlushProgress(Main))
    /\ \A r \in Requests :
        WF_vars(Serve(r) \/ FlushAfterUpdate(r) \/ FlushProgress(r) \/ Answer(r))
FairSpec == Spec /\ Fairness

-----------------------------------------------------------------------------
\* The process is in one of its phases, and only main's goroutine restores.
ServerTypeOK ==
    /\ ManagerTypeOK /\ FileTypeOK
    /\ srv \in [pc : Phases, n : Nat] /\ exits \in Nat /\ overlapped \in BOOLEAN

\* Across interleavings, flushes, failed writes, crashes and restarts, no
\* counter in memory or on disk counts one reported item twice, and none counts
\* an item that was rejected: Restore stores the saved value, it does not add it.
CountsOnce ==
    /\ CountedAtMostOnce
    /\ \A j \in 1..Len(file.data) : Once(file.data[j])

\* No gauge that JSON cannot hold has been sent: one such, and every flush ends
\* after truncating the file (file.go:60-63).
AllFinite ==
    \A r \in Requests : \A i \in 1..Len(st[r].body) :
        st[r].body[i].mtype = "gauge" => <<r, i>> \notin NotFinite

\* Requests one at a time, finite gauges, and no failed open or write.
Clean == ~overlapped /\ ioErrors = 0 /\ AllFinite

\* No batch has ended half-way.  One that is rejected after its first item, or that
\* meets a counter without its delta, is not flushed, and what it has stored waits
\* for the next one that is (manager.go:97, 141-163).
NoHalfBatch ==
    \A r \in Requests : /\ In(r, "rejected") => st[r].i = 1
                       /\ \A i \in 1..Len(st[r].body) : st[r].body[i].data

\* With interval 0, and as long as a start reads the whole file back, the file of
\* a live server that has no request open holds what its memory holds: every
\* accepted update was flushed before its answer, and a restart loads what the file
\* kept (manager.go:120-163, 216-223).
FileMirrorsMemory ==
    /\ SyncFlush /\ Clean /\ NoHalfBatch
    /\ Restore /\ Len(file.data) <= ScanLimit
    /\ Up /\ InFlight = {}
    => file.data = Visible

\* A flush that neither fails nor is raced by another leaves a file that decodes:
\* with a positive interval only the ticker flushes (manager.go:70-85, 216-223).
NeverTorn == ioErrors = 0 => file.kind # "torn"

Saved(t) ==
    \E j \in 1..Len(file.data) :
        /\ file.data[j].id = st[t[1]].body[t[2]].id
        /\ file.data[j].mtype = "counter"
        /\ file.data[j].delta # Nil
        /\ file.data[j].delta[t] = 1
AllSaved(r) == \A i \in 1..Len(st[r].body) : Counter(r, i) => Saved(<<r, i>>)

\* A server that was stopped by a signal has every acknowledged counter on disk.
SavedAtStop ==
    srv.pc = "stopped" => \A r \in Requests : In(r, "ok") => AllSaved(r)

\* With interval 0 the first process has, for clients that wait and finite gauges, if
\* no open or write failed; a crash may take the file before the next one starts.
SavedAtCleanStop == SyncFlush /\ Clean /\ exits <= 1 => SavedAtStop

\* A file that Restore reads back whole: a longer line ends its Scanner.
Readable == file.kind = "whole" /\ Len(file.data) <= ScanLimit

\* An acknowledged counter then survives a stop, and a crash too unless it falls
\* between the truncation of the file and the write (file.go:43, 69): that window,
\* which leaves no complete file, is the only one.
AcknowledgedSurvives ==
    [][~Up /\ Up' /\ Restore /\ SyncFlush /\ Clean /\ Readable /\ exits <= 1
        => AcknowledgedKept']_vars

\* A process that finds a complete file starts with exactly its metrics, in its
\* order, when no append has been raced: Restore upserts what Flush marshalled, and
\* a metric that was saved twice is merged (file.go:85-98).  The ticker races them: it
\* may save the slot an append has published and not filled.
RestoreLoadsFile ==
    [][~Up /\ Up' /\ Restore /\ SyncFlush /\ Readable /\ ~overlapped
        => Visible' = file.data]_vars

\* With a positive interval, what a server acknowledged is on disk some time
\* later, if the server lives and gauges are finite (flushByTick, manager.go:70-85).
EventuallySaved == \A r \in Requests : In(r, "ok") ~> AllSaved(r) \/ ~AllFinite
=============================================================================
