---------------------------- MODULE FileStorage -----------------------------
(***************************************************************************)
(* The file back end (internal/storage/filestorage/file.go): the in-memory *)
(* store, which Flush writes to a JSON file and Restore loads back.  Every *)
(* other operation is the memory's.                                        *)
(*                                                                         *)
(* Flush is not atomic: it opens the file with O_TRUNC, then takes the     *)
(* slice (it does not copy it), encodes its elements one after another     *)
(* while others may change them, and writes the result in one system call. *)
(***************************************************************************)
EXTENDS MemStore

CONSTANTS
    NotFinite,     \* the gauges that are NaN or infinite, which JSON cannot hold
    ScanLimit,     \* how many metrics fit in the longest line a Scanner reads
    MaxIOErrors    \* bound on the failed opens and writes of a behaviour

ASSUME FileAssumption ==
    NotFinite \subseteq Tags /\ ScanLimit \in Nat /\ MaxIOErrors \in Nat

VARIABLES
    file,          \* what is on disk
    flush,         \* per goroutine, the Flush it is executing
    ioErrors       \* failed opens and writes so far

fileVars == <<file, flush, ioErrors>>

File == [kind : {"none", "empty", "whole", "torn"}, data : Seq(Metric)]
FlushCall == [pc : {"idle", "open", "list", "marshal", "done"},
              at : Header, data : Seq(Metric)]
NoFlush == [pc |-> "idle", at |-> [ptr |-> 1, len |-> 0], data |-> <<>>]
Holding(kind) == [kind |-> kind, data |-> <<>>]

FileInit ==
    /\ file = Holding("none")
    /\ flush = [p \in Callers |-> NoFlush]
    /\ ioErrors = 0

Flushing(p, step) == flush[p].pc = step
StartFlush(p) == flush' = [flush EXCEPT ![p] = [NoFlush EXCEPT !.pc = "open"]]

OpenTrunc(p) ==
    /\ Flushing(p, "open")
    /\ file' = Holding("empty")
    /\ flush' = [flush EXCEPT ![p].pc = "list"]
    /\ UNCHANGED ioErrors

GetBatch(p) ==
    /\ Flushing(p, "list")
    /\ flush' = [flush EXCEPT ![p].pc = "marshal", ![p].at = hdr]
    /\ UNCHANGED <<file, ioErrors>>

\* Mutant: the last element is forgotten.
MoreButLast(p) == Len(flush[p].data) + 1 < flush[p].at.len
MoreToMarshal(p) == Len(flush[p].data) < flush[p].at.len

NextCell(p) == CellAt(flush[p].at.ptr, Len(flush[p].data) + 1)

Marshal(p) ==
    /\ Flushing(p, "marshal") /\ MoreToMarshal(p)
    /\ NextCell(p).value \notin NotFinite
    /\ flush' = [flush EXCEPT ![p].data = Append(@, NextCell(p))]
    /\ UNCHANGED <<file, ioErrors>>

\* An element that JSON cannot hold ends the flush after the truncation.
MarshalFails(p) ==
    /\ Flushing(p, "marshal") /\ MoreToMarshal(p)
    /\ NextCell(p).value \in NotFinite
    /\ flush' = [flush EXCEPT ![p].pc = "done"]
    /\ UNCHANGED <<file, ioErrors>>

\* Each flush writes at offset 0 of its own descriptor.  If another one wrote
\* since this one truncated, and wrote more, the end of the longer text stays
\* behind this one's: the lengths are not modelled, so either may happen.
Write(p) ==
    LET mine == [kind |-> "whole", data |-> flush[p].data]
    IN  /\ Flushing(p, "marshal")
        /\ ~MoreToMarshal(p)
        /\ \/ file' = mine
           \/ file.kind # "empty" /\ file # mine /\ file' = Holding("torn")
        /\ flush' = [flush EXCEPT ![p].pc = "done"]
        /\ UNCHANGED ioErrors

\* A failed open leaves the file alone, a failed write leaves part of the text.
IOError(p) ==
    /\ ioErrors < MaxIOErrors
    /\ ioErrors' = ioErrors + 1
    /\ \/ Flushing(p, "open") /\ UNCHANGED file
       \/ /\ Flushing(p, "marshal")
          /\ ~MoreToMarshal(p)
          /\ file' \in {file, Holding("torn")}
    /\ flush' = [flush EXCEPT ![p].pc = "done"]

FlushStep(p) ==
    \/ OpenTrunc(p) \/ GetBatch(p) \/ Marshal(p) \/ MarshalFails(p)
    \/ Write(p) \/ IOError(p)

\* Mutant: the first metric of the file is skipped.
LoadableTail ==
    IF file.kind = "whole" /\ file.data # <<>> THEN Tail(file.data) ELSE <<>>

\* What Restore gets out of the file.  No file is an error; an empty one has no
\* line; a torn one does not decode; a line longer than the Scanner's buffer
\* ends the loop, and its error is not looked at.
Loadable ==
    IF file.kind = "whole" /\ Len(file.data) <= ScanLimit THEN file.data ELSE <<>>

FileTypeOK == file \in File /\ flush \in [Callers -> FlushCall] /\ ioErrors \in Nat
=============================================================================
