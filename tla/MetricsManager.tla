--------------------------- MODULE MetricsManager ---------------------------
(***************************************************************************)
(* The server's manager (internal/server/manager.go) over the in-memory    *)
(* store: every HTTP or gRPC request runs on a goroutine of its own, checks *)
(* the signature of each metric it carries, adds a counter to the value    *)
(* the store knows, and stores the result.  Nothing orders the steps of    *)
(* two requests.                                                           *)
(*                                                                         *)
(* A single update is a batch of one: Upsert and UpsertBatch differ in the *)
(* wording of their errors only.                                           *)
(***************************************************************************)
EXTENDS MemStore, FiniteSets

CONSTANTS
    Requests,      \* update requests, each served by its own goroutine
    Bodies,        \* what a request may carry: sequences of items
    SignKey,       \* TRUE iff a signing key is configured
    MaxInFlight    \* how many requests the clients keep open at a time

\* An item has an id, a type (Nil: one the server does not know), tells whether
\* its value is present, and whether its hash is the one the server computes.
Item == [id : Names, mtype : Types \cup {Nil}, data : BOOLEAN, sig : BOOLEAN]

ASSUME ManagerAssumption ==
    /\ Requests \subseteq Callers
    /\ Tags \subseteq Requests \X (Nat \ {0})
    /\ \A b \in Bodies : b \in Seq(Item)
    /\ \A b \in Bodies, r \in Requests : \A i \in 1..Len(b) : <<r, i>> \in Tags
    /\ SignKey \in BOOLEAN

VARIABLE st        \* per request: its step, its body, the item it is at

managerVars == <<heap, hdr, call, st>>

Outcomes == {"ok", "rejected", "aborted"}
Working == {"item", "known", "store", "flush"}

ManagerInit ==
    /\ StoreInit
    /\ st = [r \in Requests |-> [pc |-> "new", body |-> <<>>, i |-> 1]]

In(r, step) == st[r].pc = step
Current(r) == st[r].body[st[r].i]
MoreItems(r) == st[r].i <= Len(st[r].body)
InFlight == {r \in Requests : st[r].pc \in Working}

\* The metric the current item decodes to; it contributes the tag <<r, i>>.
Reported(r) ==
    LET it == Current(r)
        t == <<r, st[r].i>>
    IN  [id |-> it.id, mtype |-> it.mtype,
         delta |-> IF it.mtype = "counter" /\ it.data THEN Counted(t) ELSE Nil,
         value |-> IF it.mtype = "gauge" /\ it.data THEN t ELSE Nil]

\* verifySign: without a key everything passes; with one, Sign fails on a value
\* that is absent or a type that is unknown.
Verified(it) == SignKey => it.data /\ it.mtype \in Types /\ it.sig

\* Mutant of Sum: the known value is left out.
NewOnly(a, b) == a
Sum(a, b) == [t \in Tags |-> a[t] + b[t]]

Calls(r, op, m) == call' = [call EXCEPT ![r] = NewCall(op, m)]
Goto(r, step) == st' = [st EXCEPT ![r].pc = step]

Receive(r) ==
    /\ In(r, "new")
    /\ Cardinality(InFlight) < MaxInFlight
    /\ \E b \in Bodies : st' = [st EXCEPT ![r].pc = "item", ![r].body = b]
    /\ UNCHANGED <<heap, hdr, call>>

Reject(r) ==
    /\ In(r, "item") /\ MoreItems(r)
    /\ ~Verified(Current(r))
    /\ Goto(r, "rejected")
    /\ UNCHANGED <<heap, hdr, call>>

StoreOther(r) ==
    /\ In(r, "item") /\ MoreItems(r)
    /\ Verified(Current(r))
    /\ Current(r).mtype # "counter"
    /\ Calls(r, "upsert", Reported(r))
    /\ Goto(r, "store")
    /\ UNCHANGED <<heap, hdr>>

\* accumulateCounter asks for the known counter, by its key...
AskKnown(r) ==
    /\ In(r, "item") /\ MoreItems(r)
    /\ Verified(Current(r))
    /\ Current(r).mtype = "counter"
    /\ Calls(r, "get", [Reported(r) EXCEPT !.delta = Nil])
    /\ Goto(r, "known")
    /\ UNCHANGED <<heap, hdr>>

\* ... and adds it to the reported delta; both pointers are dereferenced.
Accumulate(r) ==
    LET new == Reported(r)
        old == call[r].got
    IN  /\ In(r, "known") /\ At(r, "done")
        /\ \/ old = Nil /\ Calls(r, "upsert", new)
           \/ /\ old # Nil /\ old.delta # Nil /\ new.delta # Nil
              /\ Calls(r, "upsert", [new EXCEPT !.delta = Sum(new.delta, old.delta)])
        /\ Goto(r, "store")
        /\ UNCHANGED <<heap, hdr>>

NilDelta(r) ==
    /\ In(r, "known") /\ At(r, "done")
    /\ call[r].got # Nil
    /\ call[r].got.delta = Nil \/ Reported(r).delta = Nil
    /\ Goto(r, "aborted")
    /\ UNCHANGED <<heap, hdr, call>>

\* A panic in the store ends the request without an answer.
Abort(r) ==
    /\ st[r].pc \in {"known", "store"} /\ At(r, "panic")
    /\ Goto(r, "aborted")
    /\ UNCHANGED <<heap, hdr, call>>

NextItem(r) ==
    /\ In(r, "store") /\ At(r, "done")
    /\ st' = [st EXCEPT ![r].pc = "item", ![r].i = @ + 1]
    /\ call' = [call EXCEPT ![r] = NoCall]
    /\ UNCHANGED <<heap, hdr>>

\* After the last item the manager flushes (a failure is only logged)...
AllStored(r) ==
    /\ In(r, "item") /\ ~MoreItems(r)
    /\ Goto(r, "flush")
    /\ UNCHANGED <<heap, hdr, call>>

\* ... and the request is answered 200.
Reply(r) ==
    /\ In(r, "flush")
    /\ Goto(r, "ok")
    /\ UNCHANGED <<heap, hdr, call>>

RequestStep(r) ==
    \/ Reject(r) \/ StoreOther(r) \/ AskKnown(r) \/ Accumulate(r)
    \/ NilDelta(r) \/ Abort(r) \/ NextItem(r) \/ AllStored(r)

ManagerNext ==
    \E r \in Requests :
        \/ Receive(r) \/ RequestStep(r) \/ Reply(r)
        \/ StoreStep(r) /\ UNCHANGED st

\* With the memory back end Flush does nothing.
ManagerSpec == ManagerInit /\ [][ManagerNext]_managerVars

-----------------------------------------------------------------------------
\* Requests, and the store under them, are in states their types allow; a
\* request is past none of its items but the last (manager.go:141-163).
RequestsTypeOK ==
    /\ st \in [Requests -> [pc : {"new"} \cup Working \cup Outcomes,
                            body : Seq(Item), i : Nat \ {0}]]
    /\ \A r \in Requests : /\ \A i \in 1..Len(st[r].body) : <<r, i>> \in Tags
                           /\ st[r].pc \in {"known", "store"} => MoreItems(r)
ManagerTypeOK == StoreTypeOK /\ RequestsTypeOK

\* The items the server has gone past verifying and accumulating: a value may
\* count these, and no other.
Spent(t) ==
    LET r == t[1]
    IN  \/ t[2] < st[r].i
        \/ t[2] = st[r].i /\ st[r].pc \in {"store", "aborted"}

Once(m) ==
    m.delta # Nil => \A t \in Tags : m.delta[t] <= (IF Spent(t) THEN 1 ELSE 0)

\* However requests interleave, no stored counter counts one reported item
\* twice, and none counts an item that was rejected or is not yet verified
\* (accumulateCounter adds each delta once, after verifySign).
CountedAtMostOnce == \A i \in 1..hdr.len : Once(Visible[i])

\* A tag is kept if the counter of its name counts it.
Kept(t) ==
    \E i \in 1..hdr.len :
        /\ Visible[i].id = st[t[1]].body[t[2]].id
        /\ Visible[i].mtype = "counter"
        /\ Visible[i].delta # Nil
        /\ Visible[i].delta[t] = 1
Counter(r, i) == st[r].body[i].mtype = "counter" /\ st[r].body[i].data

\* A counter reported in a request the server answered 200 is part of the value
\* it keeps: the new value is added to the previous one (manager.go:87-100).
AcknowledgedKept ==
    \A r \in Requests : In(r, "ok") =>
        \A i \in 1..Len(st[r].body) : Counter(r, i) => Kept(<<r, i>>)

\* Nothing of a request that was refused is kept: where a hash does not match, the
\* server is to discard the data received and answer 400 (devopstest.yml:286-289).
\* UpsertBatch has stored the items before (manager.go:141-163).
Shows(m, t) ==
    \/ m.mtype = "counter" /\ m.delta # Nil /\ m.delta[t] > 0
    \/ m.mtype = "gauge" /\ m.value = t
RejectedDiscarded ==
    \A r \in Requests : In(r, "rejected") =>
        \A i \in 1..Len(st[r].body), j \in 1..hdr.len : ~Shows(Visible[j], <<r, i>>)

\* A request whose metrics all carry their value is answered, whatever was
\* stored before it (the delta of a known counter is dereferenced unchecked,
\* manager.go:97).
ValidAnswered ==
    \A r \in Requests :
        (\A i \in 1..Len(st[r].body) : st[r].body[i].data) => ~In(r, "aborted")
=============================================================================
