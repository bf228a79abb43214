----------------------------- MODULE Repository -----------------------------
(***************************************************************************)
(* What storage.Repository promises its callers                            *)
(* (internal/storage/repository.go): a map from (type, id) to a metric, on *)
(* which every call takes effect at one instant between its invocation and *)
(* its return.                                                             *)
(***************************************************************************)
CONSTANTS Callers, Names, Types, Inputs, Nil

VARIABLES
    store,     \* [Keys -> a metric, or Nil]
    req        \* per caller, its call and what the call returned

vars == <<store, req>>

Keys == Names \X Types
Calls == [st : {"called"}, op : {"get", "upsert", "delete"}, m : Inputs, got : {Nil}]
Idle == [st |-> "idle", op |-> Nil, m |-> Nil, got |-> Nil]

Init ==
    /\ store = [k \in Keys |-> Nil]
    /\ req = [p \in Callers |-> Idle]

\* A caller that has its result may call again.
Invoke(p) ==
    /\ req[p].st # "called"
    /\ req'[p] \in Calls
    /\ req' = [req EXCEPT ![p] = req'[p]]
    /\ UNCHANGED store

\* A metric replaces the one with its key, a missing key reads as Nil.
Effect(p) ==
    LET m == req[p].m
        k == <<m.id, m.mtype>>
    IN  /\ req[p].st = "called"
        /\ \/ /\ req[p].op = "get"
              /\ req' = [req EXCEPT ![p].st = "done", ![p].got = store[k]]
              /\ UNCHANGED store
           \/ /\ req[p].op = "upsert"
              /\ store' = [store EXCEPT ![k] = m]
              /\ req' = [req EXCEPT ![p].st = "done"]
           \/ /\ req[p].op = "delete"
              /\ store' = [store EXCEPT ![k] = Nil]
              /\ req' = [req EXCEPT ![p].st = "done"]

Return(p) ==
    /\ req[p].st = "done"
    /\ req' = [req EXCEPT ![p] = Idle]
    /\ UNCHANGED store

Next == \E p \in Callers : Invoke(p) \/ Effect(p) \/ Return(p)

Spec == Init /\ [][Next]_vars
=============================================================================
