--------------------------- MODULE MetricsService ---------------------------
(***************************************************************************)
(* What the server promises a client that waits for each answer: a request *)
(* all of whose signatures match is applied item by item, every counter    *)
(* item adds its contribution to the counter of its name once, every gauge *)
(* item replaces the gauge; of any other request nothing is applied, and   *)
(* the answer is an error (devopstest.yml:286-289).                        *)
(***************************************************************************)
EXTENDS Integers, Sequences

CONSTANTS Requests, Names, Tags, Bodies, Verified(_), Nil

VARIABLES
    counters,   \* [Names -> the sum of the contributions, or Nil]
    gauges,     \* [Names -> the last value reported, or Nil]
    progress    \* per request: its body, how many items are applied, its answer

vars == <<counters, gauges, progress>>

Init ==
    /\ counters = [n \in Names |-> Nil]
    /\ gauges = [n \in Names |-> Nil]
    /\ progress = [r \in Requests |-> [body |-> Nil, applied |-> 0, answer |-> Nil]]

Open(r) == progress[r].body # Nil /\ progress[r].answer = Nil
Following(r) == progress[r].body[progress[r].applied + 1]
Remains(r) == progress[r].applied < Len(progress[r].body)
Matches(r) == \A i \in 1..Len(progress[r].body) : Verified(progress[r].body[i])

Submit(r) ==
    /\ progress[r].body = Nil
    /\ \E b \in Bodies : progress' = [progress EXCEPT ![r].body = b]
    /\ UNCHANGED <<counters, gauges>>

AddTo(old, t) ==
    [u \in Tags |-> (IF old = Nil THEN 0 ELSE old[u]) + (IF u = t THEN 1 ELSE 0)]

Apply(r) ==
    LET it == Following(r)
        t == <<r, progress[r].applied + 1>>
    IN  /\ Open(r) /\ Remains(r)
        /\ Matches(r)
        /\ progress' = [progress EXCEPT ![r].applied = @ + 1]
        /\ \/ /\ it.mtype = "counter"
              /\ counters' = [counters EXCEPT ![it.id] = AddTo(@, t)]
              /\ UNCHANGED gauges
           \/ /\ it.mtype = "gauge"
              /\ gauges' = [gauges EXCEPT ![it.id] = t]
              /\ UNCHANGED counters
           \/ it.mtype = Nil /\ UNCHANGED <<counters, gauges>>

Refuse(r) ==
    /\ Open(r) /\ progress[r].applied = 0
    /\ ~Matches(r)
    /\ progress' = [progress EXCEPT ![r].answer = "rejected"]
    /\ UNCHANGED <<counters, gauges>>

Accept(r) ==
    /\ Open(r) /\ ~Remains(r)
    /\ progress' = [progress EXCEPT ![r].answer = "ok"]
    /\ UNCHANGED <<counters, gauges>>

Next == \E r \in Requests : Submit(r) \/ Apply(r) \/ Refuse(r) \/ Accept(r)

Spec == Init /\ [][Next]_vars
=============================================================================
