------------------------------- MODULE Routes --------------------------------
(***************************************************************************)
(* What each HTTP route (internal/server/handlers) and gRPC method         *)
(* (internal/server/grpc_server.go) makes of a request, as functions of    *)
(* the metrics the server holds: which requests it takes, what it stores,  *)
(* what it answers.  The manager is the one of manager.go for a request    *)
(* that no other overlaps; MetricsManager has its steps.                   *)
(*                                                                         *)
(* A store maps <<type, id>> to a number, or to None where the metric came *)
(* without its value.  An answer is the status and the store after it; the *)
(* status "panic" is a request that is cut off, 2 the code of gRPC for any *)
(* error.                                                                  *)
(***************************************************************************)
EXTENDS Integers, Sequences

CONSTANTS
    None,      \* a nil pointer, or a part that a path or a message does not have
    NaN,       \* the gauge that JSON cannot hold; the text "NaN" in a path
    Garbage,   \* a body, or a text, that does not decode
    Escaped    \* [ids that a path has to escape -> how they read in it]

Types == {"gauge", "counter"}

\* A metric as a body or a message has it: any texts for its type and id, and a hash,
\* which may be missing, of any other metric.  A path has its value as a text.
Values == Int \cup {None, NaN}
Hash == [key : {""} \cup STRING, of : {<<>>} \cup (STRING \X STRING \X Values)]
Message == {m \in [mtype : STRING, id : STRING, val : Values, hash : Hash] :
                m.mtype = "counter" => m.val # NaN}
Path == [mtype : STRING, id : STRING, val : Values \cup {Garbage}, hash : Hash]

ASSUME RoutesAssumption ==
    /\ None # NaN /\ Garbage \notin {None, NaN} /\ {None, NaN, Garbage} \cap Int = {}
    /\ Garbage \notin Seq(Message)
    /\ Escaped \in [DOMAIN Escaped -> STRING]

\* Status codes, and errs.ErrorHTTP, which a wrapped error passes through.
ErrorHTTP(e) ==
    CASE e = "NotFound"    -> "404"
      [] e = "UnknownType" -> "501"
      [] e \in {"InvalidID", "InvalidValue", "SignFailed"} -> "400"
      [] OTHER             -> "500"

Answer(status, store) == [status |-> status, store |-> store]

-----------------------------------------------------------------------------
(* Metrics and their signatures (pkg/metric) *)

NoHash == [key |-> "", of |-> <<>>]
Signature(key, m) ==
    IF key = "" THEN NoHash ELSE [key |-> key, of |-> <<m.mtype, m.id, m.val>>]
SignError(key, m) ==
    CASE key = ""            -> "none"
      [] m.mtype \notin Types -> "UnknownType"
      [] m.val = None        -> "InvalidValue"
      [] OTHER               -> "none"
Signed(key, m) == [m EXCEPT !.hash = Signature(key, m)]

\* CreateMetric, with the value a path has as a text.
CreateError(mtype, id) == IF id = "" \/ mtype = "" THEN "InvalidID" ELSE "none"
ValueError(mtype, text) ==
    CASE mtype \notin Types                      -> "UnknownType"
      [] text = Garbage                          -> "InvalidValue"
      [] mtype = "counter" /\ text = NaN         -> "InvalidValue"
      [] OTHER                                   -> "none"
Unsigned(mtype, id, val) == [mtype |-> mtype, id |-> id, val |-> val, hash |-> NoHash]

-----------------------------------------------------------------------------
(* The manager *)

VerifyError(key, m) ==
    CASE SignError(key, m) # "none" -> SignError(key, m)
      [] SignError(key, m) = "none" /\ key # "" /\ m.hash # Signature(key, m) -> "SignFailed"
      [] OTHER -> "none"

KeyOf(m) == <<m.mtype, m.id>>
Adds(store, m) == m.mtype = "counter" /\ KeyOf(m) \in DOMAIN store
Dereferences(store, m) == Adds(store, m) /\ (m.val = None \/ store[KeyOf(m)] = None)
Sum(store, m) == IF Adds(store, m) THEN m.val + store[KeyOf(m)] ELSE m.val
Stored(store, m) ==
    [k \in DOMAIN store \cup {KeyOf(m)} |-> IF k = KeyOf(m) THEN Sum(store, m) ELSE store[k]]

\* Mutant: the update is stored before its signature is looked at.
StoreFirst(store, key, m) ==
    Answer(ErrorHTTP(VerifyError(key, m)), IF Dereferences(store, m) THEN store ELSE Stored(store, m))
Refusal(store, key, m) == Answer(ErrorHTTP(VerifyError(key, m)), store)

Upsert(store, key, m) ==
    CASE VerifyError(key, m) # "none" -> Refusal(store, key, m)
      [] VerifyError(key, m) = "none" /\ Dereferences(store, m) -> Answer("panic", store)
      [] OTHER -> Answer("200", Stored(store, m))

\* UpsertBatch stops at the first metric that fails.
UpsertBatch(store, key, ms) ==
    LET After[i \in 0..Len(ms)] ==
            IF i = 0 THEN Answer("200", store)
            ELSE IF After[i - 1].status # "200" THEN After[i - 1]
            ELSE Upsert(After[i - 1].store, key, ms[i])
    IN  After[Len(ms)]

-----------------------------------------------------------------------------
(* Routes that update *)

\* Mutant: an entry matches however it is written.
AnySpacing(e) == TRUE
Matches(e) == ~e.spaced

\* Trust: no list, or the list has X-Real-IP among its entries.
Admits(list, ip) ==
    list = <<>> \/ \E i \in DOMAIN list : Matches(list[i]) /\ list[i].ip = ip

\* UpdateURL works on the path as it was sent, from which every "/update/" goes.
PathName(id) == IF id \in DOMAIN Escaped THEN Escaped[id] ELSE id
ThreeParts(rq) == rq.id # "update" /\ rq.val # None

UpdateURL(store, key, rq) ==
    LET id == PathName(rq.id)
        CE == CreateError(rq.mtype, id)
        VE == ValueError(rq.mtype, rq.val)
    IN  CASE ~ThreeParts(rq)               -> Answer("404", store)
          [] ThreeParts(rq) /\ CE # "none" -> Answer(ErrorHTTP(CE), store)
          [] ThreeParts(rq) /\ CE = "none" /\ VE # "none" -> Answer(ErrorHTTP(VE), store)
          [] OTHER -> Upsert(store, key, Unsigned(rq.mtype, id, rq.val))

\* UpdateJSON and UpdateDataJSON, for a body as Decrypt and Unmarshal leave it;
\* an `update` has one metric.
UpdateJSON(store, key, json, ms) ==
    CASE ~json                  -> Answer("415", store)
      [] json /\ ms = Garbage   -> Answer("400", store)
      [] OTHER                  -> UpsertBatch(store, key, ms)

\* UpsertGauge and UpsertCounter build the metric without the hash they are sent.
UpsertRPC(store, key, m) ==
    LET a == Upsert(store, key, Unsigned(m.mtype, m.id, m.val))
    IN  CASE m.id = "" -> Answer("2", store)
          [] m.id # "" /\ a.status \in {"200", "panic"} -> a
          [] OTHER -> Answer("2", store)

-----------------------------------------------------------------------------
(* Routes that read *)

Get(store, mtype, id) == IF <<mtype, id>> \in DOMAIN store THEN "none" ELSE "NotFound"

\* GetAsText: the value of a metric of a type it knows, or an empty text.
GetAsText(store, mtype, id) ==
    LET CE == CreateError(mtype, PathName(id))
        found == Get(store, mtype, PathName(id))
    IN  CASE CE # "none" -> [status |-> ErrorHTTP(CE), val |-> None]
          [] CE = "none" /\ found # "none" -> [status |-> ErrorHTTP(found), val |-> None]
          [] OTHER -> [status |-> "200", val |-> store[<<mtype, PathName(id)>>]]

\* GetAsJSON does not decrypt; its answer carries the hash of the value it has,
\* and it cannot encode every value.
GetAsJSON(store, key, json, mtype, id) ==
    LET m == Unsigned(mtype, id, store[<<mtype, id>>])
    IN  CASE ~json -> [status |-> "415", m |-> None]
          [] json /\ Get(store, mtype, id) # "none" ->
                [status |-> ErrorHTTP(Get(store, mtype, id)), m |-> None]
          [] json /\ Get(store, mtype, id) = "none" /\ m.val = NaN ->
                [status |-> "500", m |-> None]
          [] OTHER -> [status |-> "200", m |-> Signed(key, m)]

\* GetMetrics lists all there is.
GetMetrics(store) == {<<k[1], k[2], store[k]>> : k \in DOMAIN store}
=============================================================================
