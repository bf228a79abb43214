--------------------------- MODULE Delivery_proofs ---------------------------
(***************************************************************************)
(* What holds of a report on its way for all settings, keys, metrics and   *)
(* texts, and whatever others send.                                        *)
(*                                                                         *)
(* Bodies go through Encrypt and Decrypt as Cipher says, so its theorems   *)
(* hold of them.  Settings come from what was given (AsGiven_).  A report  *)
(* gets on under settings that let it through (ThroughIs) and no others:   *)
(* the invariant (ReportInv) says whose body is under way and with which   *)
(* keys (BodyOf), and that the first metric taken already tells            *)
(* (ThroughSoFar).  The store is faithful to what was answered 200         *)
(* (StoreInv): every route is shown to give answers that keep it so        *)
(* (GoodAnswer), the one that takes a batch by a least counterexample, as  *)
(* UpsertBatch is a recursive function.                                    *)
(***************************************************************************)
EXTENDS Delivery, Cipher_proofs, NaturalsInduction, WellFoundedInduction

\* A text is the half of a pair there is, or no key.
LEMMA KeysAre ==
    PublicKey \in Pairs \cup {NoKey} /\ PrivateKey \in Pairs \cup {NoKey}
BY DeliveryAssumption DEF PublicKey, PrivateKey

\* Which steps touch the body under way, and how.
Sealed_ == agent.pc = "up" /\ \E n \in Lengths : Seal(n, PublicKey)
Sent_ == Arrive(PrivateKey) \/ Drop \/ CipherStep \/ CipherDone

LEMMA BodyStep ==
    ASSUME [Next]_vars
    PROVE  Sealed_ \/ Sent_ \/ UNCHANGED job
<1>1. CASE ServerStart
    BY <1>1 DEF ServerStart
<1>2. CASE AgentStart
    BY <1>2 DEF AgentStart
<1>3. CASE ReportTick
    BY <1>3 DEF ReportTick
<1>4. CASE UnknownType
    BY <1>4 DEF UnknownType
<1>5. CASE SendURL
    BY <1>5 DEF SendURL
<1>6. CASE SendRPC
    BY <1>6 DEF SendRPC
<1>7. CASE SealBody
    BY <1>7 DEF SealBody, Sealed_, By
<1>8. CASE Post
    BY <1>8 DEF Post, Sent_
<1>9. CASE CipherWork
    BY <1>9 DEF CipherWork, Sent_
<1>10. CASE Handle
    BY <1>10 DEF Handle, Sent_
<1>11. CASE AllSent
    BY <1>11 DEF AllSent
<1>12. CASE OtherRequest
    BY <1>12 DEF OtherRequest
<1>13. CASE UNCHANGED vars
    BY <1>13 DEF vars
<1> QED
    BY <1>1, <1>2, <1>3, <1>4, <1>5, <1>6, <1>7, <1>8, <1>9, <1>10, <1>11, <1>12, <1>13
    DEF Next, ReporterStep

\* Every step of a delivery is one that Cipher allows, or leaves the body alone: what
\* holds of bodies holds of those between an agent and a server, whatever their
\* settings (reporter.go:202-292, metrics_write.go:60-161).
THEOREM DeliveryUsesCipher == Spec => CipherSpec
<1>1. Init => CipherInit
    BY DEF Init
<1>2. [Next]_vars => [CipherNext]_job
  <2> SUFFICES ASSUME [Next]_vars
               PROVE  [CipherNext]_job
    OBVIOUS
  <2>1. CASE Sealed_
    BY <2>1, KeysAre, DeliveryAssumption DEF Sealed_, CipherNext
  <2>2. CASE Sent_
    BY <2>2, KeysAre DEF Sent_, CipherNext
  <2> QED  BY <2>1, <2>2, BodyStep
<1> QED  BY <1>1, <1>2, PTL DEF Spec, CipherSpec

\* A body between an agent and a server with the halves of one pair comes across.
THEOREM DeliveredWhole == Spec => []RoundTrip
BY DeliveryUsesCipher, RoundTripAlways, PTL

\* A server with another key than the agent's never takes a body for a message.
THEOREM OthersRefused == Spec => []WrongKeyFails
BY DeliveryUsesCipher, WrongKeyNeverReads, PTL

-----------------------------------------------------------------------------
(* The settings in force *)

AgentAsGiven ==
    /\ agent = [pc |-> agent.pc, cfg |-> agent.cfg]
    /\ agent.pc = "up" => agent.cfg = AgentSettings(given.agent)
ServerAsGiven ==
    /\ server = [pc |-> server.pc, cfg |-> server.cfg, http |-> server.http]
    /\ server.pc = "up" => server.cfg = ServerSettings(given.server)
GivenOK == given.agent \in AgentGiven /\ given.server \in ServerGiven
AsGiven_ == GivenOK /\ AgentAsGiven /\ ServerAsGiven

\* After it has started, a server can only die.
LEMMA ServerKeeps ==
    ASSUME [Next]_vars, ~ServerStart
    PROVE  server' = Dead \/ UNCHANGED server
<1>0. Nothing => UNCHANGED server
    BY DEF Nothing
<1>1. \A route, ip, a, ms : Answered(route, ip, a, ms) =>
        server' = Dead \/ UNCHANGED server
    BY DEF Answered
<1> HIDE DEF Answered, Nothing
<1>2. CASE SendURL
    BY <1>0, <1>1, <1>2 DEF SendURL
<1>3. CASE SendRPC
    BY <1>0, <1>1, <1>3 DEF SendRPC
<1>4. CASE Post
    BY <1>0, <1>1, <1>4 DEF Post
<1>5. CASE Handle
    BY <1>0, <1>1, <1>5 DEF Handle
<1>6. CASE OtherRequest
    BY <1>1, <1>6 DEF OtherRequest
<1>7. CASE AgentStart \/ ReportTick \/ UnknownType \/ SealBody \/ CipherWork \/ AllSent
           \/ UNCHANGED vars
    BY <1>0, <1>7 DEF AgentStart, ReportTick, UnknownType, SealBody, CipherWork, AllSent, vars
<1> QED  BY <1>2, <1>3, <1>4, <1>5, <1>6, <1>7 DEF Next, ReporterStep

LEMMA AgentKeeps ==
    ASSUME [Next]_vars
    PROVE  UNCHANGED given /\ (AgentStart \/ UNCHANGED agent)
BY DEF Next, ReporterStep, vars, ServerStart, AgentStart, ReportTick, UnknownType, SendURL, SendRPC,
       SealBody, Post, CipherWork, Handle, AllSent, OtherRequest

LEMMA AsGivenAlways == Spec => []AsGiven_
<1>1. Init => AsGiven_
    BY DEF Init, AsGiven_, GivenOK, AgentAsGiven, ServerAsGiven, Process
<1>2. AsGiven_ /\ [Next]_vars => AsGiven_'
  <2> SUFFICES ASSUME AsGiven_, [Next]_vars
               PROVE  AsGiven_'
    OBVIOUS
  <2>1. GivenOK'
    BY AgentKeeps DEF AsGiven_, GivenOK
  <2>2. AgentAsGiven'
    <3>1. CASE AgentStart
      BY <3>1, AgentKeeps DEF AgentStart, AsGiven_, AgentAsGiven
    <3>2. CASE UNCHANGED agent
      BY <3>2, AgentKeeps DEF AsGiven_, AgentAsGiven
    <3> QED  BY <3>1, <3>2, AgentKeeps
  <2>3. ServerAsGiven'
    <3>1. CASE server' = Dead
      BY <3>1 DEF Dead, AsGiven_, ServerAsGiven
    <3>2. CASE UNCHANGED server
      BY <3>2, AgentKeeps DEF AsGiven_, ServerAsGiven
    <3>3. CASE ServerStart
      <4>1. \/ server' = Dead
            \/ \E http : server' = Serving(http)
        BY <3>3 DEF ServerStart
      <4>2. CASE \E http : server' = Serving(http)
        BY <4>2, AgentKeeps DEF Serving, ServerAsGiven
      <4> QED  BY <3>1, <4>1, <4>2
    <3> QED  BY <3>1, <3>2, <3>3, ServerKeeps
  <2> QED  BY <2>1, <2>2, <2>3 DEF AsGiven_
<1> QED  BY <1>1, <1>2, PTL DEF Spec

-----------------------------------------------------------------------------
(* No byte in clear *)

\* A file that has a public key, given and not overlaid, is the key in force.
LEMMA GivenKeyInForce ==
    ASSUME KeyFileGiven(given.agent), agent.cfg = AgentSettings(given.agent)
    PROVE  PublicKey \in Pairs
<1> DEFINE g == given.agent
           cfg == Configured(AgentDefaults, AgentBound, g)
<1>1. PICK path \in DOMAIN KeyFiles :
        /\ KeyFiles[path] \in DOMAIN Public
        /\ g.flags.crypto = path \/ (g.flags.crypto = Absent /\ g.conf.crypto = path)
    BY DEF KeyFileGiven
<1>2. path \notin {Absent, ""}
    BY SettingsAssumption
<1>3. cfg.crypto = IF g.conf.crypto # Absent THEN g.conf.crypto ELSE ""
  <2>1. "crypto" \in DOMAIN AgentDefaults /\ AgentDefaults.crypto = "" /\ "crypto" \notin AgentBound
    BY DEF AgentDefaults, AgentBound
  <2> DEFINE flagged == Overlay(AgentDefaults, g.flags, AgentBound)
  <2>2. DOMAIN flagged = DOMAIN AgentDefaults /\ flagged.crypto = ""
    BY <2>1 DEF Overlay
  <2>3. cfg = Overlay(flagged, g.conf, DOMAIN AgentDefaults)
    BY DEF Configured
  <2> HIDE DEF flagged, cfg
  <2> QED  BY <2>1, <2>2, <2>3 DEF Overlay
<1>4. DOMAIN cfg = {"addr", "type", "key", "crypto"}
  <2>1. DOMAIN AgentDefaults = {"addr", "type", "key", "crypto"}
    BY DEF AgentDefaults
  <2> QED  BY <2>1 DEF Configured, Overlay
<1> HIDE DEF cfg
<1>5. CryptoPath(cfg, g) = path
    BY <1>1, <1>2, <1>3 DEF CryptoPath, FlagFirst
<1>6. KeyText(CryptoPath(cfg, g)) = KeyFiles[path]
    BY <1>2, <1>5 DEF KeyText
<1>7. AgentSettings(g).crypto = KeyFiles[path]
  <2> DEFINE addr == Address(cfg, g)
             parsed == [cfg EXCEPT
                       !.addr = IF addr.host = "" THEN Addr("localhost", addr.port) ELSE addr,
                       !.crypto = KeyText(CryptoPath(cfg, g))]
  <2>1. AgentSettings(g) = Overlay(parsed, g.env, DOMAIN cfg)
    BY DEF AgentSettings, cfg
  <2>2. parsed.crypto = KeyFiles[path] /\ DOMAIN parsed = DOMAIN cfg
    BY <1>4, <1>6
  <2>3. g.env.crypto = Absent
    BY DEF KeyFileGiven
  <2> HIDE DEF parsed
  <2> QED  BY <1>4, <2>1, <2>2, <2>3 DEF Overlay
<1> QED  BY <1>1, <1>7, DeliveryAssumption DEF PublicKey

ClearInv ==
    /\ AsGiven_
    /\ job.pc = "idle" => job = Idle
    /\ job.pc # "idle" => agent.pc = "up"
    /\ KeyFileGiven(given.agent) /\ job.pc # "idle" => job.pub \in Pairs
    /\ KeyFileGiven(given.agent) => job.wire \in Seq(SealedByte)

\* A block is sealed bytes throughout.
LEMMA BlockSealed ==
    ASSUME NEW k \in Pairs, NEW chunk \in Seq(PlainByte)
    PROVE  OAEP(k, chunk) \in Seq(SealedByte)
<1>1. Size[k] \in Nat
    BY CipherAssumption
<1>2. \A i \in 1..Size[k] : [pair |-> k, of |-> chunk, at |-> i] \in SealedByte
    BY <1>1 DEF SealedByte
<1>3. OAEP(k, chunk) \in [1..Size[k] -> SealedByte]
    BY <1>2 DEF OAEP
<1> QED  BY <1>1, <1>3

\* How one step of the body treats its key and its wire.
LEMMA WireStep ==
    ASSUME CipherInv, job.pub \in Pairs, job.wire \in Seq(SealedByte), Sent_
    PROVE  \/ job' = Idle
           \/ job'.pc # "idle" /\ job.pc # "idle" /\ job'.pub = job.pub /\ job'.wire \in Seq(SealedByte)
<1> USE DEF Doing, CipherInv, JobType
<1>1. CASE Arrive(PrivateKey)
    BY <1>1 DEF Arrive
<1>2. CASE Drop \/ CipherDone
    BY <1>2 DEF Drop, CipherDone
<1>3. CASE SealNothing
    BY <1>3, CipherAssumption DEF SealNothing
<1>4. CASE SealBlock
  <2> DEFINE chunk == Cut(job.text, job.start, Room)
  <2>1. Room \in Nat \ {0}
    BY CipherAssumption DEF Room
  <2>2. chunk \in Seq(PlainByte)
    BY <2>1, CutIs
  <2> HIDE DEF chunk
  <2>3. OAEP(job.pub, chunk) \in Seq(SealedByte)
    BY <2>2, BlockSealed
  <2>4. job.wire \o OAEP(job.pub, chunk) \in Seq(SealedByte)
    BY <2>3, ConcatProperties
  <2>5. job' = [job EXCEPT !.start = job.start + Room, !.wire = job.wire \o OAEP(job.pub, chunk)]
    BY <1>4 DEF SealBlock, chunk
  <2> QED  BY <1>4, <2>4, <2>5 DEF SealBlock
<1>5. CASE SealEnd
    BY <1>5 DEF SealEnd
<1>6. CASE OpenNothing
    BY <1>6 DEF OpenNothing
<1>7. CASE OpenBlock
    BY <1>7 DEF OpenBlock
<1>8. CASE OpenFails
    BY <1>8 DEF OpenFails
<1>9. CASE OpenEnd
    BY <1>9 DEF OpenEnd
<1> QED
    BY <1>1, <1>2, <1>3, <1>4, <1>5, <1>6, <1>7, <1>8, <1>9 DEF Sent_, CipherStep

LEMMA ClearInvStep ==
    ASSUME ClearInv, AsGiven_', CipherInv, [Next]_vars
    PROVE  ClearInv'
<1> USE DEF ClearInv
<1>1. UNCHANGED given
    BY AgentKeeps
<1>2. (job.pc # "idle" => UNCHANGED agent) /\ (agent.pc = "up" => UNCHANGED agent)
    BY AgentKeeps DEF AgentStart
<1>3. CASE UNCHANGED job
    BY <1>1, <1>2, <1>3
<1>4. CASE Sealed_
  <2>1. PICK n \in Lengths : Seal(n, PublicKey)
    BY <1>4 DEF Sealed_
  <2>2. agent.pc = "up" /\ UNCHANGED agent
    BY <1>2, <1>4 DEF Sealed_
  <2>3. job'.pc = "seal" /\ job'.pub = PublicKey /\ job'.wire = <<>>
    BY <2>1 DEF Seal, Idle
  <2>4. KeyFileGiven(given.agent) => PublicKey \in Pairs
    BY <2>2, GivenKeyInForce DEF AsGiven_, AgentAsGiven
  <2>5. <<>> \in Seq(SealedByte)
    BY EmptySeq
  <2> QED  BY <1>1, <2>2, <2>3, <2>4, <2>5
<1>5. CASE Sent_
  <2>1. job.pc # "idle"
    BY <1>5 DEF Sent_, Arrive, Drop, CipherDone, Over, Doing, CipherStep, SealNothing, SealBlock, SealEnd,
                OpenNothing, OpenBlock, OpenFails, OpenEnd
  <2>2. CASE KeyFileGiven(given.agent)
    <3>1. CASE job' = Idle
      BY <1>1, <3>1, EmptySeq DEF Idle
    <3>2. CASE job' # Idle
      BY <1>1, <1>2, <1>5, <2>1, <2>2, <3>2, WireStep
    <3> QED  BY <3>1, <3>2
  <2>3. CASE ~KeyFileGiven(given.agent)
    <3>1. job' = Idle \/ job'.pc # "idle"
      BY <1>5 DEF Sent_, Arrive, Drop, CipherDone, CipherStep, SealNothing, SealBlock, SealEnd,
                  OpenNothing, OpenBlock, OpenFails, OpenEnd, CipherInv, JobType, Doing
    <3>2. Idle.pc = "idle"
      BY DEF Idle
    <3> QED  BY <1>1, <1>2, <2>1, <2>3, <3>1, <3>2
  <2> QED  BY <2>2, <2>3
<1> QED  BY <1>3, <1>4, <1>5, BodyStep

\* An agent that was given the file of a public key, and whose environment does not say
\* otherwise, sends nothing in clear: for every such file, key and text
\* (config.go:85-97, reporter.go:64-130).
THEOREM SealedOnWireAlways == Spec => []SealedOnWire
<1>1. Init => ClearInv
  <2> SUFFICES ASSUME Init
               PROVE  ClearInv
    OBVIOUS
  <2>1. AsGiven_
    BY DEF Init, AsGiven_, GivenOK, AgentAsGiven, ServerAsGiven, Process
  <2>2. job = Idle /\ job.pc = "idle" /\ job.wire = <<>>
    BY DEF Init, CipherInit, Idle
  <2> QED  BY <2>1, <2>2, EmptySeq DEF ClearInv
<1>2. ClearInv /\ AsGiven_' /\ CipherInv /\ [Next]_vars => ClearInv'
    BY ClearInvStep
<1>3. ClearInv => SealedOnWire
  <2> SUFFICES ASSUME ClearInv, KeyFileGiven(given.agent), NEW i \in DOMAIN job.wire
               PROVE  job.wire[i].pair # NoKey
    BY DEF SealedOnWire
  <2>1. job.wire[i] \in SealedByte
    BY ElementOfSeq DEF ClearInv
  <2> QED  BY <2>1, CipherAssumption DEF SealedByte
<1>4. Spec => []CipherInv
    BY DeliveryUsesCipher, CipherInvAlways, PTL
<1> QED  BY <1>1, <1>2, <1>3, <1>4, AsGivenAlways, PTL DEF Spec

-----------------------------------------------------------------------------
(* Which of the settings given *)

\* The first of three that is given.
LEMMA FirstGiven ==
    ASSUME NEW g, NEW f, NEW bound
    PROVE  Ranked(g, f, bound) =
            IF g.env[f] # Absent THEN g.env[f]
            ELSE IF f \in bound
                 THEN IF g.conf[f] # Absent THEN g.conf[f] ELSE g.flags[f]
                 ELSE IF g.flags[f] # Absent THEN g.flags[f] ELSE g.conf[f]
<1> DEFINE e == g.env[f]
           a == IF f \in bound THEN g.conf[f] ELSE g.flags[f]
           b == IF f \in bound THEN g.flags[f] ELSE g.conf[f]
           ranks == <<e, a, b>>
           there == {i \in DOMAIN ranks : ranks[i] # Absent}
           least == CHOOSE i \in there : \A j \in there : i <= j
<1>1. Ranked(g, f, bound) = IF there = {} THEN Absent ELSE ranks[least]
    BY DEF Ranked
<1> HIDE DEF e, a, b
<1>2. DOMAIN ranks = 1..3 /\ ranks[1] = e /\ ranks[2] = a /\ ranks[3] = b
    OBVIOUS
<1> HIDE DEF ranks
<1>3. \A i \in there : (\A j \in there : i <= j) => least = i
  <2> SUFFICES ASSUME NEW i \in there, \A j \in there : i <= j
               PROVE  least = i
    OBVIOUS
  <2>1. there \subseteq 1..3
    BY <1>2
  <2> HIDE DEF there
  <2>2. least \in there /\ \A j \in there : least <= j
    OBVIOUS
  <2> HIDE DEF least
  <2>3. least <= i /\ i <= least /\ least \in Int /\ i \in Int
    BY <2>1, <2>2
  <2> QED  BY <2>3
<1>4. CASE e # Absent
  <2>1. 1 \in there /\ \A j \in there : 1 <= j
    BY <1>2, <1>4
  <2>2. least = 1
    BY <1>3, <2>1
  <2> QED  BY <1>1, <1>2, <1>4, <2>1, <2>2 DEF e
<1>5. CASE e = Absent /\ a # Absent
  <2>1. 2 \in there /\ \A j \in there : 2 <= j
    BY <1>2, <1>5
  <2>2. least = 2
    BY <1>3, <2>1
  <2>3. Ranked(g, f, bound) = a
    BY <1>1, <1>2, <2>1, <2>2
  <2> QED  BY <1>5, <2>3 DEF e, a
<1>6. CASE e = Absent /\ a = Absent /\ b # Absent
  <2>1. 3 \in there /\ \A j \in there : 3 <= j
    BY <1>2, <1>6
  <2>2. least = 3
    BY <1>3, <2>1
  <2>3. Ranked(g, f, bound) = b
    BY <1>1, <1>2, <2>1, <2>2
  <2> QED  BY <1>6, <2>3 DEF e, a, b
<1>7. CASE e = Absent /\ a = Absent /\ b = Absent
  <2>1. there = {}
    BY <1>2, <1>7
  <2> QED  BY <1>1, <1>7, <2>1 DEF e, a, b
<1> QED  BY <1>4, <1>5, <1>6, <1>7

\* What flags and file leave in a setting.
LEMMA ServerConfigured ==
    ASSUME NEW g
    PROVE  LET cfg == Configured(ServerDefaults, ServerBound, g)
           IN  /\ DOMAIN cfg = DOMAIN ServerDefaults
               /\ \A f \in ServerBound :
                    cfg[f] = IF g.conf[f] # Absent THEN g.conf[f]
                             ELSE IF g.flags[f] # Absent THEN g.flags[f] ELSE ServerDefaults[f]
               /\ g.conf["addr"] # Absent => cfg["addr"] = g.conf["addr"]
<1> DEFINE flagged == Overlay(ServerDefaults, g.flags, ServerBound)
           cfg == Configured(ServerDefaults, ServerBound, g)
<1>1. ServerBound \cup {"addr"} \subseteq DOMAIN ServerDefaults
    BY DEF ServerDefaults, ServerBound
<1>2. DOMAIN flagged = DOMAIN ServerDefaults
    BY DEF Overlay
<1>3. \A f \in ServerBound : flagged[f] = IF g.flags[f] # Absent THEN g.flags[f] ELSE ServerDefaults[f]
    BY <1>1 DEF Overlay
<1>4. cfg = Overlay(flagged, g.conf, DOMAIN ServerDefaults)
    BY DEF Configured
<1> HIDE DEF flagged, cfg
<1>5. cfg = [f \in DOMAIN flagged |-> IF f \in DOMAIN ServerDefaults /\ g.conf[f] # Absent
                                      THEN g.conf[f] ELSE flagged[f]]
    BY <1>4 DEF Overlay
<1>6. DOMAIN cfg = DOMAIN ServerDefaults
    BY <1>2, <1>5
<1>7. \A f \in ServerBound : cfg[f] = IF g.conf[f] # Absent THEN g.conf[f] ELSE flagged[f]
    BY <1>1, <1>2, <1>5
<1>8. g.conf["addr"] # Absent => cfg["addr"] = g.conf["addr"]
    BY <1>1, <1>2, <1>5
<1> QED  BY <1>3, <1>6, <1>7, <1>8 DEF cfg

LEMMA AgentConfigured ==
    ASSUME NEW g
    PROVE  LET cfg == Configured(AgentDefaults, AgentBound, g)
           IN  /\ DOMAIN cfg = DOMAIN AgentDefaults
               /\ \A f \in AgentBound :
                    cfg[f] = IF g.conf[f] # Absent THEN g.conf[f]
                             ELSE IF g.flags[f] # Absent THEN g.flags[f] ELSE AgentDefaults[f]
<1> DEFINE flagged == Overlay(AgentDefaults, g.flags, AgentBound)
           cfg == Configured(AgentDefaults, AgentBound, g)
<1>1. AgentBound \subseteq DOMAIN AgentDefaults
    BY DEF AgentDefaults, AgentBound
<1>2. DOMAIN flagged = DOMAIN AgentDefaults
    BY DEF Overlay
<1>3. \A f \in AgentBound : flagged[f] = IF g.flags[f] # Absent THEN g.flags[f] ELSE AgentDefaults[f]
    BY <1>1 DEF Overlay
<1>4. cfg = Overlay(flagged, g.conf, DOMAIN AgentDefaults)
    BY DEF Configured
<1> HIDE DEF flagged, cfg
<1>5. cfg = [f \in DOMAIN flagged |-> IF f \in DOMAIN AgentDefaults /\ g.conf[f] # Absent
                                      THEN g.conf[f] ELSE flagged[f]]
    BY <1>4 DEF Overlay
<1>6. DOMAIN cfg = DOMAIN AgentDefaults
    BY <1>2, <1>5
<1>7. \A f \in AgentBound : cfg[f] = IF g.conf[f] # Absent THEN g.conf[f] ELSE flagged[f]
    BY <1>1, <1>2, <1>5
<1> QED  BY <1>3, <1>6, <1>7 DEF cfg

\* The environment comes last; -a is looked at after the file.
LEMMA ServerSettingsAt ==
    ASSUME NEW g
    PROVE  LET cfg == Configured(ServerDefaults, ServerBound, g)
           IN  \A f \in ServerBound \cup {"addr"} : ServerSettings(g)[f] =
                IF g.env[f] # Absent THEN g.env[f]
                ELSE IF f = "addr" THEN Address(cfg, g) ELSE cfg[f]
<1> DEFINE cfg == Configured(ServerDefaults, ServerBound, g)
           parsed == [cfg EXCEPT !.addr = Address(cfg, g),
                                 !.crypto = KeyText(CryptoPath(cfg, g)),
                                 !.subnet = IF FlagList(g) = <<>> THEN cfg.subnet ELSE FlagList(g)]
<1>1. ServerSettings(g) = Overlay(parsed, g.env, DOMAIN cfg)
    BY DEF ServerSettings
<1>2. /\ ServerBound \cup {"addr"} \subseteq DOMAIN cfg
      /\ {"addr", "crypto", "subnet"} \cap ServerBound = {}
  <2>1. ServerBound \cup {"addr"} \subseteq DOMAIN ServerDefaults
    BY DEF ServerDefaults, ServerBound
  <2>2. DOMAIN cfg = DOMAIN ServerDefaults
    BY ServerConfigured
  <2> HIDE DEF cfg
  <2> QED  BY <2>1, <2>2 DEF ServerBound
<1> HIDE DEF cfg
<1>3. DOMAIN parsed = DOMAIN cfg
    OBVIOUS
<1>4. \A f \in ServerBound : parsed[f] = cfg[f]
    BY <1>2
<1>5. parsed["addr"] = Address(cfg, g)
    BY <1>2
<1> HIDE DEF parsed
<1>6. \A f \in ServerBound \cup {"addr"} : ServerSettings(g)[f] =
        IF g.env[f] # Absent THEN g.env[f] ELSE parsed[f]
    BY <1>1, <1>2, <1>3 DEF Overlay
<1>7. "addr" \notin ServerBound
    BY DEF ServerBound
<1> QED  BY <1>4, <1>5, <1>6, <1>7 DEF cfg

LEMMA AgentSettingsAt ==
    ASSUME NEW g
    PROVE  \A f \in AgentBound : AgentSettings(g)[f] =
                IF g.env[f] # Absent THEN g.env[f]
                ELSE Configured(AgentDefaults, AgentBound, g)[f]
<1> DEFINE cfg == Configured(AgentDefaults, AgentBound, g)
           addr == Address(cfg, g)
           parsed == [cfg EXCEPT
                       !.addr = IF addr.host = "" THEN Addr("localhost", addr.port) ELSE addr,
                       !.crypto = KeyText(CryptoPath(cfg, g))]
<1>1. AgentSettings(g) = Overlay(parsed, g.env, DOMAIN cfg)
    BY DEF AgentSettings
<1>2. AgentBound \subseteq DOMAIN cfg /\ {"addr", "crypto"} \cap AgentBound = {}
  <2>1. AgentBound \subseteq DOMAIN AgentDefaults
    BY DEF AgentDefaults, AgentBound
  <2>2. DOMAIN cfg = DOMAIN AgentDefaults
    BY AgentConfigured
  <2> HIDE DEF cfg
  <2> QED  BY <2>1, <2>2 DEF AgentBound
<1> HIDE DEF cfg
<1>3. DOMAIN parsed = DOMAIN cfg
    OBVIOUS
<1>4. \A f \in AgentBound : parsed[f] = cfg[f]
    BY <1>2
<1> HIDE DEF parsed
<1>5. \A f \in AgentBound : AgentSettings(g)[f] =
        IF g.env[f] # Absent THEN g.env[f] ELSE parsed[f]
    BY <1>1, <1>2, <1>3 DEF Overlay
<1> QED  BY <1>4, <1>5 DEF cfg

\* Of a setting given several times, the one its rank says is in force, for all that
\* operators may give (config.go:84-186).
THEOREM InForceAlways == Spec => []InForce
<1>1. AsGiven_ => InForce
  <2> SUFFICES ASSUME AsGiven_
               PROVE  InForce
    OBVIOUS
  <2>1. ASSUME server.pc = "up", NEW f \in ServerBound \cup {"addr"}
        PROVE  Ranked(given.server, f, ServerBound) # Absent =>
                    server.cfg[f] = Ranked(given.server, f, ServerBound)
    <3> DEFINE g == given.server
               cfg == Configured(ServerDefaults, ServerBound, g)
    <3>1. server.cfg[f] = IF g.env[f] # Absent THEN g.env[f]
                          ELSE IF f = "addr" THEN Address(cfg, g) ELSE cfg[f]
      BY <2>1, ServerSettingsAt DEF AsGiven_, ServerAsGiven
    <3>2. "addr" \notin ServerBound
      BY DEF ServerBound
    <3>3. /\ f \in ServerBound => cfg[f] = IF g.conf[f] # Absent THEN g.conf[f]
                               ELSE IF g.flags[f] # Absent THEN g.flags[f] ELSE ServerDefaults[f]
          /\ g.conf["addr"] # Absent => cfg["addr"] = g.conf["addr"]
      BY ServerConfigured
    <3>4. Address(cfg, g) = IF g.flags["addr"] = Absent THEN cfg["addr"] ELSE g.flags["addr"]
      BY DEF Address, FlagFirst
    <3> HIDE DEF g, cfg
    <3>5. Ranked(g, f, ServerBound) =
            IF g.env[f] # Absent THEN g.env[f]
            ELSE IF f \in ServerBound
                 THEN IF g.conf[f] # Absent THEN g.conf[f] ELSE g.flags[f]
                 ELSE IF g.flags[f] # Absent THEN g.flags[f] ELSE g.conf[f]
      BY FirstGiven
    <3>6. CASE f \in ServerBound
      BY <3>1, <3>2, <3>3, <3>5, <3>6 DEF g
    <3>7. CASE f = "addr"
      BY <3>1, <3>2, <3>3, <3>4, <3>5, <3>7 DEF g
    <3> QED  BY <3>6, <3>7
  <2>2. ASSUME agent.pc = "up", NEW f \in AgentBound
        PROVE  Ranked(given.agent, f, AgentBound) # Absent =>
                    agent.cfg[f] = Ranked(given.agent, f, AgentBound)
    <3> DEFINE g == given.agent
               cfg == Configured(AgentDefaults, AgentBound, g)
    <3>1. agent.cfg[f] = IF g.env[f] # Absent THEN g.env[f] ELSE cfg[f]
      BY <2>2, AgentSettingsAt DEF AsGiven_, AgentAsGiven
    <3>2. cfg[f] = IF g.conf[f] # Absent THEN g.conf[f]
                   ELSE IF g.flags[f] # Absent THEN g.flags[f] ELSE AgentDefaults[f]
      BY AgentConfigured
    <3> HIDE DEF g, cfg
    <3>3. Ranked(g, f, AgentBound) =
            IF g.env[f] # Absent THEN g.env[f]
            ELSE IF f \in AgentBound
                 THEN IF g.conf[f] # Absent THEN g.conf[f] ELSE g.flags[f]
                 ELSE IF g.flags[f] # Absent THEN g.flags[f] ELSE g.conf[f]
      BY FirstGiven
    <3> QED  BY <3>1, <3>2, <3>3 DEF g
  <2>3. /\ {"key", "dsn", "file", "rpc", "addr", "interval"} \subseteq ServerBound \cup {"addr"}
        /\ {"key", "type"} \subseteq AgentBound
    BY DEF ServerBound, AgentBound
  <2> QED  BY <2>1, <2>2, <2>3 DEF InForce
<1> QED  BY <1>1, AsGivenAlways, PTL

\* A database that is given is the storage, and every update is saved before it is
\* answered, for all that operators may give (main.go:51-80).
THEOREM DatabaseFirstAlways == Spec => []DatabaseFirst
<1>1. AsGiven_ => DatabaseFirst
  <2> SUFFICES ASSUME AsGiven_, server.pc = "up", DSNGiven(given.server)
               PROVE  Backend(server.cfg) = "database" /\ Flushes(server.cfg) = "each update"
    BY DEF DatabaseFirst
  <2> DEFINE g == given.server
             cfg == Configured(ServerDefaults, ServerBound, g)
  <2>1. "dsn" \in ServerBound /\ "dsn" # "addr"
    BY DEF ServerBound
  <2>2. server.cfg["dsn"] = IF g.env["dsn"] # Absent THEN g.env["dsn"] ELSE cfg["dsn"]
    BY <2>1, ServerSettingsAt DEF AsGiven_, ServerAsGiven
  <2>3. cfg["dsn"] = IF g.conf["dsn"] # Absent THEN g.conf["dsn"]
                     ELSE IF g.flags["dsn"] # Absent THEN g.flags["dsn"] ELSE ServerDefaults["dsn"]
    BY <2>1, ServerConfigured
  <2>4. g.env["dsn"] # ""
    BY DeliveryAssumption DEF AsGiven_, GivenOK
  <2>5. \/ g.env["dsn"] # Absent
        \/ g.flags["dsn"] \notin {Absent, ""} /\ g.conf["dsn"] = Absent
    BY DEF DSNGiven
  <2> HIDE DEF g, cfg
  <2>6. server.cfg["dsn"] # ""
    BY <2>2, <2>3, <2>4, <2>5
  <2>7. Backend(server.cfg) = "database"
    BY <2>6 DEF Backend
  <2>8. Interval(server.cfg) = 0
    BY <2>6 DEF Interval
  <2> QED  BY <2>7, <2>8 DEF Flushes
<1> QED  BY <1>1, AsGivenAlways, PTL

-----------------------------------------------------------------------------
(* Least and greatest *)

LT == {ss \in Nat \X Nat : ss[1] < ss[2]}

\* A set of numbers that is not empty has a least one.
LEMMA LeastOf ==
    ASSUME NEW T \in SUBSET Nat, T # {}
    PROVE  \E x \in T : \A y \in T : x <= y
<1>1. IsWellFoundedOn(LT, Nat)
  BY NatLessThanWellFounded DEF OpToRel, LT
<1> HIDE DEF LT
<1>2. PICK x \in T : \A y \in T : ~ (<<y, x>> \in LT)
  BY <1>1, WFMin
<1>3. \A y \in T : ~(y < x)
  BY <1>2 DEF LT
<1> QED BY <1>3

-----------------------------------------------------------------------------
(* What a route answers *)

\* What there is after each of the first n metrics of a batch.
InTurn(h, st, key, ms, n) ==
    h = [i \in 0..n |-> IF i = 0 THEN Answer("200", st)
                        ELSE IF h[i - 1].status # "200" THEN h[i - 1]
                        ELSE Upsert(h[i - 1].store, key, ms[i])]

LEMMA InTurnExists ==
    ASSUME NEW st, NEW key, NEW ms PROVE \A n \in Nat : \E h : InTurn(h, st, key, ms, n)
<1> DEFINE T == {n \in Nat : ~\E h : InTurn(h, st, key, ms, n)}
           Round(h, i) == IF i = 0 THEN Answer("200", st)
                          ELSE IF h[i - 1].status # "200" THEN h[i - 1]
                          ELSE Upsert(h[i - 1].store, key, ms[i])
<1> SUFFICES ASSUME T # {} PROVE FALSE
  OBVIOUS
<1>1. PICK x \in T : \A y \in T : x <= y
  <2>1. T \in SUBSET Nat
    OBVIOUS
  <2> HIDE DEF T
  <2> QED BY <2>1, LeastOf
<1>2. CASE x = 0
  <2>1. InTurn([i \in 0..0 |-> Answer("200", st)], st, key, ms, 0)
    BY DEF InTurn
  <2> QED BY <2>1, <1>2
<1>3. CASE x # 0
  <2>1. x - 1 \in Nat /\ x - 1 \notin T
    BY <1>1, <1>3
  <2>2. PICK h : InTurn(h, st, key, ms, x - 1)
    BY <2>1
  <2>3. h = [i \in 0..(x - 1) |-> Round(h, i)]
    BY <2>2 DEF InTurn
  <2> DEFINE g == [i \in 0..x |-> IF i = x THEN Round(h, x) ELSE h[i]]
  <2>4. \A i \in 0..x : g[i] = Round(g, i)
    <3> SUFFICES ASSUME NEW i \in 0..x PROVE g[i] = Round(g, i)
      OBVIOUS
    <3>1. i # 0 => i - 1 \in 0..(x - 1) /\ i - 1 # x /\ i - 1 \in 0..x
      BY <2>1
    <3>2. i # 0 => g[i - 1] = h[i - 1]
      BY <3>1
    <3>3. Round(g, i) = Round(h, i)
      <4> HIDE DEF g
      <4> QED BY <3>2
    <3>4. i # x => i \in 0..(x - 1)
      BY <2>1
    <3>5. i # x => h[i] = Round(h, i)
      <4> HIDE DEF Round
      <4> QED BY <2>3, <3>4
    <3> QED BY <3>3, <3>5
  <2>5. g = [i \in 0..x |-> g[i]]
    OBVIOUS
  <2> HIDE DEF g
  <2>6. InTurn(g, st, key, ms, x)
    <3>1. g = [i \in 0..x |-> Round(g, i)]
      <4> HIDE DEF Round
      <4> QED BY <2>4, <2>5
    <3> QED BY <3>1 DEF InTurn
  <2> QED BY <2>6
<1> QED BY <1>2, <1>3

\* A batch is taken metric after metric, up to the first that fails.
LEMMA BatchInTurn ==
    ASSUME NEW st, NEW key, NEW ms, Len(ms) \in Nat
    PROVE  \E h : /\ UpsertBatch(st, key, ms) = h[Len(ms)] /\ h[0] = Answer("200", st)
                  /\ \A n \in 1..Len(ms) :
                        h[n] = IF h[n - 1].status # "200" THEN h[n - 1]
                               ELSE Upsert(h[n - 1].store, key, ms[n])
<1> DEFINE f == CHOOSE h : InTurn(h, st, key, ms, Len(ms))
           Round(h, i) == IF i = 0 THEN Answer("200", st)
                          ELSE IF h[i - 1].status # "200" THEN h[i - 1]
                          ELSE Upsert(h[i - 1].store, key, ms[i])
<1>1. InTurn(f, st, key, ms, Len(ms))
  BY InTurnExists
<1>2. UpsertBatch(st, key, ms) = f[Len(ms)]
  BY DEF UpsertBatch, InTurn
<1> HIDE DEF f
<1>3. f = [i \in 0..Len(ms) |-> Round(f, i)]
  BY <1>1 DEF InTurn
<1>4. \A n \in 0..Len(ms) : f[n] = Round(f, n)
  <2> HIDE DEF Round
  <2> QED BY <1>3
<1> QED BY <1>2, <1>4

\* What the agent sends is a metric.
LEMMA ScannedIs ==
    /\ Len(Scanned) \in Nat \ {0} /\ DOMAIN Scanned = 1..Len(Scanned)
    /\ \A i \in DOMAIN Scanned :
        /\ Scanned[i] \in Message /\ Scanned[i].mtype \in Types /\ Scanned[i].val \in Int
        /\ Scanned[i].id \notin {"", "update"} \cup DOMAIN Escaped
<1>1. Scanned \in Seq(Sendable) /\ Scanned # <<>>
  BY DeliveryAssumption
<1>2. Len(Scanned) \in Nat \ {0} /\ DOMAIN Scanned = 1..Len(Scanned)
  BY <1>1, EmptySeq, LenProperties
<1>3. \A i \in DOMAIN Scanned : Scanned[i] \in Sendable
  BY <1>1, <1>2, ElementOfSeq
<1> QED BY <1>2, <1>3 DEF Sendable

\* The hash of another key is another hash.
LEMMA HashesDiffer ==
    ASSUME NEW k, NEW l, NEW m PROVE Signature(k, m) = Signature(l, m) <=> k = l
<1>1. \A key : Signature(key, m).key = key
  BY DEF Signature, NoHash
<1> QED BY <1>1

\* How a request signed with one key ends, at a server with another.
Ends(status, key, mine) ==
    /\ status \in {"200", "panic", "400"}
    /\ status = "200" => key \in {"", mine}
    /\ status = "400" => key \notin {"", mine}

\* Of a metric with its value, the server looks at the signature alone.
LEMMA SignedTaken ==
    ASSUME NEW st, NEW key, NEW mine, NEW m \in Message, m.mtype \in Types, m.val # None
    PROVE  Ends(Upsert(st, key, Signed(mine, m)).status, key, mine)
<1> DEFINE s == Signed(mine, m)
<1>1. /\ s.mtype = m.mtype /\ s.val = m.val /\ s.hash = Signature(mine, m) /\ s.id = m.id
      /\ Signature(key, s) = Signature(key, m)
  BY DEF Signed, Message, Signature
<1> HIDE DEF s
<1>2. SignError(key, s) = "none"
  BY <1>1 DEF SignError
<1>3. VerifyError(key, s) = IF key \in {"", mine} THEN "none" ELSE "SignFailed"
  <2>1. s.hash = Signature(key, s) <=> key = mine
    BY <1>1, HashesDiffer
  <2>2. CASE key # "" /\ s.hash # Signature(key, s)
    <3>1. VerifyError(key, s) = "SignFailed"
      BY <1>2, <2>2 DEF VerifyError
    <3> QED BY <2>1, <2>2, <3>1
  <2>3. CASE ~(key # "" /\ s.hash # Signature(key, s))
    <3>1. VerifyError(key, s) = "none"
      BY <1>2, <2>3 DEF VerifyError
    <3> QED BY <2>1, <2>3, <3>1
  <2> QED BY <2>2, <2>3
<1>4. CASE key \in {"", mine}
  BY <1>3, <1>4 DEF Upsert, Answer, s, Ends
<1>5. CASE key \notin {"", mine}
  <2>1. Upsert(st, key, s) = Refusal(st, key, s)
    BY <1>3, <1>5 DEF Upsert
  <2>2. Refusal(st, key, s).status = "400"
    BY <1>3, <1>5 DEF Refusal, Answer, ErrorHTTP
  <2> QED BY <1>5, <2>1, <2>2 DEF s, Ends
<1> QED BY <1>4, <1>5

\* A metric without a hash is as one signed without a key.
LEMMA UnsignedIs ==
    ASSUME NEW i \in DOMAIN Scanned
    PROVE  LET m == Unsigned(Scanned[i].mtype, Scanned[i].id, Scanned[i].val)
           IN  m \in Message /\ m = Signed("", m) /\ m.mtype \in Types /\ m.val \in Int
<1> DEFINE m == Unsigned(Scanned[i].mtype, Scanned[i].id, Scanned[i].val)
<1>1. Scanned[i] \in Message /\ Scanned[i].mtype \in Types /\ Scanned[i].val \in Int
  BY ScannedIs
<1>2. NoHash \in Hash
  BY DEF NoHash, Hash
<1>3. m \in Message
  BY <1>1, <1>2 DEF Message, Unsigned, Values
<1>4. m = Signed("", m)
  BY DEF Signed, Signature, Unsigned
<1> QED BY <1>1, <1>3, <1>4 DEF Unsigned

\* A whole batch of such is taken or refused for its signatures.
LEMMA BatchTaken ==
    ASSUME NEW st, NEW key, NEW mine, NEW ms, Len(ms) \in Nat \ {0},
           \A n \in 1..Len(ms) : \E m \in Message :
                m.mtype \in Types /\ m.val # None /\ ms[n] = Signed(mine, m)
    PROVE  Ends(UpsertBatch(st, key, ms).status, key, mine)
<1>1. PICK h : /\ UpsertBatch(st, key, ms) = h[Len(ms)] /\ h[0] = Answer("200", st)
               /\ \A n \in 1..Len(ms) :
                    h[n] = IF h[n - 1].status # "200" THEN h[n - 1]
                           ELSE Upsert(h[n - 1].store, key, ms[n])
  BY BatchInTurn
<1> DEFINE Right(s) == Ends(s, key, mine)
           T == {n \in 1..Len(ms) : ~Right(h[n].status)}
<1> HIDE DEF Right
<1>2. CASE T = {}
  <2>1. Len(ms) \in 1..Len(ms)
    OBVIOUS
  <2>2. Right(h[Len(ms)].status)
    BY <1>2, <2>1
  <2> HIDE DEF T
  <2> QED BY <1>1, <2>2 DEF Right
<1>3. CASE T # {}
  <2>1. PICK x \in T : \A y \in T : x <= y
    <3>1. T \in SUBSET Nat
      OBVIOUS
    <3> HIDE DEF T
    <3> QED BY <1>3, <3>1, LeastOf
  <2>2. x \in 1..Len(ms) /\ ~Right(h[x].status)
    BY <2>1
  <2>3. x # 1 => Right(h[x - 1].status)
    <3>1. x # 1 => x - 1 \in 1..Len(ms) /\ x - 1 \notin T
      BY <2>1
    <3> QED BY <3>1
  <2>4. h[x] = IF h[x - 1].status # "200" THEN h[x - 1] ELSE Upsert(h[x - 1].store, key, ms[x])
    BY <1>1, <2>2
  <2>5. Right(Upsert(h[x - 1].store, key, ms[x]).status)
    <3>1. PICK m \in Message : m.mtype \in Types /\ m.val # None /\ ms[x] = Signed(mine, m)
      BY <2>2
    <3> QED BY <3>1, SignedTaken DEF Right
  <2>6. x = 1 => h[x - 1].status = "200"
    <3>1. x = 1 => x - 1 = 0
      OBVIOUS
    <3>2. h[0].status = "200"
      BY <1>1 DEF Answer
    <3> QED BY <3>1, <3>2
  <2> HIDE DEF T
  <2> QED BY <2>2, <2>3, <2>4, <2>5, <2>6
<1> QED BY <1>2, <1>3

LEMMA EmptyDomain ==
    ASSUME NEW S, NEW s \in Seq(S) PROVE s = <<>> <=> DOMAIN s = {}
<1>1. Len(s) \in Nat /\ DOMAIN s = 1..Len(s) /\ DOMAIN <<>> = {}
  BY LenProperties
<1>2. s # <<>> => Len(s) \in Nat \ {0}
  BY EmptySeq
<1>3. s # <<>> => 1 \in DOMAIN s
  BY <1>1, <1>2
<1> QED BY <1>1, <1>3

\* The address that must be on the list.
LEMMA AdmitsIs ==
    ASSUME server.cfg.subnet \in Lists, NEW ip
    PROVE  /\ Admits(Trusted(server.cfg), ip) <=>
                \/ server.cfg.subnet = <<>>
                \/ \E i \in DOMAIN server.cfg.subnet :
                        /\ server.cfg.subnet[i].ip = ip
                        /\ i = 1 \/ ~server.cfg.subnet[i].spaced
           /\ Admits(Trusted(server.cfg), "none") <=> server.cfg.subnet = <<>>
<1> DEFINE s == server.cfg.subnet
           t == Trusted(server.cfg)
<1>1. \A i \in DOMAIN s : s[i].ip # "none"
  <2> DEFINE E == [ip : STRING \ {"none"}, spaced : BOOLEAN]
  <2>1. \A e \in E : e.ip # "none"
    OBVIOUS
  <2>2. s \in Seq(E)
    BY DEF Lists
  <2> HIDE DEF E, s
  <2>3. \A i \in DOMAIN s : s[i] \in E
    BY <2>2, ElementOfSeq, LenProperties
  <2> QED BY <2>1, <2>3
<1>2. DOMAIN t = DOMAIN s /\ \A i \in DOMAIN s :
        t[i].ip = s[i].ip /\ (Matches(t[i]) <=> (i = 1 \/ ~s[i].spaced))
  BY DEF Trusted, Entry, Matches
<1>3. t = <<>> <=> s = <<>>
  <2>1. s \in Lists
    OBVIOUS
  <2>2. s = <<>> <=> DOMAIN s = {}
    BY <2>1, EmptyDomain DEF Lists
  <2>3. t = <<>> <=> DOMAIN t = {}
    <3>1. Len(s) \in Nat /\ DOMAIN s = 1..Len(s)
      BY <2>1, LenProperties DEF Lists
    <3>2. t = [i \in 1..Len(s) |-> t[i]]
      BY <3>1 DEF Trusted
    <3>3. t \in Seq({t[i] : i \in 1..Len(s)})
      BY <3>1, <3>2
    <3> HIDE DEF t
    <3> QED BY <3>3, EmptyDomain
  <2> QED BY <1>2, <2>2, <2>3
<1> HIDE DEF s, t
<1>4. \A a : Admits(t, a) <=> s = <<>> \/ \E i \in DOMAIN s : s[i].ip = a /\ (i = 1 \/ ~s[i].spaced)
  BY <1>2, <1>3 DEF Admits
<1>5. Admits(t, "none") <=> s = <<>>
  BY <1>1, <1>4
<1> QED BY <1>4, <1>5 DEF s, t

-----------------------------------------------------------------------------
(* A report's steps *)

Stages == [pc : {"idle", "next", "body"}, i : 1..(Len(Scanned) + 1), n : 0..MaxReports,
           last : {"none", "delivered", "refused", "lost"}]
Processes ==
    /\ agent.pc \in {"down", "up", "dead"} /\ server.pc \in {"down", "up", "dead"}
    /\ server.http \in BOOLEAN
    /\ server.cfg.subnet \in Lists
    /\ rep \in Stages
    /\ rep.pc # "idle" \/ rep.last # "none" => agent.pc = "up"

\* The body under way is the report's, and it has the keys of the two ends; a handler
\* opens it for a client on the list.
BodyOf ==
    /\ rep.pc = "body" <=> ~Doing("idle")
    /\ rep.pc = "body" => /\ Bodily /\ (agent.cfg.type = "JSON" => More)
                          /\ job.pub = PublicKey /\ job.text # <<>>
    /\ job.pc \in {"open", "read", "failed"} =>
        /\ server.pc # "down"
        /\ job.priv = PrivateKey /\ Admits(Trusted(server.cfg), RealIP)
    /\ Doing("read") /\ job.priv = NoKey /\ job.pub # NoKey => job.got # job.text

\* A report gets on, to a server, under settings that let it through.
ThroughSoFar ==
    /\ server.pc = "down" => rep.last \in {"none", "lost"} /\ rep.i = 1
    /\ server.pc = "up" /\ rep.pc # "idle" /\ rep.i > 1 => GoesThrough
    /\ OutcomeTellsAgreement

ReportInv == AsGiven_ /\ Processes /\ BodyOf /\ ThroughSoFar

\* The list in force.
LEMMA SubnetSettings ==
    ASSUME NEW g
    PROVE  ServerSettings(g).subnet =
            IF g.env.subnet # Absent THEN g.env.subnet
            ELSE IF FlagList(g) # <<>> THEN FlagList(g)
            ELSE IF g.conf.subnet # Absent THEN g.conf.subnet ELSE <<>>
<1> DEFINE cfg == Configured(ServerDefaults, ServerBound, g)
           parsed == [cfg EXCEPT !.addr = Address(cfg, g),
                                 !.crypto = KeyText(CryptoPath(cfg, g)),
                                 !.subnet = IF FlagList(g) = <<>> THEN cfg.subnet ELSE FlagList(g)]
           flagged == Overlay(ServerDefaults, g.flags, ServerBound)
<1>1. ServerSettings(g) = Overlay(parsed, g.env, DOMAIN cfg)
    BY DEF ServerSettings
<1>2. "subnet" \in DOMAIN ServerDefaults /\ "subnet" \notin ServerBound /\ ServerDefaults.subnet = <<>>
    BY DEF ServerDefaults, ServerBound
<1>3. DOMAIN flagged = DOMAIN ServerDefaults /\ flagged.subnet = <<>>
    BY <1>2 DEF Overlay
<1>4. cfg = Overlay(flagged, g.conf, DOMAIN ServerDefaults)
    BY DEF Configured
<1> HIDE DEF flagged, cfg
<1>5. /\ DOMAIN cfg = DOMAIN ServerDefaults
      /\ cfg.subnet = IF g.conf.subnet # Absent THEN g.conf.subnet ELSE <<>>
    BY <1>2, <1>3, <1>4 DEF Overlay
<1>6. /\ DOMAIN parsed = DOMAIN cfg
      /\ parsed.subnet = IF FlagList(g) = <<>> THEN cfg.subnet ELSE FlagList(g)
    BY <1>2, <1>5
<1> HIDE DEF parsed
<1>7. ServerSettings(g).subnet = IF g.env.subnet # Absent THEN g.env.subnet ELSE parsed.subnet
    BY <1>1, <1>2, <1>5, <1>6 DEF Overlay
<1> QED  BY <1>5, <1>6, <1>7

\* A list that is given by the flag is in force without its spaces.
LEMMA FlagListIs ==
    ASSUME NEW g \in ServerGiven, g.flags.subnet # Absent
    PROVE  /\ FlagList(g) \in Lists /\ FlagList(g) # <<>>
           /\ DOMAIN FlagList(g) = DOMAIN g.flags.subnet
           /\ \A i \in DOMAIN FlagList(g) :
                FlagList(g)[i].ip = g.flags.subnet[i].ip /\ ~FlagList(g)[i].spaced
<1> DEFINE E == [ip : STRING \ {"none"}, spaced : BOOLEAN]
           s == g.flags.subnet
           f == FlagList(g)
<1>1. s \in Lists /\ s # <<>>
    BY DeliveryAssumption
<1>2. s \in Seq(E)
    BY <1>1 DEF Lists
<1>3. f = [i \in DOMAIN s |-> Entry(s[i].ip, FALSE)]
    BY DEF FlagList, Unspaced
<1>4. \A e \in E : Entry(e.ip, FALSE) \in E
    BY DEF Entry
<1> HIDE DEF E, s, f
<1>5. Len(s) \in Nat /\ DOMAIN s = 1..Len(s) /\ \A i \in DOMAIN s : s[i] \in E
    BY <1>2, LenProperties, ElementOfSeq
<1>6. f \in Seq(E)
  <2>1. \A i \in 1..Len(s) : Entry(s[i].ip, FALSE) \in E
    BY <1>4, <1>5
  <2>2. f = [i \in 1..Len(s) |-> Entry(s[i].ip, FALSE)]
    BY <1>3, <1>5
  <2>3. f \in [1..Len(s) -> E]
    BY <2>1, <2>2
  <2> QED  BY <1>5, <2>3
<1>7. f # <<>>
    BY <1>1, <1>2, <1>3, <1>6, EmptyDomain
<1>8. \A i \in DOMAIN s : f[i].ip = s[i].ip /\ ~f[i].spaced
    BY <1>3 DEF Entry
<1> QED  BY <1>3, <1>6, <1>7, <1>8 DEF f, s, E, Lists

LEMMA SubnetTyped ==
    ASSUME NEW g \in ServerGiven
    PROVE  ServerSettings(g).subnet \in Lists
<1>1. /\ g.env.subnet \in {Absent} \cup Lists /\ g.conf.subnet \in {Absent} \cup Lists
    BY DeliveryAssumption
<1>2. FlagList(g) # <<>> => FlagList(g) \in Lists
    BY FlagListIs DEF FlagList
<1>3. <<>> \in Lists
    BY EmptySeq DEF Lists
<1> QED  BY <1>1, <1>2, <1>3, SubnetSettings

\* What seals or opens keeps the text and the keys; what cannot be opened is not read.
LEMMA WorkKeeps ==
    ASSUME CipherInv, CipherStep
    PROVE  /\ job'.text = job.text /\ job'.pub = job.pub /\ job'.priv = job.priv
           /\ job.pc # "idle" /\ job'.pc # "idle"
           /\ job'.pc \in {"open", "read", "failed"} => job.pc = "open"
           /\ job'.pc = "read" /\ job.priv = NoKey => job.pc = "open" /\ job'.got = job.wire
BY DEF CipherInv, JobType, CipherStep, SealNothing, SealBlock, SealEnd, OpenNothing, OpenBlock,
       OpenFails, OpenEnd, Doing

LEMMA SealedDiffers ==
    ASSUME CipherInv, job.pc = "open", job.pub # NoKey, job.text # <<>>
    PROVE  job.wire # job.text
<1> SUFFICES ASSUME job.wire = job.text PROVE FALSE
    OBVIOUS
<1> DEFINE k == job.pub
           n == Size[k]
           chunk == Chunk(k, job.text, 0)
<1>1. job.text \in Seq(PlainByte) /\ k \in Pairs /\ n \in Nat \ {0}
    BY Sizes DEF CipherInv, JobType
<1>2. PICK b \in Nat : Whole(b)
    BY DEF CipherInv, Sealed
<1>3. Len(job.text) \in Nat \ {0}
    BY <1>1, EmptySeq
<1>4. b # 0
  <2>1. Covered(k, 0) = 0
    BY <1>1, Sizes DEF Covered
  <2> QED  BY <1>2, <1>3, <2>1 DEF Whole
<1>5. job.wire[0 * n + 1] = OAEP(k, chunk)[1]
  <2>1. 0 \in 0..(b - 1) /\ 1 \in 1..n
    BY <1>1, <1>4
  <2>2. \A j \in 0..(b - 1) : \A i \in 1..Size[k] :
            job.wire[j * Size[k] + i] = OAEP(k, Chunk(k, job.text, j))[i]
    BY <1>2 DEF Whole, Blocks
  <2> QED  BY <2>1, <2>2
<1>6. OAEP(k, chunk)[1].pair = k
    BY <1>1 DEF OAEP
<1>7. job.text[1].pair = NoKey
  <2>1. job.text[1] \in PlainByte
    BY <1>1, <1>3, ElementOfSeq
  <2> QED  BY <2>1 DEF PlainByte
<1>8. 0 * n + 1 = 1
    BY <1>1
<1> QED  BY <1>5, <1>6, <1>7, <1>8

\* The settings do not change under a report.
LEMMA SettingsKept ==
    ASSUME agent' = agent, server'.cfg = server.cfg
    PROVE  /\ (GoesThrough' <=> GoesThrough) /\ (Bodily' <=> Bodily)
           /\ PublicKey' = PublicKey /\ PrivateKey' = PrivateKey /\ RealIP' = RealIP
           /\ \A ip : Admits(Trusted(server.cfg), ip)' <=> Admits(Trusted(server.cfg), ip)
           /\ \A type : By(type)' <=> By(type)
BY DEF GoesThrough, Agree, DropsHash, MissesEntry, Listed, Signs, Bodily, PublicKey, PrivateKey,
      RealIP, Key, By, Admits, Trusted, Matches

\* What the code asks of the settings: no hash where none is read, and an address that
\* is first on the list or follows no space.
LEMMA ThroughIs ==
    GoesThrough <=>
        /\ Key \in {"", IF Bodily THEN agent.cfg.key ELSE ""}
        /\ Bodily => PublicKey = PrivateKey
        /\ agent.cfg.type = "GRPC" \/ server.cfg.subnet = <<>>
            \/ /\ agent.cfg.type = "BatchJSON"
               /\ \E i \in DOMAIN server.cfg.subnet :
                    /\ server.cfg.subnet[i].ip = "125.3.21.1"
                    /\ i = 1 \/ ~server.cfg.subnet[i].spaced
<1> DEFINE s == server.cfg.subnet
           first == \E i \in DOMAIN s : s[i].ip = "125.3.21.1" /\ (i = 1 \/ ~s[i].spaced)
<1>1. first <=> \E i \in Listed : ~(i # 1 /\ s[i].spaced)
    BY DEF Listed
<1>2. MissesEntry <=> agent.cfg.type = "BatchJSON" /\ s # <<>> /\ ~first
    BY <1>1 DEF MissesEntry
<1>3. first => Listed # {}
    BY <1>1
<1> HIDE DEF s, first
<1>4. agent.cfg.type = "GRPC" => ~Bodily
    BY DEF Bodily
<1> QED  BY <1>2, <1>3, <1>4 DEF GoesThrough, Agree, DropsHash, Signs, s, first

-----------------------------------------------------------------------------
(* Answers tell whether the settings let a report through. *)

Verdict(status) ==
    /\ status = "200" => GoesThrough
    /\ status \notin {"200", "panic"} => ~GoesThrough

\* The metric at hand.
LEMMA CurrentIs ==
    ASSUME Processes, More
    PROVE  /\ Current \in Message /\ Current = Signed("", Current)
           /\ Current.mtype \in Types /\ Current.val \in Int
           /\ Current.id \notin {"", "update"} \cup DOMAIN Escaped
<1>1. rep.i \in DOMAIN Scanned
  <2>1. rep.i \in 1..(Len(Scanned) + 1)
    BY DEF Processes, Stages
  <2>2. rep.i <= Len(Scanned)
    BY DEF More
  <2>3. Len(Scanned) \in Nat /\ DOMAIN Scanned = 1..Len(Scanned)
    BY ScannedIs
  <2> QED  BY <2>1, <2>2, <2>3
<1>2. Scanned[rep.i].id \notin {"", "update"} \cup DOMAIN Escaped
    BY <1>1, ScannedIs
<1> QED  BY <1>1, <1>2, UnsignedIs DEF Current, Unsigned

LEMMA URLVerdict ==
    ASSUME Processes, By("URL"), More
    PROVE  Verdict(URLAnswer("none", Current).status)
<1> DEFINE m == Current
           end == URLAnswer("none", m).status
<1>1. /\ m \in Message /\ m = Signed("", m) /\ m.mtype \in Types /\ m.val \in Int
      /\ m.id \notin {"", "update"} \cup DOMAIN Escaped
    BY CurrentIs
<1>2. m = Unsigned(m.mtype, m.id, m.val)
    BY DEF Current, Unsigned
<1>3. GoesThrough <=> Key = "" /\ server.cfg.subnet = <<>>
    BY ThroughIs DEF By, Bodily
<1>4. Admits(Trusted(server.cfg), "none") <=> server.cfg.subnet = <<>>
    BY AdmitsIs DEF Processes
<1> HIDE DEF m
<1>5. UpdateURL(store, Key, m) = Upsert(store, Key, m)
  <2>1. PathName(m.id) = m.id
    BY <1>1 DEF PathName
  <2>2. m.val \notin {None, NaN, Garbage}
    BY <1>1, RoutesAssumption
  <2>3. ThreeParts(m)
    BY <1>1, <2>2 DEF ThreeParts
  <2>4. m.mtype # ""
    BY <1>1 DEF Types
  <2>5. CreateError(m.mtype, m.id) = "none"
    BY <1>1, <2>4 DEF CreateError
  <2>6. ValueError(m.mtype, m.val) = "none"
    BY <1>1, <2>2 DEF ValueError
  <2> QED  BY <1>2, <2>1, <2>3, <2>5, <2>6 DEF UpdateURL
<1>6. Ends(Upsert(store, Key, m).status, Key, "")
  <2>1. m.val # None
    BY <1>1, RoutesAssumption
  <2>2. Ends(Upsert(store, Key, Signed("", m)).status, Key, "")
    BY <1>1, <2>1, SignedTaken
  <2> QED  BY <1>1, <2>2
<1>7. CASE server.cfg.subnet = <<>>
  <2>1. end = Upsert(store, Key, m).status
    BY <1>4, <1>5, <1>7 DEF URLAnswer
  <2>2. GoesThrough <=> Key = ""
    BY <1>3, <1>7
  <2> HIDE DEF end
  <2>3. Verdict(end)
    BY <1>6, <2>1, <2>2 DEF Verdict, Ends
  <2> QED  BY <2>3 DEF end, m
<1>8. CASE server.cfg.subnet # <<>>
    BY <1>3, <1>4, <1>8 DEF URLAnswer, Verdict, Answer
<1> QED  BY <1>7, <1>8 DEF m

LEMMA RPCVerdict ==
    ASSUME Processes, By("GRPC"), More
    PROVE  Verdict(UpsertRPC(store, Key, Signed(agent.cfg.key, Current)).status)
<1> DEFINE m == Current
           s == Signed(agent.cfg.key, m)
<1>1. /\ m \in Message /\ m = Signed("", m) /\ m.mtype \in Types /\ m.val \in Int
      /\ m.id \notin {"", "update"} \cup DOMAIN Escaped
    BY CurrentIs
<1>2. m = Unsigned(m.mtype, m.id, m.val)
    BY DEF Current, Unsigned
<1>3. GoesThrough <=> Key = ""
    BY ThroughIs DEF By, Bodily
<1>4. s.mtype = m.mtype /\ s.id = m.id /\ s.val = m.val
    BY <1>1 DEF Signed, Message
<1> HIDE DEF m, s
<1>5. Ends(Upsert(store, Key, m).status, Key, "")
  <2>1. m.val # None
    BY <1>1, RoutesAssumption
  <2>2. Ends(Upsert(store, Key, Signed("", m)).status, Key, "")
    BY <1>1, <2>1, SignedTaken
  <2> QED  BY <1>1, <2>2
<1>6. UpsertRPC(store, Key, s) = IF Upsert(store, Key, m).status \in {"200", "panic"}
                                 THEN Upsert(store, Key, m) ELSE Answer("2", store)
    BY <1>1, <1>2, <1>4 DEF UpsertRPC
<1> DEFINE inner == Upsert(store, Key, m).status
           end == UpsertRPC(store, Key, s).status
<1>7. end = IF inner \in {"200", "panic"} THEN inner ELSE "2"
    BY <1>6 DEF Answer
<1> HIDE DEF inner, end
<1>8. Verdict(end)
    BY <1>3, <1>5, <1>7 DEF Ends, Verdict, inner
<1> QED  BY <1>8 DEF end, m, s

LEMMA AgentKeyTyped ==
    ASSUME AsGiven_, agent.pc = "up"
    PROVE  agent.cfg.key \in {""} \cup STRING
<1> DEFINE g == given.agent
           cfg == Configured(AgentDefaults, AgentBound, g)
<1>1. "key" \in AgentBound /\ AgentDefaults["key"] = ""
    BY DEF AgentBound, AgentDefaults
<1>2. agent.cfg["key"] = IF g.env["key"] # Absent THEN g.env["key"] ELSE cfg["key"]
    BY <1>1, AgentSettingsAt DEF AsGiven_, AgentAsGiven
<1>3. cfg["key"] = IF g.conf["key"] # Absent THEN g.conf["key"]
                   ELSE IF g.flags["key"] # Absent THEN g.flags["key"] ELSE ""
    BY <1>1, AgentConfigured
<1>4. {g.flags["key"], g.conf["key"], g.env["key"]} \subseteq {Absent} \cup STRING
    BY DeliveryAssumption DEF AsGiven_, GivenOK
<1> HIDE DEF g, cfg
<1> QED  BY <1>2, <1>3, <1>4

\* A signed metric is a metric.
LEMMA SignedIs ==
    ASSUME NEW key \in {""} \cup STRING, NEW m \in Message
    PROVE  Signed(key, m) \in Message
<1>1. Signature(key, m) \in Hash
  <2>1. <<m.mtype, m.id, m.val>> \in STRING \X STRING \X Values
    BY DEF Message
  <2> QED  BY <2>1 DEF Signature, NoHash, Hash
<1> HIDE DEF Hash
<1> QED  BY <1>1 DEF Signed, Message

LEMMA InBodyIs ==
    ASSUME AsGiven_, Processes, Bodily, agent.cfg.type = "JSON" => More, agent.pc = "up"
    PROVE  /\ InBody \in Seq(Message) /\ Len(InBody) \in Nat \ {0} /\ InBody # Garbage
           /\ \A n \in 1..Len(InBody) : \E m \in Message :
                m.mtype \in Types /\ m.val # None /\ InBody[n] = Signed(agent.cfg.key, m)
<1>0. InBody \in Seq(Message) => InBody # Garbage
    BY RoutesAssumption
<1>1. None \notin Int /\ agent.cfg.key \in {""} \cup STRING
    BY RoutesAssumption, AgentKeyTyped
<1>2. CASE agent.cfg.type = "BatchJSON"
  <2> DEFINE Bare(i) == Unsigned(Scanned[i].mtype, Scanned[i].id, Scanned[i].val)
             n == Len(Scanned)
  <2>1. InBody = [i \in 1..n |-> Signed(agent.cfg.key, Bare(i))]
    BY <1>2, ScannedIs DEF InBody, By
  <2>2. \A i \in 1..n : Bare(i) \in Message /\ Bare(i).mtype \in Types /\ Bare(i).val # None
    BY <1>1, ScannedIs, UnsignedIs
  <2>3. n \in Nat \ {0}
    BY ScannedIs
  <2> HIDE DEF Bare, n
  <2>4. \A i \in 1..n : Signed(agent.cfg.key, Bare(i)) \in Message
    BY <1>1, <2>2, SignedIs
  <2>5. InBody \in [1..n -> Message]
    BY <2>1, <2>4
  <2>6. InBody \in Seq(Message) /\ Len(InBody) = n
    BY <2>3, <2>5
  <2>7. \A i \in 1..n : InBody[i] = Signed(agent.cfg.key, Bare(i))
    BY <2>1
  <2> QED  BY <1>0, <2>2, <2>3, <2>6, <2>7
<1>3. CASE agent.cfg.type = "JSON"
  <2> DEFINE s == Signed(agent.cfg.key, Current)
  <2>1. InBody = <<s>>
    <3>1. InBody = [i \in DOMAIN <<Current>> |-> Signed(agent.cfg.key, <<Current>>[i])]
      BY <1>3 DEF InBody, By
    <3> HIDE DEF Current
    <3> QED  BY <3>1
  <2>2. Current \in Message /\ Current.mtype \in Types /\ Current.val # None
    BY <1>1, <1>3, CurrentIs
  <2>3. s \in Message
    BY <1>1, <2>2, SignedIs
  <2> HIDE DEF s
  <2>4. InBody \in Seq(Message) /\ Len(InBody) = 1 /\ InBody[1] = s
    BY <2>1, <2>3
  <2>5. \A i \in 1..Len(InBody) : InBody[i] = s
    BY <2>4
  <2> QED  BY <1>0, <2>2, <2>4, <2>5 DEF s
<1> QED  BY <1>2, <1>3 DEF Bodily

\* A body that gets to its handler has passed the list, and the report goes
\* through if it is read and its signatures hold.
LEMMA BodyVerdict ==
    ASSUME AsGiven_, Processes, BodyOf, CipherInv, rep.pc = "body", Over
    PROVE  Verdict(UpdateJSON(store, Key, TRUE, Decoded).status)
<1> DEFINE end == UpdateJSON(store, Key, TRUE, Decoded).status
           mine == agent.cfg.key
<1>1. agent.pc = "up" /\ Bodily /\ (agent.cfg.type = "JSON" => More)
    BY DEF Processes, BodyOf
<1>2. /\ job.pub = PublicKey /\ job.text # <<>> /\ job.priv = PrivateKey
      /\ Admits(Trusted(server.cfg), RealIP)
      /\ Doing("read") /\ job.priv = NoKey /\ job.pub # NoKey => job.got # job.text
    BY DEF BodyOf, Over
<1>3. /\ InBody # Garbage
      /\ Ends(UpsertBatch(store, Key, InBody).status, Key, mine)
    BY <1>1, InBodyIs, BatchTaken
<1>4. GoesThrough <=> Key \in {"", mine} /\ PublicKey = PrivateKey
  <2>1. \/ server.cfg.subnet = <<>>
        \/ \E i \in DOMAIN server.cfg.subnet :
                /\ server.cfg.subnet[i].ip = RealIP
                /\ i = 1 \/ ~server.cfg.subnet[i].spaced
    BY <1>2, AdmitsIs DEF Processes
  <2>2. agent.cfg.type = "JSON" => server.cfg.subnet = <<>>
    BY <1>2, AdmitsIs DEF Processes, RealIP, By
  <2>3. agent.cfg.type = "BatchJSON" => RealIP = "125.3.21.1"
    BY <1>1 DEF RealIP, By
  <2> QED  BY <1>1, <2>1, <2>2, <2>3, ThroughIs DEF Bodily
<1>5. CASE Decoded = InBody
  <2>1. Doing("read") /\ job.got = job.text
    BY <1>3, <1>5 DEF Decoded
  <2>2. PublicKey = PrivateKey
    BY <1>2, <2>1 DEF CipherInv, WrongKeyFails
  <2>3. end = UpsertBatch(store, Key, InBody).status
    BY <1>3, <1>5 DEF UpdateJSON
  <2> HIDE DEF end, mine
  <2>4. Verdict(end)
    BY <1>3, <1>4, <2>2, <2>3 DEF Verdict, Ends
  <2> QED  BY <2>4 DEF end
<1>6. CASE Decoded = Garbage
  <2>1. ~(Doing("read") /\ job.got = job.text)
    BY <1>3, <1>6 DEF Decoded
  <2>2. PublicKey # PrivateKey
    BY <1>2, <2>1 DEF CipherInv, RoundTrip, Over, Doing
  <2>3. end = "400"
    BY <1>6 DEF UpdateJSON, Answer
  <2> QED  BY <1>4, <2>2, <2>3 DEF Verdict
<1> QED  BY <1>5, <1>6 DEF Decoded

-----------------------------------------------------------------------------
(* Every step keeps what reports rest on. *)

LEMMA ReportStart ==
    ASSUME Init PROVE ReportInv
<1>1. AsGiven_
    BY DEF Init, AsGiven_, GivenOK, AgentAsGiven, ServerAsGiven, Process
<1>2. Processes
  <2>1. ServerDefaults.subnet = <<>> /\ <<>> \in Lists
    BY EmptySeq DEF ServerDefaults, Lists
  <2>2. Len(Scanned) \in Nat /\ MaxReports \in Nat
    BY ScannedIs, DeliveryAssumption
  <2> QED  BY <2>1, <2>2 DEF Init, Processes, Stages, Process
<1>3. BodyOf /\ ThroughSoFar
    BY DEF Init, BodyOf, ThroughSoFar, OutcomeTellsAgreement, CipherInit, Idle, Doing
<1> QED  BY <1>1, <1>2, <1>3 DEF ReportInv

LEMMA ServerStartKeeps ==
    ASSUME ReportInv, AsGiven_', ServerStart
    PROVE  ReportInv'
<1> USE DEF ReportInv
<1>1. server.pc = "down" /\ UNCHANGED <<given, agent, store, job, rep>>
    BY DEF ServerStart
<1>2. rep.last \in {"none", "lost"} /\ rep.i = 1
    BY <1>1 DEF ThroughSoFar
<1>3. job.pc \notin {"open", "read", "failed"}
    BY <1>1 DEF BodyOf
<1>4. BodyOf'
    BY <1>1, <1>3 DEF BodyOf, Doing, Bodily, More, PublicKey
<1>5. server'.pc # "down" /\ ThroughSoFar'
  <2>1. server' = Dead \/ \E http \in BOOLEAN : server' = Serving(http)
    BY DEF ServerStart
  <2>2. server'.pc # "down"
    BY <2>1 DEF AsGiven_, ServerAsGiven, Dead, Serving
  <2> QED  BY <1>1, <1>2, <2>2 DEF ThroughSoFar, OutcomeTellsAgreement
<1>6. Processes'
  <2>1. server' = Dead \/ \E http \in BOOLEAN : server' = Serving(http)
    BY DEF ServerStart
  <2>2. ServerSettings(given.server).subnet \in Lists
    BY SubnetTyped DEF AsGiven_, GivenOK
  <2>3. CASE server' = Dead
    BY <1>1, <2>3 DEF Dead, Processes, AsGiven_, ServerAsGiven
  <2>4. CASE \E http \in BOOLEAN : server' = Serving(http)
    BY <1>1, <2>2, <2>4 DEF Serving, Processes
  <2> QED  BY <2>1, <2>3, <2>4
<1> QED  BY <1>4, <1>5, <1>6

LEMMA AgentStartKeeps ==
    ASSUME ReportInv, AsGiven_', AgentStart
    PROVE  ReportInv'
<1> USE DEF ReportInv
<1>1. agent.pc = "down" /\ UNCHANGED <<given, server, store, job, rep>>
    BY DEF AgentStart
<1>2. rep.pc = "idle" /\ rep.last = "none"
    BY <1>1 DEF Processes
<1>3. agent'.pc \in {"up", "dead"}
    BY DEF AgentStart, AsGiven_, AgentAsGiven
<1>4. Processes'
    BY <1>1, <1>2, <1>3 DEF Processes
<1>5. job.pc = "idle"
    BY <1>2 DEF BodyOf, Doing
<1>6. BodyOf'
    BY <1>1, <1>2, <1>5 DEF BodyOf, Doing
<1>7. ThroughSoFar'
    BY <1>1, <1>2 DEF ThroughSoFar, OutcomeTellsAgreement
<1> QED  BY <1>4, <1>6, <1>7

\* A report that ends with nothing answered, or begins.
LEMMA IdleKeeps ==
    ASSUME ReportInv, UNCHANGED <<given, agent, server>>, job' = job \/ job' = Idle,
           NEW how \in {"refused", "lost"}, rep' = Ended(how), rep.pc # "idle",
           rep.pc = "body" => job' = Idle,
           how = "refused" => server.pc # "down" /\ (server.pc = "up" => ~GoesThrough)
    PROVE  ReportInv'
<1> USE DEF ReportInv
<1>1. rep' = [rep EXCEPT !.pc = "idle", !.last = how] /\ rep \in Stages /\ agent.pc = "up"
    BY DEF Ended, Processes
<1>2. rep' \in Stages /\ rep'.pc = "idle" /\ rep'.last = how /\ rep'.i = rep.i
    BY <1>1 DEF Stages
<1>3. job'.pc = "idle"
    BY <1>1 DEF BodyOf, Doing, Idle, Stages
<1>4. Processes'
    BY <1>1, <1>2 DEF Processes
<1>5. BodyOf'
    BY <1>2, <1>3 DEF BodyOf, Doing
<1>6. ThroughSoFar'
    BY <1>2, SettingsKept DEF ThroughSoFar, OutcomeTellsAgreement
<1>7. AsGiven_'
    BY DEF AsGiven_, GivenOK, AgentAsGiven, ServerAsGiven
<1> QED  BY <1>4, <1>5, <1>6, <1>7

\* An answer that is a verdict: the report goes on if it is 200, or ends.
LEMMA AnswerKeeps ==
    ASSUME ReportInv, UNCHANGED <<given, agent>>, server.pc = "up", rep.pc # "idle",
           NEW route, NEW ip, NEW a, NEW ms, Answered(route, ip, a, ms), Verdict(a.status),
           NEW next \in Stages, Then(a, next), next.pc \in {"idle", "next"},
           next.last = IF next.pc = "idle" THEN "delivered" ELSE rep.last,
           job' = Idle \/ (job' = job /\ rep.pc # "body")
    PROVE  ReportInv'
<1> USE DEF ReportInv
<1>1. agent.pc = "up" /\ rep \in Stages
    BY DEF Processes
<1>2. server' = Dead \/ server' = server
    BY DEF Answered
<1>3. server'.cfg = server.cfg /\ server'.pc \in {"up", "dead"} /\ server'.http = server.http
      /\ server' = [pc |-> server'.pc, cfg |-> server'.cfg, http |-> server'.http]
    BY <1>2 DEF Dead, AsGiven_, ServerAsGiven
<1>4. AsGiven_'
    BY <1>3 DEF AsGiven_, GivenOK, AgentAsGiven, ServerAsGiven
<1>5. \/ a.status = "200" /\ rep' = next
      \/ \E how \in {"lost", "refused"} :
            /\ rep' = [rep EXCEPT !.pc = "idle", !.last = how]
            /\ how = "refused" => a.status \notin {"200", "panic"}
  <2>1. CASE a.status = "200"
    BY <2>1 DEF Then
  <2>2. CASE a.status # "200"
    BY <2>2 DEF Then, EndOf, Ended
  <2> QED  BY <2>1, <2>2
<1>6. CASE a.status = "200" /\ rep' = next
  <2>1. GoesThrough
    BY <1>6 DEF Verdict
  <2>2. rep'.last = "refused" => rep.last = "refused"
    BY <1>6
  <2>3. job'.pc = "idle" /\ rep'.pc # "body" /\ rep' \in Stages
    BY <1>1, <1>6 DEF BodyOf, Doing, Idle, Stages
  <2>4. Processes'
    BY <1>1, <1>3, <2>3 DEF Processes
  <2>5. BodyOf'
    BY <2>3 DEF BodyOf, Doing
  <2>6. GoesThrough' <=> GoesThrough
    BY <1>3, SettingsKept
  <2>7. rep.last # "refused"
    BY <2>1 DEF ThroughSoFar, OutcomeTellsAgreement
  <2>8. ThroughSoFar'
    BY <1>3, <2>1, <2>2, <2>6, <2>7 DEF ThroughSoFar, OutcomeTellsAgreement
  <2> QED  BY <1>4, <2>4, <2>5, <2>8
<1>7. ASSUME NEW how \in {"lost", "refused"}, rep' = [rep EXCEPT !.pc = "idle", !.last = how],
             how = "refused" => a.status \notin {"200", "panic"}
      PROVE  ReportInv'
  <2>1. how = "refused" => ~GoesThrough
    BY <1>7 DEF Verdict
  <2>2. rep' \in Stages /\ rep'.pc = "idle" /\ rep'.last = how
    BY <1>1, <1>7 DEF Stages
  <2>3. job'.pc = "idle"
    BY <1>1 DEF BodyOf, Doing, Idle, Stages
  <2>4. Processes'
    BY <1>1, <1>3, <2>2 DEF Processes
  <2>5. BodyOf'
    BY <2>2, <2>3 DEF BodyOf, Doing
  <2>6. GoesThrough' <=> GoesThrough
    BY <1>3, SettingsKept
  <2>7. ThroughSoFar'
    BY <1>3, <2>1, <2>2, <2>6 DEF ThroughSoFar, OutcomeTellsAgreement
  <2> QED  BY <1>4, <2>4, <2>5, <2>7
<1> QED  BY <1>5, <1>6, <1>7

LEMMA FollowingIs ==
    ASSUME rep \in Stages, More
    PROVE  /\ Following \in Stages /\ Following.pc = "next" /\ Following.last = rep.last
           /\ Following.i = rep.i + 1
<1>1. rep.i \in 1..(Len(Scanned) + 1) /\ rep.i <= Len(Scanned) /\ Len(Scanned) \in Nat
    BY ScannedIs DEF Stages, More
<1>2. rep.i + 1 \in 1..(Len(Scanned) + 1)
    BY <1>1
<1> QED  BY <1>2 DEF Following, Stages

LEMMA EndedIs ==
    ASSUME rep \in Stages
    PROVE  /\ Ended("delivered") \in Stages /\ Ended("delivered").pc = "idle"
           /\ Ended("delivered").last = "delivered"
BY DEF Ended, Stages

LEMMA TickKeeps ==
    ASSUME ReportInv, ReportTick
    PROVE  ReportInv'
<1> USE DEF ReportInv
<1>1. /\ agent.pc = "up" /\ rep.pc = "idle" /\ rep \in Stages
      /\ UNCHANGED <<given, agent, server, job>>
      /\ rep' = [rep EXCEPT !.pc = "next", !.i = 1, !.n = @ + 1]
    BY DEF ReportTick, Nothing, Processes
<1>2. rep.n + 1 \in 0..MaxReports
  <2>1. rep.n \in 0..MaxReports /\ MaxReports \in Nat
    BY <1>1, DeliveryAssumption DEF Stages
  <2>2. rep.n < MaxReports
    BY DEF ReportTick
  <2> QED  BY <2>1, <2>2
<1>3. 1 \in 1..(Len(Scanned) + 1)
  <2>1. Len(Scanned) \in Nat
    BY ScannedIs
  <2> QED  BY <2>1
<1>4. rep' \in Stages /\ rep'.pc = "next" /\ rep'.i = 1 /\ rep'.last = rep.last
    BY <1>1, <1>2, <1>3 DEF Stages
<1>5. Processes'
    BY <1>1, <1>4 DEF Processes
<1>6. BodyOf'
    BY <1>1, <1>4 DEF BodyOf, Doing
<1>7. ThroughSoFar'
    BY <1>1, <1>4, SettingsKept DEF ThroughSoFar, OutcomeTellsAgreement
<1>8. AsGiven_'
    BY <1>1 DEF AsGiven_, GivenOK, AgentAsGiven, ServerAsGiven
<1> QED  BY <1>5, <1>6, <1>7, <1>8

LEMMA URLKeeps ==
    ASSUME ReportInv, SendURL
    PROVE  ReportInv'
<1>1. rep.pc = "next" /\ By("URL") /\ More /\ UNCHANGED <<given, agent, job>>
    BY DEF SendURL
<1>2. CASE ~ReachesHTTP /\ LostReport /\ Nothing
    BY <1>1, <1>2, IdleKeeps DEF LostReport, Nothing
<1>3. CASE ReachesHTTP
  <2> DEFINE a == URLAnswer("none", Current)
  <2>1. Answered("url", "none", a, <<Current>>) /\ Then(a, Following) /\ server.pc = "up"
    BY <1>3 DEF SendURL, ReachesHTTP, HTTPOpen
  <2>2. Verdict(a.status)
    BY <1>1, URLVerdict DEF ReportInv
  <2>3. Following \in Stages /\ Following.pc = "next" /\ Following.last = rep.last
    BY <1>1, FollowingIs DEF ReportInv, Processes
  <2> HIDE DEF a
  <2> QED  BY <1>1, <2>1, <2>2, <2>3, AnswerKeeps
<1> QED  BY <1>2, <1>3 DEF SendURL

LEMMA RPCKeeps ==
    ASSUME ReportInv, SendRPC
    PROVE  ReportInv'
<1>1. rep.pc = "next" /\ By("GRPC") /\ More /\ UNCHANGED <<given, agent, job>>
    BY DEF SendRPC
<1>2. CASE ~ReachesRPC /\ LostReport /\ Nothing
    BY <1>1, <1>2, IdleKeeps DEF LostReport, Nothing
<1>3. CASE ReachesRPC
  <2> DEFINE m == Signed(agent.cfg.key, Current)
             a == UpsertRPC(store, Key, m)
  <2>1. Answered("rpc", "none", a, <<m>>) /\ Then(a, Following) /\ server.pc = "up"
    BY <1>3 DEF SendRPC, ReachesRPC, RPCOpen
  <2>2. Verdict(a.status)
    BY <1>1, RPCVerdict DEF ReportInv
  <2>3. Following \in Stages /\ Following.pc = "next" /\ Following.last = rep.last
    BY <1>1, FollowingIs DEF ReportInv, Processes
  <2> HIDE DEF a, m
  <2> QED  BY <1>1, <2>1, <2>2, <2>3, AnswerKeeps
<1> QED  BY <1>2, <1>3 DEF SendRPC

LEMMA HandleKeeps ==
    ASSUME ReportInv, CipherInv, Handle
    PROVE  ReportInv'
<1>1. rep.pc = "body" /\ Over /\ job' = Idle /\ UNCHANGED <<given, agent>>
    BY DEF Handle, CipherDone
<1>2. CASE ~HTTPOpen /\ LostReport /\ Nothing
    BY <1>1, <1>2, IdleKeeps DEF LostReport, Nothing
<1>3. CASE HTTPOpen
  <2> DEFINE a == UpdateJSON(store, Key, TRUE, Decoded)
             next == IF By("BatchJSON") THEN Ended("delivered") ELSE Following
  <2>1. Answered("json", RealIP, a, Decoded) /\ Then(a, next) /\ server.pc = "up"
    BY <1>3 DEF Handle, HTTPOpen
  <2>2. Verdict(a.status)
    BY <1>1, BodyVerdict DEF ReportInv
  <2>3. rep \in Stages /\ (~By("BatchJSON") => More)
    BY <1>1 DEF ReportInv, Processes, BodyOf, Bodily, By
  <2>4. next \in Stages /\ next.pc \in {"idle", "next"}
        /\ next.last = IF next.pc = "idle" THEN "delivered" ELSE rep.last
    BY <2>3, FollowingIs, EndedIs
  <2> HIDE DEF a, next
  <2> QED  BY <1>1, <2>1, <2>2, <2>4, AnswerKeeps
<1> QED  BY <1>2, <1>3 DEF Handle

LEMMA SealKeeps ==
    ASSUME ReportInv, SealBody
    PROVE  ReportInv'
<1> USE DEF ReportInv
<1>1. /\ rep.pc = "next" /\ (By("BatchJSON") \/ (By("JSON") /\ More)) /\ rep \in Stages
      /\ UNCHANGED <<given, agent, server>>
      /\ rep' = [rep EXCEPT !.pc = "body"]
    BY DEF SealBody, Nothing, Processes
<1>2. PICK n \in Lengths : Seal(n, PublicKey)
    BY DEF SealBody
<1>3. job'.pc = "seal" /\ job'.text = Text(n) /\ job'.pub = PublicKey
    BY <1>2 DEF Seal, Idle
<1>4. Text(n) # <<>>
  <2>1. n \in Nat \ {0}
    BY DeliveryAssumption
  <2>2. Text(n) \in Seq(PlainByte) /\ 1 \in DOMAIN Text(n)
    BY <2>1, TextIs DEF Text
  <2> QED  BY <2>2, EmptyDomain
<1>5. rep' \in Stages /\ rep'.pc = "body" /\ rep'.i = rep.i /\ rep'.last = rep.last
    BY <1>1 DEF Stages
<1>6. Processes'
    BY <1>1, <1>5 DEF Processes
<1>7. BodyOf'
  <2>1. Bodily' /\ (agent'.cfg.type = "JSON" => More') /\ PublicKey' = PublicKey
    BY <1>1, <1>5, SettingsKept DEF By, Bodily, More
  <2> QED  BY <1>3, <1>4, <1>5, <2>1 DEF BodyOf, Doing
<1>8. ThroughSoFar'
    BY <1>1, <1>5, SettingsKept DEF ThroughSoFar, OutcomeTellsAgreement
<1>9. AsGiven_'
    BY <1>1 DEF AsGiven_, GivenOK, AgentAsGiven, ServerAsGiven
<1> QED  BY <1>6, <1>7, <1>8, <1>9

\* The body moves on, its report does not.
LEMMA WorksOn ==
    ASSUME ReportInv, UNCHANGED <<given, agent, server, rep>>, ~Doing("idle"), ~Doing("idle")',
           job'.pub = job.pub, job'.text = job.text,
           job'.pc \in {"open", "read", "failed"} =>
                /\ server.pc # "down"
                /\ job'.priv = PrivateKey /\ Admits(Trusted(server.cfg), RealIP),
           Doing("read")' /\ job'.priv = NoKey /\ job'.pub # NoKey => job'.got # job'.text
    PROVE  ReportInv'
<1> USE DEF ReportInv
<1>1. Processes'
    BY DEF Processes
<1>2. BodyOf'
    BY SettingsKept DEF BodyOf, Doing, More
<1>3. ThroughSoFar'
    BY SettingsKept DEF ThroughSoFar, OutcomeTellsAgreement
<1>4. AsGiven_'
    BY DEF AsGiven_, GivenOK, AgentAsGiven, ServerAsGiven
<1> QED  BY <1>1, <1>2, <1>3, <1>4

LEMMA CipherWorkKeeps ==
    ASSUME ReportInv, CipherInv, CipherWork
    PROVE  ReportInv'
<1>1. CipherStep /\ UNCHANGED <<given, agent, server, rep>>
    BY DEF CipherWork, Nothing
<1>2. /\ job'.text = job.text /\ job'.pub = job.pub /\ job'.priv = job.priv
      /\ job.pc # "idle" /\ job'.pc # "idle"
      /\ job'.pc \in {"open", "read", "failed"} => job.pc = "open"
      /\ job'.pc = "read" /\ job.priv = NoKey => job.pc = "open" /\ job'.got = job.wire
    BY <1>1, WorkKeeps
<1>3. job.text # <<>>
    BY <1>2 DEF ReportInv, BodyOf, Doing
<1>4. job'.pc = "read" /\ job'.priv = NoKey /\ job'.pub # NoKey => job'.got # job'.text
    BY <1>2, <1>3, SealedDiffers
<1>5. job'.pc \in {"open", "read", "failed"} =>
        /\ server.pc # "down"
        /\ job'.priv = PrivateKey /\ Admits(Trusted(server.cfg), RealIP)
    BY <1>2 DEF ReportInv, BodyOf
<1> QED  BY <1>1, <1>2, <1>4, <1>5, WorksOn DEF Doing

LEMMA PostKeeps ==
    ASSUME ReportInv, CipherInv, Post
    PROVE  ReportInv'
<1>1. rep.pc = "body" /\ Doing("sent") /\ UNCHANGED <<given, agent>>
    BY DEF Post
<1>2. CASE ~ReachesHTTP /\ LostReport /\ Nothing /\ Drop
    BY <1>1, <1>2, IdleKeeps DEF LostReport, Nothing, Drop
<1>3. CASE /\ ReachesHTTP /\ Admits(Trusted(server.cfg), RealIP)
           /\ Arrive(PrivateKey) /\ Nothing /\ UNCHANGED rep
  <2>1. /\ job'.pc = "open" /\ job'.text = job.text /\ job'.pub = job.pub
        /\ job'.priv = PrivateKey
    BY <1>3 DEF Arrive, CipherInv, JobType
  <2>2. server.pc # "down" /\ UNCHANGED <<server, rep>>
    BY <1>3 DEF Nothing, ReachesHTTP, HTTPOpen
  <2> QED  BY <1>1, <1>3, <2>1, <2>2, WorksOn DEF Doing
<1>4. CASE /\ ReachesHTTP /\ ~Admits(Trusted(server.cfg), RealIP)
           /\ Answered("json", RealIP, Answer("403", store), InBody)
           /\ rep' = Ended("refused")
           /\ Drop
  <2>1. server' = server /\ job' = Idle /\ server.pc = "up"
    BY <1>4 DEF Answered, Answer, Drop, ReachesHTTP, HTTPOpen
  <2>2. ~GoesThrough
    <3>1. Bodily /\ agent.pc = "up" /\ server.cfg.subnet \in Lists
      BY <1>1 DEF ReportInv, BodyOf, Processes
    <3>2. ~(server.cfg.subnet = <<>> \/ \E i \in DOMAIN server.cfg.subnet :
                /\ server.cfg.subnet[i].ip = RealIP
                /\ i = 1 \/ ~server.cfg.subnet[i].spaced)
      BY <1>4, <3>1, AdmitsIs
    <3>3. agent.cfg.type = "BatchJSON" => RealIP = "125.3.21.1"
      BY <3>1 DEF RealIP, By
    <3> QED  BY <3>1, <3>2, <3>3, ThroughIs DEF Bodily
  <2> QED  BY <1>1, <1>4, <2>1, <2>2, IdleKeeps
<1> QED  BY <1>2, <1>3, <1>4 DEF Post

LEMMA AllSentKeeps ==
    ASSUME ReportInv, AsGiven_', AllSent
    PROVE  ReportInv'
<1> USE DEF ReportInv
<1>1. /\ rep.pc = "next" /\ ~More /\ rep' = Ended("delivered") /\ rep \in Stages
      /\ UNCHANGED <<given, agent, server, job>>
    BY DEF AllSent, Nothing, Processes
<1>2. rep.i > 1
  <2>1. rep.i \in 1..(Len(Scanned) + 1) /\ Len(Scanned) \in Nat \ {0}
    BY <1>1, ScannedIs DEF Stages
  <2> QED  BY <1>1, <2>1 DEF More
<1>3. rep' \in Stages /\ rep'.pc = "idle" /\ rep'.last = "delivered"
    BY <1>1, EndedIs
<1>4. Processes'
    BY <1>1, <1>3 DEF Processes
<1>5. BodyOf'
    BY <1>1, <1>3 DEF BodyOf, Doing
<1>6. server.pc # "down" /\ (server.pc = "up" => GoesThrough)
    BY <1>1, <1>2 DEF ThroughSoFar
<1>7. ThroughSoFar'
    BY <1>1, <1>3, <1>6, SettingsKept DEF ThroughSoFar, OutcomeTellsAgreement
<1> QED  BY <1>4, <1>5, <1>7

\* Nothing that others do but the end of the server touches a report.
LEMMA OthersKeep ==
    ASSUME ReportInv, AsGiven_', UNCHANGED <<given, agent, job, rep>>,
           server' = server \/ (server' = Dead /\ server.pc = "up")
    PROVE  ReportInv'
<1> USE DEF ReportInv
<1>1. /\ server'.cfg = server.cfg /\ server'.http = server.http
      /\ server'.pc \in {server.pc, "dead"} /\ (server'.pc = "down" => server.pc = "down")
      /\ (server'.pc = "up" => server.pc = "up")
      /\ (server.pc # "down" => server'.pc # "down")
    BY DEF Dead, AsGiven_, ServerAsGiven
<1>2. Processes'
    BY <1>1 DEF Processes
<1>3. BodyOf'
    BY <1>1, SettingsKept DEF BodyOf, Doing, More
<1>4. ThroughSoFar'
    BY <1>1, SettingsKept DEF ThroughSoFar, OutcomeTellsAgreement
<1> QED  BY <1>2, <1>3, <1>4

LEMMA ReportStep ==
    ASSUME ReportInv, CipherInv, AsGiven_', [Next]_vars
    PROVE  ReportInv'
<1>1. CASE UnknownType
  <2>1. rep.pc = "next" /\ LostReport /\ UNCHANGED <<given, agent, server, job>>
    BY <1>1 DEF UnknownType, Nothing, LostReport
  <2> QED  BY <2>1, IdleKeeps DEF LostReport
<1>2. CASE OtherRequest
  <2>1. /\ UNCHANGED <<given, agent, job, rep>>
        /\ server' = server \/ (server' = Dead /\ server.pc = "up")
    BY <1>2 DEF OtherRequest, Answered, RPCOpen, HTTPOpen
  <2> QED  BY <2>1, OthersKeep
<1>3. CASE UNCHANGED vars
    BY <1>3, OthersKeep DEF vars
<1> QED
    BY <1>1, <1>2, <1>3, ServerStartKeeps, AgentStartKeeps, TickKeeps, URLKeeps, RPCKeeps,
       HandleKeeps, SealKeeps, CipherWorkKeeps, PostKeeps, AllSentKeeps DEF Next, ReporterStep

LEMMA ReportAlways == Spec => []ReportInv
<1>1. Init => ReportInv
    BY ReportStart
<1>2. ReportInv /\ CipherInv /\ AsGiven_' /\ [Next]_vars => ReportInv'
    BY ReportStep
<1>3. Spec => []CipherInv
    BY DeliveryUsesCipher, CipherInvAlways, PTL
<1> QED  BY <1>1, <1>2, <1>3, AsGivenAlways, PTL DEF Spec

\* A report gets through if the operators agree, but for a gRPC report to a server with
\* a key and an address listed after a space, and in no other case: for all settings,
\* keys, lists and metrics, and whatever others send (reporter.go:64-329,
\* config.go:84-186, handler.go:91-181, grpc_server.go:52-84, manager.go:102-163).
THEOREM OutcomeTellsAlways == Spec => []OutcomeTellsAgreement
<1>1. ReportInv => OutcomeTellsAgreement
    BY DEF ReportInv, ThroughSoFar
<1> QED  BY <1>1, ReportAlways, PTL

-----------------------------------------------------------------------------
(* The list *)

\* No route answers 403 by itself.
LEMMA UpsertAllows ==
    ASSUME NEW st, NEW key, NEW m PROVE Upsert(st, key, m).status # "403"
<1> DEFINE e == VerifyError(key, m)
<1>1. ErrorHTTP(e) # "403"
    BY DEF ErrorHTTP
<1>2. Refusal(st, key, m).status = ErrorHTTP(e)
    BY DEF Refusal, Answer
<1> HIDE DEF e
<1> QED  BY <1>1, <1>2 DEF Upsert, Answer

LEMMA BatchAllows ==
    ASSUME NEW st, NEW key, NEW ms, Len(ms) \in Nat
    PROVE  UpsertBatch(st, key, ms).status # "403"
<1>1. PICK h : /\ UpsertBatch(st, key, ms) = h[Len(ms)] /\ h[0] = Answer("200", st)
               /\ \A n \in 1..Len(ms) :
                    h[n] = IF h[n - 1].status # "200" THEN h[n - 1]
                           ELSE Upsert(h[n - 1].store, key, ms[n])
    BY BatchInTurn
<1> DEFINE T == {n \in 0..Len(ms) : h[n].status = "403"}
<1>2. CASE T = {}
  <2>1. Len(ms) \in 0..Len(ms)
    OBVIOUS
  <2> QED  BY <1>1, <1>2, <2>1
<1>3. CASE T # {}
  <2>1. PICK x \in T : \A y \in T : x <= y
    <3>1. T \in SUBSET Nat
      OBVIOUS
    <3> HIDE DEF T
    <3> QED BY <1>3, <3>1, LeastOf
  <2>2. x \in 0..Len(ms) /\ h[x].status = "403"
    BY <2>1
  <2>3. x # 0
    BY <1>1, <2>2 DEF Answer
  <2>4. x - 1 \in 0..Len(ms) /\ x - 1 \notin T /\ x \in 1..Len(ms)
    BY <2>1, <2>2, <2>3
  <2>5. h[x - 1].status # "403"
    BY <2>4
  <2> HIDE DEF T
  <2> QED  BY <1>1, <2>2, <2>4, <2>5, UpsertAllows
<1> QED  BY <1>2, <1>3

LEMMA URLAllows ==
    ASSUME NEW st, NEW key, NEW rq PROVE UpdateURL(st, key, rq).status # "403"
<1>1. \A e : ErrorHTTP(e) # "403"
    BY DEF ErrorHTTP
<1> QED  BY <1>1, UpsertAllows DEF UpdateURL, Answer

LEMMA JSONAllows ==
    ASSUME NEW st, NEW key, NEW json, NEW ms \in {Garbage} \cup Seq(Message)
    PROVE  UpdateJSON(st, key, json, ms).status # "403"
<1>1. ms # Garbage => Len(ms) \in Nat
    BY LenProperties
<1> QED  BY <1>1, BatchAllows DEF UpdateJSON, Answer

\* What opens is the request's own metrics.
LEMMA ReadableIs ==
    ASSUME NEW rq \in Others, rq.route = "json"
    PROVE  Readable(rq) \in {Garbage} \cup Seq(Message)
BY DeliveryAssumption DEF Readable

LEMMA DecodedIs ==
    ASSUME ReportInv, rep.pc = "body"
    PROVE  Decoded \in {Garbage} \cup Seq(Message)
BY InBodyIs DEF Decoded, ReportInv, Processes, BodyOf

\* The answer to a client tells whether it is on the list in force.
Forbids(ip, status) == status = "403" <=> ~Admits(Trusted(server.cfg), ip)

LEMMA ListInForce ==
    ASSUME ReportInv, server.pc = "up", given.server.flags.subnet # Absent,
           given.server.env.subnet = Absent, NEW ip
    PROVE  Admits(Trusted(server.cfg), ip) <=>
            \E i \in DOMAIN given.server.flags.subnet : given.server.flags.subnet[i].ip = ip
<1>1. given.server \in ServerGiven /\ server.cfg = ServerSettings(given.server)
    BY DEF ReportInv, AsGiven_, GivenOK, ServerAsGiven
<1>2. /\ FlagList(given.server) # <<>>
      /\ DOMAIN FlagList(given.server) = DOMAIN given.server.flags.subnet
      /\ \A i \in DOMAIN FlagList(given.server) :
            /\ FlagList(given.server)[i].ip = given.server.flags.subnet[i].ip
            /\ ~FlagList(given.server)[i].spaced
    BY <1>1, FlagListIs
<1>3. server.cfg.subnet = FlagList(given.server)
    BY <1>1, <1>2, SubnetSettings
<1> QED  BY <1>2, <1>3, AdmitsIs DEF ReportInv, Processes

\* The new answer, if there is one, keeps to the list.
LEMMA ListStep ==
    ASSUME ReportInv, ListHolds, [Next]_vars
    PROVE  ListHolds'
<1>0. UNCHANGED given
    BY AgentKeeps
<1>1. CASE UNCHANGED seen
    BY <1>0, <1>1 DEF ListHolds
<1>2. ASSUME NEW route, NEW ip, NEW status, seen' = [route |-> route, ip |-> ip, status |-> status],
             route \in {"url", "json"} => server.pc = "up" /\ Forbids(ip, status)
      PROVE  ListHolds'
    BY <1>0, <1>2, ListInForce DEF ListHolds, Forbids
<1>3. ASSUME NEW route, NEW ip, NEW a, NEW ms, Answered(route, ip, a, ms),
             route \in {"url", "json"} => server.pc = "up" /\ Forbids(ip, a.status)
      PROVE  ListHolds'
    BY <1>2, <1>3 DEF Answered
<1>4. CASE SendURL
  <2> DEFINE a == URLAnswer("none", Current)
  <2>1. Forbids("none", a.status)
    BY URLAllows DEF URLAnswer, Forbids, Answer
  <2> HIDE DEF a
  <2> QED  BY <1>1, <1>3, <1>4, <2>1 DEF SendURL, Nothing, ReachesHTTP, HTTPOpen, a
<1>5. CASE SendRPC
  <2>1. \/ UNCHANGED seen
        \/ \E a, ms : Answered("rpc", "none", a, ms)
    BY <1>5 DEF SendRPC, Nothing
  <2> QED  BY <1>1, <1>3, <2>1
<1>6. CASE Post
  <2>1. \/ UNCHANGED seen
        \/ /\ server.pc = "up" /\ ~Admits(Trusted(server.cfg), RealIP)
           /\ Answered("json", RealIP, Answer("403", store), InBody)
    BY <1>6 DEF Post, Nothing, ReachesHTTP, HTTPOpen
  <2> DEFINE a == Answer("403", store)
  <2>2. a.status = "403"
    BY DEF Answer
  <2> HIDE DEF a
  <2> QED  BY <1>1, <1>3, <2>1, <2>2 DEF Forbids, a
<1>7. CASE Handle
  <2> DEFINE a == UpdateJSON(store, Key, TRUE, Decoded)
  <2>1. \/ UNCHANGED seen
        \/ server.pc = "up" /\ Answered("json", RealIP, a, Decoded)
    BY <1>7 DEF Handle, Nothing, HTTPOpen
  <2>2. rep.pc = "body" /\ Admits(Trusted(server.cfg), RealIP)
    BY <1>7 DEF Handle, Over, ReportInv, BodyOf
  <2>3. a.status # "403"
    BY <2>2, DecodedIs, JSONAllows
  <2> HIDE DEF a
  <2> QED  BY <1>1, <1>3, <2>1, <2>2, <2>3 DEF Forbids
<1>8. CASE OtherRequest
  <2>1. PICK rq \in Others : /\ IF rq.route = "rpc" THEN RPCOpen ELSE HTTPOpen
                             /\ Answered(rq.route, rq.ip, OtherAnswer(rq), Carried(rq))
    BY <1>8 DEF OtherRequest
  <2> DEFINE a == OtherAnswer(rq)
  <2>2. rq.route = "url" => Forbids(rq.ip, a.status)
    BY URLAllows DEF OtherAnswer, URLAnswer, Forbids, Answer
  <2>3. rq.route = "json" => Forbids(rq.ip, a.status)
    <3> SUFFICES ASSUME rq.route = "json" PROVE Forbids(rq.ip, a.status)
      OBVIOUS
    <3>1. UpdateJSON(store, Key, rq.json, Readable(rq)).status # "403"
      BY ReadableIs, JSONAllows
    <3>2. CASE Admits(Trusted(server.cfg), rq.ip)
      BY <3>1, <3>2 DEF OtherAnswer, Forbids
    <3>3. CASE ~Admits(Trusted(server.cfg), rq.ip)
      BY <3>3 DEF OtherAnswer, Forbids, Answer
    <3> QED  BY <3>2, <3>3
  <2> HIDE DEF a
  <2> QED  BY <1>3, <2>1, <2>2, <2>3 DEF HTTPOpen, a
<1> QED  BY <1>1, <1>4, <1>5, <1>6, <1>7, <1>8
    DEF Next, ReporterStep, vars, ServerStart, AgentStart, ReportTick, UnknownType, SealBody,
        CipherWork, AllSent, Nothing

\* A list given by the flag, and not overlaid, lets in those on it and no others, of all
\* HTTP clients, however it is spaced (config.go:141-151, handler.go:88-124).
THEOREM ListHoldsAlways == Spec => []ListHolds
<1>1. Init => ListHolds
    BY DEF Init, ListHolds, NotSeen
<1>2. ReportInv /\ ListHolds /\ [Next]_vars => ListHolds'
    BY ListStep
<1> QED  BY <1>1, <1>2, ReportAlways, PTL DEF Spec

-----------------------------------------------------------------------------
(* What metrics come to, as there are more of them *)

\* A set of positions that is not empty has a last one.
LEMMA GreatestOf ==
    ASSUME NEW n \in Nat, NEW S \in SUBSET (1..n), S # {}
    PROVE  \E i \in S : \A j \in S : j <= i
<1> DEFINE T == {n - i : i \in S}
<1>0. \A i \in S : i \in 1..n
    OBVIOUS
<1>1. T \in SUBSET Nat /\ T # {}
  <2>1. PICK i : i \in S
    OBVIOUS
  <2>2. n - i \in T
    BY <2>1
  <2>3. \A j \in S : n - j \in Nat
    BY <1>0
  <2> QED  BY <2>2, <2>3
<1>2. PICK x \in T : \A y \in T : x <= y
  <2> HIDE DEF T
  <2> QED  BY <1>1, LeastOf
<1>3. PICK i \in S : x = n - i
    BY <1>2
<1>4. \A j \in S : n - i <= n - j
    BY <1>2, <1>3
<1>5. \A j \in S : j \in Int /\ i \in Int
    BY <1>0
<1> QED  BY <1>4, <1>5

LEMMA Appended ==
    ASSUME NEW ms \in Seq(Message), NEW m \in Message
    PROVE  /\ ms \o <<m>> \in Seq(Message) /\ Len(ms) \in Nat
           /\ Len(ms \o <<m>>) = Len(ms) + 1
           /\ DOMAIN ms = 1..Len(ms) /\ DOMAIN (ms \o <<m>>) = 1..(Len(ms) + 1)
           /\ \A i \in 1..Len(ms) : (ms \o <<m>>)[i] = ms[i]
           /\ (ms \o <<m>>)[Len(ms) + 1] = m
<1> HIDE DEF Message
<1>1. Append(ms, m) = ms \o <<m>>
    OBVIOUS
<1> QED  BY <1>1, LenProperties, AppendProperties

LEMMA OfMore ==
    ASSUME NEW ms \in Seq(Message), NEW m \in Message, NEW k
    PROVE  /\ Of(ms, k) \subseteq 1..Len(ms)
           /\ Of(ms \o <<m>>, k) = Of(ms, k) \cup (IF KeyOf(m) = k THEN {Len(ms) + 1} ELSE {})
<1> DEFINE more == ms \o <<m>>
           n == Len(ms)
<1>1. /\ n \in Nat /\ DOMAIN ms = 1..n /\ DOMAIN more = 1..(n + 1)
      /\ \A i \in 1..n : more[i] = ms[i]
      /\ more[n + 1] = m
    BY Appended
<1> HIDE DEF more, n
<1>2. 1..(n + 1) = (1..n) \cup {n + 1}
    BY <1>1
<1>3. Of(ms, k) \subseteq 1..n
    BY <1>1 DEF Of
<1>4. Of(more, k) = {i \in 1..n : KeyOf(more[i]) = k} \cup {i \in {n + 1} : KeyOf(more[i]) = k}
    BY <1>1, <1>2 DEF Of
<1>5. {i \in 1..n : KeyOf(more[i]) = k} = Of(ms, k)
    BY <1>1 DEF Of
<1>6. {i \in {n + 1} : KeyOf(more[i]) = k} = IF KeyOf(m) = k THEN {n + 1} ELSE {}
    BY <1>1
<1> QED  BY <1>3, <1>4, <1>5, <1>6 DEF more, n

\* The last is the one that comes, or still the one there was.
LEMMA LastMore ==
    ASSUME NEW ms \in Seq(Message), NEW m \in Message, NEW k
    PROVE  /\ KeyOf(m) = k => LastOf(ms \o <<m>>, k) = m.val
           /\ KeyOf(m) # k /\ Of(ms, k) # {} => LastOf(ms \o <<m>>, k) = LastOf(ms, k)
<1> DEFINE more == ms \o <<m>>
           n == Len(ms)
           there == Of(more, k)
           last == CHOOSE i \in there : \A j \in there : j <= i
<1>1. /\ n \in Nat /\ \A i \in 1..n : more[i] = ms[i]
      /\ more[n + 1] = m
    BY Appended
<1>2. Of(ms, k) \subseteq 1..n /\ there = Of(ms, k) \cup (IF KeyOf(m) = k THEN {n + 1} ELSE {})
    BY OfMore
<1>3. LastOf(more, k) = more[last].val
    BY DEF LastOf
<1> HIDE DEF more, n
<1>4. ASSUME KeyOf(m) = k PROVE LastOf(more, k) = m.val
  <2> HIDE DEF there
  <2>1. n + 1 \in there /\ \A j \in there : j \in Int /\ j <= n + 1
    BY <1>1, <1>2, <1>4
  <2>2. last \in there /\ \A j \in there : j <= last
    BY <2>1
  <2> HIDE DEF last
  <2>3. last = n + 1
    BY <1>1, <2>1, <2>2
  <2> QED  BY <1>1, <1>3, <2>3
<1>5. ASSUME KeyOf(m) # k, Of(ms, k) # {} PROVE LastOf(more, k) = LastOf(ms, k)
  <2>1. there = Of(ms, k)
    BY <1>2, <1>5
  <2>2. LastOf(ms, k) = ms[last].val
    BY <2>1 DEF LastOf
  <2>3. \E i \in there : \A j \in there : j <= i
    BY <1>1, <1>2, <1>5, <2>1, GreatestOf
  <2>4. last \in there
    BY <2>3
  <2> HIDE DEF last, there
  <2> QED  BY <1>1, <1>2, <1>3, <2>1, <2>2, <2>4
<1> QED  BY <1>4, <1>5 DEF more

\* The sum up to each position.
Part(ms, k, i) == IF i \in Of(ms, k) THEN ms[i].val ELSE 0
SumUp(h, ms, k, n) == h = [i \in 0..n |-> IF i = 0 THEN 0 ELSE h[i - 1] + Part(ms, k, i)]

LEMMA SumUpExists ==
    ASSUME NEW ms, NEW k PROVE \A n \in Nat : \E h : SumUp(h, ms, k, n)
<1> DEFINE T == {n \in Nat : ~\E h : SumUp(h, ms, k, n)}
           Round(h, i) == IF i = 0 THEN 0 ELSE h[i - 1] + Part(ms, k, i)
<1> SUFFICES ASSUME T # {} PROVE FALSE
    OBVIOUS
<1>1. PICK x \in T : \A y \in T : x <= y
  <2>1. T \in SUBSET Nat
    OBVIOUS
  <2> HIDE DEF T
  <2> QED  BY <2>1, LeastOf
<1>2. CASE x = 0
  <2>1. SumUp([i \in 0..0 |-> 0], ms, k, 0)
    BY DEF SumUp
  <2> QED  BY <2>1, <1>2
<1>3. CASE x # 0
  <2>1. x - 1 \in Nat /\ x - 1 \notin T
    BY <1>1, <1>3
  <2>2. PICK h : SumUp(h, ms, k, x - 1)
    BY <2>1
  <2>3. h = [i \in 0..(x - 1) |-> Round(h, i)]
    BY <2>2 DEF SumUp
  <2> DEFINE g == [i \in 0..x |-> IF i = x THEN Round(h, x) ELSE h[i]]
  <2>4. \A i \in 0..x : g[i] = Round(g, i)
    <3> SUFFICES ASSUME NEW i \in 0..x PROVE g[i] = Round(g, i)
      OBVIOUS
    <3>1. i # 0 => i - 1 \in 0..(x - 1) /\ i - 1 # x /\ i - 1 \in 0..x
      BY <2>1
    <3>2. i # 0 => g[i - 1] = h[i - 1]
      BY <3>1
    <3>3. Round(g, i) = Round(h, i)
      <4> HIDE DEF g
      <4> QED  BY <3>2
    <3>4. i # x => i \in 0..(x - 1)
      BY <2>1
    <3>5. i # x => h[i] = Round(h, i)
      <4> HIDE DEF Round
      <4> QED  BY <2>3, <3>4
    <3> QED  BY <3>3, <3>5
  <2>5. g = [i \in 0..x |-> g[i]]
    OBVIOUS
  <2> HIDE DEF g
  <2>6. SumUp(g, ms, k, x)
    <3>1. g = [i \in 0..x |-> Round(g, i)]
      <4> HIDE DEF Round
      <4> QED  BY <2>4, <2>5
    <3> QED  BY <3>1 DEF SumUp
  <2> QED  BY <2>6
<1> QED  BY <1>2, <1>3

LEMMA SumIs ==
    ASSUME NEW ms, NEW k, Len(ms) \in Nat
    PROVE  \E h : /\ SumOf(ms, k) = h[Len(ms)] /\ h[0] = 0
                  /\ \A i \in 1..Len(ms) : h[i] = h[i - 1] + Part(ms, k, i)
<1> DEFINE f == CHOOSE h : SumUp(h, ms, k, Len(ms))
           Round(h, i) == IF i = 0 THEN 0 ELSE h[i - 1] + Part(ms, k, i)
<1>1. SumUp(f, ms, k, Len(ms))
    BY SumUpExists
<1>2. SumOf(ms, k) = f[Len(ms)]
    BY DEF SumOf, SumUp, Part
<1> HIDE DEF f
<1>3. f = [i \in 0..Len(ms) |-> Round(f, i)]
    BY <1>1 DEF SumUp
<1>4. \A i \in 0..Len(ms) : f[i] = Round(f, i)
  <2> HIDE DEF Round
  <2> QED  BY <1>3
<1> QED  BY <1>2, <1>4

LEMMA SumMore ==
    ASSUME NEW ms \in Seq(Message), NEW m \in Message, NEW k
    PROVE  SumOf(ms \o <<m>>, k) = SumOf(ms, k) + (IF KeyOf(m) = k THEN m.val ELSE 0)
<1> DEFINE more == ms \o <<m>>
           n == Len(ms)
<1>1. /\ n \in Nat /\ Len(more) = n + 1 /\ \A i \in 1..n : more[i] = ms[i]
      /\ more[n + 1] = m
    BY Appended
<1>2. /\ Of(ms, k) \subseteq 1..n
      /\ Of(more, k) = Of(ms, k) \cup (IF KeyOf(m) = k THEN {n + 1} ELSE {})
    BY OfMore
<1>3. PICK h : /\ SumOf(ms, k) = h[n] /\ h[0] = 0
               /\ \A i \in 1..n : h[i] = h[i - 1] + Part(ms, k, i)
    BY <1>1, SumIs
<1> HIDE DEF more, n
<1>4. PICK g : /\ SumOf(more, k) = g[n + 1] /\ g[0] = 0
               /\ \A i \in 1..(n + 1) : g[i] = g[i - 1] + Part(more, k, i)
  <2>1. Len(more) \in Nat
    BY <1>1
  <2>2. PICK g : /\ SumOf(more, k) = g[Len(more)] /\ g[0] = 0
                 /\ \A i \in 1..Len(more) : g[i] = g[i - 1] + Part(more, k, i)
    BY <2>1, SumIs
  <2> QED  BY <1>1, <2>2
<1>5. \A i \in 1..n : Part(more, k, i) = Part(ms, k, i)
  <2>1. \A i \in 1..n : i # n + 1
    BY <1>1
  <2>2. \A i \in 1..n : i \in Of(more, k) <=> i \in Of(ms, k)
    BY <1>2, <2>1
  <2> QED  BY <1>1, <2>2 DEF Part
<1>6. Part(more, k, n + 1) = IF KeyOf(m) = k THEN m.val ELSE 0
  <2>1. n + 1 \notin 1..n
    BY <1>1
  <2>2. n + 1 \in Of(more, k) <=> KeyOf(m) = k
    BY <1>2, <2>1
  <2> QED  BY <1>1, <2>2 DEF Part
<1>7. g[n] = h[n]
  <2> DEFINE T == {i \in 0..n : g[i] # h[i]}
  <2>1. CASE T = {}
    <3>1. n \in 0..n
      BY <1>1
    <3> QED  BY <2>1, <3>1
  <2>2. CASE T # {}
    <3>1. PICK x \in T : \A y \in T : x <= y
      <4>1. T \in SUBSET Nat
        BY <1>1
      <4> HIDE DEF T
      <4> QED  BY <2>2, <4>1, LeastOf
    <3>2. x \in 0..n /\ g[x] # h[x]
      BY <3>1
    <3>3. x # 0
      BY <1>3, <1>4, <3>2
    <3>4. x - 1 \in 0..n /\ x - 1 \notin T /\ x \in 1..n /\ x \in 1..(n + 1)
      BY <1>1, <3>1, <3>2, <3>3
    <3>5. g[x - 1] = h[x - 1]
      BY <3>4
    <3> HIDE DEF T
    <3> QED  BY <1>3, <1>4, <1>5, <3>2, <3>4, <3>5
  <2> QED  BY <2>1, <2>2
<1>8. g[n + 1] = g[n] + Part(more, k, n + 1)
  <2>1. n + 1 \in 1..(n + 1) /\ (n + 1) - 1 = n
    BY <1>1
  <2>2. g[n + 1] = g[(n + 1) - 1] + Part(more, k, n + 1)
    BY <1>4, <2>1
  <2> QED  BY <2>1, <2>2
<1> QED  BY <1>3, <1>4, <1>6, <1>7, <1>8 DEF more, n

\* Of a metric that did not come, the sum is 0.
LEMMA SumOfNone ==
    ASSUME NEW ms \in Seq(Message), NEW k, Of(ms, k) = {}
    PROVE  SumOf(ms, k) = 0
<1>1. PICK n \in Nat : n = Len(ms)
    BY LenProperties
<1>2. PICK h : /\ SumOf(ms, k) = h[n] /\ h[0] = 0
               /\ \A i \in 1..n : h[i] = h[i - 1] + Part(ms, k, i)
    BY <1>1, SumIs
<1>3. \A i \in 1..n : h[i] = h[i - 1] + 0
    BY <1>2 DEF Part
<1> DEFINE T == {i \in 0..n : h[i] # 0}
<1>4. CASE T = {}
  <2>1. n \in 0..n
    OBVIOUS
  <2> QED  BY <1>2, <1>4, <2>1
<1>5. CASE T # {}
  <2>1. PICK x \in T : \A y \in T : x <= y
    <3>1. T \in SUBSET Nat
      OBVIOUS
    <3> HIDE DEF T
    <3> QED  BY <1>5, <3>1, LeastOf
  <2>2. x \in 0..n /\ h[x] # 0
    BY <2>1
  <2>3. x # 0
    BY <1>2, <2>2
  <2>4. x - 1 \in 0..n /\ x - 1 \notin T /\ x \in 1..n
    BY <2>1, <2>2, <2>3
  <2>5. h[x - 1] = 0
    BY <2>4
  <2> HIDE DEF T
  <2> QED  BY <1>3, <2>2, <2>4, <2>5
<1> QED  BY <1>4, <1>5

LEMMA ValuelessMore ==
    ASSUME NEW ms \in Seq(Message), NEW m \in Message, NEW k
    PROVE  Valueless(ms \o <<m>>, k) <=> Valueless(ms, k) \/ (KeyOf(m) = k /\ m.val = None)
<1> DEFINE more == ms \o <<m>>
           n == Len(ms)
<1>1. /\ n \in Nat /\ \A i \in 1..n : more[i] = ms[i]
      /\ more[n + 1] = m
    BY Appended
<1>2. /\ Of(ms, k) \subseteq 1..n
      /\ Of(more, k) = Of(ms, k) \cup (IF KeyOf(m) = k THEN {n + 1} ELSE {})
    BY OfMore
<1> HIDE DEF more, n
<1>3. \A i \in Of(ms, k) : more[i] = ms[i]
    BY <1>1, <1>2
<1>4. Valueless(more, k) <=> (\E i \in Of(ms, k) : more[i].val = None)
                             \/ (KeyOf(m) = k /\ more[n + 1].val = None)
    BY <1>2 DEF Valueless
<1> QED  BY <1>1, <1>3, <1>4 DEF Valueless, more

-----------------------------------------------------------------------------
(* The store has what was taken *)

\* A store of metrics.
StoreTyped(st) ==
    \A k \in DOMAIN st : st[k] \in Values /\ (k[1] = "counter" => st[k] # NaN)

\* What the store has comes from the metrics ms, and is all they come to.
Faithful(st, ms) ==
    /\ DOMAIN st = {KeyOf(ms[i]) : i \in DOMAIN ms}
    /\ \A k \in DOMAIN st : st[k] = Total(ms, k)
    /\ \A k \in DOMAIN st : k[1] = "counter" => (Valueless(ms, k) <=> st[k] = None)

LEMMA KnownIs ==
    ASSUME NEW ms \in Seq(Message), NEW k
    PROVE  k \in {KeyOf(ms[i]) : i \in DOMAIN ms} <=> Of(ms, k) # {}
BY DEF Of

LEMMA StoredTyped ==
    ASSUME NEW st, StoreTyped(st), NEW m \in Message, ~Dereferences(st, m)
    PROVE  StoreTyped(Stored(st, m))
<1>1. m.val \in Values /\ (m.mtype = "counter" => m.val # NaN)
    BY DEF Message
<1>2. Sum(st, m) \in Values /\ (m.mtype = "counter" => Sum(st, m) # NaN)
  <2>1. CASE Adds(st, m)
    <3>1. /\ m.mtype = "counter" /\ KeyOf(m) \in DOMAIN st /\ m.val # None
          /\ st[KeyOf(m)] # None /\ KeyOf(m)[1] = "counter"
      BY <2>1 DEF Adds, Dereferences, KeyOf
    <3>2. m.val \in Int /\ st[KeyOf(m)] \in Int
      BY <1>1, <3>1 DEF Values, StoreTyped
    <3>3. m.val + st[KeyOf(m)] \in Int
      BY <3>2
    <3>4. Sum(st, m) \in Int
      BY <2>1, <3>3 DEF Sum
    <3>5. NaN \notin Int
      BY RoutesAssumption
    <3> QED  BY <3>4, <3>5 DEF Values
  <2>2. CASE ~Adds(st, m)
    BY <1>1, <2>2 DEF Sum
  <2> QED  BY <2>1, <2>2
<1>3. KeyOf(m)[1] = m.mtype
    BY DEF KeyOf
<1> DEFINE n == Stored(st, m)
<1>4. DOMAIN n = DOMAIN st \cup {KeyOf(m)}
      /\ \A k \in DOMAIN n : n[k] = IF k = KeyOf(m) THEN Sum(st, m) ELSE st[k]
    BY DEF Stored
<1> HIDE DEF n
<1>5. StoreTyped(n)
    BY <1>2, <1>3, <1>4 DEF StoreTyped
<1> QED  BY <1>5 DEF n

LEMMA StoredFaithful ==
    ASSUME NEW st, StoreTyped(st), NEW ms \in Seq(Message), Faithful(st, ms),
           NEW m \in Message, ~Dereferences(st, m)
    PROVE  Faithful(Stored(st, m), ms \o <<m>>)
<1> DEFINE n == Stored(st, m)
           more == ms \o <<m>>
           at == KeyOf(m)
<1>1. /\ DOMAIN n = DOMAIN st \cup {at}
      /\ \A k \in DOMAIN n : n[k] = IF k = at THEN Sum(st, m) ELSE st[k]
    BY DEF Stored
<1>2. DOMAIN n = {KeyOf(more[i]) : i \in DOMAIN more}
  <2>1. more \in Seq(Message)
    BY Appended
  <2>2. \A k : k \in DOMAIN st <=> Of(ms, k) # {}
    BY KnownIs DEF Faithful
  <2>3. \A k : Of(more, k) # {} <=> Of(ms, k) # {} \/ k = at
    <3> SUFFICES ASSUME NEW k PROVE Of(more, k) # {} <=> Of(ms, k) # {} \/ k = at
      OBVIOUS
    <3>1. Of(more, k) = Of(ms, k) \cup (IF at = k THEN {Len(ms) + 1} ELSE {})
      BY OfMore
    <3> HIDE DEF more, at
    <3> QED  BY <3>1
  <2> HIDE DEF n, more, at
  <2>4. \A k : k \in {KeyOf(more[i]) : i \in DOMAIN more} <=> Of(more, k) # {}
    BY <2>1, KnownIs
  <2>5. \A k : k \in DOMAIN n <=> k \in {KeyOf(more[i]) : i \in DOMAIN more}
    BY <1>1, <2>2, <2>3, <2>4
  <2> QED  BY <2>5
<1>3. \A k : Valueless(more, k) <=> Valueless(ms, k) \/ (at = k /\ m.val = None)
    BY ValuelessMore
<1>4. \A k : SumOf(more, k) = SumOf(ms, k) + (IF at = k THEN m.val ELSE 0)
    BY SumMore
<1>5. \A k : /\ at = k => LastOf(more, k) = m.val
             /\ at # k /\ Of(ms, k) # {} => LastOf(more, k) = LastOf(ms, k)
    BY LastMore
<1>6. \A k \in DOMAIN st : Of(ms, k) # {}
    BY KnownIs DEF Faithful
<1>7. at[1] = m.mtype
    BY DEF KeyOf
<1>8. m.val \in Values /\ (m.mtype = "counter" => m.val # NaN) /\ {None, NaN} \cap Int = {}
    BY RoutesAssumption DEF Message
<1>9. ASSUME NEW k \in DOMAIN n, k # at
      PROVE  n[k] = Total(more, k) /\ (k[1] = "counter" => (Valueless(more, k) <=> n[k] = None))
  <2>1. k \in DOMAIN st /\ n[k] = st[k] /\ st[k] = Total(ms, k)
    BY <1>1, <1>9 DEF Faithful
  <2>2. Valueless(more, k) <=> Valueless(ms, k)
    BY <1>3, <1>9
  <2>3. LastOf(more, k) = LastOf(ms, k)
    BY <1>5, <1>6, <1>9, <2>1
  <2>4. k[1] = "counter" /\ ~Valueless(ms, k) => SumOf(more, k) = SumOf(ms, k)
    <3> SUFFICES ASSUME k[1] = "counter", ~Valueless(ms, k) PROVE SumOf(more, k) = SumOf(ms, k)
      OBVIOUS
    <3>1. st[k] = SumOf(ms, k) /\ st[k] # None
      BY <2>1 DEF Total, Faithful
    <3>2. st[k] \in Int
      BY <2>1, <3>1 DEF StoreTyped, Values
    <3> QED  BY <1>4, <1>9, <3>1, <3>2
  <2>5. Total(more, k) = Total(ms, k)
    BY <2>2, <2>3, <2>4 DEF Total
  <2> QED  BY <2>1, <2>2, <2>5 DEF Faithful
<1>10. n[at] = Total(more, at) /\ (m.mtype = "counter" => (Valueless(more, at) <=> n[at] = None))
  <2>1. n[at] = Sum(st, m)
    BY <1>1
  <2>2. CASE m.mtype # "counter"
    BY <1>5, <1>7, <2>1, <2>2 DEF Total, Sum, Adds
  <2>3. CASE Adds(st, m)
    <3>1. m.mtype = "counter" /\ at \in DOMAIN st /\ m.val # None /\ st[at] # None
      BY <2>3 DEF Adds, Dereferences
    <3>2. ~Valueless(ms, at) /\ st[at] = SumOf(ms, at)
      BY <1>7, <3>1 DEF Faithful, Total
    <3>3. st[at] \in Int /\ m.val \in Int
      BY <1>7, <1>8, <3>1 DEF StoreTyped, Values
    <3>4. ~Valueless(more, at) /\ SumOf(more, at) = st[at] + m.val
      BY <1>3, <1>4, <3>1, <3>2
    <3>5. n[at] = m.val + st[at]
      BY <2>1, <2>3 DEF Sum
    <3>6. n[at] = Total(more, at)
      BY <1>7, <3>1, <3>3, <3>4, <3>5 DEF Total
    <3>7. n[at] # None
      <4>1. m.val + st[at] \in Int
        BY <3>3
      <4> QED  BY <1>8, <3>5, <4>1
    <3> QED  BY <3>4, <3>6, <3>7
  <2>4. CASE m.mtype = "counter" /\ ~Adds(st, m)
    <3>1. at \notin DOMAIN st /\ n[at] = m.val
      BY <2>1, <2>4 DEF Adds, Sum
    <3>2. Of(ms, at) = {}
      BY <3>1, KnownIs DEF Faithful
    <3>3. ~Valueless(ms, at) /\ SumOf(ms, at) = 0
      BY <3>2, SumOfNone DEF Valueless
    <3>4. Valueless(more, at) <=> m.val = None
      BY <1>3, <3>3
    <3>5. m.val # None => SumOf(more, at) = m.val
      <4>1. m.val # None => m.val \in Int
        BY <1>8, <2>4 DEF Values
      <4> QED  BY <1>4, <3>3, <4>1
    <3>6. LastOf(more, at) = m.val
      BY <1>5
    <3> HIDE DEF n, more, at
    <3> QED  BY <1>7, <2>4, <3>1, <3>4, <3>5, <3>6 DEF Total
  <2> QED  BY <2>2, <2>3, <2>4
<1> HIDE DEF n, more, at
<1>11. Faithful(n, more)
    BY <1>2, <1>7, <1>9, <1>10 DEF Faithful
<1> QED  BY <1>11 DEF n, more

-----------------------------------------------------------------------------
(* Answers and what they leave in the store *)

\* An answer 200 adds the metrics more to those that came before; another leaves all as
\* it was, unless it was given in the midst of a batch.
GoodAnswer(a, st, more) ==
    /\ StoreTyped(a.store)
    /\ a.status = "200" =>
        /\ more \in Seq(Message)
        /\ \A ms \in Seq(Message) : Faithful(st, ms) => Faithful(a.store, ms \o more)
    /\ a.status # "200" => a.store = st \/ (more # Garbage /\ Len(more) > 1)

LEMMA Unchanged ==
    ASSUME NEW st, StoreTyped(st), NEW status, status # "200", NEW more
    PROVE  GoodAnswer(Answer(status, st), st, more)
BY DEF GoodAnswer, Answer

\* A metric is stored under its type and id, whatever its hash.
LEMMA UpsertGood ==
    ASSUME NEW st, StoreTyped(st), NEW key, NEW m \in Message, NEW shown \in Message,
           KeyOf(m) = KeyOf(shown), m.val = shown.val
    PROVE  GoodAnswer(Upsert(st, key, m), st, <<shown>>)
<1>1. ErrorHTTP(VerifyError(key, m)) # "200"
    BY DEF ErrorHTTP
<1>2. m.mtype = shown.mtype
    BY DEF KeyOf
<1>3. Dereferences(st, m) <=> Dereferences(st, shown)
    BY <1>2 DEF Dereferences, Adds
<1>4. Stored(st, m) = Stored(st, shown)
    BY <1>2 DEF Stored, Sum, Adds
<1>5. CASE VerifyError(key, m) # "none"
  <2>1. Upsert(st, key, m) = Answer(ErrorHTTP(VerifyError(key, m)), st)
    BY <1>5 DEF Upsert, Refusal
  <2> DEFINE status == ErrorHTTP(VerifyError(key, m))
  <2>2. status # "200"
    BY <1>1
  <2> HIDE DEF status
  <2>3. GoodAnswer(Answer(status, st), st, <<shown>>)
    BY <2>2, Unchanged
  <2> QED  BY <2>1, <2>3 DEF status
<1>6. CASE VerifyError(key, m) = "none" /\ Dereferences(st, m)
  <2>1. Upsert(st, key, m) = Answer("panic", st)
    BY <1>6 DEF Upsert
  <2> QED  BY <2>1, Unchanged
<1>7. CASE VerifyError(key, m) = "none" /\ ~Dereferences(st, m)
  <2>1. Upsert(st, key, m) = Answer("200", Stored(st, shown))
    BY <1>4, <1>7 DEF Upsert
  <2>2. StoreTyped(Stored(st, shown))
    BY <1>3, <1>7, StoredTyped
  <2>3. ASSUME NEW ms \in Seq(Message), Faithful(st, ms)
        PROVE  Faithful(Stored(st, shown), ms \o <<shown>>)
    BY <1>3, <1>7, <2>3, StoredFaithful
  <2>4. <<shown>> \in Seq(Message)
    OBVIOUS
  <2> DEFINE a == Answer("200", Stored(st, shown))
  <2>5. a.status = "200" /\ a.store = Stored(st, shown)
    BY DEF Answer
  <2> HIDE DEF a
  <2>6. GoodAnswer(a, st, <<shown>>)
    BY <2>2, <2>3, <2>4, <2>5 DEF GoodAnswer
  <2> QED  BY <2>1, <2>6 DEF a
<1> QED  BY <1>5, <1>6, <1>7

LEMMA SequenceGrows ==
    ASSUME NEW ms \in Seq(Message), NEW more \in Seq(Message)
    PROVE  /\ ms \o SubSeq(more, 1, 0) = ms
           /\ \A n \in 1..Len(more) :
                /\ ms \o SubSeq(more, 1, n - 1) \in Seq(Message)
                /\ ms \o SubSeq(more, 1, n) = (ms \o SubSeq(more, 1, n - 1)) \o <<more[n]>>
           /\ ms \o SubSeq(more, 1, Len(more)) = ms \o more
<1> HIDE DEF Message
<1>1. SubSeq(more, 1, 0) = <<>> /\ ms \o <<>> = ms
    BY SubSeqEmpty, ConcatEmptySeq
<1>2. SubSeq(more, 1, Len(more)) = more
    BY SubSeqFull
<1>3. ASSUME NEW n \in 1..Len(more)
      PROVE  /\ ms \o SubSeq(more, 1, n - 1) \in Seq(Message)
             /\ ms \o SubSeq(more, 1, n) = (ms \o SubSeq(more, 1, n - 1)) \o <<more[n]>>
  <2>1. Len(more) \in Nat /\ n \in Nat /\ n >= 1 /\ n <= Len(more)
    OBVIOUS
  <2>2. SubSeq(more, 1, n - 1) \in Seq(Message) /\ more[n] \in Message
    OBVIOUS
  <2>3. SubSeq(more, 1, n) = Append(SubSeq(more, 1, n - 1), more[n])
    OBVIOUS
  <2> DEFINE s == SubSeq(more, 1, n - 1)
             m == more[n]
  <2>4. ms \o Append(s, m) = (ms \o s) \o <<m>>
    <3> HIDE DEF s, m
    <3>1. <<m>> \in Seq(Message) /\ Append(s, m) = s \o <<m>>
      BY <2>2 DEF s, m
    <3> QED  BY <2>2, <3>1, ConcatAssociative DEF s, m
  <2>5. ms \o s \in Seq(Message)
    BY <2>2, ConcatProperties
  <2> QED  BY <2>3, <2>4, <2>5
<1> QED  BY <1>1, <1>2, <1>3

LEMMA BatchGood ==
    ASSUME NEW st, StoreTyped(st), NEW key, NEW more \in Seq(Message)
    PROVE  GoodAnswer(UpsertBatch(st, key, more), st, more)
<1>0. Len(more) \in Nat /\ \A n \in 1..Len(more) : more[n] \in Message
    BY LenProperties, ElementOfSeq
<1>1. PICK h : /\ UpsertBatch(st, key, more) = h[Len(more)] /\ h[0] = Answer("200", st)
               /\ \A n \in 1..Len(more) :
                    h[n] = IF h[n - 1].status # "200" THEN h[n - 1]
                           ELSE Upsert(h[n - 1].store, key, more[n])
  <2> HIDE <1>0
  <2>1. Len(more) \in Nat
    BY <1>0
  <2> QED  BY <2>1, BatchInTurn
<1> DEFINE Good(n) ==
            /\ StoreTyped(h[n].store)
            /\ h[n].status = "200" => \A ms \in Seq(Message) :
                    Faithful(st, ms) => Faithful(h[n].store, ms \o SubSeq(more, 1, n))
            /\ h[n].status # "200" => h[n].store = st \/ n > 1
<1>2. Good(0)
  <2>1. h[0].status = "200" /\ h[0].store = st
    BY <1>1 DEF Answer
  <2>2. \A ms \in Seq(Message) : ms \o SubSeq(more, 1, 0) = ms
    BY SequenceGrows
  <2> QED  BY <2>1, <2>2
<1>3. ASSUME NEW n \in 1..Len(more), Good(n - 1) PROVE Good(n)
  <2> DEFINE b == h[n - 1]
             m == more[n]
             a == Upsert(b.store, key, m)
  <2>1. h[n] = IF b.status # "200" THEN b ELSE a
    BY <1>1
  <2>2. CASE b.status # "200"
    <3>1. h[n] = h[n - 1] /\ h[n - 1].status # "200" /\ StoreTyped(h[n - 1].store)
      BY <1>3, <2>1, <2>2
    <3>2. h[n - 1].store = st \/ n > 1
      BY <1>3, <3>1
    <3> QED  BY <3>1, <3>2
  <2>3. CASE b.status = "200"
    <3>1. m \in Message
      BY <1>0
    <3>2. StoreTyped(b.store)
      BY <1>3
    <3>3. \A ms \in Seq(Message) :
            Faithful(st, ms) => Faithful(b.store, ms \o SubSeq(more, 1, n - 1))
      BY <1>3, <2>3
    <3>4. n = 1 => b.store = st
      <4>1. n = 1 => b = h[0]
        OBVIOUS
      <4> QED  BY <1>1, <4>1 DEF Answer
    <3>5. h[n] = a
      BY <2>1, <2>3
    <3> HIDE DEF a, b, m
    <3>6. GoodAnswer(a, b.store, <<m>>)
      BY <3>1, <3>2, UpsertGood DEF a
    <3>7. StoreTyped(h[n].store)
      BY <3>5, <3>6 DEF GoodAnswer
    <3>8. Len(<<m>>) = 1
      OBVIOUS
    <3>9. a.status # "200" => a.store = b.store
      BY <3>6, <3>8 DEF GoodAnswer
    <3>10. a.status # "200" => h[n].store = st \/ n > 1
      BY <3>4, <3>5, <3>9
    <3>11. ASSUME a.status = "200", NEW ms \in Seq(Message), Faithful(st, ms)
           PROVE  Faithful(h[n].store, ms \o SubSeq(more, 1, n))
      <4>1. /\ ms \o SubSeq(more, 1, n - 1) \in Seq(Message)
            /\ ms \o SubSeq(more, 1, n) = (ms \o SubSeq(more, 1, n - 1)) \o <<m>>
        BY SequenceGrows DEF m
      <4>2. Faithful(b.store, ms \o SubSeq(more, 1, n - 1))
        BY <3>3, <3>11
      <4>3. Faithful(a.store, (ms \o SubSeq(more, 1, n - 1)) \o <<m>>)
        BY <3>6, <3>11, <4>1, <4>2 DEF GoodAnswer
      <4> QED  BY <3>5, <4>1, <4>3
    <3> QED  BY <3>5, <3>7, <3>10, <3>11
  <2> QED  BY <2>2, <2>3
<1>4. Good(Len(more))
  <2> HIDE DEF Good
  <2> DEFINE T == {n \in 0..Len(more) : ~Good(n)}
  <2>1. CASE T = {}
    <3>1. Len(more) \in 0..Len(more)
      BY <1>0
    <3> QED  BY <2>1, <3>1
  <2>2. CASE T # {}
    <3>1. PICK x \in T : \A y \in T : x <= y
      <4>1. T \in SUBSET Nat
        BY <1>0
      <4> HIDE DEF T
      <4> QED  BY <2>2, <4>1, LeastOf
    <3>2. x \in 0..Len(more) /\ ~Good(x)
      BY <3>1
    <3>3. x # 0
      BY <1>2, <3>2
    <3>4. x - 1 \in 0..Len(more) /\ x - 1 \notin T /\ x \in 1..Len(more)
      BY <1>0, <3>1, <3>2, <3>3
    <3>5. Good(x - 1)
      BY <3>4
    <3> HIDE DEF T
    <3> QED  BY <1>3, <3>2, <3>4, <3>5
  <2> QED  BY <2>1, <2>2
<1> DEFINE end == UpsertBatch(st, key, more)
<1>5. /\ StoreTyped(end.store)
      /\ end.status = "200" => \A ms \in Seq(Message) :
            Faithful(st, ms) => Faithful(end.store, ms \o SubSeq(more, 1, Len(more)))
      /\ end.status # "200" => end.store = st \/ Len(more) > 1
    BY <1>1, <1>4
<1>6. \A ms \in Seq(Message) : ms \o SubSeq(more, 1, Len(more)) = ms \o more
    BY SequenceGrows
<1>7. more # Garbage
    BY RoutesAssumption
<1> HIDE DEF end, Good
<1>8. GoodAnswer(end, st, more)
    BY <1>5, <1>6, <1>7 DEF GoodAnswer
<1> QED  BY <1>8 DEF end

LEMMA JSONGood ==
    ASSUME NEW st, StoreTyped(st), NEW key, NEW json, NEW more \in {Garbage} \cup Seq(Message)
    PROVE  GoodAnswer(UpdateJSON(st, key, json, more), st, more)
<1>1. GoodAnswer(Answer("415", st), st, more) /\ GoodAnswer(Answer("400", st), st, more)
    BY Unchanged
<1>2. more # Garbage => GoodAnswer(UpsertBatch(st, key, more), st, more)
    BY BatchGood
<1> QED  BY <1>1, <1>2 DEF UpdateJSON

\* A gRPC call is stored without its hash.
LEMMA RPCGood ==
    ASSUME NEW st, StoreTyped(st), NEW key, NEW m \in Message
    PROVE  GoodAnswer(UpsertRPC(st, key, m), st, <<m>>)
<1> DEFINE u == Unsigned(m.mtype, m.id, m.val)
           a == Upsert(st, key, u)
<1>1. u \in Message /\ KeyOf(u) = KeyOf(m) /\ u.val = m.val
  <2>1. NoHash \in Hash
    BY DEF NoHash, Hash
  <2> QED  BY <2>1 DEF Unsigned, Message, KeyOf
<1> HIDE DEF u
<1>2. GoodAnswer(a, st, <<m>>)
    BY <1>1, UpsertGood
<1>3. GoodAnswer(Answer("2", st), st, <<m>>)
    BY Unchanged
<1>4. UpsertRPC(st, key, m) \in {a, Answer("2", st)}
    BY DEF UpsertRPC, u
<1> QED  BY <1>2, <1>3, <1>4

\* A path is stored under the name it was sent by.
LEMMA URLGood ==
    ASSUME NEW st, StoreTyped(st), NEW key, NEW rq \in Path
    PROVE  GoodAnswer(UpdateURL(st, key, rq), st, <<[rq EXCEPT !.id = PathName(@)]>>)
<1> DEFINE id == PathName(rq.id)
           shown == [rq EXCEPT !.id = id]
           u == Unsigned(rq.mtype, id, rq.val)
           CE == CreateError(rq.mtype, id)
           VE == ValueError(rq.mtype, rq.val)
           a == UpdateURL(st, key, rq)
<1>1. \A status : status # "200" => GoodAnswer(Answer(status, st), st, <<shown>>)
    BY Unchanged
<1>2. \A e : ErrorHTTP(e) # "200"
    BY DEF ErrorHTTP
<1>3. CASE ~ThreeParts(rq)
  <2>1. a = Answer("404", st)
    BY <1>3 DEF UpdateURL
  <2> QED  BY <1>1, <2>1
<1>4. CASE ThreeParts(rq) /\ CE # "none"
  <2>1. a = Answer(ErrorHTTP(CE), st)
    BY <1>4 DEF UpdateURL
  <2> QED  BY <1>1, <1>2, <2>1
<1>5. CASE ThreeParts(rq) /\ CE = "none" /\ VE # "none"
  <2>1. a = Answer(ErrorHTTP(VE), st)
    BY <1>5 DEF UpdateURL
  <2> QED  BY <1>1, <1>2, <2>1
<1>6. CASE ThreeParts(rq) /\ CE = "none" /\ VE = "none"
  <2>1. a = Upsert(st, key, u)
    BY <1>6 DEF UpdateURL
  <2>2. id \in STRING
    BY RoutesAssumption DEF PathName, Path
  <2>3. rq.val \in Values /\ (rq.mtype = "counter" => rq.val # NaN)
    BY <1>6 DEF ValueError, Path
  <2>4. NoHash \in Hash
    BY DEF NoHash, Hash
  <2>5. rq.mtype \in STRING /\ rq.hash \in Hash
    BY DEF Path
  <2> HIDE DEF id
  <2>6. u \in Message
    BY <2>2, <2>3, <2>4, <2>5 DEF Unsigned, Message
  <2>7. shown \in Message /\ shown.mtype = rq.mtype /\ shown.id = id /\ shown.val = rq.val
    BY <2>2, <2>3, <2>5 DEF Message, Path
  <2>8. KeyOf(u) = KeyOf(shown) /\ u.val = shown.val
    BY <2>7 DEF Unsigned, KeyOf
  <2> HIDE DEF u, shown, a
  <2>9. GoodAnswer(a, st, <<shown>>)
    BY <2>1, <2>6, <2>7, <2>8, UpsertGood
  <2> QED  BY <2>9 DEF a, shown, id
<1> QED  BY <1>3, <1>4, <1>5, <1>6

-----------------------------------------------------------------------------
(* Readers *)

StoreInv ==
    /\ StoreTyped(store) /\ taken \in Seq(Message) /\ partly \in BOOLEAN
    /\ server.pc # "dead" /\ ~partly => Faithful(store, taken)

LEMMA AnsweredFaithful ==
    ASSUME AsGiven_, StoreInv, server.pc = "up", NEW a, NEW more, GoodAnswer(a, store, more),
           NEW route, NEW ip, Answered(route, ip, a, more)
    PROVE  StoreInv'
<1> DEFINE dies == a.status = "panic" /\ route = "rpc"
           midway == more # Garbage /\ Len(more) > 1 /\ a.status # "200" /\ a.store # store
<1>1. /\ store' = IF dies THEN NoMetrics ELSE a.store
      /\ server' = IF dies THEN Dead ELSE server
      /\ taken' = IF a.status = "200" THEN taken \o more ELSE taken
      /\ partly' = (partly \/ midway)
    BY DEF Answered
<1>2. partly' \in BOOLEAN
    BY <1>1 DEF StoreInv
<1>3. taken' \in Seq(Message)
  <2>1. a.status = "200" => more \in Seq(Message)
    BY DEF GoodAnswer
  <2> HIDE DEF Message
  <2> QED  BY <1>1, <2>1 DEF StoreInv
<1>4. StoreTyped(store')
  <2>1. StoreTyped(NoMetrics)
    BY DEF NoMetrics, StoreTyped
  <2> QED  BY <1>1, <2>1 DEF GoodAnswer
<1>5. ASSUME server'.pc # "dead", ~partly' PROVE Faithful(store', taken')
  <2>1. ~dies
    BY <1>1, <1>5 DEF Dead, AsGiven_, ServerAsGiven
  <2>2. Faithful(store, taken) /\ ~midway
    BY <1>1, <1>5 DEF StoreInv
  <2>3. CASE a.status = "200"
    BY <1>1, <2>1, <2>2, <2>3 DEF GoodAnswer, StoreInv
  <2>4. CASE a.status # "200"
    BY <1>1, <2>1, <2>2, <2>4 DEF GoodAnswer
  <2> QED  BY <2>3, <2>4
<1> QED  BY <1>2, <1>3, <1>4, <1>5
    DEF StoreInv, StoreTyped, Faithful, Total, Valueless, SumOf, LastOf, Of, KeyOf

LEMMA StoreStep ==
    ASSUME ReportInv, StoreInv, AsGiven_', [Next]_vars
    PROVE  StoreInv'
<1>0. AsGiven_ /\ StoreTyped(store)
    BY DEF ReportInv, StoreInv
<1>1. CASE UNCHANGED <<store, taken, partly>> /\ (UNCHANGED server \/ ServerStart)
  <2>1. server'.pc # "dead" => server.pc # "dead"
    BY <1>1 DEF ServerStart
  <2>2. StoreTyped(store)' <=> StoreTyped(store)
    BY <1>1 DEF StoreTyped
  <2>3. Faithful(store, taken)' <=> Faithful(store, taken)
    BY <1>1 DEF Faithful, Total, Valueless, SumOf, LastOf, Of, KeyOf
  <2> QED  BY <1>1, <2>1, <2>2, <2>3 DEF StoreInv
<1>2. CASE SendURL
  <2> DEFINE a == URLAnswer("none", Current)
             id == Current.id
  <2>1. rep.pc = "next" /\ By("URL") /\ More
    BY <1>2 DEF SendURL
  <2>2. GoodAnswer(a, store, <<Current>>)
    <3>1. Current \in Message /\ Current.id \notin DOMAIN Escaped
      BY <2>1, CurrentIs DEF ReportInv
    <3> DEFINE m == Current
    <3>2. PathName(m.id) = m.id
      BY <3>1 DEF PathName
    <3> HIDE DEF m
    <3>3. m \in Path
      BY <3>1 DEF Path, Message, m
    <3>4. [m EXCEPT !.id = PathName(@)] = m
      BY <3>2, <3>3 DEF Path
    <3>5. GoodAnswer(UpdateURL(store, Key, m), store, <<m>>)
      BY <1>0, <3>3, <3>4, URLGood
    <3>6. GoodAnswer(Answer("403", store), store, <<m>>)
      BY <1>0, Unchanged
    <3> QED  BY <3>5, <3>6 DEF URLAnswer, m
  <2>3. \/ UNCHANGED <<store, taken, partly, server>>
        \/ server.pc = "up" /\ Answered("url", "none", a, <<Current>>)
    BY <1>2 DEF SendURL, Nothing, ReachesHTTP, HTTPOpen
  <2> HIDE DEF a
  <2> QED  BY <1>0, <1>1, <2>2, <2>3, AnsweredFaithful
<1>3. CASE SendRPC
  <2> DEFINE m == Signed(agent.cfg.key, Current)
             a == UpsertRPC(store, Key, m)
  <2>1. rep.pc = "next" /\ By("GRPC") /\ More
    BY <1>3 DEF SendRPC
  <2>2. m \in Message
    BY <1>0, <2>1, CurrentIs, AgentKeyTyped, SignedIs DEF ReportInv, By
  <2>3. \/ UNCHANGED <<store, taken, partly, server>>
        \/ server.pc = "up" /\ Answered("rpc", "none", a, <<m>>)
    BY <1>3 DEF SendRPC, Nothing, ReachesRPC, RPCOpen
  <2> HIDE DEF m
  <2>4. GoodAnswer(a, store, <<m>>)
    BY <1>0, <2>2, RPCGood
  <2> HIDE DEF a
  <2> QED  BY <1>0, <1>1, <2>3, <2>4, AnsweredFaithful
<1>4. CASE Post
  <2> DEFINE a == Answer("403", store)
  <2>1. \/ UNCHANGED <<store, taken, partly, server>>
        \/ server.pc = "up" /\ Answered("json", RealIP, a, InBody)
    BY <1>4 DEF Post, Nothing, ReachesHTTP, HTTPOpen
  <2>2. GoodAnswer(a, store, InBody)
    BY <1>0, Unchanged
  <2> HIDE DEF a
  <2> QED  BY <1>0, <1>1, <2>1, <2>2, AnsweredFaithful
<1>5. CASE Handle
  <2> DEFINE a == UpdateJSON(store, Key, TRUE, Decoded)
  <2>1. \/ UNCHANGED <<store, taken, partly, server>>
        \/ server.pc = "up" /\ Answered("json", RealIP, a, Decoded)
    BY <1>5 DEF Handle, Nothing, HTTPOpen
  <2>2. Decoded \in {Garbage} \cup Seq(Message)
    BY <1>5, DecodedIs DEF Handle
  <2>3. GoodAnswer(a, store, Decoded)
    BY <1>0, <2>2, JSONGood
  <2> HIDE DEF a
  <2> QED  BY <1>0, <1>1, <2>1, <2>3, AnsweredFaithful
<1>6. CASE OtherRequest
  <2>1. PICK rq \in Others : /\ IF rq.route = "rpc" THEN RPCOpen ELSE HTTPOpen
                             /\ Answered(rq.route, rq.ip, OtherAnswer(rq), Carried(rq))
    BY <1>6 DEF OtherRequest
  <2> DEFINE a == OtherAnswer(rq)
             more == Carried(rq)
             no == Answer("403", store)
  <2>2. GoodAnswer(no, store, more)
    BY <1>0, Unchanged
  <2>3. CASE rq.route = "rpc"
    <3>1. rq.ms = <<rq.ms[1]>> /\ rq.ms[1] \in Message
      BY <2>3, DeliveryAssumption
    <3>2. more = rq.ms /\ a = UpsertRPC(store, Key, rq.ms[1])
      BY <2>3 DEF Carried, OtherAnswer
    <3>3. GoodAnswer(UpsertRPC(store, Key, rq.ms[1]), store, <<rq.ms[1]>>)
      BY <1>0, <3>1, RPCGood
    <3> HIDE DEF a, more
    <3>4. GoodAnswer(a, store, more)
      BY <3>1, <3>2, <3>3
    <3> QED  BY <1>0, <2>1, <2>3, <3>4, AnsweredFaithful DEF RPCOpen, a, more
  <2>4. CASE rq.route = "url"
    <3>1. rq.ms[1] \in Path
      BY <2>4, DeliveryAssumption
    <3>2. more = <<[rq.ms[1] EXCEPT !.id = PathName(@)]>> /\ a = URLAnswer(rq.ip, rq.ms[1])
      BY <2>4 DEF Carried, OtherAnswer
    <3>3. GoodAnswer(UpdateURL(store, Key, rq.ms[1]), store, <<[rq.ms[1] EXCEPT !.id = PathName(@)]>>)
      BY <1>0, <3>1, URLGood
    <3>4. a \in {UpdateURL(store, Key, rq.ms[1]), no}
      BY <3>2 DEF URLAnswer
    <3> HIDE DEF a, more, no
    <3>5. GoodAnswer(a, store, more)
      BY <2>2, <3>2, <3>3, <3>4
    <3> QED  BY <1>0, <2>1, <2>4, <3>5, AnsweredFaithful DEF HTTPOpen, a, more
  <2>5. CASE rq.route = "json"
    <3>1. more = Readable(rq) /\ a \in {UpdateJSON(store, Key, rq.json, Readable(rq)), no}
      BY <2>5 DEF Carried, OtherAnswer
    <3>2. GoodAnswer(UpdateJSON(store, Key, rq.json, Readable(rq)), store, Readable(rq))
      BY <1>0, <2>5, ReadableIs, JSONGood
    <3> HIDE DEF a, more, no
    <3>3. GoodAnswer(a, store, more)
      BY <2>2, <3>1, <3>2
    <3> QED  BY <1>0, <2>1, <2>5, <3>3, AnsweredFaithful DEF HTTPOpen, a, more
  <2>6. CASE rq.route \notin {"rpc", "url", "json"}
    <3>1. a = no
      BY <2>6 DEF OtherAnswer
    <3> HIDE DEF a, more, no
    <3>2. GoodAnswer(a, store, more)
      BY <2>2, <3>1
    <3> QED  BY <1>0, <2>1, <2>6, <3>2, AnsweredFaithful DEF HTTPOpen, a, more
  <2> QED  BY <2>3, <2>4, <2>5, <2>6
<1> QED  BY <1>1, <1>2, <1>3, <1>4, <1>5, <1>6
    DEF Next, ReporterStep, vars, ServerStart, AgentStart, ReportTick, UnknownType, SealBody,
        CipherWork, AllSent, Nothing

LEMMA StoreStart ==
    ASSUME Init PROVE StoreInv
<1>1. StoreTyped(NoMetrics) /\ Faithful(NoMetrics, <<>>)
    BY DEF NoMetrics, StoreTyped, Faithful
<1>2. <<>> \in Seq(Message)
    BY EmptySeq
<1> QED  BY <1>1, <1>2 DEF Init, StoreInv

LEMMA StoreAlways == Spec => []StoreInv
<1>1. Init => StoreInv
    BY StoreStart
<1>2. ReportInv /\ StoreInv /\ AsGiven_' /\ [Next]_vars => StoreInv'
    BY StoreStep
<1> QED  BY <1>1, <1>2, ReportAlways, AsGivenAlways, PTL DEF Spec

\* Readers find what was answered 200, all of it and nothing else, by every route: for
\* all metrics, settings and requests of others (metrics_write.go, metrics_read.go,
\* manager.go:84-148).
THEOREM ReadersSeeTakenAlways == Spec => []ReadersSeeTaken
<1>1. StoreInv => ReadersSeeTaken
  <2> SUFFICES ASSUME StoreInv, server.pc = "up", ~partly
               PROVE  /\ DOMAIN store = {KeyOf(taken[i]) : i \in DOMAIN taken}
                      /\ \A k \in DOMAIN store :
                          LET total == Total(taken, k)
                              text == GetAsText(store, k[1], k[2])
                              json == GetAsJSON(store, Key, TRUE, k[1], k[2])
                          IN  /\ <<k[1], k[2], total>> \in GetMetrics(store)
                              /\ "" \notin {k[1], k[2]} /\ k[2] \notin DOMAIN Escaped =>
                                      text = [status |-> "200", val |-> total]
                              /\ total # NaN => json.m = Signed(Key, Unsigned(k[1], k[2], total))
    BY DEF ReadersSeeTaken
  <2>1. /\ DOMAIN store = {KeyOf(taken[i]) : i \in DOMAIN taken}
        /\ \A k \in DOMAIN store : store[k] = Total(taken, k)
    BY DEF StoreInv, Faithful
  <2>2. \A k \in DOMAIN store : k = <<k[1], k[2]>>
    BY <2>1 DEF KeyOf
  <2> SUFFICES ASSUME NEW k \in DOMAIN store
               PROVE  /\ <<k[1], k[2], store[k]>> \in GetMetrics(store)
                      /\ "" \notin {k[1], k[2]} /\ k[2] \notin DOMAIN Escaped =>
                            GetAsText(store, k[1], k[2]) = [status |-> "200", val |-> store[k]]
                      /\ store[k] # NaN =>
                            GetAsJSON(store, Key, TRUE, k[1], k[2]).m
                                = Signed(Key, Unsigned(k[1], k[2], store[k]))
    BY <2>1
  <2>3. <<k[1], k[2]>> = k
    BY <2>2
  <2>4. <<k[1], k[2], store[k]>> \in GetMetrics(store)
    BY DEF GetMetrics
  <2>5. Get(store, k[1], k[2]) = "none"
    BY <2>3 DEF Get
  <2>6. ASSUME "" \notin {k[1], k[2]}, k[2] \notin DOMAIN Escaped
        PROVE  GetAsText(store, k[1], k[2]) = [status |-> "200", val |-> store[k]]
    <3>1. PathName(k[2]) = k[2]
      BY <2>6 DEF PathName
    <3>2. CreateError(k[1], k[2]) = "none"
      BY <2>6 DEF CreateError
    <3> QED  BY <2>3, <2>5, <3>1, <3>2 DEF GetAsText
  <2>7. ASSUME store[k] # NaN
        PROVE  GetAsJSON(store, Key, TRUE, k[1], k[2]).m = Signed(Key, Unsigned(k[1], k[2], store[k]))
    <3> DEFINE found == Unsigned(k[1], k[2], store[<<k[1], k[2]>>])
               shown == Signed(Key, found)
    <3>1. found.val # NaN /\ found = Unsigned(k[1], k[2], store[k])
      BY <2>3, <2>7 DEF Unsigned
    <3>2. GetAsJSON(store, Key, TRUE, k[1], k[2]) = [status |-> "200", m |-> shown]
      BY <2>5, <3>1 DEF GetAsJSON
    <3>3. shown = Signed(Key, Unsigned(k[1], k[2], store[k]))
      BY <3>1
    <3> HIDE DEF found, shown
    <3>4. [status |-> "200", m |-> shown].m = shown
      OBVIOUS
    <3> QED  BY <3>2, <3>3, <3>4
  <2> QED  BY <2>4, <2>6, <2>7
<1> QED  BY <1>1, StoreAlways, PTL

\* The processes, a report, its body and the store stay in the states of their types.
THEOREM DeliveryTypeCorrect == Spec => []DeliveryTypeOK
<1>1. ReportInv /\ StoreInv /\ CipherTypeOK => DeliveryTypeOK
  <2> SUFFICES ASSUME ReportInv, StoreInv, CipherTypeOK PROVE DeliveryTypeOK
    OBVIOUS
  <2>1. \A k \in DOMAIN store : store[k] \in Int \/ store[k] \in {None, NaN}
    BY DEF StoreInv, StoreTyped, Values
  <2>2. rep \in Stages
    BY DEF ReportInv, Processes
  <2> QED  BY <2>1, <2>2 DEF DeliveryTypeOK, ReportInv, Processes, BodyOf, Stages
<1>2. Spec => []CipherTypeOK
    BY DeliveryUsesCipher, CipherTypeCorrect, PTL
<1> QED  BY <1>1, <1>2, ReportAlways, StoreAlways, PTL
=============================================================================
