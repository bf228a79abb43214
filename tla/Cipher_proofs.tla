---------------------------- MODULE Cipher_proofs ----------------------------
(***************************************************************************)
(* For keys and texts of any length, what Encrypt seals and Decrypt opens. *)
(*                                                                         *)
(* The argument: after b rounds of Encrypt the wire is b blocks, the j-th  *)
(* of which seals the j-th chunk (Blocks).  Decrypt's cuts fall on the     *)
(* blocks although it counts in another unit, so after d rounds it has the *)
(* first d chunks; and it goes through all, as the sealed ones cover the   *)
(* text.                                                                   *)
(***************************************************************************)
EXTENDS Cipher, TLAPS, SequenceTheorems

PlainByte == [pair : {NoKey}, of : {<<>>}, at : Nat]
SealedByte == [pair : Pairs, of : Seq(PlainByte), at : Nat]
Byte == PlainByte \cup SealedByte

Chunk(k, text, j) == Cut(text, j * (Size[k] - Overhead), Size[k] - Overhead)
Covered(k, b) == b * (Size[k] - Overhead)
Upto(s, n) == SubSeq(s, 1, IF n > Len(s) THEN Len(s) ELSE n)

\* The wire is b blocks, the first b chunks of the text under k.
Blocks(k, text, wire, b) ==
    /\ Len(wire) = b * Size[k]
    /\ \A j \in 0..(b - 1) : \A i \in 1..Size[k] :
        wire[j * Size[k] + i] = OAEP(k, Chunk(k, text, j))[i]

-----------------------------------------------------------------------------
(* Arithmetic and sequences *)

\* Rounds before the b-th end where it begins, or earlier.
LEMMA Rounds ==
    ASSUME NEW a \in Nat, NEW b \in Nat, NEW s \in Nat, a < b
    PROVE  a * s + s <= b * s
<1> DEFINE c == b - a - 1
<1>1. c \in Nat /\ b = a + 1 + c
    OBVIOUS
<1>2. (a + 1 + c) * s = a * s + s + c * s
    BY <1>1
<1>3. c * s \in Nat
    BY <1>1
<1> HIDE DEF c
<1> QED  BY <1>1, <1>2, <1>3

\* One more round adds its length.
LEMMA NextRound ==
    ASSUME NEW a \in Nat, NEW s \in Nat
    PROVE  /\ (a + 1) * s = a * s + s
           /\ a * s \in Nat
OBVIOUS

\* A cut is a sequence of what it cuts, no longer than the step, and starts where it
\* is told to.
LEMMA CutIs ==
    ASSUME NEW T, NEW s \in Seq(T), NEW start \in Nat, NEW step \in Nat \ {0}
    PROVE  /\ Cut(s, start, step) \in Seq(T)
           /\ start < Len(s) => /\ Len(Cut(s, start, step)) > 0
                                /\ Cut(s, start, step)[1] = s[start + 1]
                                /\ Cut(s, start, step)[1] \in T
           /\ start + step <= Len(s) =>
                /\ Len(Cut(s, start, step)) = step
                /\ \A i \in 1..step : Cut(s, start, step)[i] = s[start + i]
<1> DEFINE m == start + 1
           n == IF start + step > Len(s) THEN Len(s) ELSE start + step
<1>1. Len(s) \in Nat /\ m \in Int /\ n \in Int /\ n <= Len(s)
    BY LenProperties
<1>2. \A i \in m..n : s[i] \in T
    BY <1>1, ElementOfSeq
<1>3. /\ SubSeq(s, m, n) \in Seq(T)
      /\ Len(SubSeq(s, m, n)) = IF m <= n THEN n - m + 1 ELSE 0
      /\ \A i \in 1..(n - m + 1) : SubSeq(s, m, n)[i] = s[m + i - 1]
    BY <1>1, <1>2, SubSeqProperties
<1>4. Cut(s, start, step) = SubSeq(s, m, n)
    BY DEF Cut
<1>5. start < Len(s) => m <= n /\ 1 \in 1..(n - m + 1) /\ m + 1 - 1 = start + 1 /\ start + 1 \in 1..Len(s)
    BY <1>1
<1>6. start + step <= Len(s) =>
        /\ m <= n /\ n - m + 1 = step
        /\ \A i \in 1..step : m + i - 1 = start + i
    BY <1>1
<1> HIDE DEF m, n
<1>7. start < Len(s) => Cut(s, start, step)[1] = s[start + 1] /\ s[start + 1] \in T
    BY <1>3, <1>4, <1>5, ElementOfSeq
<1>8. start < Len(s) => Len(Cut(s, start, step)) > 0
    BY <1>1, <1>3, <1>4, <1>5
<1>9. start + step <= Len(s) =>
        /\ Len(Cut(s, start, step)) = step
        /\ \A i \in 1..step : Cut(s, start, step)[i] = s[start + i]
    BY <1>3, <1>4, <1>6
<1> QED  BY <1>3, <1>4, <1>7, <1>8, <1>9

\* What is recovered up to a point, and the next cut, are what is recovered up to
\* where that cut ends.
LEMMA CutExtends ==
    ASSUME NEW T, NEW s \in Seq(T), NEW start \in Nat, NEW step \in Nat
    PROVE  Upto(s, start) \o Cut(s, start, step) = Upto(s, start + step)
<1>1. Len(s) \in Nat
    BY LenProperties
<1>2. CASE start <= Len(s)
  <2> DEFINE e == IF start + step > Len(s) THEN Len(s) ELSE start + step
  <2>1. 1 \in 1..(Len(s) + 1) /\ start \in (1 - 1)..Len(s) /\ e \in start..Len(s)
    BY <1>1, <1>2
  <2>2. Upto(s, start) = SubSeq(s, 1, start)
    BY <1>1, <1>2 DEF Upto
  <2>3. Cut(s, start, step) = SubSeq(s, start + 1, e) /\ Upto(s, start + step) = SubSeq(s, 1, e)
    BY DEF Cut, Upto
  <2> HIDE DEF e
  <2>4. SubSeq(s, 1, start) \o SubSeq(s, start + 1, e) = SubSeq(s, 1, e)
    BY <2>1, ConcatAdjacentSubSeq
  <2> QED  BY <2>2, <2>3, <2>4
<1>3. CASE start > Len(s)
  <2>1. Upto(s, start) = SubSeq(s, 1, Len(s)) /\ Upto(s, start + step) = SubSeq(s, 1, Len(s))
    BY <1>1, <1>3 DEF Upto
  <2>2. Cut(s, start, step) = SubSeq(s, start + 1, Len(s))
    BY <1>1, <1>3 DEF Cut
  <2>3. SubSeq(s, start + 1, Len(s)) = <<>>
    BY <1>1, <1>3, SubSeqEmpty
  <2> QED  BY <2>1, <2>2, <2>3, SubSeqFull, ConcatEmptySeq
<1> QED  BY <1>1, <1>2, <1>3

-----------------------------------------------------------------------------
(* Blocks *)

LEMMA Sizes ==
    ASSUME NEW k \in Pairs
    PROVE  /\ Size[k] \in Nat \ {0} /\ Size[k] - Overhead \in Nat \ {0}
           /\ k # NoKey
BY CipherAssumption

LEMMA ChunkIs ==
    ASSUME NEW k \in Pairs, NEW text \in Seq(PlainByte), NEW j \in Nat
    PROVE  Chunk(k, text, j) \in Seq(PlainByte)
<1>1. j * (Size[k] - Overhead) \in Nat
    BY Sizes, NextRound
<1> QED  BY <1>1, Sizes, CutIs DEF Chunk

LEMMA OAEPIs ==
    ASSUME NEW k \in Pairs, NEW chunk \in Seq(PlainByte)
    PROVE  /\ OAEP(k, chunk) \in Seq(Byte)
           /\ Len(OAEP(k, chunk)) = Size[k]
           /\ \A i \in 1..Size[k] : OAEP(k, chunk)[i] = [pair |-> k, of |-> chunk, at |-> i]
<1>1. Size[k] \in Nat
    BY Sizes
<1>2. \A i \in 1..Size[k] : [pair |-> k, of |-> chunk, at |-> i] \in Byte
    BY <1>1 DEF Byte, SealedByte
<1>3. OAEP(k, chunk) \in [1..Size[k] -> Byte]
    BY <1>2 DEF OAEP
<1> QED  BY <1>1, <1>3 DEF OAEP

\* A round of Encrypt adds the block of the next chunk.
LEMMA AddBlock ==
    ASSUME NEW k \in Pairs, NEW text \in Seq(PlainByte), NEW wire \in Seq(Byte),
           NEW b \in Nat, Blocks(k, text, wire, b)
    PROVE  /\ wire \o OAEP(k, Chunk(k, text, b)) \in Seq(Byte)
           /\ Blocks(k, text, wire \o OAEP(k, Chunk(k, text, b)), b + 1)
<1>1. PICK S \in Nat \ {0} : S = Size[k]
    BY Sizes
<1>2. PICK n \in Nat : n = b * S /\ Len(wire) = n
    BY <1>1, NextRound DEF Blocks
<1> DEFINE block == OAEP(k, Chunk(k, text, b))
           longer == wire \o block
<1>3. block \in Seq(Byte) /\ Len(block) = S
    BY <1>1, ChunkIs, OAEPIs
<1> HIDE DEF block
<1>4. /\ longer \in Seq(Byte) /\ Len(longer) = n + S
      /\ \A i \in 1..(n + S) : longer[i] = IF i <= n THEN wire[i] ELSE block[i - n]
  <2>1. /\ longer \in Seq(Byte) /\ Len(longer) = Len(wire) + Len(block)
        /\ \A i \in 1..(Len(wire) + Len(block)) :
                longer[i] = IF i <= Len(wire) THEN wire[i] ELSE block[i - Len(wire)]
    BY <1>3, ConcatProperties
  <2> HIDE DEF longer
  <2> QED  BY <1>2, <1>3, <2>1
<1> HIDE DEF longer
<1>5. ASSUME NEW j \in 0..b, NEW i \in 1..S
      PROVE  longer[j * S + i] = OAEP(k, Chunk(k, text, j))[i]
  <2>1. PICK p \in Nat : p = j * S
    BY NextRound
  <2>2. CASE j < b
    <3>1. p + S <= n
      BY <1>2, <2>1, <2>2, Rounds
    <3>2. longer[p + i] = wire[p + i]
      BY <1>4, <3>1
    <3>3. j \in 0..(b - 1)
      BY <2>2
    <3> QED  BY <1>1, <2>1, <3>2, <3>3 DEF Blocks
  <2>3. CASE j = b
    <3>1. p = n /\ n + i \in 1..(n + S) /\ ~(n + i <= n) /\ n + i - n = i
      BY <1>2, <2>1, <2>3
    <3>2. longer[n + i] = block[i]
      BY <1>4, <3>1
    <3> QED  BY <2>1, <2>3, <3>1, <3>2 DEF block
  <2> QED  BY <2>2, <2>3
<1>6. Len(longer) = (b + 1) * S
    BY <1>2, <1>4, NextRound
<1>7. 0..(b + 1 - 1) = 0..b
    OBVIOUS
<1>8. Blocks(k, text, longer, b + 1)
    BY <1>1, <1>5, <1>6, <1>7 DEF Blocks
<1> QED  BY <1>4, <1>8 DEF longer, block

\* Decrypt's d-th cut is the block of the d-th chunk.
LEMMA BlockAt ==
    ASSUME NEW k \in Pairs, NEW text \in Seq(PlainByte), NEW wire \in Seq(Byte),
           NEW b \in Nat, Blocks(k, text, wire, b), NEW d \in Nat, d < b
    PROVE  Cut(wire, d * Size[k], Size[k]) = OAEP(k, Chunk(k, text, d))
<1>1. PICK S \in Nat \ {0} : S = Size[k]
    BY Sizes
<1>2. PICK p \in Nat : p = d * S
    BY NextRound
<1>3. p + S <= Len(wire)
    BY <1>1, <1>2, Rounds DEF Blocks
<1> DEFINE cut == Cut(wire, p, S)
           block == OAEP(k, Chunk(k, text, d))
<1>4. cut \in Seq(Byte) /\ Len(cut) = S /\ \A i \in 1..S : cut[i] = wire[p + i]
  <2>1. cut \in Seq(Byte)
    BY CutIs
  <2>2. Len(cut) = S
    BY <1>3, CutIs
  <2>3. \A i \in 1..S : cut[i] = wire[p + i]
    BY <1>3, CutIs
  <2> QED  BY <2>1, <2>2, <2>3
<1>5. block \in Seq(Byte) /\ Len(block) = S
    BY <1>1, ChunkIs, OAEPIs
<1>6. \A i \in 1..S : wire[p + i] = block[i]
  <2>1. d \in 0..(b - 1)
    OBVIOUS
  <2> QED  BY <1>1, <1>2, <2>1 DEF Blocks
<1> HIDE DEF cut, block
<1>7. cut = block
    BY <1>4, <1>5, <1>6, SeqEqual
<1> QED  BY <1>1, <1>2, <1>7 DEF cut, block

-----------------------------------------------------------------------------
(* The inductive invariant *)

JobType ==
    job \in [pc : {"idle", "seal", "sent", "open", "read", "failed"},
            text : Seq(PlainByte), pub : Pairs \cup {NoKey}, priv : Pairs \cup {NoKey},
            start : Nat, wire : Seq(Byte), got : Seq(Byte)]

BlocksSoFar ==
    \E b \in Nat : /\ job.start = Covered(job.pub, b)
                  /\ Blocks(job.pub, job.text, job.wire, b)
Sealing == Doing("seal") => job.got = <<>> /\ (job.pub # NoKey => BlocksSoFar)

Whole(b) == /\ Blocks(job.pub, job.text, job.wire, b)
            /\ Len(job.text) <= Covered(job.pub, b)
Sealed ==
    job.pc \in {"sent", "open"} =>
        IF job.pub = NoKey THEN job.wire = job.text ELSE \E b \in Nat : Whole(b)
Unopened == Doing("sent") => job.got = <<>>

Opened(b, d) == /\ d <= b /\ Whole(b)
                /\ job.start = d * Size[job.pub]
                /\ job.got = Upto(job.text, Covered(job.pub, d))
Opening ==
    Doing("open") /\ job.pub # NoKey /\ job.priv = job.pub => \E b, d \in Nat : Opened(b, d)
Foreign ==
    Doing("open") /\ job.priv # NoKey /\ job.priv # job.pub /\ job.text # <<>> =>
        job.start = 0 /\ Len(job.wire) > 0 /\ job.wire[1].pair # job.priv

CipherInv ==
    /\ JobType
    /\ Sealing /\ Sealed /\ Unopened /\ Opening /\ Foreign
    /\ RoundTrip /\ WrongKeyFails

\* Another key than the one that sealed finds none of its blocks at the start.
LEMMA NotTheirs ==
    ASSUME CipherInv, Doing("sent"), NEW priv \in Pairs, priv # job.pub, job.text # <<>>
    PROVE  Len(job.wire) > 0 /\ job.wire[1].pair # priv
<1> USE DEF CipherInv, JobType, Doing
<1>1. Len(job.text) \in Nat \ {0}
    BY EmptySeq
<1>2. CASE job.pub = NoKey
  <2>1. job.wire = job.text
    BY <1>2 DEF Sealed
  <2>2. job.text[1] \in PlainByte
    BY <1>1, ElementOfSeq
  <2> QED  BY <1>1, <2>1, <2>2, Sizes DEF PlainByte
<1>3. CASE job.pub # NoKey
  <2> DEFINE k == job.pub
  <2>1. k \in Pairs
    BY <1>3
  <2>2. PICK b \in Nat : Whole(b)
    BY <1>3 DEF Sealed
  <2>3. b # 0
    BY <1>1, <2>1, <2>2, Sizes DEF Whole, Covered
  <2>4. Size[k] \in Nat \ {0} /\ Len(job.wire) = b * Size[k]
    BY <2>1, <2>2, Sizes DEF Whole, Blocks
  <2>5. 0 * Size[k] + Size[k] <= b * Size[k] /\ 0 * Size[k] + 1 = 1
    BY <2>3, <2>4, Rounds
  <2>6. 0 \in 0..(b - 1) /\ 1 \in 1..Size[k]
    BY <2>3, <2>4
  <2>7. job.wire[0 * Size[k] + 1] = OAEP(k, Chunk(k, job.text, 0))[1]
    BY <2>2, <2>6 DEF Whole, Blocks
  <2>8. OAEP(k, Chunk(k, job.text, 0))[1].pair = k
    <3>1. Chunk(k, job.text, 0) \in Seq(PlainByte)
      BY <2>1, ChunkIs
    <3> DEFINE chunk == Chunk(k, job.text, 0)
    <3>a. chunk \in Seq(PlainByte)
      BY <3>1
    <3> HIDE DEF k, chunk
    <3>2. OAEP(k, chunk)[1] = [pair |-> k, of |-> chunk, at |-> 1]
      BY <2>1, <2>6, <3>a, OAEPIs
    <3> QED  BY <3>2 DEF chunk
  <2> QED  BY <2>4, <2>5, <2>7, <2>8
<1> QED  BY <1>2, <1>3

LEMMA TextIs ==
    ASSUME NEW n \in Nat
    PROVE  Text(n) \in Seq(PlainByte)
<1>1. \A i \in 1..n : Plain(i) \in PlainByte
    BY DEF Plain, PlainByte
<1>2. Text(n) \in [1..n -> PlainByte]
    BY <1>1 DEF Text
<1> QED  BY <1>2

LEMMA Empty == <<>> \in Seq(PlainByte) /\ <<>> \in Seq(Byte)
BY EmptySeq

LEMMA PlainToo ==
    ASSUME NEW s \in Seq(PlainByte)
    PROVE  s \in Seq(Byte)
BY SeqMonotonic DEF Byte

LEMMA IdleInv ==
    ASSUME job = Idle
    PROVE  CipherInv
<1>1. JobType
    BY Empty DEF JobType, Idle
<1> QED  BY <1>1 DEF CipherInv, Idle, Sealing, Sealed, Unopened, Opening, Foreign, RoundTrip,
                     WrongKeyFails, Doing

\* What is opened once all blocks are is the text.
LEMMA AllOpened ==
    ASSUME CipherInv, OpenEnd, job.priv = job.pub
    PROVE  job.got = job.text
<1> DEFINE k == job.pub
<1>1. job.text \in Seq(PlainByte) /\ k \in Pairs
    BY DEF CipherInv, JobType, OpenEnd
<1>2. PICK b, d \in Nat : Opened(b, d)
    BY DEF CipherInv, Opening, OpenEnd
<1>3. d = b
  <2>1. Size[k] \in Nat \ {0} /\ Len(job.wire) = b * Size[k] /\ d <= b
    BY <1>1, <1>2, Sizes DEF Opened, Whole, Blocks
  <2>2. b * Size[k] <= d * Size[k]
    BY <1>2, <2>1 DEF Opened, OpenEnd
  <2>3. PICK S \in Nat \ {0} : S = Size[k]
    BY <2>1
  <2>4. PICK bs \in Nat : bs = b * S
    BY <2>3, NextRound
  <2>5. PICK ds \in Nat : ds = d * S
    BY <2>3, NextRound
  <2>6. d < b => ds + S <= bs
    BY <2>4, <2>5, Rounds
  <2>7. bs <= ds
    BY <2>2, <2>3, <2>4, <2>5
  <2>8. d <= b
    BY <2>1
  <2> QED  BY <2>6, <2>7, <2>8
<1>4. PICK n \in Nat : n = Covered(k, b)
    BY <1>1, Sizes, NextRound DEF Covered
<1>5. Len(job.text) <= n
    BY <1>2, <1>4 DEF Opened, Whole
<1>6. job.got = Upto(job.text, n)
    BY <1>2, <1>3, <1>4 DEF Opened
<1>7. Upto(job.text, n) = SubSeq(job.text, 1, Len(job.text))
    BY <1>1, <1>5, LenProperties DEF Upto
<1> QED  BY <1>1, <1>6, <1>7, SubSeqFull

\* The block at hand is the one of the next chunk, and the key fits it.
LEMMA NextBlock ==
    ASSUME CipherInv, Doing("open"), job.priv = job.pub, job.pub # NoKey,
           job.start < Len(job.wire), NEW b \in Nat, NEW d \in Nat, Opened(b, d)
    PROVE  /\ d < b
           /\ Block = OAEP(job.pub, Chunk(job.pub, job.text, d))
           /\ Block[1].of = Chunk(job.pub, job.text, d)
           /\ Opens(job.priv, Block)
<1> DEFINE k == job.pub
           chunk == Chunk(k, job.text, d)
<1>1. job.text \in Seq(PlainByte) /\ job.wire \in Seq(Byte) /\ k \in Pairs
    BY DEF CipherInv, JobType
<1>2. Size[k] \in Nat \ {0} /\ Len(job.wire) = b * Size[k] /\ job.start = d * Size[k] /\ d <= b
    BY <1>1, Sizes DEF Opened, Whole, Blocks
<1>3. d < b
    BY <1>2
<1>4. Block = OAEP(k, chunk)
  <2>1. Blocks(k, job.text, job.wire, b)
    BY DEF Opened, Whole
  <2>2. Cut(job.wire, d * Size[k], Size[k]) = OAEP(k, chunk)
    BY <1>1, <1>3, <2>1, BlockAt
  <2> QED  BY <1>2, <2>2 DEF Block
<1>5. Block[1] = [pair |-> k, of |-> chunk, at |-> 1]
  <2>1. chunk \in Seq(PlainByte)
    BY <1>1, ChunkIs
  <2>2. 1 \in 1..Size[k]
    BY <1>2
  <2> HIDE DEF k, chunk
  <2> QED  BY <1>1, <1>4, <2>1, <2>2, OAEPIs
<1> QED  BY <1>3, <1>4, <1>5 DEF Opens

-----------------------------------------------------------------------------
(* Every step keeps the invariant. *)

LEMMA SealInv ==
    ASSUME CipherInv, NEW n \in Nat, NEW pub \in Pairs \cup {NoKey}, Seal(n, pub)
    PROVE  CipherInv'
<1> USE DEF Doing
<1>1. /\ job'.pc = "seal" /\ job'.text = Text(n) /\ job'.pub = pub /\ job'.priv = NoKey
      /\ job'.start = 0 /\ job'.wire = <<>> /\ job'.got = <<>>
    BY DEF Seal, Idle
<1>2. JobType'
    BY Empty, TextIs DEF Seal, Idle, JobType
<1>3. Sealing'
  <2> SUFFICES ASSUME pub # NoKey PROVE BlocksSoFar'
    BY <1>1 DEF Sealing
  <2>1. 0 = Covered(pub, 0)
    BY Sizes DEF Covered
  <2>2. Blocks(pub, Text(n), <<>>, 0)
    BY Sizes, Empty, EmptySeq DEF Blocks
  <2> QED  BY <1>1, <2>1, <2>2 DEF BlocksSoFar
<1> QED
    BY <1>1, <1>2, <1>3 DEF CipherInv, Sealed, Unopened, Opening, Foreign, RoundTrip, WrongKeyFails

LEMMA SealNothingInv ==
    ASSUME CipherInv, SealNothing
    PROVE  CipherInv'
<1> USE DEF Doing
<1>1. JobType'
    BY PlainToo DEF CipherInv, JobType, SealNothing
<1>2. /\ job'.pc = "sent" /\ job'.wire = job'.text /\ job'.pub = NoKey /\ job'.got = <<>>
    BY DEF CipherInv, JobType, Sealing, SealNothing
<1> QED
    BY <1>1, <1>2 DEF CipherInv, Sealing, Sealed, Unopened, Opening, Foreign, RoundTrip, WrongKeyFails

LEMMA SealBlockInv ==
    ASSUME CipherInv, SealBlock
    PROVE  CipherInv'
<1> USE DEF Doing
<1>1. job.text \in Seq(PlainByte) /\ job.wire \in Seq(Byte) /\ job.pub \in Pairs /\ job.got = <<>>
    BY DEF CipherInv, JobType, Sealing, SealBlock
<1>2. PICK b \in Nat : /\ job.start = Covered(job.pub, b)
                      /\ Blocks(job.pub, job.text, job.wire, b)
    BY <1>1, Sizes DEF CipherInv, Sealing, BlocksSoFar, SealBlock
<1> DEFINE longer == job.wire \o OAEP(job.pub, Chunk(job.pub, job.text, b))
<1>3. longer \in Seq(Byte) /\ Blocks(job.pub, job.text, longer, b + 1)
    BY <1>1, <1>2, AddBlock
<1>4. Cut(job.text, job.start, Room) = Chunk(job.pub, job.text, b)
    BY <1>2 DEF Covered, Chunk, Room
<1>5. /\ job' = [job EXCEPT !.start = job.start + Room, !.wire = longer]
      /\ job.pc = "seal"
    BY <1>4 DEF SealBlock
<1> HIDE DEF longer
<1>6. job.start + Room \in Nat
    BY <1>1, Sizes DEF CipherInv, JobType, Room
<1>7. JobType'
    BY <1>3, <1>5, <1>6 DEF CipherInv, JobType
<1>8. /\ job'.pc = "seal" /\ job'.text = job.text /\ job'.pub = job.pub /\ job'.got = job.got
      /\ job'.start = job.start + Room /\ job'.wire = longer
    BY <1>5 DEF CipherInv, JobType
<1>9. job.start + Room = Covered(job.pub, b + 1)
    BY <1>1, <1>2, Sizes, NextRound DEF Covered, Room
<1>10. BlocksSoFar'
    BY <1>3, <1>8, <1>9 DEF BlocksSoFar
<1> QED
    BY <1>1, <1>7, <1>8, <1>10
    DEF CipherInv, Sealing, Sealed, Unopened, Opening, Foreign, RoundTrip, WrongKeyFails

LEMMA SealEndInv ==
    ASSUME CipherInv, SealEnd
    PROVE  CipherInv'
<1> USE DEF Doing
<1>1. JobType'
    BY DEF CipherInv, JobType, SealEnd
<1>2. /\ job'.pc = "sent" /\ job'.text = job.text /\ job'.pub = job.pub /\ job'.got = <<>>
      /\ job'.wire = job.wire /\ job'.pub # NoKey
    BY DEF CipherInv, JobType, Sealing, SealEnd
<1>3. PICK b \in Nat : /\ job.start = Covered(job.pub, b)
                      /\ Blocks(job.pub, job.text, job.wire, b)
    BY DEF CipherInv, Sealing, BlocksSoFar, SealEnd
<1>4. Whole(b)'
    BY <1>2, <1>3 DEF SealEnd, Whole
<1> QED
    BY <1>1, <1>2, <1>4
    DEF CipherInv, Sealing, Sealed, Unopened, Opening, Foreign, RoundTrip, WrongKeyFails

LEMMA ArriveInv ==
    ASSUME CipherInv, NEW priv \in Pairs \cup {NoKey}, Arrive(priv)
    PROVE  CipherInv'
<1> USE DEF Doing
<1>1. JobType'
    BY DEF CipherInv, JobType, Arrive
<1>2. /\ job'.pc = "open" /\ job'.text = job.text /\ job'.pub = job.pub /\ job'.got = <<>>
      /\ job'.wire = job.wire /\ job'.priv = priv /\ job'.start = 0
    BY DEF CipherInv, JobType, Unopened, Arrive
<1>3. Sealed'
    BY <1>2 DEF CipherInv, Sealed, Whole, Arrive
<1>4. Opening'
  <2> SUFFICES ASSUME job.pub # NoKey PROVE \E b \in Nat : Opened(b, 0)'
    BY <1>2 DEF Opening
  <2>1. PICK b \in Nat : Whole(b)
    BY DEF CipherInv, Sealed, Arrive
  <2>2. job.pub \in Pairs /\ job.text \in Seq(PlainByte)
    BY DEF CipherInv, JobType
  <2>3. Covered(job.pub, 0) = 0 /\ 0 = 0 * Size[job.pub]
    BY <2>2, Sizes DEF Covered
  <2>4. Upto(job.text, 0) = <<>>
    BY <2>2, LenProperties, SubSeqEmpty DEF Upto
  <2>5. Whole(b)'
    BY <1>2, <2>1 DEF Whole
  <2> QED  BY <1>2, <2>3, <2>4, <2>5 DEF Opened
<1>5. Foreign'
    BY <1>2, NotTheirs DEF Foreign, Arrive
<1> QED
    BY <1>1, <1>2, <1>3, <1>4, <1>5 DEF CipherInv, Sealing, Unopened, RoundTrip, WrongKeyFails

LEMMA OpenNothingInv ==
    ASSUME CipherInv, OpenNothing
    PROVE  CipherInv'
<1> USE DEF Doing
<1>1. JobType'
    BY DEF CipherInv, JobType, OpenNothing
<1>2. /\ job'.pc = "read" /\ job'.text = job.text /\ job'.pub = job.pub /\ job'.priv = NoKey
      /\ job'.got = job.wire
    BY DEF CipherInv, JobType, OpenNothing
<1>3. job.pub = NoKey => job.wire = job.text
    BY DEF CipherInv, Sealed, OpenNothing
<1> QED
    BY <1>1, <1>2, <1>3
    DEF CipherInv, Sealing, Sealed, Unopened, Opening, Foreign, RoundTrip, WrongKeyFails

LEMMA OpenBlockInv ==
    ASSUME CipherInv, OpenBlock
    PROVE  CipherInv'
<1> USE DEF Doing
<1>1. /\ job.text \in Seq(PlainByte) /\ job.wire \in Seq(Byte) /\ job.priv \in Pairs
      /\ job.start \in Nat /\ job.got \in Seq(Byte) /\ Size[job.priv] \in Nat \ {0}
    BY Sizes DEF CipherInv, JobType, OpenBlock
<1>2. /\ job' = [job EXCEPT !.start = job.start + Size[job.priv], !.got = job.got \o Block[1].of]
      /\ job.pc = "open" /\ job.start < Len(job.wire)
    BY DEF OpenBlock
<1>3. Block[1] \in Byte /\ Block[1] = job.wire[job.start + 1]
  <2>1. PICK S \in Nat \ {0} : S = Size[job.priv]
    BY <1>1
  <2>2. PICK wire \in Seq(Byte) : wire = job.wire
    BY <1>1
  <2>3. PICK p \in Nat : p = job.start
    BY <1>1
  <2>4. Cut(wire, p, S)[1] \in Byte /\ Cut(wire, p, S)[1] = wire[p + 1]
    BY SMTT(20), <1>2, <2>2, <2>3, CutIs
  <2> QED  BY <2>1, <2>2, <2>3, <2>4 DEF Block
<1>4. Block[1].pair = job.priv
    BY DEF OpenBlock, Opens
<1>5. Block[1].of \in Seq(Byte)
  <2>1. Block[1] \in SealedByte
    BY <1>1, <1>3, <1>4, Sizes DEF Byte, PlainByte
  <2>2. Block[1].of \in Seq(PlainByte)
    BY <2>1 DEF SealedByte
  <2> QED  BY <2>2, PlainToo
<1>6. job.got \o Block[1].of \in Seq(Byte) /\ job.start + Size[job.priv] \in Nat
    BY <1>1, <1>5, ConcatProperties
<1>7. JobType'
    BY <1>2, <1>6 DEF CipherInv, JobType
<1>8. /\ job'.pc = "open" /\ job'.text = job.text /\ job'.pub = job.pub /\ job'.priv = job.priv
      /\ job'.wire = job.wire /\ job'.start = job.start + Size[job.priv]
      /\ job'.got = job.got \o Block[1].of
    BY <1>2 DEF CipherInv, JobType
<1>9. Sealed'
    BY <1>2, <1>8 DEF CipherInv, Sealed, Whole
<1>10. Opening'
  <2> SUFFICES ASSUME job.pub # NoKey, job.priv = job.pub
               PROVE  \E b, d \in Nat : Opened(b, d)'
    BY <1>8 DEF Opening
  <2>1. PICK b, d \in Nat : Opened(b, d)
    BY <1>2 DEF CipherInv, Opening
  <2>2. d < b /\ Block[1].of = Chunk(job.pub, job.text, d)
    BY <1>2, <2>1, NextBlock
  <2>3. PICK room \in Nat : room = Size[job.pub] - Overhead
    BY <1>1, Sizes
  <2>4. PICK p \in Nat : p = d * room
    BY <2>3, NextRound
  <2>5. job.got = Upto(job.text, p) /\ Chunk(job.pub, job.text, d) = Cut(job.text, p, room)
    BY <2>1, <2>3, <2>4 DEF Opened, Covered, Chunk
  <2>6. job'.got = Upto(job.text, p + room)
    <3>1. PICK text \in Seq(PlainByte) : text = job.text
      BY <1>1
    <3>2. Upto(text, p) \o Cut(text, p, room) = Upto(text, p + room)
      BY CutExtends
    <3> QED  BY <1>8, <2>2, <2>5, <3>1, <3>2
  <2>7. p + room = Covered(job.pub, d + 1)
    BY <2>3, <2>4, NextRound DEF Covered
  <2>8. job'.start = (d + 1) * Size[job.pub]
    <3>1. PICK S \in Nat : S = Size[job.pub]
      BY <1>1
    <3>2. (d + 1) * S = d * S + S
      BY NextRound
    <3> QED  BY <1>8, <2>1, <3>1, <3>2 DEF Opened
  <2>9. Whole(b)' /\ d + 1 <= b
    BY <1>8, <2>1, <2>2 DEF Opened, Whole
  <2>10. Opened(b, d + 1)'
    BY <1>8, <2>6, <2>7, <2>8, <2>9 DEF Opened
  <2> QED  BY <2>10
<1>11. Foreign'
  <2> SUFFICES ASSUME job.priv # job.pub, job.text # <<>> PROVE FALSE
    BY <1>8 DEF Foreign
  <2>1. job.start = 0 /\ job.wire[1].pair # job.priv
    BY <1>1, <1>2, Sizes DEF CipherInv, Foreign
  <2> QED  BY <1>3, <1>4, <2>1
<1> QED
    BY <1>7, <1>8, <1>9, <1>10, <1>11 DEF CipherInv, Sealing, Unopened, RoundTrip, WrongKeyFails

LEMMA OpenFailsInv ==
    ASSUME CipherInv, OpenFails
    PROVE  CipherInv'
<1> USE DEF Doing
<1>1. JobType'
    BY DEF CipherInv, JobType, OpenFails
<1>2. /\ job'.pc = "failed" /\ job'.text = job.text /\ job'.pub = job.pub /\ job'.priv = job.priv
    BY DEF CipherInv, JobType, OpenFails
<1>3. job.priv # job.pub
  <2> SUFFICES ASSUME job.priv = job.pub PROVE FALSE
    OBVIOUS
  <2>1. PICK b, d \in Nat : Opened(b, d)
    BY DEF CipherInv, Opening, OpenFails
  <2> QED  BY <2>1, NextBlock DEF OpenFails
<1> QED
    BY <1>1, <1>2, <1>3
    DEF CipherInv, Sealing, Sealed, Unopened, Opening, Foreign, RoundTrip, WrongKeyFails

LEMMA OpenEndInv ==
    ASSUME CipherInv, OpenEnd
    PROVE  CipherInv'
<1> USE DEF Doing
<1>1. JobType'
    BY DEF CipherInv, JobType, OpenEnd
<1>2. /\ job'.pc = "read" /\ job'.text = job.text /\ job'.pub = job.pub /\ job'.priv = job.priv
      /\ job'.got = job.got
    BY DEF CipherInv, JobType, OpenEnd
<1>3. job.priv # job.pub => job.text = <<>>
    BY EmptySeq DEF CipherInv, JobType, Foreign, OpenEnd
<1>4. RoundTrip' /\ WrongKeyFails'
    BY <1>2, <1>3, AllOpened DEF RoundTrip, WrongKeyFails
<1> QED
    BY <1>1, <1>2, <1>4 DEF CipherInv, Sealing, Sealed, Unopened, Opening, Foreign

LEMMA CipherInvStep ==
    ASSUME CipherInv, [CipherNext]_job
    PROVE  CipherInv'
<1>1. CASE \E n \in Nat, pub \in Pairs \cup {NoKey} : Seal(n, pub)
    BY <1>1, SealInv
<1>2. CASE \E priv \in Pairs \cup {NoKey} : Arrive(priv)
    BY <1>2, ArriveInv
<1>3. CASE job' = Idle
  <2>1. JobType'
    BY <1>3, Empty DEF JobType, Idle
  <2> QED
    BY <1>3, <2>1 DEF CipherInv, Idle, Sealing, Sealed, Unopened, Opening, Foreign, RoundTrip,
                      WrongKeyFails, Doing
<1>4. CASE SealNothing
    BY <1>4, SealNothingInv
<1>5. CASE SealBlock
    BY <1>5, SealBlockInv
<1>6. CASE SealEnd
    BY <1>6, SealEndInv
<1>7. CASE OpenNothing
    BY <1>7, OpenNothingInv
<1>8. CASE OpenBlock
    BY <1>8, OpenBlockInv
<1>9. CASE OpenFails
    BY <1>9, OpenFailsInv
<1>10. CASE OpenEnd
    BY <1>10, OpenEndInv
<1>11. CASE UNCHANGED job
    BY <1>11 DEF CipherInv, JobType, Sealing, Sealed, Unopened, Opening, Foreign, BlocksSoFar,
                 Whole, Opened, RoundTrip, WrongKeyFails, Doing
<1> QED
    BY <1>1, <1>2, <1>3, <1>4, <1>5, <1>6, <1>7, <1>8, <1>9, <1>10, <1>11
    DEF CipherNext, CipherStep, CipherDone, Drop

LEMMA CipherInvAlways == CipherSpec => []CipherInv
<1>1. CipherInit => CipherInv
    BY IdleInv DEF CipherInit
<1>2. CipherInv /\ [CipherNext]_job => CipherInv'
    BY CipherInvStep
<1> QED  BY <1>1, <1>2, PTL DEF CipherSpec

-----------------------------------------------------------------------------
\* Encrypt and Decrypt keep every body in one of the states its type allows, whatever
\* the lengths of texts and keys.
THEOREM CipherTypeCorrect == CipherSpec => []CipherTypeOK
<1>1. CipherInv => CipherTypeOK
    BY DEF CipherInv, JobType, CipherTypeOK, PlainByte
<1> QED  BY <1>1, CipherInvAlways, PTL

\* Two ends that hold the halves of one pair, or no key, get the text across: for
\* every text, also one whose last chunk is shorter, or that is empty, and for every
\* size of key that leaves room in a block (reporter.go:100-130, handler.go:149-181).
THEOREM RoundTripAlways == CipherSpec => []RoundTrip
<1>1. CipherInv => RoundTrip
    BY DEF CipherInv
<1> QED  BY <1>1, CipherInvAlways, PTL

\* An end with another key never takes what it gets for a message, unless the text is
\* empty.
THEOREM WrongKeyNeverReads == CipherSpec => []WrongKeyFails
<1>1. CipherInv => WrongKeyFails
    BY DEF CipherInv
<1> QED  BY <1>1, CipherInvAlways, PTL
=============================================================================
