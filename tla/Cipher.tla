------------------------------- MODULE Cipher --------------------------------
(***************************************************************************)
(* The body of a JSON report on its way from the agent to a handler:       *)
(* Encrypt (agent/services/reporter/reporter.go) cuts the text into chunks *)
(* that fit a block of the public key, Decrypt (server/handlers/handler.go)*)
(* cuts what arrives into blocks of the private key's size.  Neither says  *)
(* to the other where a block ends.                                        *)
(*                                                                         *)
(* RSA-OAEP is external: a block has the size of the key, only the pair    *)
(* that sealed it opens it, and whole.  Bytes are told apart by where they *)
(* come from, never by their value.                                        *)
(***************************************************************************)
EXTENDS Integers, Sequences

CONSTANTS
    Pairs,      \* the RSA key pairs
    Size,       \* [Pairs -> the bytes of a pair's modulus]
    Overhead,   \* what OAEP takes of a block: two hashes and two bytes
    NoKey       \* no usable key

\* Keys are longer than the overhead (cmd/crypto makes them of 4096 bits).
ASSUME CipherAssumption ==
    /\ NoKey \notin Pairs
    /\ Overhead \in Nat
    /\ Size \in [Pairs -> Nat] /\ \A k \in Pairs : Size[k] > Overhead

VARIABLE job   \* the body under way: its step, the text, the keys of the two ends,
               \* where the loop is, the bytes on the wire, those recovered

\* A byte of a text, by its position; and of a block, by what the block seals.
Plain(i) == [pair |-> NoKey, of |-> <<>>, at |-> i]
Text(n) == [i \in 1..n |-> Plain(i)]
OAEP(k, chunk) == [i \in 1..Size[k] |-> [pair |-> k, of |-> chunk, at |-> i]]

Idle == [pc |-> "idle", text |-> <<>>, pub |-> NoKey, priv |-> NoKey,
         start |-> 0, wire |-> <<>>, got |-> <<>>]
CipherInit == job = Idle

Doing(step) == job.pc = step
Cut(s, start, step) ==
    SubSeq(s, start + 1, IF start + step > Len(s) THEN Len(s) ELSE start + step)

-----------------------------------------------------------------------------
(* Encrypt *)

Seal(n, pub) ==
    /\ Doing("idle")
    /\ job' = [Idle EXCEPT !.pc = "seal", !.text = Text(n), !.pub = pub]

Room == Size[job.pub] - Overhead

\* Without a key the text goes out as it is.
SealNothing ==
    /\ Doing("seal") /\ job.pub = NoKey
    /\ job' = [job EXCEPT !.pc = "sent", !.wire = job.text]

SealBlock ==
    /\ Doing("seal") /\ job.pub # NoKey
    /\ job.start < Len(job.text)
    /\ job' = [job EXCEPT !.start = @ + Room,
                          !.wire = @ \o OAEP(job.pub, Cut(job.text, job.start, Room))]

SealEnd ==
    /\ Doing("seal") /\ job.pub # NoKey
    /\ job.start >= Len(job.text)
    /\ job' = [job EXCEPT !.pc = "sent"]

-----------------------------------------------------------------------------
(* Decrypt *)

\* A body that no handler gets to read.
Drop == Doing("sent") /\ job' = Idle

Arrive(priv) ==
    /\ Doing("sent")
    /\ job' = [job EXCEPT !.pc = "open", !.start = 0, !.priv = priv]

\* Mutant: the blocks are taken as long as the chunks were.
BlockOfChunk == Cut(job.wire, job.start, Size[job.priv] - Overhead)

Block == Cut(job.wire, job.start, Size[job.priv])
Opens(k, block) == block[1].pair = k /\ block = OAEP(k, block[1].of)

OpenNothing ==
    /\ Doing("open") /\ job.priv = NoKey
    /\ job' = [job EXCEPT !.pc = "read", !.got = job.wire]

OpenBlock ==
    /\ Doing("open") /\ job.priv # NoKey
    /\ job.start < Len(job.wire)
    /\ Opens(job.priv, Block)
    /\ job' = [job EXCEPT !.start = @ + Size[job.priv], !.got = @ \o Block[1].of]

\* Mutant: a block that does not open is passed over.
PassOver ==
    /\ Doing("open") /\ job.priv # NoKey
    /\ job.start < Len(job.wire)
    /\ ~Opens(job.priv, Block)
    /\ job' = [job EXCEPT !.start = @ + Size[job.priv]]

OpenFails ==
    /\ Doing("open") /\ job.priv # NoKey
    /\ job.start < Len(job.wire)
    /\ ~Opens(job.priv, Block)
    /\ job' = [job EXCEPT !.pc = "failed"]

OpenEnd ==
    /\ Doing("open") /\ job.priv # NoKey
    /\ job.start >= Len(job.wire)
    /\ job' = [job EXCEPT !.pc = "read"]

CipherStep ==
    \/ SealNothing \/ SealBlock \/ SealEnd
    \/ OpenNothing \/ OpenBlock \/ OpenFails \/ OpenEnd

\* A body is over once the handler has looked at what it recovered.
Over == job.pc \in {"read", "failed"}
CipherDone == Over /\ job' = Idle

CipherNext ==
    \/ \E n \in Nat, pub \in Pairs \cup {NoKey} : Seal(n, pub)
    \/ \E priv \in Pairs \cup {NoKey} : Arrive(priv)
    \/ Drop \/ CipherStep \/ CipherDone
CipherSpec == CipherInit /\ [][CipherNext]_job

-----------------------------------------------------------------------------
\* A body is in one of its steps, between keys there are.
CipherTypeOK ==
    /\ job.pc \in {"idle", "seal", "sent", "open", "read", "failed"}
    /\ job.text \in Seq([pair : {NoKey}, of : {<<>>}, at : Nat])
    /\ job.pub \in Pairs \cup {NoKey} /\ job.priv \in Pairs \cup {NoKey}
    /\ job.start \in Nat

\* Whatever the length of the text and the size of the keys, an end with the other
\* half of the pair recovers the text that was sent, the last, shorter chunk
\* included, and never fails; and so do two ends with no key (reporter.go:100-130,
\* handler.go:149-181).
RoundTrip ==
    job.pub = job.priv =>
        ~Doing("failed") /\ (Doing("read") => job.got = job.text)

\* An end with another key, or with one where the sender had none, takes nothing
\* from a text that is not empty for a message: it refuses it.
WrongKeyFails ==
    job.priv # NoKey /\ job.pub # job.priv /\ job.text # <<>> => ~Doing("read")
=============================================================================
