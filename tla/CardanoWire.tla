---------------------------- MODULE CardanoWire -----------------------------
(***************************************************************************)
(* The Cardano v2 byte format on both its sides: the encoders of           *)
(* go/serialize/cardano.go, and the parsers and the verifier of            *)
(* rust/groth16-bls-verify/src/lib.rs.                                     *)
(*                                                                         *)
(* Bytes are scaled down to cells, the numbers 0 .. MaxCell.  A u32, a     *)
(* compressed G1 point and a scalar take a cell each, a G2 point and an    *)
(* uncompressed G1 point take two, so that a reader that has lost its      *)
(* place reads other cells than it should, as the program would.           *)
(* A pairing equation holds for the values gnark proved it for and, as     *)
(* the proof system intends, for no others.                                *)
(***************************************************************************)
EXTENDS Integers, Sequences, SequencesExt

CONSTANTS
  MaxCell,     \* the largest cell
  NPoints,     \* cells below it decode to a point of the subgroup
  Order,       \* scalars below it are canonical
  Artifacts    \* what the Go program may write: [vk, proof, public, limbs]

Cell == 0 .. MaxCell

G1 == 0 .. NPoints - 1
G2 == {<<p, p>> : p \in G1}
Uncompressed(p) == <<p, p + 1>>

\* A u32 is a cell: more commitments, or public inputs, than it can count are not written.
U32 == Cell

VKs == [alpha : G1, beta : G2, gamma : G2, delta : G2, ic : Seq(G1), keys : Seq(G2 \X G2),
        committed : Seq(Seq(U32))]
Proofs == [a : G1, b : G2, c : G1, commitments : Seq(G1), pok : G1]
Scalars == 0 .. Order - 1

\* What gnark sets up and proves: a key for each commitment, as many points as there are public
\* inputs and commitments, and a commitment that is the only one binds public inputs alone.
ASSUME CardanoWireAssumption ==
  /\ MaxCell \in Nat /\ NPoints \in 1 .. MaxCell /\ Order \in 1 .. MaxCell
  /\ \A art \in Artifacts :
       /\ art.vk \in VKs /\ art.proof \in Proofs
       /\ art.public \in Seq(Scalars) /\ art.limbs \in U32 \ {0}
       /\ Len(art.public) % art.limbs = 0
       /\ Len(art.vk.committed) = Len(art.vk.keys)
       /\ Len(art.proof.commitments) = Len(art.vk.keys)
       /\ Len(art.vk.ic) = 1 + Len(art.public) + Len(art.vk.keys)
       /\ Len(art.vk.ic) \in U32
       /\ \A j \in DOMAIN art.vk.committed : Len(art.vk.committed[j]) \in U32
       /\ Len(art.vk.keys) = 1 =>
            \A k \in DOMAIN art.vk.committed[1] : art.vk.committed[1][k] \in DOMAIN art.public

-----------------------------------------------------------------------------
(* The encoders                                                            *)

\* EncodeCardanoVK; its refusals are what CardanoWireAssumption excludes.
EncodeVK(vk) ==
  <<vk.alpha>> \o vk.beta \o vk.gamma \o vk.delta
  \o <<Len(vk.ic)>> \o vk.ic
  \o <<Len(vk.keys)>>
  \o FlattenSeq([j \in 1 .. Len(vk.keys) |->
       vk.keys[j][1] \o vk.keys[j][2] \o <<Len(vk.committed[j])>> \o vk.committed[j]])

\* EncodeCardanoProof.
EncodeProof(p) ==
  <<p.a>> \o p.b \o <<p.c>>
  \o <<Len(p.commitments)>>
  \o FlattenSeq([j \in 1 .. Len(p.commitments) |->
       <<p.commitments[j]>> \o Uncompressed(p.commitments[j])])
  \o <<p.pok>>

\* EncodeCardanoPublic.
EncodePublic(public, limbs) == <<Len(public) \div limbs, limbs>> \o public

-----------------------------------------------------------------------------
VARIABLES
  written,   \* the artifacts the Go program wrote
  files,     \* the bytes of the three files that are read
  intact,    \* the files are the ones that were written (history)
  pc,        \* "write", "parse", the steps of verify, or how it ended
  blob,      \* the file being parsed
  pos,       \* Reader.i
  field,     \* what is read next from it, or "end"
  got        \* the values read so far of each field

vars == <<written, files, intact, pc, blob, pos, field, got>>

Ends == {"accepted", "truncated", "bad_point", "bad_scalar", "mismatch", "shape",
         "pok_failed", "pairing_failed", "panic"}

\* The fields of the three files, and what they are.
Kind ==
  [alpha |-> "g1", beta |-> "g2", gamma |-> "g2", delta |-> "g2", ic_count |-> "u32", ic |-> "g1",
   vk_nC |-> "u32", pedersen_G |-> "g2", pedersen_GSigmaNeg |-> "g2",
   committed_count |-> "u32", committed_index |-> "u32",
   a |-> "g1", b |-> "g2", c |-> "g1", proof_nC |-> "u32", commitment |-> "g1",
   uncompressed |-> "raw", pok |-> "g1",
   n_inner |-> "u32", n_limbs |-> "u32", scalar |-> "scalar"]

First == [vk |-> "alpha", proof |-> "a", public |-> "n_inner"]
Blobs == DOMAIN First

\* Fields that are always followed by the same one.
Successor ==
  [alpha |-> "beta", beta |-> "gamma", gamma |-> "delta", delta |-> "ic_count",
   pedersen_G |-> "pedersen_GSigmaNeg", pedersen_GSigmaNeg |-> "committed_count",
   a |-> "b", b |-> "c", c |-> "proof_nC", commitment |-> "uncompressed", pok |-> "end",
   n_inner |-> "n_limbs"]

\* The parsers' loops: the field that follows f when g has been read.
After(f, g) ==
  CASE f \in DOMAIN Successor -> Successor[f]
    [] f \in {"ic_count", "ic"} -> IF Len(g.ic) < g.ic_count[1] THEN "ic" ELSE "vk_nC"
    [] f = "vk_nC" -> IF 0 < g.vk_nC[1] THEN "pedersen_G" ELSE "end"
    [] f \in {"committed_count", "committed_index"} ->
         IF Len(Last(g.committed_index)) < Last(g.committed_count) THEN "committed_index"
         ELSE IF Len(g.pedersen_G) < g.vk_nC[1] THEN "pedersen_G" ELSE "end"
    [] f \in {"proof_nC", "uncompressed"} ->
         IF Len(g.commitment) < g.proof_nC[1] THEN "commitment" ELSE "pok"
    [] f \in {"n_limbs", "scalar"} -> IF Len(g.scalar) < g.n_inner[1] THEN "scalar" ELSE "end"

Init ==
  /\ written \in Artifacts
  /\ files = [b \in Blobs |-> <<>>]
  /\ intact = FALSE
  /\ pc = "write"
  /\ blob = "vk" /\ pos = 0 /\ field = First["vk"]
  /\ got = [f \in DOMAIN Kind |-> <<>>]

-----------------------------------------------------------------------------
(* What was read                                                           *)

NKeys == Len(got.pedersen_G)

VK ==
  [alpha |-> got.alpha[1], beta |-> got.beta[1], gamma |-> got.gamma[1], delta |-> got.delta[1],
   ic |-> got.ic,
   keys |-> [j \in 1 .. NKeys |-> <<got.pedersen_G[j], got.pedersen_GSigmaNeg[j]>>],
   committed |-> got.committed_index]

Proof ==
  [a |-> got.a[1], b |-> got.b[1], c |-> got.c[1], commitments |-> got.commitment,
   pok |-> got.pok[1]]

Raw == got.uncompressed
Public == got.scalar

-----------------------------------------------------------------------------
(* The three files reach the verifier, one of them perhaps cut short where *)
(* writing it was interrupted, or with a cell changed, or with one more.   *)

Write ==
  /\ pc = "write"
  /\ LET whole == [vk |-> EncodeVK(written.vk), proof |-> EncodeProof(written.proof),
                   public |-> EncodePublic(written.public, written.limbs)]
     IN \/ files' = whole /\ intact' = TRUE
        \/ \E b \in DOMAIN whole :
             /\ files' \in {[whole EXCEPT ![b] = SubSeq(@, 1, n)] : n \in 0 .. Len(whole[b]) - 1}
                    \cup {[whole EXCEPT ![b] = Append(@, c)] : c \in Cell}
                    \cup {[whole EXCEPT ![b][n] = c] : n \in DOMAIN whole[b], c \in Cell}
             /\ intact' = (files' = whole)
  /\ pc' = "parse"
  /\ UNCHANGED <<written, blob, pos, field, got>>

Width(f) == IF Kind[f] \in {"g2", "raw"} THEN 2 ELSE 1

\* (Mutant of Decodes: points are taken unchecked.)
DecodesScalar(f, v) == Kind[f] = "scalar" => v[1] < Order

\* from_compressed and from_bytes refuse what is not canonical.
Decodes(f, v) ==
  /\ Kind[f] = "g1" => v[1] \in G1
  /\ Kind[f] = "g2" => v \in G2
  /\ Kind[f] = "scalar" => v[1] \in Scalars

\* (Mutant of CopiesAgree: the uncompressed copy is not looked at.)
CopiesUnchecked(v) == TRUE

\* The two copies of a commitment are one point.
CopiesAgree(v) == v = Uncompressed(Last(got.commitment))

\* The values g that were read, with v pushed where it belongs: the indices of a commitment into
\* a list of their own, begun with their count.
Pushed(g, f, v) ==
  LET x == IF Width(f) = 1 THEN v[1] ELSE v
  IN  CASE f = "committed_count" -> [g EXCEPT ![f] = Append(@, x),
                                              !.committed_index = Append(@, <<>>)]
        [] f = "committed_index" -> [g EXCEPT ![f][Len(g[f])] = Append(@, x)]
        [] OTHER -> [g EXCEPT ![f] = Append(@, x)]

End(how) == pc' = how /\ UNCHANGED <<written, files, intact, blob, pos, field, got>>

\* Reader.take, then g1, g2, u32 or scalar_from_be.
ReadField ==
  /\ pc = "parse" /\ field # "end"
  /\ LET next == pos + Width(field)
         v == SubSeq(files[blob], pos + 1, next)
     IN IF next > Len(files[blob]) THEN End("truncated")
        ELSE IF ~Decodes(field, v)
             THEN End(IF Kind[field] = "scalar" THEN "bad_scalar" ELSE "bad_point")
        ELSE IF field = "uncompressed" /\ ~CopiesAgree(v) THEN End("mismatch")
        ELSE IF field = "n_limbs" /\ v # <<1>> THEN End("shape")
        ELSE /\ pos' = next
             /\ got' = Pushed(got, field, v)
             /\ field' = After(field, got')
             /\ UNCHANGED <<written, files, intact, pc, blob>>

\* Only parse_public asks whether it has read the file to its end.
NextFile ==
  /\ pc = "parse" /\ field = "end"
  /\ IF blob = "public"
     THEN IF pos < Len(files[blob]) THEN End("truncated") ELSE End("shape?")
     ELSE LET next == IF blob = "vk" THEN "proof" ELSE "public" IN
          /\ blob' = next /\ pos' = 0 /\ field' = First[next]
          /\ UNCHANGED <<written, files, intact, pc, got>>

-----------------------------------------------------------------------------
(* verify                                                                  *)

\* (Mutant of CountsAgree: the number of commitments in the proof is trusted.)
CountsTrusted == Len(VK.committed) = NKeys

CountsAgree == Len(Proof.commitments) = NKeys /\ Len(VK.committed) = NKeys

CheckShape ==
  /\ pc = "shape?"
  /\ IF CountsAgree /\ Len(VK.ic) - (1 + NKeys) = Len(Public)
     THEN End("challenge?") ELSE End("shape")

\* A challenge is known by the bytes it is the hash of.
Challenge(raw, committed, public) ==
  raw \o [k \in 1 .. Len(committed) |-> public[committed[k]]]

\* `public.get(idx.wrapping_sub(1))`, and the index of the proof's copies.
Challenges ==
  /\ pc = "challenge?"
  /\ IF Len(Raw) < NKeys THEN End("panic")
     ELSE IF \E j \in 1 .. NKeys : \E k \in DOMAIN VK.committed[j] :
               VK.committed[j][k] \notin DOMAIN Public
     THEN End("shape") ELSE End("pok?")

\* (Mutant of PokHolds: the second pairing is left out.)
PokUnchecked == TRUE

\* e(C, GSigmaNeg) = 1 / e(pok, G)
PokHolds ==
  /\ VK.keys[1] = written.vk.keys[1]
  /\ Proof.commitments[1] = written.proof.commitments[1]
  /\ Proof.pok = written.proof.pok

CheckPok ==
  /\ pc = "pok?"
  /\ IF NKeys = 0 THEN End("pairing?")
     ELSE IF NKeys > 1 THEN End("shape")
     ELSE IF Len(Proof.commitments) = 0 THEN End("panic")
     ELSE IF PokHolds THEN End("pairing?")
     ELSE End("pok_failed")

\* What gnark sums when it proves, public inputs first.
GnarkSum ==
  LET w == written
      h == [j \in 1 .. Len(w.vk.keys) |->
              Challenge(Uncompressed(w.proof.commitments[j]), w.vk.committed[j], w.public)]
      n == Len(w.public)
  IN << <<w.vk.ic[1], <<>> >> >>
     \o [i \in 1 .. n |-> <<w.vk.ic[1 + i], <<w.public[i]>> >>]
     \o [j \in 1 .. Len(h) |-> <<w.vk.ic[1 + n + j], h[j]>>]
     \o [j \in 1 .. Len(h) |-> <<w.proof.commitments[j], <<>> >>]

\* public_ext: the public inputs, then the challenges.
PublicExt ==
  [i \in 1 .. Len(Public) |-> <<Public[i]>>]
  \o [j \in 1 .. NKeys |-> Challenge(Raw[j], VK.committed[j], Public)]

\* (Mutant of KSum: the challenges are left out.)
KSumPublic ==
  << <<VK.ic[1], <<>> >> >>
  \o [i \in 1 .. Len(Public) |-> <<VK.ic[i + 1], PublicExt[i]>>]
  \o [j \in 1 .. Len(Proof.commitments) |-> <<Proof.commitments[j], <<>> >>]

KSum ==
  << <<VK.ic[1], <<>> >> >>
  \o [i \in 1 .. Len(PublicExt) |-> <<VK.ic[i + 1], PublicExt[i]>>]
  \o [j \in 1 .. Len(Proof.commitments) |-> <<Proof.commitments[j], <<>> >>]

\* e(A, B) e(C, -delta) e(kSum, -gamma) = e(alpha, beta)
PairingHolds ==
  /\ <<Proof.a, Proof.b, Proof.c>> = <<written.proof.a, written.proof.b, written.proof.c>>
  /\ <<VK.alpha, VK.beta, VK.gamma, VK.delta>> =
       <<written.vk.alpha, written.vk.beta, written.vk.gamma, written.vk.delta>>
  /\ KSum = GnarkSum

CheckPairing ==
  /\ pc = "pairing?"
  /\ IF Len(VK.ic) < 1 + Len(PublicExt) THEN End("panic")
     ELSE IF PairingHolds THEN End("accepted")
     ELSE End("pairing_failed")

Next ==
  \/ Write \/ ReadField \/ NextFile
  \/ CheckShape \/ Challenges \/ CheckPok \/ CheckPairing

Spec == Init /\ [][Next]_vars

-----------------------------------------------------------------------------
(* Properties *)

Values ==
  [g1 |-> G1, g2 |-> G2, u32 |-> U32, raw |-> {Uncompressed(p) : p \in G1}, scalar |-> Scalars]

Read == [f \in DOMAIN Kind |-> IF f = "committed_index" THEN Seq(U32) ELSE Values[Kind[f]]]

\* What has been read is decoded: points of the subgroup, canonical scalars.
TypeOK ==
  /\ written \in Artifacts
  /\ files \in [Blobs -> Seq(Cell)]
  /\ intact \in BOOLEAN
  /\ pc \in Ends \cup {"write", "parse", "shape?", "challenge?", "pok?", "pairing?"}
  /\ blob \in Blobs /\ pos \in 0 .. Len(files[blob]) /\ field \in DOMAIN Kind \cup {"end"}
  /\ DOMAIN got = DOMAIN Kind /\ \A f \in DOMAIN Kind : got[f] \in Seq(Read[f])

\* lib.rs:3, cardano.go:1-4: a proof the Go program wrote and nothing has
\* touched is accepted, if it has the shape both sides support: one limb to
\* a scalar and at most one commitment.
HonestAccepted ==
  intact /\ written.limbs = 1 /\ Len(written.vk.keys) <= 1 =>
    pc \notin Ends \ {"accepted"}

\* cardano.go:31-40, 90-99, 130-133: the parsers are the inverses of the
\* encoders, as far as they have read: what gets past them is the encoding
\* of what they took it for, with no second form for any value.
Canonical ==
  pc \in {"shape?", "challenge?", "pok?", "pairing?", "accepted"} =>
    /\ IsPrefix(EncodeVK(VK), files["vk"])
    /\ IsPrefix(EncodeProof(Proof), files["proof"])
    /\ EncodePublic(Public, 1) = files["public"]

\* lib.rs:272-356: whatever was read, the verifier ends in a verdict.
NoPanic == pc # "panic"

\* The public inputs a commitment binds, by value.
Bound(committed, public) ==
  [j \in DOMAIN committed |-> [k \in DOMAIN committed[j] |-> public[committed[j][k]]]]

\* tests/real_proof.rs:30-50: a proof, a key or public inputs that are not
\* the ones written are refused, whichever cell it is that differs.  Two
\* things may differ: the proof of knowledge of a proof without commitments
\* is read and not used, and of public inputs that are equal the key may
\* name either.
AcceptedAsWritten ==
  pc = "accepted" =>
    /\ [VK EXCEPT !.committed = <<>>] = [written.vk EXCEPT !.committed = <<>>]
    /\ Bound(VK.committed, Public) = Bound(written.vk.committed, written.public)
    /\ Public = written.public
    /\ [Proof EXCEPT !.pok = 0] = [written.proof EXCEPT !.pok = 0]
    /\ NKeys > 0 => Proof.pok = written.proof.pok
=============================================================================
