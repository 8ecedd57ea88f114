------------------------------ MODULE Threshold ------------------------------
(***************************************************************************)
(* The threshold algebra of packages/sdk/src/tss, frost and threshold:     *)
(* Feldman and GJKR key generation with faulty dealers, FROST signing with *)
(* identifiable abort, and the committee's decryption of a note key.       *)
(*                                                                         *)
(* The group is Z_q written additively with generator 1: a point is its    *)
(* discrete logarithm, so scalarMul is multiplication and every equation   *)
(* between points is checked as it stands.  Hashes (proof of possession,   *)
(* binding factor, challenge, DLEQ) are fixed functions of what is hashed. *)
(***************************************************************************)
EXTENDS Integers, Sequences, FiniteSets, FiniteSetsExt, SequencesExt

CONSTANTS Q,            \* SUBORDER, the prime order of the group
          Dealers,      \* n: identifiers are 1 .. n
          Quorum,       \* t
          Secrets,      \* bound: constant terms a dealer draws
          Slopes,       \* bound: the other coefficients
          Texts,        \* bound: messages signed
          EphPubs,      \* bound: ephemeral keys of notes decrypted
          Schemes       \* bound: "feldman", "gjkr"

ASSUME ThresholdAssumption ==
    /\ Q \in Nat /\ Q > Dealers /\ \A d \in 2 .. Q - 1 : Q % d # 0
    /\ Quorum \in 1 .. Dealers /\ 0 \notin EphPubs

VARIABLES phase,     \* what has been done
          scheme,
          dealt,     \* dealt[i]: what dealer i handed out
          key,       \* DkgResult: C, shares, V, qual
          outcome    \* of the last signing or decryption

vars == <<phase, scheme, dealt, key, outcome>>

Ids == 1 .. Dealers
Zq == 0 .. Q - 1
ModSub(x) == x % Q
Inverses == [x \in Zq \ {0} |-> CHOOSE y \in Zq : ModSub(x * y) = 1]
InvSub(x) == Inverses[ModSub(x)]
SumOf(f, S) == FoldSet(LAMBDA i, acc : ModSub(acc + f[i]), 0, S)
Times(f, S) == FoldSet(LAMBDA i, acc : ModSub(acc * f[i]), 1, S)

-----------------------------------------------------------------------------
(* Shamir, Feldman and Pedersen *)

PolyEval(coeffs, x) == FoldRight(LAMBDA c, acc : ModSub(acc * x + c), coeffs, 0)

(* lagrangeAtZero and FROST's lagrangeCoefficient: product of j / (j - i). *)
LagrangeAtZero(i, xs) ==
    ModSub(Times([j \in Ids |-> j], xs \ {i}) * InvSub(Times([j \in Ids |-> j - i], xs \ {i})))

InterpolateAtZero(f, xs) == SumOf([i \in Ids |-> LagrangeAtZero(i, xs) * f[i]], xs)

(* Sum of i^k * commitments[k]: feldmanVerifyShare, publicShareAt. *)
PublicShareAt(i, commitments) == PolyEval(commitments, i)

FeldmanCommit(coeffs) == [k \in DOMAIN coeffs |-> ModSub(coeffs[k])]
FeldmanVerifyShare(i, share, commitments) == share = PublicShareAt(i, commitments)

H == 2
PedersenCommit(a, b) == [k \in DOMAIN a |-> ModSub(a[k] + H * b[k])]
PedersenVerifyShare(i, f, fPrime, commitments) ==
    ModSub(f + H * fPrime) = PublicShareAt(i, commitments)

PopChallenge(id, com0, R) == ModSub(1 + id + 2 * com0 + 3 * R)
ProvePoP(id, k, secret) == [R |-> k, z |-> ModSub(k + PopChallenge(id, secret, k) * secret)]
VerifyPoP(id, com0, pop) == pop.z = ModSub(pop.R + PopChallenge(id, com0, pop.R) * com0)

-----------------------------------------------------------------------------
(* Key generation *)

Faults == {"none", "share", "pop"}
Victim(i) == IF i = 1 THEN 2 ELSE 1

(* dealerContribute and contribute, with the faults runDkg and runGjkrDkg  *)
(* inject: a wrong share for one participant, a wrong proof of possession. *)
Contribution(i, a, fault) ==
    LET b == [k \in 1 .. Quorum |-> ModSub(i + k)]
        pop == ProvePoP(i, ModSub(i + 1), a[1])
        share == [j \in Ids |-> ModSub(PolyEval(a, j) + IF fault = "share" /\ j = Victim(i) THEN 1 ELSE 0)]
    IN  [commitments |-> FeldmanCommit(a), pedersen |-> PedersenCommit(a, b),
         shares |-> share, blinds |-> [j \in Ids |-> PolyEval(b, j)],
         pop |-> IF fault = "pop" THEN [pop EXCEPT !.z = ModSub(@ + 1)] ELSE pop,
         secret |-> a[1], fault |-> fault]

VerifyContributionMine(i) ==
    LET c == dealt[i]
    IN  /\ FeldmanVerifyShare(i, c.shares[i], c.commitments)
        /\ VerifyPoP(i, c.commitments[1], c.pop)

VerifyContributionNoPoP(i) ==
    LET c == dealt[i]
    IN  IF scheme = "gjkr"
        THEN \A j \in Ids : PedersenVerifyShare(j, c.shares[j], c.blinds[j], c.pedersen)
        ELSE \A j \in Ids : FeldmanVerifyShare(j, c.shares[j], c.commitments)

(* verifyContribution by every participant, or the Pedersen check of GJKR. *)
(* GJKR then has every qualified dealer reveal its Feldman commitments and *)
(* a proof of possession, and ends with an error if one does not check:    *)
(* the faults it can inject are none of those, so that never happens.      *)
VerifyContribution(i) ==
    LET c == dealt[i]
    IN  IF scheme = "gjkr"
        THEN \A j \in Ids : PedersenVerifyShare(j, c.shares[j], c.blinds[j], c.pedersen)
        ELSE \A j \in Ids : /\ FeldmanVerifyShare(j, c.shares[j], c.commitments)
                            /\ VerifyPoP(i, c.commitments[1], c.pop)

NoKey == [qual |-> {}]
NoOutcome == [op |-> "none"]

Init ==
    /\ phase = "dealing" /\ scheme \in Schemes /\ dealt = <<>>
    /\ key = NoKey /\ outcome = NoOutcome

(* The dealers contribute one after the other. *)
Deal(a, fault) ==
    /\ phase = "dealing" /\ Len(dealt) < Dealers
    /\ scheme = "gjkr" => fault # "pop"
    /\ dealt' = Append(dealt, Contribution(Len(dealt) + 1, a, fault))
    /\ UNCHANGED <<phase, scheme, key, outcome>>

(* aggregate: the key, everybody's share and public share. *)
AggregateDealt(qual) ==
    LET share == [i \in Ids |-> SumOf([d \in qual |-> dealt[d].shares[i]], qual)]
    IN  [C |-> SumOf([d \in qual |-> dealt[d].commitments[1]], qual),
         shares |-> share, V |-> [i \in Ids |-> share[i]], qual |-> qual]

(* Qualification and aggregation; without a qualified dealer it fails. *)
Qualify ==
    LET qual == {i \in Ids : VerifyContribution(i)}
    IN  /\ phase = "dealing" /\ Len(dealt) = Dealers
        /\ IF qual = {}
           THEN /\ phase' = "failed"
                /\ UNCHANGED key
           ELSE /\ phase' = "keyed"
                /\ key' = AggregateDealt(qual)
        /\ UNCHANGED <<scheme, dealt, outcome>>

-----------------------------------------------------------------------------
(* FROST *)

Hiding(i, text) == ModSub(i * i + text)
Binding(i, text) == ModSub(2 * i + 1 + text)
BindingFactor(i, text, signers) == ModSub(1 + i * text + Cardinality(signers) + key.C)
Challenge(R, text) == ModSub(1 + R + 2 * key.C + 3 * text)

CommShare(i, text, signers) ==
    ModSub(Hiding(i, text) + BindingFactor(i, text, signers) * Binding(i, text))
GroupCommitment(text, signers) == SumOf([i \in Ids |-> CommShare(i, text, signers)], signers)

SignShare(i, text, signers) ==
    ModSub(CommShare(i, text, signers)
           + LagrangeAtZero(i, signers) * key.shares[i] * Challenge(GroupCommitment(text, signers), text))

VerifyShareAny(i, z, text, signers) == i \in signers

VerifySignatureShare(i, z, text, signers) ==
    /\ i \in signers
    /\ z = ModSub(CommShare(i, text, signers)
           + Challenge(GroupCommitment(text, signers), text) * LagrangeAtZero(i, signers) * key.V[i])

VerifySignature(R, z, text) == z = ModSub(R + Challenge(R, text) * key.C)

(* What a signer sends as its share, right or off by one.  Signers who did *)
(* not commit may send something too.                                      *)
PartialSignature(i, good, text, signers) ==
    ModSub(SignShare(i, text, signers) + IF good THEN 0 ELSE 1)

(* coordinatorAggregate, over the partials in the order they are given: a  *)
(* signer that comes twice is refused, then too few signers; then the      *)
(* shares are verified one by one, and the first that fails ends it with   *)
(* its signer's name.  A signer who committed and sent no share is not     *)
(* noticed here: the sum is returned without it.                           *)
Sign(text, signers, partials) ==
    LET z == [k \in DOMAIN partials |->
                PartialSignature(partials[k].id, partials[k].good, text, signers)]
        repeats == {k \in DOMAIN partials : \E l \in 1 .. k - 1 : partials[l].id = partials[k].id}
        fails == {k \in DOMAIN partials : ~VerifySignatureShare(partials[k].id, z[k], text, signers)}
        Named(K) == partials[Min(K)].id
        result ==
            CASE repeats # {}           -> [error |-> "duplicate", names |-> Named(repeats)]
              [] repeats = {} /\ Len(partials) < Quorum
                                        -> [error |-> "below threshold"]
              [] repeats = {} /\ Len(partials) >= Quorum /\ fails # {}
                                        -> [error |-> "share", names |-> Named(fails)]
              [] OTHER                  -> [error |-> "none", z |-> SumOf(z, DOMAIN partials)]
    IN  /\ phase = "keyed"
        /\ outcome' = [op |-> "sign", text |-> text, signers |-> signers, partials |-> partials,
                       result |-> result]
        /\ UNCHANGED <<phase, scheme, dealt, key>>

-----------------------------------------------------------------------------
(* Decryption by the compliance committee *)

DleqChallenge(epk, V, D, A, B) == ModSub(1 + epk + 2 * V + 3 * D + A + 2 * B)
CpProve(secret, epk) ==
    LET k == ModSub(secret + 1)
        D == ModSub(secret * epk)
        e == DleqChallenge(epk, secret, D, k, ModSub(k * epk))
    IN  [D |-> D, A |-> k, B |-> ModSub(k * epk), z |-> ModSub(k + e * secret)]
CpVerify(V, epk, p) ==
    LET e == DleqChallenge(epk, V, p.D, p.A, p.B)
    IN  /\ p.D # 0
        /\ p.z = ModSub(p.A + e * V)
        /\ ModSub(p.z * epk) = ModSub(p.B + e * p.D)

(* partialDecrypt, or a partial whose point was tampered with. *)
Partial(i, epk, good) ==
    LET p == CpProve(key.shares[i], epk)
    IN  [id |-> i, proof |-> IF good THEN p ELSE [p EXCEPT !.D = ModSub(@ + 1)]]

GoodPartials(epk, partials) == {k \in DOMAIN partials : CpVerify(key.V[partials[k].id], epk, partials[k].proof)}

FirstOfEachAny(epk, partials) == GoodPartials(epk, partials)

(* Of each member, the first partial that verifies. *)
FirstOfEach(epk, partials) ==
    LET good == GoodPartials(epk, partials)
    IN  {k \in good : \A l \in good : partials[l].id = partials[k].id => l >= k}

(* thresholdCekRobust: the first t of them are combined, the rest of the   *)
(* bad ones are reported.                                                  *)
Decrypt(epk, partials) ==
    LET first == FirstOfEach(epk, partials)
        good == {k \in first : Cardinality({l \in first : l < k}) < Quorum}
        used == {partials[k].id : k \in good}
        D(k) == ModSub(LagrangeAtZero(partials[k].id, used) * partials[k].proof.D)
    IN  /\ phase = "keyed"
        /\ outcome' = [op |-> "decrypt", epk |-> epk, ok |-> Cardinality(good) >= Quorum,
                       S |-> SumOf([k \in good |-> D(k)], good), used |-> used,
                       offered |-> {partials[k].id : k \in GoodPartials(epk, partials)}]
        /\ UNCHANGED <<phase, scheme, dealt, key>>

(* Around the quorum: one too few, enough, one more. *)
SharesSent == UNION {[1 .. n -> [id : Ids, good : BOOLEAN]] : n \in Quorum - 1 .. Quorum + 1}

PartialsOf(epk) ==
    UNION {{[k \in 1 .. n |-> Partial(f[k][1], epk, f[k][2])] : f \in [1 .. n -> Ids \X BOOLEAN]}
           : n \in {Quorum, Quorum + 1}}

Next ==
    \/ \E s \in Secrets, r \in [1 .. Quorum - 1 -> Slopes], fault \in Faults : Deal(<<s>> \o r, fault)
    \/ Qualify
    \/ outcome = NoOutcome /\ phase = "keyed" /\ \E text \in Texts, signers \in SUBSET Ids, p \in SharesSent :
         Cardinality(signers) >= Quorum /\ Sign(text, signers, p)
    \/ outcome = NoOutcome /\ phase = "keyed" /\ \E epk \in EphPubs : \E p \in PartialsOf(epk) : Decrypt(epk, p)

Spec == Init /\ [][Next]_vars

-----------------------------------------------------------------------------
(* Properties *)

(* Whatever dealers are faulty, the participants' shares lie on one         *)
(* polynomial: every quorum, of t or more, interpolates the secret under C, *)
(* and the public shares that signers verify with are computed from the     *)
(* dealers' commitments alone (runDkg, runGjkrDkg, aggregatePublicShareAt). *)
SharesOfOneKey ==
    phase = "keyed" =>
        /\ \A xs \in SUBSET Ids : Cardinality(xs) >= Quorum => InterpolateAtZero(key.shares, xs) = key.C
        /\ \A i \in Ids : key.V[i] =
               SumOf([d \in key.qual |-> PublicShareAt(i, dealt[d].commitments)], key.qual)

(* Exactly the dealers that followed the protocol are qualified, so the key *)
(* is the sum of their secrets and of no other.                             *)
FaultyDealersOut ==
    phase = "keyed" =>
        /\ key.qual = {i \in Ids : dealt[i].fault = "none"}
        /\ key.C = SumOf([d \in key.qual |-> dealt[d].secret], key.qual)

(* coordinatorAggregate returns a signature exactly if no signer comes      *)
(* twice, there are t of them, and each committed and sent its right share; *)
(* when it blames a share, it names the first wrong one in order and never  *)
(* an honest signer.  What it returns falls short by the shares of the      *)
(* signers who committed and sent none: it verifies under the group key if  *)
(* there are none, and otherwise only if those shares add up to zero.       *)
SignatureSound ==
    outcome.op = "sign" =>
        LET p == outcome.partials
            Right(k) == p[k].good /\ p[k].id \in outcome.signers
            from == {p[k].id : k \in DOMAIN p}
            share == [i \in Ids |-> SignShare(i, outcome.text, outcome.signers)]
            R == GroupCommitment(outcome.text, outcome.signers)
        IN  /\ outcome.result.error = "none" <=>
                    Cardinality(from) = Len(p) /\ Len(p) >= Quorum /\ \A k \in DOMAIN p : Right(k)
            /\ outcome.result.error = "share" =>
                    \E k \in DOMAIN p : /\ p[k].id = outcome.result.names /\ ~Right(k)
                                        /\ \A l \in 1 .. k - 1 : Right(l)
            /\ outcome.result.error = "none" =>
                    (VerifySignature(R, outcome.result.z, outcome.text)
                        <=> SumOf(share, outcome.signers \ from) = 0)

(* The committee opens a note key if and only if t different members gave a *)
(* valid partial, whatever repeated or tampered partials come between them, *)
(* and what it opens is secret * epk (thresholdCekRobust, combine).         *)
CommitteeOpens ==
    outcome.op = "decrypt" =>
        /\ outcome.ok <=> Cardinality(outcome.offered) >= Quorum
        /\ outcome.ok => outcome.S = ModSub(key.C * outcome.epk)
=============================================================================
