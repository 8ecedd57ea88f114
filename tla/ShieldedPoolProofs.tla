-------------------------- MODULE ShieldedPoolProofs --------------------------
(***************************************************************************)
(* Theorems about ShieldedPool, for every value of its constants.          *)
(***************************************************************************)
EXTENDS ShieldedPool, FiniteSetTheorems, TLAPS

-----------------------------------------------------------------------------
(* The ring                                                                *)

\* What the ring holds after n pushes: the n most recent roots by age.
RingHolds(r, n) ==
    \A s \in Slots : r.roots[s] = IF Age(r, s) < n THEN n - Age(r, s) ELSE 0

RingType(n) == [roots : [Slots -> 0 .. n], cursor : Slots]

\* push_root of the next root keeps the ring holding the most recent roots.
LEMMA PushHolds ==
    ASSUME NEW n \in Nat, NEW r \in RingType(n), RingHolds(r, n)
    PROVE  /\ PushRoot(r, n + 1) \in RingType(n + 1)
           /\ RingHolds(PushRoot(r, n + 1), n + 1)
  <1> DEFINE q == PushRoot(r, n + 1)
             m == n + 1
  <1>1. RootRingSize \in Nat \ {0} /\ r.cursor \in Slots /\ r.roots \in [Slots -> 0 .. n]
    BY RootRingAssumption DEF RingType
  <1>2. q.cursor = NextCursor(r.cursor) /\ q.roots = [r.roots EXCEPT ![r.cursor] = m]
    BY DEF PushRoot
  <1>3. q \in RingType(m)
    BY <1>1 DEF RingType, PushRoot, NextCursor, Slots
  <1>4. m = n + 1
    OBVIOUS
  <1> HIDE DEF q, m
  <1>5. ASSUME NEW s \in Slots
        PROVE  q.roots[s] = IF Age(q, s) < m THEN m - Age(q, s) ELSE 0
    <2>1. CASE s = r.cursor
      <3>1. Age(q, s) = 0
        BY <1>1, <1>2, <2>1 DEF Age, NextCursor, Slots
      <3> QED
        BY <1>1, <1>2, <1>4, <2>1, <3>1
    <2>2. CASE s # r.cursor
      <3> DEFINE c == r.cursor
      <3>1. c \in Int /\ s \in Int /\ 0 <= c /\ c < RootRingSize /\ 0 <= s /\ s < RootRingSize
        BY <1>1 DEF Slots
      <3>2. Age(r, s) = IF s < c THEN c - 1 - s ELSE c - 1 - s + RootRingSize
        BY DEF Age
      <3>3. Age(q, s) = IF s < q.cursor THEN q.cursor - 1 - s ELSE q.cursor - 1 - s + RootRingSize
        BY DEF Age
      <3>4. q.cursor = IF c = RootRingSize - 1 THEN 0 ELSE c + 1
        BY <1>2 DEF NextCursor
      <3>5. Age(q, s) = Age(r, s) + 1 /\ Age(r, s) \in Int
        BY <1>1, <2>2, <3>1, <3>2, <3>3, <3>4
      <3>6. q.roots[s] = r.roots[s]
        BY <1>1, <1>2, <2>2
      <3>7. r.roots[s] = IF Age(r, s) < n THEN n - Age(r, s) ELSE 0
        BY DEF RingHolds
      <3> QED
        BY <1>4, <3>5, <3>6, <3>7
    <2> QED
      BY <2>1, <2>2
  <1>6. RingHolds(q, m)
    BY <1>5 DEF RingHolds
  <1> QED
    BY <1>3, <1>6 DEF q, m

\* Every age below RootRingSize is the age of some slot, and no other.
LEMMA AgesCovered ==
    ASSUME NEW n \in Nat, NEW r \in RingType(n)
    PROVE  /\ \A s \in Slots : Age(r, s) \in 0 .. RootRingSize - 1
           /\ \A d \in 0 .. RootRingSize - 1 : \E s \in Slots : Age(r, s) = d
  <1>1. RootRingSize \in Nat \ {0} /\ r.cursor \in Slots
    BY RootRingAssumption DEF RingType
  <1>2. ASSUME NEW s \in Slots PROVE Age(r, s) \in 0 .. RootRingSize - 1
    BY <1>1 DEF Age, Slots
  <1>3. ASSUME NEW d \in 0 .. RootRingSize - 1 PROVE \E s \in Slots : Age(r, s) = d
    <2> DEFINE s == IF d < r.cursor THEN r.cursor - 1 - d ELSE r.cursor - 1 - d + RootRingSize
    <2>1. s \in Slots /\ Age(r, s) = d
      BY <1>1 DEF Age, Slots
    <2> QED
      BY <2>1
  <1> QED
    BY <1>2, <1>3

-----------------------------------------------------------------------------
(* The inductive invariant                                                 *)

\* What the circuits guarantee of a proof in circulation, relative to the leaves
\* there are by now: its inputs lie under its root and carry its asset, and
\* values are conserved.
SoundInputs(p) ==
    /\ p.root \in 1 .. Len(leaves)
    /\ \A k \in 1 .. Len(p.ins) : p.ins[k] \in 1 .. p.root - 1 /\ NoteAt(p.ins[k]).asset = p.asset

SoundDeposit(p) ==
    /\ p.ins = << >> /\ Len(p.outs) = 1
    /\ p.outs[1].value = p.value /\ p.outs[1].asset = p.asset

SoundTwoOut(p) ==
    /\ SoundInputs(p)
    /\ Len(p.ins) = 1 /\ Len(p.outs) = 2
    /\ p.outs[1].asset = p.asset /\ p.outs[2].asset = p.asset
    /\ NoteAt(p.ins[1]).value = p.outs[1].value + p.outs[2].value

SoundJoin(p) ==
    /\ SoundInputs(p)
    /\ Len(p.ins) = 2 /\ Len(p.outs) = 1
    /\ p.ins[1] # p.ins[2]
    /\ p.outs[1].asset = p.asset
    /\ NoteAt(p.ins[1]).value + NoteAt(p.ins[2]).value = p.outs[1].value

SoundWithdraw(p) ==
    /\ SoundInputs(p)
    /\ Len(p.ins) = 1 /\ Len(p.outs) = 1
    /\ p.outs[1].asset = p.asset
    /\ NoteAt(p.ins[1]).value = p.outs[1].value + p.value

ProofSound(p) ==
    /\ p.circuit = "deposit" => SoundDeposit(p)
    /\ p.circuit \in {"transfer", "transfer_multisig", "split_multisig"} => SoundTwoOut(p)
    /\ p.circuit = "join_multisig" => SoundJoin(p)
    /\ p.circuit \in {"withdraw", "withdraw_multisig"} => SoundWithdraw(p)

\* Outputs of a proof are notes of an owner, never a second genesis leaf.
OwnedOutputs(p) == \A k \in 1 .. Len(p.outs) : p.outs[k].owner \in Owners /\ p.outs[k].asset = p.asset

ProofsSound == \A p \in proofs : ProofSound(p) /\ OwnedOutputs(p)

\* Before initialize there is nothing; afterwards there is a compliance key.
Initialized ==
    /\ authority = None => leaves = << >>
    /\ authority # None => leaves # << >> /\ compliancePk \in ComplianceKeys

\* An asset account is the one of its mint.
RegistryFits == \A a \in AssetIds : registry[a] # None => AssetIdOf[registry[a]] = a

\* A leaf is the genesis leaf or a note of a registered asset.
LeavesRegistered ==
    \A i \in 0 .. Len(leaves) - 1 :
        IF i = 0 THEN NoteAt(i) = GenesisNote
        ELSE /\ NoteAt(i).owner \in Owners
             /\ NoteAt(i).asset \in AssetIds
             /\ registry[NoteAt(i).asset] # None

IInv ==
    /\ TypeOK
    /\ RingHolds(ring, Len(leaves))
    /\ Initialized
    /\ RegistryFits
    /\ LeavesRegistered
    /\ ProofsSound

-----------------------------------------------------------------------------
(* Inserting the outputs of a proof                                        *)

\* The tree after the outputs of p have been inserted.
Grown(p) ==
    /\ leaves' \in Seq(NoteRecords)
    /\ Len(leaves') = Len(leaves) + Len(p.outs)
    /\ Len(leaves') <= Capacity
    /\ \A i \in 1 .. Len(leaves) : leaves'[i] = leaves[i]
    /\ \A k \in 1 .. Len(p.outs) : leaves'[Len(leaves) + k] = p.outs[k]
    /\ ring' \in RingType(Len(leaves'))
    /\ RingHolds(ring', Len(leaves'))

\* The insert_and_emit of a handler with one output leaf.
LEMMA InsertOneGrows ==
    ASSUME TypeOK, RingHolds(ring, Len(leaves)), NEW p \in ProofRecords, Len(p.outs) = 1,
           InsertOne(p)
    PROVE  Grown(p)
  <1>1. leaves \in Seq(NoteRecords) /\ Len(leaves) \in Nat /\ ring \in RingType(Len(leaves))
    BY DEF TypeOK, RingType
  <1>2. p.outs[1] \in NoteRecords
    BY DEF ProofRecords
  <1>3. leaves' = Append(leaves, p.outs[1]) /\ ring' = PushRoot(ring, Len(leaves) + 1)
        /\ Len(leaves) + 1 <= Capacity
    BY DEF InsertOne, Room
  <1>4. /\ leaves' \in Seq(NoteRecords) /\ Len(leaves') = Len(leaves) + 1
        /\ \A i \in 1 .. Len(leaves) : leaves'[i] = leaves[i]
        /\ leaves'[Len(leaves) + 1] = p.outs[1]
    BY <1>1, <1>2, <1>3
  <1>5. ring' \in RingType(Len(leaves')) /\ RingHolds(ring', Len(leaves'))
    BY <1>1, <1>3, <1>4, PushHolds
  <1> QED
    BY <1>3, <1>4, <1>5 DEF Grown

\* The two insert_and_emit of a handler with two output leaves.
LEMMA InsertTwoGrows ==
    ASSUME TypeOK, RingHolds(ring, Len(leaves)), NEW p \in ProofRecords, Len(p.outs) = 2,
           InsertTwo(p)
    PROVE  Grown(p)
  <1> DEFINE n == Len(leaves)
             mid == PushRoot(ring, n + 1)
  <1>1. leaves \in Seq(NoteRecords) /\ n \in Nat /\ ring \in RingType(n)
    BY DEF TypeOK, RingType
  <1>2. p.outs[1] \in NoteRecords /\ p.outs[2] \in NoteRecords
    BY DEF ProofRecords
  <1>3. /\ leaves' = Append(Append(leaves, p.outs[1]), p.outs[2])
        /\ ring' = PushRoot(mid, n + 2)
        /\ n + 2 <= Capacity
    BY DEF InsertTwo, Room
  <1>4. /\ leaves' \in Seq(NoteRecords) /\ Len(leaves') = n + 2
        /\ \A i \in 1 .. n : leaves'[i] = leaves[i]
        /\ leaves'[n + 1] = p.outs[1]
        /\ leaves'[n + 2] = p.outs[2]
    BY <1>1, <1>2, <1>3
  <1>5. mid \in RingType(n + 1) /\ RingHolds(mid, n + 1)
    BY <1>1, PushHolds
  <1>6. n + 1 \in Nat /\ (n + 1) + 1 = n + 2
    BY <1>1
  <1> HIDE DEF mid
  <1>7. PushRoot(mid, (n + 1) + 1) \in RingType((n + 1) + 1)
        /\ RingHolds(PushRoot(mid, (n + 1) + 1), (n + 1) + 1)
    BY <1>5, <1>6, PushHolds
  <1>8. ring' \in RingType(Len(leaves')) /\ RingHolds(ring', Len(leaves'))
    BY <1>3, <1>4, <1>6, <1>7
  <1> QED
    BY <1>3, <1>4, <1>8 DEF Grown

\* Leaves are only appended, so what the circuits guaranteed remains true.
LEMMA SoundKept ==
    ASSUME leaves \in Seq(NoteRecords), leaves' \in Seq(NoteRecords), Len(leaves) <= Len(leaves'),
           \A i \in 1 .. Len(leaves) : leaves'[i] = leaves[i],
           NEW p \in ProofRecords, ProofSound(p)
    PROVE  ProofSound(p)'
  <1>1. ASSUME SoundInputs(p)
        PROVE  SoundInputs(p)' /\ \A k \in 1 .. Len(p.ins) : NoteAt(p.ins[k])' = NoteAt(p.ins[k])
    <2>1. ASSUME NEW k \in 1 .. Len(p.ins) PROVE leaves'[p.ins[k] + 1] = leaves[p.ins[k] + 1]
      <3>1. p.ins[k] \in 1 .. p.root - 1 /\ p.root \in 1 .. Len(leaves)
        BY <1>1 DEF SoundInputs
      <3>2. p.ins[k] + 1 \in 1 .. Len(leaves)
        BY <3>1
      <3> QED
        BY <3>2
    <2>2. \A k \in 1 .. Len(p.ins) : NoteAt(p.ins[k])' = NoteAt(p.ins[k])
      BY <2>1 DEF NoteAt
    <2>3. p.root \in 1 .. Len(leaves')
      <3>1. Len(leaves) \in Nat /\ Len(leaves') \in Nat /\ p.root \in 1 .. Len(leaves)
        BY <1>1 DEF SoundInputs
      <3> QED
        BY <3>1
    <2>4. SoundInputs(p)'
      BY <1>1, <2>2, <2>3 DEF SoundInputs
    <2> QED
      BY <2>2, <2>4
  <1>2. SoundTwoOut(p) => SoundTwoOut(p)'
    BY <1>1 DEF SoundTwoOut
  <1>3. SoundJoin(p) => SoundJoin(p)'
    BY <1>1 DEF SoundJoin
  <1>4. SoundWithdraw(p) => SoundWithdraw(p)'
    BY <1>1 DEF SoundWithdraw
  <1> QED
    BY <1>2, <1>3, <1>4 DEF ProofSound, SoundDeposit

\* Landing a proof keeps the invariant parts that speak of leaves and proofs.
LEMMA GrownKeeps ==
    ASSUME IInv, NEW p \in proofs, Grown(p), proofs' = proofs,
           \A a \in AssetIds : registry[a] # None => registry'[a] # None,
           registry'[p.asset] # None,
           leaves # << >>
    PROVE  LeavesRegistered' /\ ProofsSound' /\ leaves' # << >>
  <1>1. leaves \in Seq(NoteRecords) /\ leaves' \in Seq(NoteRecords) /\ proofs \subseteq ProofRecords
    BY DEF IInv, TypeOK, Grown
  <1>2. ProofsSound'
    <2>1. ASSUME NEW q \in proofs PROVE ProofSound(q)' /\ OwnedOutputs(q)'
      <3>1. q \in ProofRecords /\ ProofSound(q) /\ OwnedOutputs(q)
        BY <1>1 DEF IInv, ProofsSound
      <3>2. Len(leaves) <= Len(leaves')
        BY <1>1, <2>1 DEF Grown, ProofRecords
      <3> QED
        BY <1>1, <3>1, <3>2, SoundKept DEF Grown, OwnedOutputs
    <2> QED
      BY <2>1 DEF ProofsSound
  <1>3. LeavesRegistered'
    <2> SUFFICES ASSUME NEW i \in 0 .. Len(leaves') - 1
                 PROVE  IF i = 0 THEN leaves'[i + 1] = GenesisNote
                        ELSE /\ leaves'[i + 1].owner \in Owners
                             /\ leaves'[i + 1].asset \in AssetIds
                             /\ registry'[leaves'[i + 1].asset] # None
      BY DEF LeavesRegistered, NoteAt
    <2>1. Len(leaves) \in Nat /\ Len(leaves) > 0 /\ Len(leaves') = Len(leaves) + Len(p.outs)
          /\ Len(p.outs) \in Nat /\ p.asset \in AssetIds
      BY <1>1 DEF Grown, ProofRecords
    <2>2. CASE i < Len(leaves)
      <3>1. leaves'[i + 1] = leaves[i + 1] /\ i \in 0 .. Len(leaves) - 1
        BY <2>1, <2>2 DEF Grown
      <3>2. IF i = 0 THEN leaves[i + 1] = GenesisNote
            ELSE /\ leaves[i + 1].owner \in Owners
                 /\ leaves[i + 1].asset \in AssetIds
                 /\ registry[leaves[i + 1].asset] # None
        BY <3>1 DEF IInv, LeavesRegistered, NoteAt
      <3> QED
        BY <3>1, <3>2
    <2>3. CASE i >= Len(leaves)
      <3> DEFINE k == i + 1 - Len(leaves)
      <3>1. k \in 1 .. Len(p.outs) /\ i + 1 = Len(leaves) + k /\ i # 0
        BY <2>1, <2>3
      <3>2. leaves'[i + 1] = p.outs[k]
        BY <3>1 DEF Grown
      <3>3. p.outs[k].owner \in Owners /\ p.outs[k].asset = p.asset
        BY <3>1 DEF IInv, ProofsSound, OwnedOutputs
      <3> QED
        BY <2>1, <3>1, <3>2, <3>3
    <2> QED
      BY <2>1, <2>2, <2>3
  <1>4. leaves' # << >>
    BY <1>1 DEF Grown, ProofRecords
  <1> QED
    BY <1>2, <1>3, <1>4

-----------------------------------------------------------------------------
(* Every action preserves the invariant                                    *)

\* A freshly allocated, zeroed pool account.
LEMMA InitIInv == Init => IInv
  <1> SUFFICES ASSUME Init PROVE IInv
    OBVIOUS
  <1> USE DEF Init
  <1>1. Len(leaves) = 0 /\ leaves \in Seq(NoteRecords)
    OBVIOUS
  <1>2. RootRingSize \in Nat \ {0} /\ Capacity \in Nat \ {0} /\ Supply \in [Mints -> Nat]
        /\ MaxVersion \in Nat
    BY RootRingAssumption, PoolAssumption
  <1>3. ring \in [roots : [Slots -> 0 .. 0], cursor : Slots]
    BY <1>2 DEF EmptyRing, Slots
  <1>4. TypeOK
    <2>1. paused \in BOOLEAN
      OBVIOUS
    <2>2. /\ authority \in Signers \union {None}
          /\ complianceVersion \in 0 .. MaxVersion
          /\ compliancePk \in ComplianceKeys \union {None}
          /\ verifiers \in [Circuits -> Programs \union {None}]
      BY <1>2
    <2>3. ring \in [roots : [Slots -> 0 .. Len(leaves)], cursor : Slots] /\ Len(leaves) <= Capacity
      BY <1>1, <1>2, <1>3
    <2>4. /\ nullifiers \subseteq 1 .. Len(leaves) - 1
          /\ registry \in [AssetIds -> Mints \union {None}]
          /\ vault \in [Mints -> Nat] /\ wallet \in [Mints -> Nat]
          /\ proofs \subseteq ProofRecords
      BY <1>2
    <2> QED
      BY <1>1, <2>1, <2>2, <2>3, <2>4 DEF TypeOK
  <1>5. RingHolds(ring, Len(leaves))
    <2>1. ASSUME NEW s \in Slots PROVE ring.roots[s] = 0 /\ ~(Age(ring, s) < 0)
      BY <1>2 DEF EmptyRing, Age, Slots
    <2> QED
      BY <1>1, <2>1 DEF RingHolds
  <1>6. LeavesRegistered
    BY <1>1 DEF LeavesRegistered
  <1> QED
    BY <1>4, <1>5, <1>6 DEF IInv, Initialized, RegistryFits, ProofsSound

\* Steps that leave the tree alone: ring and leaves carry over.
LEMMA TreeKept ==
    ASSUME IInv, UNCHANGED <<leaves, ring>>, TypeOK', Initialized', UNCHANGED registry,
           proofs' \subseteq proofs
    PROVE  IInv'
  <1>1. ASSUME NEW p \in proofs PROVE ProofSound(p)' /\ OwnedOutputs(p)'
    BY DEF IInv, ProofsSound, ProofSound, OwnedOutputs, SoundInputs, SoundDeposit, SoundTwoOut,
           SoundJoin, SoundWithdraw, NoteAt
  <1>2. ProofsSound'
    BY <1>1 DEF ProofsSound
  <1>3. RingHolds(ring, Len(leaves))'
    BY DEF IInv, RingHolds
  <1>4. RegistryFits' /\ LeavesRegistered'
    BY DEF IInv, RegistryFits, LeavesRegistered, NoteAt
  <1> QED
    BY <1>2, <1>3, <1>4 DEF IInv

\* initialize plants the genesis leaf and its root.
LEMMA InitializeIInv ==
    ASSUME IInv, NEW signer \in Signers, Initialize(signer)
    PROVE  IInv'
  <1> USE DEF Initialize
  <1>1. leaves = << >> /\ Len(leaves) = 0 /\ TypeOK /\ RingHolds(ring, Len(leaves))
    BY DEF IInv, Initialized
  <1>2. nullifiers = {}
    BY <1>1 DEF TypeOK
  <1>3. ASSUME NEW p \in proofs PROVE ProofSound(p)' /\ OwnedOutputs(p)'
    <2>1. p \in ProofRecords /\ ProofSound(p) /\ OwnedOutputs(p)
      BY DEF IInv, TypeOK, ProofsSound
    <2>2. leaves \in Seq(NoteRecords) /\ leaves' \in Seq(NoteRecords) /\ Len(leaves') = 1
      <3>1. GenesisNote \in NoteRecords
        BY PoolAssumption DEF GenesisNote, Note, NoteRecords, NoParents, Amounts
      <3> QED
        BY <1>1, <3>1 DEF TypeOK
    <2> QED
      BY <1>1, <2>1, <2>2, SoundKept DEF OwnedOutputs
  <1>4. ProofsSound'
    BY <1>3 DEF ProofsSound
  <1>5. leaves' = <<GenesisNote>> /\ Len(leaves') = 1 /\ GenesisNote \in NoteRecords
    BY PoolAssumption DEF GenesisNote, Note, NoteRecords, NoParents, Amounts
  <1>6. ring \in RingType(0) /\ RingHolds(ring, 0)
    BY <1>1 DEF TypeOK, RingType
  <1>7. ring' = PushRoot(ring, 0 + 1)
    OBVIOUS
  <1>8. ring' \in RingType(0 + 1) /\ RingHolds(ring', 0 + 1)
    BY <1>6, <1>7, PushHolds
  <1>9. TypeOK'
    <2>1. ring' \in [roots : [Slots -> 0 .. Len(leaves')], cursor : Slots]
      BY <1>5, <1>8 DEF RingType
    <2>2. leaves' \in Seq(NoteRecords) /\ Len(leaves') <= Capacity
      BY <1>5, PoolAssumption
    <2>3. paused' \in BOOLEAN
      OBVIOUS
    <2>4. /\ authority' \in Signers \union {None}
          /\ complianceVersion' \in 0 .. MaxVersion
          /\ compliancePk' \in ComplianceKeys \union {None}
          /\ verifiers' \in [Circuits -> Programs \union {None}]
      BY PoolAssumption
    <2>5. /\ nullifiers' \subseteq 1 .. Len(leaves') - 1
          /\ registry' \in [AssetIds -> Mints \union {None}]
          /\ vault' \in [Mints -> Nat] /\ wallet' \in [Mints -> Nat]
          /\ proofs' \subseteq ProofRecords
      BY <1>1, <1>2 DEF TypeOK, tokenVars
    <2> QED
      BY <2>1, <2>2, <2>3, <2>4, <2>5 DEF TypeOK
  <1>10. Initialized' /\ RegistryFits'
    BY <1>5, PoolAssumption DEF IInv, Initialized, RegistryFits, tokenVars
  <1>11. LeavesRegistered'
    <2>1. ASSUME NEW i \in 0 .. Len(leaves') - 1 PROVE i = 0 /\ leaves'[i + 1] = GenesisNote
      BY <1>5
    <2> QED
      BY <2>1 DEF LeavesRegistered, NoteAt
  <1> QED
    BY <1>4, <1>5, <1>8, <1>9, <1>10, <1>11 DEF IInv

\* The authority's instructions change no leaf, root, nullifier or token.
LEMMA AdminIInv ==
    ASSUME IInv, Admin
    PROVE  IInv'
  <1> USE DEF treeVars, tokenVars, adminVars
  <1>1. ASSUME NEW signer \in Signers, Initialize(signer) PROVE IInv'
    BY <1>1, InitializeIInv
  <1>2. ASSUME NEW signer \in Signers, NEW c \in Circuits, NEW program \in Programs \union {None},
               SetVerifier(signer, c, program)
        PROVE  IInv'
    <2>1. TypeOK'
      BY <1>2 DEF IInv, TypeOK, SetVerifier
    <2>2. Initialized'
      BY <1>2 DEF IInv, Initialized, SetVerifier
    <2> QED
      BY <1>2, <2>1, <2>2, TreeKept DEF SetVerifier
  <1>3. ASSUME NEW signer \in Signers, NEW key \in ComplianceKeys, RotateComplianceKey(signer, key)
        PROVE  IInv'
    <2>1. TypeOK'
      BY <1>3, PoolAssumption DEF IInv, TypeOK, RotateComplianceKey
    <2>2. Initialized'
      BY <1>3 DEF IInv, Initialized, RotateComplianceKey
    <2> QED
      BY <1>3, <2>1, <2>2, TreeKept DEF RotateComplianceKey
  <1>4. ASSUME NEW signer \in Signers, NEW value \in PauseValues, SetPaused(signer, value)
        PROVE  IInv'
    <2>1. TypeOK'
      <3>1. paused' \in BOOLEAN
        BY <1>4, PoolAssumption DEF SetPaused
      <3> QED
        BY <1>4, <3>1 DEF IInv, TypeOK, SetPaused
    <2>2. Initialized'
      BY <1>4 DEF IInv, Initialized, SetPaused
    <2> QED
      BY <1>4, <2>1, <2>2, TreeKept DEF SetPaused
  <1> QED
    BY <1>1, <1>2, <1>3, <1>4 DEF Admin

\* The proof MakeProof puts into circulation.
Candidate(circuit, root, ins, outs, asset, value) ==
    [circuit |-> circuit, program |-> verifiers[circuit], cpk |-> compliancePk,
     root |-> root, ins |-> ins, outs |-> outs, asset |-> asset, value |-> value]

\* A proof that satisfies its circuit joins the proofs in circulation.
LEMMA MakeProofIInv ==
    ASSUME IInv, NEW circuit \in Circuits, NEW root \in 0 .. Capacity, NEW ins \in Seq(1 .. Capacity),
           NEW outs \in Seq(NoteRecords), NEW asset \in AssetIds, NEW value \in Amounts,
           MakeProof(circuit, root, ins, outs, asset, value),
           ProofSound(Candidate(circuit, root, ins, outs, asset, value)),
           OwnedOutputs(Candidate(circuit, root, ins, outs, asset, value))
    PROVE  IInv'
  <1> DEFINE p == Candidate(circuit, root, ins, outs, asset, value)
  <1> USE DEF adminVars, treeVars, tokenVars
  <1>1. proofs' = proofs \union {p} /\ UNCHANGED <<adminVars, treeVars, tokenVars, log>>
    BY DEF MakeProof, Candidate
  <1>2. p \in ProofRecords
    <2>1. verifiers[circuit] \in Programs /\ compliancePk \in ComplianceKeys
      BY DEF MakeProof, IInv, TypeOK, Initialized
    <2> QED
      BY <2>1 DEF ProofRecords, Candidate
  <1> HIDE DEF p
  <1>3. TypeOK'
    BY <1>1, <1>2 DEF IInv, TypeOK
  <1>4. ASSUME NEW q \in proofs' PROVE ProofSound(q)' /\ OwnedOutputs(q)'
    <2>1. ProofSound(q) /\ OwnedOutputs(q)
      BY <1>1 DEF IInv, ProofsSound, p
    <2> QED
      BY <1>1, <2>1 DEF ProofSound, OwnedOutputs, SoundInputs, SoundDeposit, SoundTwoOut,
           SoundJoin, SoundWithdraw, NoteAt
  <1>5. ProofsSound'
    BY <1>4 DEF ProofsSound
  <1>6. RingHolds(ring, Len(leaves))'
    BY <1>1 DEF IInv, RingHolds
  <1>7. Initialized' /\ RegistryFits' /\ LeavesRegistered'
    BY <1>1 DEF IInv, Initialized, RegistryFits, LeavesRegistered, NoteAt
  <1> QED
    BY <1>3, <1>5, <1>6, <1>7 DEF IInv

\* What a client that opens leaf i under a known root knows of it.
LEMMA OpensFacts ==
    ASSUME IInv, NEW root \in KnownRoots, NEW i \in 1 .. Len(leaves) - 1, NEW owners, Opens(i, root, owners)
    PROVE  /\ root \in 1 .. Len(leaves) /\ root \in 0 .. Capacity
           /\ i \in 1 .. root - 1 /\ i \in 1 .. Capacity
           /\ NoteAt(i) \in NoteRecords
           /\ NoteAt(i).asset \in AssetIds /\ NoteAt(i).owner \in Owners
           /\ NoteAt(i).owner \in owners
           /\ compliancePk \in ComplianceKeys \union {None}
           /\ <<i, 0>> \in (-1 .. Capacity) \X (-1 .. Capacity)
           /\ Hidden \in (-1 .. Capacity) \X (-1 .. Capacity)
  <1>1. /\ ring \in [roots : [Slots -> 0 .. Len(leaves)], cursor : Slots]
        /\ leaves \in Seq(NoteRecords) /\ Len(leaves) \in Nat /\ Len(leaves) <= Capacity
        /\ compliancePk \in ComplianceKeys \union {None}
        /\ Capacity \in Nat
    BY PoolAssumption DEF IInv, TypeOK
  <1>2. root \in 1 .. Len(leaves)
    <2>1. PICK s \in Slots : root = RootAt(ring, s)
      BY DEF KnownRoots
    <2> QED
      BY <1>1, <2>1 DEF KnownRoots, RootAt
  <1>3. i \in 1 .. root - 1 /\ NoteAt(i).owner \in owners
    BY <1>1, <1>2 DEF Opens
  <1>4. NoteAt(i) \in NoteRecords /\ NoteAt(i).asset \in AssetIds /\ NoteAt(i).owner \in Owners
    <2>1. i \in 0 .. Len(leaves) - 1 /\ i # 0 /\ i + 1 \in 1 .. Len(leaves)
      BY <1>1
    <2> QED
      BY <1>1, <2>1 DEF IInv, LeavesRegistered, NoteAt
  <1>5. /\ <<i, 0>> \in (-1 .. Capacity) \X (-1 .. Capacity)
        /\ Hidden \in (-1 .. Capacity) \X (-1 .. Capacity)
        /\ i \in 1 .. Capacity /\ root \in 0 .. Capacity
    BY <1>1, <1>2, <1>3 DEF Hidden
  <1> QED
    BY <1>1, <1>2, <1>3, <1>4, <1>5

\* A deposit proof opens no note.
LEMMA ProveDepositIInv ==
    ASSUME IInv, ProveDeposit
    PROVE  IInv'
  <1>1. PICK asset \in AssetIds, value \in Amounts, owner \in Owners :
            MakeProof("deposit", 0, << >>,
                      <<Note(asset, value, owner, NoParents, compliancePk)>>, asset, value)
    BY DEF ProveDeposit
  <1> DEFINE out == Note(asset, value, owner, NoParents, compliancePk)
             p == Candidate("deposit", 0, << >>, <<out>>, asset, value)
  <1>2. Capacity \in Nat /\ compliancePk \in ComplianceKeys \union {None}
    BY PoolAssumption DEF IInv, TypeOK
  <1>3. out \in NoteRecords
    BY <1>2 DEF Note, NoteRecords, NoParents
  <1>4. ProofSound(p) /\ OwnedOutputs(p)
    BY DEF ProofSound, OwnedOutputs, SoundDeposit, Candidate, Note
  <1>5. "deposit" \in Circuits /\ 0 \in 0 .. Capacity /\ << >> \in Seq(1 .. Capacity)
        /\ <<out>> \in Seq(NoteRecords)
    BY <1>2, <1>3 DEF Circuits
  <1> HIDE DEF out
  <1> QED
    BY <1>1, <1>4, <1>5, MakeProofIInv DEF out

\* A transfer proof opens one note and conserves its value.
LEMMA ProveTransferIInv ==
    ASSUME IInv, NEW circuit \in {"transfer", "transfer_multisig"}, ProveTransfer(circuit)
    PROVE  IInv'
  <1>1. PICK root \in KnownRoots, i \in 1 .. Len(leaves) - 1, to \in Owners, paid \in Amounts,
             kept \in Amounts :
            /\ Opens(i, root, Spenders(circuit))
            /\ Conserved(NoteAt(i).value, paid + kept, 0)
            /\ \E back \in ChangeOwners(circuit, NoteAt(i).owner) :
                MakeProof(circuit, root, <<i>>,
                          <<Note(NoteAt(i).asset, paid, to, Hidden, compliancePk),
                            Note(NoteAt(i).asset, kept, back, <<i, 0>>, compliancePk)>>,
                          NoteAt(i).asset, 0)
    BY DEF ProveTransfer
  <1>2. PICK back \in ChangeOwners(circuit, NoteAt(i).owner) :
            MakeProof(circuit, root, <<i>>,
                      <<Note(NoteAt(i).asset, paid, to, Hidden, compliancePk),
                        Note(NoteAt(i).asset, kept, back, <<i, 0>>, compliancePk)>>,
                      NoteAt(i).asset, 0)
    BY <1>1
  <1> DEFINE asset == NoteAt(i).asset
             memo == Note(asset, paid, to, Hidden, compliancePk)
             change == Note(asset, kept, back, <<i, 0>>, compliancePk)
             p == Candidate(circuit, root, <<i>>, <<memo, change>>, asset, 0)
  <1>3. /\ root \in 1 .. Len(leaves) /\ root \in 0 .. Capacity
        /\ i \in 1 .. root - 1 /\ i \in 1 .. Capacity
        /\ asset \in AssetIds /\ NoteAt(i).owner \in Owners
        /\ compliancePk \in ComplianceKeys \union {None}
        /\ <<i, 0>> \in (-1 .. Capacity) \X (-1 .. Capacity)
        /\ Hidden \in (-1 .. Capacity) \X (-1 .. Capacity)
    BY <1>1, OpensFacts
  <1>4. back \in Owners
    BY <1>3 DEF ChangeOwners, Owners
  <1>5. memo \in NoteRecords /\ change \in NoteRecords
    BY <1>3, <1>4 DEF Note, NoteRecords
  <1>6. NoteAt(i).value = paid + kept
    BY <1>1, PoolAssumption DEF Conserved, Amounts
  <1>7. ProofSound(p) /\ OwnedOutputs(p)
    <2>1. p.root = root /\ p.ins = <<i>> /\ p.outs = <<memo, change>> /\ p.asset = asset
          /\ p.circuit = circuit
      BY DEF Candidate
    <2>2. memo.value = paid /\ memo.asset = asset /\ memo.owner = to
          /\ change.value = kept /\ change.asset = asset /\ change.owner = back
      BY DEF Note
    <2> HIDE DEF p, memo, change
    <2>3. SoundInputs(p)
      BY <1>3, <2>1 DEF SoundInputs
    <2>4. SoundTwoOut(p)
      BY <1>6, <2>1, <2>2, <2>3 DEF SoundTwoOut
    <2>5. OwnedOutputs(p)
      BY <1>4, <2>1, <2>2 DEF OwnedOutputs
    <2> QED
      BY <2>1, <2>4, <2>5 DEF ProofSound
  <1>8. circuit \in Circuits /\ <<i>> \in Seq(1 .. Capacity) /\ <<memo, change>> \in Seq(NoteRecords)
        /\ 0 \in Amounts
    BY <1>3, <1>5, PoolAssumption DEF Circuits, Standard, Multisig, Amounts
  <1> HIDE DEF memo, change
  <1> QED
    BY <1>2, <1>3, <1>7, <1>8, MakeProofIInv DEF memo, change

\* A split proof opens one note of a group.
LEMMA ProveSplitIInv ==
    ASSUME IInv, ProveSplit
    PROVE  IInv'
  <1>1. PICK root \in KnownRoots, i \in 1 .. Len(leaves) - 1, first \in Amounts, second \in Amounts :
            /\ Opens(i, root, Groups)
            /\ Conserved(NoteAt(i).value, first + second, 0)
            /\ MakeProof("split_multisig", root, <<i>>,
                     <<Note(NoteAt(i).asset, first, NoteAt(i).owner, <<i, 0>>, compliancePk),
                       Note(NoteAt(i).asset, second, NoteAt(i).owner, <<i, 0>>, compliancePk)>>,
                     NoteAt(i).asset, 0)
    BY DEF ProveSplit
  <1> DEFINE asset == NoteAt(i).asset
             out1 == Note(asset, first, NoteAt(i).owner, <<i, 0>>, compliancePk)
             out2 == Note(asset, second, NoteAt(i).owner, <<i, 0>>, compliancePk)
             p == Candidate("split_multisig", root, <<i>>, <<out1, out2>>, asset, 0)
  <1>2. /\ root \in 1 .. Len(leaves) /\ root \in 0 .. Capacity
        /\ i \in 1 .. root - 1 /\ i \in 1 .. Capacity
        /\ asset \in AssetIds /\ NoteAt(i).owner \in Owners
        /\ compliancePk \in ComplianceKeys \union {None}
        /\ <<i, 0>> \in (-1 .. Capacity) \X (-1 .. Capacity)
    BY <1>1, OpensFacts
  <1>3. out1 \in NoteRecords /\ out2 \in NoteRecords
    BY <1>2 DEF Note, NoteRecords
  <1>4. NoteAt(i).value = first + second
    BY <1>1, PoolAssumption DEF Conserved, Amounts
  <1>5. ProofSound(p) /\ OwnedOutputs(p)
    <2>1. p.root = root /\ p.ins = <<i>> /\ p.outs = <<out1, out2>> /\ p.asset = asset
          /\ p.circuit = "split_multisig"
      BY DEF Candidate
    <2>2. out1.value = first /\ out1.asset = asset /\ out1.owner = NoteAt(i).owner
          /\ out2.value = second /\ out2.asset = asset /\ out2.owner = NoteAt(i).owner
      BY DEF Note
    <2> HIDE DEF p, out1, out2
    <2>3. SoundInputs(p)
      BY <1>2, <2>1 DEF SoundInputs
    <2>4. SoundTwoOut(p)
      BY <1>4, <2>1, <2>2, <2>3 DEF SoundTwoOut
    <2>5. OwnedOutputs(p)
      BY <1>2, <2>1, <2>2 DEF OwnedOutputs
    <2> QED
      BY <2>1, <2>4, <2>5 DEF ProofSound
  <1>6. "split_multisig" \in Circuits /\ <<i>> \in Seq(1 .. Capacity)
        /\ <<out1, out2>> \in Seq(NoteRecords) /\ 0 \in Amounts
    BY <1>2, <1>3, PoolAssumption DEF Circuits, Multisig, Amounts
  <1> HIDE DEF out1, out2
  <1> QED
    BY <1>1, <1>2, <1>5, <1>6, MakeProofIInv DEF out1, out2

\* A join proof opens two different notes of one group and one asset.
LEMMA ProveJoinIInv ==
    ASSUME IInv, ProveJoin
    PROVE  IInv'
  <1>1. PICK root \in KnownRoots, i \in 1 .. Len(leaves) - 1, j \in 1 .. Len(leaves) - 1,
             sum \in Amounts :
            /\ Opens(i, root, Groups) /\ Opens(j, root, Groups)
            /\ i < j
            /\ NoteAt(i).owner = NoteAt(j).owner
            /\ NoteAt(i).asset = NoteAt(j).asset
            /\ Conserved(NoteAt(i).value + NoteAt(j).value, sum, 0)
            /\ MakeProof("join_multisig", root, <<i, j>>,
                     <<Note(NoteAt(i).asset, sum, NoteAt(i).owner, <<i, j>>, compliancePk)>>,
                     NoteAt(i).asset, 0)
    BY DEF ProveJoin
  <1> DEFINE asset == NoteAt(i).asset
             out == Note(asset, sum, NoteAt(i).owner, <<i, j>>, compliancePk)
             p == Candidate("join_multisig", root, <<i, j>>, <<out>>, asset, 0)
  <1>2. /\ root \in 1 .. Len(leaves) /\ root \in 0 .. Capacity
        /\ i \in 1 .. root - 1 /\ i \in 1 .. Capacity
        /\ asset \in AssetIds /\ NoteAt(i).owner \in Owners
        /\ compliancePk \in ComplianceKeys \union {None}
    BY <1>1, OpensFacts
  <1>3. j \in 1 .. root - 1 /\ j \in 1 .. Capacity
    BY <1>1, OpensFacts
  <1>4. out \in NoteRecords
    <2>1. <<i, j>> \in (-1 .. Capacity) \X (-1 .. Capacity)
      BY <1>2, <1>3, PoolAssumption
    <2> QED
      BY <1>2, <2>1 DEF Note, NoteRecords
  <1>5. NoteAt(i).value + NoteAt(j).value = sum
    BY <1>1, PoolAssumption DEF Conserved, Amounts
  <1>6. ProofSound(p) /\ OwnedOutputs(p)
    <2>1. p.root = root /\ p.ins = <<i, j>> /\ p.outs = <<out>> /\ p.asset = asset
          /\ p.circuit = "join_multisig"
      BY DEF Candidate
    <2>2. out.value = sum /\ out.asset = asset /\ out.owner = NoteAt(i).owner
      BY DEF Note
    <2> HIDE DEF p, out
    <2>3. SoundInputs(p)
      BY <1>1, <1>2, <1>3, <2>1 DEF SoundInputs
    <2>4. SoundJoin(p)
      BY <1>1, <1>5, <2>1, <2>2, <2>3 DEF SoundJoin
    <2>5. OwnedOutputs(p)
      BY <1>2, <2>1, <2>2 DEF OwnedOutputs
    <2> QED
      BY <2>1, <2>4, <2>5 DEF ProofSound
  <1>7. "join_multisig" \in Circuits /\ <<i, j>> \in Seq(1 .. Capacity)
        /\ <<out>> \in Seq(NoteRecords) /\ 0 \in Amounts
    BY <1>2, <1>3, <1>4, PoolAssumption DEF Circuits, Multisig, Amounts
  <1> HIDE DEF out
  <1> QED
    BY <1>1, <1>2, <1>6, <1>7, MakeProofIInv DEF out

\* A withdraw proof opens one note; what it pays out and the change make its value.
LEMMA ProveWithdrawIInv ==
    ASSUME IInv, NEW circuit \in {"withdraw", "withdraw_multisig"}, ProveWithdraw(circuit)
    PROVE  IInv'
  <1>1. PICK root \in KnownRoots, i \in 1 .. Len(leaves) - 1, value \in Amounts, kept \in Amounts :
            /\ Opens(i, root, Spenders(circuit))
            /\ Conserved(NoteAt(i).value, kept, value)
            /\ \E back \in ChangeOwners(circuit, NoteAt(i).owner) :
                MakeProof(circuit, root, <<i>>,
                          <<Note(NoteAt(i).asset, kept, back, <<i, 0>>, compliancePk)>>,
                          NoteAt(i).asset, value)
    BY DEF ProveWithdraw
  <1>2. PICK back \in ChangeOwners(circuit, NoteAt(i).owner) :
            MakeProof(circuit, root, <<i>>,
                      <<Note(NoteAt(i).asset, kept, back, <<i, 0>>, compliancePk)>>,
                      NoteAt(i).asset, value)
    BY <1>1
  <1> DEFINE asset == NoteAt(i).asset
             change == Note(asset, kept, back, <<i, 0>>, compliancePk)
             p == Candidate(circuit, root, <<i>>, <<change>>, asset, value)
  <1>3. /\ root \in 1 .. Len(leaves) /\ root \in 0 .. Capacity
        /\ i \in 1 .. root - 1 /\ i \in 1 .. Capacity
        /\ asset \in AssetIds /\ NoteAt(i).owner \in Owners
        /\ compliancePk \in ComplianceKeys \union {None}
        /\ <<i, 0>> \in (-1 .. Capacity) \X (-1 .. Capacity)
    BY <1>1, OpensFacts
  <1>4. back \in Owners
    BY <1>3 DEF ChangeOwners, Owners
  <1>5. change \in NoteRecords
    BY <1>3, <1>4 DEF Note, NoteRecords
  <1>6. NoteAt(i).value = kept + value
    BY <1>1, PoolAssumption DEF Conserved, Amounts
  <1>7. ProofSound(p) /\ OwnedOutputs(p)
    <2>1. p.root = root /\ p.ins = <<i>> /\ p.outs = <<change>> /\ p.asset = asset
          /\ p.circuit = circuit /\ p.value = value
      BY DEF Candidate
    <2>2. change.value = kept /\ change.asset = asset /\ change.owner = back
      BY DEF Note
    <2> HIDE DEF p, change
    <2>3. SoundInputs(p)
      BY <1>3, <2>1 DEF SoundInputs
    <2>4. SoundWithdraw(p)
      BY <1>6, <2>1, <2>2, <2>3 DEF SoundWithdraw
    <2>5. OwnedOutputs(p)
      BY <1>4, <2>1, <2>2 DEF OwnedOutputs
    <2> QED
      BY <2>1, <2>4, <2>5 DEF ProofSound
  <1>8. circuit \in Circuits /\ <<i>> \in Seq(1 .. Capacity) /\ <<change>> \in Seq(NoteRecords)
    BY <1>3, <1>5, PoolAssumption DEF Circuits, Standard, Multisig
  <1> HIDE DEF change
  <1> QED
    BY <1>2, <1>3, <1>7, <1>8, MakeProofIInv DEF change

-----------------------------------------------------------------------------
(* The handlers                                                            *)

\* What landing a spend does to the tree, whichever of the spend handlers it is.
LEMMA SpendGrows ==
    ASSUME IInv, NEW p \in proofs, NEW slot \in Slots, SpendChecks(p, slot),
           p.circuit \in Standard \union Multisig,
           Len(p.outs) = 1 => InsertOne(p),
           Len(p.outs) = 2 => InsertTwo(p)
    PROVE  /\ Grown(p) /\ p \in ProofRecords /\ ProofSound(p)
           /\ SoundInputs(p) /\ Len(p.ins) \in {1, 2} /\ Len(p.outs) \in {1, 2}
           /\ nullifiers' \subseteq 1 .. Len(leaves') - 1
           /\ leaves # << >>
           /\ registry[p.asset] # None
  <1>1. p \in ProofRecords /\ ProofSound(p) /\ OwnedOutputs(p) /\ TypeOK /\ RingHolds(ring, Len(leaves))
    BY DEF IInv, TypeOK, ProofsSound
  <1>2. SoundTwoOut(p) \/ SoundJoin(p) \/ SoundWithdraw(p)
    BY <1>1 DEF ProofSound, Standard, Multisig
  <1>3. SoundInputs(p) /\ Len(p.ins) \in {1, 2} /\ Len(p.outs) \in {1, 2}
    BY <1>2 DEF SoundTwoOut, SoundJoin, SoundWithdraw
  <1>4. Grown(p)
    BY <1>1, <1>3, InsertOneGrows, InsertTwoGrows
  <1>5. leaves \in Seq(NoteRecords) /\ Len(leaves) \in Nat /\ Len(leaves') = Len(leaves) + Len(p.outs)
    BY <1>1, <1>4 DEF TypeOK, Grown
  <1>6. \A k \in 1 .. Len(p.ins) : p.ins[k] \in 1 .. Len(leaves) - 1
    BY <1>3, <1>5 DEF SoundInputs
  <1>7. nullifiers' \subseteq 1 .. Len(leaves') - 1
    <2>1. nullifiers' = nullifiers \union {p.ins[k] : k \in DOMAIN p.ins}
      BY DEF SpendChecks, CreateNullifiers
    <2>2. DOMAIN p.ins = 1 .. Len(p.ins)
      BY <1>1 DEF ProofRecords
    <2>3. nullifiers \subseteq 1 .. Len(leaves) - 1
      BY <1>1 DEF TypeOK
    <2>4. 1 .. Len(leaves) - 1 \subseteq 1 .. Len(leaves') - 1
      BY <1>3, <1>5
    <2> QED
      BY <1>6, <2>1, <2>2, <2>3, <2>4
  <1>8. leaves # << >> /\ registry[p.asset] # None
    <2>1. p.ins[1] \in 1 .. Len(leaves) - 1 /\ NoteAt(p.ins[1]).asset = p.asset
      BY <1>3, <1>6 DEF SoundInputs
    <2>2. p.ins[1] \in 0 .. Len(leaves) - 1 /\ p.ins[1] # 0
      BY <1>5, <2>1
    <2> QED
      BY <1>5, <2>1, <2>2 DEF IInv, LeavesRegistered
  <1> QED
    BY <1>1, <1>3, <1>4, <1>7, <1>8

\* Landing a transfer, split or join, which moves no tokens.
LEMMA InternalSpendIInv ==
    ASSUME IInv, NEW p \in proofs, NEW slot \in Slots,
           TransferLike(p, slot) \/ SplitMultisig(p, slot) \/ JoinMultisig(p, slot)
    PROVE  IInv'
  <1> USE DEF adminVars, tokenVars
  <1>1. /\ SpendChecks(p, slot) /\ p.circuit \in Standard \union Multisig
        /\ UNCHANGED <<adminVars, tokenVars, proofs>>
    BY DEF TransferLike, SplitMultisig, JoinMultisig, Standard, Multisig
  <1>2. ProofSound(p)
    BY DEF IInv, ProofsSound
  <1>3. (Len(p.outs) = 1 => InsertOne(p)) /\ (Len(p.outs) = 2 => InsertTwo(p))
    BY <1>2 DEF TransferLike, SplitMultisig, JoinMultisig, ProofSound, SoundTwoOut, SoundJoin
  <1>4. /\ Grown(p) /\ nullifiers' \subseteq 1 .. Len(leaves') - 1
        /\ leaves # << >> /\ registry[p.asset] # None
    BY <1>1, <1>3, SpendGrows
  <1>5. LeavesRegistered' /\ ProofsSound' /\ leaves' # << >>
    BY <1>1, <1>4, GrownKeeps
  <1>6. TypeOK'
    BY <1>1, <1>4 DEF IInv, TypeOK, Grown, RingType
  <1>7. Initialized' /\ RegistryFits'
    BY <1>1, <1>5 DEF IInv, Initialized, RegistryFits, SpendChecks
  <1> QED
    BY <1>4, <1>5, <1>6, <1>7 DEF IInv, Grown

\* withdraw_like pays from the vault of a mint and leaves the registry alone.
LEMMA WithdrawIInv ==
    ASSUME IInv, NEW p \in proofs, NEW slot \in Slots, NEW mint \in Mints, NEW amount \in Amounts,
           WithdrawLike(p, slot, mint, amount)
    PROVE  IInv'
  <1> USE DEF adminVars
  <1>1. /\ SpendChecks(p, slot) /\ p.circuit \in Standard \union Multisig
        /\ UNCHANGED <<adminVars, registry, proofs>>
        /\ vault[mint] >= amount
        /\ vault' = [vault EXCEPT ![mint] = @ - amount]
        /\ wallet' = [wallet EXCEPT ![mint] = @ + Received(mint, amount)]
    BY DEF WithdrawLike, Standard, Multisig
  <1>2. ProofSound(p)
    BY DEF IInv, ProofsSound
  <1>3. (Len(p.outs) = 1 => InsertOne(p)) /\ (Len(p.outs) = 2 => InsertTwo(p))
    BY <1>2 DEF WithdrawLike, ProofSound, SoundWithdraw
  <1>4. /\ Grown(p) /\ nullifiers' \subseteq 1 .. Len(leaves') - 1
        /\ leaves # << >> /\ registry[p.asset] # None
    BY <1>1, <1>3, SpendGrows
  <1>5. LeavesRegistered' /\ ProofsSound' /\ leaves' # << >>
    BY <1>1, <1>4, GrownKeeps
  <1>6. amount \in Nat /\ Received(mint, amount) \in Nat
    BY PoolAssumption DEF Amounts, Received
  <1>7. vault' \in [Mints -> Nat] /\ wallet' \in [Mints -> Nat]
    BY <1>1, <1>6 DEF IInv, TypeOK
  <1>8. TypeOK'
    BY <1>1, <1>4, <1>7 DEF IInv, TypeOK, Grown, RingType
  <1>9. Initialized' /\ RegistryFits'
    BY <1>1, <1>5 DEF IInv, Initialized, RegistryFits, SpendChecks
  <1> QED
    BY <1>4, <1>5, <1>8, <1>9 DEF IInv, Grown

\* deposit registers the mint of the asset for good and inserts one leaf.
LEMMA DepositIInv ==
    ASSUME IInv, NEW p \in proofs, NEW mint \in Mints, NEW amount \in Amounts, Deposit(p, mint, amount)
    PROVE  IInv'
  <1> USE DEF adminVars
  <1>1. /\ authority # None /\ p.circuit = "deposit" /\ p.asset = AssetIdOf[mint]
        /\ InsertOne(p) /\ wallet[mint] >= amount
        /\ registry' = [registry EXCEPT ![AssetIdOf[mint]] = mint]
        /\ wallet' = [wallet EXCEPT ![mint] = @ - amount]
        /\ vault' = [vault EXCEPT ![mint] = @ + Received(mint, amount)]
        /\ UNCHANGED <<adminVars, nullifiers, proofs>>
    BY DEF Deposit
  <1>2. p \in ProofRecords /\ ProofSound(p) /\ TypeOK /\ RingHolds(ring, Len(leaves))
    BY DEF IInv, TypeOK, ProofsSound
  <1>3. Grown(p) /\ Len(p.outs) = 1
    BY <1>1, <1>2, InsertOneGrows DEF ProofSound, SoundDeposit
  <1>4. registry \in [AssetIds -> Mints \union {None}] /\ AssetIdOf[mint] \in AssetIds /\ mint # None
        /\ AssetIdOf \in [Mints -> AssetIds]
    BY <1>2, PoolAssumption DEF TypeOK
  <1>5. /\ \A a \in AssetIds : registry[a] # None => registry'[a] # None
        /\ registry'[p.asset] # None
        /\ registry' \in [AssetIds -> Mints \union {None}]
    BY <1>1, <1>4
  <1>6. RegistryFits'
    BY <1>1, <1>4 DEF IInv, RegistryFits
  <1>7. leaves # << >>
    BY <1>1 DEF IInv, Initialized
  <1>8. LeavesRegistered' /\ ProofsSound' /\ leaves' # << >>
    BY <1>1, <1>3, <1>5, <1>7, GrownKeeps
  <1>9. amount \in Nat /\ Received(mint, amount) \in Nat
    BY PoolAssumption DEF Amounts, Received
  <1>10. vault' \in [Mints -> Nat] /\ wallet' \in [Mints -> Nat]
    BY <1>1, <1>2, <1>9 DEF TypeOK
  <1>11. nullifiers' \subseteq 1 .. Len(leaves') - 1
    <2>1. Len(leaves) \in Nat /\ Len(leaves') = Len(leaves) + 1 /\ nullifiers \subseteq 1 .. Len(leaves) - 1
      BY <1>2, <1>3 DEF TypeOK, Grown
    <2> QED
      BY <1>1, <2>1
  <1>12. TypeOK'
    BY <1>1, <1>2, <1>3, <1>5, <1>10, <1>11 DEF TypeOK, Grown, RingType
  <1>13. Initialized'
    BY <1>1, <1>8 DEF IInv, Initialized
  <1> QED
    BY <1>3, <1>6, <1>8, <1>12, <1>13 DEF IInv, Grown

\* Tokens sent to the vault and proofs forgotten leave the tree alone.
LEMMA OutsideIInv ==
    ASSUME IInv,
           \/ \E p \in proofs : Forget(p)
           \/ \E mint \in DonatedMints : Donate(mint)
    PROVE  IInv'
  <1> USE DEF adminVars, treeVars, tokenVars
  <1>1. ASSUME NEW p \in proofs, Forget(p) PROVE IInv'
    <2>1. TypeOK' /\ Initialized'
      BY <1>1 DEF Forget, IInv, TypeOK, Initialized
    <2> QED
      BY <1>1, <2>1, TreeKept DEF Forget
  <1>2. ASSUME NEW mint \in DonatedMints, Donate(mint) PROVE IInv'
    <2>1. mint \in Mints /\ Received(mint, 1) \in Nat
      BY PoolAssumption DEF Received
    <2>2. vault' \in [Mints -> Nat] /\ wallet' \in [Mints -> Nat]
      BY <1>2, <2>1 DEF Donate, IInv, TypeOK
    <2>3. TypeOK' /\ Initialized'
      BY <1>2, <2>2 DEF Donate, IInv, TypeOK, Initialized
    <2> QED
      BY <1>2, <2>3, TreeKept DEF Donate
  <1> QED
    BY <1>1, <1>2

\* The invariant is inductive: one case per action.
LEMMA NextIInv == IInv /\ [Next]_vars => IInv'
  <1> SUFFICES ASSUME IInv, [Next]_vars PROVE IInv'
    OBVIOUS
  <1>1. CASE Admin
    BY <1>1, AdminIInv
  <1>2. CASE Prove
    BY <1>2, ProveDepositIInv, ProveTransferIInv, ProveSplitIInv, ProveJoinIInv, ProveWithdrawIInv
       DEF Prove
  <1>3. CASE Submit
    BY <1>3, DepositIInv, InternalSpendIInv, WithdrawIInv DEF Submit
  <1>4. CASE \/ \E p \in proofs : Forget(p)
             \/ \E mint \in DonatedMints : Donate(mint)
    BY <1>4, OutsideIInv
  <1>5. CASE UNCHANGED vars
    <2>1. TypeOK' /\ Initialized'
      BY <1>5 DEF vars, adminVars, treeVars, tokenVars, IInv, TypeOK, Initialized
    <2> QED
      BY <1>5, <2>1, TreeKept DEF vars, adminVars, treeVars, tokenVars
  <1> QED
    BY <1>1, <1>2, <1>3, <1>4, <1>5 DEF Next

\* The inductive invariant holds of the pool for every value of the constants.
THEOREM SpecIInv == Spec => []IInv
  BY InitIInv, NextIInv, PTL DEF Spec

\* Type correctness, including that the tree never outgrows its capacity and that
\* only existing leaves other than the genesis leaf are ever nullified.
THEOREM PoolTypeOK == Spec => []TypeOK
  <1>1. IInv => TypeOK
    BY DEF IInv
  <1> QED
    BY <1>1, SpecIInv, PTL

\* The ring resolves the root of every spend proof exactly as long as fewer than
\* RootRingSize leaves have been inserted after it.
THEOREM PoolRootRetention == Spec => []RootRetention
  <1>1. IInv => RootRetention
    <2> SUFFICES ASSUME IInv, NEW p \in proofs, p.circuit # "deposit"
                 PROVE  (\E s \in Slots : ResolveRoot(p, s)) <=> Len(leaves) - p.root < RootRingSize
      BY DEF RootRetention
    <2> DEFINE n == Len(leaves)
    <2>1. /\ n \in Nat /\ ring \in RingType(n) /\ RingHolds(ring, n)
          /\ RootRingSize \in Nat \ {0}
      BY RootRingAssumption DEF IInv, TypeOK, RingType
    <2>2. p.root \in 1 .. n
      <3>1. ProofSound(p) /\ p.circuit \in Circuits
        BY DEF IInv, ProofsSound, TypeOK, ProofRecords
      <3> QED
        BY <3>1 DEF ProofSound, Circuits, Standard, Multisig, SoundTwoOut, SoundJoin, SoundWithdraw,
                    SoundInputs
    <2> HIDE DEF n
    <2>3. ASSUME NEW s \in Slots PROVE ResolveRoot(p, s) <=> Age(ring, s) = n - p.root
      <3>1. Age(ring, s) \in 0 .. RootRingSize - 1
        BY <2>1, AgesCovered
      <3>2. ring.roots[s] = IF Age(ring, s) < n THEN n - Age(ring, s) ELSE 0
        BY <2>1 DEF RingHolds
      <3> QED
        BY <2>1, <2>2, <3>1, <3>2 DEF ResolveRoot, RootAt
    <2>4. ASSUME NEW s \in Slots, ResolveRoot(p, s) PROVE n - p.root < RootRingSize
      BY <2>1, <2>2, <2>3, <2>4, AgesCovered
    <2>5. ASSUME n - p.root < RootRingSize PROVE \E s \in Slots : ResolveRoot(p, s)
      <3>1. n - p.root \in 0 .. RootRingSize - 1
        BY <2>1, <2>2, <2>5
      <3>2. PICK s \in Slots : Age(ring, s) = n - p.root
        BY <2>1, <3>1, AgesCovered
      <3> QED
        BY <2>3, <3>2
    <2> QED
      BY <2>4, <2>5 DEF n
  <1> QED
    BY <1>1, SpecIInv, PTL

\* One push overwrites the slot of no root that is still retained after it.
LEMMA PushKeepsSlot ==
    ASSUME NEW n \in Nat, NEW r \in RingType(n), RingHolds(r, n), NEW s \in Slots,
           NEW root \in 1 .. n, r.roots[s] = root, n + 1 - root < RootRingSize
    PROVE  PushRoot(r, n + 1).roots[s] = root
  <1>1. RootRingSize \in Nat \ {0} /\ r.cursor \in Slots /\ r.roots \in [Slots -> 0 .. n]
    BY RootRingAssumption DEF RingType
  <1>2. Age(r, r.cursor) = RootRingSize - 1
    BY <1>1 DEF Age, Slots
  <1>3. r.roots[r.cursor] = IF RootRingSize - 1 < n THEN n - (RootRingSize - 1) ELSE 0
    BY <1>1, <1>2 DEF RingHolds
  <1>4. s # r.cursor
    BY <1>1, <1>3
  <1> QED
    BY <1>1, <1>4 DEF PushRoot

\* Proving changes nothing on chain.
LEMMA ProveFrame ==
    ASSUME Prove
    PROVE  UNCHANGED <<adminVars, treeVars, tokenVars, log>> /\ proofs \subseteq proofs'
  <1> DEFINE Frame == UNCHANGED <<adminVars, treeVars, tokenVars, log>> /\ proofs \subseteq proofs'
  <1>1. ASSUME NEW c, NEW root, NEW ins, NEW outs, NEW asset, NEW value,
               MakeProof(c, root, ins, outs, asset, value)
        PROVE  Frame
    BY <1>1 DEF MakeProof
  <1> HIDE DEF Frame
  <1>2. ProveDeposit => Frame
    BY <1>1 DEF ProveDeposit
  <1>3. ASSUME NEW c, ProveTransfer(c) PROVE Frame
    BY <1>1, <1>3 DEF ProveTransfer
  <1>4. ProveSplit => Frame
    BY <1>1 DEF ProveSplit
  <1>5. ProveJoin => Frame
    BY <1>1 DEF ProveJoin
  <1>6. ASSUME NEW c, ProveWithdraw(c) PROVE Frame
    BY <1>1, <1>6 DEF ProveWithdraw
  <1>7. Frame
    BY <1>2, <1>3, <1>4, <1>5, <1>6 DEF Prove
  <1> QED
    BY <1>7 DEF Frame

\* The slot resolved for a proof's root stays right while the root is retained.
THEOREM PoolRootIndexStable == Spec => RootIndexStable
  <1> DEFINE Stable == \A p \in proofs, s \in Slots :
                p.circuit # "deposit" /\ ResolveRoot(p, s) /\ Len(leaves') - p.root < RootRingSize
                    => ring'.roots[s] = p.root
  <1>1. IInv /\ [Next]_vars => [Stable]_vars
    <2> SUFFICES ASSUME IInv, Next, NEW p \in proofs, NEW s \in Slots,
                        p.circuit # "deposit", ResolveRoot(p, s), Len(leaves') - p.root < RootRingSize
                 PROVE  ring'.roots[s] = p.root
      OBVIOUS
    <2> DEFINE n == Len(leaves)
    <2>1. /\ n \in Nat /\ ring \in RingType(n) /\ RingHolds(ring, n) /\ leaves \in Seq(NoteRecords)
          /\ RootRingSize \in Nat \ {0}
      BY RootRingAssumption DEF IInv, TypeOK, RingType
    <2>2. ring.roots[s] = p.root /\ p.root \in 1 .. n
      BY <2>1 DEF ResolveRoot, RootAt, RingType
    <2>3. CASE UNCHANGED ring
      BY <2>2, <2>3
    <2>4. CASE ring' = PushRoot(ring, n + 1) /\ Len(leaves') = n + 1
      BY <2>1, <2>2, <2>4, PushKeepsSlot
    <2>5. CASE ring' = PushRoot(PushRoot(ring, n + 1), n + 2) /\ Len(leaves') = n + 2
      <3> DEFINE mid == PushRoot(ring, n + 1)
      <3>1. mid \in RingType(n + 1) /\ RingHolds(mid, n + 1)
        BY <2>1, PushHolds
      <3>2. n + 1 - p.root < RootRingSize /\ (n + 1) + 1 - p.root < RootRingSize
            /\ n + 1 \in Nat /\ p.root \in 1 .. n + 1 /\ (n + 1) + 1 = n + 2
        BY <2>1, <2>2, <2>5
      <3>3. mid.roots[s] = p.root
        BY <2>1, <2>2, <3>2, PushKeepsSlot
      <3> HIDE DEF mid
      <3>4. PushRoot(mid, (n + 1) + 1).roots[s] = p.root
        BY <3>1, <3>2, <3>3, PushKeepsSlot
      <3> QED
        BY <2>5, <3>2, <3>4 DEF mid
    <2>6. \/ UNCHANGED ring
          \/ ring' = PushRoot(ring, n + 1) /\ Len(leaves') = n + 1
          \/ ring' = PushRoot(PushRoot(ring, n + 1), n + 2) /\ Len(leaves') = n + 2
      <3>1. CASE Admin
        <4>1. ASSUME NEW signer \in Signers, Initialize(signer) PROVE Len(leaves') = 1 /\ ring' = PushRoot(ring, 1) /\ n = 0
          BY <4>1 DEF Initialize, IInv, Initialized
        <4> QED
          BY <3>1, <4>1 DEF Admin, SetVerifier, RotateComplianceKey, SetPaused, treeVars
      <3>2. CASE Prove
        BY <3>2, ProveFrame DEF treeVars
      <3>3. CASE Submit
        <4>1. ASSUME NEW q \in proofs, InsertOne(q)
              PROVE  ring' = PushRoot(ring, n + 1) /\ Len(leaves') = n + 1
          BY <2>1, <4>1 DEF InsertOne
        <4>2. ASSUME NEW q \in proofs, InsertTwo(q)
              PROVE  ring' = PushRoot(PushRoot(ring, n + 1), n + 2) /\ Len(leaves') = n + 2
          BY <2>1, <4>2 DEF InsertTwo
        <4> QED
          BY <3>3, <4>1, <4>2 DEF Submit, Deposit, TransferLike, SplitMultisig, JoinMultisig, WithdrawLike
      <3>4. CASE \/ \E q \in proofs : Forget(q)
                 \/ \E mint \in DonatedMints : Donate(mint)
        BY <3>4 DEF Forget, Donate, treeVars
      <3> QED
        BY <3>1, <3>2, <3>3, <3>4 DEF Next
    <2> QED
      BY <2>3, <2>4, <2>5, <2>6
  <1> QED
    BY <1>1, SpecIInv, PTL DEF Spec, RootIndexStable
-----------------------------------------------------------------------------
(* Solvency.  Claims are counted as a set of units, so that conservation of*)
(* value is a statement about the cardinality of a set that loses the      *)
(* units of the inputs and gains those of the outputs.                     *)


UnitsOf(i, v) == {i} \X (1 .. v)

\* A leaf of value v contributes v units.
LEMMA UnitsCardinality ==
    ASSUME NEW i, NEW v \in Nat
    PROVE  IsFiniteSet(UnitsOf(i, v)) /\ Cardinality(UnitsOf(i, v)) = v
  <1>1. IsFiniteSet({i}) /\ Cardinality({i}) = 1
    BY FS_Singleton
  <1>2. IsFiniteSet(1 .. v) /\ Cardinality(1 .. v) = v
    BY FS_Interval
  <1>3. /\ IsFiniteSet({i} \X (1 .. v))
        /\ Cardinality({i} \X (1 .. v)) = Cardinality({i}) * Cardinality(1 .. v)
    <2> DEFINE S == {i}
               T == 1 .. v
    <2>1. IsFiniteSet(S) /\ IsFiniteSet(T)
      BY <1>1, <1>2
    <2> HIDE DEF S, T
    <2>2. IsFiniteSet(S \X T) /\ Cardinality(S \X T) = Cardinality(S) * Cardinality(T)
      BY <2>1, FS_Product
    <2> QED
      BY <2>2 DEF S, T
  <1>4. Cardinality({i}) * Cardinality(1 .. v) = v
    BY <1>1, <1>2
  <1> QED
    BY <1>3, <1>4 DEF UnitsOf

\* Two different leaves contribute the sum of their values.
LEMMA TwoUnitsCardinality ==
    ASSUME NEW i, NEW j, i # j, NEW v \in Nat, NEW w \in Nat
    PROVE  /\ IsFiniteSet(UnitsOf(i, v) \union UnitsOf(j, w))
           /\ Cardinality(UnitsOf(i, v) \union UnitsOf(j, w)) = v + w
  <1>1. /\ IsFiniteSet(UnitsOf(i, v)) /\ Cardinality(UnitsOf(i, v)) = v
        /\ IsFiniteSet(UnitsOf(j, w)) /\ Cardinality(UnitsOf(j, w)) = w
    BY UnitsCardinality
  <1>2. UnitsOf(i, v) \intersect UnitsOf(j, w) = {}
    BY DEF UnitsOf
  <1>3. Cardinality(UnitsOf(i, v) \intersect UnitsOf(j, w)) = 0
    BY <1>2, FS_EmptySet
  <1>4. /\ IsFiniteSet(UnitsOf(i, v) \union UnitsOf(j, w))
        /\ Cardinality(UnitsOf(i, v) \union UnitsOf(j, w))
              = Cardinality(UnitsOf(i, v)) + Cardinality(UnitsOf(j, w))
                - Cardinality(UnitsOf(i, v) \intersect UnitsOf(j, w))
    BY <1>1, FS_Union
  <1> QED
    BY <1>1, <1>3, <1>4

\* Exchanging the subset U of C for V.
LEMMA ExchangeCardinality ==
    ASSUME NEW C, NEW U, NEW V, IsFiniteSet(C), U \subseteq C, IsFiniteSet(V),
           (C \ U) \intersect V = {}
    PROVE  Cardinality((C \ U) \union V) = Cardinality(C) - Cardinality(U) + Cardinality(V)
  <1>1. C \intersect U = U /\ IsFiniteSet(U)
    BY FS_Subset
  <1>2. IsFiniteSet(C \ U) /\ Cardinality(C \ U) = Cardinality(C) - Cardinality(C \intersect U)
    BY FS_Difference
  <1>3. Cardinality((C \ U) \intersect V) = 0
    BY FS_EmptySet
  <1>4. Cardinality((C \ U) \union V)
            = Cardinality(C \ U) + Cardinality(V) - Cardinality((C \ U) \intersect V)
    BY <1>2, FS_Union
  <1>5. Cardinality(C) \in Nat /\ Cardinality(U) \in Nat /\ Cardinality(V) \in Nat
    BY <1>1, FS_CardinalityType
  <1>6. Cardinality(C \intersect U) = Cardinality(U)
    BY <1>1
  <1> DEFINE c == Cardinality(C)
             u == Cardinality(U)
             v == Cardinality(V)
             d == Cardinality(C \ U)
             x == Cardinality((C \ U) \union V)
             e == Cardinality((C \ U) \intersect V)
             k == Cardinality(C \intersect U)
  <1>7. c \in Nat /\ u \in Nat /\ v \in Nat /\ d = c - k /\ k = u /\ x = d + v - e /\ e = 0
    BY <1>2, <1>3, <1>4, <1>5, <1>6
  <1> HIDE DEF c, u, v, d, x, e, k
  <1>8. x = c - u + v
    BY <1>7
  <1> QED
    BY <1>8 DEF x, c, u, v

\* Finitely many leaves of finite value make finitely many claims.
LEMMA ClaimsFinite ==
    ASSUME TypeOK, NEW a
    PROVE  IsFiniteSet(Claims(a)) /\ Cardinality(Claims(a)) \in Nat
  <1> DEFINE Box == (0 .. Len(leaves) - 1) \X (1 .. MaxAmount)
  <1>1. leaves \in Seq(NoteRecords) /\ Len(leaves) \in Nat /\ MaxAmount \in Nat
    BY PoolAssumption DEF TypeOK
  <1>2. IsFiniteSet(Box)
    <2>1. IsFiniteSet(0 .. Len(leaves) - 1) /\ IsFiniteSet(1 .. MaxAmount)
      BY <1>1, FS_Interval
    <2> QED
      BY <2>1, FS_Product
  <1>3. Claims(a) \subseteq Box
    <2>1. ASSUME NEW i \in UnspentOf(a) PROVE Units(i) \subseteq Box
      <3>1. i \in 0 .. Len(leaves) - 1 /\ i + 1 \in 1 .. Len(leaves)
        BY <1>1 DEF UnspentOf
      <3>2. leaves[i + 1] \in NoteRecords
        BY <1>1, <3>1
      <3>3. NoteAt(i).value \in 0 .. MaxAmount
        BY <3>2 DEF NoteAt, NoteRecords, Amounts
      <3> QED
        BY <1>1, <3>1, <3>3 DEF Units
    <2> QED
      BY <2>1 DEF Claims
  <1>4. IsFiniteSet(Claims(a))
    BY <1>2, <1>3, FS_Subset
  <1> QED
    BY <1>4, FS_CardinalityType

-----------------------------------------------------------------------------
(* Landing a proof exchanges claims                                        *)

OldUnits(p) == UNION {UnitsOf(p.ins[k], NoteAt(p.ins[k]).value) : k \in 1 .. Len(p.ins)}
NewUnits(p) == UNION {UnitsOf(Len(leaves) + k - 1, p.outs[k].value) : k \in 1 .. Len(p.outs)}

\* What a landing of p does to leaves and nullifiers, deposits included.
Landed(p) ==
    /\ Grown(p)
    /\ p \in ProofRecords
    /\ \A k \in 1 .. Len(p.ins) :
        /\ p.ins[k] \in 1 .. Len(leaves) - 1
        /\ ~Spent(p.ins[k])
        /\ NoteAt(p.ins[k]).asset = p.asset
    /\ \A k \in 1 .. Len(p.outs) : p.outs[k].asset = p.asset
    /\ nullifiers' = nullifiers \union {p.ins[k] : k \in 1 .. Len(p.ins)}

\* A unit is claimed in the new state iff it is of an old leaf that was claimed
\* and not consumed, or of a new leaf.
LEMMA LandedClaims ==
    ASSUME TypeOK, NEW p, Landed(p), NEW a
    PROVE  Claims(a)' = IF a = p.asset THEN (Claims(a) \ OldUnits(p)) \union NewUnits(p) ELSE Claims(a)
  <1> DEFINE n == Len(leaves)
             m == Len(leaves')
             ClaimedBy(i, u) == \* unit u of leaf i, before
                 i \in 0 .. n - 1 /\ i \notin nullifiers /\ leaves[i + 1].asset = a
                 /\ u \in 1 .. leaves[i + 1].value
             ClaimedAfter(i, u) ==
                 i \in 0 .. m - 1 /\ i \notin nullifiers' /\ leaves'[i + 1].asset = a
                 /\ u \in 1 .. leaves'[i + 1].value
  <1>1. /\ n \in Nat /\ Len(p.outs) \in Nat /\ Len(p.ins) \in Nat
        /\ m = n + Len(p.outs) /\ nullifiers \subseteq 1 .. n - 1
        /\ \A i \in 1 .. n : leaves'[i] = leaves[i]
        /\ \A k \in 1 .. Len(p.outs) : leaves'[n + k] = p.outs[k]
    <2>1. n \in Nat /\ nullifiers \subseteq 1 .. n - 1
      BY DEF TypeOK
    <2>2. Grown(p) /\ p \in ProofRecords
      BY DEF Landed
    <2>3. Len(p.outs) \in Nat /\ Len(p.ins) \in Nat
      BY <2>2 DEF ProofRecords
    <2> QED
      BY <2>1, <2>2, <2>3 DEF Grown
  <1>2. \A x : x \in Claims(a) <=> \E i, u : x = <<i, u>> /\ ClaimedBy(i, u)
    <2>1. \A x : x \in Claims(a) <=> \E i \in UnspentOf(a) : x \in {i} \X (1 .. leaves[i + 1].value)
      BY DEF Claims, Units, NoteAt
    <2>2. \A i : i \in UnspentOf(a) <=> i \in 0 .. n - 1 /\ i \notin nullifiers /\ leaves[i + 1].asset = a
      BY DEF UnspentOf, Spent, NoteAt
    <2>3. \A i, x : x \in {i} \X (1 .. leaves[i + 1].value)
                        <=> \E u \in 1 .. leaves[i + 1].value : x = <<i, u>>
      OBVIOUS
    <2> QED
      BY <2>1, <2>2, <2>3, Zenon
  <1>3. \A x : x \in Claims(a)' <=> \E i, u : x = <<i, u>> /\ ClaimedAfter(i, u)
    <2>1. \A x : x \in Claims(a)'
                    <=> \E i \in UnspentOf(a)' : x \in {i} \X (1 .. leaves'[i + 1].value)
      BY DEF Claims, Units, NoteAt
    <2>2. \A i : i \in UnspentOf(a)'
                    <=> i \in 0 .. m - 1 /\ i \notin nullifiers' /\ leaves'[i + 1].asset = a
      BY DEF UnspentOf, Spent, NoteAt
    <2>3. \A i, x : x \in {i} \X (1 .. leaves'[i + 1].value)
                        <=> \E u \in 1 .. leaves'[i + 1].value : x = <<i, u>>
      OBVIOUS
    <2> QED
      BY <2>1, <2>2, <2>3, Zenon
  <1>4. \A i, u : <<i, u>> \in OldUnits(p)
                    <=> \E k \in 1 .. Len(p.ins) : i = p.ins[k] /\ u \in 1 .. leaves[i + 1].value
    BY DEF OldUnits, UnitsOf, NoteAt
  <1>5. \A x : x \in NewUnits(p)
                    <=> \E k \in 1 .. Len(p.outs) : \E u \in 1 .. p.outs[k].value : x = <<n + k - 1, u>>
    BY DEF NewUnits, UnitsOf
  <1>6. ASSUME NEW i, NEW u, i \in 0 .. n - 1
        PROVE  ClaimedAfter(i, u) <=> ClaimedBy(i, u) /\ \A k \in 1 .. Len(p.ins) : i # p.ins[k]
    <2>1. leaves'[i + 1] = leaves[i + 1] /\ i \in 0 .. m - 1
      BY <1>1, <1>6
    <2>2. i \in nullifiers' <=> i \in nullifiers \/ \E k \in 1 .. Len(p.ins) : i = p.ins[k]
      BY DEF Landed
    <2> QED
      BY <1>6, <2>1, <2>2
  <1>7. ASSUME NEW i, NEW u, i \in n .. m - 1
        PROVE  /\ ClaimedAfter(i, u) <=> a = p.asset /\ u \in 1 .. p.outs[i - n + 1].value
               /\ i - n + 1 \in 1 .. Len(p.outs)
    <2>1. i - n + 1 \in 1 .. Len(p.outs) /\ i + 1 = n + (i - n + 1) /\ i \in 0 .. m - 1 /\ i \in Int
      BY <1>1, <1>7
    <2>2. leaves'[i + 1] = p.outs[i - n + 1]
      BY <1>1, <2>1
    <2>3. p.outs[i - n + 1].asset = p.asset
      BY <2>1 DEF Landed
    <2>4. i \notin nullifiers'
      <3>1. \A k \in 1 .. Len(p.ins) : p.ins[k] \in 1 .. n - 1
        BY DEF Landed
      <3>2. nullifiers' \subseteq 1 .. n - 1
        BY <1>1, <3>1 DEF Landed
      <3> QED
        BY <1>1, <1>7, <3>2
    <2> QED
      BY <2>1, <2>2, <2>3, <2>4
  <1>8. \A i : i \in 0 .. m - 1 <=> i \in 0 .. n - 1 \/ i \in n .. m - 1
    BY <1>1
  <1> HIDE DEF n, m, ClaimedBy, ClaimedAfter
  <1>9. \A i, u : ClaimedBy(i, u) => i \in 0 .. n - 1 /\ u \in 1 .. leaves[i + 1].value
    BY DEF ClaimedBy
  <1>10. \A i, u : ClaimedAfter(i, u) => i \in 0 .. m - 1
    BY DEF ClaimedAfter
  <1>11. CASE a # p.asset
    <2>1. ASSUME NEW i, NEW u PROVE ClaimedAfter(i, u) <=> ClaimedBy(i, u)
      <3>1. ASSUME ClaimedAfter(i, u) PROVE ClaimedBy(i, u)
        BY <1>6, <1>7, <1>8, <1>10, <1>11, <3>1
      <3>2. ASSUME ClaimedBy(i, u) PROVE ClaimedAfter(i, u)
        <4>1. ASSUME NEW k \in 1 .. Len(p.ins) PROVE i # p.ins[k]
          BY <1>11, <3>2 DEF ClaimedBy, Landed, NoteAt
        <4> QED
          BY <1>6, <1>9, <3>2, <4>1
      <3> QED
        BY <3>1, <3>2
    <2> QED
      BY <1>2, <1>3, <1>11, <2>1
  <1>12. CASE a = p.asset
    <2>1. ASSUME NEW x, x \in Claims(a)' PROVE x \in (Claims(a) \ OldUnits(p)) \union NewUnits(p)
      <3>1. PICK i, u : x = <<i, u>> /\ ClaimedAfter(i, u)
        BY <1>3, <2>1
      <3>2. CASE i \in 0 .. n - 1
        BY <1>2, <1>4, <1>6, <3>1, <3>2
      <3>3. CASE i \in n .. m - 1
        <4> DEFINE k == i - n + 1
        <4>1. k \in 1 .. Len(p.outs) /\ u \in 1 .. p.outs[k].value
          BY <1>7, <3>1, <3>3
        <4>2. i = n + k - 1
          BY <1>1, <3>3
        <4> QED
          BY <1>5, <3>1, <4>1, <4>2
      <3> QED
        BY <1>8, <1>10, <3>1, <3>2, <3>3
    <2>2. ASSUME NEW x, x \in Claims(a), x \notin OldUnits(p) PROVE x \in Claims(a)'
      <3>1. PICK i, u : x = <<i, u>> /\ ClaimedBy(i, u)
        BY <1>2, <2>2
      <3>2. ASSUME NEW k \in 1 .. Len(p.ins) PROVE i # p.ins[k]
        BY <1>4, <1>9, <2>2, <3>1
      <3>3. ClaimedAfter(i, u)
        BY <1>6, <1>9, <3>1, <3>2
      <3> QED
        BY <1>3, <3>1, <3>3
    <2>3. ASSUME NEW x, x \in NewUnits(p) PROVE x \in Claims(a)'
      <3>1. PICK k \in 1 .. Len(p.outs) : \E u \in 1 .. p.outs[k].value : x = <<n + k - 1, u>>
        BY <1>5, <2>3
      <3> PICK u \in 1 .. p.outs[k].value : x = <<n + k - 1, u>>
        BY <3>1
      <3>2. n + k - 1 \in n .. m - 1 /\ (n + k - 1) - n + 1 = k
        BY <1>1
      <3>3. ClaimedAfter(n + k - 1, u)
        BY <1>7, <1>12, <3>2
      <3> QED
        BY <1>3, <3>1, <3>3
    <2> QED
      BY <1>12, <2>1, <2>2, <2>3
  <1> QED
    BY <1>11, <1>12

\* The balance of claims of the asset of a landed proof.
LEMMA LandedBalance ==
    ASSUME TypeOK, NEW p, Landed(p), IsFiniteSet(NewUnits(p))
    PROVE  Cardinality(Claims(p.asset)')
              = Cardinality(Claims(p.asset)) - Cardinality(OldUnits(p)) + Cardinality(NewUnits(p))
  <1> DEFINE n == Len(leaves)
  <1>1. leaves \in Seq(NoteRecords) /\ n \in Nat
    BY DEF TypeOK
  <1>2. OldUnits(p) \subseteq Claims(p.asset)
    <2>1. ASSUME NEW k \in 1 .. Len(p.ins)
          PROVE  UnitsOf(p.ins[k], NoteAt(p.ins[k]).value) \subseteq Claims(p.asset)
      <3>1. p.ins[k] \in UnspentOf(p.asset)
        BY <1>1 DEF Landed, UnspentOf
      <3> QED
        BY <3>1 DEF Claims, Units, UnitsOf
    <2> QED
      BY <2>1 DEF OldUnits
  <1>3. Claims(p.asset) \intersect NewUnits(p) = {}
    <2>1. ASSUME NEW x \in Claims(p.asset) PROVE x[1] \in 0 .. n - 1
      <3>1. PICK i \in UnspentOf(p.asset) : x \in Units(i)
        BY DEF Claims
      <3>2. x[1] = i /\ i \in 0 .. n - 1
        BY <3>1 DEF Units, UnspentOf
      <3> QED
        BY <3>2
    <2>2. ASSUME NEW x \in NewUnits(p) PROVE x[1] \notin 0 .. n - 1
      <3>1. PICK k \in 1 .. Len(p.outs) : x \in UnitsOf(n + k - 1, p.outs[k].value)
        BY DEF NewUnits
      <3>2. x[1] = n + k - 1 /\ k \in Int /\ k >= 1
        BY <3>1 DEF UnitsOf
      <3> QED
        BY <1>1, <3>2
    <2> QED
      BY <2>1, <2>2
  <1>4. IsFiniteSet(Claims(p.asset))
    BY ClaimsFinite
  <1>5. Claims(p.asset)' = (Claims(p.asset) \ OldUnits(p)) \union NewUnits(p)
    BY LandedClaims
  <1>6. (Claims(p.asset) \ OldUnits(p)) \intersect NewUnits(p) = {}
    BY <1>3
  <1> DEFINE C == Claims(p.asset)
             U == OldUnits(p)
             V == NewUnits(p)
  <1>7. IsFiniteSet(C) /\ U \subseteq C /\ IsFiniteSet(V) /\ (C \ U) \intersect V = {}
        /\ Claims(p.asset)' = (C \ U) \union V
    BY <1>2, <1>4, <1>5, <1>6
  <1> HIDE DEF C, U, V
  <1>8. Cardinality((C \ U) \union V) = Cardinality(C) - Cardinality(U) + Cardinality(V)
    BY <1>7, ExchangeCardinality
  <1> QED
    BY <1>7, <1>8 DEF C, U, V

\* The outputs of a proof have natural values.
LEMMA OutValues ==
    ASSUME NEW p \in ProofRecords, NEW k \in 1 .. Len(p.outs)
    PROVE  p.outs[k].value \in Nat
  <1>1. p.outs \in Seq(NoteRecords)
    BY DEF ProofRecords
  <1>2. p.outs[k] \in NoteRecords
    BY <1>1
  <1>3. p.outs[k].value \in 0 .. MaxAmount
    BY <1>2 DEF NoteRecords, Amounts
  <1> QED
    BY <1>3, PoolAssumption

\* The units a proof consumes and creates, by the number of its inputs and outputs.
LEMMA OneOutUnits ==
    ASSUME TypeOK, NEW p \in ProofRecords, Len(p.outs) = 1
    PROVE  IsFiniteSet(NewUnits(p)) /\ Cardinality(NewUnits(p)) = p.outs[1].value
  <1>1. p.outs[1].value \in Nat
    BY OutValues
  <1>2. NewUnits(p) = UnitsOf(Len(leaves) + 1 - 1, p.outs[1].value)
    BY DEF NewUnits
  <1> QED
    BY <1>1, <1>2, UnitsCardinality

\* Two outputs (transfer, split).
LEMMA TwoOutUnits ==
    ASSUME TypeOK, NEW p \in ProofRecords, Len(p.outs) = 2
    PROVE  /\ IsFiniteSet(NewUnits(p))
           /\ Cardinality(NewUnits(p)) = p.outs[1].value + p.outs[2].value
  <1> DEFINE i == Len(leaves) + 1 - 1
             j == Len(leaves) + 2 - 1
             v == p.outs[1].value
             w == p.outs[2].value
  <1>1. v \in Nat /\ w \in Nat
    BY OutValues
  <1>2. i # j
    BY DEF TypeOK
  <1>3. NewUnits(p) = UnitsOf(i, v) \union UnitsOf(j, w)
    BY DEF NewUnits
  <1> HIDE DEF i, j, v, w
  <1>4. /\ IsFiniteSet(UnitsOf(i, v) \union UnitsOf(j, w))
        /\ Cardinality(UnitsOf(i, v) \union UnitsOf(j, w)) = v + w
    BY <1>1, <1>2, TwoUnitsCardinality
  <1> QED
    BY <1>3, <1>4 DEF v, w

\* One input (transfer, split, withdraw).
LEMMA OneInUnits ==
    ASSUME TypeOK, NEW p, Landed(p), Len(p.ins) = 1
    PROVE  Cardinality(OldUnits(p)) = NoteAt(p.ins[1]).value
  <1>1. OldUnits(p) = UnitsOf(p.ins[1], NoteAt(p.ins[1]).value)
    BY DEF OldUnits
  <1>2. NoteAt(p.ins[1]).value \in Nat
    <2>1. leaves \in Seq(NoteRecords) /\ Len(leaves) \in Nat /\ p.ins[1] \in 1 .. Len(leaves) - 1
      BY DEF TypeOK, Landed
    <2>2. leaves[p.ins[1] + 1] \in NoteRecords
      BY <2>1
    <2> QED
      BY <2>2, PoolAssumption DEF NoteAt, NoteRecords, Amounts
  <1> QED
    BY <1>1, <1>2, UnitsCardinality

\* Two inputs (join).
LEMMA TwoInUnits ==
    ASSUME TypeOK, NEW p, Landed(p), Len(p.ins) = 2, p.ins[1] # p.ins[2]
    PROVE  Cardinality(OldUnits(p)) = NoteAt(p.ins[1]).value + NoteAt(p.ins[2]).value
  <1>1. OldUnits(p) = UnitsOf(p.ins[1], NoteAt(p.ins[1]).value)
                        \union UnitsOf(p.ins[2], NoteAt(p.ins[2]).value)
    BY DEF OldUnits
  <1>2. ASSUME NEW k \in {1, 2} PROVE NoteAt(p.ins[k]).value \in Nat
    <2>1. leaves \in Seq(NoteRecords) /\ Len(leaves) \in Nat /\ p.ins[k] \in 1 .. Len(leaves) - 1
      BY DEF TypeOK, Landed
    <2>2. leaves[p.ins[k] + 1] \in NoteRecords
      BY <2>1
    <2> QED
      BY <2>2, PoolAssumption DEF NoteAt, NoteRecords, Amounts
  <1> QED
    BY <1>1, <1>2, TwoUnitsCardinality

\* A spend that passes its handler's checks has landed in the sense above.
LEMMA SpendLanded ==
    ASSUME IInv, NEW p \in proofs, NEW slot \in Slots, SpendChecks(p, slot),
           p.circuit \in Standard \union Multisig,
           Len(p.outs) = 1 => InsertOne(p),
           Len(p.outs) = 2 => InsertTwo(p)
    PROVE  Landed(p) /\ ProofSound(p)
  <1>1. /\ Grown(p) /\ p \in ProofRecords /\ ProofSound(p)
        /\ SoundInputs(p) /\ Len(p.ins) \in {1, 2}
    BY SpendGrows
  <1>2. Len(leaves) \in Nat /\ DOMAIN p.ins = 1 .. Len(p.ins)
    BY <1>1 DEF IInv, TypeOK, ProofRecords
  <1>3. ASSUME NEW k \in 1 .. Len(p.ins)
        PROVE  p.ins[k] \in 1 .. Len(leaves) - 1 /\ ~Spent(p.ins[k]) /\ NoteAt(p.ins[k]).asset = p.asset
    <2>1. k = 1 \/ (k = 2 /\ Len(p.ins) = 2)
      <3>1. CASE Len(p.ins) = 1
        BY <3>1
      <3>2. CASE Len(p.ins) = 2
        BY <3>2
      <3> QED
        BY <1>1, <3>1, <3>2
    <2>2. ~Spent(p.ins[k])
      BY <2>1 DEF SpendChecks, CreateNullifiers
    <2>3. p.ins[k] \in 1 .. p.root - 1 /\ p.root \in 1 .. Len(leaves) /\ NoteAt(p.ins[k]).asset = p.asset
      BY <1>1 DEF SoundInputs
    <2> QED
      BY <1>2, <2>2, <2>3
  <1>4. nullifiers' = nullifiers \union {p.ins[k] : k \in 1 .. Len(p.ins)}
    BY <1>2 DEF SpendChecks, CreateNullifiers
  <1>5. \A k \in 1 .. Len(p.outs) : p.outs[k].asset = p.asset
    BY DEF IInv, ProofsSound, OwnedOutputs
  <1> QED
    BY <1>1, <1>3, <1>4, <1>5 DEF Landed

-----------------------------------------------------------------------------
(* Every action preserves solvency                                         *)

Claimed(a) == Cardinality(Claims(a))

\* The premise of Solvent, and what backs an asset.
NoFee(a) == registry[a] # None => TransferFee[registry[a]] = 0
Held(a) == IF registry[a] = None THEN 0 ELSE vault[registry[a]]

\* Solvency in terms of the abbreviations above.
LEMMA SolventIff == Solvent <=> \A a \in AssetIds : NoFee(a) => Claimed(a) <= Held(a)
  BY DEF Solvent, NoFee, Held, Claimed, Backed

\* The same of the state after the step.
LEMMA SolventIffNext == Solvent' <=> \A a \in AssetIds : NoFee(a)' => Claimed(a)' <= Held(a)'
  BY DEF Solvent, NoFee, Held, Claimed, Backed

\* Steps that leave the tree alone and take nothing out of the vault.
LEMMA FrameSolvent ==
    ASSUME TypeOK, Solvent, UNCHANGED <<leaves, nullifiers, registry>>,
           vault' \in [Mints -> Nat], \A m \in Mints : vault'[m] >= vault[m]
    PROVE  Solvent'
  <1> SUFFICES ASSUME NEW a \in AssetIds, NoFee(a)' PROVE Claimed(a)' <= Held(a)'
    BY SolventIffNext
  <1>1. Claimed(a)' = Claimed(a)
    BY DEF Claimed, Claims, Units, UnspentOf, NoteAt, Spent
  <1>2. NoFee(a) /\ Claimed(a) <= Held(a)
    BY SolventIff DEF NoFee
  <1>3. Held(a) <= Held(a)' /\ Held(a) \in Nat /\ Held(a)' \in Nat
    BY DEF TypeOK, Held
  <1>4. Claimed(a) \in Nat
    BY ClaimsFinite DEF Claimed
  <1> HIDE DEF Claimed
  <1> QED
    BY <1>1, <1>2, <1>3, <1>4

\* Landing a proof leaves the claims on other assets alone.
LEMMA OtherClaims ==
    ASSUME TypeOK, NEW p, Landed(p), NEW a, a # p.asset
    PROVE  Claimed(a)' = Claimed(a)
  BY LandedClaims DEF Claimed

\* A transfer, split or join destroys as much as it creates.
LEMMA InternalSpendSolvent ==
    ASSUME IInv, Solvent, NEW p \in proofs, NEW slot \in Slots,
           TransferLike(p, slot) \/ SplitMultisig(p, slot) \/ JoinMultisig(p, slot)
    PROVE  Solvent'
  <1>1. /\ SpendChecks(p, slot) /\ p.circuit \in Standard \union Multisig
        /\ UNCHANGED <<registry, vault>> /\ TypeOK
    BY DEF TransferLike, SplitMultisig, JoinMultisig, Standard, Multisig, tokenVars, IInv
  <1>2. p \in ProofRecords /\ ProofSound(p)
    BY DEF IInv, ProofsSound, TypeOK
  <1>3. (Len(p.outs) = 1 => InsertOne(p)) /\ (Len(p.outs) = 2 => InsertTwo(p))
    BY <1>2 DEF TransferLike, SplitMultisig, JoinMultisig, ProofSound, SoundTwoOut, SoundJoin
  <1>4. Landed(p)
    BY <1>1, <1>3, SpendLanded
  <1>5. SoundTwoOut(p) \/ SoundJoin(p)
    BY <1>2 DEF TransferLike, SplitMultisig, JoinMultisig, ProofSound
  <1>6. IsFiniteSet(NewUnits(p)) /\ Cardinality(OldUnits(p)) = Cardinality(NewUnits(p))
    <2>1. CASE SoundTwoOut(p)
      BY <1>1, <1>2, <1>4, <2>1, OneInUnits, TwoOutUnits DEF SoundTwoOut
    <2>2. CASE SoundJoin(p)
      BY <1>1, <1>2, <1>4, <2>2, TwoInUnits, OneOutUnits DEF SoundJoin
    <2> QED
      BY <1>5, <2>1, <2>2
  <1>7. Claimed(p.asset)' = Claimed(p.asset)
    <2> DEFINE x == Cardinality(Claims(p.asset)')
               c == Cardinality(Claims(p.asset))
               u == Cardinality(OldUnits(p))
               v == Cardinality(NewUnits(p))
    <2>1. x = c - u + v /\ u = v
      BY <1>1, <1>4, <1>6, LandedBalance
    <2>2. c \in Nat /\ v \in Nat
      BY <1>1, <1>6, ClaimsFinite, FS_CardinalityType
    <2> HIDE DEF x, c, u, v
    <2>3. x = c
      BY <2>1, <2>2
    <2> QED
      BY <2>3 DEF x, c, Claimed
  <1> SUFFICES ASSUME NEW a \in AssetIds, NoFee(a)' PROVE Claimed(a)' <= Held(a)'
    BY SolventIffNext
  <1>8. Claimed(a)' = Claimed(a)
    BY <1>1, <1>4, <1>7, OtherClaims
  <1>9. NoFee(a) /\ Held(a)' = Held(a)
    BY <1>1 DEF NoFee, Held
  <1> QED
    BY <1>8, <1>9, SolventIff

\* A withdrawal takes out of the vault what its input note is worth more than
\* the change, and no other asset is backed by the same vault.  If the mint the
\* submitter names only shares the asset id, the vault behind the notes is not
\* touched at all, while the claims on it shrink.
LEMMA WithdrawSolvent ==
    ASSUME IInv, Solvent, NEW p \in proofs, NEW slot \in Slots, NEW mint \in Mints,
           NEW amount \in Amounts, WithdrawLike(p, slot, mint, amount)
    PROVE  Solvent'
  <1>1. /\ SpendChecks(p, slot) /\ p.circuit \in Standard \union Multisig
        /\ registry' = registry /\ p.value = amount /\ p.asset = AssetIdOf[mint]
        /\ vault[mint] >= amount
        /\ vault' = [vault EXCEPT ![mint] = @ - amount]
        /\ TypeOK /\ mint # None
    BY PoolAssumption DEF WithdrawLike, Standard, Multisig, IInv
  <1>2. p \in ProofRecords /\ ProofSound(p)
    BY DEF IInv, ProofsSound, TypeOK
  <1>3. SoundWithdraw(p)
    BY <1>2 DEF WithdrawLike, ProofSound
  <1>4. Landed(p)
    BY <1>1, <1>3, SpendLanded DEF SoundWithdraw, WithdrawLike
  <1>5. /\ IsFiniteSet(NewUnits(p)) /\ Cardinality(NewUnits(p)) = p.outs[1].value
        /\ Cardinality(OldUnits(p)) = NoteAt(p.ins[1]).value
    BY <1>1, <1>2, <1>3, <1>4, OneInUnits, OneOutUnits DEF SoundWithdraw
  <1>6. amount \in Nat /\ vault \in [Mints -> Nat]
    BY <1>1, PoolAssumption DEF Amounts, TypeOK
  <1>7. Claimed(p.asset)' = Claimed(p.asset) - amount
    <2> DEFINE x == Cardinality(Claims(p.asset)')
               c == Cardinality(Claims(p.asset))
               u == Cardinality(OldUnits(p))
               v == Cardinality(NewUnits(p))
    <2>1. x = c - u + v
      BY <1>1, <1>4, <1>5, LandedBalance
    <2>2. c \in Nat /\ v \in Nat
      BY <1>1, <1>5, ClaimsFinite, FS_CardinalityType
    <2>3. u = v + amount
      BY <1>1, <1>3, <1>5 DEF SoundWithdraw
    <2> HIDE DEF x, c, u, v
    <2>4. x = c - amount
      BY <1>6, <2>1, <2>2, <2>3
    <2> QED
      BY <2>4 DEF x, c, Claimed
  <1> SUFFICES ASSUME NEW a \in AssetIds, NoFee(a)' PROVE Claimed(a)' <= Held(a)'
    BY SolventIffNext
  <1>8. NoFee(a) /\ Claimed(a) <= Held(a)
    BY <1>1, SolventIff DEF NoFee
  <1>9. Claimed(a) \in Nat
    BY <1>1, ClaimsFinite DEF Claimed
  <1>10. CASE a = p.asset /\ registry[a] = mint
    <2>1. Held(a) = vault[mint] /\ Held(a)' = vault[mint] - amount /\ vault[mint] \in Nat
      BY <1>1, <1>6, <1>10 DEF Held
    <2> HIDE DEF Claimed, Held
    <2> QED
      BY <1>6, <1>7, <1>8, <1>9, <1>10, <2>1
  <1>11. CASE a = p.asset /\ registry[a] # mint
    <2>1. Held(a)' = Held(a) /\ Held(a) \in Nat
      BY <1>1, <1>6, <1>11 DEF Held, TypeOK
    <2> HIDE DEF Claimed, Held
    <2> QED
      BY <1>6, <1>7, <1>8, <1>9, <1>11, <2>1
  <1>12. CASE a # p.asset
    <2>1. registry[a] # mint
      BY <1>1, <1>12 DEF IInv, RegistryFits
    <2>2. Held(a)' = Held(a)
      BY <1>1, <1>6, <2>1 DEF Held, TypeOK
    <2>3. Claimed(a)' = Claimed(a)
      BY <1>1, <1>4, <1>12, OtherClaims
    <2> QED
      BY <1>8, <2>2, <2>3
  <1> QED
    BY <1>10, <1>11, <1>12

\* A deposit of a mint without fee adds to the vault what it adds to the claims.
LEMMA DepositSolvent ==
    ASSUME IInv, Solvent, NEW p \in proofs, NEW mint \in Mints, NEW amount \in Amounts,
           Deposit(p, mint, amount)
    PROVE  Solvent'
  <1>1. /\ p.circuit = "deposit" /\ p.value = amount /\ p.asset = AssetIdOf[mint]
        /\ InsertOne(p) /\ registry[p.asset] \in {None, mint}
        /\ registry' = [registry EXCEPT ![p.asset] = mint]
        /\ vault' = [vault EXCEPT ![mint] = @ + Received(mint, amount)]
        /\ nullifiers' = nullifiers
    BY DEF Deposit, AssetAccountFits
  <1>2. /\ TypeOK /\ RingHolds(ring, Len(leaves)) /\ p \in ProofRecords /\ SoundDeposit(p)
        /\ OwnedOutputs(p)
    BY <1>1 DEF IInv, ProofsSound, ProofSound, TypeOK
  <1>3. Grown(p)
    BY <1>1, <1>2, InsertOneGrows DEF SoundDeposit
  <1>4. Landed(p)
    <2>1. 1 .. Len(p.ins) = {}
      BY <1>2 DEF SoundDeposit
    <2>2. nullifiers' = nullifiers \union {p.ins[k] : k \in 1 .. Len(p.ins)}
      BY <1>1, <2>1
    <2>3. \A k \in 1 .. Len(p.outs) : p.outs[k].asset = p.asset
      BY <1>2 DEF OwnedOutputs
    <2> QED
      BY <1>2, <1>3, <2>1, <2>2, <2>3 DEF Landed
  <1>5. /\ amount \in Nat /\ vault \in [Mints -> Nat] /\ p.asset \in AssetIds /\ mint # None
        /\ registry \in [AssetIds -> Mints \union {None}] /\ AssetIdOf \in [Mints -> AssetIds]
        /\ TransferFee \in [Mints -> Nat] /\ Received(mint, amount) \in Nat
    BY <1>2, PoolAssumption DEF Amounts, TypeOK, ProofRecords, Received
  <1>6. Claimed(p.asset)' = Claimed(p.asset) + amount
    <2>1. IsFiniteSet(NewUnits(p)) /\ Cardinality(NewUnits(p)) = amount
      BY <1>1, <1>2, OneOutUnits DEF SoundDeposit
    <2>2. OldUnits(p) = {}
      BY <1>2 DEF OldUnits, SoundDeposit
    <2>3. Cardinality(OldUnits(p)) = 0
      BY <2>2, FS_EmptySet
    <2> DEFINE x == Cardinality(Claims(p.asset)')
               c == Cardinality(Claims(p.asset))
               u == Cardinality(OldUnits(p))
               v == Cardinality(NewUnits(p))
    <2>4. x = c - u + v /\ u = 0 /\ v = amount
      BY <1>2, <1>4, <2>1, <2>3, LandedBalance
    <2>5. c \in Nat
      BY <1>2, ClaimsFinite
    <2> HIDE DEF x, c, u, v
    <2>6. x = c + amount
      BY <1>5, <2>4, <2>5
    <2> QED
      BY <2>6 DEF x, c, Claimed
  <1> SUFFICES ASSUME NEW a \in AssetIds, NoFee(a)' PROVE Claimed(a)' <= Held(a)'
    BY SolventIffNext
  <1>7. Claimed(a) \in Nat
    BY <1>2, ClaimsFinite DEF Claimed
  <1>8. CASE a = p.asset
    <2>1. TransferFee[mint] = 0
      BY <1>1, <1>5, <1>8 DEF NoFee
    <2>2. Received(mint, amount) = amount
      BY <1>5, <2>1 DEF Received
    <2>3. NoFee(a) /\ Held(a) <= vault[mint] /\ Held(a) \in Nat /\ vault[mint] \in Nat
      BY <1>1, <1>5, <1>8, <2>1 DEF NoFee, Held
    <2>4. Held(a)' = vault[mint] + amount
      BY <1>1, <1>5, <1>8, <2>2 DEF Held
    <2>5. Claimed(a) <= Held(a)
      BY <2>3, SolventIff
    <2> HIDE DEF Claimed, Held
    <2> QED
      BY <1>5, <1>6, <1>7, <1>8, <2>3, <2>4, <2>5
  <1>9. CASE a # p.asset
    <2>1. registry'[a] = registry[a] /\ registry[a] # mint
      BY <1>1, <1>5, <1>9 DEF IInv, RegistryFits
    <2>2. Held(a)' = Held(a) /\ NoFee(a)
      BY <1>1, <1>5, <2>1 DEF Held, NoFee
    <2>3. Claimed(a)' = Claimed(a)
      BY <1>2, <1>4, <1>9, OtherClaims
    <2> QED
      BY <2>2, <2>3, SolventIff
  <1> QED
    BY <1>8, <1>9

\* The genesis leaf carries no asset, so nothing is claimed after initialize.
LEMMA InitializeSolvent ==
    ASSUME IInv, NEW signer \in Signers, Initialize(signer)
    PROVE  Solvent'
  <1> SUFFICES ASSUME NEW a \in AssetIds, NoFee(a)' PROVE Claimed(a)' <= Held(a)'
    BY SolventIffNext
  <1>1. /\ leaves' = <<GenesisNote>> /\ UNCHANGED <<registry, vault>>
        /\ vault \in [Mints -> Nat] /\ registry \in [AssetIds -> Mints \union {None}]
    BY DEF Initialize, tokenVars, IInv, TypeOK
  <1>2. UnspentOf(a)' = {}
    <2>1. a # None
      BY PoolAssumption
    <2>2. ASSUME NEW i \in 0 .. Len(leaves') - 1 PROVE leaves'[i + 1].asset # a
      <3>1. i = 0
        BY <1>1
      <3>2. leaves'[i + 1] = GenesisNote
        BY <1>1, <3>1
      <3> QED
        BY <2>1, <3>2 DEF GenesisNote, Note
    <2> QED
      BY <2>2 DEF UnspentOf, NoteAt
  <1>3. Claims(a)' = {}
    BY <1>2 DEF Claims
  <1>4. Claimed(a)' = 0
    BY <1>3, FS_EmptySet DEF Claimed
  <1>5. Held(a)' \in Nat
    BY <1>1 DEF Held
  <1> HIDE DEF Claimed, Held
  <1> QED
    BY <1>4, <1>5

\* Nothing is claimed of an empty pool.
LEMMA InitSolvent == Init => Solvent
  <1> SUFFICES ASSUME Init, NEW a \in AssetIds PROVE Claimed(a) <= Held(a)
    BY SolventIff
  <1>1. Len(leaves) = 0
    BY DEF Init
  <1>2. Claims(a) = {}
    BY <1>1 DEF Claims, UnspentOf
  <1>3. Claimed(a) = 0
    BY <1>2, FS_EmptySet DEF Claimed
  <1>4. Held(a) = 0
    BY DEF Held, Init
  <1> HIDE DEF Claimed, Held
  <1> QED
    BY <1>3, <1>4

\* Solvency is kept by every action, given the inductive invariant.
LEMMA NextSolvent == IInv /\ Solvent /\ [Next]_vars => Solvent'
  <1> SUFFICES ASSUME IInv, Solvent, [Next]_vars PROVE Solvent'
    OBVIOUS
  <1>1. TypeOK /\ vault \in [Mints -> Nat] /\ \A m \in Mints : vault[m] >= vault[m]
    BY DEF IInv, TypeOK
  <1>2. ASSUME UNCHANGED <<leaves, nullifiers, registry, vault>> PROVE Solvent'
    BY <1>1, <1>2, FrameSolvent
  <1>3. CASE Admin
    <2>1. \/ \E signer \in Signers : Initialize(signer)
          \/ UNCHANGED <<leaves, nullifiers, registry, vault>>
      BY <1>3 DEF Admin, SetVerifier, RotateComplianceKey, SetPaused, treeVars, tokenVars
    <2> QED
      BY <1>2, <2>1, InitializeSolvent
  <1>4. CASE Prove
    BY <1>2, <1>4, ProveFrame DEF treeVars, tokenVars
  <1>5. CASE Submit
    BY <1>5, DepositSolvent, InternalSpendSolvent, WithdrawSolvent DEF Submit
  <1>6. CASE \E p \in proofs : Forget(p)
    BY <1>2, <1>6 DEF Forget, treeVars, tokenVars
  <1>7. ASSUME NEW mint \in DonatedMints, Donate(mint) PROVE Solvent'
    <2>1. mint \in Mints /\ Received(mint, 1) \in Nat
      BY PoolAssumption DEF Received
    <2>2. vault' \in [Mints -> Nat] /\ \A m \in Mints : vault'[m] >= vault[m]
      BY <1>1, <1>7, <2>1 DEF Donate
    <2> QED
      BY <1>1, <1>7, <2>2, FrameSolvent DEF Donate, treeVars
  <1>8. CASE UNCHANGED vars
    BY <1>2, <1>8 DEF vars, treeVars, tokenVars
  <1> QED
    BY <1>3, <1>4, <1>5, <1>6, <1>7, <1>8 DEF Next

\* The vault of a mint without transfer fee covers every unspent note of its
\* asset, whatever proofs land in whatever order, for every number of users,
\* assets and leaves.
THEOREM PoolSolvent == Spec => []Solvent
  <1>1. Spec => [](IInv /\ Solvent)
    BY InitIInv, InitSolvent, NextIInv, NextSolvent, PTL DEF Spec
  <1> QED
    BY <1>1, PTL

\* No withdrawal of an unspent note is refused for want of an asset account or,
\* without transfer fee, of tokens.
THEOREM PoolRedeemable == Spec => []Redeemable
  <1>1. IInv /\ Solvent => Redeemable
    <2> SUFFICES ASSUME IInv, Solvent, NEW p \in proofs,
                        p.circuit \in {"withdraw", "withdraw_multisig"}, ~Spent(p.ins[1])
                 PROVE  \E mint \in Mints :
                            /\ registry[p.asset] = mint
                            /\ AssetIdOf[mint] = p.asset
                            /\ TransferFee[mint] = 0 => vault[mint] >= p.value
      BY DEF Redeemable
    <2> DEFINE i == p.ins[1]
               a == p.asset
    <2>1. /\ TypeOK /\ p \in ProofRecords /\ a \in AssetIds /\ SoundWithdraw(p)
          /\ p.value \in 0 .. MaxAmount /\ MaxAmount \in Nat
      BY PoolAssumption DEF IInv, TypeOK, ProofsSound, ProofSound, ProofRecords, Amounts
    <2>2. /\ Len(leaves) \in Nat /\ i \in 0 .. Len(leaves) - 1 /\ i # 0
          /\ NoteAt(i).asset = a /\ NoteAt(i).value = p.outs[1].value + p.value
      BY <2>1 DEF TypeOK, SoundWithdraw, SoundInputs
    <2>3. registry[a] # None /\ registry[a] \in Mints /\ AssetIdOf[registry[a]] = a
      BY <2>1, <2>2 DEF IInv, LeavesRegistered, RegistryFits, TypeOK
    <2>4. ASSUME TransferFee[registry[a]] = 0 PROVE vault[registry[a]] >= p.value
      <3>1. Claimed(a) <= Held(a) /\ Held(a) = vault[registry[a]] /\ vault[registry[a]] \in Nat
        BY <2>1, <2>3, <2>4, SolventIff DEF NoFee, Held, TypeOK
      <3>2. UnitsOf(i, NoteAt(i).value) \subseteq Claims(a)
        <4>1. i \in UnspentOf(a)
          BY <2>2 DEF UnspentOf
        <4> QED
          BY <4>1 DEF Claims, Units, UnitsOf
      <3>3. p.outs[1].value \in Nat /\ NoteAt(i).value \in Nat
        <4>1. p.outs[1].value \in Nat
          BY <2>1, OutValues DEF SoundWithdraw
        <4> QED
          BY <2>1, <2>2, <4>1
      <3> DEFINE C == Claims(a)
                 U == UnitsOf(i, NoteAt(i).value)
      <3>4. IsFiniteSet(C) /\ Cardinality(C) \in Nat /\ U \subseteq C
        BY <2>1, <3>2, ClaimsFinite
      <3>5. Cardinality(U) = NoteAt(i).value
        BY <3>3, UnitsCardinality
      <3>6. Cardinality(U) <= Cardinality(C)
        <4> HIDE DEF C, U
        <4> QED
          BY <3>4, FS_Subset
      <3>7. Cardinality(C) <= vault[registry[a]]
        BY <3>1 DEF Claimed
      <3> DEFINE c == Cardinality(C)
                 v == NoteAt(i).value
                 w == p.outs[1].value
                 h == vault[registry[a]]
      <3>8. c \in Nat /\ h \in Nat /\ v <= c /\ c <= h /\ v = w + p.value /\ w \in Nat /\ v \in Nat
        BY <2>2, <3>1, <3>3, <3>4, <3>5, <3>6, <3>7
      <3> HIDE DEF c, v, w, h
      <3>9. h >= p.value
        BY <2>1, <3>8
      <3> QED
        BY <3>9 DEF h
    <2> QED
      BY <2>3, <2>4
  <1> QED
    BY <1>1, SpecIInv, PoolSolvent, PTL

=============================================================================
