--------------------------- MODULE AuditTrailProofs ---------------------------
(***************************************************************************)
(* What an auditor relies on.  The event log says what is so: it names a   *)
(* nullifier at most once, whatever proofs are in circulation and however  *)
(* often they are sent; it reproduces the leaves and the nullifiers; and   *)
(* each note in it is encrypted to the compliance key in force at its      *)
(* place.  And the lineage the tracer finds between those notes is the     *)
(* true one, as far as it does not say that it stops.                      *)
(***************************************************************************)
EXTENDS AuditTrail, ShieldedPoolProofs, SequenceTheorems

Events ==
    {NoteInserted(i, note) : i \in Nat, note \in NoteRecords}
        \union {NullifierSpent(i) : i \in Nat}
        \union {ComplianceKeyRotated(v, key) : v \in Nat, key \in ComplianceKeys}

\* The spent events of a log l name members of N, each at most once.
OnceIn(l, N) ==
    /\ l \in Seq(Events)
    /\ \A a \in 1 .. Len(l) : l[a].type = "spent" => l[a].index \in N
    /\ \A a, b \in 1 .. Len(l) :
        l[a].type = "spent" /\ l[b].type = "spent" /\ l[a].index = l[b].index => a = b

\* SpentOnce is not inductive alone: the handler looks at nullifier accounts, not
\* at the log, so the two have to be tied together.
SpendInv == OnceIn(log, nullifiers)

-----------------------------------------------------------------------------
\* The events a proof's spends add are as many as its inputs.
LEMMA SpentEventsType ==
    ASSUME NEW p \in ProofRecords
    PROVE  /\ SpentEvents(p) \in Seq(Events)
           /\ Len(SpentEvents(p)) = Len(p.ins)
           /\ \A k \in 1 .. Len(p.ins) : SpentEvents(p)[k].type = "spent" /\ SpentEvents(p)[k].index = p.ins[k]
  <1>1. p.ins \in Seq(1 .. Capacity) /\ Len(p.ins) \in Nat
    BY DEF ProofRecords
  <1>2. \A k \in 1 .. Len(p.ins) : p.ins[k] \in Nat
    BY <1>1, PoolAssumption
  <1>3. \A k \in 1 .. Len(p.ins) : NullifierSpent(p.ins[k]) \in Events
    BY <1>2 DEF Events
  <1>4. SpentEvents(p) \in [1 .. Len(p.ins) -> Events]
    BY <1>3 DEF SpentEvents
  <1>5. SpentEvents(p) \in Seq(Events) /\ Len(SpentEvents(p)) = Len(p.ins)
    BY <1>1, <1>4
  <1>6. \A k \in 1 .. Len(p.ins) : SpentEvents(p)[k] = NullifierSpent(p.ins[k])
    BY DEF SpentEvents
  <1>7. \A i : NullifierSpent(i).type = "spent" /\ NullifierSpent(i).index = i
    BY DEF NullifierSpent
  <1> QED
    BY <1>5, <1>6, <1>7

\* An event of another kind spends nothing.
LEMMA AppendQuiet ==
    ASSUME NEW l, NEW N, OnceIn(l, N), NEW e \in Events, e.type # "spent"
    PROVE  OnceIn(Append(l, e), N)
  <1>1. l \in Seq(Events) /\ Len(l) \in Nat
    BY DEF OnceIn
  <1>2. /\ Append(l, e) \in Seq(Events) /\ Len(Append(l, e)) = Len(l) + 1
        /\ \A a \in 1 .. Len(l) : Append(l, e)[a] = l[a]
        /\ Append(l, e)[Len(l) + 1] = e
    BY <1>1, AppendProperties
  <1>3. \A a \in 1 .. Len(l) + 1 : a \in 1 .. Len(l) \/ a = Len(l) + 1
    BY <1>1
  <1> QED
    BY <1>1, <1>2, <1>3 DEF OnceIn

\* Spending unspent notes, each of them once.
LEMMA ConcatSpends ==
    ASSUME NEW l, NEW N, OnceIn(l, N), NEW s \in Seq(Events), NEW M,
           \A k \in 1 .. Len(s) : s[k].index \in M /\ s[k].index \notin N,
           \A j, k \in 1 .. Len(s) : s[j].index = s[k].index => j = k
    PROVE  OnceIn(l \o s, N \union M)
  <1> DEFINE c == l \o s
             n == Len(l)
  <1>1. l \in Seq(Events) /\ n \in Nat /\ Len(s) \in Nat
    BY DEF OnceIn
  <1>2. c \in Seq(Events) /\ Len(c) = n + Len(s)
    BY <1>1, ConcatProperties
  <1>3. \A a \in 1 .. n + Len(s) : c[a] = IF a <= n THEN l[a] ELSE s[a - n]
    BY <1>1, ConcatProperties
  <1>4. \A a \in 1 .. n + Len(s) :
            \/ a \in 1 .. n /\ c[a] = l[a]
            \/ a \notin 1 .. n /\ a - n \in 1 .. Len(s) /\ c[a] = s[a - n]
    BY <1>1, <1>3
  <1>5. \A a \in 1 .. n : l[a].type = "spent" => l[a].index \in N
    BY DEF OnceIn
  <1>6. \A a \in 1 .. n + Len(s) : c[a].type = "spent" => c[a].index \in N \union M
    BY <1>4, <1>5
  <1>7. ASSUME NEW a \in 1 .. n + Len(s), NEW b \in 1 .. n + Len(s),
               c[a].type = "spent", c[b].type = "spent", c[a].index = c[b].index
        PROVE  a = b
    <2>1. CASE a \in 1 .. n /\ b \in 1 .. n
      <3>1. c[a] = l[a] /\ c[b] = l[b]
        BY <1>4, <2>1
      <3> QED
        BY <1>7, <2>1, <3>1 DEF OnceIn
    <2>2. CASE a \in 1 .. n /\ b \notin 1 .. n
      BY <1>4, <1>5, <1>7, <2>2
    <2>3. CASE a \notin 1 .. n /\ b \in 1 .. n
      BY <1>4, <1>5, <1>7, <2>3
    <2>4. CASE a \notin 1 .. n /\ b \notin 1 .. n
      <3>1. a - n \in 1 .. Len(s) /\ b - n \in 1 .. Len(s) /\ s[a - n].index = s[b - n].index
        BY <1>4, <1>7, <2>4
      <3>2. a - n = b - n
        BY <3>1
      <3> QED
        BY <1>1, <3>2
    <2> QED
      BY <2>1, <2>2, <2>3, <2>4
  <1> QED
    BY <1>2, <1>6, <1>7 DEF OnceIn

-----------------------------------------------------------------------------
\* The events of inserted leaves are events.
LEMMA NoteEvent ==
    ASSUME NEW i \in Nat, NEW note \in NoteRecords
    PROVE  NoteInserted(i, note) \in Events /\ NoteInserted(i, note).type # "spent"
  BY DEF Events, NoteInserted

\* A landed spend logs its new leaves and then the nullifiers it created.
LEMMA SpendKeeps ==
    ASSUME IInv, SpendInv, NEW p \in proofs, NEW slot \in Slots, SpendChecks(p, slot),
           p.circuit \in Standard \union Multisig,
           Len(p.outs) = 1 => InsertOne(p),
           Len(p.outs) = 2 => InsertTwo(p)
    PROVE  SpendInv'
  <1>1. p \in ProofRecords /\ Len(p.ins) \in {1, 2} /\ Len(p.outs) \in {1, 2}
    BY SpendGrows
  <1>2. Len(leaves) \in Nat /\ \A k \in 1 .. Len(p.outs) : p.outs[k] \in NoteRecords
    BY <1>1 DEF IInv, TypeOK, ProofRecords
  <1> DEFINE n == Len(leaves)
             s == SpentEvents(p)
             M == {p.ins[k] : k \in DOMAIN p.ins}
  <1>3. DOMAIN p.ins = 1 .. Len(p.ins)
    BY <1>1 DEF ProofRecords
  <1>4. /\ ~Spent(p.ins[1])
        /\ Len(p.ins) = 2 => ~Spent(p.ins[2]) /\ p.ins[1] # p.ins[2]
        /\ nullifiers' = nullifiers \union M
    BY DEF SpendChecks, CreateNullifiers
  <1>5. s \in Seq(Events) /\ Len(s) = Len(p.ins) /\ \A k \in 1 .. Len(p.ins) : s[k].index = p.ins[k]
    BY <1>1, SpentEventsType
  <1>6. \A k \in 1 .. Len(s) : s[k].index \in M /\ s[k].index \notin nullifiers
    BY <1>1, <1>3, <1>4, <1>5 DEF Spent
  <1>7. \A j, k \in 1 .. Len(s) : s[j].index = s[k].index => j = k
    BY <1>1, <1>4, <1>5
  <1>8. \E l : OnceIn(l, nullifiers) /\ log' = l \o s
    <2>1. CASE Len(p.outs) = 1
      <3>1. log' = Append(log, NoteInserted(n, p.outs[1])) \o s
        BY <2>1 DEF InsertOne
      <3>2. OnceIn(Append(log, NoteInserted(n, p.outs[1])), nullifiers)
        BY <1>2, <2>1, NoteEvent, AppendQuiet DEF SpendInv
      <3> QED
        BY <3>1, <3>2
    <2>2. CASE Len(p.outs) = 2
      <3>1. log' = Append(Append(log, NoteInserted(n, p.outs[1])), NoteInserted(n + 1, p.outs[2])) \o s
        BY <2>2 DEF InsertTwo
      <3>2. n \in Nat /\ n + 1 \in Nat /\ p.outs[1] \in NoteRecords /\ p.outs[2] \in NoteRecords
        BY <1>2, <2>2
      <3>3. OnceIn(Append(log, NoteInserted(n, p.outs[1])), nullifiers)
        BY <3>2, NoteEvent, AppendQuiet DEF SpendInv
      <3>4. OnceIn(Append(Append(log, NoteInserted(n, p.outs[1])), NoteInserted(n + 1, p.outs[2])), nullifiers)
        BY <3>2, <3>3, NoteEvent, AppendQuiet
      <3> QED
        BY <3>1, <3>4
    <2> QED
      BY <1>1, <2>1, <2>2
  <1>9. PICK l : OnceIn(l, nullifiers) /\ log' = l \o s
    BY <1>8
  <1> HIDE DEF s, M
  <1>10. OnceIn(l \o s, nullifiers \union M)
    BY <1>5, <1>6, <1>7, <1>9, ConcatSpends
  <1> QED
    BY <1>4, <1>9, <1>10 DEF SpendInv

\* A deposit logs a leaf and no nullifier.
LEMMA DepositKeeps ==
    ASSUME IInv, SpendInv, NEW p \in proofs, NEW mint \in Mints, NEW amount \in Amounts,
           Deposit(p, mint, amount)
    PROVE  SpendInv'
  <1>1. p \in ProofRecords /\ SoundDeposit(p)
    BY DEF IInv, TypeOK, ProofsSound, ProofSound, Deposit
  <1>2. Len(leaves) \in Nat /\ p.outs[1] \in NoteRecords /\ Len(p.ins) = 0
    BY <1>1 DEF IInv, TypeOK, ProofRecords, SoundDeposit
  <1> DEFINE e == NoteInserted(Len(leaves), p.outs[1])
  <1>3. log' = Append(log, e) \o SpentEvents(p) /\ nullifiers' = nullifiers
    BY DEF Deposit, InsertOne
  <1>4. OnceIn(Append(log, e), nullifiers)
    BY <1>2, NoteEvent, AppendQuiet DEF SpendInv
  <1>5. SpentEvents(p) \in Seq(Events) /\ Len(SpentEvents(p)) = 0
    BY <1>1, <1>2, SpentEventsType
  <1>6. OnceIn(Append(log, e) \o SpentEvents(p), nullifiers \union {})
    BY <1>4, <1>5, ConcatSpends
  <1> QED
    BY <1>3, <1>6 DEF SpendInv

\* initialize logs the genesis leaf; a rotation logs the new key.
LEMMA AdminKeeps ==
    ASSUME IInv, SpendInv, Admin
    PROVE  SpendInv'
  <1> USE DEF treeVars
  <1>1. ASSUME NEW signer \in Signers, Initialize(signer) PROVE SpendInv'
    <2>1. GenesisNote \in NoteRecords
      BY PoolAssumption DEF GenesisNote, Note, NoteRecords, NoParents, Amounts
    <2>2. NoteInserted(0, GenesisNote) \in Events /\ NoteInserted(0, GenesisNote).type # "spent"
      BY <2>1, NoteEvent
    <2>3. log' = Append(<< >>, NoteInserted(0, GenesisNote)) /\ nullifiers' = nullifiers
      BY <1>1 DEF Initialize
    <2>4. OnceIn(<< >>, nullifiers)
      BY DEF OnceIn
    <2> QED
      BY <2>2, <2>3, <2>4, AppendQuiet DEF SpendInv
  <1>2. ASSUME NEW signer \in Signers, NEW key \in ComplianceKeys, RotateComplianceKey(signer, key)
        PROVE  SpendInv'
    <2>1. complianceVersion + 1 \in Nat
      BY PoolAssumption DEF IInv, TypeOK
    <2>2. /\ ComplianceKeyRotated(complianceVersion + 1, key) \in Events
          /\ ComplianceKeyRotated(complianceVersion + 1, key).type # "spent"
      BY <2>1 DEF Events, ComplianceKeyRotated
    <2>3. log' = Append(log, ComplianceKeyRotated(complianceVersion + 1, key)) /\ nullifiers' = nullifiers
      BY <1>2 DEF RotateComplianceKey
    <2> QED
      BY <2>2, <2>3, AppendQuiet DEF SpendInv
  <1>3. ASSUME NEW signer \in Signers, NEW c \in Circuits, NEW program \in Programs \union {None},
               SetVerifier(signer, c, program)
        PROVE  SpendInv'
    BY <1>3 DEF SetVerifier, SpendInv, OnceIn
  <1>4. ASSUME NEW signer \in Signers, NEW value \in PauseValues, SetPaused(signer, value)
        PROVE  SpendInv'
    BY <1>4 DEF SetPaused, SpendInv, OnceIn
  <1> QED
    BY <1>1, <1>2, <1>3, <1>4 DEF Admin

\* One case per kind of step.
LEMMA NextSpendInv == IInv /\ SpendInv /\ [Next]_vars => SpendInv'
  <1> SUFFICES ASSUME IInv, SpendInv, [Next]_vars PROVE SpendInv'
    OBVIOUS
  <1>1. CASE Admin
    BY <1>1, AdminKeeps
  <1>2. CASE Prove
    <2>1. log' = log /\ nullifiers' = nullifiers
      BY <1>2, ProveFrame DEF treeVars
    <2> QED
      BY <2>1 DEF SpendInv, OnceIn
  <1>3. ASSUME NEW p \in proofs, NEW mint \in Mints, NEW amount \in Amounts, Deposit(p, mint, amount)
        PROVE  SpendInv'
    BY <1>3, DepositKeeps
  <1>4. ASSUME NEW p \in proofs, NEW slot \in Slots,
               TransferLike(p, slot) \/ SplitMultisig(p, slot) \/ JoinMultisig(p, slot)
        PROVE  SpendInv'
    <2>1. ProofSound(p)
      BY DEF IInv, ProofsSound
    <2>2. SpendChecks(p, slot) /\ p.circuit \in Standard \union Multisig
      BY <1>4 DEF TransferLike, SplitMultisig, JoinMultisig, Standard, Multisig
    <2>3. (Len(p.outs) = 1 => InsertOne(p)) /\ (Len(p.outs) = 2 => InsertTwo(p))
      BY <1>4, <2>1 DEF TransferLike, SplitMultisig, JoinMultisig, ProofSound, SoundTwoOut, SoundJoin
    <2> QED
      BY <2>2, <2>3, SpendKeeps
  <1>5. ASSUME NEW p \in proofs, NEW slot \in Slots, NEW mint \in Mints, NEW amount \in Amounts,
               WithdrawLike(p, slot, mint, amount)
        PROVE  SpendInv'
    <2>1. ProofSound(p)
      BY DEF IInv, ProofsSound
    <2>2. SpendChecks(p, slot) /\ p.circuit \in Standard \union Multisig
      BY <1>5 DEF WithdrawLike, Standard, Multisig
    <2>3. (Len(p.outs) = 1 => InsertOne(p)) /\ (Len(p.outs) = 2 => InsertTwo(p))
      BY <1>5, <2>1 DEF WithdrawLike, ProofSound, SoundWithdraw
    <2> QED
      BY <2>2, <2>3, SpendKeeps
  <1>6. CASE Submit
    BY <1>3, <1>4, <1>5, <1>6 DEF Submit
  <1>7. CASE \E p \in proofs : Forget(p)
    BY <1>7 DEF Forget, treeVars, SpendInv, OnceIn
  <1>8. CASE \E mint \in DonatedMints : Donate(mint)
    BY <1>8 DEF Donate, treeVars, SpendInv, OnceIn
  <1>9. CASE UNCHANGED vars
    BY <1>9 DEF vars, treeVars, SpendInv, OnceIn
  <1> QED
    BY <1>1, <1>2, <1>6, <1>7, <1>8, <1>9 DEF Next

\* A note is nullified at most once, for every number of proofs and of submissions.
THEOREM PoolSpentOnce == Spec => []SpentOnce
  <1>1. Init => SpendInv
    BY DEF Init, SpendInv, OnceIn
  <1>2. SpendInv => SpentOnce
    <2> SUFFICES ASSUME SpendInv PROVE SpentOnce
      OBVIOUS
    <2>1. DOMAIN log = 1 .. Len(log)
      BY DEF SpendInv, OnceIn
    <2> QED
      BY <2>1 DEF SpendInv, OnceIn, SpentOnce
  <1> QED
    BY <1>1, <1>2, NextSpendInv, SpecIInv, PTL DEF Spec

-----------------------------------------------------------------------------
(* The log reproduces the pool and names the key of each note              *)

\* The compliance key that the first k events of a log l leave in force.
InForce(l, k, key) ==
    \/ key = InitialKey /\ \A j \in 1 .. k : l[j].type # "rotated"
    \/ \E j \in 1 .. k : /\ l[j].type = "rotated" /\ l[j].cpk = key
                         /\ \A h \in 1 .. k : l[h].type = "rotated" => h <= j

Keyed(l, key) ==
    /\ InForce(l, Len(l), key)
    /\ \A k \in 1 .. Len(l) : l[k].type = "note" /\ l[k].index > 0 => InForce(l, k, l[k].note.cpk)

NotesIn(l, k) == {j \in 1 .. k : l[j].type = "note"}
SpentIn(l) == {l[k].index : k \in {j \in 1 .. Len(l) : l[j].type = "spent"}}

Replays(l, L, N) ==
    /\ Cardinality(NotesIn(l, Len(l))) = Len(L)
    /\ \A k \in NotesIn(l, Len(l)) :
        l[k] = NoteInserted(Cardinality(NotesIn(l, k)) - 1, L[Cardinality(NotesIn(l, k))])
    /\ SpentIn(l) = N

LogFaithful(l, L, N, key) ==
    l \in Seq(Events) /\ L \in Seq(NoteRecords) /\ Keyed(l, key) /\ Replays(l, L, N)

\* Auditable needs more than the log: the key in force is the pool's own, and a
\* proof's outputs are encrypted to the key the proof was made with.
KeyedProofs == \A p \in proofs : \A k \in 1 .. Len(p.outs) : p.outs[k].cpk = p.cpk
LogInv ==
    /\ authority = None => log = << >> /\ leaves = << >> /\ nullifiers = {}
    /\ authority # None => LogFaithful(log, leaves, nullifiers, compliancePk)
    /\ KeyedProofs

\* The key in force after some events depends on those events only.
LEMMA InForceKept ==
    ASSUME NEW l, NEW m, NEW k \in Nat, NEW n \in Nat, n >= k, NEW key, InForce(l, k, key),
           \A j \in 1 .. k : m[j] = l[j],
           \A j \in 1 .. n : j \notin 1 .. k => m[j].type # "rotated"
    PROVE  InForce(m, n, key)
  <1>1. CASE key = InitialKey /\ \A j \in 1 .. k : l[j].type # "rotated"
    BY <1>1 DEF InForce
  <1>2. ASSUME NEW j \in 1 .. k, l[j].type = "rotated", l[j].cpk = key,
               \A h \in 1 .. k : l[h].type = "rotated" => h <= j
        PROVE  InForce(m, n, key)
    <2>1. j \in 1 .. n /\ m[j].type = "rotated" /\ m[j].cpk = key
      BY <1>2
    <2>2. \A h \in 1 .. n : m[h].type = "rotated" => h <= j
      BY <1>2
    <2> QED
      BY <2>1, <2>2 DEF InForce
  <1> QED
    BY <1>1, <1>2 DEF InForce

LEMMA NotesInFinite ==
    ASSUME NEW l, NEW k \in Nat
    PROVE  IsFiniteSet(NotesIn(l, k)) /\ Cardinality(NotesIn(l, k)) \in Nat
  <1>1. IsFiniteSet(1 .. k) /\ NotesIn(l, k) \subseteq 1 .. k
    BY FS_Interval DEF NotesIn
  <1> QED
    BY <1>1, FS_Subset, FS_CardinalityType

\* insert_and_emit: the next leaf and its event, to the key in force.
LEMMA NoteLogged ==
    ASSUME NEW l, NEW L, NEW N, NEW key, LogFaithful(l, L, N, key), NEW o \in NoteRecords,
           Len(L) > 0 => o.cpk = key
    PROVE  LogFaithful(Append(l, NoteInserted(Len(L), o)), Append(L, o), N, key)
  <1> DEFINE n == Len(l)
             e == NoteInserted(Len(L), o)
             m == Append(l, e)
             M == Append(L, o)
  <1>1. l \in Seq(Events) /\ L \in Seq(NoteRecords) /\ n \in Nat /\ Len(L) \in Nat
    BY DEF LogFaithful
  <1>2. e \in Events /\ e.type = "note" /\ e.index = Len(L) /\ e.note = o
    BY <1>1, NoteEvent DEF NoteInserted
  <1>3. /\ m \in Seq(Events) /\ Len(m) = n + 1 /\ m[n + 1] = e
        /\ \A a \in 1 .. n : m[a] = l[a]
    BY <1>1, <1>2, AppendProperties
  <1>4. /\ M \in Seq(NoteRecords) /\ Len(M) = Len(L) + 1 /\ M[Len(L) + 1] = o
        /\ \A a \in 1 .. Len(L) : M[a] = L[a]
    BY <1>1, AppendProperties
  <1>5. \A a \in 1 .. n + 1 : a \in 1 .. n \/ a = n + 1
    BY <1>1
  <1> HIDE DEF e, m, M
  <1>6. InForce(l, n, key) /\ \A k \in 1 .. n : l[k].type = "note" /\ l[k].index > 0 => InForce(l, k, l[k].note.cpk)
    BY DEF LogFaithful, Keyed
  <1>7. InForce(m, n + 1, key)
    <2>1. \A j \in 1 .. n + 1 : j \notin 1 .. n => m[j].type # "rotated"
      BY <1>2, <1>3, <1>5
    <2>2. n + 1 \in Nat /\ n + 1 >= n
      BY <1>1
    <2> HIDE DEF n
    <2> QED
      BY <1>1, <1>3, <1>6, <2>1, <2>2, InForceKept
  <1>8. ASSUME NEW k \in 1 .. n + 1, m[k].type = "note", m[k].index > 0 PROVE InForce(m, k, m[k].note.cpk)
    <2>1. CASE k = n + 1
      BY <1>1, <1>2, <1>3, <1>7, <1>8, <2>1
    <2>2. CASE k \in 1 .. n
      <3>1. m[k] = l[k] /\ InForce(l, k, m[k].note.cpk) /\ k \in Nat /\ k >= k
        BY <1>3, <1>6, <1>8, <2>2
      <3>2. \A j \in 1 .. k : m[j] = l[j]
        BY <1>3, <2>2
      <3> QED
        BY <3>1, <3>2, InForceKept
    <2> QED
      BY <1>5, <2>1, <2>2
  <1>9. Keyed(m, key)
    BY <1>3, <1>7, <1>8 DEF Keyed
  <1>10. /\ \A k \in 1 .. n : NotesIn(m, k) = NotesIn(l, k)
         /\ NotesIn(m, n + 1) = NotesIn(l, n) \cup {n + 1} /\ n + 1 \notin NotesIn(l, n)
    <2>1. ASSUME NEW k \in 1 .. n PROVE NotesIn(m, k) = NotesIn(l, k)
      <3>1. \A j \in 1 .. k : m[j] = l[j]
        BY <1>3
      <3> QED
        BY <3>1 DEF NotesIn
    <2>2. NotesIn(m, n + 1) = NotesIn(l, n) \cup {n + 1} /\ n + 1 \notin NotesIn(l, n)
      BY <1>1, <1>2, <1>3, <1>5 DEF NotesIn
    <2> QED
      BY <2>1, <2>2
  <1>11. /\ Cardinality(NotesIn(l, n)) = Len(L) /\ SpentIn(l) = N
         /\ \A k \in NotesIn(l, n) :
               l[k] = NoteInserted(Cardinality(NotesIn(l, k)) - 1, L[Cardinality(NotesIn(l, k))])
    BY DEF LogFaithful, Replays
  <1>12. Cardinality(NotesIn(m, n + 1)) = Len(L) + 1
    BY <1>1, <1>10, <1>11, NotesInFinite, FS_AddElement
  <1>13. ASSUME NEW k \in NotesIn(m, n + 1)
         PROVE  m[k] = NoteInserted(Cardinality(NotesIn(m, k)) - 1, M[Cardinality(NotesIn(m, k))])
    <2>1. CASE k = n + 1
      <3>1. Cardinality(NotesIn(m, k)) - 1 = Len(L) /\ M[Cardinality(NotesIn(m, k))] = o
        BY <1>1, <1>4, <1>12, <2>1
      <3> QED
        BY <1>3, <2>1, <3>1 DEF e
    <2>2. CASE k \in NotesIn(l, n)
      <3> DEFINE c == Cardinality(NotesIn(l, k))
      <3>1. k \in 1 .. n /\ NotesIn(m, k) = NotesIn(l, k) /\ m[k] = l[k]
        BY <1>3, <1>10, <2>2 DEF NotesIn
      <3>2. c \in 1 .. Len(L)
        <4>1. NotesIn(l, k) \subseteq NotesIn(l, n) /\ k \in NotesIn(l, k)
          BY <1>1, <2>2, <3>1 DEF NotesIn
        <4>2. IsFiniteSet(NotesIn(l, n)) /\ IsFiniteSet(NotesIn(l, k)) /\ c \in Nat
          BY <1>1, <3>1, NotesInFinite
        <4>3. c <= Len(L)
          BY <1>11, <4>1, <4>2, FS_Subset
        <4>4. c # 0
          BY <4>1, <4>2, FS_EmptySet
        <4> QED
          BY <1>1, <4>2, <4>3, <4>4
      <3>3. M[c] = L[c]
        BY <1>4, <3>2
      <3> HIDE DEF c
      <3>4. m[k] = NoteInserted(c - 1, L[c])
        BY <1>11, <2>2, <3>1 DEF c
      <3> QED
        BY <3>1, <3>3, <3>4 DEF c
    <2> QED
      BY <1>10, <2>1, <2>2
  <1>14. SpentIn(m) = SpentIn(l)
    <2>1. {j \in 1 .. Len(m) : m[j].type = "spent"} = {j \in 1 .. n : l[j].type = "spent"}
      BY <1>1, <1>2, <1>3, <1>5
    <2> QED
      BY <1>3, <2>1 DEF SpentIn
  <1>15. Replays(m, M, N)
    BY <1>3, <1>4, <1>11, <1>12, <1>13, <1>14 DEF Replays
  <1> QED
    BY <1>3, <1>4, <1>9, <1>15 DEF LogFaithful, m, M, e

\* An event that is no note leaves the notes where they are.
LEMMA NotesKept ==
    ASSUME NEW l \in Seq(Events), NEW m \in Seq(Events), Len(m) >= Len(l),
           \A a \in 1 .. Len(l) : m[a] = l[a],
           \A a \in 1 .. Len(m) : a \notin 1 .. Len(l) => m[a].type # "note",
           NEW L, NEW N, Replays(l, L, N)
    PROVE  /\ Cardinality(NotesIn(m, Len(m))) = Len(L)
           /\ \A k \in NotesIn(m, Len(m)) :
                 m[k] = NoteInserted(Cardinality(NotesIn(m, k)) - 1, L[Cardinality(NotesIn(m, k))])
  <1>1. Len(l) \in Nat /\ Len(m) \in Nat
    OBVIOUS
  <1>2. NotesIn(m, Len(m)) = NotesIn(l, Len(l))
    BY <1>1 DEF NotesIn
  <1>3. ASSUME NEW k \in NotesIn(l, Len(l)) PROVE NotesIn(m, k) = NotesIn(l, k) /\ m[k] = l[k]
    <2>1. k \in 1 .. Len(l) /\ \A j \in 1 .. k : m[j] = l[j]
      BY <1>1 DEF NotesIn
    <2> QED
      BY <2>1 DEF NotesIn
  <1> QED
    BY <1>2, <1>3 DEF Replays

\* The spent events of a landed proof add its nullifiers.
LEMMA SpendsLogged ==
    ASSUME NEW l, NEW L, NEW N, NEW key, LogFaithful(l, L, N, key), NEW s \in Seq(Events),
           \A k \in 1 .. Len(s) : s[k].type = "spent"
    PROVE  LogFaithful(l \o s, L, N \union {s[k].index : k \in 1 .. Len(s)}, key)
  <1> DEFINE n == Len(l)
             m == l \o s
             S == {s[k].index : k \in 1 .. Len(s)}
  <1>1. l \in Seq(Events) /\ L \in Seq(NoteRecords) /\ n \in Nat /\ Len(s) \in Nat /\ Replays(l, L, N)
    BY DEF LogFaithful
  <1>2. m \in Seq(Events) /\ Len(m) = n + Len(s)
    BY <1>1, ConcatProperties
  <1>3. \A a \in 1 .. n + Len(s) : m[a] = IF a <= n THEN l[a] ELSE s[a - n]
    BY <1>1, ConcatProperties
  <1>4. /\ \A a \in 1 .. n : m[a] = l[a]
        /\ \A a \in 1 .. n + Len(s) : a \notin 1 .. n => a - n \in 1 .. Len(s) /\ m[a] = s[a - n]
        /\ \A b \in 1 .. Len(s) : n + b \in 1 .. n + Len(s) /\ m[n + b] = s[b]
    BY <1>1, <1>3
  <1> HIDE DEF m, S
  <1>5. \A a \in 1 .. n + Len(s) : a \notin 1 .. n => m[a].type = "spent"
    BY <1>4
  <1>6. InForce(l, n, key) /\ \A k \in 1 .. n : l[k].type = "note" /\ l[k].index > 0 => InForce(l, k, l[k].note.cpk)
    BY DEF LogFaithful, Keyed
  <1>7. InForce(m, n + Len(s), key)
    <2>1. n + Len(s) \in Nat /\ n + Len(s) >= n
      BY <1>1
    <2> HIDE DEF n
    <2> QED
      BY <1>1, <1>4, <1>5, <1>6, <2>1, InForceKept
  <1>8. ASSUME NEW k \in 1 .. n + Len(s), m[k].type = "note", m[k].index > 0 PROVE InForce(m, k, m[k].note.cpk)
    <2>1. k \in 1 .. n
      BY <1>5, <1>8
    <2>2. m[k] = l[k] /\ InForce(l, k, m[k].note.cpk) /\ k \in Nat /\ k >= k
      BY <1>4, <1>6, <1>8, <2>1
    <2>3. \A j \in 1 .. k : m[j] = l[j]
      BY <1>4, <2>1
    <2> QED
      BY <2>2, <2>3, InForceKept
  <1>9. Keyed(m, key)
    BY <1>2, <1>7, <1>8 DEF Keyed
  <1>10. SpentIn(m) = SpentIn(l) \union S
    <2>1. ASSUME NEW x \in SpentIn(m) PROVE x \in SpentIn(l) \union S
      <3>1. PICK k \in 1 .. n + Len(s) : m[k].type = "spent" /\ x = m[k].index
        BY <1>2 DEF SpentIn
      <3>2. CASE k \in 1 .. n
        BY <1>4, <3>1, <3>2 DEF SpentIn
      <3>3. CASE k \notin 1 .. n
        BY <1>4, <3>1, <3>3 DEF S
      <3> QED
        BY <3>2, <3>3
    <2>2. ASSUME NEW x \in SpentIn(l) PROVE x \in SpentIn(m)
      <3>1. PICK k \in 1 .. n : l[k].type = "spent" /\ x = l[k].index
        BY DEF SpentIn
      <3>2. k \in 1 .. Len(m) /\ m[k] = l[k]
        BY <1>1, <1>2, <1>4
      <3> QED
        BY <3>1, <3>2 DEF SpentIn
    <2>3. ASSUME NEW x \in S PROVE x \in SpentIn(m)
      <3>1. PICK k \in 1 .. Len(s) : x = s[k].index
        BY DEF S
      <3>2. n + k \in 1 .. Len(m) /\ m[n + k] = s[k] /\ s[k].type = "spent"
        BY <1>2, <1>4
      <3> QED
        BY <3>1, <3>2 DEF SpentIn
    <2> QED
      BY <2>1, <2>2, <2>3
  <1>11. Replays(m, L, N \union S)
    <2>1. /\ Len(m) >= Len(l) /\ \A a \in 1 .. Len(l) : m[a] = l[a]
          /\ \A a \in 1 .. Len(m) : a \notin 1 .. Len(l) => m[a].type # "note"
      BY <1>1, <1>2, <1>4, <1>5
    <2>2. l \in Seq(Events) /\ m \in Seq(Events) /\ Replays(l, L, N)
      BY <1>1, <1>2
    <2>3. /\ Cardinality(NotesIn(m, Len(m))) = Len(L)
          /\ \A k \in NotesIn(m, Len(m)) :
                m[k] = NoteInserted(Cardinality(NotesIn(m, k)) - 1, L[Cardinality(NotesIn(m, k))])
      BY <2>1, <2>2, NotesKept
    <2> QED
      BY <1>1, <1>10, <2>3 DEF Replays
  <1> QED
    BY <1>1, <1>2, <1>9, <1>11 DEF LogFaithful, m, S

\* A rotation puts its key in force.
LEMMA RotationLogged ==
    ASSUME NEW l, NEW L, NEW N, NEW key, LogFaithful(l, L, N, key), NEW v \in Nat, NEW new \in ComplianceKeys
    PROVE  LogFaithful(Append(l, ComplianceKeyRotated(v, new)), L, N, new)
  <1> DEFINE n == Len(l)
             e == ComplianceKeyRotated(v, new)
             m == Append(l, e)
  <1>1. l \in Seq(Events) /\ L \in Seq(NoteRecords) /\ n \in Nat /\ Replays(l, L, N)
    BY DEF LogFaithful
  <1>2. e \in Events /\ e.type = "rotated" /\ e.cpk = new
    BY DEF Events, ComplianceKeyRotated
  <1>3. /\ m \in Seq(Events) /\ Len(m) = n + 1 /\ m[n + 1] = e
        /\ \A a \in 1 .. n : m[a] = l[a]
    BY <1>1, <1>2, AppendProperties
  <1>4. \A a \in 1 .. n + 1 : a \in 1 .. n \/ a = n + 1
    BY <1>1
  <1> HIDE DEF e, m
  <1>5. InForce(m, n + 1, new)
    BY <1>1, <1>2, <1>3 DEF InForce
  <1>6. ASSUME NEW k \in 1 .. n + 1, m[k].type = "note", m[k].index > 0 PROVE InForce(m, k, m[k].note.cpk)
    <2>1. k \in 1 .. n
      BY <1>2, <1>3, <1>4, <1>6
    <2>2. m[k] = l[k] /\ InForce(l, k, m[k].note.cpk) /\ k \in Nat /\ k >= k
      BY <1>3, <1>6, <2>1 DEF LogFaithful, Keyed
    <2>3. \A j \in 1 .. k : m[j] = l[j]
      BY <1>3, <2>1
    <2> QED
      BY <2>2, <2>3, InForceKept
  <1>7. Keyed(m, new)
    BY <1>3, <1>5, <1>6 DEF Keyed
  <1>8. SpentIn(m) = SpentIn(l)
    <2>1. {j \in 1 .. Len(m) : m[j].type = "spent"} = {j \in 1 .. n : l[j].type = "spent"}
      BY <1>1, <1>2, <1>3, <1>4
    <2> QED
      BY <1>3, <2>1 DEF SpentIn
  <1>9. Replays(m, L, N)
    <2>1. Len(m) >= n /\ \A a \in 1 .. Len(m) : a \notin 1 .. n => m[a].type # "note"
      BY <1>1, <1>2, <1>3, <1>4
    <2>2. /\ Cardinality(NotesIn(m, Len(m))) = Len(L)
          /\ \A k \in NotesIn(m, Len(m)) :
                m[k] = NoteInserted(Cardinality(NotesIn(m, k)) - 1, L[Cardinality(NotesIn(m, k))])
      BY <1>1, <1>3, <2>1, NotesKept
    <2> QED
      BY <1>1, <1>8, <2>2 DEF Replays
  <1> QED
    BY <1>1, <1>3, <1>7, <1>9 DEF LogFaithful, m, e

-----------------------------------------------------------------------------
\* A proof is made with the pool's key, and so are its outputs.
LEMMA ProveKeyed ==
    ASSUME IInv, LogInv, Prove PROVE LogInv'
  <1>1. UNCHANGED <<adminVars, treeVars, log>>
    BY ProveFrame
  <1>2. ASSUME NEW c, NEW root, NEW ins, NEW outs, NEW asset, NEW value,
               MakeProof(c, root, ins, outs, asset, value),
               \A k \in 1 .. Len(outs) : outs[k].cpk = compliancePk
        PROVE  KeyedProofs'
    <2> DEFINE p == [circuit |-> c, program |-> verifiers[c], cpk |-> compliancePk,
                     root |-> root, ins |-> ins, outs |-> outs, asset |-> asset, value |-> value]
    <2>1. proofs' = proofs \union {p}
      BY <1>2 DEF MakeProof
    <2>2. \A k \in 1 .. Len(p.outs) : p.outs[k].cpk = p.cpk
      BY <1>2
    <2> HIDE DEF p
    <2> QED
      BY <2>1, <2>2 DEF LogInv, KeyedProofs
  <1>3. \A a, v, o, q : Note(a, v, o, q, compliancePk).cpk = compliancePk
    BY DEF Note
  <1>4. ASSUME NEW x, x.cpk = compliancePk PROVE \A k \in 1 .. Len(<<x>>) : <<x>>[k].cpk = compliancePk
    BY <1>4
  <1>5. ASSUME NEW x, NEW y, x.cpk = compliancePk, y.cpk = compliancePk
        PROVE  \A k \in 1 .. Len(<<x, y>>) : <<x, y>>[k].cpk = compliancePk
    BY <1>5
  <1>6. ASSUME ProveDeposit PROVE KeyedProofs'
    BY <1>2, <1>3, <1>4, <1>6 DEF ProveDeposit
  <1>7. ASSUME NEW c, ProveTransfer(c) PROVE KeyedProofs'
    BY <1>2, <1>3, <1>5, <1>7 DEF ProveTransfer
  <1>8. ASSUME ProveSplit PROVE KeyedProofs'
    BY <1>2, <1>3, <1>5, <1>8 DEF ProveSplit
  <1>9. ASSUME ProveJoin PROVE KeyedProofs'
    BY <1>2, <1>3, <1>4, <1>9 DEF ProveJoin
  <1>10. ASSUME NEW c, ProveWithdraw(c) PROVE KeyedProofs'
    BY <1>2, <1>3, <1>4, <1>10 DEF ProveWithdraw
  <1>11. KeyedProofs'
    BY <1>6, <1>7, <1>8, <1>9, <1>10 DEF Prove
  <1> QED
    BY <1>1, <1>11 DEF LogInv, adminVars, treeVars

\* What the handlers log, whichever of them it is: the outputs, then the inputs.
LEMMA LandedLog ==
    ASSUME IInv, LogInv, NEW p \in proofs, authority # None, VerifyCpi(p), Len(p.outs) \in {1, 2},
           Len(p.outs) = 1 => InsertOne(p),
           Len(p.outs) = 2 => InsertTwo(p),
           nullifiers' = nullifiers \union {p.ins[k] : k \in 1 .. Len(p.ins)},
           UNCHANGED <<adminVars, proofs>>
    PROVE  LogInv'
  <1>1. p \in ProofRecords /\ leaves \in Seq(NoteRecords) /\ leaves # << >>
    BY DEF IInv, TypeOK, Initialized
  <1>2. Len(leaves) \in Nat /\ Len(leaves) > 0 /\ \A k \in 1 .. Len(p.outs) : p.outs[k] \in NoteRecords
    BY <1>1 DEF ProofRecords
  <1>3. \A k \in 1 .. Len(p.outs) : p.outs[k].cpk = compliancePk
    BY DEF LogInv, KeyedProofs, VerifyCpi
  <1> DEFINE s == SpentEvents(p)
             n == Len(leaves)
             F(l, L) == LogFaithful(l, L, nullifiers, compliancePk)
  <1>4. /\ s \in Seq(Events) /\ Len(s) = Len(p.ins)
        /\ \A k \in 1 .. Len(s) : s[k].type = "spent" /\ s[k].index = p.ins[k]
    BY <1>1, SpentEventsType
  <1>5. F(log, leaves)
    BY DEF LogInv
  <1>6. \E l : F(l, leaves') /\ log' = l \o s
    <2>1. p.outs[1] \in NoteRecords /\ p.outs[1].cpk = compliancePk
      BY <1>2, <1>3
    <2> DEFINE l1 == Append(log, NoteInserted(n, p.outs[1]))
               L1 == Append(leaves, p.outs[1])
    <2>2. F(l1, L1)
      BY <1>5, <2>1, NoteLogged
    <2>3. CASE Len(p.outs) = 1
      BY <2>2, <2>3 DEF InsertOne
    <2>4. CASE Len(p.outs) = 2
      <3>1. p.outs[2] \in NoteRecords /\ p.outs[2].cpk = compliancePk
        BY <1>2, <1>3, <2>4
      <3>2. Len(L1) = n + 1
        BY <1>1, <2>1, AppendProperties
      <3>3. /\ leaves' = Append(L1, p.outs[2])
            /\ log' = Append(l1, NoteInserted(n + 1, p.outs[2])) \o s
        BY <2>4 DEF InsertTwo
      <3> HIDE DEF l1, L1
      <3>4. F(Append(l1, NoteInserted(Len(L1), p.outs[2])), Append(L1, p.outs[2]))
        BY <2>2, <3>1, NoteLogged
      <3> QED
        BY <3>2, <3>3, <3>4
    <2> QED
      BY <2>3, <2>4
  <1>7. PICK l : F(l, leaves') /\ log' = l \o s
    BY <1>6
  <1> HIDE DEF s
  <1>8. LogFaithful(l \o s, leaves', nullifiers \union {s[k].index : k \in 1 .. Len(s)}, compliancePk)
    BY <1>4, <1>7, SpendsLogged
  <1>9. {s[k].index : k \in 1 .. Len(s)} = {p.ins[k] : k \in 1 .. Len(p.ins)}
    BY <1>4
  <1>10. LogFaithful(log', leaves', nullifiers', compliancePk)
    BY <1>7, <1>8, <1>9
  <1> QED
    BY <1>10 DEF LogInv, KeyedProofs, adminVars

LEMMA AdminLog ==
    ASSUME IInv, LogInv, Admin PROVE LogInv'
  <1> USE DEF treeVars
  <1>0. UNCHANGED proofs
    BY DEF Admin, Initialize, SetVerifier, RotateComplianceKey, SetPaused
  <1>1. ASSUME NEW signer \in Signers, Initialize(signer) PROVE LogInv'
    <2>1. GenesisNote \in NoteRecords
      BY PoolAssumption DEF GenesisNote, Note, NoteRecords, NoParents, Amounts
    <2>2. LogFaithful(<< >>, << >>, {}, InitialKey)
      <3>1. NotesIn(<< >>, 0) = {} /\ SpentIn(<< >>) = {} /\ Cardinality({}) = 0
        BY FS_EmptySet DEF NotesIn, SpentIn
      <3>2. Keyed(<< >>, InitialKey)
        BY DEF Keyed, InForce
      <3>3. Len(<< >>) = 0 /\ << >> \in Seq(Events) /\ << >> \in Seq(NoteRecords)
        OBVIOUS
      <3>4. Replays(<< >>, << >>, {})
        BY <3>1, <3>3 DEF Replays
      <3> QED
        BY <3>2, <3>3, <3>4 DEF LogFaithful
    <2>3. LogFaithful(Append(<< >>, NoteInserted(0, GenesisNote)), Append(<< >>, GenesisNote), {}, InitialKey)
      <3>1. Len(<< >>) = 0 /\ (Len(<< >>) > 0 => GenesisNote.cpk = InitialKey)
        OBVIOUS
      <3>2. LogFaithful(Append(<< >>, NoteInserted(Len(<< >>), GenesisNote)), Append(<< >>, GenesisNote), {}, InitialKey)
        BY <2>1, <2>2, <3>1, NoteLogged
      <3> QED
        BY <3>1, <3>2
    <2>4. /\ log' = Append(<< >>, NoteInserted(0, GenesisNote)) /\ leaves' = Append(<< >>, GenesisNote)
          /\ nullifiers' = {} /\ compliancePk' = InitialKey /\ authority' # None
      BY <1>1, PoolAssumption DEF Initialize, LogInv
    <2> QED
      BY <1>0, <2>3, <2>4 DEF LogInv, KeyedProofs
  <1>2. ASSUME NEW signer \in Signers, NEW key \in ComplianceKeys, RotateComplianceKey(signer, key)
        PROVE  LogInv'
    <2>1. complianceVersion + 1 \in Nat
      BY PoolAssumption DEF IInv, TypeOK
    <2>2. authority # None /\ LogFaithful(log, leaves, nullifiers, compliancePk)
      BY <1>2 DEF RotateComplianceKey, IsAuthority, LogInv
    <2>3. LogFaithful(Append(log, ComplianceKeyRotated(complianceVersion + 1, key)), leaves, nullifiers, key)
      BY <2>1, <2>2, RotationLogged
    <2> QED
      BY <1>0, <1>2, <2>2, <2>3 DEF RotateComplianceKey, LogInv, KeyedProofs
  <1>3. ASSUME NEW signer \in Signers, NEW c \in Circuits, NEW program \in Programs \union {None},
               SetVerifier(signer, c, program)
        PROVE  LogInv'
    BY <1>3 DEF SetVerifier, LogInv, KeyedProofs
  <1>4. ASSUME NEW signer \in Signers, NEW value \in PauseValues, SetPaused(signer, value)
        PROVE  LogInv'
    BY <1>4 DEF SetPaused, LogInv, KeyedProofs
  <1> QED
    BY <1>1, <1>2, <1>3, <1>4 DEF Admin

LEMMA SubmitLog ==
    ASSUME IInv, LogInv, Submit PROVE LogInv'
  <1>1. ASSUME NEW p \in proofs, NEW mint \in Mints, NEW amount \in Amounts, Deposit(p, mint, amount)
        PROVE  LogInv'
    <2>1. SoundDeposit(p)
      BY <1>1 DEF IInv, ProofsSound, ProofSound, Deposit
    <2>2. Len(p.outs) = 1 /\ {p.ins[k] : k \in 1 .. Len(p.ins)} = {}
      BY <2>1 DEF SoundDeposit
    <2>3. nullifiers' = nullifiers \union {p.ins[k] : k \in 1 .. Len(p.ins)}
      BY <1>1, <2>2 DEF Deposit
    <2> QED
      BY <1>1, <2>2, <2>3, LandedLog DEF Deposit
  <1>2. ASSUME NEW p \in proofs, NEW slot \in Slots, SpendChecks(p, slot),
               \/ SoundTwoOut(p) /\ InsertTwo(p)
               \/ SoundJoin(p) /\ InsertOne(p)
               \/ SoundWithdraw(p) /\ InsertOne(p),
               UNCHANGED <<adminVars, proofs>>
        PROVE  LogInv'
    <2>1. DOMAIN p.ins = 1 .. Len(p.ins)
      BY DEF IInv, TypeOK, ProofRecords
    <2>2. nullifiers' = nullifiers \union {p.ins[k] : k \in 1 .. Len(p.ins)}
      BY <1>2, <2>1 DEF SpendChecks, CreateNullifiers
    <2>3. Len(p.outs) \in {1, 2} /\ (Len(p.outs) = 1 => InsertOne(p)) /\ (Len(p.outs) = 2 => InsertTwo(p))
      BY <1>2 DEF SoundTwoOut, SoundJoin, SoundWithdraw
    <2>4. authority # None /\ VerifyCpi(p)
      BY <1>2 DEF SpendChecks
    <2> QED
      BY <1>2, <2>2, <2>3, <2>4, LandedLog
  <1>3. ASSUME NEW p \in proofs, NEW slot \in Slots,
               TransferLike(p, slot) \/ SplitMultisig(p, slot) \/ JoinMultisig(p, slot)
        PROVE  LogInv'
    <2>1. ProofSound(p)
      BY DEF IInv, ProofsSound
    <2>2. CASE TransferLike(p, slot) \/ SplitMultisig(p, slot)
      <3>1. SoundTwoOut(p) /\ InsertTwo(p) /\ SpendChecks(p, slot) /\ UNCHANGED <<adminVars, proofs>>
        BY <2>1, <2>2 DEF TransferLike, SplitMultisig, ProofSound
      <3> QED
        BY <1>2, <3>1
    <2>3. CASE JoinMultisig(p, slot)
      <3>1. SoundJoin(p) /\ InsertOne(p) /\ SpendChecks(p, slot) /\ UNCHANGED <<adminVars, proofs>>
        BY <2>1, <2>3 DEF JoinMultisig, ProofSound
      <3> QED
        BY <1>2, <3>1
    <2> QED
      BY <1>3, <2>2, <2>3
  <1>4. ASSUME NEW p \in proofs, NEW slot \in Slots, NEW mint \in Mints, NEW amount \in Amounts,
               WithdrawLike(p, slot, mint, amount)
        PROVE  LogInv'
    <2>1. ProofSound(p)
      BY DEF IInv, ProofsSound
    <2> QED
      BY <1>2, <1>4, <2>1 DEF WithdrawLike, ProofSound
  <1> QED
    BY <1>1, <1>3, <1>4 DEF Submit

LEMMA NextLogInv == IInv /\ LogInv /\ [Next]_vars => LogInv'
  <1> SUFFICES ASSUME IInv, LogInv, [Next]_vars PROVE LogInv'
    OBVIOUS
  <1>1. CASE \E p \in proofs : Forget(p)
    BY <1>1 DEF Forget, LogInv, KeyedProofs, adminVars, treeVars
  <1>2. CASE \E mint \in DonatedMints : Donate(mint)
    BY <1>2 DEF Donate, LogInv, KeyedProofs, adminVars, treeVars
  <1>3. CASE UNCHANGED vars
    BY <1>3 DEF vars, LogInv, KeyedProofs, adminVars, treeVars
  <1> QED
    BY <1>1, <1>2, <1>3, AdminLog, ProveKeyed, SubmitLog DEF Next

LEMMA SpecLogInv == Spec => []LogInv
  <1>1. Init => LogInv
    BY DEF Init, LogInv, KeyedProofs
  <1> QED
    BY <1>1, NextLogInv, SpecIInv, PTL DEF Spec

\* The event log reproduces the leaves, in order, and the nullifiers, for every
\* number of leaves, proofs and rotations: what the indexer builds from it is the
\* pool's state (processor.rs, insert_and_emit and create_nullifier).
THEOREM PoolLogReplays == Spec => []LogReplays
  <1>1. LogInv => LogReplays
    <2> SUFFICES ASSUME LogInv PROVE LogReplays
      OBVIOUS
    <2>1. \A k : NotesUpTo(k) = NotesIn(log, k)
      BY DEF NotesUpTo, NotesIn
    <2>2. CASE authority # None
      <3>1. log \in Seq(Events) /\ Replays(log, leaves, nullifiers)
        BY <2>2 DEF LogInv, LogFaithful
      <3>2. DOMAIN log = 1 .. Len(log)
        BY <3>1
      <3> QED
        BY <2>1, <3>1, <3>2 DEF LogReplays, Replays, SpentIn
    <2>3. CASE authority = None
      <3>1. log = << >> /\ leaves = << >> /\ nullifiers = {}
        BY <2>3 DEF LogInv
      <3>2. Len(log) = 0 /\ Len(leaves) = 0 /\ DOMAIN log = {}
        BY <3>1
      <3>3. NotesUpTo(Len(log)) = {} /\ Cardinality({}) = 0
        BY <3>2, FS_EmptySet DEF NotesUpTo
      <3>4. {log[k].index : k \in {j \in DOMAIN log : log[j].type = "spent"}} = {}
        BY <3>2
      <3> QED
        BY <3>1, <3>2, <3>3, <3>4 DEF LogReplays
    <2> QED
      BY <2>2, <2>3
  <1> QED
    BY <1>1, SpecLogInv, PTL

\* Every note in the log is encrypted to the compliance key in force at its place,
\* however proofs and rotations are interleaved (processor.rs, verify_cpi injects
\* the pool's own key).
THEOREM PoolAuditable == Spec => []Auditable
  <1>1. ASSUME NEW k \in 1 .. Len(log), log \in Seq(Events), NEW key, InForce(log, k, key) PROVE KeyInForce(k) = key
    <2> DEFINE R == {j \in 1 .. k : log[j].type = "rotated"}
    <2>1. CASE key = InitialKey /\ \A j \in 1 .. k : log[j].type # "rotated"
      <3>1. R = {}
        BY <2>1
      <3> QED
        BY <2>1, <3>1 DEF KeyInForce
    <2>2. ASSUME NEW j \in 1 .. k, log[j].type = "rotated", log[j].cpk = key,
                 \A h \in 1 .. k : log[h].type = "rotated" => h <= j
          PROVE  KeyInForce(k) = key
      <3>1. j \in R /\ \A h \in R : h <= j
        BY <2>2
      <3> DEFINE c == CHOOSE i \in R : \A h \in R : h <= i
      <3>2. c \in R /\ \A h \in R : h <= c
        BY <3>1
      <3>3. c = j
        BY <3>1, <3>2
      <3> QED
        BY <2>2, <3>1, <3>3 DEF KeyInForce
    <2> QED
      BY <1>1, <2>1, <2>2 DEF InForce
  <1>2. LogInv => Auditable
    <2> SUFFICES ASSUME LogInv, NEW k \in DOMAIN log, log[k].type = "note", log[k].index > 0
                 PROVE  log[k].note.cpk = KeyInForce(k)
      BY DEF Auditable
    <2>1. authority # None
      BY DEF LogInv
    <2>2. log \in Seq(Events) /\ Keyed(log, compliancePk)
      BY <2>1 DEF LogInv, LogFaithful
    <2>3. k \in 1 .. Len(log)
      BY <2>2
    <2>4. InForce(log, k, log[k].note.cpk)
      BY <2>2, <2>3 DEF Keyed
    <2> QED
      BY <1>1, <2>2, <2>3, <2>4
  <1> QED
    BY <1>2, SpecLogInv, PTL

-----------------------------------------------------------------------------
(* What the notes say of the spends that made them                         *)

\* The leaves that explicit parents name.
Sources(parents) == IF parents[2] = 0 THEN {parents[1]} ELSE {parents[1], parents[2]}

\* M is L with leaves appended.
Extends(L, M) ==
    /\ L \in Seq(NoteRecords) /\ M \in Seq(NoteRecords) /\ Len(L) <= Len(M)
    /\ \A i \in 1 .. Len(L) : M[i] = L[i]

\* The leaves s.outs of L were made by spending s.ins: each names those parents,
\* or hides them and is followed by one that names them; it carries no more value
\* than they do, their asset and, where it is not a payment, their group.
Made(L, s) ==
    /\ s.ins # {} /\ s.ins \subseteq 1 .. Len(L) - 1
    /\ s.outs # {} /\ s.outs \subseteq 1 .. Len(L) - 1
    /\ \A i \in s.outs :
        /\ L[i + 1].parents # NoParents
        /\ L[i + 1].parents = Hidden => i + 1 \in s.outs /\ L[i + 2].parents # Hidden
        /\ L[i + 1].parents # Hidden => Sources(L[i + 1].parents) = s.ins
        /\ L[i + 1].value <= Cardinality(UNION {UnitsOf(q, L[q + 1].value) : q \in s.ins})
        /\ \A q \in s.ins :
            /\ q < i
            /\ L[q + 1].asset = L[i + 1].asset
            /\ L[q + 1].owner \in Groups /\ L[i + 1].parents # Hidden => L[i + 1].owner = L[q + 1].owner

\* The spends S account for the leaves L and the nullifiers N.
Recorded(L, N, S) ==
    /\ \A s \in S : Made(L, s)
    /\ N = UNION {s.ins : s \in S}
    /\ \A i \in 1 .. Len(L) - 1 : L[i + 1].parents = NoParents \/ \E s \in S : i \in s.outs

\* What the circuits say of the parents of a proof's outputs, relative to the
\* leaves there are by now.
Inputs(p) == {p.ins[k] : k \in 1 .. Len(p.ins)}

Traced(p) ==
    IF p.circuit = "deposit" THEN p.outs[1].parents = NoParents
    ELSE \A k \in 1 .. Len(p.outs) :
        /\ p.outs[k].parents # NoParents
        /\ p.outs[k].parents = Hidden => k + 1 \in 1 .. Len(p.outs) /\ p.outs[k + 1].parents # Hidden
        /\ p.outs[k].parents # Hidden =>
            /\ Sources(p.outs[k].parents) = Inputs(p)
            /\ \A q \in Inputs(p) : NoteAt(q).owner \in Groups => p.outs[k].owner = NoteAt(q).owner

Spends == {landed[k] : k \in 1 .. Len(landed)}

SpendRecords == [ins : SUBSET Nat, outs : SUBSET Nat]

AuditInv ==
    /\ landed \in Seq(SpendRecords)
    /\ Recorded(leaves, nullifiers, Spends)
    /\ \A p \in proofs : Traced(p)

\* Leaves are only appended, so a spend made what it made.
LEMMA MadeKept ==
    ASSUME NEW L, NEW M, Extends(L, M), NEW s, Made(L, s)
    PROVE  Made(M, s)
  <1>1. Len(L) \in Nat /\ Len(M) \in Nat /\ Len(L) <= Len(M)
    BY DEF Extends
  <1>2. \A i \in 1 .. Len(L) - 1 : M[i + 1] = L[i + 1]
    BY <1>1 DEF Extends
  <1>3. s.ins # {} /\ s.outs # {} /\ s.ins \subseteq 1 .. Len(L) - 1 /\ s.outs \subseteq 1 .. Len(L) - 1
    BY DEF Made
  <1>4. s.ins \subseteq 1 .. Len(M) - 1 /\ s.outs \subseteq 1 .. Len(M) - 1
    BY <1>1, <1>3
  <1>5. {UnitsOf(q, M[q + 1].value) : q \in s.ins} = {UnitsOf(q, L[q + 1].value) : q \in s.ins}
    BY <1>2, <1>3
  <1>6. ASSUME NEW i \in s.outs
        PROVE  /\ M[i + 1].parents # NoParents
               /\ M[i + 1].parents = Hidden => i + 1 \in s.outs /\ M[i + 2].parents # Hidden
               /\ M[i + 1].parents # Hidden => Sources(M[i + 1].parents) = s.ins
               /\ M[i + 1].value <= Cardinality(UNION {UnitsOf(q, M[q + 1].value) : q \in s.ins})
               /\ \A q \in s.ins :
                   /\ q < i
                   /\ M[q + 1].asset = M[i + 1].asset
                   /\ M[q + 1].owner \in Groups /\ M[i + 1].parents # Hidden => M[i + 1].owner = M[q + 1].owner
    <2>1. M[i + 1] = L[i + 1] /\ \A q \in s.ins : M[q + 1] = L[q + 1]
      BY <1>2, <1>3
    <2>2. i + 1 \in s.outs => M[i + 2] = L[i + 2]
      <3>1. i + 1 \in s.outs => M[(i + 1) + 1] = L[(i + 1) + 1]
        BY <1>2, <1>3
      <3>2. (i + 1) + 1 = i + 2
        BY <1>1, <1>3
      <3> QED
        BY <3>1, <3>2
    <2>3. M[i + 1].value <= Cardinality(UNION {UnitsOf(q, M[q + 1].value) : q \in s.ins})
      BY <1>5, <2>1 DEF Made
    <2>4. /\ M[i + 1].parents # NoParents
          /\ M[i + 1].parents = Hidden => i + 1 \in s.outs /\ M[i + 2].parents # Hidden
          /\ M[i + 1].parents # Hidden => Sources(M[i + 1].parents) = s.ins
      BY <2>1, <2>2 DEF Made
    <2>5. ASSUME NEW q \in s.ins
          PROVE  /\ q < i
                 /\ M[q + 1].asset = M[i + 1].asset
                 /\ M[q + 1].owner \in Groups /\ M[i + 1].parents # Hidden => M[i + 1].owner = M[q + 1].owner
      <3>1. /\ q < i
            /\ L[q + 1].asset = L[i + 1].asset
            /\ L[q + 1].owner \in Groups /\ L[i + 1].parents # Hidden => L[i + 1].owner = L[q + 1].owner
        BY DEF Made
      <3>2. M[i + 1] = L[i + 1] /\ M[q + 1] = L[q + 1]
        BY <2>1
      <3> QED
        BY <3>1, <3>2
    <2> QED
      BY <2>3, <2>4, <2>5
  <1> QED
    BY <1>3, <1>4, <1>6 DEF Made

\* A deposit appends a leaf without parents.
LEMMA RecordedDeposit ==
    ASSUME NEW L, NEW M, Extends(L, M), NEW N, NEW S, Recorded(L, N, S),
           \A i \in 1 .. Len(M) - 1 : i \notin 1 .. Len(L) - 1 => M[i + 1].parents = NoParents
    PROVE  Recorded(M, N, S)
  <1>1. \A i \in 1 .. Len(L) - 1 : M[i + 1] = L[i + 1]
    BY DEF Extends
  <1>2. \A s \in S : Made(M, s)
    BY MadeKept DEF Recorded
  <1> QED
    BY <1>1, <1>2 DEF Recorded

\* A spend appends the leaves it makes.
LEMMA RecordedSpend ==
    ASSUME NEW L, NEW M, Extends(L, M), NEW N, NEW S, Recorded(L, N, S), NEW s, Made(M, s),
           \A i \in 1 .. Len(M) - 1 : i \notin 1 .. Len(L) - 1 => i \in s.outs
    PROVE  Recorded(M, N \union s.ins, S \union {s})
  <1>1. \A i \in 1 .. Len(L) - 1 : M[i + 1] = L[i + 1]
    BY DEF Extends
  <1>2. \A t \in S : Made(M, t)
    BY MadeKept DEF Recorded
  <1>3. N \union s.ins = UNION {t.ins : t \in S \union {s}}
    BY DEF Recorded
  <1> QED
    BY <1>1, <1>2, <1>3 DEF Recorded

\* A proof's inputs lie under its root, so what its outputs say of them remains
\* true while leaves are appended.
LEMMA TracedKept ==
    ASSUME Extends(leaves, leaves'), NEW p \in ProofRecords, ProofSound(p), Traced(p)
    PROVE  Traced(p)'
  <1>1. CASE p.circuit = "deposit"
    BY <1>1 DEF Traced
  <1>2. CASE p.circuit # "deposit"
    <2>1. SoundInputs(p)
      BY <1>2 DEF ProofSound, SoundTwoOut, SoundJoin, SoundWithdraw, ProofRecords, Circuits, Standard, Multisig
    <2>2. ASSUME NEW q \in Inputs(p) PROVE leaves'[q + 1] = leaves[q + 1]
      <3>1. q \in 1 .. p.root - 1 /\ p.root \in 1 .. Len(leaves) /\ Len(leaves) \in Nat
        BY <2>1 DEF SoundInputs, Inputs, Extends
      <3>2. q + 1 \in 1 .. Len(leaves)
        BY <3>1
      <3> QED
        BY <3>2 DEF Extends
    <2> QED
      BY <1>2, <2>2 DEF Traced, NoteAt, Inputs
  <1> QED
    BY <1>1, <1>2

\* The circuits write the parents into the outputs, and pin what is not a payment
\* to the group.
LEMMA ProveTraced ==
    ASSUME IInv, \A p \in proofs : Traced(p), Prove
    PROVE  \A p \in proofs' : Traced(p)'
  <1>1. UNCHANGED <<adminVars, treeVars>>
    BY ProveFrame
  <1>2. leaves' = leaves
    BY <1>1 DEF treeVars
  <1>3. ASSUME NEW c, NEW root, NEW ins, NEW outs, NEW asset, NEW value,
               MakeProof(c, root, ins, outs, asset, value),
               Traced(Candidate(c, root, ins, outs, asset, value))
        PROVE  \A p \in proofs' : Traced(p)'
    <2>1. proofs' = proofs \union {Candidate(c, root, ins, outs, asset, value)}
      BY <1>3 DEF MakeProof, Candidate
    <2>2. \A p \in proofs' : Traced(p)
      BY <1>3, <2>1
    <2> QED
      BY <1>2, <2>2 DEF Traced, NoteAt, Inputs
  <1>4. \A a, v, o, q, k : Note(a, v, o, q, k).parents = q /\ Note(a, v, o, q, k).owner = o
    BY DEF Note
  \* One input.
  <1>5. ASSUME NEW c, c # "deposit", NEW root, NEW i \in 1 .. Len(leaves) - 1, NEW outs, NEW asset, NEW value,
               \A k \in 1 .. Len(outs) :
                  \/ outs[k].parents = Hidden /\ k + 1 \in 1 .. Len(outs) /\ outs[k + 1].parents = <<i, 0>>
                  \/ /\ outs[k].parents = <<i, 0>>
                     /\ NoteAt(i).owner \in Groups => outs[k].owner = NoteAt(i).owner
        PROVE  Traced(Candidate(c, root, <<i>>, outs, asset, value))
    <2> DEFINE p == Candidate(c, root, <<i>>, outs, asset, value)
    <2>1. p.circuit = c /\ p.outs = outs /\ p.ins = <<i>>
      BY DEF Candidate
    <2> HIDE DEF p
    <2>2. Inputs(p) = {i}
      BY <2>1 DEF Inputs
    <2>3. i \in Int /\ i # 0 /\ i # -1 /\ <<i, 0>> # NoParents /\ <<i, 0>> # Hidden /\ Hidden # NoParents
      BY DEF NoParents, Hidden
    <2>4. Sources(<<i, 0>>) = {i}
      BY DEF Sources
    <2>5. ASSUME NEW k \in 1 .. Len(p.outs)
          PROVE  /\ p.outs[k].parents # NoParents
                 /\ p.outs[k].parents = Hidden => k + 1 \in 1 .. Len(p.outs) /\ p.outs[k + 1].parents # Hidden
                 /\ p.outs[k].parents # Hidden =>
                     /\ Sources(p.outs[k].parents) = Inputs(p)
                     /\ \A q \in Inputs(p) : NoteAt(q).owner \in Groups => p.outs[k].owner = NoteAt(q).owner
      BY <1>5, <2>1, <2>2, <2>3, <2>4
    <2>6. Traced(p)
      BY <1>5, <2>1, <2>5 DEF Traced
    <2> QED
      BY <2>6 DEF p
  <1>6. ASSUME NEW c, NEW i, NEW o, o \in ChangeOwners(c, NoteAt(i).owner), NoteAt(i).owner \in Spenders(c)
        PROVE  NoteAt(i).owner \in Groups => o = NoteAt(i).owner
    BY <1>6, PoolAssumption DEF ChangeOwners, Spenders
  <1>7. ASSUME ProveDeposit PROVE \A p \in proofs' : Traced(p)'
    <2>1. PICK asset \in AssetIds, value \in Amounts, owner \in Owners :
              MakeProof("deposit", 0, << >>,
                        <<Note(asset, value, owner, NoParents, compliancePk)>>, asset, value)
      BY <1>7 DEF ProveDeposit
    <2>2. Traced(Candidate("deposit", 0, << >>, <<Note(asset, value, owner, NoParents, compliancePk)>>, asset, value))
      BY DEF Traced, Candidate, Note
    <2> QED
      BY <1>3, <2>1, <2>2
  <1>8. ASSUME NEW c \in {"transfer", "transfer_multisig"}, ProveTransfer(c)
        PROVE  \A p \in proofs' : Traced(p)'
    <2>1. PICK root \in KnownRoots, i \in 1 .. Len(leaves) - 1, to \in Owners, paid \in Amounts, kept \in Amounts :
              /\ NoteAt(i).owner \in Spenders(c)
              /\ \E back \in ChangeOwners(c, NoteAt(i).owner) :
                  MakeProof(c, root, <<i>>,
                            <<Note(NoteAt(i).asset, paid, to, Hidden, compliancePk),
                              Note(NoteAt(i).asset, kept, back, <<i, 0>>, compliancePk)>>,
                            NoteAt(i).asset, 0)
      BY <1>8 DEF ProveTransfer, Opens
    <2>2. PICK back \in ChangeOwners(c, NoteAt(i).owner) :
              MakeProof(c, root, <<i>>,
                        <<Note(NoteAt(i).asset, paid, to, Hidden, compliancePk),
                          Note(NoteAt(i).asset, kept, back, <<i, 0>>, compliancePk)>>,
                        NoteAt(i).asset, 0)
      BY <2>1
    <2> DEFINE memo == Note(NoteAt(i).asset, paid, to, Hidden, compliancePk)
               change == Note(NoteAt(i).asset, kept, back, <<i, 0>>, compliancePk)
               outs == <<memo, change>>
    <2>3. memo.parents = Hidden /\ change.parents = <<i, 0>> /\ change.owner = back
      BY <1>4
    <2>4. NoteAt(i).owner \in Groups => back = NoteAt(i).owner
      BY <1>6, <2>1
    <2>5. MakeProof(c, root, <<i>>, outs, NoteAt(i).asset, 0)
      BY <2>2
    <2> HIDE DEF memo, change
    <2>6. Len(outs) = 2 /\ outs[1] = memo /\ outs[2] = change
      OBVIOUS
    <2> HIDE DEF outs
    <2>7. Traced(Candidate(c, root, <<i>>, outs, NoteAt(i).asset, 0))
      <3>1. ASSUME NEW k \in 1 .. Len(outs)
            PROVE  \/ outs[k].parents = Hidden /\ k + 1 \in 1 .. Len(outs) /\ outs[k + 1].parents = <<i, 0>>
                   \/ /\ outs[k].parents = <<i, 0>>
                      /\ NoteAt(i).owner \in Groups => outs[k].owner = NoteAt(i).owner
        <4>1. k = 1 \/ k = 2
          BY <2>6
        <4> QED
          BY <2>3, <2>4, <2>6, <4>1
      <3> QED
        BY <1>5, <1>8, <3>1
    <2> QED
      BY <1>3, <2>5, <2>7
  <1>9. ASSUME NEW c \in {"withdraw", "withdraw_multisig"}, ProveWithdraw(c)
        PROVE  \A p \in proofs' : Traced(p)'
    <2>1. PICK root \in KnownRoots, i \in 1 .. Len(leaves) - 1, value \in Amounts, kept \in Amounts :
              /\ NoteAt(i).owner \in Spenders(c)
              /\ \E back \in ChangeOwners(c, NoteAt(i).owner) :
                  MakeProof(c, root, <<i>>, <<Note(NoteAt(i).asset, kept, back, <<i, 0>>, compliancePk)>>,
                            NoteAt(i).asset, value)
      BY <1>9 DEF ProveWithdraw, Opens
    <2>2. PICK back \in ChangeOwners(c, NoteAt(i).owner) :
              MakeProof(c, root, <<i>>, <<Note(NoteAt(i).asset, kept, back, <<i, 0>>, compliancePk)>>,
                        NoteAt(i).asset, value)
      BY <2>1
    <2> DEFINE change == Note(NoteAt(i).asset, kept, back, <<i, 0>>, compliancePk)
               outs == <<change>>
    <2>3. change.parents = <<i, 0>> /\ change.owner = back
      BY <1>4
    <2>4. NoteAt(i).owner \in Groups => back = NoteAt(i).owner
      BY <1>6, <2>1
    <2>5. MakeProof(c, root, <<i>>, outs, NoteAt(i).asset, value)
      BY <2>2
    <2> HIDE DEF change
    <2>6. Len(outs) = 1 /\ outs[1] = change
      OBVIOUS
    <2> HIDE DEF outs
    <2>7. Traced(Candidate(c, root, <<i>>, outs, NoteAt(i).asset, value))
      BY <1>5, <1>9, <2>3, <2>4, <2>6
    <2> QED
      BY <1>3, <2>5, <2>7
  <1>10. ASSUME ProveSplit PROVE \A p \in proofs' : Traced(p)'
    <2>1. PICK root \in KnownRoots, i \in 1 .. Len(leaves) - 1, first \in Amounts, second \in Amounts :
              MakeProof("split_multisig", root, <<i>>,
                        <<Note(NoteAt(i).asset, first, NoteAt(i).owner, <<i, 0>>, compliancePk),
                          Note(NoteAt(i).asset, second, NoteAt(i).owner, <<i, 0>>, compliancePk)>>,
                        NoteAt(i).asset, 0)
      BY <1>10 DEF ProveSplit
    <2> DEFINE x == Note(NoteAt(i).asset, first, NoteAt(i).owner, <<i, 0>>, compliancePk)
               y == Note(NoteAt(i).asset, second, NoteAt(i).owner, <<i, 0>>, compliancePk)
               outs == <<x, y>>
    <2>2. x.parents = <<i, 0>> /\ x.owner = NoteAt(i).owner /\ y.parents = <<i, 0>> /\ y.owner = NoteAt(i).owner
      BY <1>4
    <2>3. MakeProof("split_multisig", root, <<i>>, outs, NoteAt(i).asset, 0)
      BY <2>1
    <2> HIDE DEF x, y
    <2>4. Len(outs) = 2 /\ outs[1] = x /\ outs[2] = y
      OBVIOUS
    <2> HIDE DEF outs
    <2>5. \A k \in 1 .. Len(outs) : outs[k].parents = <<i, 0>> /\ outs[k].owner = NoteAt(i).owner
      BY <2>2, <2>4
    <2>6. Traced(Candidate("split_multisig", root, <<i>>, outs, NoteAt(i).asset, 0))
      BY <1>5, <2>5
    <2> QED
      BY <1>3, <2>3, <2>6
  <1>11. ASSUME ProveJoin PROVE \A p \in proofs' : Traced(p)'
    <2>1. PICK root \in KnownRoots, i \in 1 .. Len(leaves) - 1, j \in 1 .. Len(leaves) - 1, sum \in Amounts :
              /\ NoteAt(i).owner = NoteAt(j).owner
              /\ MakeProof("join_multisig", root, <<i, j>>,
                           <<Note(NoteAt(i).asset, sum, NoteAt(i).owner, <<i, j>>, compliancePk)>>,
                           NoteAt(i).asset, 0)
      BY <1>11 DEF ProveJoin
    <2> DEFINE x == Note(NoteAt(i).asset, sum, NoteAt(i).owner, <<i, j>>, compliancePk)
               outs == <<x>>
               p == Candidate("join_multisig", root, <<i, j>>, outs, NoteAt(i).asset, 0)
    <2>2. x.parents = <<i, j>> /\ x.owner = NoteAt(i).owner
      BY <1>4
    <2> HIDE DEF x
    <2>3. p.circuit = "join_multisig" /\ p.outs = outs /\ p.ins = <<i, j>> /\ Len(outs) = 1 /\ outs[1] = x
      BY DEF Candidate
    <2>4. Inputs(p) = {i, j}
      BY <2>3 DEF Inputs
    <2>5. Sources(<<i, j>>) = {i, j} /\ <<i, j>> # NoParents /\ <<i, j>> # Hidden
      BY DEF Sources, NoParents, Hidden
    <2>6. MakeProof("join_multisig", root, <<i, j>>, outs, NoteAt(i).asset, 0)
      BY <2>1 DEF x
    <2> HIDE DEF outs, p
    <2>7. Traced(p)
      BY <2>1, <2>2, <2>3, <2>4, <2>5 DEF Traced
    <2> QED
      BY <1>3, <2>6, <2>7 DEF p
  <1> QED
    BY <1>7, <1>8, <1>9, <1>10, <1>11 DEF Prove

-----------------------------------------------------------------------------
(* Every step keeps the record of spends                                   *)

\* No output of a proof is worth more than its inputs together.
LEMMA OutputsWorth ==
    ASSUME IInv, NEW p \in proofs, Landed(p), ProofSound(p), p.circuit # "deposit"
    PROVE  /\ Len(p.ins) \in {1, 2} /\ Len(p.outs) \in {1, 2}
           /\ \A k \in 1 .. Len(p.outs) : p.outs[k].value <= Cardinality(OldUnits(p))
  <1>1. TypeOK /\ p \in ProofRecords /\ p.value \in Nat
    BY PoolAssumption DEF IInv, TypeOK, ProofRecords, Amounts
  <1>2. SoundTwoOut(p) \/ SoundJoin(p) \/ SoundWithdraw(p)
    BY <1>1 DEF ProofSound, ProofRecords, Circuits, Standard, Multisig
  <1>3. Len(p.ins) \in {1, 2} /\ Len(p.outs) \in {1, 2}
    BY <1>2 DEF SoundTwoOut, SoundJoin, SoundWithdraw
  <1>4. \A k \in 1 .. Len(p.outs) : p.outs[k].value \in Nat
    BY <1>1, OutValues
  <1>5. CASE SoundTwoOut(p)
    <2>1. Cardinality(OldUnits(p)) = p.outs[1].value + p.outs[2].value /\ Len(p.outs) = 2
      BY <1>1, <1>5, OneInUnits DEF SoundTwoOut
    <2>2. p.outs[1].value \in Nat /\ p.outs[2].value \in Nat
      BY <1>4, <2>1
    <2>3. \A k \in 1 .. Len(p.outs) : k = 1 \/ k = 2
      BY <2>1
    <2> QED
      BY <1>3, <2>1, <2>2, <2>3
  <1>6. CASE SoundJoin(p)
    <2>1. Cardinality(OldUnits(p)) = p.outs[1].value /\ Len(p.outs) = 1
      BY <1>1, <1>6, TwoInUnits DEF SoundJoin
    <2>2. \A k \in 1 .. Len(p.outs) : k = 1
      BY <2>1
    <2> QED
      BY <1>3, <1>4, <2>1, <2>2
  <1>7. CASE SoundWithdraw(p)
    <2>1. Cardinality(OldUnits(p)) = p.outs[1].value + p.value /\ Len(p.outs) = 1
      BY <1>1, <1>7, OneInUnits DEF SoundWithdraw
    <2>2. \A k \in 1 .. Len(p.outs) : k = 1
      BY <2>1
    <2> QED
      BY <1>1, <1>3, <1>4, <2>1, <2>2
  <1> QED
    BY <1>2, <1>5, <1>6, <1>7

\* The leaves a spend inserts were made from its inputs.
LEMMA LandedMakes ==
    ASSUME IInv, NEW p \in proofs, Landed(p), ProofSound(p), p.circuit # "deposit", Traced(p),
           NEW s, s.ins = Inputs(p), s.outs = Len(leaves) .. Len(leaves') - 1
    PROVE  Extends(leaves, leaves') /\ Made(leaves', s)
  <1> DEFINE n == Len(leaves)
  <1>1. /\ Len(p.ins) \in {1, 2} /\ Len(p.outs) \in {1, 2}
        /\ \A k \in 1 .. Len(p.outs) : p.outs[k].value <= Cardinality(OldUnits(p))
    BY OutputsWorth
  <1>2. leaves \in Seq(NoteRecords) /\ n \in Nat /\ leaves' \in Seq(NoteRecords) /\ Len(leaves') = n + Len(p.outs)
    BY DEF IInv, TypeOK, Landed, Grown
  <1>3. Extends(leaves, leaves')
    BY <1>1, <1>2 DEF Extends, Landed, Grown
  <1>4. s.ins \subseteq 1 .. n - 1 /\ p.ins[1] \in s.ins /\ n >= 2
    <2>1. s.ins \subseteq 1 .. n - 1 /\ p.ins[1] \in s.ins
      BY <1>1 DEF Landed, Inputs
    <2> QED
      BY <1>2, <2>1
  <1>5. /\ s.ins # {} /\ s.ins \subseteq 1 .. Len(leaves') - 1
        /\ s.outs # {} /\ s.outs \subseteq 1 .. Len(leaves') - 1
    <2>1. Len(leaves') \in Nat /\ Len(leaves') > n
      <3>1. Len(leaves') = n + 1 \/ Len(leaves') = n + 2
        BY <1>1, <1>2
      <3> QED
        BY <1>2, <3>1
    <2>2. n \in n .. Len(leaves') - 1 /\ n .. Len(leaves') - 1 \subseteq 1 .. Len(leaves') - 1
      BY <1>2, <1>4, <2>1
    <2>3. 1 .. n - 1 \subseteq 1 .. Len(leaves') - 1
      BY <1>2, <2>1
    <2> QED
      BY <1>4, <2>2, <2>3
  <1>6. \A q \in s.ins : leaves'[q + 1] = leaves[q + 1] /\ leaves[q + 1].asset = p.asset
    <2>1. \A q \in s.ins : leaves'[q + 1] = leaves[q + 1]
      BY <1>2, <1>3, <1>4 DEF Extends
    <2> QED
      BY <2>1 DEF Landed, Inputs, NoteAt
  <1>7. UNION {UnitsOf(q, leaves'[q + 1].value) : q \in s.ins} = OldUnits(p)
    BY <1>6 DEF OldUnits, Inputs, NoteAt
  <1>8. ASSUME NEW i \in s.outs
        PROVE  /\ leaves'[i + 1].parents # NoParents
               /\ leaves'[i + 1].parents = Hidden => i + 1 \in s.outs /\ leaves'[i + 2].parents # Hidden
               /\ leaves'[i + 1].parents # Hidden => Sources(leaves'[i + 1].parents) = s.ins
               /\ leaves'[i + 1].value <= Cardinality(UNION {UnitsOf(q, leaves'[q + 1].value) : q \in s.ins})
               /\ \A q \in s.ins :
                   /\ q < i
                   /\ leaves'[q + 1].asset = leaves'[i + 1].asset
                   /\ leaves'[q + 1].owner \in Groups /\ leaves'[i + 1].parents # Hidden
                        => leaves'[i + 1].owner = leaves'[q + 1].owner
    <2> DEFINE k == i + 1 - n
    <2>1. k \in 1 .. Len(p.outs) /\ i + 1 = n + k
      BY <1>1, <1>2
    <2>2. leaves'[i + 1] = p.outs[k] /\ p.outs[k].asset = p.asset
      BY <2>1 DEF Landed, Grown
    <2>3. k + 1 \in 1 .. Len(p.outs) => i + 1 \in s.outs /\ leaves'[i + 2] = p.outs[k + 1]
      <3>1. i + 2 = n + (k + 1) /\ (k + 1 \in 1 .. Len(p.outs) => i + 1 \in s.outs)
        BY <1>1, <1>2, <2>1
      <3>2. k + 1 \in 1 .. Len(p.outs) => leaves'[n + (k + 1)] = p.outs[k + 1]
        BY DEF Landed, Grown
      <3> QED
        BY <3>1, <3>2
    <2> HIDE DEF k
    <2>4. /\ p.outs[k].parents # NoParents
          /\ p.outs[k].parents = Hidden => k + 1 \in 1 .. Len(p.outs) /\ p.outs[k + 1].parents # Hidden
          /\ p.outs[k].parents # Hidden =>
              /\ Sources(p.outs[k].parents) = Inputs(p)
              /\ \A q \in Inputs(p) : NoteAt(q).owner \in Groups => p.outs[k].owner = NoteAt(q).owner
      BY <2>1 DEF Traced
    <2>5. leaves'[i + 1].value <= Cardinality(UNION {UnitsOf(q, leaves'[q + 1].value) : q \in s.ins})
      BY <1>1, <1>7, <2>1, <2>2
    <2>6. ASSUME NEW q \in s.ins
          PROVE  /\ q < i
                 /\ leaves'[q + 1].asset = leaves'[i + 1].asset
                 /\ leaves'[q + 1].owner \in Groups /\ leaves'[i + 1].parents # Hidden
                      => leaves'[i + 1].owner = leaves'[q + 1].owner
      <3>1. q < i
        BY <1>2, <1>4
      <3>2. leaves'[q + 1] = NoteAt(q) /\ NoteAt(q).asset = p.asset
        BY <1>6 DEF NoteAt
      <3> QED
        BY <2>2, <2>4, <3>1, <3>2
    <2> QED
      BY <2>2, <2>3, <2>4, <2>5, <2>6
  <1>9. Made(leaves', s)
    BY <1>5, <1>8 DEF Made
  <1> QED
    BY <1>3, <1>9

\* The record of a spend that landed.
LEMMA SpendRecorded ==
    ASSUME IInv, AuditInv, NEW p \in proofs, Landed(p), ProofSound(p), p.circuit # "deposit", AuditNext,
           proofs' = proofs
    PROVE  AuditInv'
  <1> DEFINE s == [ins |-> nullifiers' \ nullifiers, outs |-> Len(leaves) .. Len(leaves') - 1]
  <1>1. nullifiers' = nullifiers \union Inputs(p) /\ \A q \in Inputs(p) : q \notin nullifiers
    BY DEF Landed, Inputs, Spent
  <1>2. Len(p.ins) \in {1, 2} /\ p.ins[1] \in Inputs(p)
    BY OutputsWorth DEF Inputs
  <1>3. nullifiers' # nullifiers /\ nullifiers' \ nullifiers = Inputs(p)
    BY <1>1, <1>2
  <1>4. landed' = Append(landed, s)
    BY <1>3 DEF AuditNext
  <1>5. s.ins = Inputs(p) /\ s.outs = Len(leaves) .. Len(leaves') - 1
    BY <1>3
  <1>6. Len(leaves) \in Nat /\ Len(leaves') \in Nat /\ nullifiers \subseteq Nat
    BY DEF IInv, TypeOK, Landed, Grown
  <1>7. Inputs(p) \subseteq Nat /\ s \in SpendRecords
    <2>1. Inputs(p) \subseteq Nat
      BY <1>6 DEF Landed, Inputs
    <2> QED
      BY <1>3, <1>6, <2>1 DEF SpendRecords
  <1> HIDE DEF s
  <1>8. landed \in Seq(SpendRecords) /\ Len(landed) \in Nat
    BY DEF AuditInv
  <1>9. /\ landed' \in Seq(SpendRecords) /\ Len(landed') = Len(landed) + 1
        /\ \A k \in 1 .. Len(landed) : landed'[k] = landed[k]
        /\ landed'[Len(landed) + 1] = s
    BY <1>4, <1>7, <1>8, AppendProperties
  <1>10. Spends' = Spends \union {s}
    <2>1. \A k \in 1 .. Len(landed) + 1 : k \in 1 .. Len(landed) \/ k = Len(landed) + 1
      BY <1>8
    <2>2. 1 .. Len(landed) \subseteq 1 .. Len(landed) + 1 /\ Len(landed) + 1 \in 1 .. Len(landed) + 1
      BY <1>8
    <2> QED
      BY <1>9, <2>1, <2>2 DEF Spends
  <1>11. Traced(p)
    BY DEF AuditInv
  <1>12. Extends(leaves, leaves') /\ Made(leaves', s)
    BY <1>5, <1>11, LandedMakes
  <1>13. \A i \in 1 .. Len(leaves') - 1 : i \notin 1 .. Len(leaves) - 1 => i \in s.outs
    BY <1>5, <1>6
  <1>14. Recorded(leaves', nullifiers \union s.ins, Spends \union {s})
    BY <1>12, <1>13, RecordedSpend DEF AuditInv
  <1>15. Recorded(leaves, nullifiers, Spends)'
    BY <1>1, <1>5, <1>10, <1>14
  <1>16. ASSUME NEW q \in proofs PROVE Traced(q)'
    <2>1. q \in ProofRecords /\ ProofSound(q) /\ Traced(q)
      BY DEF IInv, TypeOK, ProofsSound, AuditInv
    <2> QED
      BY <1>12, <2>1, TracedKept
  <1> QED
    BY <1>9, <1>15, <1>16 DEF AuditInv

\* Steps that spend nothing are not recorded, and every leaf they insert is without
\* parents.
LEMMA QuietRecorded ==
    ASSUME IInv, AuditInv, AuditNext \/ UNCHANGED auditVars, UNCHANGED nullifiers, Extends(leaves, leaves'),
           \A i \in 1 .. Len(leaves') - 1 : i \notin 1 .. Len(leaves) - 1 => leaves'[i + 1].parents = NoParents,
           proofs' \subseteq proofs \/ \A p \in proofs' : Traced(p)'
    PROVE  AuditInv'
  <1>1. landed' = landed
    BY DEF AuditNext, auditVars
  <1>2. Spends' = Spends
    BY <1>1 DEF Spends
  <1>3. Recorded(leaves', nullifiers, Spends)
    BY RecordedDeposit DEF AuditInv
  <1>4. Recorded(leaves, nullifiers, Spends)'
    BY <1>2, <1>3
  <1>5. ASSUME NEW q \in proofs PROVE Traced(q)'
    <2>1. q \in ProofRecords /\ ProofSound(q) /\ Traced(q)
      BY DEF IInv, TypeOK, ProofsSound, AuditInv
    <2> QED
      BY <2>1, TracedKept
  <1>6. \A q \in proofs' : Traced(q)'
    BY <1>5
  <1> QED
    BY <1>1, <1>4, <1>6 DEF AuditInv

\* One case per kind of step.
LEMMA NextAuditInv == IInv /\ AuditInv /\ [AuditNext]_auditVars => AuditInv'
  <1> SUFFICES ASSUME IInv, AuditInv, AuditNext \/ UNCHANGED auditVars PROVE AuditInv'
    BY DEF auditVars
  <1>1. leaves \in Seq(NoteRecords) /\ Len(leaves) \in Nat
    BY DEF IInv, TypeOK
  <1>2. Extends(leaves, leaves)
    BY <1>1 DEF Extends
  <1>3. ASSUME UNCHANGED <<leaves, nullifiers>>, proofs' \subseteq proofs \/ \A p \in proofs' : Traced(p)'
        PROVE  AuditInv'
    BY <1>2, <1>3, QuietRecorded
  <1>4. CASE Admin
    <2>1. ASSUME NEW signer \in Signers, Initialize(signer) PROVE AuditInv'
      <3>1. leaves = << >> /\ leaves' = <<GenesisNote>> /\ UNCHANGED <<nullifiers, proofs>>
        BY <2>1 DEF Initialize, IInv, Initialized
      <3>2. GenesisNote \in NoteRecords
        BY PoolAssumption DEF GenesisNote, Note, NoteRecords, NoParents, Amounts
      <3>3. Len(leaves) = 0 /\ Len(leaves') = 1 /\ leaves' \in Seq(NoteRecords)
        BY <3>1, <3>2
      <3>4. Extends(leaves, leaves')
        BY <1>1, <3>3 DEF Extends
      <3>5. 1 .. Len(leaves') - 1 = {}
        BY <3>3
      <3> QED
        BY <3>1, <3>4, <3>5, QuietRecorded
    <2>2. ASSUME NEW signer \in Signers, ~Initialize(signer),
                 \/ \E c \in Circuits, program \in Programs \union {None} : SetVerifier(signer, c, program)
                 \/ \E key \in ComplianceKeys : RotateComplianceKey(signer, key)
                 \/ \E value \in PauseValues : SetPaused(signer, value)
          PROVE  UNCHANGED <<leaves, nullifiers, proofs>>
      BY <2>2 DEF SetVerifier, RotateComplianceKey, SetPaused, treeVars
    <2> QED
      BY <1>3, <1>4, <2>1, <2>2 DEF Admin
  <1>5. CASE Prove
    <2>1. UNCHANGED <<leaves, nullifiers>>
      BY <1>5, ProveFrame DEF treeVars
    <2>2. \A p \in proofs' : Traced(p)'
      BY <1>5, ProveTraced DEF AuditInv
    <2> QED
      BY <1>3, <2>1, <2>2
  <1>6. ASSUME NEW p \in proofs, NEW mint \in Mints, NEW amount \in Amounts, Deposit(p, mint, amount)
        PROVE  AuditInv'
    <2>1. SoundDeposit(p) /\ p \in ProofRecords /\ TypeOK /\ RingHolds(ring, Len(leaves))
      BY <1>6 DEF IInv, TypeOK, ProofsSound, ProofSound, Deposit
    <2>2. Len(p.outs) = 1 /\ InsertOne(p) /\ UNCHANGED <<nullifiers, proofs>>
      BY <1>6, <2>1 DEF SoundDeposit, Deposit
    <2>3. Grown(p)
      BY <2>1, <2>2, InsertOneGrows
    <2>4. Extends(leaves, leaves') /\ Len(leaves') = Len(leaves) + 1 /\ leaves'[Len(leaves) + 1] = p.outs[1]
      BY <1>1, <2>2, <2>3 DEF Grown, Extends
    <2>5. p.outs[1].parents = NoParents
      BY <1>6 DEF AuditInv, Traced, Deposit
    <2>6. ASSUME NEW i \in 1 .. Len(leaves') - 1, i \notin 1 .. Len(leaves) - 1
          PROVE  leaves'[i + 1].parents = NoParents
      <3>1. i = Len(leaves)
        BY <1>1, <2>4, <2>6
      <3> QED
        BY <2>4, <2>5, <3>1
    <2> QED
      BY <2>2, <2>4, <2>6, QuietRecorded
  <1>7. ASSUME NEW p \in proofs, NEW slot \in Slots, SpendChecks(p, slot),
               p.circuit \in Standard \union Multisig,
               Len(p.outs) = 1 => InsertOne(p),
               Len(p.outs) = 2 => InsertTwo(p),
               proofs' = proofs, AuditNext
        PROVE  AuditInv'
    <2>1. Landed(p) /\ ProofSound(p)
      BY <1>7, SpendLanded
    <2>2. p.circuit # "deposit"
      BY <1>7 DEF Standard, Multisig
    <2> QED
      BY <1>7, <2>1, <2>2, SpendRecorded
  <1>8. ASSUME NEW p \in proofs, NEW slot \in Slots, AuditNext,
               TransferLike(p, slot) \/ SplitMultisig(p, slot) \/ JoinMultisig(p, slot)
        PROVE  AuditInv'
    <2>1. ProofSound(p)
      BY DEF IInv, ProofsSound
    <2>2. SpendChecks(p, slot) /\ p.circuit \in Standard \union Multisig /\ proofs' = proofs
      BY <1>8 DEF TransferLike, SplitMultisig, JoinMultisig, Standard, Multisig
    <2>3. (Len(p.outs) = 1 => InsertOne(p)) /\ (Len(p.outs) = 2 => InsertTwo(p))
      BY <1>8, <2>1 DEF TransferLike, SplitMultisig, JoinMultisig, ProofSound, SoundTwoOut, SoundJoin
    <2> QED
      BY <1>7, <1>8, <2>2, <2>3
  <1>9. ASSUME NEW p \in proofs, NEW slot \in Slots, NEW mint \in Mints, NEW amount \in Amounts,
               WithdrawLike(p, slot, mint, amount), AuditNext
        PROVE  AuditInv'
    <2>1. ProofSound(p)
      BY DEF IInv, ProofsSound
    <2>2. SpendChecks(p, slot) /\ p.circuit \in Standard \union Multisig /\ proofs' = proofs
      BY <1>9 DEF WithdrawLike, Standard, Multisig
    <2>3. (Len(p.outs) = 1 => InsertOne(p)) /\ (Len(p.outs) = 2 => InsertTwo(p))
      BY <1>9, <2>1 DEF WithdrawLike, ProofSound, SoundWithdraw
    <2> QED
      BY <1>7, <1>9, <2>2, <2>3
  <1>10. ASSUME AuditNext, Submit PROVE AuditInv'
    BY <1>6, <1>8, <1>9, <1>10 DEF Submit
  <1>11. CASE \E p \in proofs : Forget(p)
    <2>1. UNCHANGED <<leaves, nullifiers>> /\ proofs' \subseteq proofs
      BY <1>11 DEF Forget, treeVars
    <2> QED
      BY <1>3, <2>1
  <1>12. CASE \E mint \in DonatedMints : Donate(mint)
    <2>1. UNCHANGED <<leaves, nullifiers>> /\ proofs' \subseteq proofs
      BY <1>12 DEF Donate, treeVars
    <2> QED
      BY <1>3, <2>1
  <1>13. CASE UNCHANGED auditVars
    <2>1. UNCHANGED <<leaves, nullifiers>> /\ proofs' \subseteq proofs
      BY <1>13 DEF auditVars, vars, treeVars
    <2> QED
      BY <1>3, <2>1
  <1>14. CASE AuditNext
    <2>1. Next
      BY <1>14 DEF AuditNext
    <2> QED
      BY <1>4, <1>5, <1>10, <1>11, <1>12, <1>14, <2>1 DEF Next
  <1> QED
    BY <1>13, <1>14

LEMMA SpecAuditInv == AuditSpec => [](IInv /\ AuditInv)
  <1>1. AuditInit => IInv /\ AuditInv
    <2> SUFFICES ASSUME AuditInit PROVE IInv /\ AuditInv
      OBVIOUS
    <2>1. IInv
      BY InitIInv DEF AuditInit
    <2>2. leaves = << >> /\ nullifiers = {} /\ proofs = {} /\ landed = << >>
      BY DEF AuditInit, Init
    <2>3. Len(leaves) = 0 /\ Len(landed) = 0 /\ landed \in Seq(SpendRecords)
      BY <2>2
    <2>4. Spends = {}
      BY <2>3 DEF Spends
    <2>5. Recorded(leaves, nullifiers, Spends)
      BY <2>2, <2>3, <2>4 DEF Recorded
    <2> QED
      BY <2>1, <2>2, <2>3, <2>5 DEF AuditInv
  <1>2. [AuditNext]_auditVars => [Next]_vars
    BY DEF AuditNext, auditVars
  <1> QED
    BY <1>1, <1>2, NextIInv, NextAuditInv, PTL DEF AuditSpec

-----------------------------------------------------------------------------
(* The tracer                                                              *)

\* A nonempty set of numbers has a least element.
LEMMA LeastNumber ==
    ASSUME NEW S \in SUBSET Nat, S # {} PROVE \E x \in S : \A y \in S : x <= y
  <1> DEFINE below == {0 .. x : x \in S}
  <1>1. ASSUME NEW x \in S PROVE 0 .. x \in FiniteSubsetsOf(Nat)
    <2>1. IsFiniteSet(0 .. x) /\ 0 .. x \subseteq Nat
      BY FS_Interval
    <2> QED
      BY <2>1 DEF FiniteSubsetsOf
  <1>2. PICK b \in below : \A c \in below : <<c, b>> \notin StrictSubsetOrdering(Nat)
    <2>1. below \subseteq FiniteSubsetsOf(Nat) /\ below # {}
      BY <1>1
    <2>2. IsWellFoundedOn(StrictSubsetOrdering(Nat), FiniteSubsetsOf(Nat))
      BY FS_StrictSubsetOrderingWellFounded
    <2> HIDE DEF below
    <2> QED
      BY <2>1, <2>2, WFMin
  <1>3. PICK x \in S : b = 0 .. x
    OBVIOUS
  <1>4. ASSUME NEW y \in S, y < x PROVE FALSE
    <2>1. 0 .. y \subseteq 0 .. x /\ x \in 0 .. x /\ x \notin 0 .. y
      BY <1>4
    <2>2. 0 .. y \in SUBSET Nat /\ 0 .. x \in SUBSET Nat /\ 0 .. y # 0 .. x
      BY <2>1
    <2>3. <<0 .. y, 0 .. x>> \in StrictSubsetOrdering(Nat)
      BY <2>1, <2>2 DEF StrictSubsetOrdering
    <2> QED
      BY <1>2, <1>3, <2>3
  <1>5. \A y \in S : x =< y
    BY <1>4
  <1> QED
    BY <1>5

\* A set of numbers that holds 0 and, with every number up to n, the next one.
LEMMA StepInduction ==
    ASSUME NEW n \in Nat, NEW G, 0 \in G, \A l \in 1 .. n : l - 1 \in G => l \in G
    PROVE  0 .. n \subseteq G
  <1> SUFFICES ASSUME (0 .. n) \ G # {} PROVE FALSE
    OBVIOUS
  <1> DEFINE bad == (0 .. n) \ G
  <1>0. bad \in SUBSET Nat /\ bad # {}
    OBVIOUS
  <1>1. PICK m \in bad : \A y \in bad : m <= y
    <2> HIDE DEF bad
    <2> QED
      BY <1>0, LeastNumber
  <1>2. m \in 1 .. n /\ m - 1 \in 0 .. n /\ ~(m <= m - 1)
    BY <1>1
  <1> QED
    BY <1>1, <1>2

\* One round of the worklist after another, up to n of them.
IsVisit(f, n, start, step) == f = [k \in 0 .. n |-> IF k = 0 THEN {start} ELSE Extend(f[k - 1], step)]

\* What is visited at all is an index.
Steps == [Indices -> [to : SUBSET Indices, truncated : BOOLEAN]]

LEMMA VisitExists ==
    ASSUME NEW n \in Nat, NEW start, NEW step
    PROVE  \E f : IsVisit(f, n, start, step)
  <1> DEFINE Good == {m \in Nat : \E f : IsVisit(f, m, start, step)}
  <1>1. 0 \in Good
    <2> DEFINE f == [k \in 0 .. 0 |-> {start}]
    <2>1. f = [k \in 0 .. 0 |-> IF k = 0 THEN {start} ELSE Extend(f[k - 1], step)]
      OBVIOUS
    <2> HIDE DEF f
    <2> QED
      BY <2>1 DEF IsVisit
  <1>2. ASSUME NEW m \in 1 .. n, m - 1 \in Good PROVE m \in Good
    <2>1. PICK f : IsVisit(f, m - 1, start, step)
      BY <1>2
    <2> DEFINE g == [k \in 0 .. m |-> IF k = m THEN Extend(f[m - 1], step) ELSE f[k]]
    <2>2. ASSUME NEW k \in 0 .. m PROVE g[k] = IF k = 0 THEN {start} ELSE Extend(g[k - 1], step)
      <3>1. CASE k = m
        BY <3>1
      <3>2. CASE k # m
        <4>1. k \in 0 .. m - 1 /\ (k # 0 => k - 1 \in 0 .. m /\ k - 1 # m)
          BY <3>2
        <4>2. f[k] = IF k = 0 THEN {start} ELSE Extend(f[k - 1], step)
          BY <2>1, <4>1 DEF IsVisit
        <4> QED
          BY <3>2, <4>1, <4>2
      <3> QED
        BY <3>1, <3>2
    <2>3. g = [k \in 0 .. m |-> IF k = 0 THEN {start} ELSE Extend(g[k - 1], step)]
      <3>1. g = [k \in 0 .. m |-> g[k]]
        OBVIOUS
      <3> HIDE DEF g
      <3> QED
        BY <2>2, <3>1
    <2> HIDE DEF g
    <2> QED
      BY <2>3 DEF IsVisit
  <1> HIDE DEF Good
  <1>3. 0 .. n \subseteq Good
    BY <1>1, <1>2, StepInduction
  <1>4. n \in Good
    BY <1>3
  <1> QED
    BY <1>4 DEF Good

\* Nothing new is reached from the nodes.
Closed(nodes, step) == \A i \in nodes : step[i].to \subseteq nodes

\* The graph a traversal returns: its nodes are indices and closed, since a set of
\* indices cannot grow in as many rounds as there are leaves; its edges are the
\* expansions of its nodes.
LEMMA TraverseGraph ==
    ASSUME leaves \in Seq(NoteRecords), NEW start \in Indices, NEW step \in Steps
    PROVE  \E nodes \in SUBSET Indices :
               /\ start \in nodes /\ Closed(nodes, step)
               /\ Traverse(start, step) = [nodes |-> nodes,
                                           edges |-> UNION {{i} \X step[i].to : i \in nodes},
                                           truncated |-> {i \in nodes : step[i].truncated}]
  <1> DEFINE n == Len(leaves)
             visited[k \in 0 .. n] == IF k = 0 THEN {start} ELSE Extend(visited[k - 1], step)
  <1>1. n \in Nat
    OBVIOUS
  <1>2. visited = [k \in 0 .. n |-> IF k = 0 THEN {start} ELSE Extend(visited[k - 1], step)]
    <2>1. \E f : f = [k \in 0 .. n |-> IF k = 0 THEN {start} ELSE Extend(f[k - 1], step)]
      <3>1. PICK f : IsVisit(f, n, start, step)
        BY <1>1, VisitExists
      <3>2. f = [k \in 0 .. n |-> IF k = 0 THEN {start} ELSE Extend(f[k - 1], step)]
        BY <3>1 DEF IsVisit
      <3> QED
        BY <3>2
    <2> QED
      BY <2>1
  <1>3. Traverse(start, step) = [nodes |-> visited[n],
                                 edges |-> UNION {{i} \X step[i].to : i \in visited[n]},
                                 truncated |-> {i \in visited[n] : step[i].truncated}]
    BY DEF Traverse
  <1> HIDE DEF visited
  <1>0. IsFiniteSet(Indices) /\ Cardinality(Indices) = n
    <2>1. Len(leaves) \in Nat
      OBVIOUS
    <2>2. IsFiniteSet(0 .. Len(leaves) - 1)
      BY <2>1, FS_Interval
    <2>3. Cardinality(0 .. Len(leaves) - 1) = IF 0 > Len(leaves) - 1 THEN 0 ELSE Len(leaves) - 1 - 0 + 1
      BY <2>1, FS_Interval
    <2> QED
      BY <2>1, <2>2, <2>3 DEF Indices
  <1> DEFINE Good == {k \in 0 .. n : /\ visited[k] \subseteq Indices /\ start \in visited[k]
                                     /\ Closed(visited[k], step) \/ Cardinality(visited[k]) >= k + 1}
  <1>4. 0 \in Good
    <2>1. visited[0] = {start} /\ 0 \in 0 .. n
      BY <1>1, <1>2
    <2>2. Cardinality({start}) = 1
      BY FS_Singleton
    <2>3. Cardinality(visited[0]) >= 0 + 1
      BY <2>1, <2>2
    <2>4. visited[0] \subseteq Indices /\ start \in visited[0]
      BY <2>1
    <2> QED
      BY <2>1, <2>3, <2>4
  <1>5. ASSUME NEW k \in 1 .. n, k - 1 \in Good PROVE k \in Good
    <2> DEFINE old == visited[k - 1]
               new == visited[k]
    <2>0. k \in 0 .. n /\ k # 0 /\ k - 1 + 1 = k
      BY <1>1
    <2>1. /\ new = Extend(old, step) /\ old \subseteq Indices /\ start \in old
          /\ Closed(old, step) \/ Cardinality(old) >= k
      <3>1. new = Extend(old, step)
        BY <1>2, <2>0
      <3>2. old \subseteq Indices /\ start \in old /\ (Closed(old, step) \/ Cardinality(old) >= k - 1 + 1)
        BY <1>5
      <3> QED
        BY <2>0, <3>1, <3>2
    <2>2. \A i \in Indices : step[i].to \subseteq Indices
      BY DEF Steps
    <2> HIDE DEF old, new
    <2>3. new \subseteq Indices /\ old \subseteq new
      BY <2>1, <2>2 DEF Extend
    <2>4. CASE Closed(old, step)
      <3>1. new = old
        BY <2>1, <2>4 DEF Closed, Extend
      <3> QED
        BY <2>1, <2>3, <2>4, <3>1 DEF new
    <2>5. CASE ~Closed(old, step) /\ Cardinality(old) >= k
      <3>1. PICK i \in old : ~(step[i].to \subseteq old)
        BY <2>5 DEF Closed
      <3>2. new # old
        BY <2>1, <3>1 DEF Extend
      <3>3. IsFiniteSet(new) /\ IsFiniteSet(old)
        BY <1>0, <2>3, FS_Subset
      <3>4. Cardinality(old) <= Cardinality(new) /\ Cardinality(old) # Cardinality(new)
        BY <2>3, <3>2, <3>3, FS_Subset
      <3>5. Cardinality(old) \in Nat /\ Cardinality(new) \in Nat
        BY <3>3, FS_CardinalityType
      <3>6. Cardinality(new) >= k + 1
        BY <2>5, <3>4, <3>5
      <3> QED
        BY <2>1, <2>3, <3>6 DEF new
    <2> QED
      BY <2>1, <2>4, <2>5
  <1>6. 0 .. n \subseteq Good
    <2> HIDE DEF Good
    <2> QED
      BY <1>1, <1>4, <1>5, StepInduction
  <1>7. n \in Good
    BY <1>1, <1>6
  <1>8. visited[n] \subseteq Indices /\ start \in visited[n]
    BY <1>7
  <1>9. Cardinality(visited[n]) \in Nat /\ Cardinality(visited[n]) <= n
    BY <1>0, <1>8, FS_Subset, FS_CardinalityType
  <1>10. Closed(visited[n], step)
    <2>1. Closed(visited[n], step) \/ Cardinality(visited[n]) >= n + 1
      BY <1>7
    <2> QED
      BY <1>1, <1>9, <2>1
  <1> QED
    BY <1>3, <1>8, <1>10

\* A graph of edges is one of pairs.
Pairs(truth) == \A e \in truth : e = <<e[1], e[2]>>

\* A traversal along truth is faithful if each of its steps is: it leads nowhere
\* but along truth, everywhere along truth unless it says that it is truncated,
\* and is not truncated where nothing is dark.
LEMMA FaithfulForward ==
    ASSUME leaves \in Seq(NoteRecords), NEW start \in Indices, NEW step \in Steps,
           NEW truth, Pairs(truth), NEW dark,
           \A i \in Indices : \A j \in step[i].to : <<i, j>> \in truth,
           \A i \in Indices : ~step[i].truncated => \A j : <<i, j>> \in truth => j \in step[i].to,
           dark = {} => \A i \in Indices \ {0} : ~step[i].truncated
    PROVE  Faithful(Traverse(start, step), start, truth, 1, dark)
  <1>1. PICK nodes \in SUBSET Indices :
            /\ start \in nodes /\ Closed(nodes, step)
            /\ Traverse(start, step) = [nodes |-> nodes,
                                        edges |-> UNION {{i} \X step[i].to : i \in nodes},
                                        truncated |-> {i \in nodes : step[i].truncated}]
    BY TraverseGraph
  <1> DEFINE graph == Traverse(start, step)
  <1>2. /\ graph.nodes = nodes /\ graph.edges = UNION {{i} \X step[i].to : i \in nodes}
        /\ graph.truncated = {i \in nodes : step[i].truncated}
    BY <1>1
  <1> HIDE DEF graph
  <1>3. ASSUME NEW e \in graph.edges PROVE e \in truth /\ e[1] \in graph.nodes /\ e[2] \in graph.nodes
    <2>1. PICK i \in nodes : e \in {i} \X step[i].to
      BY <1>2
    <2>2. PICK j \in step[i].to : e = <<i, j>>
      BY <2>1
    <2>3. j \in nodes
      BY <1>1 DEF Closed
    <2> QED
      BY <1>2, <2>2, <2>3
  <1>4. ASSUME NEW e \in truth, e[1] \in graph.nodes \ graph.truncated PROVE e \in graph.edges
    <2>1. e[1] \in nodes /\ ~step[e[1]].truncated /\ e = <<e[1], e[2]>>
      BY <1>2, <1>4 DEF Pairs
    <2>2. e[2] \in step[e[1]].to
      BY <2>1
    <2>3. e \in {e[1]} \X step[e[1]].to
      BY <2>1, <2>2
    <2> QED
      BY <1>2, <2>1, <2>3
  <1>5. dark = {} => graph.truncated \subseteq {0}
    BY <1>2
  <1> QED
    BY <1>1, <1>2, <1>3, <1>4, <1>5 DEF Faithful, graph

\* The same against truth, with the edges turned.
LEMMA FaithfulBackward ==
    ASSUME leaves \in Seq(NoteRecords), NEW start \in Indices, NEW step \in Steps,
           NEW truth, Pairs(truth), NEW dark,
           \A i \in Indices : \A j \in step[i].to : <<j, i>> \in truth,
           \A i \in Indices : ~step[i].truncated => \A j : <<j, i>> \in truth => j \in step[i].to,
           dark = {} => \A i \in Indices \ {0} : ~step[i].truncated
    PROVE  Faithful([Traverse(start, step) EXCEPT !.edges = {<<e[2], e[1]>> : e \in Traverse(start, step).edges}],
                    start, truth, 2, dark)
  <1>1. PICK nodes \in SUBSET Indices :
            /\ start \in nodes /\ Closed(nodes, step)
            /\ Traverse(start, step) = [nodes |-> nodes,
                                        edges |-> UNION {{i} \X step[i].to : i \in nodes},
                                        truncated |-> {i \in nodes : step[i].truncated}]
    BY TraverseGraph
  <1> DEFINE there == UNION {{i} \X step[i].to : i \in nodes}
             back == {<<e[2], e[1]>> : e \in there}
             graph == [Traverse(start, step) EXCEPT !.edges = {<<e[2], e[1]>> : e \in Traverse(start, step).edges}]
  <1>2. Traverse(start, step).edges = there
    BY <1>1
  <1>3. /\ graph.nodes = nodes /\ graph.edges = back
        /\ graph.truncated = {i \in nodes : step[i].truncated}
    BY <1>1, <1>2
  <1> HIDE DEF graph
  <1>4. ASSUME NEW e \in graph.edges PROVE e \in truth /\ e[1] \in graph.nodes /\ e[2] \in graph.nodes
    <2>1. PICK f \in there : e = <<f[2], f[1]>>
      BY <1>3
    <2>2. PICK i \in nodes : f \in {i} \X step[i].to
      BY <2>1
    <2>3. PICK j \in step[i].to : f = <<i, j>>
      BY <2>2
    <2>4. e = <<j, i>>
      BY <2>1, <2>3
    <2>5. j \in nodes
      BY <1>1 DEF Closed
    <2> QED
      BY <1>3, <2>4, <2>5
  <1>5. ASSUME NEW e \in truth, e[2] \in graph.nodes \ graph.truncated PROVE e \in graph.edges
    <2>1. e[2] \in nodes /\ ~step[e[2]].truncated /\ e = <<e[1], e[2]>>
      BY <1>3, <1>5 DEF Pairs
    <2>2. e[1] \in step[e[2]].to
      BY <2>1
    <2> DEFINE f == <<e[2], e[1]>>
    <2>3. f \in {e[2]} \X step[e[2]].to
      BY <2>2
    <2>4. f \in there
      BY <2>1, <2>3
    <2>5. <<f[2], f[1]>> = e
      BY <2>1
    <2> QED
      BY <1>3, <2>4, <2>5
  <1>6. dark = {} => graph.truncated \subseteq {0}
    BY <1>3
  <1> QED
    BY <1>1, <1>3, <1>4, <1>5, <1>6 DEF Faithful, graph

\* Lineage, and the children the nullifiers lead to, in terms of the spends.
LEMMA LineageSpends ==
    ASSUME AuditInv
    PROVE  /\ Pairs(Lineage)
           /\ \A q, i : <<q, i>> \in Lineage <=> \E s \in Spends : q \in s.ins /\ i \in s.outs
           /\ \A q, i : i \in ChildrenOfSpend(q) <=> <<q, i>> \in Lineage
  <1>1. DOMAIN landed = 1 .. Len(landed)
    BY DEF AuditInv
  <1>2. Lineage = UNION {s.ins \X s.outs : s \in Spends}
    BY <1>1 DEF Lineage, Spends
  <1>3. Pairs(Lineage)
    BY <1>2 DEF Pairs
  <1>4. ASSUME NEW q, NEW i PROVE <<q, i>> \in Lineage <=> \E s \in Spends : q \in s.ins /\ i \in s.outs
    BY <1>2
  <1>5. ASSUME NEW q, NEW i PROVE i \in ChildrenOfSpend(q) <=> \E s \in Spends : q \in s.ins /\ i \in s.outs
    BY <1>1 DEF ChildrenOfSpend, Spends
  <1> QED
    BY <1>3, <1>4, <1>5

\* The parents of a note that does not hide them are those of any spend it is of.
LEMMA OriginOf ==
    ASSUME IInv, AuditInv, NEW s \in Spends, NEW i \in s.outs
    PROVE  /\ s.ins # {} /\ s.ins \subseteq 1 .. Len(leaves) - 1 /\ s.outs \subseteq 1 .. Len(leaves) - 1
           /\ NoteAt(i).parents # NoParents
           /\ NoteAt(i).parents # Hidden => ConsumedLeaves(NoteAt(i).parents) = s.ins
           /\ NoteAt(i).parents = Hidden =>
                /\ i + 1 \in s.outs
                /\ NoteAt(i + 1).parents \notin {NoParents, Hidden}
                /\ ConsumedLeaves(NoteAt(i + 1).parents) = s.ins
  <1>1. Made(leaves, s) /\ Len(leaves) \in Nat
    BY DEF AuditInv, Recorded, IInv, TypeOK
  <1>2. /\ s.ins # {} /\ s.ins \subseteq 1 .. Len(leaves) - 1 /\ s.outs \subseteq 1 .. Len(leaves) - 1
        /\ s.ins \subseteq 0 .. Len(leaves) - 1
    <2>1. s.ins # {} /\ s.ins \subseteq 1 .. Len(leaves) - 1 /\ s.outs \subseteq 1 .. Len(leaves) - 1
      BY <1>1 DEF Made
    <2> QED
      BY <1>1, <2>1
  <1>3. ASSUME NEW j \in s.outs, NoteAt(j).parents # Hidden PROVE ConsumedLeaves(NoteAt(j).parents) = s.ins
    <2>1. Sources(NoteAt(j).parents) = s.ins
      BY <1>1, <1>3 DEF Made, NoteAt
    <2> QED
      BY <1>2, <2>1 DEF ConsumedLeaves, Sources
  <1>4. \A j \in s.outs : NoteAt(j).parents # NoParents
    BY <1>1 DEF Made, NoteAt
  <1>5. ASSUME NoteAt(i).parents = Hidden PROVE i + 1 \in s.outs /\ NoteAt(i + 1).parents # Hidden
    <2>1. i + 1 \in s.outs /\ leaves[i + 2].parents # Hidden
      BY <1>1, <1>5 DEF Made, NoteAt
    <2>2. (i + 1) + 1 = i + 2
      BY <1>1, <1>2
    <2> QED
      BY <2>1, <2>2 DEF NoteAt
  <1> QED
    BY <1>2, <1>3, <1>4, <1>5

\* Forwards: a nullifier that is there was put there by one of the spends.
LEMMA ForwardFaithful ==
    ASSUME IInv, AuditInv, NEW start \in Indices, NEW dark
    PROVE  Faithful(ForwardTrace(start, dark), start, Lineage, 1, dark)
  <1> DEFINE step == [i \in Indices |-> ForwardStep(i, dark)]
  <1>1. leaves \in Seq(NoteRecords) /\ Len(leaves) \in Nat
    BY DEF IInv, TypeOK
  <1>2. /\ Pairs(Lineage)
        /\ \A q, i : <<q, i>> \in Lineage <=> \E s \in Spends : q \in s.ins /\ i \in s.outs
        /\ \A q, i : i \in ChildrenOfSpend(q) <=> <<q, i>> \in Lineage
    BY LineageSpends
  <1>3. \A i \in Indices : \/ ForwardStep(i, dark) = Truncated
                           \/ ForwardStep(i, dark) = Expansion({}) /\ ~Spent(i)
                           \/ /\ ForwardStep(i, dark) = Expansion(ChildrenOfSpend(i))
                              /\ ChildrenOfSpend(i) \subseteq Indices
    BY DEF ForwardStep, Expand, Indices
  <1>4. Truncated.to = {} /\ Truncated.truncated = TRUE
    BY DEF Truncated
  <1>5. \A to : Expansion(to).to = to /\ Expansion(to).truncated = FALSE
    BY DEF Expansion
  <1>6. step \in Steps
    <2>1. Truncated \in [to : SUBSET Indices, truncated : BOOLEAN]
      BY DEF Truncated
    <2>2. \A to \in SUBSET Indices : Expansion(to) \in [to : SUBSET Indices, truncated : BOOLEAN]
      BY DEF Expansion
    <2>3. \A i \in Indices : ForwardStep(i, dark) \in [to : SUBSET Indices, truncated : BOOLEAN]
      BY <1>3, <2>1, <2>2
    <2> QED
      BY <2>3 DEF Steps
  <1>7. \A i \in Indices : step[i] = ForwardStep(i, dark)
    OBVIOUS
  <1> HIDE DEF step
  <1>8. ASSUME NEW i \in Indices, NEW j \in step[i].to PROVE <<i, j>> \in Lineage
    <2>1. j \in ChildrenOfSpend(i)
      BY <1>3, <1>4, <1>5, <1>7, <1>8
    <2> QED
      BY <1>2, <2>1
  <1>9. \A s \in Spends : s.ins \subseteq nullifiers
    BY DEF AuditInv, Recorded
  <1>10. ASSUME NEW i \in Indices, ~step[i].truncated, NEW j, <<i, j>> \in Lineage PROVE j \in step[i].to
    <2>1. Spent(i) /\ j \in ChildrenOfSpend(i)
      BY <1>2, <1>9, <1>10 DEF Spent
    <2> QED
      BY <1>3, <1>4, <1>5, <1>7, <1>10, <2>1
  <1>11. ASSUME dark = {}, NEW i \in Indices \ {0} PROVE ~step[i].truncated
    <2>1. OpenLeaf(i, dark)
      BY <1>1, <1>11 DEF OpenLeaf, Indices
    <2>2. CASE ~Spent(i)
      BY <1>5, <1>7, <2>1, <2>2 DEF ForwardStep
    <2>3. CASE Spent(i)
      <3>1. PICK s \in Spends : i \in s.ins
        BY <2>3 DEF Spent, AuditInv, Recorded
      <3>2. Made(leaves, s)
        BY DEF AuditInv, Recorded
      <3>3. PICK j : j \in s.outs
        BY <3>2 DEF Made
      <3>4. ChildrenOfSpend(i) # {}
        BY <1>2, <3>1, <3>3
      <3>5. ASSUME NEW c \in ChildrenOfSpend(i) PROVE c \in 0 .. Len(leaves) - 1
        <4>1. PICK t \in Spends : c \in t.outs
          BY <1>2, <3>5
        <4>2. Made(leaves, t)
          BY DEF AuditInv, Recorded
        <4>3. c \in 1 .. Len(leaves) - 1
          BY <4>1, <4>2 DEF Made
        <4> QED
          BY <1>1, <4>3
      <3>6. ForwardStep(i, dark) = Expansion(ChildrenOfSpend(i))
        BY <2>1, <2>3, <3>4, <3>5 DEF ForwardStep, Expand
      <3> QED
        BY <1>5, <1>7, <3>6
    <2> QED
      BY <2>2, <2>3
  <1>12. Faithful(Traverse(start, step), start, Lineage, 1, dark)
    BY <1>1, <1>2, <1>6, <1>8, <1>10, <1>11, FaithfulForward
  <1> QED
    BY <1>12 DEF ForwardTrace, step

\* Backwards: what a note names is what it was made from, and the leaf after a memo
\* is asked only if the transaction of the memo spent what it names.
LEMMA BackwardFaithful ==
    ASSUME IInv, AuditInv, NEW start \in Indices, NEW dark
    PROVE  Faithful(BackwardTrace(start, dark), start, Lineage, 2, dark)
  <1> DEFINE step == [i \in Indices |-> BackwardStep(i, dark)]
             Records == [to : SUBSET Indices, truncated : BOOLEAN]
  <1>1. leaves \in Seq(NoteRecords) /\ Len(leaves) \in Nat
    BY DEF IInv, TypeOK
  <1>2. /\ Pairs(Lineage)
        /\ \A q, i : <<q, i>> \in Lineage <=> \E s \in Spends : q \in s.ins /\ i \in s.outs
        /\ \A q, i : i \in ChildrenOfSpend(q) <=> <<q, i>> \in Lineage
    BY LineageSpends
  <1>3. \A parents : ConsumedLeaves(parents) \in SUBSET Indices
    BY DEF ConsumedLeaves, Indices
  <1>4. \A i : BridgeHiddenParents(i, dark) \in SUBSET Indices
    BY <1>3 DEF BridgeHiddenParents
  <1>5. Truncated \in Records /\ Truncated.to = {} /\ Truncated.truncated = TRUE
    BY DEF Truncated
  <1>6. \A to : Expansion(to).to = to /\ Expansion(to).truncated = FALSE
    BY DEF Expansion
  <1>7. \A to \in SUBSET Indices : Expansion(to) \in Records /\ Expand(to) \in Records
    <2>1. \A to \in SUBSET Indices : Expansion(to) \in Records
      BY DEF Expansion
    <2> QED
      BY <1>5, <2>1 DEF Expand
  <1>8. \A to : Expand(to).to = to /\ (Expand(to).truncated <=> to = {})
    BY <1>5, <1>6 DEF Expand
  <1>9. step \in Steps
    <2>1. \A i \in Indices : BackwardStep(i, dark) \in Records
      BY <1>3, <1>4, <1>5, <1>7 DEF BackwardStep
    <2> QED
      BY <2>1 DEF Steps
  <1>10. \A i \in Indices : step[i] = BackwardStep(i, dark)
    OBVIOUS
  <1> HIDE DEF step, Records
  \* A leaf that opens is of one of the spends, or has no parents.
  <1>11. ASSUME NEW i \in Indices, OpenLeaf(i, dark), NoteAt(i).parents # NoParents
         PROVE  \E s \in Spends : i \in s.outs
    <2>1. i \in 1 .. Len(leaves) - 1
      BY <1>11 DEF OpenLeaf
    <2> QED
      BY <1>11, <2>1 DEF AuditInv, Recorded, NoteAt
  <1>12. ASSUME NEW i \in Indices, NEW j \in step[i].to PROVE <<j, i>> \in Lineage
    <2>1. OpenLeaf(i, dark) /\ NoteAt(i).parents # NoParents
      BY <1>5, <1>6, <1>10, <1>12 DEF BackwardStep
    <2>2. PICK s \in Spends : i \in s.outs
      BY <1>11, <2>1
    <2>3. CASE NoteAt(i).parents = Hidden
      <3>1. j \in BridgeHiddenParents(i, dark)
        BY <1>8, <1>10, <1>12, <2>1, <2>3 DEF BackwardStep
      <3>2. i \in ChildrenOfSpend(j)
        BY <3>1 DEF BridgeHiddenParents
      <3> QED
        BY <1>2, <3>2
    <2>4. CASE NoteAt(i).parents # Hidden
      <3>1. j \in ConsumedLeaves(NoteAt(i).parents)
        BY <1>8, <1>10, <1>12, <2>1, <2>4 DEF BackwardStep
      <3>2. j \in s.ins
        BY <2>2, <2>4, <3>1, OriginOf
      <3> QED
        BY <1>2, <2>2, <3>2
    <2> QED
      BY <2>3, <2>4
  <1>13. ASSUME NEW i \in Indices, ~step[i].truncated, NEW j, <<j, i>> \in Lineage PROVE j \in step[i].to
    <2>1. PICK s \in Spends : j \in s.ins /\ i \in s.outs
      BY <1>2, <1>13
    <2>2. OpenLeaf(i, dark)
      BY <1>5, <1>10, <1>13 DEF BackwardStep
    <2>3. NoteAt(i).parents # NoParents
      BY <2>1, OriginOf
    <2>4. CASE NoteAt(i).parents = Hidden
      <3>1. step[i] = Expand(BridgeHiddenParents(i, dark))
        BY <1>10, <2>2, <2>3, <2>4 DEF BackwardStep
      <3>2. BridgeHiddenParents(i, dark) # {}
        BY <1>8, <1>13, <3>1
      <3>3. BridgeHiddenParents(i, dark) = ConsumedLeaves(NoteAt(i + 1).parents)
        BY <3>2 DEF BridgeHiddenParents
      <3>4. ConsumedLeaves(NoteAt(i + 1).parents) = s.ins
        BY <2>1, <2>4, OriginOf
      <3> QED
        BY <1>8, <2>1, <3>1, <3>3, <3>4
    <2>5. CASE NoteAt(i).parents # Hidden
      <3>1. step[i] = Expand(ConsumedLeaves(NoteAt(i).parents))
        BY <1>10, <2>2, <2>3, <2>5 DEF BackwardStep
      <3>2. ConsumedLeaves(NoteAt(i).parents) = s.ins
        BY <2>1, <2>5, OriginOf
      <3> QED
        BY <1>8, <2>1, <3>1, <3>2
    <2> QED
      BY <2>4, <2>5
  <1>14. ASSUME dark = {}, NEW i \in Indices \ {0} PROVE ~step[i].truncated
    <2>0. i \in Indices
      OBVIOUS
    <2>1. \A q : OpenLeaf(q, dark) <=> q \in 1 .. Len(leaves) - 1
      BY <1>14 DEF OpenLeaf
    <2>2. OpenLeaf(i, dark)
      BY <1>1, <2>1 DEF Indices
    <2>3. CASE NoteAt(i).parents = NoParents
      BY <1>6, <1>10, <2>0, <2>2, <2>3 DEF BackwardStep
    <2>4. CASE NoteAt(i).parents # NoParents
      <3>1. PICK s \in Spends : i \in s.outs
        BY <1>11, <2>0, <2>2, <2>4
      <3>2. s.ins # {} /\ s.ins \subseteq 1 .. Len(leaves) - 1 /\ s.outs \subseteq 1 .. Len(leaves) - 1
        BY <3>1, OriginOf
      <3>3. CASE NoteAt(i).parents = Hidden
        <4>1. /\ i + 1 \in s.outs
              /\ NoteAt(i + 1).parents \notin {NoParents, Hidden}
              /\ ConsumedLeaves(NoteAt(i + 1).parents) = s.ins
          BY <3>1, <3>3, OriginOf
        <4>2. OpenLeaf(i + 1, dark)
          BY <2>1, <3>2, <4>1
        <4>3. \A q \in s.ins : OpenLeaf(q, dark) /\ i \in ChildrenOfSpend(q)
          BY <1>2, <2>1, <3>1, <3>2
        <4>4. BridgeHiddenParents(i, dark) = s.ins
          BY <4>1, <4>2, <4>3 DEF BridgeHiddenParents
        <4>5. step[i] = Expand(s.ins)
          BY <1>10, <2>0, <2>2, <2>4, <3>3, <4>4 DEF BackwardStep
        <4> QED
          BY <1>8, <3>2, <4>5
      <3>4. CASE NoteAt(i).parents # Hidden
        <4>1. ConsumedLeaves(NoteAt(i).parents) = s.ins
          BY <3>1, <3>4, OriginOf
        <4>2. step[i] = Expand(s.ins)
          BY <1>10, <2>0, <2>2, <2>4, <3>4, <4>1 DEF BackwardStep
        <4> QED
          BY <1>8, <3>2, <4>2
      <3> QED
        BY <3>3, <3>4
    <2> QED
      BY <2>3, <2>4
  <1>15. Faithful([Traverse(start, step) EXCEPT !.edges = {<<e[2], e[1]>> : e \in Traverse(start, step).edges}],
                  start, Lineage, 2, dark)
    BY <1>1, <1>2, <1>9, <1>12, <1>13, <1>14, FaithfulBackward
  <1> QED
    BY <1>15 DEF BackwardTrace, step

\* What a note was made from, by the record of its spend.
LEMMA DerivedHolds ==
    ASSUME IInv, AuditInv, NEW i \in Indices
    PROVE  Derived(i, Lineage)
  <1> DEFINE from == {e[1] : e \in {f \in Lineage : f[2] = i}}
  <1>1. /\ Pairs(Lineage)
        /\ \A q, j : <<q, j>> \in Lineage <=> \E s \in Spends : q \in s.ins /\ j \in s.outs
    BY LineageSpends
  <1>2. \A q : q \in from <=> \E s \in Spends : q \in s.ins /\ i \in s.outs
    <2>1. \A q : q \in from <=> <<q, i>> \in Lineage
      <3>1. ASSUME NEW q \in from PROVE <<q, i>> \in Lineage
        BY <1>1 DEF Pairs
      <3>2. ASSUME NEW q, <<q, i>> \in Lineage PROVE q \in from
        <4>1. <<q, i>>[1] = q /\ <<q, i>>[2] = i
          OBVIOUS
        <4> QED
          BY <3>2, <4>1
      <3> QED
        BY <3>1, <3>2
    <2> QED
      BY <1>1, <2>1
  <1> HIDE DEF from
  <1> SUFFICES ASSUME from # {}
               PROVE  /\ NoteAt(i).value <= Cardinality(UNION {Units(q) : q \in from})
                      /\ \A q \in from :
                          /\ q < i
                          /\ NoteAt(q).asset = NoteAt(i).asset
                          /\ NoteAt(q).owner \in Groups /\ NoteAt(i).parents # Hidden
                              => NoteAt(i).owner = NoteAt(q).owner
    BY DEF Derived, from
  <1>3. PICK s \in Spends : i \in s.outs
    BY <1>2
  <1>4. from = s.ins
    <2>1. ASSUME NEW t \in Spends, i \in t.outs PROVE t.ins = s.ins
      <3>1. CASE NoteAt(i).parents = Hidden
        <4>1. ConsumedLeaves(NoteAt(i + 1).parents) = s.ins
          BY <1>3, <3>1, OriginOf
        <4>2. ConsumedLeaves(NoteAt(i + 1).parents) = t.ins
          BY <2>1, <3>1, OriginOf
        <4> QED
          BY <4>1, <4>2
      <3>2. CASE NoteAt(i).parents # Hidden
        <4>1. ConsumedLeaves(NoteAt(i).parents) = s.ins
          BY <1>3, <3>2, OriginOf
        <4>2. ConsumedLeaves(NoteAt(i).parents) = t.ins
          BY <2>1, <3>2, OriginOf
        <4> QED
          BY <4>1, <4>2
      <3> QED
        BY <3>1, <3>2
    <2> QED
      BY <1>2, <1>3, <2>1
  <1>5. Made(leaves, s)
    BY DEF AuditInv, Recorded
  <1>6. \A q : Units(q) = UnitsOf(q, leaves[q + 1].value)
    BY DEF Units, UnitsOf, NoteAt
  <1>7. NoteAt(i).value <= Cardinality(UNION {Units(q) : q \in from})
    <2>1. {Units(q) : q \in from} = {UnitsOf(q, leaves[q + 1].value) : q \in s.ins}
      BY <1>4, <1>6
    <2>2. leaves[i + 1].value <= Cardinality(UNION {UnitsOf(q, leaves[q + 1].value) : q \in s.ins})
      BY <1>3, <1>5 DEF Made
    <2> QED
      BY <2>1, <2>2 DEF NoteAt
  <1>8. ASSUME NEW q \in from
        PROVE  /\ q < i
               /\ NoteAt(q).asset = NoteAt(i).asset
               /\ NoteAt(q).owner \in Groups /\ NoteAt(i).parents # Hidden => NoteAt(i).owner = NoteAt(q).owner
    BY <1>3, <1>4, <1>5 DEF Made, NoteAt
  <1> QED
    BY <1>7, <1>8

\* The lineage the tracer finds is the true one, from any note and in both
\* directions, across hidden parents, for every number of leaves and spends and
\* whatever part of the chain is withheld or altered (chainTrace.ts); and value
\* is only ever passed down it, within an asset and, payments aside, a group.
THEOREM AuditProvenance == AuditSpec => []Provenance
  <1>1. IInv /\ AuditInv => Provenance
    BY ForwardFaithful, BackwardFaithful, DerivedHolds DEF Provenance
  <1> QED
    BY <1>1, SpecAuditInv, PTL

=============================================================================
