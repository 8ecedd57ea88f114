----------------------------- MODULE ShieldedPool -----------------------------
(***************************************************************************)
(* The kakure_pool program (programs/kakure_pool/src/processor.rs), the    *)
(* seven circuits whose proofs it accepts (circuits/) and the clients that *)
(* make and submit those proofs (packages/sdk/src/tx, solana).             *)
(*                                                                         *)
(* A Solana instruction is all-or-nothing, so each handler is one action   *)
(* whose guard is the conjunction of its checks.  What is not atomic is    *)
(* the life of a proof: it is made from one state of the pool and arrives, *)
(* possibly more than once and possibly never, in another, after roots     *)
(* have been evicted, notes spent, keys rotated and verifiers replaced.    *)
(*                                                                         *)
(* A root is the length of the prefix of leaves it commits to, as in       *)
(* CommitmentLog, which LeanIMT implements.  A nullifier is a hash of      *)
(* (psi, leaf_index) with psi fixed by the leaf, so it is identified with  *)
(* the leaf index.  Leaf indices start at 0: leaf i is leaves[i + 1].      *)
(***************************************************************************)
EXTENDS Integers, Sequences, FiniteSets, RootRing

CONSTANTS
    None,               \* Pubkey::default(), and the absent owner, mint or key
    Mints,              \* token mints
    AssetIds,           \* the 20-byte asset ids
    AssetIdOf,          \* asset_id_bytes: Mints -> AssetIds; truncated, may collide
    TransferFee,        \* what a Token-2022 mint withholds from each transfer
    Supply,             \* tokens of each mint
    Users,              \* owners of STANDARD notes
    Groups,             \* group public keys, owners of MULTISIG notes
    ComplianceKeys,
    InitialKey,         \* the compliance key given to initialize
    Programs,           \* verifier programs
    InitialVerifiers,   \* the verifiers given to initialize
    Signers,
    UpgradeAuthority,   \* upgrade authority of the deployed program
    Capacity,           \* 2^TREE_DEPTH leaves
    MaxAmount,          \* bound on the value of a note
    MaxVersion,         \* bound on compliance_version
    MaxProofs,          \* bound on the proofs in circulation
    ReplaceableCircuits,\* bound: the circuits whose verifier is replaced
    PauseValues,        \* bound: BOOLEAN, or {} if the pool is never paused
    DonatedMints        \* bound: the mints sent to the vault without a deposit

VARIABLES
    authority,          \* Pool.authority, None before initialize
    paused,             \* Pool.paused
    complianceVersion,  \* Pool.compliance_version
    compliancePk,       \* Pool.compliance_pk_x/y
    verifiers,          \* Pool.verifiers
    leaves,             \* the notes under the leaves, next_leaf_index = Len(leaves)
    ring,               \* Pool.roots, Pool.root_cursor
    nullifiers,         \* leaf indices whose nullifier account exists
    registry,           \* asset accounts: asset id -> mint, None if not created
    vault,              \* the pool's token account of each mint
    wallet,             \* tokens of each mint outside the pool
    log,                \* events emitted, in order
    proofs              \* proofs made and not yet forgotten

adminVars == <<authority, paused, complianceVersion, compliancePk, verifiers>>
treeVars == <<leaves, ring, nullifiers>>
tokenVars == <<registry, vault, wallet>>
vars == <<adminVars, treeVars, tokenVars, log, proofs>>

Standard == {"transfer", "withdraw"}
Multisig == {"transfer_multisig", "split_multisig", "join_multisig", "withdraw_multisig"}
Circuits == {"deposit"} \union Standard \union Multisig

Owners == Users \union Groups
Amounts == 0 .. MaxAmount

Hidden == <<-1, -1>>    \* PARENTS_HIDDEN
NoParents == <<0, 0>>

Note(asset, value, owner, parents, cpk) ==
    [asset |-> asset, value |-> value, owner |-> owner, parents |-> parents, cpk |-> cpk]

\* The genesis leaf is a hash of the cluster's genesis hash: no note opens it.
GenesisNote == Note(None, 0, None, NoParents, None)

NoteRecords ==
    [asset : AssetIds \union {None}, value : Amounts, owner : Owners \union {None},
     parents : (-1 .. Capacity) \X (-1 .. Capacity), cpk : ComplianceKeys \union {None}]

ProofRecords ==
    [circuit : Circuits, program : Programs, cpk : ComplianceKeys, root : 0 .. Capacity,
     ins : Seq(1 .. Capacity), outs : Seq(NoteRecords), asset : AssetIds, value : Amounts]

NoteAt(i) == leaves[i + 1]

ASSUME PoolAssumption ==
    /\ None \notin Mints \union AssetIds \union Owners \union ComplianceKeys
                   \union Programs \union Signers
    /\ AssetIdOf \in [Mints -> AssetIds]
    /\ TransferFee \in [Mints -> Nat]
    /\ Supply \in [Mints -> Nat]
    /\ InitialKey \in ComplianceKeys
    /\ InitialVerifiers \in [Circuits -> Programs \union {None}]
    /\ UpgradeAuthority \in Signers
    /\ Users \intersect Groups = {}
    /\ Capacity \in Nat \ {0}
    /\ MaxAmount \in Nat /\ MaxVersion \in Nat /\ MaxProofs \in Nat
    /\ ReplaceableCircuits \subseteq Circuits
    /\ PauseValues \subseteq BOOLEAN
    /\ DonatedMints \subseteq Mints

-----------------------------------------------------------------------------
(* Administration                                                          *)

NoteInserted(i, note) == [type |-> "note", index |-> i, note |-> note, root |-> i + 1]
NullifierSpent(i) == [type |-> "spent", index |-> i]
ComplianceKeyRotated(v, k) == [type |-> "rotated", version |-> v, cpk |-> k]

\* Variant: genesis goes into the tree without an event (a bug since fixed, see
\* the comment in initialize).
InitializeSilent(signer) ==
    /\ signer = UpgradeAuthority
    /\ authority = None
    /\ authority' = signer
    /\ paused' = FALSE
    /\ complianceVersion' = 0
    /\ compliancePk' = InitialKey
    /\ verifiers' = InitialVerifiers
    /\ leaves' = <<GenesisNote>>
    /\ ring' = PushRoot(ring, 1)
    /\ UNCHANGED <<nullifiers, tokenVars, log, proofs>>

Initialize(signer) ==
    /\ signer = UpgradeAuthority
    /\ authority = None
    /\ authority' = signer
    /\ paused' = FALSE
    /\ complianceVersion' = 0
    /\ compliancePk' = InitialKey
    /\ verifiers' = InitialVerifiers
    /\ leaves' = <<GenesisNote>>
    /\ ring' = PushRoot(ring, 1)
    /\ log' = <<NoteInserted(0, GenesisNote)>>
    /\ UNCHANGED <<nullifiers, tokenVars, proofs>>

IsAuthority(signer) == authority # None /\ signer = authority

SetVerifier(signer, circuit, program) ==
    /\ IsAuthority(signer)
    /\ circuit \in ReplaceableCircuits
    /\ verifiers' = [verifiers EXCEPT ![circuit] = program]
    /\ UNCHANGED <<authority, paused, complianceVersion, compliancePk>>
    /\ UNCHANGED <<treeVars, tokenVars, log, proofs>>

RotateComplianceKey(signer, key) ==
    /\ IsAuthority(signer)
    /\ complianceVersion < MaxVersion
    /\ compliancePk' = key
    /\ complianceVersion' = complianceVersion + 1
    /\ log' = Append(log, ComplianceKeyRotated(complianceVersion + 1, key))
    /\ UNCHANGED <<authority, paused, verifiers, treeVars, tokenVars, proofs>>

SetPaused(signer, value) ==
    /\ IsAuthority(signer)
    /\ paused' = value
    /\ UNCHANGED <<authority, complianceVersion, compliancePk, verifiers>>
    /\ UNCHANGED <<treeVars, tokenVars, log, proofs>>

-----------------------------------------------------------------------------
(* Proving: a client assembles a witness from the pool it sees, and a      *)
(* proof exists only if the witness satisfies the circuit.                 *)

\* spend_membership_nullifier: leaf i is under the root and is a note of one of
\* the owners, who alone know the key (or hold the group's signature).
Opens(i, root, owners) == i < root /\ NoteAt(i).owner \in owners

\* Variant: the public amount left out of the sum.
ConservedPrivately(totalIn, totalOut, publicOut) == totalIn = totalOut

\* conservation::assert_conserved, on checked u128 sums.
Conserved(totalIn, totalOut, publicOut) == totalIn = totalOut + publicOut

\* Roots the client's builder finds in the ring (rootIndexFor).
KnownRoots == {RootAt(ring, s) : s \in Slots} \ {0}

\* The change of a multisig spend is pinned to the group; of a standard spend
\* to some STANDARD owner.
ChangeOwners(circuit, owner) == IF circuit \in Multisig THEN {owner} ELSE Users

Spenders(circuit) == IF circuit \in Multisig THEN Groups ELSE Users

MakeProof(circuit, root, ins, outs, asset, value) ==
    /\ authority # None
    /\ verifiers[circuit] # None
    /\ LET p == [circuit |-> circuit, program |-> verifiers[circuit], cpk |-> compliancePk,
                 root |-> root, ins |-> ins, outs |-> outs, asset |-> asset, value |-> value]
       IN  /\ p \notin proofs
           /\ Cardinality(proofs) < MaxProofs
           /\ proofs' = proofs \union {p}
    /\ UNCHANGED <<adminVars, treeVars, tokenVars, log>>

ProveDeposit ==
    \E asset \in AssetIds, value \in Amounts, owner \in Owners :
        MakeProof("deposit", 0, << >>,
                  <<Note(asset, value, owner, NoParents, compliancePk)>>, asset, value)

ProveTransfer(circuit) ==
    \E root \in KnownRoots, i \in 1 .. Len(leaves) - 1, to \in Owners, paid, kept \in Amounts :
        /\ Opens(i, root, Spenders(circuit))
        /\ Conserved(NoteAt(i).value, paid + kept, 0)
        /\ \E back \in ChangeOwners(circuit, NoteAt(i).owner) :
            MakeProof(circuit, root, <<i>>,
                      <<Note(NoteAt(i).asset, paid, to, Hidden, compliancePk),
                        Note(NoteAt(i).asset, kept, back, <<i, 0>>, compliancePk)>>,
                      NoteAt(i).asset, 0)

ProveSplit ==
    \E root \in KnownRoots, i \in 1 .. Len(leaves) - 1, first, second \in Amounts :
        /\ Opens(i, root, Groups)
        /\ Conserved(NoteAt(i).value, first + second, 0)
        /\ MakeProof("split_multisig", root, <<i>>,
                     <<Note(NoteAt(i).asset, first, NoteAt(i).owner, <<i, 0>>, compliancePk),
                       Note(NoteAt(i).asset, second, NoteAt(i).owner, <<i, 0>>, compliancePk)>>,
                     NoteAt(i).asset, 0)

ProveJoin ==
    \E root \in KnownRoots, i, j \in 1 .. Len(leaves) - 1, sum \in Amounts :
        /\ Opens(i, root, Groups) /\ Opens(j, root, Groups)
        /\ i < j
        /\ NoteAt(i).owner = NoteAt(j).owner
        /\ NoteAt(i).asset = NoteAt(j).asset
        /\ Conserved(NoteAt(i).value + NoteAt(j).value, sum, 0)
        /\ MakeProof("join_multisig", root, <<i, j>>,
                     <<Note(NoteAt(i).asset, sum, NoteAt(i).owner, <<i, j>>, compliancePk)>>,
                     NoteAt(i).asset, 0)

ProveWithdraw(circuit) ==
    \E root \in KnownRoots, i \in 1 .. Len(leaves) - 1, value, kept \in Amounts :
        /\ Opens(i, root, Spenders(circuit))
        /\ Conserved(NoteAt(i).value, kept, value)
        /\ \E back \in ChangeOwners(circuit, NoteAt(i).owner) :
            MakeProof(circuit, root, <<i>>,
                      <<Note(NoteAt(i).asset, kept, back, <<i, 0>>, compliancePk)>>,
                      NoteAt(i).asset, value)

\* A proof is lost, or its transaction expires.
Forget(p) ==
    /\ proofs' = proofs \ {p}
    /\ UNCHANGED <<adminVars, treeVars, tokenVars, log>>

-----------------------------------------------------------------------------
(* The proof-carrying handlers.  Arguments that are not bound by the proof *)
(* (the slot of the root, the amount, the mint) are the submitter's.       *)

\* Variant: the compliance key taken from the submitter, as in an earlier wire
\* format, and not compared.
VerifyCpiAnyKey(p) ==
    /\ p.program = verifiers[p.circuit]
    /\ verifiers[p.circuit] # None

\* verify_cpi: the pool injects its own compliance key.
VerifyCpi(p) ==
    /\ p.program = verifiers[p.circuit]
    /\ verifiers[p.circuit] # None
    /\ p.cpk = compliancePk

\* resolve_root: a slot never written is refused; the proof is checked against
\* the root found.
ResolveRoot(p, slot) == RootAt(ring, slot) # 0 /\ RootAt(ring, slot) = p.root

Spent(i) == i \in nullifiers

\* Variant: the nullifier account created without looking at its owner.
CreateNullifiersAgain(p) ==
    nullifiers' = nullifiers \union {p.ins[k] : k \in DOMAIN p.ins}

\* create_nullifier for each input, in order: the second sees the first.
CreateNullifiers(p) ==
    /\ ~Spent(p.ins[1])
    /\ Len(p.ins) = 2 => ~Spent(p.ins[2]) /\ p.ins[1] # p.ins[2]
    /\ nullifiers' = nullifiers \union {p.ins[k] : k \in DOMAIN p.ins}

SpentEvents(p) == [k \in 1 .. Len(p.ins) |-> NullifierSpent(p.ins[k])]

\* Variant: room for one leaf more than the tree holds.
RoomOffByOne(k) == Len(leaves) + k <= Capacity + 1

\* merkle::insert refuses a leaf once next_leaf_index has reached 2^TREE_DEPTH.
Room(k) == Len(leaves) + k <= Capacity

\* insert_and_emit of one leaf, then of a second one.
InsertOne(p) ==
    LET n == Len(leaves)
    IN  /\ Room(1)
        /\ leaves' = Append(leaves, p.outs[1])
        /\ ring' = PushRoot(ring, n + 1)
        /\ log' = Append(log, NoteInserted(n, p.outs[1])) \o SpentEvents(p)

InsertTwo(p) ==
    LET n == Len(leaves)
    IN  /\ Room(2)
        /\ leaves' = Append(Append(leaves, p.outs[1]), p.outs[2])
        /\ ring' = PushRoot(PushRoot(ring, n + 1), n + 2)
        /\ log' = Append(Append(log, NoteInserted(n, p.outs[1])), NoteInserted(n + 1, p.outs[2]))
                    \o SpentEvents(p)

\* TransferChecked of a token program: the receiver of a fee mint gets less.
Received(mint, amount) == IF amount > TransferFee[mint] THEN amount - TransferFee[mint] ELSE 0

\* Variant: an existing asset account taken over whatever its mint.
AssetAccountAny(mint) == TRUE

\* The registered asset account of a mint, at the address derived from its asset
\* id: created by the first deposit, it names its mint forever.
AssetAccountFits(mint) == registry[AssetIdOf[mint]] \in {None, mint}

\* deposit does not derive the pool's address; it can write only to an account of
\* the program's that has the pool's length, which is the pool once initialized.
Deposit(p, mint, amount) ==
    /\ p.circuit = "deposit"
    /\ authority # None
    /\ p.value = amount
    /\ p.asset = AssetIdOf[mint]
    /\ ~paused
    /\ InsertOne(p)
    /\ VerifyCpi(p)
    /\ AssetAccountFits(mint)
    /\ registry' = [registry EXCEPT ![AssetIdOf[mint]] = mint]
    /\ wallet[mint] >= amount
    /\ wallet' = [wallet EXCEPT ![mint] = @ - amount]
    /\ vault' = [vault EXCEPT ![mint] = @ + Received(mint, amount)]
    /\ UNCHANGED <<adminVars, nullifiers, proofs>>

SpendChecks(p, slot) ==
    /\ authority # None
    /\ ~paused
    /\ ResolveRoot(p, slot)
    /\ CreateNullifiers(p)
    /\ VerifyCpi(p)

TransferLike(p, slot) ==
    /\ p.circuit \in {"transfer", "transfer_multisig"}
    /\ SpendChecks(p, slot)
    /\ InsertTwo(p)
    /\ UNCHANGED <<adminVars, tokenVars, proofs>>

SplitMultisig(p, slot) ==
    /\ p.circuit = "split_multisig"
    /\ SpendChecks(p, slot)
    /\ InsertTwo(p)
    /\ UNCHANGED <<adminVars, tokenVars, proofs>>

JoinMultisig(p, slot) ==
    /\ p.circuit = "join_multisig"
    /\ SpendChecks(p, slot)
    /\ InsertOne(p)
    /\ UNCHANGED <<adminVars, tokenVars, proofs>>

\* What an asset account says: a mint and its vault.  The pool's token account of
\* a mint is identified with the mint.
AssetAccounts == [mint : Mints, vault : Mints]

\* The asset account of a withdrawal is the submitter's and is read by its length
\* alone: unlike deposit, withdraw_like derives no address and looks at no owner,
\* so it need not be the registered one.  The vault has to be the one it names,
\* and TransferChecked refuses a token account of another mint.
AssetAccountSays(account, mint) == account.mint = mint /\ account.vault = mint

WithdrawLike(p, slot, mint, amount) ==
    /\ p.circuit \in {"withdraw", "withdraw_multisig"}
    /\ p.value = amount
    /\ \E account \in AssetAccounts : AssetAccountSays(account, mint)
    /\ p.asset = AssetIdOf[mint]
    /\ SpendChecks(p, slot)
    /\ InsertOne(p)
    /\ vault[mint] >= amount
    /\ vault' = [vault EXCEPT ![mint] = @ - amount]
    /\ wallet' = [wallet EXCEPT ![mint] = @ + Received(mint, amount)]
    /\ UNCHANGED <<adminVars, registry, proofs>>

\* Anyone may send tokens to the pool's token account without a deposit.
Donate(mint) ==
    /\ wallet[mint] > 0
    /\ wallet' = [wallet EXCEPT ![mint] = @ - 1]
    /\ vault' = [vault EXCEPT ![mint] = @ + Received(mint, 1)]
    /\ UNCHANGED <<adminVars, treeVars, registry, log, proofs>>

-----------------------------------------------------------------------------
Init ==
    /\ authority = None
    /\ paused = FALSE
    /\ complianceVersion = 0
    /\ compliancePk = None
    /\ verifiers = [c \in Circuits |-> None]
    /\ leaves = << >>
    /\ ring = EmptyRing(0)
    /\ nullifiers = {}
    /\ registry = [a \in AssetIds |-> None]
    /\ vault = [m \in Mints |-> 0]
    /\ wallet = Supply
    /\ log = << >>
    /\ proofs = {}

Admin ==
    \E signer \in Signers :
        \/ Initialize(signer)
        \/ \E c \in Circuits, program \in Programs \union {None} : SetVerifier(signer, c, program)
        \/ \E key \in ComplianceKeys : RotateComplianceKey(signer, key)
        \/ \E value \in PauseValues : SetPaused(signer, value)

Prove ==
    \/ ProveDeposit
    \/ \E c \in {"transfer", "transfer_multisig"} : ProveTransfer(c)
    \/ ProveSplit
    \/ ProveJoin
    \/ \E c \in {"withdraw", "withdraw_multisig"} : ProveWithdraw(c)

Submit ==
    \E p \in proofs :
        \/ \E mint \in Mints, amount \in Amounts : Deposit(p, mint, amount)
        \/ \E slot \in Slots :
            \/ TransferLike(p, slot)
            \/ SplitMultisig(p, slot)
            \/ JoinMultisig(p, slot)
            \/ \E mint \in Mints, amount \in Amounts : WithdrawLike(p, slot, mint, amount)

Next ==
    \/ Admin
    \/ Prove
    \/ Submit
    \/ \E p \in proofs : Forget(p)
    \/ \E mint \in DonatedMints : Donate(mint)

Spec == Init /\ [][Next]_vars

-----------------------------------------------------------------------------
(* Properties                                                              *)

TypeOK ==
    /\ authority \in Signers \union {None}
    /\ paused \in BOOLEAN
    /\ complianceVersion \in 0 .. MaxVersion
    /\ compliancePk \in ComplianceKeys \union {None}
    /\ verifiers \in [Circuits -> Programs \union {None}]
    /\ leaves \in Seq(NoteRecords)
    /\ Len(leaves) <= Capacity
    /\ ring \in [roots : [Slots -> 0 .. Len(leaves)], cursor : Slots]
    /\ nullifiers \subseteq 1 .. Len(leaves) - 1
    /\ registry \in [AssetIds -> Mints \union {None}]
    /\ vault \in [Mints -> Nat]
    /\ wallet \in [Mints -> Nat]
    /\ proofs \subseteq ProofRecords

\* The units of value a holder of unspent notes of an asset could still withdraw:
\* unit u of leaf i, for every unspent leaf i.
UnspentOf(asset) ==
    {i \in 0 .. Len(leaves) - 1 : ~Spent(i) /\ NoteAt(i).asset = asset}

Units(i) == {i} \X (1 .. NoteAt(i).value)

Claims(asset) == UNION {Units(i) : i \in UnspentOf(asset)}

Backed(asset) ==
    Cardinality(Claims(asset)) <= IF registry[asset] = None THEN 0 ELSE vault[registry[asset]]

\* Solvency: whatever was deposited, transferred, split, joined and withdrawn, in
\* whatever order the proofs landed, the vault of a mint without transfer fee
\* holds every unit that unspent notes of its asset claim; an asset without a
\* registered mint has no claims at all.
Solvent ==
    \A asset \in AssetIds :
        (registry[asset] # None => TransferFee[registry[asset]] = 0) => Backed(asset)

\* A withdraw proof whose note is unspent is never refused for want of an asset
\* account or, the mint having no transfer fee, of tokens, however much others
\* withdrew while it was in flight.
Redeemable ==
    \A p \in proofs :
        p.circuit \in {"withdraw", "withdraw_multisig"} /\ ~Spent(p.ins[1]) =>
            \E mint \in Mints :
                /\ registry[p.asset] = mint
                /\ AssetIdOf[mint] = p.asset
                /\ TransferFee[mint] = 0 => vault[mint] >= p.value

\* A note is nullified at most once, though a proof may be submitted again and
\* several proofs may spend the same note, alone or in a join.
SpentOnce ==
    \A a, b \in DOMAIN log :
        log[a].type = "spent" /\ log[b].type = "spent" /\ log[a].index = log[b].index => a = b

\* The slot of the ring a proof's root is in can be resolved exactly until
\* RootRingSize further leaves have been inserted.
RootRetention ==
    \A p \in proofs :
        p.circuit # "deposit" =>
            ((\E s \in Slots : ResolveRoot(p, s)) <=> Len(leaves) - p.root < RootRingSize)

\* The slot a client resolved when it built the instruction remains right for as
\* long as the root is retained.
RootIndexStable ==
    [][\A p \in proofs, s \in Slots :
            p.circuit # "deposit" /\ ResolveRoot(p, s) /\ Len(leaves') - p.root < RootRingSize
                => ring'.roots[s] = p.root]_vars

\* The compliance key announced by the events up to position k of the log.
KeyInForce(k) ==
    LET rotations == {j \in 1 .. k : log[j].type = "rotated"}
    IN  IF rotations = {} THEN InitialKey
        ELSE log[CHOOSE j \in rotations : \A h \in rotations : h <= j].cpk

\* Every note is encrypted to the key in force where it stands in the event log,
\* so an auditor with the rotation events opens all of them; a proof made
\* before a rotation cannot slip in after it.
Auditable ==
    \A k \in DOMAIN log :
        log[k].type = "note" /\ log[k].index > 0 => log[k].note.cpk = KeyInForce(k)

\* The note events among the first k of the log.
NotesUpTo(k) == {j \in 1 .. k : log[j].type = "note"}

\* The event log alone reproduces the pool: it is all the indexer sees.  The nth
\* note event carries leaf index n - 1, the leaf and the root of that prefix, there
\* is one for every leaf, and the spent events name exactly the nullifiers.
LogReplays ==
    /\ Cardinality(NotesUpTo(Len(log))) = Len(leaves)
    /\ \A k \in NotesUpTo(Len(log)) :
        LET n == Cardinality(NotesUpTo(k)) IN log[k] = NoteInserted(n - 1, leaves[n])
    /\ {log[k].index : k \in {j \in DOMAIN log : log[j].type = "spent"}} = nullifiers
=============================================================================
