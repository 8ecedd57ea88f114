# Kakure: a TLA+ verification project

Kakure is a shielded treasury on Solana. Tokens are deposited into a pool and become *notes*, hash
commitments in an append-only Merkle tree. A note is spent by a zero-knowledge proof that opens it under a
recent root, publishes its nullifier and creates new notes. Notes belong to single users or to groups that
sign with FROST. Every note is also encrypted to a compliance key, so that an auditor can follow it.

This directory holds TLA+ models of the system, TLC configurations that check them on small instances, and
proofs checked by TLAPS. `PROJECT.json` lists components, runs, mutants, findings, hazards and theorems, and
maps each definition to the source lines it models.

## 1. Inventory

| Component | State | Operations | Hard behaviour | What makes it correct |
|---|---|---|---|---|
| Pool program (`programs/kakure_pool`) | authority, pause flag, compliance key and version, seven verifiers, frontier of the tree, ring of 256 roots, nullifier accounts, asset accounts, vaults | initialize, set_verifier, rotate_compliance_key, set_paused, deposit, transfer(-multisig), split, join, withdraw(-multisig) | proofs arrive late, twice, in any order, after roots were evicted or keys rotated | solvency, no double spend, retained roots stay usable, log complete |
| Circuits (`circuits`) | none | seven circuits | what a proof guarantees is all the pool knows of a note | conservation, ownership, unique leaf index, lineage |
| SDK: wallet (`packages/sdk`: `state`, `discovery`, `sync`, `note`, `tx`) | durable index counter, key repository, preflight queue and authorisations, compliance key history, notes found | take, assemble, scan, save, restore, reconcile, plan | crash between reservation and use, lost counter, rotation under way, keys handed out during a scan | no index on its way to the chain twice, complete scan, plans that cover the amount |
| SDK: threshold (`tss`, `frost`, `threshold`) | dealers' commitments, shares, nonces, partial decryptions | Feldman and GJKR key generation, FROST rounds, committee decryption, lineage tracing | faulty dealers and signers, repeated partials, a server that hides leaves | shares of one key, no honest member blamed, a lineage that is true |
| Indexer (`packages/indexer`) | SQLite tables, in-memory tree, cursor, halt flag | startup backfill, live tail, POST /sync, reads | overlapping fetches, lost notifications, restarts, truncated logs, a node that is behind | the mirror is the chain, it catches up, or it stops serving |
| Coordinator (`packages/coordinator`) | sessions of sequence-numbered messages, listeners | append, long poll, websocket, sweep | concurrent appends, missed wake-ups, expiry, restart | one gap-free order, every message reaches every reader and every open socket |
| CLI (`packages/cli`) | group record, progress of a command | appendNext, collectUntil, key ceremony, propose, sign, execute | lost answers, duplicates, members who stop and come back | agreement on key and roster, a quorum for every transaction, no nonce reuse |
| Web application (`apps/web`), prover-wasm, helper | rows shown, deposit and payroll under way, memoised promises, worker queues | unlock, fund, preview, pay, claim, prove | failed steps and retries, a lagging indexer, several pages on one worker | rows built on real notes, proofs that answer their request, flows that end |
| Prover, wallet extension | none; user interface | | external tools, display | not modelled |

Interactions: clients read the pool account (roots, compliance key, verifiers) and the indexer (notes, paths,
nullifiers), make a proof, and submit it; the pool emits events; the indexer replays the events; wallets scan
what the indexer serves. Members of a group exchange FROST and key-ceremony messages through the coordinator.
The treasury page uses all of them: relay for its proposals, indexer for the change of each row, prover or
helper for the proofs, pool for the transfers.

The hazards found in the survey are in `PROJECT.json`, each at the line where it bites, with the properties
that cover it and a note where they do not cover all of it.

## 2. Modules

| Module | Models | Used by |
|---|---|---|
| `RootRing` | the ring of roots of `state.rs` | the pool and the tree |
| `CommitmentLog` | abstract specification: an append-only log that remembers its most recent lengths | implemented by `LeanIMT` |
| `LeanIMT` | `merkle.rs` frontier insert, the indexer's and the client's full tree, the circuits' path fold, a client fetching a witness | run `lean_imt` |
| `ShieldedPool` | `processor.rs`, `verify.rs`, the seven circuits, clients that make and submit proofs | runs `pool_race`, `pool_admin` |
| `AuditTrail` | the lineage tracer `chainTrace.ts` over `ShieldedPool` | run `pool_deep` |
| `ShieldedPoolProofs` | theorems about `ShieldedPool`: types, roots, solvency | TLAPS |
| `AuditTrailProofs` | theorems about the spends and the log of `ShieldedPool`, and about `AuditTrail` | TLAPS |
| `LeanIMTProofs` | theorems about `LeanIMT`, and that it implements `CommitmentLog` | TLAPS |
| `IndexerProofs`, `RelayProofs`, `GroupProofs`, `WalletProofs`, `TreasuryProofs` | theorems about `Indexer`, about `Relay` and `Channel`, about `Group`, about `Wallet`, about `BrowserProver` and `Treasury` | TLAPS |
| `Indexer` | ingestion, store, live tail, `/sync`, the reads of the HTTP API, restarts | runs `indexer*` |
| `Channel` | abstract specification of a relay session: one order, readers that never skip, expiry as a whole | implemented by `Relay` |
| `Relay` | one session of the coordinator and `CoordinatorClient` | run `relay` |
| `Group` | key ceremony and proposals over a session | run `group` |
| `Threshold` | key generation, FROST and committee decryption as algebra | run `threshold` |
| `SpendPlan` | note selection of `plan.ts`, pure operators | extended by `Wallet` |
| `Wallet` | counter, key repository, preflight, compliance keys, scans | run `wallet` |
| `BrowserProver` | the wasm prover port and its worker | extended by `Treasury` |
| `Treasury` | the treasury page over pool, relay and indexer as it sees them | runs `treasury*` |
| `MC*` | instances for TLC | |

### LeanIMT

`sideNodes`, `nextLeafIndex` and `ring` are the fields of the pool account; `levels` and `mirrorNext` those of
the `LeanIMT` class, which the indexer and the SDK both have. `FrontierWalk` is the loop of `merkle::insert`,
`MirrorWalk` that of the mirror's `insert`, `FoldPath` is `foldPath`/`lean_imt_inclusion_proof`. `FetchPath` and
`FetchRoot` are the two requests of `indexerTransport`, between which the mirror may grow, `Reproduces` the
check of `IndexerWitnessSource`. The comment on `merkle::insert` says the walk stops at an even index; the code
goes on until the index is zero, and the model follows the code (the comment's version is the mutant
`LevelStepStopsEven`). The hash is a constant operator, instantiated by the free constructor (the assumption
that Poseidon is collision free). `Layer` is an independent reference: the tree of a sequence of leaves built
level by level.

### ShieldedPool and AuditTrail

A Solana instruction is atomic, so a handler is one action whose guard is the conjunction of its checks; the
order of checks inside a handler cannot be observed. What is not atomic is the life of a proof: `Prove*` builds
it from one state of the pool, it stays in `proofs` and may be submitted in any later state, again and again,
or be forgotten. A proof record contains what the circuit established (inputs opened, outputs, root, asset,
public amount) and what the proof is bound to (verifier program, compliance key). `VerifyCpi` and
`ResolveRoot` compare it with what the pool injects at submission; the slot of the root, the mint, the
amount and, of a withdrawal, the asset account are the submitter's arguments. `deposit` derives the address of the
asset account (`AssetAccountFits`); `withdraw_like` reads whatever account it is given, checks its length and compares
it with the mint and the vault presented (`AssetAccountSays`). So a withdrawal may name a mint that only shares the
registered one's asset id. It can take no more than what somebody put into that mint's vault, and gives up a claim
on the registered one: `Solvent` holds. `deposit` does not derive the pool's address either; the guard that a pool
exists stands for the one account of the program that has its length.

Abstractions, and why they are sound:

- A root is the length of the prefix it commits to. `lean_imt` checks that the hashed tree implements this
  (`ImplementsCommitmentLog`) and that an opening determines leaf and index (`OpeningsAreGenuine`).
- A nullifier is the leaf index. It is `H(psi, leaf_index)` with `psi` committed to by the leaf.
- Keys and signatures are ownership: only the owner of a note, or its group, can open it.
- Values are small integers; circuits use checked 128-bit sums.
- A token account is an amount. `TransferFee` is what a Token-2022 mint withholds.

`AuditTrail` adds a history variable, `landed`, the inputs and outputs of each transaction, which is the truth
the traces are compared with. `ForwardTrace` and `BackwardTrace` are the two tracers; `dark` is the set of
leaves that whoever serves the chain withholds or alters, and every choice of at most one is checked.
`Provenance` says that a trace has no false edge, goes on from every node it reaches, marks every node beyond which
it is incomplete, and that value, asset and group are passed down the true lineage.

### Indexer

JavaScript runs one fiber at a time, so the code between two awaits is one action. The fibers are the startup
backfill, the backfill of `POST /sync` (concurrent callers share one, so one fiber stands for all) and one
`processSignature` per live notification. A `deployment` says how the indexer is run: with or without live
tail, with `/sync` called during the startup backfill or after it, with restarts and failed calls (`faulty`),
with lost notifications, transactions not found and kills in the middle of a transaction (`lossy`). The chain
is the pool's event log cut into transactions; a leaf is identified with its index on chain, so a tree in the
right order is `<<0, 1, 2, ...>>`. The reads of the HTTP API are operators over the store (`GetRoot`, `GetPath`,
`GetNotesFrom`, `GetNullifiersFrom`, `ListComplianceKeys`): `MirrorExact` says what a wallet that asks from any
index or slot is given, and `RootMatchesPaths` that the answers of `/notes`, `/path` and `/root` fit together
while the ring of roots is not full. Once it is full `pushRoot` writes slot 0 again and again (the slot after the
highest one in use), so the served `roots` and `root_cursor` no longer follow the pool's ring; the clients in this
repository resolve the slot of a root from the pool account.

### Relay and Channel

`log` is the table of one session (sessions do not interact), `req` each client's HTTP request on its way
through the server: posted, waiting in a long poll, or answered. Fastify runs a handler up to its next await
without interruption, and better-sqlite3 is synchronous, so `HandlePost` (append and publish) and `HandleGet`
(read, and subscribe if there is nothing) are one action each. Clients run a command that appends and collects
`Appends` times, as the ceremony and the proposal commands do. Faults are a lost request or answer
(`FetchFails`) and a restart of the server, which drops listeners and connections and keeps the file; a command
that fails may be started again (`Rerun`). Time appears only as `Age` (the time to live has passed since the
newest message) and as timeouts that may happen whenever a request waits. An observer may connect by websocket
and is pushed what is published while it is connected; `NoMissedWakeup` says of a long poll that it does not wait with
a newer message in the log, and of a socket that it was pushed all that was appended since it connected. The refinement mapping counts what a
reader has by its cursor, and maps a reader that lives through a sweep to the beginning.

### Group

The session is what `Relay` was shown to implement, so here its messages are sets by kind and a command reads
them in one step. Round 1 (`Announce`, `Roster`) and round 2 (`Deal`, `Combine`) are `runDkgCeremony`; a key is
the set of polynomials summed into it, `public` what verification of shares would use, and a signature share is
what it was computed from (nonce, commitments, text, key). `SignCommit` and `SignShare` are the two halves of
`signProposal`, `ExecuteRead` and `Aggregate` those of `aggregateProposal` with the proof and the transaction.
Every command may stop between its halves, and a member may join again, on the web page under a new identity.

### Threshold

The group is Z_q written additively, so a point is its discrete logarithm and the equations of Feldman,
Pedersen, Schnorr, FROST and Chaum-Pedersen are checked as they stand, with the order 101. Hashes are fixed
functions of what is hashed. Faults are a wrong share, a wrong proof of possession, signature shares that are
wrong, repeated, too few or missing, tampered and repeated partials. `Sign` is `coordinatorAggregate` over a
sequence of shares: a repeated signer, then too few, then the first share that does not verify ends it, with that
signer named. It does not compare the shares with the commitments: where a signer committed and sent no share the
sum is returned without it. `SignatureSound` says exactly when a signature is returned, who is named, and that it
verifies if and only if the missing shares add up to zero. GJKR's second-phase checks, which throw, cannot fail
under the faults modelled and are left out.

### Wallet and SpendPlan

An index stands for the key derived from it and for its public tag. `store` is the durable counter (for a group
the counter in memory of the deposit or payroll at work, see section 4), `saved` the
`KeyRepoState` the host saved last, `repo` the `KeyRepository` (or the group's `MultisigScanner`, or the scan-only
repository of a page), `take`, `ready` and `auths` the state of `SelfMintPreflight`, `scan` a `ScanEngine` run.
Every await is a boundary between actions, so a crash, a rotation, a new leaf or a scan may fall between
reservation, derivation, classification, assembly and landing. `world` picks who holds the wallet and which
features occur in a behaviour (`save`, `lose`, `rotate`, `pay`, `probe`, ...); it keeps the instance small, and the
six worlds of the run cover the combinations that interact. `SpendPlan` has the operators of `plan.ts`;
`SpendablePlannable` compares them, for every set of notes a finished scan can have found and every limit on the
number of steps, with all covers of the amount, and carries the plan out: the previous output is resolved to the
newest leaf, and a join is proved in the order `assembleJoin` sorts it into. No code in the repository resolves the
`-1` of a plan; `ApplyStep` does what the comment at that line says of assembly.

### BrowserProver and Treasury

Every memoised promise of the prover is a variable with the life of that promise, and two queues connect page
and worker. `Treasury` has one action per awaited step of `onFund` and `onPay`; each step may fail, with or
without its effect having happened (`Propose` posted and the answer lost, `Send` landed and the confirmation
lost). The pool, the relay and the indexer appear as what the page sees of them: leaves and spent ones,
proposals in order, the prefix served.

## 3. Runs

| Run | Question | Bounds and why they are enough |
|---|---|---|
| `lean_imt` | do frontier, mirror, paths and circuit fold agree, and do they implement the log? | depth 3, two leaf values: all 2^8 fillings, the mirror at every lag, every path with every later root; every parity pattern of a frontier occurs by leaf 7 and the ring of 3 wraps twice |
| `pool_race` | double spends, replays, evicted roots, competing withdrawals | two proofs in flight, ring of 2 with 4 leaves (wraps), amounts to 2, one user and one group |
| `pool_deep` | lineage and log over long sequences | five leaves (genesis and four): a join of two, and a transfer or split of its result, fit; one proof at a time, since one in flight changes nothing a tracer reads |
| `pool_admin` | rotation, verifier replacement, pause while a proof is in flight; solvency with awkward mints | two keys, two rotations (a key may come back), two verifier programs, a signer who is not the authority, two mints with one asset id and any asset account in a withdrawal, a fee mint, donations to both vaults of the shared id |
| `indexer` | exactness, catching up, nothing missed, `/sync` answered | up to four transactions of every kind, in equal and different slots, one fault, three deployments |
| `indexer_live` (violation) | is the mirror right or halted with the live tail on? | three transactions, no fault |
| `relay` | one order, no lost wake-up, bounded conflicts, every command ends | two clients of two appends and collects, three attempts, two rounds, one fault, one sweep, one rerun, one websocket that may connect and close at any time |
| `group` | one key, one roster, a quorum for what lands, no nonce reuse, orderly signing succeeds | three members, threshold 2, one member with new identities, one command started again, two proposals with one id and different texts |
| `threshold` | are shares, blame and decryption exact? | three dealers, threshold 2, two secrets and two slopes (zero included), one text, every set of faulty dealers, every set of at least two committed signers, every sequence of one to three right, wrong or repeated signature shares, sequences of 2 and 3 partial decryptions |
| `wallet` | no index twice, complete scans, spendable balances | four indices per family with one odd point each, window 2 and one more for a probe, three notes, one rotation, six worlds, plans of up to three steps (a join of joins) under limits of one to three |
| `treasury` | do flows end, on real notes and with their own proofs? | two payrolls of up to two rows, two deposits, one fault of the prover, one reload, one sweep, a co-signer, four worlds |
| `treasury_retry` (violation) | did a confirmed row pay its own recipient? | one world of the above: payrolls that are started again |

Every property of a passing run has a mutant, a small change of a mapped definition of the kind a programming
slip would make, under which TLC finds it violated. A mutant stands before the definition it changes.

Deadlock checking is off for the tree, the pool, `group`, `threshold`, `wallet` and `treasury`: the tree fills up,
a pool may stay idle, the members, the user or the bounds may leave nothing to do. It is on for the indexer, where
`POST /sync` can always be called, and for the relay, where the only state without a next step is the one in which
every command has ended (`Ended`).

Fairness:

- `Indexer`: the RPC node eventually answers a call that is in flight (a call that fails is an answer too, and
  the number of failures is bounded by `MaxFaults`), and operators keep calling `POST /sync`, which `cli.ts` says
  they do where websocket subscriptions are not available.
- `Relay`: requests that reached the server are handled or time out, and a command goes on when it is answered.
  Nothing is assumed of other members: `CommandsEnd` holds although they may be absent.
- `Group`: commands that run proceed, the volunteers do sign, and the leader tries to execute again
  (strong fairness of `Aggregate`, since an execute command may be stopped any number of times between its two
  reads). Nobody has to join, propose or come back.
- `Treasury`: promises settle, the worker works, a wallet prompt is answered or refused.

No fairness is assumed of the chain, of restarts, of failures or of what a user decides.

## 4. Findings

- `indexer_live`: a comment says the mirror "is either exactly right or it must stop serving reads". With the
  live tail, overlapping fetches, or a transaction seen both live and by the startup backfill, put leaves
  into the tree in the wrong place or twice, and reads go on.
- `treasury_retry`: the id of a row's proposal is the treasury's id and the row's position, the same in every
  payroll, and `fetchProposal` takes the first proposal with an id. After a row that failed with its proposal
  posted, a payroll with a corrected list signs, proves and sends the old transfer. With equal amounts the change
  found is the change expected (the counter starts at 0 again), and the row is shown as confirmed.

Other disagreements between comments and code, met on the way and without a run of their own:

- Pool and indexer: the design document (2026-09-05, line 72) has a deposit reject mints with Token-2022
  extensions, `processor.rs:28` accepts every Token-2022 mint; with a transfer fee its notes claim more than the
  vault received (`Solvent` excludes such mints, and shows that they do no harm to others). `pushRoot` writes slot
  0 for good once its table is full (`store.ts:127` and `:136`). Backfill asks once for at most 1000 signatures,
  though its comment says it applies every one newer than the cursor; a transaction the node does not find is
  skipped for good; the comment on `getLatestRoot` counts on fresh row ids, but `cursor` is an `INTEGER PRIMARY
  KEY` and thus the row id itself. `witnessSources.ts` says that roots are retained on chain forever, the ring
  keeps 256 (`RootRetention` is the exact statement). `assemble.ts:62` speaks of recomputing the root; the
  witness source has done so, `openSpend` compares the index.
- Relay and group: a sweep lets the next append restart the session at 0, which the comment in `store.ts:93-94`
  says it does not do silently, and `coordinatorClient.ts:77-78` takes a session with a conflict to be non-empty,
  which a sweep in between can make untrue. `group.ts:19` calls the view key identical for every member; it is not
  when a member deals twice in one session (`AgreedKey` has the condition).
- Wallet: `plan.ts:25` lists inputs "in the order the circuit requires (join is ascending)", but every join after the
  first lists its previous output first, which resolves to the newest leaf; `assembleJoin` sorts the pair again, and
  without that the second join of a plan would be refused (mutant `AsPlanned`). `plan.ts:126` promises the smallest covering sum, `minimalCover` looks at neighbours in the sorted list
  only. An address or an index handed out during a scan moves the scan index, and the scan may end one pass early
  (`KeyRepository.ts:79`, `ScanEngine.ts:120`; `ScanComplete` has the condition). The same jump of the scan index
  makes a wallet that lost its counter, reconciled it and minted before it scanned pass over keys it never
  registers, so its scan misses notes within the gap limit (`reconcile.ts` asks for reconciliation before the first
  mint; nothing asks for a scan in between). `ScanComplete` has this condition too; it was found when the proof
  was attempted, and the world with `lose` and `scan` was added to the run. `complianceRing.ts` lacks the
  first key after the first rotation; the client's first version is 1, the pool's 0.
- Treasury: each deposit and each payroll starts a new counter in memory (`treasuryFlows.ts:155` and `:480`,
  `TreasuryPage.tsx:176`), though `treasuryFlows.ts:143` speaks of one that is persisted "so ephemeral indices never
  repeat" and `multisigNote.ts:245` of a durable index. Two deposits of one member both use index 0. `Wallet` has the
  counter as it is, and `IndexNeverReused` is claimed of the SDK and the claim page only. Pay starts with every row, the confirmed ones included. Preview during a payroll
  relabels its rows by position. The page knows only its own member's public share, so a threshold above one
  never executes from it. A landed row whose confirmation or change is late is shown as failed. The promises of
  the wasm binary, the worker's script and the worker itself are kept after they failed, while
  `wasmProver.ts:248` says that a transient failure must remain retryable; a worker that dies after it was ready
  leaves its requests unanswered.

## 5. Proofs

Every theorem holds for every value of the constants that satisfies the assumptions named in the modules
(`PoolAssumption`, `RelayAssumption`, ...), so for any number of clients, members, notes, indices, faults and
restarts; those assumptions give types and say that a size is not zero. Where a theorem has a hypothesis of its
own it is named below. An action lemma per action and a step per conjunct carry each induction.

### Pool

`ShieldedPoolProofs`: `IInv` is the inductive invariant. `TypeOK` alone is not inductive: that only existing
leaves are nullified follows from what a proof in circulation says about its inputs, and that holds because
its circuit was satisfied when it was made and leaves are never changed. `IInv` therefore adds

- the ring part: slot `s` holds the root pushed `Age(ring, s)` pushes ago, or zero if there was none;
- the proof part: each proof in circulation is *sound* for the leaves, that is its inputs are leaves below its
  root, of its asset, its outputs have its asset, and its values are conserved;
- the asset part: an asset occurring in a leaf is registered, to a mint with that asset id.

Each action has a lemma; handlers share lemmas about `InsertOne` and `InsertTwo`. Results: `PoolTypeOK`,
`PoolRootRetention` and the action property `PoolRootIndexStable`.

Solvency, in the same module: claims are a set of units, so that value is a cardinality and no recursive sum is
needed. `LandedClaims` says that a landed proof exchanges the units of its inputs for those of its outputs,
`LandedBalance` turns this into arithmetic with the finite set theorems, and each handler adds what it does to
the vault. A withdrawal touches one asset only, because a mint has one asset id. If it names the registered mint,
vault and claims fall together; if it names another mint of that id, the claims fall and the registered vault stays.
Results: `PoolSolvent`, `PoolRedeemable`.

`AuditTrailProofs`: the handler refuses a nullifier whose account exists, `SpentOnce` speaks of the event log,
so the invariant `SpendInv` ties the two: spent events name existing nullifiers, each once. A join needs its
two inputs to be different, which the handler enforces by creating the accounts one after the other. `LogInv`
says that the log is *faithful* to leaves, nullifiers and key: it counts note events up to each position, and
the key announced last is the pool's own. `Auditable` needs `KeyedProofs` too, that the outputs of a proof in
circulation are encrypted to the key the proof is bound to; the handler then compares that key with the pool's.
Results: `PoolSpentOnce`, `PoolLogReplays`, `PoolAuditable`.

The lineage: `AuditInv` relates the history of transactions to what a tracer reads. The leaves a transaction made
name the leaves it spent, or hide them and are followed by one that names them; they keep the asset, the group where
they are no payment, and are worth no more (`Made`). The nullifiers are exactly what the transactions spent, and
every leaf that has parents was made by one (`Recorded`). A proof in circulation already says all this of its
outputs (`Traced`). The tracer visits the closure of its start; `TraverseGraph` shows that as many rounds as there
are leaves reach it, because a set of indices cannot grow in each of them. `ForwardFaithful`, `BackwardFaithful` and
`DerivedHolds` are then statements about one step, by cases over dark, hidden and plain leaves, and hold for any set
of dark leaves. Result: `AuditProvenance`.

### Tree

`LeanIMTProofs` proves for every depth what the run checks for depth 3. `Node(s, l, j)` is node `j` of level `l` of
the reference tree of the leaves `s`. Facts about all levels are proved by induction over the levels, written as the
absence of a least level where they fail, since the provers cannot instantiate the library's induction rules. The
frontier: `PoolOK` says that side node `l` holds the reference node of the last left sibling of level `l` wherever
the next walk will read it, so that the walk of `insert` computes the reference node on every level, whether it
hashes or passes through. The mirror: `MirrorOK` says that each level it stores is the reference layer of its
leaves; one more leaf changes the ancestors of that leaf and nothing else. The witness: a path read at an earlier
moment is that of a prefix, and folding it gives the root of that prefix; what the client accepts folds to the
mirror's root, which is the pool's for as many leaves. Soundness of membership goes down from the
root: equal hashes have equal children, so every fold that ends in the root follows the reference tree to a leaf. The
refinement needs that roots of different prefixes differ (`PrefixOf` is then single valued) and that the ring holds
the roots pushed last.

`TreeFrontierIsReference` assumes nothing of the hash. The mirror and the paths read zero as a missing node, so
`TreeMirrorAgrees` and `TreeWitnessUsable` assume that no hash is zero (`NoZeroHash`). `TreeOpeningsAreGenuine` and
`TreeImplementsCommitmentLog` assume that the hash is ideal (`CollisionFree`): never zero, never a leaf, and
injective, its level included. The free constructor of `MCLeanIMT` satisfies both; Poseidon is taken to.

### Indexer

`IndexerProofs` treats the deployments without live tail in which `/sync` waits for the startup backfill (for
the others `MirrorExact` is false, see `indexer_live`). `IndexerInv` has three parts: the chain numbers its
leaves without gaps and its slots do not decrease; at most one run is under way, it was begun at the cursor and
what it still has to fetch is, in order, all that did not fail after the cursor up to some transaction
(`OneRun`); tables and tree are those of the transactions up to the cursor, and the ring of roots holds every
root in order until it is full (`MirrorOK`). `OneRun` is what makes `MirrorOK` inductive: `applyEvent` puts a
leaf at the end of the tree, so it must be the next one. The theorems have a hypothesis, `[]Backlog`: no run is
listed when it is more than `RpcLimit` signatures behind. It is needed, since `backfill` asks once and takes the
newest 1000; the `indexer` run meets it because its chain is no longer than `RpcLimit`. Results:
`IndexerMirrorExact`, `IndexerRootMatchesPaths`.

### Relay and channel

`RelayInv` has, for each client, what its request and its phase have to do with each other (`Phase`), that what
it holds is a slice of the log up to its cursor while the session it reads is the current one (`Reader`), and
that it waits only at the end of the log (`Awake`). A batch on its way is therefore a slice that begins where
the cursor ends, which is what `CollectedIsPrefix` and the refinement need. `RelayImplementsChannel` maps each
action to a step of `Channel` or to a stutter. `AppendedOnce` needs that a message of the present run is one
already counted or the one just created (`Placed`), and that counted ones are there (`Present`).
`ConflictsBounded` is about the number of attempts, which is bounded by the messages of others *below the guess*
(`Tries`, `Rereads`): a refused guess is followed by a read that sees at least one more of them. A socket's part of
`NoMissedWakeup` needs that every message of the log from its first position on was pushed to it (`SocketInv`). Results:
`RelayNoMissedWakeup`, `RelayCollectedIsPrefix`, `RelayImplementsChannel`, `RelayAppendedOnce`,
`RelayConflictsBounded`.

### Group

`GroupInv` adds to the types: the roster of a member past round 1 consists of announced identities, has one for
each of the N members, and is the same for all (`Rosters`; a roster that is complete cannot be followed by a different
one, because whoever reads one takes all that was announced and refuses more than N); a member's record is the
sum of at least N dealings of the session (`Records`); the nonce a sign command holds is its member's newest and
newer than those in the member's shares (`Nonces`); the commitments under execution name a quorum of signers
(`Quorums`). `AgreedKey` follows from `Records`: if nobody dealt twice, N dealings are all there are, and the sum is the
same for everyone. Results: `GroupOneRoster`, `GroupAgreedKey`, `GroupQuorumSigned`, `GroupNonceSignsOnce`.

### Wallet

`IndexNeverReused` counts the places of an index: on the chain, sent, authorised, ready, allocated. For every
index that was not under way when the counter was lost, `WalletInv` says that it has one place at a time (`Fresh`)
and that the durable counter is past it (`Passed`). After a loss an index is allocated again while its note is on
the chain; the probe drops it, provided the SDK knows every compliance key its own notes were minted with
(`KeysKnown`), and only the SDK meets a lost counter, the pages do not probe (`Sessions`). Result:
`WalletIndexNeverReused`. It says nothing of a group, whose counter starts over.

`ScanComplete` rests on `ScanInv`, which says what the repository has registered and what a scan under way has
found. Only even points are handed out (`Even`), so every note's tag can be registered. The repository's mint
counter stays at or below the durable one and every key handed out raises it (`Counters`), so a scan that finds
both counters as it left them was not disturbed. Every address given out is registered, every own key reserved is
registered or about to be, and nothing below the scan index is left out, with two exceptions: a counter that was
lost, and a page that minted after its scan (`Registered`). A pass that meets no new match leaves the lookahead
with nothing to add, so the number of passes is bounded by the matches (`Passes`), and the scan ends only when
nothing registered is left to sweep (`Found`). The gap limit then follows from the least key within it that is
not registered: the one before it was matched, so it lies inside the window and is registered after all
(`GapRegistered`). The theorem assumes `2 * MaxIndex + 1 < MaxPasses`: the code stops after 64 passes whether or
not the lookahead is done (`ScanEngine.ts:126`, `ScanEngine.ts:175`), and a wallet without memory that has more
keys in use may need more. TLC checked `ScanInv` before it was proved. Result: `WalletScanComplete`.

### Prover port and treasury

`ProverInv`: who waits in the map of pending proofs is proving and waits once, ids on both queues are below
`nextRequestId`, and a request or result that somebody still waits for is about that call. Without the bound on
the ids a new request could be answered by an old result. `PayrollInv`: the parent of a group note is spent
(`Heirs`), the source of a row under way is a leaf and what was assembled spends it (`Placed`), and the change
of a source that is waited for is unspent (`Awaited`), so the note found is real although its fields come from
the row before. Results: `TreasuryProofMatches`, `TreasurySourceIsReal`.

### Model-checked only

- Liveness, which needs fairness and is out of the prover's reach: `CatchesUp`, `NothingMissed`, `SyncAnswered`,
  `CommandsEnd`, `OrderlyExecutes`, `FlowsEnd`.
- What folds over shares and notes compute, for which the provers have no induction: the threshold algebra
  (`SharesOfOneKey`, `FaultyDealersOut`, `SignatureSound`, `CommitteeOpens`; polynomials and Lagrange coefficients
  modulo the group order) and the planner (`SpendablePlannable`; sorting, greedy selection and sums).

## 6. Not modelled, and why

Cryptography (hashes, curve arithmetic, encryption, the Groth16 check) is taken as ideal; `Threshold` has the
equations, not the curve. Byte layouts, wire formats, compute budgets and account plumbing are left out except for
the checks they perform. Real time is left out: a timeout may fire whenever it is armed, a session may expire
whenever nobody writes to it. The native prover runs external tools and keeps no state. The wallet extension, the
other pages of the web application (the dashboard's scan-only view among them) and the argument parsing of the command line are display and input. A payroll
that draws on several source notes is not in the code (it uses the oldest spendable note). A composition of wallet,
indexer and pool in one state space is out of TLC's reach; `Treasury` and `Wallet` use their interfaces instead, and
`Group` the channel that `Relay` implements.

Two simplifications bear on what the properties say: the live tail of `Indexer` is subscribed at once, while
`solanaSource.ts:55` attaches the subscription asynchronously; and `Treasury` has one spender, so that another member
spending the source between selection and assembly is not in `SourceIsReal` (the pool would refuse that row).

## 7. Plan

1. Done: the modules of section 2.
2. Done: the theorems of section 5.
3. Left to prove: single steps of the threshold algebra that need no sum over a set.
