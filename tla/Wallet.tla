------------------------------- MODULE Wallet -------------------------------
(***************************************************************************)
(* A wallet of the SDK: the keys it derives from indices, the counter the  *)
(* indices come from (durable but for a group), the authorisation of a new *)
(* note, and the scan that finds the wallet's notes on the chain           *)
(* (sdk/src/state, discovery, sync, note/complianceKeys.ts,                *)
(* frost/multisigNote.ts, frost/multisigScan.ts).                          *)
(*                                                                         *)
(* A note for the wallet itself is encrypted under a key derived from an   *)
(* index.  Two notes with one index would repeat the key stream.  The key  *)
(* of index i has the public tag i: the tag of a note is its index.        *)
(*                                                                         *)
(* JavaScript runs one task at a time between awaits, so an action is the  *)
(* code between two awaits.  The tasks are one take (preflight serialises  *)
(* them) or direct mint, and one scan.                                     *)
(***************************************************************************)
EXTENDS SpendPlan

CONSTANTS
    MaxIndex,       \* derivation indices are 0 .. MaxIndex - 1
    OddY,           \* OddY[k]: indices of family k whose point has odd y, never used as a tag
    Window,         \* DEFAULT_LOOKAHEAD_WINDOW
    ExtraWindow,    \* what probe adds to it
    MaxPasses,      \* passes of one scan
    CollisionBatch, \* PREFLIGHT_COLLISION_BATCH_SIZE
    MaxCandidates,  \* MAX_PREFLIGHT_CANDIDATES
    ValueOf,        \* ValueOf[k][i]: the value of the note with that key
    Worlds,         \* who holds the wallet and what happens, each a set of Features
    MaxFlight,      \* transactions under way
    MaxNotes,       \* notes on the chain
    MaxVersion      \* rotations of the compliance key

Families == {"self", "incoming"}
Indices == 0 .. MaxIndex - 1

Features == {"sdk", "page", "group", "mint", "scan", "rotate", "lose", "pay", "save", "probe"}

ASSUME WalletAssumption ==
    /\ {MaxIndex, Window, ExtraWindow, MaxPasses, CollisionBatch, MaxCandidates,
        MaxNotes, MaxVersion, MaxFlight} \subseteq Nat
    /\ Window > 0 /\ MaxPasses > 0 /\ CollisionBatch > 0
    /\ OddY \in [Families -> SUBSET Indices]
    /\ ValueOf \in [Families -> [Indices -> Nat]]
    /\ Worlds \subseteq SUBSET Features
    /\ \A w \in Worlds : \E who \in Features : w \cap {"sdk", "page", "group"} = {who}

VARIABLES
    store,      \* the high-water mark of the self family: durable, but a group's is in memory
    saved,      \* durable: the KeyRepoState the host saved last
    chain,      \* the notes in leaf order: [family, index, version]
    version,    \* the compliance key of the pool
    flight,     \* transactions sent and not landed: [indices, version]
    client,     \* who runs now, "off" if nobody
    history,    \* the compliance keys the client knows are 0 .. history
    repo,       \* the KeyRepository or the MultisigScanner
    take,       \* the task that mints: [pc, want, need, index, pk, allocated, tested]
    ready,      \* indices preflight found free and has not given out
    auths,      \* authorisations not consumed yet: [index, version]
    scan,       \* the task that scans: [pc, window, pass, advanced, upto, known]
    utxos,      \* the UtxoRepository: the leaves found
    issued,     \* incoming indices ever given to a payer (history variable)
    risk,       \* indices under way when the counter was lost (history variable)
    lost,       \* the counter was lost
    world       \* the features of this behaviour

vars == <<store, saved, chain, version, flight, client, history, repo, take, ready,
          auths, scan, utxos, issued, risk, lost, world>>
chainVars == <<chain, version, flight>>
mintVars == <<take, ready, auths>>
ghosts == <<issued, risk>>

Note(f, i, v) == [family |-> f, index |-> i, version |-> v]
Larger(a, b) == IF a > b THEN a ELSE b
Smaller(a, b) == IF a < b THEN a ELSE b

-----------------------------------------------------------------------------
(* The key repository.                                                     *)

\* A new KeyRepository: nothing issued, nothing registered, nothing matched.
EmptyRepo == [mint |-> 0, issue |-> 0,
              next |-> [f \in Families |-> 0],
              matched |-> [f \in Families |-> -1],
              tags |-> [f \in Families |-> {}]]

\* The loops round registerSelf and registerIncoming: every index below target
\* is registered; odd points get no tag.
RegisterTo(r, f, target) ==
    [r EXCEPT !.next[f] = Larger(@, target),
              !.tags[f] = @ \cup {i \in Indices \ OddY[f] : r.next[f] <= i /\ i < target}]

LookaheadTarget(r, f, window) == Larger(r.next[f], r.matched[f] + 1 + window)

\* getState
KeyRepoState(r) == [mint |-> r.mint, issue |-> r.issue, next |-> r.next, matched |-> r.matched]

\* The index of nextSelfEphemeral enters the map; the scan index jumps past it.
TagMinted(r, i) ==
    [r EXCEPT !.mint = Larger(@, i + 1),
              !.tags["self"] = @ \cup {i},
              !.next["self"] = Larger(@, i + 1)]

\* nextIncomingAddress: the first even index at or above the counter, which is
\* kept in memory only.
NextIncoming(r) == {i \in Indices \ OddY["incoming"] : i >= r.issue}
TagIssued(r, i) ==
    [r EXCEPT !.issue = i + 1,
              !.tags["incoming"] = @ \cup {i},
              !.next["incoming"] = Larger(@, i + 1)]

\* restore: the mint counter is the largest of what memory, the saved state and
\* the durable counter know; both families are registered past it.
RestoredMint(state) == Larger(state.mint, store)
\* A slip: registered only as far as the saved state, not past the counter.
RestoredToSaved(state) ==
    LET r0 == [EmptyRepo EXCEPT !.mint = RestoredMint(state), !.issue = state.issue,
                                !.matched = state.matched]
        r1 == RegisterTo(r0, "self", state.next["self"])
        r2 == RegisterTo(r1, "incoming", Larger(state.next["incoming"], state.issue))
        r3 == RegisterTo(r2, "self", LookaheadTarget(r2, "self", Window))
    IN  RegisterTo(r3, "incoming", LookaheadTarget(r3, "incoming", Window))

Restored(state) ==
    LET mint == RestoredMint(state)
        r0 == [EmptyRepo EXCEPT !.mint = mint, !.issue = state.issue, !.matched = state.matched]
        r1 == RegisterTo(r0, "self", Larger(state.next["self"], mint + Window))
        r2 == RegisterTo(r1, "incoming", Larger(state.next["incoming"], state.issue))
        r3 == RegisterTo(r2, "self", LookaheadTarget(r2, "self", Window))
    IN  RegisterTo(r3, "incoming", LookaheadTarget(r3, "incoming", Window))

\* A slip: the saved state is believed even where the store is ahead.
RatchetToSaved(target) == target

\* The durable counter after restore: a store that lags behind is advanced.
RatchetTo(target) == Larger(store, target)

\* MultisigScanner.create: the first window of each family is registered.
NewScanner ==
    RegisterTo(RegisterTo(EmptyRepo, "self", Window), "incoming", Window)

-----------------------------------------------------------------------------
(* Sessions.  The SDK host restores what it saved; the claim page makes a   *)
(* new repository on every visit and never restores, over a durable         *)
(* counter; a group member makes a new scanner, and has no durable counter  *)
(* (treasuryFlows).  Addresses of a page or a group were given out elsewhere.*)

NoTake == [pc |-> "idle", want |-> 0, need |-> 0, index |-> 0, pk |-> 0,
           allocated |-> <<>>, tested |-> 0]
NoScan == [pc |-> "idle", window |-> 0, pass |-> 0, advanced |-> FALSE, upto |-> 0,
           known |-> <<0, 0>>]

Init ==
    /\ store = 0
    /\ saved = KeyRepoState(EmptyRepo)
    /\ chain = <<>> /\ version = 0 /\ flight = {}
    /\ client = "off" /\ history = 0
    /\ repo = EmptyRepo /\ take = NoTake /\ ready = <<>> /\ auths = {}
    /\ scan = NoScan /\ utxos = {}
    /\ risk = {} /\ lost = FALSE /\ world \in Worlds
    /\ issued = IF "sdk" \in world THEN {} ELSE Indices \ OddY["incoming"]

\* Only the SDK's preflight copes with a lost counter; the others have no
\* other memory of what they used.
StartPage ==
    /\ client = "off" /\ ~lost
    /\ client' \in world \cap {"page", "group"}
    /\ repo' = IF client' = "group" THEN NewScanner ELSE EmptyRepo
    /\ history' = version
    /\ UNCHANGED <<store, saved, chainVars, mintVars, scan, utxos, ghosts, lost, world>>

StartSdk ==
    /\ client = "off" /\ "sdk" \in world
    /\ client' = "sdk"
    /\ repo' = Restored(saved)
    /\ store' = RatchetTo(RestoredMint(saved))
    /\ history' = version
    /\ UNCHANGED <<saved, chainVars, mintVars, scan, utxos, ghosts, lost, world>>

Save ==
    /\ client = "sdk" /\ "save" \in world /\ take.pc = "idle" /\ scan.pc \in {"idle", "done"}
    /\ saved' = KeyRepoState(repo)
    /\ saved' # saved
    /\ UNCHANGED <<store, chainVars, client, history, repo, mintVars, scan, utxos, ghosts, lost, world>>

\* The process or the page ends at any point; what was sent stays under way, and
\* the InMemoryEphemeralCounterStore of a group member is gone.
Crash ==
    /\ client # "off"
    /\ store' = IF client = "group" THEN 0 ELSE store
    /\ client' = "off" /\ repo' = EmptyRepo /\ take' = NoTake /\ ready' = <<>> /\ auths' = {}
    /\ scan' = NoScan /\ utxos' = {}
    /\ UNCHANGED <<saved, chainVars, history, ghosts, lost, world>>

\* A new device, or a backup put back: the durable counter is empty.
LoseStore ==
    /\ client = "off" /\ ~lost /\ "lose" \in world
    /\ lost' = TRUE
    /\ store' = 0
    /\ risk' = UNION {t.indices : t \in flight}
    /\ UNCHANGED <<saved, chainVars, client, history, repo, mintVars, scan, utxos, issued, world>>

\* The host reads the key history again and makes a new preflight; what the old
\* one held ready is not used any more.
Refresh ==
    /\ client = "sdk" /\ take.pc = "idle" /\ scan.pc \in {"idle", "done"} /\ history # version
    /\ history' = version /\ ready' = <<>> /\ scan' = NoScan
    /\ UNCHANGED <<store, saved, chainVars, client, repo, take, auths, utxos, ghosts, lost, world>>

-----------------------------------------------------------------------------
(* Minting: an index is reserved, then derived and handed out.              *)

\* reserve: the advance is stored, where the store is durable durably, before
\* the index is known to anybody.
Reserve ==
    /\ take.pc = "reserve" /\ store < MaxIndex
    /\ store' = store + 1
    /\ take' = IF store \in OddY["self"] THEN take    \* burned, the loop goes on
               ELSE [take EXCEPT !.pc = "mark", !.index = store]
    /\ UNCHANGED <<saved, chainVars, client, history, repo, ready, auths, scan, utxos, ghosts, lost, world>>

\* The durable write is rejected: what was allocated so far is burned.
ReserveFails ==
    /\ take.pc = "reserve"
    /\ take' = NoTake
    /\ UNCHANGED <<store, saved, chainVars, client, history, repo, ready, auths, scan, utxos, ghosts, lost, world>>

\* The rest of nextSelfEphemeral, and the claim of the candidate by #allocate.
MarkDerived ==
    LET allocated == Append(take.allocated, take.index)
    IN  /\ take.pc = "mark" /\ take.want > 0
        /\ repo' = TagMinted(repo, take.index)
        /\ take' = [take EXCEPT !.pc = IF Len(allocated) = take.need THEN "probe" ELSE "reserve",
                                !.allocated = allocated, !.tested = @ + 1]
        /\ UNCHANGED <<store, saved, chainVars, client, history, ready, auths, scan, utxos, ghosts, lost, world>>

\* A page or a group member mints without preflight and sends at once; a
\* group's multisigDepositEph does not touch the scanner.
MarkDirect ==
    /\ take.pc = "mark" /\ take.want = 0
    /\ repo' = IF client = "group" THEN repo ELSE TagMinted(repo, take.index)
    /\ flight' = flight \cup {[indices |-> {take.index}, version |-> take.pk]}
    /\ take' = NoTake
    /\ UNCHANGED <<store, saved, chain, version, client, history, ready, auths, scan, utxos, ghosts, lost, world>>

\* A group's deposit counts in a new store, in memory; a row of a payroll in the
\* one its payroll made.  The page's store is durable.
CountedFrom == IF client = "group" THEN {0, store} ELSE {store}

\* The page withdraws with the repository its scan returned, under the key it
\* reads from the pool first.
MintDirect ==
    /\ client \in {"page", "group"} /\ take.pc = "idle"
    /\ client = "page" => scan.pc = "done"
    /\ "mint" \in world /\ Cardinality(flight) < MaxFlight
    /\ take' = [NoTake EXCEPT !.pc = "reserve", !.pk = version]
    /\ store' \in CountedFrom
    /\ UNCHANGED <<saved, chainVars, client, history, repo, ready, auths, scan, utxos, ghosts, lost, world>>

\* issueAuthorization for the first n indices that are ready.
Issued(queue, n) ==
    {[index |-> queue[j], version |-> history] : j \in 1 .. n}

\* take(n): allocate what is missing, or issue at once.
Take(n) ==
    /\ client = "sdk" /\ take.pc = "idle" /\ "mint" \in world
    /\ IF Len(ready) >= n
       THEN /\ auths' = auths \cup Issued(ready, n)
            /\ ready' = SubSeq(ready, n + 1, Len(ready))
            /\ UNCHANGED take
       ELSE /\ take' = [NoTake EXCEPT !.pc = "reserve", !.want = n, !.need = n - Len(ready)]
            /\ UNCHANGED <<auths, ready>>
    /\ UNCHANGED <<store, saved, chainVars, client, history, repo, scan, utxos, ghosts, lost, world>>

\* The ring of compliance keys: a note is tried with every version the client knows.
KnownVersions == 0 .. history

\* opensExistingSelfRecord: the note at the index opens under a known key.
OpensExisting(i) ==
    \E p \in DOMAIN chain : /\ chain[p].family = "self" /\ chain[p].index = i
                            /\ chain[p].version \in KnownVersions

\* The elements of s at the positions in K, in order.
Filtered(s, K) ==
    [j \in 1 .. Cardinality(K) |-> s[CHOOSE k \in K : Cardinality({l \in K : l <= k}) = j]]

\* #classify and the rest of the loop of #take: occupied indices are dropped,
\* another batch is allocated until enough are ready or too many were tried.
Probe ==
    LET free == {k \in DOMAIN take.allocated : ~OpensExisting(take.allocated[k])}
        queue == ready \o Filtered(take.allocated, free)
        remaining == MaxCandidates - take.tested
    IN  /\ take.pc = "probe"
        /\ IF Len(queue) >= take.want
           THEN /\ auths' = auths \cup Issued(queue, take.want)
                /\ ready' = SubSeq(queue, take.want + 1, Len(queue))
                /\ take' = NoTake
           ELSE /\ ready' = queue
                /\ take' = IF remaining = 0 THEN NoTake     \* CANDIDATES_EXHAUSTED
                           ELSE [take EXCEPT !.pc = "reserve", !.allocated = <<>>,
                                             !.need = Smaller(CollisionBatch, remaining)]
                /\ UNCHANGED auths
        /\ UNCHANGED <<store, saved, chainVars, client, history, repo, scan, utxos, ghosts, lost, world>>

\* DISCOVERY_UNAVAILABLE: the candidates are burned.
ProbeFails ==
    /\ take.pc = "probe"
    /\ take' = NoTake
    /\ UNCHANGED <<store, saved, chainVars, client, history, repo, ready, auths, scan, utxos, ghosts, lost, world>>

\* consumeSelfMints accepts one or two handles: known, unused, of this context
\* and of different indices.
Consumable(handles) ==
    /\ Cardinality(handles) \in 1 .. 2
    /\ \A a \in handles : a.version = history
    /\ \A a, b \in handles : a # b => a.index # b.index

\* All handles are marked consumed together; none can be used again.
Consumed(handles) == auths \ handles

\* assembleDeposit, -Transfer, -Withdraw (one output) or -Split (two); the
\* transaction is sent, or never lands.
Assemble(handles) ==
    /\ client = "sdk" /\ Consumable(handles) /\ Cardinality(flight) < MaxFlight
    /\ auths' = Consumed(handles)
    /\ flight' = flight \cup {[indices |-> {a.index : a \in handles}, version |-> history]}
    /\ UNCHANGED <<store, saved, chain, version, client, history, repo, take, ready, scan, utxos, ghosts, lost, world>>

\* reconcileCounterWithChain: a row that exists, opened or not, is an index used.
Occupied == {chain[p].index : p \in {q \in DOMAIN chain : chain[q].family = "self"}}
Reconcile ==
    /\ client = "sdk" /\ Occupied # {}
    /\ store' = RatchetTo(Max(Occupied) + 1)
    /\ store' # store
    /\ UNCHANGED <<saved, chainVars, client, history, repo, mintVars, scan, utxos, ghosts, lost, world>>

-----------------------------------------------------------------------------
(* The chain.                                                              *)

\* The pool takes notes encrypted to its current key only; a transaction that is
\* refused or expires stays under way for ever.
Land(t) ==
    /\ t \in flight /\ t.version = version
    /\ Len(chain) + Cardinality(t.indices) <= MaxNotes
    /\ chain' = chain \o SetToSeq({Note("self", i, version) : i \in t.indices})
    /\ flight' = flight \ {t}
    /\ UNCHANGED <<store, saved, version, client, history, repo, mintVars, scan, utxos, ghosts, lost, world>>

Rotate ==
    /\ version < MaxVersion /\ "rotate" \in world
    /\ version' = version + 1
    /\ UNCHANGED <<store, saved, chain, flight, client, history, repo, mintVars, scan, utxos, ghosts, lost, world>>

NextIncomingAddress ==
    /\ client = "sdk" /\ "pay" \in world /\ NextIncoming(repo) # {}
    /\ LET i == Min(NextIncoming(repo))
       IN  /\ repo' = TagIssued(repo, i)
           /\ issued' = issued \cup {i}
    /\ UNCHANGED <<store, saved, chainVars, client, history, mintVars, scan, utxos, risk, lost, world>>

\* Somebody pays to an address; the content key travels wrapped to it.
Pay(i) ==
    /\ i \in issued /\ "pay" \in world /\ Len(chain) < MaxNotes
    /\ chain' = Append(chain, Note("incoming", i, version))
    /\ UNCHANGED <<store, saved, version, flight, client, history, repo, mintVars, scan, utxos, ghosts, lost, world>>

-----------------------------------------------------------------------------
(* Scanning: lookahead, fetch, and passes over what was fetched until the   *)
(* lookahead has nothing new.                                              *)

ScanStart(window) ==
    /\ "scan" \in world /\ (window # Window => "probe" \in world)
    /\ \/ scan.pc = "idle" /\ client # "off"
       \/ scan.pc = "done" /\ client = "sdk"
    /\ scan' = [NoScan EXCEPT !.pc = IF client = "group" THEN "fetch" ELSE "first",
                              !.window = window, !.known = <<repo.mint, repo.issue>>]
    /\ UNCHANGED <<store, saved, chainVars, client, history, repo, mintVars, utxos, ghosts, lost, world>>

\* ensureSelfLookahead, then ensureIncomingLookahead.
Behind(f) == repo.next[f] < LookaheadTarget(repo, f, scan.window)
Family == IF Behind("self") THEN "self" ELSE "incoming"

\* A repository reports any index; the group's scanner only a new tag.
Extended(f) == RegisterTo(repo, f, LookaheadTarget(repo, f, scan.window))
Advances(f) == client # "group" \/ Extended(f).tags # repo.tags

Look ==
    /\ scan.pc \in {"first", "look"} /\ \E f \in Families : Behind(f)
    /\ repo' = Extended(Family)
    /\ scan' = [scan EXCEPT !.advanced = @ \/ Advances(Family)]
    /\ UNCHANGED <<store, saved, chainVars, client, history, mintVars, utxos, ghosts, lost, world>>

AnotherPass == scan.advanced /\ scan.pass < MaxPasses

LookDone ==
    /\ scan.pc \in {"first", "look"} /\ \A f \in Families : ~Behind(f)
    /\ scan' = CASE scan.pc = "first" -> [scan EXCEPT !.pc = "fetch", !.advanced = FALSE]
                 [] scan.pc = "look" /\ AnotherPass -> [scan EXCEPT !.pc = "pass", !.advanced = FALSE]
                 [] OTHER -> [scan EXCEPT !.pc = "done", !.advanced = FALSE, !.pass = 0]
    /\ UNCHANGED <<store, saved, chainVars, client, history, repo, mintVars, utxos, ghosts, lost, world>>

Fetch ==
    /\ scan.pc = "fetch"
    /\ scan' = [scan EXCEPT !.pc = "pass", !.upto = Len(chain)]
    /\ UNCHANGED <<store, saved, chainVars, client, history, repo, mintVars, utxos, ghosts, lost, world>>

\* process / readNote: a tag this wallet registered counts as matched whether or
\* not the note opens; a note to itself opens under the key it was minted with.
Hits(f) == {p \in 1 .. scan.upto : chain[p].family = f /\ chain[p].index \in repo.tags[f]}
Opens(p) == chain[p].family = "incoming" \/ chain[p].version \in KnownVersions

ScanPass ==
    LET found == {p \in UNION {Hits(f) : f \in Families} : Opens(p)}
    IN  /\ scan.pc = "pass"
        /\ repo' = [repo EXCEPT !.matched =
                       [f \in Families |-> Max({@[f]} \cup {chain[p].index : p \in Hits(f)})]]
        /\ utxos' = IF client = "group" THEN found ELSE utxos \cup found
        /\ scan' = [scan EXCEPT !.pc = "look", !.pass = @ + 1]
        /\ UNCHANGED <<store, saved, chainVars, client, history, mintVars, ghosts, lost, world>>

-----------------------------------------------------------------------------
Next ==
    \/ StartPage \/ StartSdk \/ Save \/ Crash \/ LoseStore \/ Refresh
    \/ Reserve \/ ReserveFails \/ MarkDerived \/ MarkDirect \/ MintDirect
    \/ \E n \in 1 .. 2 : Take(n)
    \/ Probe \/ ProbeFails
    \/ \E handles \in SUBSET auths : Assemble(handles)
    \/ Reconcile
    \/ \E t \in flight : Land(t)
    \/ Rotate \/ NextIncomingAddress
    \/ \E i \in issued : Pay(i)
    \/ \E w \in {Window, Window + ExtraWindow} : ScanStart(w)
    \/ Look \/ LookDone \/ Fetch \/ ScanPass

Spec == Init /\ [][Next]_vars

-----------------------------------------------------------------------------
(* Properties.                                                             *)

\* Everywhere an index can be on its way to the chain.
Allocated == IF take.pc = "mark" THEN Append(take.allocated, take.index) ELSE take.allocated
InUse(i) ==
    {<<"chain", p>> : p \in {q \in DOMAIN chain : chain[q].family = "self" /\ chain[q].index = i}}
        \cup {<<"sent", t>> : t \in {u \in flight : i \in u.indices}}
        \cup {<<"authorised", a>> : a \in {b \in auths : b.index = i}}
        \cup {<<"ready", j>> : j \in {k \in DOMAIN ready : ready[k] = i}}
        \cup {<<"allocated", j>> : j \in {k \in DOMAIN Allocated : Allocated[k] = i}}

\* "An index is never handed out twice" (EphemeralCounterStore): whatever crash,
\* restore, rejected write or concurrent scan lies between, an index is on its way
\* to the chain once.  And where the counter itself was lost, preflight sees to it
\* that no two notes on the chain share an index, except one that was under way at
\* the loss.  It is said of the SDK and of the claim page.  A group's indices do
\* repeat: its counter starts over with every deposit, payroll and visit.
IndexNeverReused ==
    "group" \notin world => \A i \in Indices :
        /\ ~lost => Cardinality(InUse(i)) <= 1
        /\ i \notin risk =>
              Cardinality({p \in DOMAIN chain : chain[p].family = "self" /\ chain[p].index = i}) <= 1

\* The notes a gap limit reaches: each at most window past one found before.
WithinGap(used, window) ==
    {i \in used : \A j \in used : j <= i =>
        \E m \in used \cup {-1} : m < j /\ j <= m + window}

\* No key below the scan index was skipped.
AllRegistered(f) == {i \in Indices \ OddY[f] : i < repo.next[f]} \subseteq repo.tags[f]

\* A finished scan has found every note fetched that the wallet can know of: in
\* a restored wallet all its own notes and all paid to addresses it remembers
\* (KeyRepository.restore), in a wallet without memory those within the gap limit
\* (ScanEngine, MultisigScanEngine), each if the key it was minted with is known.
\* The gap limit is not claimed where keys were handed out during the scan: that
\* moves the scan index, the lookahead reports nothing new, and the scan ends
\* without the pass that would match them.  Nor is it where the counter was lost and
\* a key handed out before the scan lies past the scan index, as it may once the
\* counter was reconciled: the keys it skips are never registered.
ScanComplete ==
    scan.pc = "done" =>
        \A p \in 1 .. scan.upto :
            LET f == chain[p].family
                used == {chain[q].index : q \in {r \in 1 .. scan.upto : chain[r].family = f}}
                remembered == /\ client = "sdk"
                              /\ IF f = "self" THEN ~lost ELSE chain[p].index < scan.known[2]
                undisturbed == /\ <<repo.mint, repo.issue>> = scan.known
                               /\ f = "self" /\ lost => AllRegistered(f)
            IN  /\ Opens(p)
                /\ \/ remembered
                   \/ undisturbed /\ chain[p].index \in WithinGap(used, scan.window)
                => p \in utxos

\* What spendableBalance shows can be spent, whatever number of transactions the
\* policy allows: planSpend plans an amount exactly when it is at most withPlan, with
\* one transaction exactly when it is at most inOneTx; carried out, joins of joins
\* included, every step proves notes the wallet has then, each once, a join in the
\* ascending order its circuit asserts, and no value is lost; and the plan uses as few
\* notes as any cover of the amount.
SpendablePlannable ==
    LET notes == {[leaf |-> p, asset |-> 0, value |-> ValueOf[chain[p].family][chain[p].index]]
                    : p \in utxos}
    IN  scan.pc = "done" => \A maxSteps \in 1 .. MaxSteps :
          LET shown == SpendableBalance(notes, 0, maxSteps)
          IN  \A target \in 1 .. shown.total + 1 :
                LET plan == PlanSpend(notes, "WITHDRAW", 0, target, maxSteps)
                IN  /\ plan.ok <=> target <= shown.withPlan
                    /\ plan.ok =>
                          /\ CarryOut(notes, plan.steps, 0).ok
                          /\ Last(plan.steps).outgoing = target
                          /\ Len(plan.steps) = 1 <=> target <= shown.inOneTx
                          /\ \A cover \in SUBSET notes :
                                MapThenSumSet(LAMBDA n : n.value, cover) >= target
                                    => Cardinality(cover) >= Len(plan.steps)
=============================================================================
