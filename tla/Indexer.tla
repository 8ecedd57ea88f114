------------------------------- MODULE Indexer -------------------------------
(***************************************************************************)
(* The indexer (packages/indexer): a mirror of the pool built from the     *)
(* event log of its transactions, kept in SQLite and in an in-memory tree. *)
(*                                                                         *)
(* One JavaScript thread, so code between two awaits is one step.  What    *)
(* interleaves are the fibers that await the RPC node: the backfill run at *)
(* startup, the backfill run of POST /sync, and one processSignature per   *)
(* live notification.  The chain is ShieldedPool's log cut into            *)
(* transactions; a signature is a position in it.  A leaf is identified    *)
(* with its index on chain, a root with the sequence of leaves under it.   *)
(***************************************************************************)
EXTENDS Integers, Sequences, FiniteSets

CONSTANTS
    Deployments,    \* how the indexer is run, see Deployment
    RootRingSize,   \* ROOT_RING_SIZE of the roots table
    RpcLimit,       \* signatures in one answer of getSignaturesForAddress
    Workload,       \* bound: for each deployment the kinds of transaction that land after
                    \* initialize, their number and the slots between them
    MaxFaults       \* bound on restarts, failed RPC calls and torn writes

VARIABLES
    deployment,     \* the deployment, fixed
    chain,          \* the pool program's transactions, oldest first
    mirror,         \* the SQLite tables and the LeanIMT built from them
    cursor,         \* signature in the cursor row, 0 if there is none
    halted,         \* Ingestor._halted
    subscribed,     \* the onLogs subscription is up
    backfills,      \* the two backfill runs
    live,           \* signatures heard live whose getTransaction is awaited
    faults

vars == <<deployment, chain, mirror, cursor, halted, subscribed, backfills, live, faults>>

\* live: KAKURE_INDEXER_DISABLE_LIVE is not set; overlap: POST /sync is called
\* while the startup backfill still runs; faulty: the process is restarted and RPC
\* calls fail; lossy: notifications are lost, confirmed transactions are not found
\* yet, and the process is killed between two writes.
Deployment == [live : BOOLEAN, overlap : BOOLEAN, faulty : BOOLEAN, lossy : BOOLEAN]

AllKinds == {"initialize", "deposit", "transfer", "rotate", "failed", "truncated"}
Runs == {"startup", "sync"}

ASSUME IndexerAssumption ==
    /\ Deployments \subseteq Deployment
    /\ RootRingSize \in Nat \ {0} /\ RpcLimit \in Nat \ {0}
    /\ MaxFaults \in Nat
    /\ DOMAIN Workload = Deployments
    /\ \A d \in Deployments :
        /\ Workload[d].kinds \subseteq AllKinds \ {"initialize"}
        /\ Workload[d].gaps \subseteq Nat
        /\ Workload[d].txs \in Nat

-----------------------------------------------------------------------------
(* The chain                                                               *)

LeavesOf(kind) ==
    CASE kind = "transfer" -> 2
      [] kind \in {"initialize", "deposit", "truncated"} -> 1
      [] OTHER -> 0

\* Leaf indices transactions 1 .. k inserted are 0 .. LeafCount(k) - 1.
LeafCount(k) == IF k = 0 THEN 0 ELSE chain[k].first + LeavesOf(chain[k].kind)

NoteInserted(i) == [name |-> "NoteInserted", index |-> i]
NullifierSpent(n) == [name |-> "NullifierSpent", nullifier |-> n]
ComplianceKeyRotated(v) == [name |-> "ComplianceKeyRotated", version |-> v]

\* What programDataLinesFor and the decoder find in the logs of transaction sig.
EventsOf(sig) ==
    LET n == chain[sig].first
    IN  CASE chain[sig].kind \in {"initialize", "deposit"} -> <<NoteInserted(n)>>
          [] chain[sig].kind = "transfer" -> <<NoteInserted(n), NoteInserted(n + 1), NullifierSpent(sig)>>
          [] chain[sig].kind = "rotate"   -> <<ComplianceKeyRotated(sig)>>
          [] OTHER -> << >>

\* A transfer spends a note other than the genesis leaf that no transfer has spent.
Spendable == LeafCount(Len(chain)) - 1 > Cardinality({sig \in DOMAIN chain : chain[sig].kind = "transfer"})

\* Variant: the live tail attached only after the startup backfill.
LandLateTail(kind, slot, heard) ==
    /\ Len(chain) < Workload[deployment].txs
    /\ kind = "transfer" => Spendable
    /\ heard => subscribed /\ backfills["startup"].phase = "idle"
    /\ chain' = Append(chain, [kind |-> kind, first |-> LeafCount(Len(chain)), slot |-> slot])
    /\ live' = IF heard /\ kind # "failed" THEN live \union {Len(chain) + 1} ELSE live
    /\ UNCHANGED <<deployment, mirror, cursor, halted, subscribed, backfills, faults>>

\* A transaction of the pool program lands, in the slot of the one before it or in
\* a later one, and is announced to the subscriber unless the announcement is lost.
Land(kind, slot, heard) ==
    /\ Len(chain) < Workload[deployment].txs
    /\ kind = "transfer" => Spendable
    /\ heard => subscribed
    /\ subscribed /\ ~deployment.lossy => heard
    /\ chain' = Append(chain, [kind |-> kind, first |-> LeafCount(Len(chain)), slot |-> slot])
    /\ live' = IF heard /\ kind # "failed" THEN live \union {Len(chain) + 1} ELSE live
    /\ UNCHANGED <<deployment, mirror, cursor, halted, subscribed, backfills, faults>>

-----------------------------------------------------------------------------
(* The store                                                               *)

\* The tables map a primary key to its row, << >> is the empty table: notes by leaf
\* index, spent and keys (to a slot) by nullifier and version, roots by cursor.
Empty == [tree |-> << >>, notes |-> << >>, spent |-> << >>, roots |-> << >>, keys |-> << >>]

Highest(S) == CHOOSE x \in S : \A y \in S : y <= x

\* INSERT OR REPLACE of row y under key x.
With(f, x, y) == [z \in DOMAIN f \union {x} |-> IF z = x THEN y ELSE f[z]]

\* pushRoot: the slot after the highest one in use.
NextSlot(roots) ==
    IF DOMAIN roots = {} THEN 0 ELSE (Highest(DOMAIN roots) + 1) % RootRingSize

\* Variant: without the second sort key.
LatestCursorAnyOrder(roots) ==
    CHOOSE c \in DOMAIN roots : \A d \in DOMAIN roots : roots[d].slot <= roots[c].slot

\* getLatestRoot: ORDER BY slot DESC, rowid DESC.  cursor is an INTEGER PRIMARY
\* KEY, which SQLite makes an alias of rowid.
LatestCursor(roots) ==
    CHOOSE c \in DOMAIN roots :
        \A d \in DOMAIN roots :
            roots[d].slot < roots[c].slot \/ (roots[d].slot = roots[c].slot /\ d <= c)

\* applyEvent; the note is filed under the index the event names, in the tree it
\* goes where the next leaf goes.
ApplyEvent(m, e, slot) ==
    CASE e.name = "NoteInserted" ->
            LET tree == Append(m.tree, e.index)
            IN  [m EXCEPT !.tree = tree,
                          !.notes = With(@, e.index, [leaf |-> e.index, root |-> tree, slot |-> slot]),
                          !.roots = With(@, NextSlot(@),
                                         [root |-> tree, next |-> Len(tree), slot |-> slot])]
      [] e.name = "NullifierSpent" -> [m EXCEPT !.spent = With(@, e.nullifier, slot)]
      [] e.name = "ComplianceKeyRotated" -> [m EXCEPT !.keys = With(@, e.version, slot)]

\* The first k events of a transaction applied.
Applied(m, events, slot, k) ==
    LET step[j \in 0 .. Len(events)] ==
            IF j = 0 THEN m ELSE ApplyEvent(step[j - 1], events[j], slot)
    IN  step[k]

\* The numbers in S in ascending order.
Ascending(S) == [k \in 1 .. Cardinality(S) |-> CHOOSE i \in S : Cardinality({j \in S : j < i}) = k - 1]

\* getNotesFrom: the rows of leaf index from and up, in that order.
GetNotesFrom(from) ==
    LET order == Ascending({i \in DOMAIN mirror.notes : i >= from})
    IN  [k \in DOMAIN order |-> [leaf_index |-> order[k], row |-> mirror.notes[order[k]]]]

\* getNullifiersFrom; rows of one slot come in no particular order.
GetNullifiersFrom(slot) == {n \in DOMAIN mirror.spent : mirror.spent[n] >= slot}

IsNullifierSpent(nullifier) == nullifier \in DOMAIN mirror.spent

ListComplianceKeys ==
    LET order == Ascending(DOMAIN mirror.keys)
    IN  [k \in DOMAIN order |-> [version |-> order[k], fromSlot |-> mirror.keys[order[k]]]]

\* Variant: the last leaf left out.
HydratedShort(m) ==
    LET order == Ascending(DOMAIN m.notes)
    IN  [m EXCEPT !.tree = [k \in 1 .. Len(order) - 1 |-> m.notes[order[k]].leaf]]

\* hydrateTree: the stored notes, in the order of their leaf indices, whether or
\* not there are gaps.
Hydrated(m) ==
    LET order == Ascending(DOMAIN m.notes)
    IN  [m EXCEPT !.tree = [k \in DOMAIN order |-> m.notes[order[k]].leaf]]

-----------------------------------------------------------------------------
(* The reads of the HTTP API; those of notes, nullifiers and compliance    *)
(* keys are the queries above.                                             *)

Unavailable == [status |-> 503]

EmptySlot == << >>

\* GET /root: the latest root or, before there is one, that of the empty tree.
GetRoot ==
    IF halted THEN Unavailable
    ELSE LET roots == [c \in 0 .. RootRingSize - 1 |->
                          IF c \in DOMAIN mirror.roots THEN mirror.roots[c].root ELSE EmptySlot]
             c     == LatestCursor(mirror.roots)
         IN  IF DOMAIN mirror.roots = {}
               THEN [status |-> 200, root |-> mirror.tree, next_leaf_index |-> Len(mirror.tree),
                     roots |-> roots, root_cursor |-> 0]
               ELSE [status |-> 200, root |-> mirror.roots[c].root,
                     next_leaf_index |-> mirror.roots[c].next,
                     roots |-> roots, root_cursor |-> (c + 1) % RootRingSize]

\* GET /path/:leaf_index.  The siblings stand for every leaf of the tree but one.
GetPath(leafIndex) ==
    IF halted THEN Unavailable
    ELSE IF leafIndex >= Len(mirror.tree) THEN [status |-> 404]
    ELSE [status |-> 200,
          siblings |-> [k \in DOMAIN mirror.tree \ {leafIndex + 1} |-> mirror.tree[k]]]

-----------------------------------------------------------------------------
(* Ingestion                                                               *)

Idle == [phase |-> "idle", until |-> 0, todo |-> << >>]
Listing == [phase |-> "listing", until |-> cursor, todo |-> << >>]
Fetching(todo) == IF todo = << >> THEN Idle ELSE [phase |-> "fetching", until |-> 0, todo |-> todo]

\* The at most RpcLimit newest signatures after until, put in chronological order,
\* without the failed ones.
SignaturesAfter(until) ==
    LET n    == Len(chain)
        from == IF n - RpcLimit > until THEN n - RpcLimit ELSE until
    IN  Ascending({sig \in from + 1 .. n : chain[sig].kind # "failed"})

\* POST /sync, which joins the run in flight if there is one.
BeginSync ==
    /\ backfills["sync"].phase = "idle"
    /\ deployment.overlap \/ backfills["startup"].phase = "idle"
    /\ backfills' = [backfills EXCEPT !["sync"] = Listing]
    /\ UNCHANGED <<deployment, chain, mirror, cursor, halted, subscribed, live, faults>>

ListAnswered(run) ==
    /\ backfills[run].phase = "listing"
    /\ backfills' = [backfills EXCEPT ![run] = Fetching(SignaturesAfter(@.until))]
    /\ UNCHANGED <<deployment, chain, mirror, cursor, halted, subscribed, live, faults>>

\* processSignature once getTransaction has answered: every event, then the cursor;
\* nothing at all for a truncated log.
ProcessSignature(sig) ==
    /\ halted' = (halted \/ chain[sig].kind = "truncated")
    /\ IF chain[sig].kind = "truncated"
         THEN UNCHANGED <<mirror, cursor>>
         ELSE /\ mirror' = Applied(mirror, EventsOf(sig), chain[sig].slot, Len(EventsOf(sig)))
              /\ cursor' = sig

\* Variant: a truncated transaction is skipped, not fatal, so the run goes on.
AfterFetchSkipping(run) == Fetching(Tail(backfills[run].todo))

\* The rest of the run, which a truncated log ends.
AfterFetch(run) ==
    IF chain[Head(backfills[run].todo)].kind = "truncated" THEN Idle
    ELSE Fetching(Tail(backfills[run].todo))

\* Variant: the run in flight not cleared when it is rejected.
BackfillFetchedStuck(run) ==
    /\ backfills[run].phase = "fetching"
    /\ ProcessSignature(Head(backfills[run].todo))
    /\ backfills' = IF halted' THEN backfills ELSE [backfills EXCEPT ![run] = AfterFetch(run)]
    /\ UNCHANGED <<deployment, chain, subscribed, live, faults>>

BackfillFetched(run) ==
    /\ backfills[run].phase = "fetching"
    /\ ProcessSignature(Head(backfills[run].todo))
    /\ backfills' = [backfills EXCEPT ![run] = AfterFetch(run)]
    /\ UNCHANGED <<deployment, chain, subscribed, live, faults>>

\* The same for a live notification; a truncated log ends the subscription, but
\* not the fetches already under way.
LiveFetched(sig) ==
    /\ sig \in live
    /\ ProcessSignature(sig)
    /\ live' = live \ {sig}
    /\ subscribed' = (subscribed /\ chain[sig].kind # "truncated")
    /\ UNCHANGED <<deployment, chain, backfills, faults>>

\* The node does not find a confirmed transaction: the cursor moves on.
NotFound(run) ==
    /\ deployment.lossy
    /\ backfills[run].phase = "fetching"
    /\ cursor' = Head(backfills[run].todo)
    /\ backfills' = [backfills EXCEPT ![run] = Fetching(Tail(@.todo))]
    /\ UNCHANGED <<deployment, chain, mirror, halted, subscribed, live, faults>>

LiveNotFound(sig) ==
    /\ deployment.lossy
    /\ sig \in live
    /\ cursor' = sig
    /\ live' = live \ {sig}
    /\ UNCHANGED <<deployment, chain, mirror, halted, subscribed, backfills, faults>>

\* getTransaction fails for a live notification: the error is logged, no retry.
LiveCallFails(sig) ==
    /\ deployment.faulty /\ faults < MaxFaults
    /\ sig \in live
    /\ live' = live \ {sig}
    /\ faults' = faults + 1
    /\ UNCHANGED <<deployment, chain, mirror, cursor, halted, subscribed, backfills>>

\* An RPC call of a backfill run fails, which ends the run.
CallFails(run) ==
    /\ deployment.faulty /\ faults < MaxFaults
    /\ backfills[run].phase # "idle"
    /\ backfills' = [backfills EXCEPT ![run] = Idle]
    /\ faults' = faults + 1
    /\ UNCHANGED <<deployment, chain, mirror, cursor, halted, subscribed, live>>

\* What a new process starts with: main hydrates the tree, subscribes and begins a
\* backfill from the stored cursor.
Boot(m) ==
    /\ mirror' = Hydrated(m)
    /\ halted' = FALSE
    /\ subscribed' = deployment.live
    /\ backfills' = [startup |-> Listing, sync |-> Idle]
    /\ live' = {}
    /\ faults' = faults + 1

\* The process ends while every fiber awaits something, and is started again.
Restart ==
    /\ deployment.faulty /\ faults < MaxFaults
    /\ Boot(mirror)
    /\ UNCHANGED <<deployment, chain, cursor>>

\* The process is killed in the middle of processSignature: some events are in the
\* store (the last one perhaps without its root), the cursor is not.
KilledWriting(sig, k, rooted) ==
    /\ deployment.lossy /\ faults < MaxFaults
    /\ sig \in live \/ \E run \in Runs : backfills[run].phase = "fetching" /\ Head(backfills[run].todo) = sig
    /\ k \in 1 .. Len(EventsOf(sig))
    /\ LET whole == Applied(mirror, EventsOf(sig), chain[sig].slot, k)
           less  == Applied(mirror, EventsOf(sig), chain[sig].slot, k - 1)
       IN  Boot([whole EXCEPT !.roots = IF rooted THEN @ ELSE less.roots])
    /\ UNCHANGED <<deployment, chain, cursor>>

-----------------------------------------------------------------------------
Init ==
    /\ deployment \in Deployments
    /\ chain = <<[kind |-> "initialize", first |-> 0, slot |-> 0]>>
    /\ mirror = Empty
    /\ cursor = 0
    /\ halted = FALSE
    /\ subscribed = deployment.live
    /\ backfills = [startup |-> Listing, sync |-> Idle]
    /\ live = {}
    /\ faults = 0

LastSlot == chain[Len(chain)].slot

Next ==
    \/ \E kind \in Workload[deployment].kinds, gap \in Workload[deployment].gaps, heard \in BOOLEAN : Land(kind, LastSlot + gap, heard)
    \/ BeginSync
    \/ \E run \in Runs : ListAnswered(run) \/ BackfillFetched(run) \/ NotFound(run) \/ CallFails(run)
    \/ \E sig \in 1 .. Len(chain) : LiveFetched(sig) \/ LiveNotFound(sig) \/ LiveCallFails(sig)
    \/ Restart
    \/ \E sig \in 1 .. Len(chain), k \in 1 .. 3, rooted \in BOOLEAN : KilledWriting(sig, k, rooted)

\* The RPC node answers, and operators call POST /sync after confirmed transactions.
Fairness ==
    /\ \A run \in Runs : WF_vars(ListAnswered(run) \/ BackfillFetched(run))
    /\ WF_vars(\E sig \in 1 .. Len(chain) : LiveFetched(sig))
    /\ WF_vars(BeginSync)

Spec == Init /\ [][Next]_vars /\ Fairness

-----------------------------------------------------------------------------
(* Properties                                                              *)

\* The root of the first n leaves on chain.
ChainRoot(n) == [k \in 1 .. n |-> k - 1]

Http == ~deployment.live /\ ~deployment.overlap /\ ~deployment.lossy

Confirmed(kind) == {sig \in 1 .. cursor : chain[sig].kind = kind}

\* Without live tail and with one backfill at a time, through failed calls and
\* restarts, the mirror is exactly the chain up to the cursor and the cursor never
\* passes a truncated transaction.  A wallet that asks for the notes from any index
\* or the nullifiers from any slot on gets those of the chain, each with its root,
\* none left out and none twice.
MirrorExact ==
    Http =>
        LET n == LeafCount(cursor)
        IN  /\ mirror.tree = ChainRoot(n)
            /\ Hydrated(mirror) = mirror
            /\ \A from \in 0 .. n :
                LET served == GetNotesFrom(from)
                IN  /\ Len(served) = n - from
                    /\ \A k \in DOMAIN served :
                        /\ served[k].leaf_index = from + k - 1
                        /\ served[k].row.leaf = from + k - 1
                        /\ served[k].row.root = ChainRoot(from + k)
            /\ \A slot \in 0 .. LastSlot :
                GetNullifiersFrom(slot) = {sig \in Confirmed("transfer") : chain[sig].slot >= slot}
            /\ \A sig \in 1 .. Len(chain) : IsNullifierSpent(sig) <=> sig \in Confirmed("transfer")
            /\ ListComplianceKeys =
                LET order == Ascending(Confirmed("rotate"))
                IN  [k \in DOMAIN order |-> [version |-> order[k], fromSlot |-> chain[order[k]].slot]]
            /\ Confirmed("truncated") = {}

\* Until the ring of roots is full, three answers of the API fit together: the path
\* of every note served folds, with its leaf, to the root of GET /root (wallets refuse
\* a witness when the two differ), there is no path past next_leaf_index, and a
\* client finds that root in roots just before root_cursor, as in the pool's own ring.
RootMatchesPaths ==
    Http /\ ~halted /\ Len(mirror.tree) \in 1 .. RootRingSize =>
        /\ \A k \in DOMAIN GetNotesFrom(0) :
            LET note == GetNotesFrom(0)[k]
                path == GetPath(note.leaf_index)
            IN  /\ note.leaf_index < GetRoot.next_leaf_index
                /\ path.status = 200
                /\ With(path.siblings, note.leaf_index + 1, note.row.leaf) = GetRoot.root
        /\ GetPath(GetRoot.next_leaf_index).status = 404
        /\ GetRoot.roots[(GetRoot.root_cursor + RootRingSize - 1) % RootRingSize] = GetRoot.root
        /\ \A c \in 0 .. GetRoot.next_leaf_index - 1 : GetRoot.roots[c] = ChainRoot(c + 1)

Readable(k) == \A sig \in 1 .. k : chain[sig].kind # "truncated"

\* Without live tail the mirror eventually holds every leaf before the first
\* truncated transaction, whatever calls failed and however often it restarted.
CatchesUp ==
    Http ~> [](\A k \in 1 .. Len(chain) : Readable(k) =>
                    \A i \in 1 .. LeafCount(k) : i \in DOMAIN mirror.tree /\ mirror.tree[i] = i - 1)

\* With the live tail attached before the historical backfill is listed, no note
\* is missed: each transaction is in the list or is heard.
NothingMissed ==
    deployment.live /\ ~deployment.faulty /\ ~deployment.lossy
        ~> [](Readable(Len(chain)) => DOMAIN mirror.notes = 0 .. LeafCount(Len(chain)) - 1)

\* POST /sync and the startup backfill always come to an end, also when they are
\* rejected, so that the next call starts a new run.
SyncAnswered == \A run \in Runs : backfills[run].phase # "idle" ~> backfills[run].phase = "idle"

\* "the indexer's mirror is either exactly right or it must stop serving reads"
RightOrHalted == halted \/ mirror.tree = ChainRoot(Len(mirror.tree))

=============================================================================
