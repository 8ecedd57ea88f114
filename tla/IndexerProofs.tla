---------------------------- MODULE IndexerProofs ----------------------------
(***************************************************************************)
(* The indexer without live tail and with one backfill at a time, for any  *)
(* number of transactions, restarts and failed calls, any size of the ring *)
(* of roots and any limit of the RPC node that no backlog exceeds.         *)
(***************************************************************************)
EXTENDS Indexer, FiniteSetTheorems, TLAPS

-----------------------------------------------------------------------------
(* The inductive invariant                                                 *)

Transactions == [kind : AllKinds, first : Nat, slot : Nat]
BackfillRuns == [phase : {"idle", "listing", "fetching"}, until : Nat, todo : Seq(Nat)]

\* A stretch of failed transactions inserts no leaf.  (What a run skips between two
\* signatures it fetches is such a stretch.)
FailedBetween(a, b) == \A sig \in a + 1 .. b : chain[sig].kind = "failed"

ChainOK ==
    /\ chain \in Seq(Transactions) /\ Len(chain) > 0
    /\ \A k \in 1 .. Len(chain) : chain[k].first = LeafCount(k - 1)
    /\ \A a, b \in 0 .. Len(chain) : a <= b /\ FailedBetween(a, b) => LeafCount(a) = LeafCount(b)
    /\ \A a, b \in 1 .. Len(chain) : a <= b => chain[a].slot <= chain[b].slot

\* todo lists, in order, what was confirmed after the cursor and did not fail, up to
\* some transaction.
Covers(todo, upto) ==
    /\ \A j, k \in 1 .. Len(todo) : j < k => todo[j] < todo[k]
    /\ {todo[k] : k \in 1 .. Len(todo)} = {sig \in cursor + 1 .. upto : chain[sig].kind # "failed"}

\* One run at a time: it was begun at the cursor, or has all that follows the cursor.
OneRun ==
    /\ live = {} /\ ~subscribed
    /\ cursor \in 0 .. Len(chain)
    /\ backfills \in [Runs -> BackfillRuns]
    /\ \E run \in Runs : backfills[run].phase = "idle"
    /\ \A run \in Runs :
        /\ backfills[run].phase = "listing" => backfills[run].until = cursor
        /\ backfills[run].phase = "fetching" =>
              /\ backfills[run].todo # << >>
              /\ \E upto \in cursor .. Len(chain) : Covers(backfills[run].todo, upto)

\* The tables and the tree hold the transactions up to the cursor, and the ring of
\* roots, until it is full, every root in order.
Tabled(m, n) ==
    /\ m = [tree |-> m.tree, notes |-> m.notes, spent |-> m.spent, roots |-> m.roots, keys |-> m.keys]
    /\ m.tree = ChainRoot(n)
    /\ DOMAIN m.notes = 0 .. n - 1
    /\ \A i \in 0 .. n - 1 : m.notes[i].leaf = i /\ m.notes[i].root = ChainRoot(i + 1)
RootsInOrder(m, n, slot) ==
    n <= RootRingSize =>
        /\ DOMAIN m.roots = 0 .. n - 1
        /\ \A c \in 0 .. n - 1 : /\ m.roots[c].root = ChainRoot(c + 1) /\ m.roots[c].next = c + 1
                                 /\ m.roots[c].slot \in Nat /\ m.roots[c].slot <= slot
        /\ \A c, d \in 0 .. n - 1 : c <= d => m.roots[c].slot <= m.roots[d].slot
Listed(table, kind) ==
    /\ DOMAIN table = Confirmed(kind)
    /\ \A sig \in Confirmed(kind) : table[sig] = chain[sig].slot

CursorSlot == IF cursor = 0 THEN 0 ELSE chain[cursor].slot

MirrorOK ==
    /\ Tabled(mirror, LeafCount(cursor))
    /\ RootsInOrder(mirror, LeafCount(cursor), CursorSlot)
    /\ Listed(mirror.spent, "transfer") /\ Listed(mirror.keys, "rotate")
    /\ Confirmed("truncated") = {}

IndexerInv == deployment \in Deployments /\ ChainOK /\ (Http => OneRun /\ MirrorOK)

\* No backfill is begun with a longer list ahead of it than the node answers with.
Backlog == \A run \in Runs :
    backfills[run].phase = "listing" => Len(chain) - backfills[run].until <= RpcLimit

-----------------------------------------------------------------------------
(* Operators                                                               *)

\* Ascending lists a finite set of numbers in order, each once.
LEMMA AscendingParts ==
    ASSUME NEW S \in SUBSET Nat, IsFiniteSet(S)
    PROVE  /\ Ascending(S) \in Seq(S) /\ Len(Ascending(S)) = Cardinality(S)
           /\ \A j, k \in 1 .. Len(Ascending(S)) : j < k => Ascending(S)[j] < Ascending(S)[k]
           /\ {Ascending(S)[k] : k \in 1 .. Len(Ascending(S))} = S
  <1> DEFINE below(i) == {j \in S : j < i}
             c == Cardinality(S)
             rank == [i \in S |-> Cardinality(below(i)) + 1]
  <1>1. c \in Nat
    BY FS_CardinalityType
  <1>2. ASSUME NEW i \in S
        PROVE  IsFiniteSet(below(i)) /\ Cardinality(below(i)) \in Nat /\ Cardinality(below(i)) < c
    <2>1. below(i) \in SUBSET S /\ i \notin below(i)
      OBVIOUS
    <2> HIDE DEF below
    <2>2. IsFiniteSet(below(i)) /\ Cardinality(below(i)) <= c /\ Cardinality(below(i)) # c
      BY <2>1, FS_Subset
    <2>3. Cardinality(below(i)) \in Nat
      BY <2>2, FS_CardinalityType
    <2> QED
      BY <1>1, <2>2, <2>3
  <1>3. ASSUME NEW k \in S, NEW l \in S, k < l PROVE Cardinality(below(k)) < Cardinality(below(l))
    <2>1. \A m \in S : m < k => m < l
      BY <1>3
    <2>2. below(k) \in SUBSET below(l)
      BY <2>1
    <2>3. k \in below(l) /\ k \notin below(k)
      BY <1>3
    <2>4. IsFiniteSet(below(l)) /\ below(l) # below(k)
      BY <1>2, <2>3
    <2> HIDE DEF below
    <2>5. Cardinality(below(k)) <= Cardinality(below(l)) /\ Cardinality(below(k)) # Cardinality(below(l))
      BY <2>2, <2>4, FS_Subset
    <2> QED
      BY <1>2, <2>5
  <1> HIDE DEF below
  <1>4. rank \in [S -> 1 .. c]
    BY <1>1, <1>2
  <1>5. \A k, l \in S : k < l => rank[k] < rank[l]
    BY <1>2, <1>3
  <1>6. \A k, l \in S : rank[k] = rank[l] => k = l
    <2> SUFFICES ASSUME NEW k \in S, NEW l \in S, rank[k] = rank[l] PROVE k = l
      OBVIOUS
    <2> HIDE DEF rank
    <2>1. rank[k] \in Int /\ rank[l] \in Int /\ k \in Int /\ l \in Int
      BY <1>4, <1>1
    <2>2. ~ (k < l) /\ ~ (l < k)
      BY <1>5, <2>1
    <2> QED
      BY <2>1, <2>2
  <1>7. \A j \in 1 .. c : \E i \in S : rank[i] = j
    <2>1. rank \in Injection(S, 1 .. c)
      BY <1>4, <1>6 DEF Injection, IsInjective
    <2>2. IsFiniteSet(1 .. c) /\ Cardinality(1 .. c) = c
      BY <1>1, FS_Interval
    <2> HIDE DEF rank, c
    <2>3. Cardinality(S) = c
      BY DEF c
    <2>4. rank \in Surjection(S, 1 .. c)
      BY <2>1, <2>2, <2>3, FS_Injection
    <2> QED
      BY <2>4 DEF Surjection
  <1> DEFINE at == Ascending(S)
  <1>8. at = [k \in 1 .. c |-> CHOOSE i \in S : Cardinality(below(i)) = k - 1]
    BY DEF Ascending, below
  <1>9. \A k \in 1 .. c : at[k] \in S /\ rank[at[k]] = k
    <2> SUFFICES ASSUME NEW k \in 1 .. c PROVE at[k] \in S /\ rank[at[k]] = k
      OBVIOUS
    <2>1. PICK i \in S : rank[i] = k
      BY <1>7
    <2>2. Cardinality(below(i)) = k - 1
      BY <1>2, <2>1
    <2>3. at[k] \in S /\ Cardinality(below(at[k])) = k - 1
      BY <1>8, <2>2
    <2> QED
      BY <1>1, <2>3
  <1> HIDE DEF at, rank
  <1>10. at \in [1 .. c -> S]
    BY <1>8, <1>9
  <1>11. at \in Seq(S) /\ Len(at) = c
    BY <1>1, <1>10
  <1>12. \A j, k \in 1 .. c : j < k => at[j] < at[k]
    <2> SUFFICES ASSUME NEW j \in 1 .. c, NEW k \in 1 .. c, j < k PROVE at[j] < at[k]
      OBVIOUS
    <2>1. at[j] \in Nat /\ at[k] \in Nat
      BY <1>9
    <2>2. rank[at[j]] = j /\ rank[at[k]] = k /\ at[j] \in S /\ at[k] \in S /\ j \in Int /\ k \in Int
      BY <1>1, <1>9
    <2>3. at[k] # at[j]
      BY <2>2
    <2>4. at[k] < at[j] => k < j
      BY <1>5, <2>2
    <2> QED
      BY <2>1, <2>2, <2>3, <2>4
  <1>13. \A i \in S : \E k \in 1 .. c : at[k] = i
    BY <1>4, <1>6, <1>9
  <1>14. {at[k] : k \in 1 .. c} = S
    BY <1>9, <1>13
  <1> QED
    BY <1>11, <1>12, <1>14 DEF at, c

LEMMA AscendingInterval ==
    ASSUME NEW a \in Nat, NEW b \in Int, a <= b + 1
    PROVE  Ascending(a .. b) = [k \in 1 .. b - a + 1 |-> a + k - 1]
  <1>1. Cardinality(a .. b) = b - a + 1
    BY FS_Interval
  <1>2. ASSUME NEW i \in a .. b PROVE Cardinality({j \in a .. b : j < i}) = i - a
    <2>1. {j \in a .. b : j < i} = a .. i - 1
      OBVIOUS
    <2>2. i - 1 \in Int /\ a \in Int /\ a <= i - 1 + 1
      OBVIOUS
    <2> DEFINE l == i - 1
    <2>3. l \in Int /\ a \in Int /\ a <= l + 1 /\ l - a + 1 = i - a
      BY <2>2
    <2> HIDE DEF l
    <2>4. Cardinality(a .. l) = IF a > l THEN 0 ELSE l - a + 1
      BY <2>3, FS_Interval
    <2>5. Cardinality(a .. l) = i - a
      BY <2>3, <2>4
    <2> QED
      BY <2>1, <2>5 DEF l
  <1>3. ASSUME NEW k \in 1 .. b - a + 1
        PROVE  (CHOOSE i \in a .. b : Cardinality({j \in a .. b : j < i}) = k - 1) = a + k - 1
    <2>1. a + k - 1 \in a .. b /\ (a + k - 1) - a = k - 1
      OBVIOUS
    <2>2. \A i \in a .. b : i - a = k - 1 <=> i = a + k - 1
      OBVIOUS
    <2>3. \A i \in a .. b : Cardinality({j \in a .. b : j < i}) = k - 1 <=> i = a + k - 1
      BY <1>2, <2>2
    <2> QED
      BY <2>1, <2>3
  <1> QED
    BY <1>1, <1>3 DEF Ascending

\* A transaction of one and of three events applied.
LEMMA AppliedOne ==
    ASSUME NEW m, NEW e, NEW slot PROVE Applied(m, <<e>>, slot, 1) = ApplyEvent(m, e, slot)
  <1> DEFINE Step(f) == [j \in 0 .. Len(<<e>>) |-> IF j = 0 THEN m ELSE ApplyEvent(f[j - 1], <<e>>[j], slot)]
             g == [j \in 0 .. 1 |-> IF j = 0 THEN m ELSE ApplyEvent(m, e, slot)]
  <1>1. g = Step(g)
    OBVIOUS
  <1>2. PICK f : f = Step(f) /\ Applied(m, <<e>>, slot, 1) = f[1]
    BY <1>1 DEF Applied
  <1>3. f[0] = m
    BY <1>2
  <1> QED
    BY <1>2, <1>3

LEMMA AppliedThree ==
    ASSUME NEW m, NEW e1, NEW e2, NEW e3, NEW slot
    PROVE  Applied(m, <<e1, e2, e3>>, slot, 3) =
              ApplyEvent(ApplyEvent(ApplyEvent(m, e1, slot), e2, slot), e3, slot)
  <1> DEFINE es == <<e1, e2, e3>>
             Step(f) == [j \in 0 .. Len(es) |-> IF j = 0 THEN m ELSE ApplyEvent(f[j - 1], es[j], slot)]
             a1 == ApplyEvent(m, e1, slot)
             a2 == ApplyEvent(a1, e2, slot)
             a3 == ApplyEvent(a2, e3, slot)
             g == [j \in 0 .. 3 |-> IF j = 0 THEN m ELSE IF j = 1 THEN a1 ELSE IF j = 2 THEN a2 ELSE a3]
  <1>1. g = Step(g)
    <2>1. \A j \in 0 .. 3 : g[j] = Step(g)[j]
      OBVIOUS
    <2> QED
      BY <2>1
  <1>2. PICK f : f = Step(f) /\ Applied(m, es, slot, 3) = f[3]
    BY <1>1 DEF Applied
  <1>3. f[0] = m
    BY <1>2
  <1>4. f[1] = a1
    BY <1>2, <1>3
  <1>5. f[2] = a2
    BY <1>2, <1>4
  <1> QED
    BY <1>2, <1>5

\* Until the ring is full, the next root goes to the slot numbered by its prefix.
LEMMA NextSlotIs ==
    ASSUME NEW n \in Nat, n < RootRingSize, NEW roots, DOMAIN roots = 0 .. n - 1
    PROVE  NextSlot(roots) = n
  <1>1. CASE n = 0
    BY <1>1 DEF NextSlot
  <1>2. CASE n > 0
    <2>1. n - 1 \in 0 .. n - 1 /\ \A y \in 0 .. n - 1 : y <= n - 1
      BY <1>2
    <2>2. Highest(0 .. n - 1) = n - 1
      <3>1. \A x \in 0 .. n - 1 : (\A y \in 0 .. n - 1 : y <= x) => x = n - 1
        BY <2>1
      <3> QED
        BY <2>1, <3>1 DEF Highest
    <2>3. RootRingSize \in Nat /\ n % RootRingSize = n
      BY IndexerAssumption
    <2> QED
      BY <2>1, <2>2, <2>3 DEF NextSlot
  <1> QED
    BY <1>1, <1>2

\* A note event of the next leaf index extends the mirror by one leaf.
LEMMA NoteApplied ==
    ASSUME NEW m, NEW n \in Nat, NEW prev \in Nat, NEW slot \in Nat, prev <= slot,
           Tabled(m, n), RootsInOrder(m, n, prev)
    PROVE  LET r == ApplyEvent(m, NoteInserted(n), slot)
           IN  /\ Tabled(r, n + 1) /\ RootsInOrder(r, n + 1, slot)
               /\ r.spent = m.spent /\ r.keys = m.keys
  <1> DEFINE tree == Append(m.tree, n)
             note == [leaf |-> n, root |-> tree, slot |-> slot]
             notes == With(m.notes, n, note)
             row == [root |-> tree, next |-> Len(tree), slot |-> slot]
             roots == With(m.roots, NextSlot(m.roots), row)
             r == ApplyEvent(m, NoteInserted(n), slot)
  <1>1. tree = ChainRoot(n + 1) /\ Len(tree) = n + 1
    <2>1. m.tree = ChainRoot(n)
      BY DEF Tabled
    <2>2. ChainRoot(n) \in Seq(Nat) /\ Len(ChainRoot(n)) = n
      BY DEF ChainRoot
    <2>3. Append(ChainRoot(n), n) = [k \in 1 .. n + 1 |-> k - 1]
      BY <2>2 DEF ChainRoot
    <2>4. Len(Append(ChainRoot(n), n)) = n + 1
      BY <2>2
    <2> QED
      BY <2>1, <2>3, <2>4 DEF ChainRoot
  <1> HIDE DEF tree
  <1>2. r = [tree |-> tree, notes |-> notes, spent |-> m.spent, roots |-> roots, keys |-> m.keys]
    <2>1. m = [tree |-> m.tree, notes |-> m.notes, spent |-> m.spent, roots |-> m.roots, keys |-> m.keys]
      BY DEF Tabled
    <2>2. r = [m EXCEPT !.tree = tree, !.notes = notes, !.roots = roots]
      BY DEF ApplyEvent, NoteInserted, tree
    <2> HIDE DEF r, notes, roots
    <2> QED
      BY <2>1, <2>2
  <1>3. /\ DOMAIN notes = 0 .. n
        /\ \A i \in 0 .. n : notes[i].leaf = i /\ notes[i].root = ChainRoot(i + 1)
    <2>1. DOMAIN m.notes = 0 .. n - 1
          /\ \A i \in 0 .. n - 1 : m.notes[i].leaf = i /\ m.notes[i].root = ChainRoot(i + 1)
      BY DEF Tabled
    <2>2. DOMAIN notes = 0 .. n
      BY <2>1 DEF With
    <2>3. notes[n] = note /\ \A i \in 0 .. n - 1 : notes[i] = m.notes[i]
      BY <2>1 DEF With
    <2>4. note.leaf = n /\ note.root = ChainRoot(n + 1)
      BY <1>1
    <2> HIDE DEF notes, note
    <2>5. ASSUME NEW i \in 0 .. n PROVE notes[i].leaf = i /\ notes[i].root = ChainRoot(i + 1)
      <3>1. CASE i = n
        BY <2>3, <2>4, <3>1
      <3>2. CASE i \in 0 .. n - 1
        BY <2>1, <2>3, <3>2
      <3> QED
        BY <3>1, <3>2
    <2> QED
      BY <2>2, <2>5
  <1>4. Tabled(r, n + 1)
    <2> HIDE DEF r, notes, roots
    <2>1. n + 1 - 1 = n
      OBVIOUS
    <2>2. r.tree = tree /\ r.notes = notes /\ r.spent = m.spent /\ r.roots = roots /\ r.keys = m.keys
      BY <1>2
    <2> QED
      BY <1>1, <1>2, <1>3, <2>1, <2>2 DEF Tabled
  <1>5. RootsInOrder(r, n + 1, slot)
    <2>1. r.roots = roots
      BY <1>2
    <2> HIDE DEF r
    <2> SUFFICES ASSUME n + 1 <= RootRingSize
                 PROVE  /\ DOMAIN roots = 0 .. n
                        /\ \A c \in 0 .. n : /\ roots[c].root = ChainRoot(c + 1) /\ roots[c].next = c + 1
                                             /\ roots[c].slot \in Nat /\ roots[c].slot <= slot
                        /\ \A c, d \in 0 .. n : c <= d => roots[c].slot <= roots[d].slot
      <3> DEFINE N == n + 1
                 last == N - 1
      <3>1. last = n
        OBVIOUS
      <3> HIDE DEF roots, last
      <3>2. N <= RootRingSize =>
               /\ DOMAIN r.roots = 0 .. last
               /\ \A c \in 0 .. last : /\ r.roots[c].root = ChainRoot(c + 1) /\ r.roots[c].next = c + 1
                                       /\ r.roots[c].slot \in Nat /\ r.roots[c].slot <= slot
               /\ \A c, d \in 0 .. last : c <= d => r.roots[c].slot <= r.roots[d].slot
        BY <2>1, <3>1, Zenon
      <3> HIDE DEF N
      <3>3. RootsInOrder(r, N, slot)
        BY <3>2, Zenon DEF RootsInOrder, last
      <3> QED
        BY <3>3 DEF N
    <2>2. n < RootRingSize /\ n <= RootRingSize
      BY IndexerAssumption
    <2>3. /\ DOMAIN m.roots = 0 .. n - 1
          /\ \A c \in 0 .. n - 1 : /\ m.roots[c].root = ChainRoot(c + 1) /\ m.roots[c].next = c + 1
                                   /\ m.roots[c].slot \in Nat /\ m.roots[c].slot <= prev
          /\ \A c, d \in 0 .. n - 1 : c <= d => m.roots[c].slot <= m.roots[d].slot
      BY <2>2 DEF RootsInOrder
    <2>4. NextSlot(m.roots) = n
      BY <2>2, <2>3, NextSlotIs
    <2>5. DOMAIN roots = 0 .. n /\ roots[n] = row /\ \A c \in 0 .. n - 1 : roots[c] = m.roots[c]
      BY <2>3, <2>4 DEF With
    <2>6. row.root = ChainRoot(n + 1) /\ row.next = n + 1 /\ row.slot = slot
      BY <1>1
    <2> HIDE DEF roots, row
    <2>7. \A c \in 0 .. n : c \in 0 .. n - 1 \/ c = n
      OBVIOUS
    <2>8. ASSUME NEW c \in 0 .. n
          PROVE  /\ roots[c].root = ChainRoot(c + 1) /\ roots[c].next = c + 1
                 /\ roots[c].slot \in Nat /\ roots[c].slot <= slot
      <3>1. CASE c = n
        BY <2>5, <2>6, <3>1
      <3>2. CASE c \in 0 .. n - 1
        <4>1. roots[c] = m.roots[c] /\ m.roots[c].slot \in Nat /\ m.roots[c].slot <= prev
          BY <2>3, <2>5, <3>2
        <4>2. m.roots[c].root = ChainRoot(c + 1) /\ m.roots[c].next = c + 1
          BY <2>3, <3>2
        <4>3. m.roots[c].slot <= slot
          BY <4>1
        <4> QED
          BY <4>1, <4>2, <4>3
      <3> QED
        BY <2>7, <3>1, <3>2
    <2>9. ASSUME NEW c \in 0 .. n, NEW d \in 0 .. n, c <= d
          PROVE  roots[c].slot <= roots[d].slot
      <3>1. CASE d = n
        BY <2>5, <2>6, <2>8, <3>1
      <3>2. CASE d \in 0 .. n - 1
        <4>1. c \in 0 .. n - 1
          BY <2>9, <3>2
        <4> QED
          BY <2>3, <2>5, <2>9, <3>2, <4>1
      <3> QED
        BY <2>7, <3>1, <3>2
    <2> QED
      BY <2>5, <2>8, <2>9
  <1>6. r.spent = m.spent /\ r.keys = m.keys
    BY <1>2
  <1> QED
    BY <1>4, <1>5, <1>6

\* The other events leave the tree, the notes and the roots alone.
LEMMA SpentApplied ==
    ASSUME NEW m, NEW n, NEW slot, NEW prev, NEW x, Tabled(m, n), RootsInOrder(m, n, prev)
    PROVE  LET r == ApplyEvent(m, NullifierSpent(x), slot)
           IN  /\ Tabled(r, n) /\ RootsInOrder(r, n, prev)
               /\ r.spent = With(m.spent, x, slot) /\ r.keys = m.keys
  <1> DEFINE spent == With(m.spent, x, slot)
             r == ApplyEvent(m, NullifierSpent(x), slot)
  <1>1. m = [tree |-> m.tree, notes |-> m.notes, spent |-> m.spent, roots |-> m.roots, keys |-> m.keys]
    BY DEF Tabled
  <1>2. r = [m EXCEPT !.spent = spent]
    BY DEF ApplyEvent, NullifierSpent
  <1> HIDE DEF spent, r
  <1>3. r = [tree |-> m.tree, notes |-> m.notes, spent |-> spent, roots |-> m.roots, keys |-> m.keys]
    BY <1>1, <1>2
  <1>4. /\ r.tree = m.tree /\ r.notes = m.notes /\ r.spent = spent
        /\ r.roots = m.roots /\ r.keys = m.keys
    BY <1>3
  <1>5. Tabled(r, n)
    BY <1>3, <1>4 DEF Tabled
  <1>6. RootsInOrder(r, n, prev)
    BY <1>4 DEF RootsInOrder
  <1> QED
    BY <1>4, <1>5, <1>6 DEF spent, r

LEMMA RotatedApplied ==
    ASSUME NEW m, NEW n, NEW slot, NEW prev, NEW x, Tabled(m, n), RootsInOrder(m, n, prev)
    PROVE  LET r == ApplyEvent(m, ComplianceKeyRotated(x), slot)
           IN  /\ Tabled(r, n) /\ RootsInOrder(r, n, prev)
               /\ r.spent = m.spent /\ r.keys = With(m.keys, x, slot)
  <1> DEFINE keys == With(m.keys, x, slot)
             r == ApplyEvent(m, ComplianceKeyRotated(x), slot)
  <1>1. m = [tree |-> m.tree, notes |-> m.notes, spent |-> m.spent, roots |-> m.roots, keys |-> m.keys]
    BY DEF Tabled
  <1>2. r = [m EXCEPT !.keys = keys]
    BY DEF ApplyEvent, ComplianceKeyRotated
  <1> HIDE DEF keys, r
  <1>3. r = [tree |-> m.tree, notes |-> m.notes, spent |-> m.spent, roots |-> m.roots, keys |-> keys]
    BY <1>1, <1>2
  <1>4. /\ r.tree = m.tree /\ r.notes = m.notes /\ r.spent = m.spent
        /\ r.roots = m.roots /\ r.keys = keys
    BY <1>3
  <1>5. Tabled(r, n)
    BY <1>3, <1>4 DEF Tabled
  <1>6. RootsInOrder(r, n, prev)
    BY <1>4 DEF RootsInOrder
  <1> QED
    BY <1>4, <1>5, <1>6 DEF keys, r

\* A later slot bounds the slots in the ring too.
LEMMA RootsLater ==
    ASSUME NEW m, NEW n, NEW prev \in Nat, NEW slot \in Nat, prev <= slot, RootsInOrder(m, n, prev)
    PROVE  RootsInOrder(m, n, slot)
  <1>1. \A x \in Nat : x <= prev => x <= slot
    OBVIOUS
  <1> QED
    BY <1>1 DEF RootsInOrder

\* A transaction fetched in its turn carries the mirror from the old cursor to it.
LEMMA Processed ==
    ASSUME ChainOK, MirrorOK, cursor \in 0 .. Len(chain), NEW sig \in 1 .. Len(chain), cursor < sig,
           FailedBetween(cursor, sig - 1), chain[sig].kind \notin {"failed", "truncated"},
           chain' = chain, cursor' = sig,
           mirror' = Applied(mirror, EventsOf(sig), chain[sig].slot, Len(EventsOf(sig)))
    PROVE  MirrorOK'
  <1> DEFINE n == chain[sig].first
             kind == chain[sig].kind
             slot == chain[sig].slot
             prev == CursorSlot
  <1>1. \A k \in 1 .. Len(chain) : chain[k] \in Transactions
    BY DEF ChainOK
  <1>2. n \in Nat /\ kind \in AllKinds /\ slot \in Nat /\ cursor \in Nat /\ Len(chain) \in Nat
    BY <1>1 DEF Transactions, ChainOK
  <1>3. prev \in Nat /\ prev <= slot
    <2>1. CASE cursor = 0
      BY <1>2, <2>1 DEF CursorSlot
    <2>2. CASE cursor # 0
      <3>1. cursor \in 1 .. Len(chain) /\ cursor <= sig
        BY <1>2, <2>2
      <3>2. chain[cursor].slot \in Nat /\ chain[cursor].slot <= slot
        BY <1>1, <3>1 DEF Transactions, ChainOK
      <3> QED
        BY <2>2, <3>2 DEF CursorSlot
    <2> QED
      BY <2>1, <2>2
  <1>4. n = LeafCount(cursor)
    <2>1. sig - 1 \in 0 .. Len(chain) /\ cursor <= sig - 1
      BY <1>2
    <2>2. LeafCount(cursor) = LeafCount(sig - 1)
      BY <2>1 DEF ChainOK
    <2> QED
      BY <2>2 DEF ChainOK
  <1>5. LeafCount(cursor)' = n + LeavesOf(kind)
    BY DEF LeafCount
  <1>6. CursorSlot' = slot
    BY DEF CursorSlot
  <1>7. Tabled(mirror, n) /\ RootsInOrder(mirror, n, prev)
    BY <1>4 DEF MirrorOK
  <1>8. ASSUME NEW k, k # "failed"
        PROVE  Confirmed(k)' = IF kind = k THEN Confirmed(k) \cup {sig} ELSE Confirmed(k)
    <2>1. \A x \in 1 .. sig : x \in 1 .. cursor \/ x \in cursor + 1 .. sig - 1 \/ x = sig
      BY <1>2
    <2>2. \A x \in cursor + 1 .. sig - 1 : chain[x].kind # k
      BY <1>8 DEF FailedBetween
    <2>3. \A x \in 1 .. cursor : x \in 1 .. sig
      BY <1>2
    <2> QED
      BY <2>1, <2>2, <2>3 DEF Confirmed
  <1>9. ASSUME NEW k, k # "failed", k # kind, NEW table, Listed(table, k)
        PROVE  DOMAIN table = Confirmed(k)' /\ \A x \in Confirmed(k)' : table[x] = chain'[x].slot
    BY <1>8, <1>9 DEF Listed
  <1>10. ASSUME kind # "failed", NEW table, Listed(table, kind)
         PROVE  /\ DOMAIN With(table, sig, slot) = Confirmed(kind)'
                /\ \A x \in Confirmed(kind)' : With(table, sig, slot)[x] = chain'[x].slot
    <2>1. Confirmed(kind)' = Confirmed(kind) \cup {sig}
      BY <1>8, <1>10
    <2>2. DOMAIN table = Confirmed(kind) /\ \A x \in Confirmed(kind) : table[x] = chain[x].slot
      BY <1>10 DEF Listed
    <2> QED
      BY <2>1, <2>2 DEF With
  <1>11. Confirmed("truncated")' = {}
    BY <1>8 DEF MirrorOK
  <1>12. Listed(mirror.spent, "transfer") /\ Listed(mirror.keys, "rotate")
    BY DEF MirrorOK
  <1>13. ASSUME NEW N, LeafCount(cursor)' = N, Tabled(mirror', N), RootsInOrder(mirror', N, slot),
                DOMAIN mirror'.spent = Confirmed("transfer")',
                \A x \in Confirmed("transfer")' : mirror'.spent[x] = chain'[x].slot,
                DOMAIN mirror'.keys = Confirmed("rotate")',
                \A x \in Confirmed("rotate")' : mirror'.keys[x] = chain'[x].slot
         PROVE  MirrorOK'
    <2>1. Tabled(mirror, LeafCount(cursor))'
      BY <1>13
    <2>2. RootsInOrder(mirror, LeafCount(cursor), CursorSlot)'
      BY <1>6, <1>13
    <2>3. Listed(mirror.spent, "transfer")'
      BY <1>13 DEF Listed
    <2>4. Listed(mirror.keys, "rotate")'
      BY <1>13 DEF Listed
    <2> QED
      BY <1>11, <2>1, <2>2, <2>3, <2>4 DEF MirrorOK
  <1>14. CASE kind \in {"initialize", "deposit"}
    <2>1. EventsOf(sig) = <<NoteInserted(n)>> /\ LeavesOf(kind) = 1
      BY <1>14 DEF EventsOf, LeavesOf
    <2>2. mirror' = ApplyEvent(mirror, NoteInserted(n), slot)
      BY <2>1, AppliedOne
    <2>3. /\ Tabled(mirror', n + 1) /\ RootsInOrder(mirror', n + 1, slot)
          /\ mirror'.spent = mirror.spent /\ mirror'.keys = mirror.keys
      BY <1>2, <1>3, <1>7, <2>2, NoteApplied
    <2>4. kind # "transfer" /\ kind # "rotate"
      BY <1>14
    <2> QED
      BY <1>5, <1>9, <1>12, <1>13, <2>1, <2>3, <2>4
  <1>15. CASE kind = "transfer"
    <2> DEFINE m1 == ApplyEvent(mirror, NoteInserted(n), slot)
               m2 == ApplyEvent(m1, NoteInserted(n + 1), slot)
               m3 == ApplyEvent(m2, NullifierSpent(sig), slot)
    <2>1. EventsOf(sig) = <<NoteInserted(n), NoteInserted(n + 1), NullifierSpent(sig)>>
          /\ LeavesOf(kind) = 2
      BY <1>15 DEF EventsOf, LeavesOf
    <2>2. mirror' = m3
      BY <2>1, AppliedThree
    <2>3. /\ Tabled(m1, n + 1) /\ RootsInOrder(m1, n + 1, slot)
          /\ m1.spent = mirror.spent /\ m1.keys = mirror.keys
      BY <1>2, <1>3, <1>7, NoteApplied
    <2> HIDE DEF m1
    <2>4. /\ Tabled(m2, (n + 1) + 1) /\ RootsInOrder(m2, (n + 1) + 1, slot)
          /\ m2.spent = mirror.spent /\ m2.keys = mirror.keys
      <3> DEFINE q == n + 1
      <3>1. q \in Nat /\ slot \in Nat /\ slot <= slot
        BY <1>2
      <3>2. /\ Tabled(m1, q) /\ RootsInOrder(m1, q, slot)
            /\ m1.spent = mirror.spent /\ m1.keys = mirror.keys
        BY <2>3
      <3> HIDE DEF q
      <3> DEFINE r == ApplyEvent(m1, NoteInserted(q), slot)
      <3>3. Tabled(r, q + 1) /\ RootsInOrder(r, q + 1, slot) /\ r.spent = m1.spent /\ r.keys = m1.keys
        BY <3>1, <3>2, NoteApplied
      <3> QED
        BY <3>2, <3>3 DEF q
    <2> HIDE DEF m2
    <2>5. /\ Tabled(m3, (n + 1) + 1) /\ RootsInOrder(m3, (n + 1) + 1, slot)
          /\ m3.spent = With(mirror.spent, sig, slot) /\ m3.keys = mirror.keys
      BY <2>4, SpentApplied
    <2>6. (n + 1) + 1 = n + 2
      BY <1>2
    <2> HIDE DEF m3
    <2>7. Tabled(mirror', n + 2) /\ RootsInOrder(mirror', n + 2, slot)
      BY <2>2, <2>5, <2>6
    <2> QED
      BY <1>5, <1>9, <1>10, <1>12, <1>13, <1>15, <2>1, <2>2, <2>5, <2>7
  <1>16. CASE kind = "rotate"
    <2>1. EventsOf(sig) = <<ComplianceKeyRotated(sig)>> /\ LeavesOf(kind) = 0
      BY <1>16 DEF EventsOf, LeavesOf
    <2>2. mirror' = ApplyEvent(mirror, ComplianceKeyRotated(sig), slot)
      BY <2>1, AppliedOne
    <2>3. RootsInOrder(mirror, n, slot)
      BY <1>2, <1>3, <1>7, RootsLater
    <2>4. /\ Tabled(mirror', n) /\ RootsInOrder(mirror', n, slot)
          /\ mirror'.spent = mirror.spent /\ mirror'.keys = With(mirror.keys, sig, slot)
      BY <1>7, <2>2, <2>3, RotatedApplied
    <2>5. n + LeavesOf(kind) = n
      BY <1>2, <2>1
    <2> QED
      BY <1>5, <1>9, <1>10, <1>12, <1>13, <1>16, <2>4, <2>5
  <1> QED
    BY <1>2, <1>14, <1>15, <1>16 DEF AllKinds

-----------------------------------------------------------------------------
(* The chain                                                               *)

LEMMA LeafCountType ==
    ASSUME ChainOK, NEW k \in 0 .. Len(chain) PROVE LeafCount(k) \in Nat
  <1>1. \A j \in 1 .. Len(chain) : chain[j] \in Transactions
    BY DEF ChainOK
  <1>2. CASE k = 0
    BY <1>2 DEF LeafCount
  <1>3. CASE k # 0
    <2>1. chain[k].first \in Nat /\ chain[k].kind \in AllKinds
      BY <1>1, <1>3 DEF Transactions
    <2>2. LeavesOf(chain[k].kind) \in Nat
      BY <2>1 DEF LeavesOf, AllKinds
    <2> QED
      BY <1>3, <2>1, <2>2 DEF LeafCount
  <1> QED
    BY <1>2, <1>3

\* What a transaction that lands leaves as it was.
LEMMA ChainExtended ==
    ASSUME ChainOK, NEW tx, chain' = Append(chain, tx), tx \in Transactions
    PROVE  /\ chain' \in Seq(Transactions) /\ Len(chain') = Len(chain) + 1 /\ Len(chain) \in Nat
           /\ \A k \in 1 .. Len(chain) : chain'[k] = chain[k]
           /\ chain'[Len(chain) + 1] = tx
           /\ \A k \in 0 .. Len(chain) : LeafCount(k)' = LeafCount(k)
  <1>1. chain \in Seq(Transactions)
    BY DEF ChainOK
  <1>2. /\ chain' \in Seq(Transactions) /\ Len(chain') = Len(chain) + 1 /\ Len(chain) \in Nat
        /\ \A k \in 1 .. Len(chain) : chain'[k] = chain[k]
        /\ chain'[Len(chain) + 1] = tx
    BY <1>1
  <1>3. \A k \in 0 .. Len(chain) : LeafCount(k)' = LeafCount(k)
    BY <1>2 DEF LeafCount
  <1> QED
    BY <1>2, <1>3

LEMMA ChainLand ==
    ASSUME ChainOK, NEW kind \in AllKinds, NEW gap \in Nat, NEW heard, Land(kind, LastSlot + gap, heard)
    PROVE  /\ [kind |-> kind, first |-> LeafCount(Len(chain)), slot |-> LastSlot + gap] \in Transactions
           /\ ChainOK'
  <1> DEFINE tx == [kind |-> kind, first |-> LeafCount(Len(chain)), slot |-> LastSlot + gap]
             n == Len(chain)
  <1>1. n \in Nat /\ n > 0 /\ \A j \in 1 .. n : chain[j] \in Transactions
    BY DEF ChainOK
  <1>2. LastSlot \in Nat /\ \A j \in 1 .. n : chain[j].slot \in Nat /\ chain[j].slot <= LastSlot
    <2>1. n \in 1 .. n
      BY <1>1
    <2>2. \A j \in 1 .. n : chain[j].slot \in Nat
      BY <1>1 DEF Transactions
    <2>3. \A j \in 1 .. n : chain[j].slot <= chain[n].slot
      BY <1>1, <2>1 DEF ChainOK
    <2> QED
      BY <2>1, <2>2, <2>3 DEF LastSlot
  <1>3. LeafCount(n) \in Nat
    BY <1>1, LeafCountType
  <1>4. tx \in Transactions
    BY <1>2, <1>3 DEF Transactions
  <1>5. chain' = Append(chain, tx)
    BY DEF Land
  <1>6. tx.slot = LastSlot + gap /\ tx.kind = kind /\ tx.first = LeafCount(n)
    OBVIOUS
  <1> HIDE DEF tx
  <1>7. /\ chain' \in Seq(Transactions) /\ Len(chain') = n + 1
        /\ \A k \in 1 .. n : chain'[k] = chain[k]
        /\ chain'[n + 1] = tx
        /\ \A k \in 0 .. n : LeafCount(k)' = LeafCount(k)
    BY <1>4, <1>5, ChainExtended
  <1>8. ASSUME NEW k \in 1 .. n + 1 PROVE chain'[k].first = LeafCount(k - 1)'
    <2>1. CASE k \in 1 .. n
      <3>1. chain[k].first = LeafCount(k - 1)
        BY <2>1 DEF ChainOK
      <3>2. k - 1 \in 0 .. n
        BY <1>1, <2>1
      <3> QED
        BY <1>7, <2>1, <3>1, <3>2
    <2>2. CASE k = n + 1
      <3>1. k - 1 = n /\ n \in 0 .. n
        BY <1>1, <2>2
      <3> QED
        BY <1>6, <1>7, <2>2, <3>1
    <2> QED
      BY <1>1, <2>1, <2>2
  <1>9. ASSUME NEW a \in 0 .. n + 1, NEW b \in 0 .. n + 1, a <= b, FailedBetween(a, b)'
        PROVE  LeafCount(a)' = LeafCount(b)'
    <2>1. CASE b \in 0 .. n
      <3>1. a \in 0 .. n /\ \A sig \in a + 1 .. b : sig \in 1 .. n
        BY <1>1, <1>9, <2>1
      <3>2. FailedBetween(a, b)
        BY <1>7, <1>9, <3>1 DEF FailedBetween
      <3> QED
        BY <1>7, <1>9, <2>1, <3>1, <3>2 DEF ChainOK
    <2>2. CASE b = n + 1 /\ a # b
      <3>1. a \in 0 .. n /\ n \in 0 .. n /\ a <= n /\ n + 1 \in a + 1 .. b
        BY <1>1, <1>9, <2>2
      <3>2. \A sig \in a + 1 .. n : sig \in a + 1 .. b /\ sig \in 1 .. n
        BY <1>1, <2>2, <3>1
      <3>3. FailedBetween(a, n)
        BY <1>7, <1>9, <3>2 DEF FailedBetween
      <3>4. LeafCount(a) = LeafCount(n)
        BY <3>1, <3>3 DEF ChainOK
      <3>5. kind = "failed"
        BY <1>6, <1>7, <1>9, <3>1 DEF FailedBetween
      <3>6. LeafCount(b)' = LeafCount(n) + LeavesOf(kind)
        <4>1. chain'[b] = tx /\ b # 0
          BY <1>1, <1>7, <2>2
        <4>2. LeafCount(b)' = tx.first + LeavesOf(tx.kind)
          BY <4>1 DEF LeafCount
        <4> QED
          BY <1>6, <4>2
      <3>7. LeavesOf(kind) = 0
        BY <3>5 DEF LeavesOf
      <3> QED
        BY <1>3, <1>7, <2>2, <3>1, <3>4, <3>6, <3>7
    <2> QED
      BY <1>1, <2>1, <2>2
  <1>10. ASSUME NEW a \in 1 .. n + 1, NEW b \in 1 .. n + 1, a <= b
         PROVE  chain'[a].slot <= chain'[b].slot
    <2>1. CASE b \in 1 .. n
      <3>1. a \in 1 .. n
        BY <1>1, <1>10, <2>1
      <3> QED
        BY <1>7, <1>10, <2>1, <3>1 DEF ChainOK
    <2>2. CASE b = n + 1
      <3>1. chain'[b].slot = LastSlot + gap
        BY <1>6, <1>7, <2>2
      <3>2. CASE a = n + 1
        BY <1>2, <2>2, <3>1, <3>2
      <3>3. CASE a \in 1 .. n
        BY <1>2, <1>7, <3>1, <3>3
      <3> QED
        BY <1>1, <3>2, <3>3
    <2> QED
      BY <1>1, <2>1, <2>2
  <1> HIDE DEF n
  <1>11. Len(chain)' = n + 1
    BY <1>7
  <1>12. ChainOK'
    BY <1>1, <1>7, <1>8, <1>9, <1>10, <1>11 DEF ChainOK
  <1> QED
    BY <1>4, <1>12 DEF tx

-----------------------------------------------------------------------------
(* Runs and mirror                                                         *)

\* A restart rebuilds the very tree from the notes.
LEMMA HydratedSame ==
    ASSUME NEW m, NEW n \in Nat, Tabled(m, n) PROVE Hydrated(m) = m
  <1>1. DOMAIN m.notes = 0 .. n - 1 /\ m.tree = ChainRoot(n)
        /\ \A i \in 0 .. n - 1 : m.notes[i].leaf = i
    BY DEF Tabled
  <1> DEFINE last == n - 1
             order == Ascending(0 .. last)
             tree == [k \in DOMAIN order |-> m.notes[order[k]].leaf]
  <1>2. order = [k \in 1 .. last - 0 + 1 |-> 0 + k - 1]
    <2>1. last \in Int /\ 0 <= last + 1
      OBVIOUS
    <2> HIDE DEF last
    <2> QED
      BY <2>1, AscendingInterval
  <1>3. order = [k \in 1 .. n |-> k - 1]
    BY <1>2
  <1> HIDE DEF order
  <1>4. tree = [k \in 1 .. n |-> k - 1]
    BY <1>1, <1>3
  <1>5. tree = m.tree
    BY <1>1, <1>4 DEF ChainRoot
  <1> HIDE DEF tree
  <1>6. Hydrated(m) = [m EXCEPT !.tree = tree]
    BY <1>1 DEF Hydrated, tree, order
  <1>7. m = [tree |-> m.tree, notes |-> m.notes, spent |-> m.spent, roots |-> m.roots, keys |-> m.keys]
    BY DEF Tabled
  <1> QED
    BY <1>5, <1>6, <1>7

LEMMA IdleType == Idle \in BackfillRuns /\ Idle.phase = "idle"
  <1>1. << >> \in Seq(Nat)
    OBVIOUS
  <1> QED
    BY <1>1 DEF Idle, BackfillRuns

\* The next run holds what follows the cursor, or is over.
LEMMA FetchingType ==
    ASSUME NEW todo \in Seq(Nat)
    PROVE  /\ Fetching(todo) \in BackfillRuns
           /\ Fetching(todo).phase \in {"idle", "fetching"}
           /\ Fetching(todo).phase = "fetching" => todo # << >> /\ Fetching(todo).todo = todo
  BY IdleType DEF Fetching, BackfillRuns

LEMMA ListingType ==
    ASSUME cursor \in Nat
    PROVE  Listing \in BackfillRuns /\ Listing.phase = "listing" /\ Listing.until = cursor
  <1>1. << >> \in Seq(Nat)
    OBVIOUS
  <1> QED
    BY <1>1 DEF Listing, BackfillRuns

\* The answer of the node to a run that began at the cursor.
LEMMA ListCovers ==
    ASSUME ChainOK, cursor \in 0 .. Len(chain), Len(chain) - cursor <= RpcLimit
    PROVE  SignaturesAfter(cursor) \in Seq(Nat) /\ Covers(SignaturesAfter(cursor), Len(chain))
  <1> DEFINE n == Len(chain)
             S == {sig \in cursor + 1 .. n : chain[sig].kind # "failed"}
  <1>1. n \in Nat /\ cursor \in Nat /\ RpcLimit \in Nat
    BY IndexerAssumption DEF ChainOK
  <1>2. ~ (n - RpcLimit > cursor)
    BY <1>1
  <1>3. SignaturesAfter(cursor) = Ascending(S)
    BY <1>2 DEF SignaturesAfter
  <1>4. S \in SUBSET Nat /\ IsFiniteSet(S)
    <2>1. IsFiniteSet(cursor + 1 .. n)
      BY <1>1, FS_Interval
    <2>2. S \in SUBSET (cursor + 1 .. n)
      OBVIOUS
    <2>3. IsFiniteSet(S)
      BY <2>1, <2>2, FS_Subset
    <2> QED
      BY <1>1, <2>2, <2>3
  <1> HIDE DEF S
  <1>5. /\ Ascending(S) \in Seq(S)
        /\ \A j, k \in 1 .. Len(Ascending(S)) : j < k => Ascending(S)[j] < Ascending(S)[k]
        /\ {Ascending(S)[k] : k \in 1 .. Len(Ascending(S))} = S
    BY <1>4, AscendingParts
  <1>6. Ascending(S) \in Seq(Nat)
    <2> DEFINE at == Ascending(S)
    <2>1. at \in Seq(S) /\ S \subseteq Nat
      BY <1>4, <1>5
    <2> HIDE DEF at
    <2>2. Len(at) \in Nat /\ at \in [1 .. Len(at) -> S]
      BY <2>1
    <2>3. at \in [1 .. Len(at) -> Nat]
      BY <2>1, <2>2
    <2>4. at \in Seq(Nat)
      BY <2>2, <2>3
    <2> QED
      BY <2>4 DEF at
  <1>7. Covers(Ascending(S), n)
    BY <1>5 DEF Covers, S
  <1> QED
    BY <1>3, <1>6, <1>7

\* The first of what follows the cursor: nothing but failed transactions lies between.
LEMMA HeadNext ==
    ASSUME ChainOK, cursor \in 0 .. Len(chain), NEW todo \in Seq(Nat), todo # << >>,
           NEW upto \in cursor .. Len(chain), Covers(todo, upto)
    PROVE  /\ Head(todo) \in 1 .. Len(chain) /\ Head(todo) \in cursor + 1 .. upto
           /\ chain[Head(todo)].kind # "failed"
           /\ FailedBetween(cursor, Head(todo) - 1)
           /\ Tail(todo) \in Seq(Nat)
           /\ \A j, k \in 1 .. Len(Tail(todo)) : j < k => Tail(todo)[j] < Tail(todo)[k]
           /\ {Tail(todo)[k] : k \in 1 .. Len(Tail(todo))}
                = {sig \in Head(todo) + 1 .. upto : chain[sig].kind # "failed"}
  <1> DEFINE h == Head(todo)
             t == Tail(todo)
             S == {sig \in cursor + 1 .. upto : chain[sig].kind # "failed"}
  <1>1. Len(chain) \in Nat /\ cursor \in Nat /\ upto \in Nat /\ upto <= Len(chain)
    BY DEF ChainOK
  <1>2. /\ h = todo[1] /\ t \in Seq(Nat) /\ Len(todo) \in Nat /\ Len(todo) > 0
        /\ Len(t) = Len(todo) - 1 /\ \A k \in 1 .. Len(t) : t[k] = todo[k + 1]
        /\ \A k \in 1 .. Len(todo) : todo[k] \in Nat
    OBVIOUS
  <1> HIDE DEF h, t
  <1>3. /\ \A j, k \in 1 .. Len(todo) : j < k => todo[j] < todo[k]
        /\ {todo[k] : k \in 1 .. Len(todo)} = S
    BY DEF Covers
  <1>4. h \in S
    <2>1. 1 \in 1 .. Len(todo)
      BY <1>2
    <2> QED
      BY <1>2, <1>3, <2>1
  <1>5. h \in cursor + 1 .. upto /\ chain[h].kind # "failed" /\ h \in Nat /\ h \in 1 .. Len(chain)
    BY <1>1, <1>4
  <1>6. \A x \in S : x = h \/ x > h
    <2> SUFFICES ASSUME NEW x \in S PROVE x = h \/ x > h
      OBVIOUS
    <2>1. PICK k \in 1 .. Len(todo) : x = todo[k]
      BY <1>3
    <2>2. CASE k = 1
      BY <1>2, <2>1, <2>2
    <2>3. CASE k # 1
      <3>1. 1 < k /\ 1 \in 1 .. Len(todo)
        BY <1>2, <2>3
      <3>2. todo[1] < todo[k]
        BY <1>3, <3>1
      <3> QED
        BY <1>2, <2>1, <3>2
    <2> QED
      BY <2>2, <2>3
  <1>7. FailedBetween(cursor, h - 1)
    <2> SUFFICES ASSUME NEW x \in cursor + 1 .. h - 1 PROVE chain[x].kind = "failed"
      BY DEF FailedBetween
    <2>1. x \in cursor + 1 .. upto /\ ~ (x = h \/ x > h)
      BY <1>1, <1>5
    <2> QED
      BY <1>6, <2>1
  <1>8. ASSUME NEW j \in 1 .. Len(t), NEW k \in 1 .. Len(t), j < k PROVE t[j] < t[k]
    <2>1. j + 1 \in 1 .. Len(todo) /\ k + 1 \in 1 .. Len(todo) /\ j + 1 < k + 1
      BY <1>2, <1>8
    <2>2. todo[j + 1] < todo[k + 1]
      BY <1>3, <2>1
    <2> QED
      BY <1>2, <2>2
  <1>9. {t[k] : k \in 1 .. Len(t)} = {sig \in h + 1 .. upto : chain[sig].kind # "failed"}
    <2>1. ASSUME NEW k \in 1 .. Len(t) PROVE t[k] \in h + 1 .. upto /\ chain[t[k]].kind # "failed"
      <3>1. k + 1 \in 1 .. Len(todo) /\ 1 \in 1 .. Len(todo) /\ 1 < k + 1
        BY <1>2
      <3>2. t[k] = todo[k + 1] /\ t[k] \in S
        BY <1>2, <1>3, <3>1
      <3>3. todo[1] < todo[k + 1]
        BY <1>3, <3>1
      <3>4. h < t[k]
        BY <1>2, <3>2, <3>3
      <3>5. t[k] \in cursor + 1 .. upto /\ chain[t[k]].kind # "failed"
        BY <3>2
      <3> QED
        BY <1>1, <1>5, <3>4, <3>5
    <2>2. ASSUME NEW x \in h + 1 .. upto, chain[x].kind # "failed"
          PROVE  \E k \in 1 .. Len(t) : x = t[k]
      <3>1. x \in S /\ x # h
        BY <1>1, <1>5, <2>2
      <3>2. PICK k \in 1 .. Len(todo) : x = todo[k]
        BY <1>3, <3>1
      <3>3. k # 1 /\ k - 1 \in 1 .. Len(t) /\ (k - 1) + 1 = k
        BY <1>2, <3>1, <3>2
      <3> QED
        BY <1>2, <3>2, <3>3
    <2> QED
      BY <2>1, <2>2
  <1> QED
    BY <1>2, <1>5, <1>7, <1>8, <1>9 DEF h, t

\* A step of the one run there is.
LEMMA RunChanged ==
    ASSUME ChainOK, OneRun, NEW run \in Runs, \A r \in Runs \ {run} : backfills[r].phase = "idle",
           NEW b \in BackfillRuns, backfills' = [backfills EXCEPT ![run] = b],
           UNCHANGED <<deployment, chain, subscribed, live>>, cursor' \in 0 .. Len(chain),
           b.phase = "listing" => b.until = cursor',
           b.phase = "fetching" =>
              /\ b.todo # << >>
              /\ \A j, k \in 1 .. Len(b.todo) : j < k => b.todo[j] < b.todo[k]
              /\ \E upto \in cursor' .. Len(chain) :
                    {b.todo[k] : k \in 1 .. Len(b.todo)}
                        = {sig \in cursor' + 1 .. upto : chain[sig].kind # "failed"}
    PROVE  OneRun'
  <1>1. backfills \in [Runs -> BackfillRuns]
    BY DEF OneRun
  <1>2. /\ backfills' \in [Runs -> BackfillRuns] /\ backfills'[run] = b
        /\ \A r \in Runs \ {run} : backfills'[r] = backfills[r]
    BY <1>1
  <1>3. PICK r \in Runs : r # run
    BY DEF Runs
  <1>4. backfills'[r].phase = "idle"
    BY <1>2, <1>3
  <1>5. ASSUME NEW q \in Runs
        PROVE  /\ backfills'[q].phase = "listing" => backfills'[q].until = cursor'
               /\ backfills'[q].phase = "fetching" =>
                     /\ backfills'[q].todo # << >>
                     /\ \E upto \in cursor' .. Len(chain') : Covers(backfills[q].todo, upto)'
    <2>1. CASE q = run
      <3>1. backfills'[q] = b
        BY <1>2, <2>1
      <3>2. ASSUME b.phase = "fetching"
            PROVE  \E upto \in cursor' .. Len(chain') : Covers(backfills[q].todo, upto)'
        <4>1. PICK upto \in cursor' .. Len(chain) :
                    {b.todo[k] : k \in 1 .. Len(b.todo)}
                        = {sig \in cursor' + 1 .. upto : chain[sig].kind # "failed"}
          BY <3>2
        <4>2. Covers(backfills[q].todo, upto)'
          BY <3>1, <3>2, <4>1 DEF Covers
        <4> QED
          BY <4>2
      <3> QED
        BY <3>1, <3>2
    <2>2. CASE q # run
      BY <1>2, <2>2
    <2> QED
      BY <2>1, <2>2
  <1>6. live' = {} /\ ~subscribed' /\ cursor' \in 0 .. Len(chain')
    BY DEF OneRun
  <1> QED
    BY <1>2, <1>3, <1>4, <1>5, <1>6 DEF OneRun

\* If one run is under way the other is idle.
LEMMA OthersIdle ==
    ASSUME OneRun, NEW run \in Runs, backfills[run].phase # "idle"
    PROVE  \A r \in Runs \ {run} : backfills[r].phase = "idle"
  BY DEF OneRun, Runs

\* A mirror and a cursor that stay are right as long as the chain only grows.
LEMMA MirrorKept ==
    ASSUME ChainOK, MirrorOK, cursor \in 0 .. Len(chain), UNCHANGED <<mirror, cursor>>,
           \A k \in 1 .. Len(chain) : chain'[k] = chain[k]
    PROVE  MirrorOK'
  <1>1. \A k \in 1 .. cursor : chain'[k] = chain[k]
    BY DEF ChainOK
  <1>2. LeafCount(cursor)' = LeafCount(cursor) /\ CursorSlot' = CursorSlot
    BY <1>1 DEF LeafCount, CursorSlot, ChainOK
  <1>3. \A k : Confirmed(k)' = Confirmed(k) /\ \A x \in Confirmed(k) : chain'[x] = chain[x]
    BY <1>1 DEF Confirmed
  <1>4. Tabled(mirror, LeafCount(cursor))'
    BY <1>2 DEF MirrorOK
  <1>5. RootsInOrder(mirror, LeafCount(cursor), CursorSlot)'
    BY <1>2 DEF MirrorOK
  <1>6. Listed(mirror.spent, "transfer")' /\ Listed(mirror.keys, "rotate")'
    BY <1>3 DEF MirrorOK, Listed
  <1>7. Confirmed("truncated")' = {}
    BY <1>3 DEF MirrorOK
  <1> QED
    BY <1>4, <1>5, <1>6, <1>7 DEF MirrorOK

LEMMA IndexerInit == Init => IndexerInv
  <1> SUFFICES ASSUME Init PROVE IndexerInv
    OBVIOUS
  <1> DEFINE tx == [kind |-> "initialize", first |-> 0, slot |-> 0]
  <1>1. chain = <<tx>> /\ tx \in Transactions
    BY DEF Init, Transactions, AllKinds
  <1>2. tx.first = 0 /\ tx.slot = 0 /\ tx.kind = "initialize"
    OBVIOUS
  <1> HIDE DEF tx
  <1>3. chain \in Seq(Transactions) /\ Len(chain) = 1 /\ chain[1] = tx
    BY <1>1
  <1>4. 0 .. Len(chain) = {0, 1} /\ 1 .. Len(chain) = {1}
    BY <1>3
  <1>5. ChainOK
    <2>1. chain[1].first = LeafCount(1 - 1)
      BY <1>2, <1>3 DEF LeafCount
    <2>2. ~ FailedBetween(0, 1)
      BY <1>2, <1>3 DEF FailedBetween
    <2>3. \A a, b \in {0, 1} : a <= b /\ FailedBetween(a, b) => a = b
      BY <2>2
    <2>4. chain[1].slot <= chain[1].slot
      BY <1>2, <1>3
    <2> QED
      BY <1>3, <1>4, <2>1, <2>3, <2>4 DEF ChainOK
  <1>6. ASSUME Http PROVE OneRun
    <2>1. cursor = 0 /\ cursor \in Nat
      BY DEF Init
    <2>2. backfills = [startup |-> Listing, sync |-> Idle]
      BY DEF Init
    <2>3. backfills["startup"] = Listing /\ backfills["sync"] = Idle
          /\ backfills \in [Runs -> BackfillRuns]
      BY <2>1, <2>2, ListingType, IdleType DEF Runs
    <2>4. \A r \in Runs : r = "startup" \/ r = "sync"
      BY DEF Runs
    <2>5. live = {} /\ ~subscribed
      BY <1>6 DEF Init, Http
    <2>6. "sync" \in Runs
      BY DEF Runs
    <2> QED
      BY <1>3, <2>1, <2>3, <2>4, <2>5, <2>6, ListingType, IdleType DEF OneRun
  <1>7. MirrorOK
    <2>1. cursor = 0 /\ mirror = Empty /\ LeafCount(cursor) = 0 /\ CursorSlot = 0
      BY DEF Init, LeafCount, CursorSlot
    <2>2. \A k : Confirmed(k) = {}
      BY <2>1 DEF Confirmed
    <2>3. mirror.notes = << >> /\ mirror.roots = << >> /\ mirror.spent = << >> /\ mirror.keys = << >>
          /\ mirror.tree = << >>
          /\ mirror = [tree |-> mirror.tree, notes |-> mirror.notes, spent |-> mirror.spent,
                       roots |-> mirror.roots, keys |-> mirror.keys]
      BY <2>1 DEF Empty
    <2>4. 0 .. 0 - 1 = {} /\ 1 .. 0 = {} /\ DOMAIN << >> = {}
      OBVIOUS
    <2>5. mirror.tree = ChainRoot(0)
      BY <2>3, <2>4 DEF ChainRoot
    <2>6. Tabled(mirror, 0)
      BY <2>3, <2>4, <2>5 DEF Tabled
    <2>7. RootsInOrder(mirror, 0, 0)
      BY <2>3, <2>4 DEF RootsInOrder
    <2> QED
      BY <2>1, <2>2, <2>3, <2>4, <2>6, <2>7 DEF MirrorOK, Listed
  <1>8. deployment \in Deployments
    BY DEF Init
  <1> QED
    BY <1>5, <1>6, <1>7, <1>8 DEF IndexerInv

LEMMA IndexerStep == IndexerInv /\ Backlog /\ [Next]_vars => IndexerInv'
  <1> SUFFICES ASSUME IndexerInv, Backlog, [Next]_vars PROVE IndexerInv'
    OBVIOUS
  <1>a. ChainOK
    BY DEF IndexerInv
  <1>b. deployment' = deployment
    BY DEF Next, vars, Land, BeginSync, ListAnswered, BackfillFetched, NotFound, CallFails,
           LiveFetched, LiveNotFound, LiveCallFails, Restart, KilledWriting
  <1>c. chain' = chain => ChainOK'
    BY <1>a DEF ChainOK, LeafCount, FailedBetween
  <1>d. Http' = Http
    BY <1>b DEF Http
  <1>e. ASSUME Http PROVE /\ OneRun /\ MirrorOK /\ deployment \in Deployments /\ live = {} /\ ~subscribed
                          /\ cursor \in 0 .. Len(chain) /\ cursor \in Nat /\ Len(chain) \in Nat
                          /\ ~deployment.live /\ ~deployment.overlap /\ ~deployment.lossy
    <2>1. OneRun /\ MirrorOK
      BY <1>e DEF IndexerInv
    <2>2. Len(chain) \in Nat
      BY <1>a DEF ChainOK
    <2>3. cursor \in 0 .. Len(chain) /\ live = {} /\ ~subscribed
      BY <2>1 DEF OneRun
    <2>4. cursor \in Nat
      BY <2>2, <2>3
    <2>5. deployment \in Deployments
      BY DEF IndexerInv
    <2> QED
      BY <1>e, <2>1, <2>2, <2>3, <2>4, <2>5 DEF Http
  <1>f. ASSUME chain' = chain, UNCHANGED <<mirror, cursor>>, Http PROVE MirrorOK'
    BY <1>a, <1>e, <1>f, MirrorKept
  <1>1. ASSUME NEW kind \in Workload[deployment].kinds, NEW gap \in Workload[deployment].gaps,
               NEW heard \in BOOLEAN, Land(kind, LastSlot + gap, heard), Http
        PROVE  ChainOK' /\ OneRun' /\ MirrorOK'
    <2> DEFINE tx == [kind |-> kind, first |-> LeafCount(Len(chain)), slot |-> LastSlot + gap]
    <2>1. kind \in AllKinds /\ gap \in Nat
      BY <1>1, <1>e, IndexerAssumption
    <2>2. tx \in Transactions /\ ChainOK' /\ chain' = Append(chain, tx)
      BY <1>a, <1>1, <2>1, ChainLand DEF Land
    <2> HIDE DEF tx
    <2>3. Len(chain') = Len(chain) + 1 /\ \A k \in 1 .. Len(chain) : chain'[k] = chain[k]
      BY <1>a, <2>2, ChainExtended
    <2>4. UNCHANGED <<deployment, mirror, cursor, subscribed, backfills>> /\ live' = {}
      BY <1>1, <1>e DEF Land
    <2>5. MirrorOK'
      BY <1>a, <1>1, <1>e, <2>3, <2>4, MirrorKept
    <2>6. ASSUME NEW todo, NEW upto \in cursor .. Len(chain), Covers(todo, upto)
          PROVE  upto \in cursor' .. Len(chain') /\ Covers(todo, upto)'
      <3>1. \A x \in cursor + 1 .. upto : chain'[x] = chain[x]
        BY <1>1, <1>e, <2>3
      <3>2. upto \in cursor' .. Len(chain')
        BY <1>1, <1>e, <2>3, <2>4
      <3> QED
        BY <2>4, <2>6, <3>1, <3>2 DEF Covers
    <2>7. OneRun'
      <3>1. cursor' \in 0 .. Len(chain')
        BY <1>1, <1>e, <2>3, <2>4
      <3>2. \A run \in Runs :
              /\ backfills'[run].phase = "listing" => backfills'[run].until = cursor'
              /\ backfills'[run].phase = "fetching" =>
                    /\ backfills'[run].todo # << >>
                    /\ \E upto \in cursor' .. Len(chain') : Covers(backfills[run].todo, upto)'
        BY <1>1, <1>e, <2>4, <2>6 DEF OneRun
      <3> QED
        BY <1>1, <1>e, <2>4, <3>1, <3>2 DEF OneRun
    <2> QED
      BY <2>2, <2>5, <2>7
  <1>2. ASSUME NEW kind \in Workload[deployment].kinds, NEW gap \in Workload[deployment].gaps,
               NEW heard \in BOOLEAN, Land(kind, LastSlot + gap, heard), deployment \in Deployments
        PROVE  ChainOK'
    BY <1>a, <1>2, ChainLand, IndexerAssumption
  <1>3. ASSUME BeginSync, Http PROVE OneRun' /\ MirrorOK'
    <2>1. backfills' = [backfills EXCEPT !["sync"] = Listing] /\ backfills["startup"].phase = "idle"
          /\ UNCHANGED <<deployment, chain, mirror, cursor, subscribed, live>>
      BY <1>3, <1>e DEF BeginSync
    <2>2. \A r \in Runs \ {"sync"} : backfills[r].phase = "idle"
      BY <2>1 DEF Runs
    <2>3. "sync" \in Runs
      BY DEF Runs
    <2>4. Listing \in BackfillRuns /\ Listing.phase = "listing" /\ Listing.until = cursor
      BY <1>3, <1>e, ListingType
    <2> HIDE DEF Listing
    <2>5. OneRun'
      BY <1>a, <1>3, <1>e, <2>1, <2>2, <2>3, <2>4, RunChanged
    <2> QED
      BY <1>3, <1>f, <2>1, <2>5
  <1>4. ASSUME NEW run \in Runs, ListAnswered(run), Http PROVE OneRun' /\ MirrorOK'
    <2> DEFINE todo == SignaturesAfter(cursor)
    <2>1. backfills[run].phase = "listing" /\ backfills[run].until = cursor
          /\ UNCHANGED <<deployment, chain, mirror, cursor, subscribed, live>>
      BY <1>4, <1>e DEF ListAnswered, OneRun
    <2>2. backfills' = [backfills EXCEPT ![run] = Fetching(todo)]
      BY <1>4, <2>1 DEF ListAnswered
    <2>3. Len(chain) - cursor <= RpcLimit
      BY <2>1 DEF Backlog
    <2>4. todo \in Seq(Nat) /\ Covers(todo, Len(chain))
      BY <1>a, <1>4, <1>e, <2>3, ListCovers
    <2>5. \A r \in Runs \ {run} : backfills[r].phase = "idle"
      BY <1>4, <1>e, <2>1, OthersIdle
    <2> HIDE DEF todo
    <2> DEFINE b == Fetching(todo)
    <2>6. b \in BackfillRuns /\ b.phase # "listing"
          /\ (b.phase = "fetching" => todo # << >> /\ b.todo = todo)
      BY <2>4, FetchingType
    <2>7. /\ \A j, k \in 1 .. Len(todo) : j < k => todo[j] < todo[k]
          /\ {todo[k] : k \in 1 .. Len(todo)} = {sig \in cursor' + 1 .. Len(chain) : chain[sig].kind # "failed"}
      BY <2>1, <2>4 DEF Covers
    <2>8. Len(chain) \in cursor' .. Len(chain) /\ cursor' \in 0 .. Len(chain)
      BY <1>4, <1>e, <2>1
    <2>9. backfills' = [backfills EXCEPT ![run] = b]
      BY <2>2
    <2> HIDE DEF b
    <2>10. b.phase = "fetching" =>
              /\ b.todo # << >>
              /\ \A j, k \in 1 .. Len(b.todo) : j < k => b.todo[j] < b.todo[k]
              /\ \E upto \in cursor' .. Len(chain) :
                    {b.todo[k] : k \in 1 .. Len(b.todo)}
                        = {sig \in cursor' + 1 .. upto : chain[sig].kind # "failed"}
      BY <2>6, <2>7, <2>8
    <2>11. OneRun'
      BY <1>a, <1>4, <1>e, <2>1, <2>5, <2>6, <2>8, <2>9, <2>10, RunChanged
    <2> QED
      BY <1>4, <1>f, <2>1, <2>11
  <1>5. ASSUME NEW run \in Runs, CallFails(run), Http PROVE OneRun' /\ MirrorOK'
    <2>1. backfills' = [backfills EXCEPT ![run] = Idle] /\ backfills[run].phase # "idle"
          /\ UNCHANGED <<deployment, chain, mirror, cursor, subscribed, live>>
      BY <1>5 DEF CallFails
    <2>2. \A r \in Runs \ {run} : backfills[r].phase = "idle"
      BY <1>5, <1>e, <2>1, OthersIdle
    <2>3. OneRun'
      BY <1>a, <1>5, <1>e, <2>1, <2>2, IdleType, RunChanged
    <2> QED
      BY <1>5, <1>f, <2>1, <2>3
  <1>6. ASSUME NEW run \in Runs, BackfillFetched(run), Http PROVE OneRun' /\ MirrorOK'
    <2> DEFINE todo == backfills[run].todo
               sig == Head(todo)
               rest == Tail(todo)
    <2>1. backfills[run].phase = "fetching" /\ UNCHANGED <<deployment, chain, subscribed, live>>
          /\ ProcessSignature(sig) /\ backfills' = [backfills EXCEPT ![run] = AfterFetch(run)]
      BY <1>6 DEF BackfillFetched
    <2>2. todo \in Seq(Nat) /\ todo # << >>
      BY <1>6, <1>e, <2>1 DEF OneRun, BackfillRuns
    <2>3. PICK upto \in cursor .. Len(chain) : Covers(todo, upto)
      BY <1>6, <1>e, <2>1 DEF OneRun
    <2>4. \A r \in Runs \ {run} : backfills[r].phase = "idle"
      BY <1>6, <1>e, <2>1, OthersIdle
    <2>5. AfterFetch(run) = IF chain[sig].kind = "truncated" THEN Idle ELSE Fetching(rest)
      BY DEF AfterFetch
    <2> HIDE DEF todo
    <2>6. /\ sig \in 1 .. Len(chain) /\ sig \in cursor + 1 .. upto
          /\ chain[sig].kind # "failed"
          /\ FailedBetween(cursor, sig - 1)
          /\ rest \in Seq(Nat)
          /\ \A j, k \in 1 .. Len(rest) : j < k => rest[j] < rest[k]
          /\ {rest[k] : k \in 1 .. Len(rest)}
                = {x \in sig + 1 .. upto : chain[x].kind # "failed"}
      BY <1>a, <1>6, <1>e, <2>2, <2>3, HeadNext
    <2> HIDE DEF sig, rest
    <2>7. CASE chain[sig].kind = "truncated"
      <3>1. UNCHANGED <<mirror, cursor>> /\ backfills' = [backfills EXCEPT ![run] = Idle]
        BY <2>1, <2>5, <2>7 DEF ProcessSignature
      <3>2. OneRun'
        BY <1>a, <1>6, <1>e, <2>1, <2>4, <3>1, IdleType, RunChanged
      <3> QED
        BY <1>6, <1>f, <2>1, <3>1, <3>2
    <2>8. CASE chain[sig].kind # "truncated"
      <3>1. mirror' = Applied(mirror, EventsOf(sig), chain[sig].slot, Len(EventsOf(sig))) /\ cursor' = sig
        BY <2>1, <2>8 DEF ProcessSignature
      <3>2. cursor < sig
        BY <1>6, <1>e, <2>3, <2>6
      <3>3. MirrorOK'
        BY <1>a, <1>6, <1>e, <2>1, <2>6, <2>8, <3>1, <3>2, Processed
      <3> DEFINE b == Fetching(rest)
      <3>4. b \in BackfillRuns /\ b.phase # "listing"
            /\ (b.phase = "fetching" => rest # << >> /\ b.todo = rest)
        BY <2>6, FetchingType
      <3>5. backfills' = [backfills EXCEPT ![run] = b]
        BY <2>1, <2>5, <2>8
      <3>6. upto \in cursor' .. Len(chain) /\ cursor' \in 0 .. Len(chain)
        BY <1>6, <1>e, <2>6, <3>1
      <3>7. {rest[k] : k \in 1 .. Len(rest)} = {x \in cursor' + 1 .. upto : chain[x].kind # "failed"}
        BY <2>6, <3>1
      <3> HIDE DEF b
      <3>8. b.phase = "fetching" =>
              /\ b.todo # << >>
              /\ \A j, k \in 1 .. Len(b.todo) : j < k => b.todo[j] < b.todo[k]
              /\ \E last \in cursor' .. Len(chain) :
                    {b.todo[k] : k \in 1 .. Len(b.todo)}
                        = {x \in cursor' + 1 .. last : chain[x].kind # "failed"}
        <4>1. \A j, k \in 1 .. Len(rest) : j < k => rest[j] < rest[k]
          BY <2>6
        <4>2. \E last \in cursor' .. Len(chain) :
                 {rest[k] : k \in 1 .. Len(rest)} = {x \in cursor' + 1 .. last : chain[x].kind # "failed"}
          BY <3>6, <3>7
        <4> QED
          BY <3>4, <4>1, <4>2
      <3>9. OneRun'
        BY <1>a, <1>6, <1>e, <2>1, <2>4, <3>4, <3>5, <3>6, <3>8, RunChanged
      <3> QED
        BY <3>3, <3>9
    <2> QED
      BY <2>7, <2>8
  <1>7. ASSUME Restart, Http PROVE OneRun' /\ MirrorOK'
    <2>1. /\ mirror' = Hydrated(mirror) /\ subscribed' = deployment.live /\ live' = {}
          /\ backfills' = [startup |-> Listing, sync |-> Idle]
          /\ UNCHANGED <<deployment, chain, cursor>>
      BY <1>7 DEF Restart, Boot
    <2>2. LeafCount(cursor) \in Nat
      BY <1>a, <1>7, <1>e, LeafCountType
    <2>3. mirror' = mirror
      BY <1>7, <1>e, <2>1, <2>2, HydratedSame DEF MirrorOK
    <2>4. /\ backfills'["startup"] = Listing /\ backfills'["sync"] = Idle
          /\ backfills' \in [Runs -> BackfillRuns]
      BY <1>7, <1>e, <2>1, ListingType, IdleType DEF Runs
    <2>5. \A r \in Runs : r = "startup" \/ r = "sync"
      BY DEF Runs
    <2>6. "sync" \in Runs
      BY DEF Runs
    <2>7. Listing.phase = "listing" /\ Listing.until = cursor /\ Idle.phase = "idle"
      BY <1>7, <1>e, ListingType, IdleType
    <2>8. OneRun'
      BY <1>7, <1>e, <2>1, <2>4, <2>5, <2>6, <2>7 DEF OneRun
    <2> QED
      BY <1>7, <1>f, <2>1, <2>3, <2>8
  <1>8. ASSUME UNCHANGED vars, Http PROVE OneRun' /\ MirrorOK'
    <2>1. MirrorOK'
      BY <1>8, <1>f DEF vars
    <2>2. OneRun'
      BY <1>8, <1>e DEF vars, OneRun, Covers
    <2> QED
      BY <2>1, <2>2
  <1>9. Http => ~ (\E run \in Runs : NotFound(run))
                /\ ~ (\E sig \in 1 .. Len(chain) : LiveFetched(sig) \/ LiveNotFound(sig) \/ LiveCallFails(sig))
                /\ ~ (\E sig \in 1 .. Len(chain), k \in 1 .. 3, rooted \in BOOLEAN : KilledWriting(sig, k, rooted))
    BY <1>e DEF NotFound, LiveFetched, LiveNotFound, LiveCallFails, KilledWriting
  <1>10. ASSUME Http PROVE OneRun' /\ MirrorOK'
    BY <1>1, <1>3, <1>4, <1>5, <1>6, <1>7, <1>8, <1>9, <1>10 DEF Next
  <1>11. ChainOK'
    <2>1. CASE \E kind \in Workload[deployment].kinds, gap \in Workload[deployment].gaps,
                  heard \in BOOLEAN : Land(kind, LastSlot + gap, heard)
      BY <1>2, <2>1 DEF IndexerInv
    <2>2. CASE chain' = chain
      BY <1>c, <2>2
    <2> QED
      BY <2>1, <2>2 DEF Next, vars, BeginSync, ListAnswered, BackfillFetched, NotFound, CallFails,
           LiveFetched, LiveNotFound, LiveCallFails, Restart, KilledWriting
  <1> QED
    BY <1>b, <1>d, <1>10, <1>11 DEF IndexerInv

\* The invariant holds throughout.
LEMMA IndexerSafe == Spec /\ []Backlog => []IndexerInv
  <1> QED
    BY IndexerInit, IndexerStep, PTL DEF Spec

-----------------------------------------------------------------------------
(* What the API answers                                                    *)

\* The notes from an index on, each with its leaf and root.
LEMMA NotesServed ==
    ASSUME NEW n \in Nat, NEW from \in 0 .. n, Tabled(mirror, n)
    PROVE  /\ GetNotesFrom(from) = [k \in 1 .. n - from |->
                  [leaf_index |-> from + k - 1, row |-> mirror.notes[from + k - 1]]]
           /\ \A k \in 1 .. n - from : /\ mirror.notes[from + k - 1].leaf = from + k - 1
                                       /\ mirror.notes[from + k - 1].root = ChainRoot(from + k)
  <1> DEFINE last == n - 1
             rows == {i \in DOMAIN mirror.notes : i >= from}
             order == Ascending(rows)
  <1>1. DOMAIN mirror.notes = 0 .. last
        /\ \A i \in 0 .. last : mirror.notes[i].leaf = i /\ mirror.notes[i].root = ChainRoot(i + 1)
    BY DEF Tabled
  <1>2. rows = from .. last
    BY <1>1
  <1>3. order = [k \in 1 .. last - from + 1 |-> from + k - 1]
    <2>1. from \in Nat /\ last \in Int /\ from <= last + 1
      OBVIOUS
    <2> HIDE DEF last
    <2> QED
      BY <1>2, <2>1, AscendingInterval
  <1>4. last - from + 1 = n - from
    OBVIOUS
  <1>5. DOMAIN order = 1 .. n - from /\ \A k \in 1 .. n - from : order[k] = from + k - 1
    BY <1>3, <1>4
  <1>6. GetNotesFrom(from) = [k \in DOMAIN order |-> [leaf_index |-> order[k], row |-> mirror.notes[order[k]]]]
    BY DEF GetNotesFrom
  <1>7. ASSUME NEW k \in 1 .. n - from
        PROVE  /\ mirror.notes[from + k - 1].leaf = from + k - 1
               /\ mirror.notes[from + k - 1].root = ChainRoot(from + k)
    <2>1. from + k - 1 \in 0 .. last /\ from + k - 1 + 1 = from + k
      OBVIOUS
    <2> QED
      BY <1>1, <2>1
  <1> HIDE DEF order
  <1> QED
    BY <1>5, <1>6, <1>7

\* Rows of the nullifiers and of the compliance keys are those of the transactions
\* up to the cursor.
LEMMA TablesServed ==
    ASSUME ChainOK, cursor \in 0 .. Len(chain),
           Listed(mirror.spent, "transfer"), Listed(mirror.keys, "rotate")
    PROVE  /\ \A slot \in 0 .. LastSlot :
                GetNullifiersFrom(slot) = {sig \in Confirmed("transfer") : chain[sig].slot >= slot}
           /\ \A sig \in 1 .. Len(chain) : IsNullifierSpent(sig) <=> sig \in Confirmed("transfer")
           /\ ListComplianceKeys =
                LET order == Ascending(Confirmed("rotate"))
                IN  [k \in DOMAIN order |-> [version |-> order[k], fromSlot |-> chain[order[k]].slot]]
  <1>1. \A slot \in 0 .. LastSlot :
            GetNullifiersFrom(slot) = {sig \in Confirmed("transfer") : chain[sig].slot >= slot}
    BY DEF Listed, GetNullifiersFrom
  <1>2. \A sig \in 1 .. Len(chain) : IsNullifierSpent(sig) <=> sig \in Confirmed("transfer")
    BY DEF Listed, IsNullifierSpent
  <1> DEFINE S == Confirmed("rotate")
             order == Ascending(S)
  <1>3. S \in SUBSET Nat /\ S \in SUBSET (1 .. cursor)
    BY DEF Confirmed
  <1>4. IsFiniteSet(S)
    <2>1. IsFiniteSet(1 .. cursor)
      BY FS_Interval
    <2> HIDE DEF S
    <2> QED
      BY <1>3, <2>1, FS_Subset
  <1>5. order \in Seq(S) /\ DOMAIN mirror.keys = S /\ \A sig \in S : mirror.keys[sig] = chain[sig].slot
    <2>1. DOMAIN mirror.keys = S /\ \A sig \in S : mirror.keys[sig] = chain[sig].slot
      BY DEF Listed
    <2> HIDE DEF S
    <2> QED
      BY <1>3, <1>4, <2>1, AscendingParts
  <1>6. ListComplianceKeys = [k \in DOMAIN order |-> [version |-> order[k], fromSlot |-> mirror.keys[order[k]]]]
    BY <1>5 DEF ListComplianceKeys
  <1>7. ListComplianceKeys = [k \in DOMAIN order |-> [version |-> order[k], fromSlot |-> chain[order[k]].slot]]
    <2> HIDE DEF S, order
    <2>1. \A k \in DOMAIN order : mirror.keys[order[k]] = chain[order[k]].slot
      BY <1>5
    <2> QED
      BY <1>6, <2>1
  <1> QED
    BY <1>1, <1>2, <1>7

\* Through failed calls and restarts the mirror is the chain up to the cursor and the
\* answers about notes, nullifiers and compliance keys are those of the chain
\* (applyEvent, hydrateTree and the queries of store.ts), for a deployment without
\* live tail whose backlog never exceeds one answer of getSignaturesForAddress.
THEOREM IndexerMirrorExact == Spec /\ []Backlog => []MirrorExact
  <1>1. IndexerInv => MirrorExact
    <2> SUFFICES ASSUME ChainOK, OneRun, MirrorOK, Http PROVE MirrorExact
      BY DEF IndexerInv, MirrorExact
    <2> DEFINE n == LeafCount(cursor)
    <2>1. cursor \in 0 .. Len(chain)
      BY DEF OneRun
    <2>2. n \in Nat
      BY <2>1, LeafCountType
    <2>3. Tabled(mirror, n) /\ Listed(mirror.spent, "transfer") /\ Listed(mirror.keys, "rotate")
          /\ Confirmed("truncated") = {}
      BY DEF MirrorOK
    <2> HIDE DEF n
    <2>4. mirror.tree = ChainRoot(n)
      BY <2>3 DEF Tabled
    <2>5. Hydrated(mirror) = mirror
      BY <2>2, <2>3, HydratedSame
    <2>6. ASSUME NEW from \in 0 .. n
          PROVE  LET served == GetNotesFrom(from)
                 IN  /\ Len(served) = n - from
                     /\ \A k \in DOMAIN served :
                         /\ served[k].leaf_index = from + k - 1
                         /\ served[k].row.leaf = from + k - 1
                         /\ served[k].row.root = ChainRoot(from + k)
      <3> DEFINE served == GetNotesFrom(from)
      <3>1. served = [k \in 1 .. n - from |->
                  [leaf_index |-> from + k - 1, row |-> mirror.notes[from + k - 1]]]
        BY <2>2, <2>3, NotesServed
      <3>2. \A k \in 1 .. n - from : /\ mirror.notes[from + k - 1].leaf = from + k - 1
                                     /\ mirror.notes[from + k - 1].root = ChainRoot(from + k)
        BY <2>2, <2>3, NotesServed
      <3> HIDE DEF served
      <3>3. DOMAIN served = 1 .. n - from /\ Len(served) = n - from
        BY <2>2, <3>1
      <3>4. \A k \in DOMAIN served : served[k].leaf_index = from + k - 1
                                     /\ served[k].row = mirror.notes[from + k - 1]
        BY <3>1, <3>3
      <3>5. \A k \in DOMAIN served :
                         /\ served[k].leaf_index = from + k - 1
                         /\ served[k].row.leaf = from + k - 1
                         /\ served[k].row.root = ChainRoot(from + k)
        BY <3>2, <3>3, <3>4
      <3> QED
        BY <3>3, <3>5 DEF served
    <2>7. /\ \A slot \in 0 .. LastSlot :
                GetNullifiersFrom(slot) = {sig \in Confirmed("transfer") : chain[sig].slot >= slot}
          /\ \A sig \in 1 .. Len(chain) : IsNullifierSpent(sig) <=> sig \in Confirmed("transfer")
          /\ ListComplianceKeys =
                LET order == Ascending(Confirmed("rotate"))
                IN  [k \in DOMAIN order |-> [version |-> order[k], fromSlot |-> chain[order[k]].slot]]
      BY <2>1, <2>3, TablesServed
    <2> QED
      BY <2>3, <2>4, <2>5, <2>6, <2>7 DEF MirrorExact, n
  <1> QED
    BY <1>1, IndexerSafe, PTL

\* While the ring is not full its last row is the latest, and GET /root answers with it.
LEMMA RootServed ==
    ASSUME NEW n \in 1 .. RootRingSize, NEW slot, RootsInOrder(mirror, n, slot), ~halted
    PROVE  /\ GetRoot.root = ChainRoot(n) /\ GetRoot.next_leaf_index = n
           /\ GetRoot.roots[(GetRoot.root_cursor + RootRingSize - 1) % RootRingSize] = ChainRoot(n)
           /\ \A c \in 0 .. n - 1 : GetRoot.roots[c] = ChainRoot(c + 1)
  <1>a. RootRingSize \in Nat \ {0}
    BY IndexerAssumption
  <1> DEFINE R == RootRingSize
             rows == mirror.roots
             last == n - 1
             roots == [c \in 0 .. R - 1 |-> IF c \in DOMAIN rows THEN rows[c].root ELSE EmptySlot]
  <1>1. /\ DOMAIN rows = 0 .. last
        /\ \A c \in 0 .. last : /\ rows[c].root = ChainRoot(c + 1) /\ rows[c].next = c + 1
                                /\ rows[c].slot \in Nat
        /\ \A c, d \in 0 .. last : c <= d => rows[c].slot <= rows[d].slot
    BY <1>a DEF RootsInOrder
  <1>2. last \in 0 .. R - 1 /\ last + 1 = n
    BY <1>a
  <1> HIDE DEF last, rows
  <1>3. LatestCursor(rows) = last
    <2> DEFINE Latest(c) == \A d \in DOMAIN rows : rows[d].slot < rows[c].slot
                                \/ (rows[d].slot = rows[c].slot /\ d <= c)
    <2>1. last \in DOMAIN rows /\ Latest(last)
      BY <1>1, <1>2
    <2>2. ASSUME NEW c \in DOMAIN rows, Latest(c) PROVE c = last
      BY <1>1, <1>2, <2>2
    <2>3. LatestCursor(rows) = CHOOSE c \in DOMAIN rows : Latest(c)
      BY DEF LatestCursor
    <2> HIDE DEF Latest
    <2> QED
      BY <2>1, <2>2, <2>3
  <1>4. last \in DOMAIN rows
    BY <1>a, <1>1, <1>2
  <1>5. GetRoot = [status |-> 200, root |-> rows[last].root, next_leaf_index |-> rows[last].next,
                   roots |-> roots, root_cursor |-> (last + 1) % R]
    BY <1>3, <1>4 DEF GetRoot, rows
  <1>6. rows[last].root = ChainRoot(n) /\ rows[last].next = n
    BY <1>1, <1>2
  <1>7. ASSUME NEW c \in 0 .. last PROVE roots[c] = ChainRoot(c + 1)
    <2>1. c \in 0 .. R - 1 /\ c \in DOMAIN rows /\ rows[c].root = ChainRoot(c + 1)
      BY <1>a, <1>1, <1>2
    <2> QED
      BY <2>1
  <1>8. ((n % R) + R - 1) % R = last
    <2>1. CASE n = R
      <3>1. n % R = 0
        BY <1>a, <2>1
      <3>2. 0 + R - 1 \in 0 .. R - 1 /\ 0 + R - 1 = last
        BY <1>a, <1>2, <2>1
      <3>3. \A x \in 0 .. R - 1 : x % R = x
        BY <1>a
      <3> QED
        BY <3>1, <3>2, <3>3
    <2>2. CASE n # R
      <3>1. n \in 0 .. R - 1
        BY <1>a, <2>2
      <3>2. \A x \in 0 .. R - 1 : x % R = x /\ (x + R) % R = x
        BY <1>a
      <3>3. (n % R) + R - 1 = last + R
        BY <1>a, <1>2, <3>1, <3>2
      <3> QED
        BY <1>2, <3>2, <3>3
    <2> QED
      BY <2>1, <2>2
  <1> HIDE DEF roots
  <1>9. /\ GetRoot.root = ChainRoot(n) /\ GetRoot.next_leaf_index = n
        /\ GetRoot.roots = roots /\ GetRoot.root_cursor = n % R
    BY <1>2, <1>5, <1>6
  <1>10. roots[last] = ChainRoot(n) /\ \A c \in 0 .. n - 1 : roots[c] = ChainRoot(c + 1)
    BY <1>2, <1>7 DEF last
  <1> QED
    BY <1>8, <1>9, <1>10

\* The path of a leaf, with the leaf put back, is the tree; past the tree there is none.
LEMMA PathServed ==
    ASSUME NEW n \in Nat, mirror.tree = ChainRoot(n), ~halted
    PROVE  /\ \A i \in 0 .. n - 1 :
                /\ GetPath(i).status = 200
                /\ With(GetPath(i).siblings, i + 1, i) = ChainRoot(n)
           /\ GetPath(n).status = 404
  <1>1. mirror.tree = [k \in 1 .. n |-> k - 1] /\ DOMAIN mirror.tree = 1 .. n /\ Len(mirror.tree) = n
    BY DEF ChainRoot
  <1>2. GetPath(n).status = 404
    BY <1>1 DEF GetPath
  <1>3. ASSUME NEW i \in 0 .. n - 1
        PROVE  GetPath(i).status = 200 /\ With(GetPath(i).siblings, i + 1, i) = ChainRoot(n)
    <2> DEFINE siblings == [k \in DOMAIN mirror.tree \ {i + 1} |-> mirror.tree[k]]
    <2>1. ~ (i >= Len(mirror.tree))
      BY <1>1
    <2>2. GetPath(i) = [status |-> 200, siblings |-> siblings]
      BY <2>1 DEF GetPath
    <2>3. DOMAIN siblings \union {i + 1} = 1 .. n
      BY <1>1
    <2>4. \A k \in 1 .. n : (IF k = i + 1 THEN i ELSE siblings[k]) = k - 1
      BY <1>1
    <2> HIDE DEF siblings
    <2>5. With(siblings, i + 1, i) = [k \in 1 .. n |-> IF k = i + 1 THEN i ELSE siblings[k]]
      BY <2>3 DEF With
    <2>6. With(siblings, i + 1, i) = ChainRoot(n)
      BY <2>4, <2>5 DEF ChainRoot
    <2> QED
      BY <2>2, <2>6
  <1> QED
    BY <1>2, <1>3

\* Until the ring of roots is full, GET /path, GET /notes and GET /root agree: every
\* path folds to the root served, which stands just before root_cursor, for every
\* ring size and with transactions of the same slot (getLatestRoot's two sort keys).
THEOREM IndexerRootMatchesPaths == Spec /\ []Backlog => []RootMatchesPaths
  <1>1. IndexerInv => RootMatchesPaths
    <2> SUFFICES ASSUME ChainOK, OneRun, MirrorOK, Http, ~halted, Len(mirror.tree) \in 1 .. RootRingSize
                 PROVE  RootMatchesPaths
      BY DEF IndexerInv, RootMatchesPaths
    <2> DEFINE n == LeafCount(cursor)
    <2>1. n \in Nat
      BY LeafCountType DEF OneRun
    <2>2. Tabled(mirror, n) /\ RootsInOrder(mirror, n, CursorSlot)
      BY DEF MirrorOK
    <2> HIDE DEF n
    <2>3. mirror.tree = ChainRoot(n) /\ Len(mirror.tree) = n /\ n \in 1 .. RootRingSize
      BY <2>1, <2>2 DEF Tabled, ChainRoot
    <2>4. /\ GetRoot.root = ChainRoot(n) /\ GetRoot.next_leaf_index = n
          /\ GetRoot.roots[(GetRoot.root_cursor + RootRingSize - 1) % RootRingSize] = ChainRoot(n)
          /\ \A c \in 0 .. n - 1 : GetRoot.roots[c] = ChainRoot(c + 1)
      BY <2>2, <2>3, RootServed
    <2>5. /\ \A i \in 0 .. n - 1 : /\ GetPath(i).status = 200
                                   /\ With(GetPath(i).siblings, i + 1, i) = ChainRoot(n)
          /\ GetPath(n).status = 404
      BY <2>1, <2>3, PathServed
    <2> DEFINE served == GetNotesFrom(0)
    <2>6. ASSUME NEW k \in DOMAIN served
          PROVE  served[k].leaf_index \in 0 .. n - 1 /\ served[k].row.leaf = served[k].leaf_index
      <3>1. served = [j \in 1 .. n - 0 |-> [leaf_index |-> 0 + j - 1, row |-> mirror.notes[0 + j - 1]]]
            /\ \A j \in 1 .. n - 0 : mirror.notes[0 + j - 1].leaf = 0 + j - 1
        <4>1. 0 \in 0 .. n
          BY <2>1
        <4> HIDE DEF served
        <4>2. GetNotesFrom(0) = [j \in 1 .. n - 0 |->
                                    [leaf_index |-> 0 + j - 1, row |-> mirror.notes[0 + j - 1]]]
          BY <2>1, <2>2, <4>1, NotesServed
        <4>3. \A j \in 1 .. n - 0 : mirror.notes[0 + j - 1].leaf = 0 + j - 1
          BY <2>1, <2>2, <4>1, NotesServed
        <4> QED
          BY <4>2, <4>3 DEF served
      <3> HIDE DEF served
      <3>2. k \in 1 .. n /\ served[k].leaf_index = k - 1 /\ served[k].row = mirror.notes[0 + k - 1]
            /\ mirror.notes[0 + k - 1].leaf = k - 1
        BY <2>1, <2>6, <3>1
      <3> QED
        BY <2>1, <3>2
    <2> HIDE DEF served
    <2>7. ASSUME NEW k \in DOMAIN served
          PROVE  /\ served[k].leaf_index < GetRoot.next_leaf_index
                 /\ GetPath(served[k].leaf_index).status = 200
                 /\ With(GetPath(served[k].leaf_index).siblings, served[k].leaf_index + 1, served[k].row.leaf)
                        = GetRoot.root
      <3>1. served[k].leaf_index \in 0 .. n - 1 /\ served[k].row.leaf = served[k].leaf_index
        BY <2>6
      <3>2. served[k].leaf_index < n
        BY <2>1, <3>1
      <3> QED
        BY <2>4, <2>5, <3>1, <3>2
    <2>8. GetPath(GetRoot.next_leaf_index).status = 404
      BY <2>4, <2>5
    <2>9. GetRoot.roots[(GetRoot.root_cursor + RootRingSize - 1) % RootRingSize] = GetRoot.root
          /\ \A c \in 0 .. GetRoot.next_leaf_index - 1 : GetRoot.roots[c] = ChainRoot(c + 1)
      BY <2>4
    <2> QED
      BY <2>7, <2>8, <2>9 DEF RootMatchesPaths, served
  <1> QED
    BY <1>1, IndexerSafe, PTL

=============================================================================
