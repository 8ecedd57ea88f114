----------------------------- MODULE WalletProofs -----------------------------
(***************************************************************************)
(* The wallet for any number of indices, notes, transactions, rotations,   *)
(* crashes and restores: an index is never used twice, and a finished scan *)
(* has found every note the wallet can know of.                            *)
(***************************************************************************)
EXTENDS Wallet, FiniteSetTheorems, TLAPS

-----------------------------------------------------------------------------
(* Operators                                                               *)

\* A nonempty set of numbers has a least element, which Min picks.
LEMMA LeastIndex ==
    ASSUME NEW S \in SUBSET Nat, S # {} PROVE Min(S) \in S /\ \A y \in S : Min(S) <= y
  <1> DEFINE below == {0 .. x : x \in S}
  <1>1. ASSUME NEW x \in S PROVE 0 .. x \in FiniteSubsetsOf(Nat)
    <2>1. IsFiniteSet(0 .. x) /\ 0 .. x \subseteq Nat
      BY FS_Interval
    <2> QED
      BY <2>1 DEF FiniteSubsetsOf
  <1>2. PICK b \in below : \A c \in below : <<c, b>> \notin StrictSubsetOrdering(Nat)
    <2>1. below \subseteq FiniteSubsetsOf(Nat) /\ below # {}
      BY <1>1
    <2>2. IsWellFoundedOn(StrictSubsetOrdering(Nat), FiniteSubsetsOf(Nat))
      BY FS_StrictSubsetOrderingWellFounded
    <2> HIDE DEF below
    <2> QED
      BY <2>1, <2>2, WFMin
  <1>3. PICK x \in S : b = 0 .. x
    OBVIOUS
  <1>4. ASSUME NEW y \in S, y < x PROVE FALSE
    <2>1. 0 .. y \subseteq 0 .. x /\ x \in 0 .. x /\ x \notin 0 .. y
      BY <1>4
    <2>2. 0 .. y \in SUBSET Nat /\ 0 .. x \in SUBSET Nat /\ 0 .. y # 0 .. x
      BY <2>1
    <2>3. <<0 .. y, 0 .. x>> \in StrictSubsetOrdering(Nat)
      BY <2>1, <2>2 DEF StrictSubsetOrdering
    <2> QED
      BY <1>2, <1>3, <2>3
  <1>5. \A y \in S : x =< y
    BY <1>4
  <1> QED
    BY <1>5 DEF Min

\* A nonempty set of numbers with an upper bound has a largest element, which Max picks.
LEMMA LargestIndex ==
    ASSUME NEW S \in SUBSET Int, S # {}, NEW b \in Int, \A x \in S : x <= b
    PROVE  Max(S) \in S /\ \A y \in S : y <= Max(S)
  <1> DEFINE T == {b - x : x \in S}
  <1>1. T \in SUBSET Nat /\ T # {}
    <2>1. ASSUME NEW x \in S PROVE b - x \in Nat
      <3>1. x \in Int /\ x <= b
        OBVIOUS
      <3> QED
        BY <3>1
    <2>2. T \in SUBSET Nat
      BY <2>1
    <2>3. PICK x : x \in S
      OBVIOUS
    <2>4. b - x \in T
      BY <2>3
    <2> QED
      BY <2>2, <2>4
  <1>2. Min(T) \in T /\ \A y \in T : Min(T) <= y
    BY <1>1, LeastIndex
  <1>3. PICK m \in S : Min(T) = b - m
    BY <1>2
  <1>4. \A x \in S : b - m <= b - x
    BY <1>2, <1>3
  <1>5. \A x \in S : x <= m
    BY <1>4
  <1>6. Max(S) \in S /\ \A y \in S : Max(S) >= y
    BY <1>5 DEF Max
  <1> QED
    BY <1>6

\* A set whose elements are all equal has at most one.
LEMMA AtMostOne ==
    ASSUME NEW S, \A x, y \in S : x = y PROVE Cardinality(S) <= 1
  <1>1. CASE S = {}
    BY <1>1, FS_EmptySet
  <1>2. CASE S # {}
    <2>1. PICK x : S = {x}
      BY <1>2
    <2> QED
      BY <2>1, FS_Singleton
  <1> QED
    BY <1>1, <1>2

\* A filter keeps elements of the sequence, each position at most once.
LEMMA FilteredParts ==
    ASSUME NEW S, NEW s \in Seq(S), NEW K \in SUBSET (1 .. Len(s))
    PROVE  /\ Filtered(s, K) \in Seq(S)
           /\ Len(Filtered(s, K)) \in Nat
           /\ \E at \in [1 .. Len(Filtered(s, K)) -> K] :
                 /\ \A j \in 1 .. Len(Filtered(s, K)) : Filtered(s, K)[j] = s[at[j]]
                 /\ \A i, j \in 1 .. Len(Filtered(s, K)) : at[i] = at[j] => i = j
  <1> DEFINE upTo(k) == {l \in K : l <= k}
             c == Cardinality(K)
             rank == [k \in K |-> Cardinality(upTo(k))]
  <1>1. IsFiniteSet(K) /\ c \in Nat /\ K \subseteq Nat
    <2>1. IsFiniteSet(1 .. Len(s)) /\ Len(s) \in Nat
      BY FS_Interval
    <2>2. IsFiniteSet(K)
      BY <2>1, FS_Subset
    <2>3. c \in Nat
      BY <2>2, FS_CardinalityType
    <2>4. K \subseteq Nat
      BY <2>1
    <2> QED
      BY <2>2, <2>3, <2>4
  <1>2. ASSUME NEW k \in K PROVE /\ IsFiniteSet(upTo(k)) /\ k \in upTo(k)
                                 /\ Cardinality(upTo(k)) \in 1 .. c
    <2>1. upTo(k) \in SUBSET K /\ k \in upTo(k)
      BY <1>1
    <2>2. IsFiniteSet(upTo(k)) /\ Cardinality(upTo(k)) <= c /\ Cardinality(upTo(k)) \in Nat
      BY <1>1, <2>1, FS_Subset, FS_CardinalityType
    <2>3. Cardinality(upTo(k)) # 0
      BY <2>1, <2>2, FS_EmptySet
    <2> QED
      BY <1>1, <2>1, <2>2, <2>3
  <1>3. ASSUME NEW k \in K, NEW l \in K, k < l PROVE Cardinality(upTo(k)) # Cardinality(upTo(l))
    <2>1. upTo(k) \in SUBSET upTo(l) /\ l \in upTo(l) /\ l \notin upTo(k)
      <3>1. k \in Nat /\ l \in Nat /\ k < l /\ \A m \in K : m \in Nat
        BY <1>1, <1>3
      <3>2. \A m \in K : m <= k => m <= l
        BY <3>1
      <3>3. l <= l /\ ~ (l <= k)
        BY <3>1
      <3>4. upTo(k) \in SUBSET upTo(l)
        BY <3>2
      <3> QED
        BY <3>3, <3>4
    <2>2. IsFiniteSet(upTo(l)) /\ upTo(l) # upTo(k)
      BY <1>2, <2>1
    <2> HIDE DEF upTo
    <2> QED
      BY <2>1, <2>2, FS_Subset
  <1> HIDE DEF upTo
  <1>4. rank \in [K -> 1 .. c] /\ \A k, l \in K : rank[k] = rank[l] => k = l
    BY <1>1, <1>2, <1>3
  <1>5. \A j \in 1 .. c : \E k \in K : rank[k] = j
    <2>1. rank \in Injection(K, 1 .. c)
      BY <1>4 DEF Injection, IsInjective
    <2>2. IsFiniteSet(1 .. c) /\ Cardinality(1 .. c) = c
      BY <1>1, FS_Interval
    <2> HIDE DEF rank, c
    <2>3. Cardinality(K) = c
      BY DEF c
    <2>4. rank \in Surjection(K, 1 .. c)
      BY <2>1, <2>2, <2>3, FS_Injection
    <2> QED
      BY <2>4 DEF Surjection
  <1> DEFINE at == [j \in 1 .. c |-> CHOOSE k \in K : Cardinality(upTo(k)) = j]
  <1>6. \A j \in 1 .. c : at[j] \in K /\ Cardinality(upTo(at[j])) = j
    BY <1>5
  <1>7. Filtered(s, K) = [j \in 1 .. c |-> s[at[j]]]
    BY DEF Filtered, upTo
  <1>8. \A k \in K : s[k] \in S
    OBVIOUS
  <1>9. Filtered(s, K) \in [1 .. c -> S]
    BY <1>6, <1>7, <1>8
  <1>10. Filtered(s, K) \in Seq(S) /\ Len(Filtered(s, K)) = c
    BY <1>1, <1>9
  <1>11. at \in [1 .. c -> K] /\ \A i, j \in 1 .. c : at[i] = at[j] => i = j
    BY <1>6
  <1>12. \A j \in 1 .. c : Filtered(s, K)[j] = s[at[j]]
    BY <1>7
  <1> HIDE DEF at, c
  <1> QED
    BY <1>1, <1>10, <1>11, <1>12

\* A set written as a sequence has each of its elements at one position.
LEMMA SetToSeqParts ==
    ASSUME NEW S, IsFiniteSet(S)
    PROVE  /\ SetToSeq(S) \in Seq(S) /\ Len(SetToSeq(S)) = Cardinality(S)
           /\ \A j, k \in 1 .. Len(SetToSeq(S)) : SetToSeq(S)[j] = SetToSeq(S)[k] => j = k
  <1> DEFINE n == Cardinality(S)
  <1>1. n \in Nat /\ ExistsBijection(1 .. n, S)
    BY FS_CardinalityType
  <1>2. \E f \in [1 .. n -> S] : IsInjective(f)
    BY <1>1 DEF ExistsBijection, Bijection, Injection
  <1>3. SetToSeq(S) \in [1 .. n -> S] /\ IsInjective(SetToSeq(S))
    BY <1>2 DEF SetToSeq
  <1> HIDE DEF n
  <1>4. SetToSeq(S) \in Seq(S) /\ Len(SetToSeq(S)) = n /\ DOMAIN SetToSeq(S) = 1 .. n
    BY <1>1, <1>3
  <1> QED
    BY <1>3, <1>4 DEF IsInjective, n

-----------------------------------------------------------------------------
(* The inductive invariant                                                 *)

Notes == [family : Families, index : Indices, version : Nat]
Transactions == [indices : SUBSET Indices, version : Nat]
Authorisations == [index : Indices, version : Nat]
Takes == [pc : {"idle", "reserve", "mark", "probe"}, want : Nat, need : Int, index : Nat,
          pk : Nat, allocated : Seq(Indices), tested : Nat]
Counts(r) == "mint" \in DOMAIN r /\ r.mint \in Nat

WalletTypeOK ==
    /\ store \in Nat /\ version \in Nat /\ history \in Nat
    /\ Counts(saved) /\ Counts(repo)
    /\ chain \in Seq(Notes) /\ flight \subseteq Transactions
    /\ take \in Takes /\ (take.pc = "mark" => take.index \in Indices)
    /\ ready \in Seq(Indices) /\ auths \subseteq Authorisations
    /\ issued \subseteq Indices
    /\ lost \in BOOLEAN /\ client \in {"off", "sdk", "page", "group"}

\* Who may be minting.  A session that is over left nothing in memory, a wallet
\* without preflight still has its counter, and only such a wallet mints directly;
\* the wallet has one holder.
Sessions ==
    /\ client = "off" => take = NoTake /\ ready = <<>> /\ auths = {}
    /\ client \in {"page", "group"} => ~lost
    /\ take.pc # "idle" /\ take.want = 0 => client \in {"page", "group"}
    /\ ~lost => risk = {}
    /\ world \in Worlds /\ client \in world \cup {"off"}

\* The SDK knows every compliance key its notes were minted with: preflight, which
\* tries the keys it knows, sees every one of them.
OwnVersions(h) ==
    /\ \A t \in flight : t.version <= h
    /\ \A p \in DOMAIN chain : chain[p].family = "self" => chain[p].version <= h
KeysKnown ==
    /\ history <= version /\ take.pk <= version
    /\ OwnVersions(version)
    /\ client = "sdk" => OwnVersions(history)

\* Where index i is: on the chain, sent, authorised, ready, or allocated.
Chained(i) == {q \in DOMAIN chain : chain[q].family = "self" /\ chain[q].index = i}
Carrying(i) == {u \in flight : i \in u.indices}
Authorising(i) == {b \in auths : b.index = i}
Readied(i) == {k \in DOMAIN ready : ready[k] = i}
Listed(i) == {k \in DOMAIN Allocated : Allocated[k] = i}

Alone(S) == \A x, y \in S : x = y

\* Each place holds the index once, and no two places hold it, except that after a
\* loss an index that preflight has yet to test may be on the chain.
Fresh(i) ==
    /\ Alone(Chained(i)) /\ Alone(Carrying(i)) /\ Alone(Authorising(i))
    /\ Alone(Readied(i)) /\ Alone(Listed(i))
    /\ Carrying(i) # {} =>
          Chained(i) = {} /\ Authorising(i) = {} /\ Readied(i) = {} /\ Listed(i) = {}
    /\ Authorising(i) # {} => Chained(i) = {} /\ Readied(i) = {} /\ Listed(i) = {}
    /\ Readied(i) # {} => Chained(i) = {} /\ Listed(i) = {}
    /\ Listed(i) # {} /\ ~lost => Chained(i) = {}

\* The counter is past every index that is somewhere.
Passed(i) ==
    \/ Carrying(i) # {} \/ Authorising(i) # {} \/ Readied(i) # {} \/ Listed(i) # {}
    \/ ~lost /\ Chained(i) # {}
    => i < store

IndicesApart == "group" \notin world => \A i \in Indices \ risk : Fresh(i) /\ Passed(i)

WalletInv == WalletTypeOK /\ Sessions /\ KeysKnown /\ IndicesApart

-----------------------------------------------------------------------------
(* Types                                                                   *)

LEMMA WalletInitType == Init => WalletTypeOK
  <1> SUFFICES ASSUME Init PROVE WalletTypeOK
    OBVIOUS
  <1> USE DEF Init
  <1>1. Counts(saved) /\ Counts(repo)
    BY DEF Counts, KeyRepoState, EmptyRepo
  <1>2. take \in Takes /\ take.pc # "mark"
    BY DEF NoTake, Takes
  <1>3. chain \in Seq(Notes) /\ ready \in Seq(Indices)
    OBVIOUS
  <1> QED
    BY <1>1, <1>2, <1>3 DEF WalletTypeOK

\* The operations on a repository leave its mint counter a number.
LEMMA RegisterCounts ==
    ASSUME NEW r, Counts(r), NEW f, NEW k PROVE Counts(RegisterTo(r, f, k))
  BY DEF Counts, RegisterTo

LEMMA RestoredCounts ==
    ASSUME WalletTypeOK PROVE Counts(Restored(saved)) /\ RestoredMint(saved) \in Nat
  <1> DEFINE mint == RestoredMint(saved)
             r0 == [EmptyRepo EXCEPT !.mint = mint, !.issue = saved.issue, !.matched = saved.matched]
             r1 == RegisterTo(r0, "self", Larger(saved.next["self"], mint + Window))
             r2 == RegisterTo(r1, "incoming", Larger(saved.next["incoming"], saved.issue))
             r3 == RegisterTo(r2, "self", LookaheadTarget(r2, "self", Window))
  <1>1. mint \in Nat
    BY DEF RestoredMint, Larger, WalletTypeOK, Counts
  <1> HIDE DEF mint
  <1>2. Counts(r0)
    BY <1>1 DEF Counts, EmptyRepo
  <1> HIDE DEF r0
  <1>3. Counts(r1)
    BY <1>2, RegisterCounts
  <1> HIDE DEF r1
  <1>4. Counts(r2)
    BY <1>3, RegisterCounts
  <1> HIDE DEF r2
  <1>5. Counts(r3)
    BY <1>4, RegisterCounts
  <1> HIDE DEF r3
  <1>6. Counts(RegisterTo(r3, "incoming", LookaheadTarget(r3, "incoming", Window)))
    BY <1>5, RegisterCounts
  <1> QED
    BY <1>1, <1>6 DEF Restored, r3, r2, r1, r0, mint

LEMMA NewScannerCounts == Counts(NewScanner) /\ Counts(EmptyRepo)
  <1>1. Counts(EmptyRepo)
    BY DEF Counts, EmptyRepo
  <1>2. Counts(RegisterTo(EmptyRepo, "self", Window))
    BY <1>1, RegisterCounts
  <1> QED
    BY <1>1, <1>2, RegisterCounts DEF NewScanner

LEMMA TagsCount ==
    ASSUME NEW r, Counts(r), NEW i \in Nat
    PROVE  Counts(TagMinted(r, i)) /\ Counts(TagIssued(r, i))
  <1>1. Larger(r.mint, i + 1) \in Nat
    BY DEF Counts, Larger
  <1>2. Counts(TagMinted(r, i))
    BY <1>1 DEF Counts, TagMinted
  <1>3. Counts(TagIssued(r, i))
    BY DEF Counts, TagIssued
  <1> QED
    BY <1>2, <1>3

LEMMA IssuedType ==
    ASSUME NEW q \in Seq(Indices), NEW n \in 0 .. Len(q), history \in Nat
    PROVE  Issued(q, n) \subseteq Authorisations /\ SubSeq(q, n + 1, Len(q)) \in Seq(Indices)
  <1>1. \A j \in 1 .. n : q[j] \in Indices
    OBVIOUS
  <1>2. SubSeq(q, n + 1, Len(q)) \in Seq(Indices)
    OBVIOUS
  <1> QED
    BY <1>1, <1>2 DEF Issued, Authorisations

\* The queue of Probe: what was ready, and the candidates no note was found for.
Free == {k \in DOMAIN take.allocated : ~OpensExisting(take.allocated[k])}
Queue == ready \o Filtered(take.allocated, Free)

LEMMA QueueType ==
    ASSUME WalletTypeOK
    PROVE  /\ Free \in SUBSET (1 .. Len(take.allocated))
           /\ take.allocated \in Seq(Indices)
           /\ Filtered(take.allocated, Free) \in Seq(Indices)
           /\ Queue \in Seq(Indices)
           /\ Len(Queue) = Len(ready) + Len(Filtered(take.allocated, Free))
  <1>1. take.allocated \in Seq(Indices) /\ ready \in Seq(Indices)
    BY DEF WalletTypeOK, Takes
  <1>2. Free \in SUBSET (1 .. Len(take.allocated))
    BY <1>1 DEF Free
  <1>3. Filtered(take.allocated, Free) \in Seq(Indices)
    BY <1>1, <1>2, FilteredParts
  <1> HIDE DEF Free
  <1> QED
    BY <1>1, <1>2, <1>3 DEF Queue

LEMMA NoTakeType == NoTake \in Takes /\ NoTake.pc = "idle"
  BY DEF NoTake, Takes

\* Landed notes are notes.
LEMMA LandedType ==
    ASSUME WalletTypeOK, NEW t \in flight
    PROVE  LET S == {Note("self", i, version) : i \in t.indices}
           IN  /\ IsFiniteSet(S) /\ S \subseteq Notes
               /\ SetToSeq(S) \in Seq(Notes)
  <1> DEFINE S == {Note("self", i, version) : i \in t.indices}
             landed == [i \in t.indices |-> Note("self", i, version)]
  <1>1. t.indices \subseteq Indices /\ version \in Nat
    BY DEF WalletTypeOK, Transactions
  <1>2. S \subseteq Notes
    BY <1>1 DEF Notes, Note, Families
  <1>3. IsFiniteSet(t.indices)
    <2>1. IsFiniteSet(Indices)
      BY WalletAssumption, FS_Interval DEF Indices
    <2> QED
      BY <1>1, <2>1, FS_Subset
  <1>4. landed \in Surjection(t.indices, S)
    BY DEF Surjection
  <1>5. IsFiniteSet(S)
    BY <1>3, <1>4, FS_Surjection
  <1> HIDE DEF S
  <1>6. SetToSeq(S) \in Seq(S)
    BY <1>5, SetToSeqParts
  <1>7. SetToSeq(S) \in Seq(Notes)
    BY <1>2, <1>6
  <1> QED
    BY <1>2, <1>5, <1>7 DEF S

LEMMA MaxOccupied ==
    ASSUME WalletTypeOK, Occupied # {} PROVE Max(Occupied) \in Occupied /\ Max(Occupied) \in Nat
  <1>1. \A p \in DOMAIN chain : chain[p] \in Notes
    BY DEF WalletTypeOK
  <1>2. \A x \in Occupied : x \in Indices
    BY <1>1 DEF Occupied, Notes
  <1>3. \A x \in Indices : x \in Nat /\ x <= MaxIndex
    BY WalletAssumption DEF Indices
  <1>4. Occupied \in SUBSET Int /\ MaxIndex \in Int /\ \A x \in Occupied : x <= MaxIndex
    BY <1>2, <1>3, WalletAssumption
  <1> QED
    BY <1>2, <1>3, <1>4, LargestIndex

LEMMA WalletTypeStep == WalletTypeOK /\ [Next]_vars => WalletTypeOK'
  <1> SUFFICES ASSUME WalletTypeOK, [Next]_vars PROVE WalletTypeOK'
    OBVIOUS
  <1> USE DEF chainVars, mintVars, ghosts
  <1>1. CASE StartPage
    BY <1>1, NewScannerCounts DEF StartPage, WalletTypeOK
  <1>2. CASE StartSdk
    <2>1. RatchetTo(RestoredMint(saved)) \in Nat
      BY RestoredCounts DEF RatchetTo, Larger, WalletTypeOK
    <2> QED
      BY <1>2, <2>1, RestoredCounts DEF StartSdk, WalletTypeOK
  <1>3. CASE Save
    <2>1. Counts(KeyRepoState(repo))
      BY DEF WalletTypeOK, KeyRepoState, Counts
    <2> QED
      BY <1>3, <2>1 DEF Save, WalletTypeOK
  <1>4. CASE Crash
    <2>1. ready' \in Seq(Indices) /\ auths' \subseteq Authorisations
      BY <1>4 DEF Crash
    <2> QED
      BY <1>4, <2>1, NoTakeType, NewScannerCounts DEF Crash, WalletTypeOK
  <1>5. CASE LoseStore
    BY <1>5 DEF LoseStore, WalletTypeOK
  <1>6. CASE Refresh
    <2>1. ready' \in Seq(Indices)
      BY <1>6 DEF Refresh
    <2> QED
      BY <1>6, <2>1 DEF Refresh, WalletTypeOK
  <1>7. CASE Reserve
    <2>1. store \in Indices /\ store + 1 \in Nat
      BY <1>7, WalletAssumption DEF Reserve, WalletTypeOK, Indices
    <2>2. [take EXCEPT !.pc = "mark", !.index = store] \in Takes
      BY DEF WalletTypeOK, Takes
    <2>3. [take EXCEPT !.pc = "mark", !.index = store].index = store
      BY DEF WalletTypeOK, Takes
    <2>4. take' \in Takes /\ (take'.pc = "mark" => take'.index \in Indices)
      BY <1>7, <2>1, <2>2, <2>3 DEF Reserve, WalletTypeOK
    <2> QED
      BY <1>7, <2>1, <2>4 DEF Reserve, WalletTypeOK
  <1>8. CASE ReserveFails \/ ProbeFails
    BY <1>8, NoTakeType DEF ReserveFails, ProbeFails, WalletTypeOK
  <1>9. CASE MarkDerived
    <2> DEFINE allocated == Append(take.allocated, take.index)
    <2>1. take.index \in Indices /\ take.index \in Nat /\ take.allocated \in Seq(Indices)
      BY <1>9 DEF MarkDerived, WalletTypeOK, Takes
    <2>2. allocated \in Seq(Indices)
      BY <2>1
    <2> HIDE DEF allocated
    <2> DEFINE c == take.tested + 1
               p == IF Len(allocated) = take.need THEN "probe" ELSE "reserve"
    <2>3. c \in Nat /\ p \in {"probe", "reserve"}
      BY DEF WalletTypeOK, Takes
    <2>4. take' = [take EXCEPT !.pc = p, !.allocated = allocated, !.tested = c]
      BY <1>9 DEF MarkDerived, allocated
    <2> HIDE DEF c, p
    <2>5. take' \in Takes /\ take'.pc # "mark"
      BY <2>2, <2>3, <2>4 DEF WalletTypeOK, Takes
    <2>6. Counts(repo')
      BY <1>9, <2>1, TagsCount DEF MarkDerived, WalletTypeOK
    <2> QED
      BY <1>9, <2>5, <2>6 DEF MarkDerived, WalletTypeOK
  <1>10. CASE MarkDirect
    <2>1. take.index \in Indices /\ take.index \in Nat /\ take.pk \in Nat
      BY <1>10 DEF MarkDirect, WalletTypeOK, Takes
    <2>2. flight' \subseteq Transactions
      BY <1>10, <2>1 DEF MarkDirect, WalletTypeOK, Transactions
    <2>3. Counts(repo')
      BY <1>10, <2>1, TagsCount DEF MarkDirect, WalletTypeOK
    <2> QED
      BY <1>10, <2>2, <2>3, NoTakeType DEF MarkDirect, WalletTypeOK
  <1>11. CASE MintDirect
    <2>1. take' \in Takes /\ take'.pc # "mark"
      BY <1>11, NoTakeType DEF MintDirect, WalletTypeOK, Takes
    <2> QED
      BY <1>11, <2>1 DEF MintDirect, CountedFrom, WalletTypeOK
  <1>12. ASSUME NEW n \in 1 .. 2, Take(n) PROVE WalletTypeOK'
    <2>1. CASE Len(ready) >= n
      <3>1. n \in 0 .. Len(ready) /\ ready \in Seq(Indices) /\ history \in Nat
        BY <2>1 DEF WalletTypeOK
      <3>2. auths' \subseteq Authorisations /\ ready' \in Seq(Indices)
        BY <1>12, <2>1, <3>1, IssuedType DEF Take, WalletTypeOK
      <3> QED
        BY <1>12, <2>1, <3>2 DEF Take, WalletTypeOK
    <2>2. CASE ~ (Len(ready) >= n)
      <3> DEFINE need == n - Len(ready)
      <3>1. need \in Int /\ n \in Nat
        BY DEF WalletTypeOK
      <3>2. take' = [NoTake EXCEPT !.pc = "reserve", !.want = n, !.need = need]
        BY <1>12, <2>2 DEF Take
      <3> HIDE DEF need
      <3>3. take' \in Takes /\ take'.pc # "mark"
        BY <3>1, <3>2, NoTakeType DEF Takes
      <3> QED
        BY <1>12, <2>2, <3>3 DEF Take, WalletTypeOK
    <2> QED
      BY <2>1, <2>2
  <1>13. CASE Probe
    <2>1. CASE Len(Queue) >= take.want
      <3>1. take.want \in 0 .. Len(Queue) /\ history \in Nat
        BY <2>1, QueueType DEF WalletTypeOK, Takes
      <3>2. Issued(Queue, take.want) \subseteq Authorisations
            /\ SubSeq(Queue, take.want + 1, Len(Queue)) \in Seq(Indices)
        BY <3>1, QueueType, IssuedType
      <3>3. auths' = auths \cup Issued(Queue, take.want)
            /\ ready' = SubSeq(Queue, take.want + 1, Len(Queue)) /\ take' = NoTake
        BY <1>13, <2>1 DEF Probe, Queue, Free
      <3> QED
        BY <1>13, <3>2, <3>3, NoTakeType DEF Probe, WalletTypeOK
    <2>2. CASE ~ (Len(Queue) >= take.want)
      <3> DEFINE need == Smaller(CollisionBatch, MaxCandidates - take.tested)
      <3>1. need \in Int
        BY WalletAssumption DEF Smaller, WalletTypeOK, Takes
      <3>2. ready' = Queue /\ auths' = auths
            /\ (take' = NoTake
                  \/ take' = [take EXCEPT !.pc = "reserve", !.allocated = <<>>, !.need = need])
        BY <1>13, <2>2 DEF Probe, Queue, Free
      <3>3. <<>> \in Seq(Indices)
        OBVIOUS
      <3> HIDE DEF need
      <3>4. take' \in Takes /\ take'.pc # "mark"
        BY <3>1, <3>2, <3>3, NoTakeType DEF WalletTypeOK, Takes
      <3> QED
        BY <1>13, <3>2, <3>4, QueueType DEF Probe, WalletTypeOK
    <2> QED
      BY <2>1, <2>2
  <1>14. ASSUME NEW handles \in SUBSET auths, Assemble(handles) PROVE WalletTypeOK'
    <2>1. {a.index : a \in handles} \subseteq Indices
      BY DEF WalletTypeOK, Authorisations
    <2>2. flight' \subseteq Transactions /\ auths' \subseteq Authorisations
      BY <1>14, <2>1 DEF Assemble, Consumed, WalletTypeOK, Transactions
    <2> QED
      BY <1>14, <2>2 DEF Assemble, WalletTypeOK
  <1>15. CASE Reconcile
    <2>2. Max(Occupied) \in Nat
      BY <1>15, MaxOccupied DEF Reconcile
    <2>3. store' \in Nat
      BY <1>15, <2>2 DEF Reconcile, RatchetTo, Larger, WalletTypeOK
    <2> QED
      BY <1>15, <2>3 DEF Reconcile, WalletTypeOK
  <1>16. ASSUME NEW t \in flight, Land(t) PROVE WalletTypeOK'
    <2> DEFINE landed == SetToSeq({Note("self", i, version) : i \in t.indices})
    <2>1. chain \in Seq(Notes) /\ landed \in Seq(Notes) /\ chain' = chain \o landed
      BY <1>16, LandedType DEF Land, WalletTypeOK
    <2> HIDE DEF landed
    <2>2. chain' \in Seq(Notes)
      BY <2>1
    <2> QED
      BY <1>16, <2>2 DEF Land, WalletTypeOK
  <1>17. CASE Rotate
    BY <1>17 DEF Rotate, WalletTypeOK
  <1>18. CASE NextIncomingAddress
    <2>1. NextIncoming(repo) \in SUBSET Nat /\ NextIncoming(repo) # {}
      BY <1>18, WalletAssumption DEF NextIncomingAddress, NextIncoming, Indices
    <2>2. Min(NextIncoming(repo)) \in NextIncoming(repo)
      BY <2>1, LeastIndex
    <2>3. Min(NextIncoming(repo)) \in Indices /\ Min(NextIncoming(repo)) \in Nat
      BY <2>1, <2>2 DEF NextIncoming
    <2> QED
      BY <1>18, <2>3, TagsCount DEF NextIncomingAddress, WalletTypeOK
  <1>19. ASSUME NEW i \in issued, Pay(i) PROVE WalletTypeOK'
    <2>1. Note("incoming", i, version) \in Notes
      BY DEF Note, Notes, Families, WalletTypeOK
    <2>2. chain' \in Seq(Notes)
      BY <1>19, <2>1 DEF Pay, WalletTypeOK
    <2> QED
      BY <1>19, <2>2 DEF Pay, WalletTypeOK
  <1>20. ASSUME NEW w, ScanStart(w) PROVE WalletTypeOK'
    BY <1>20 DEF ScanStart, WalletTypeOK
  <1>21. CASE Look
    <2>1. Counts(Extended(Family))
      BY RegisterCounts DEF Extended, WalletTypeOK
    <2> QED
      BY <1>21, <2>1 DEF Look, WalletTypeOK
  <1>22. CASE LookDone \/ Fetch
    BY <1>22 DEF LookDone, Fetch, WalletTypeOK
  <1>23. CASE ScanPass
    <2>1. Counts(repo')
      BY <1>23 DEF ScanPass, WalletTypeOK, Counts
    <2> QED
      BY <1>23, <2>1 DEF ScanPass, WalletTypeOK
  <1>24. CASE UNCHANGED vars
    BY <1>24 DEF vars, WalletTypeOK, Counts
  <1> QED
    BY <1>1, <1>2, <1>3, <1>4, <1>5, <1>6, <1>7, <1>8, <1>9, <1>10, <1>11, <1>12, <1>13,
       <1>14, <1>15, <1>16, <1>17, <1>18, <1>19, <1>20, <1>21, <1>22, <1>23, <1>24 DEF Next

-----------------------------------------------------------------------------
(* Who mints, and under which keys                                         *)

LEMMA SessionsStep == WalletTypeOK /\ Sessions /\ [Next]_vars => Sessions'
  <1> SUFFICES ASSUME WalletTypeOK, Sessions, [Next]_vars PROVE Sessions'
    OBVIOUS
  <1> USE DEF chainVars, mintVars, ghosts
  <1>a. client # "off" \/ take.pc = "idle"
    BY NoTakeType DEF Sessions
  <1>1. CASE StartPage \/ StartSdk
    BY <1>1, NoTakeType DEF StartPage, StartSdk, Sessions
  <1>2. CASE Save \/ Reconcile \/ Rotate \/ NextIncomingAddress \/ Look \/ LookDone \/ Fetch
             \/ ScanPass \/ UNCHANGED vars
    BY <1>2 DEF Save, Reconcile, Rotate, NextIncomingAddress, Look, LookDone, Fetch, ScanPass,
                vars, Sessions
  <1>3. CASE Crash
    BY <1>3, NoTakeType DEF Crash, Sessions
  <1>4. CASE LoseStore
    BY <1>4, NoTakeType DEF LoseStore, Sessions
  <1>5. CASE Refresh
    BY <1>5 DEF Refresh, Sessions
  <1>6. CASE Reserve
    <2>1. client # "off" /\ take'.want = take.want /\ take.pc # "idle"
      BY <1>6, <1>a DEF Reserve, WalletTypeOK, Takes
    <2> QED
      BY <1>6, <2>1 DEF Reserve, Sessions
  <1>7. CASE ReserveFails \/ ProbeFails \/ MarkDirect
    BY <1>7, <1>a, NoTakeType DEF ReserveFails, ProbeFails, MarkDirect, Sessions
  <1>8. CASE MarkDerived
    <2>1. client # "off" /\ take'.want = take.want /\ take.pc # "idle"
      BY <1>8, <1>a DEF MarkDerived, WalletTypeOK, Takes
    <2> QED
      BY <1>8, <2>1 DEF MarkDerived, Sessions
  <1>9. CASE MintDirect
    BY <1>9 DEF MintDirect, Sessions
  <1>10. ASSUME NEW n \in 1 .. 2, Take(n) PROVE Sessions'
    <2>1. client = "sdk" /\ UNCHANGED <<client, risk, lost, world>>
      BY <1>10 DEF Take
    <2>2. take' = take \/ take'.want = n
      BY <1>10 DEF Take, NoTake
    <2> QED
      BY <1>10, <2>1, <2>2 DEF Take, Sessions
  <1>11. CASE Probe
    <2>1. client # "off" /\ UNCHANGED <<client, risk, lost, world>> /\ take.pc # "idle"
      BY <1>11, <1>a DEF Probe
    <2>2. take' = NoTake \/ take'.want = take.want
      BY <1>11 DEF Probe, WalletTypeOK, Takes
    <2> QED
      BY <2>1, <2>2, NoTakeType DEF Sessions
  <1>12. ASSUME NEW handles \in SUBSET auths, Assemble(handles) PROVE Sessions'
    BY <1>12 DEF Assemble, Sessions
  <1>13. ASSUME NEW t \in flight, Land(t) PROVE Sessions'
    BY <1>13 DEF Land, Sessions
  <1>14. ASSUME NEW i \in issued, Pay(i) PROVE Sessions'
    BY <1>14 DEF Pay, Sessions
  <1>15. ASSUME NEW w, ScanStart(w) PROVE Sessions'
    BY <1>15 DEF ScanStart, Sessions
  <1> QED
    BY <1>1, <1>2, <1>3, <1>4, <1>5, <1>6, <1>7, <1>8, <1>9, <1>10, <1>11, <1>12, <1>13,
       <1>14, <1>15 DEF Next

\* A wallet of the SDK is not a group's.
LEMMA OneHolder == ASSUME Sessions, client = "sdk" PROVE "group" \notin world
  <1>1. PICK who \in Features : world \cap {"sdk", "page", "group"} = {who}
    BY WalletAssumption DEF Sessions
  <1>2. "sdk" \in world
    BY DEF Sessions
  <1> QED
    BY <1>1, <1>2

\* The positions of the notes a transaction adds.
LEMMA Appended ==
    ASSUME NEW S, NEW s \in Seq(S), NEW r \in Seq(S)
    PROVE  /\ DOMAIN (s \o r) = 1 .. Len(s) + Len(r) /\ DOMAIN s = 1 .. Len(s)
           /\ Len(s) \in Nat /\ Len(r) \in Nat
           /\ \A p \in 1 .. Len(s) : (s \o r)[p] = s[p]
           /\ \A p \in 1 .. Len(s) + Len(r) :
                 p \notin 1 .. Len(s) => p - Len(s) \in 1 .. Len(r) /\ (s \o r)[p] = r[p - Len(s)]
  OBVIOUS

LEMMA KeysKnownStep == WalletTypeOK /\ Sessions /\ KeysKnown /\ [Next]_vars => KeysKnown'
  <1> SUFFICES ASSUME WalletTypeOK, Sessions, KeysKnown, [Next]_vars PROVE KeysKnown'
    OBVIOUS
  <1> USE DEF chainVars, mintVars, ghosts
  <1>a. version \in Nat /\ history \in Nat /\ take.pk \in Nat /\ NoTake.pk = 0
    BY DEF WalletTypeOK, Takes, NoTake
  <1>b. ASSUME UNCHANGED <<chain, flight, version, history>>, client' = "sdk" => client = "sdk",
               take'.pk \in {take.pk, 0, version}
        PROVE  KeysKnown'
    BY <1>a, <1>b DEF KeysKnown, OwnVersions
  <1>c. ASSUME UNCHANGED <<chain, flight, version, take>>, history' = version
        PROVE  KeysKnown'
    BY <1>a, <1>c DEF KeysKnown, OwnVersions
  <1>1. CASE StartPage \/ StartSdk \/ Refresh
    BY <1>1, <1>c DEF StartPage, StartSdk, Refresh
  <1>2. CASE Save \/ Reconcile \/ NextIncomingAddress \/ Look \/ LookDone \/ Fetch
             \/ ScanPass \/ UNCHANGED vars \/ LoseStore
    BY <1>2, <1>b DEF Save, Reconcile, NextIncomingAddress, Look, LookDone, Fetch, ScanPass,
                LoseStore, vars
  <1>3. CASE Crash \/ ReserveFails \/ ProbeFails
    BY <1>3, <1>a, <1>b DEF Crash, ReserveFails, ProbeFails
  <1>4. CASE Reserve
    <2>1. take'.pk = take.pk
      BY <1>4 DEF Reserve, WalletTypeOK, Takes
    <2> QED
      BY <1>4, <2>1, <1>b DEF Reserve
  <1>5. CASE MarkDerived
    <2>1. take'.pk = take.pk
      BY <1>5 DEF MarkDerived, WalletTypeOK, Takes
    <2> QED
      BY <1>5, <2>1, <1>b DEF MarkDerived
  <1>6. CASE MarkDirect
    <2>1. client \in {"page", "group"}
      BY <1>6 DEF MarkDirect, Sessions
    <2>2. \A t \in flight' : t \in flight \/ t.version = take.pk
      BY <1>6 DEF MarkDirect
    <2>3. UNCHANGED <<chain, version, history, client>> /\ take' = NoTake
      BY <1>6 DEF MarkDirect
    <2> QED
      BY <1>a, <2>1, <2>2, <2>3 DEF KeysKnown, OwnVersions
  <1>7. CASE MintDirect
    <2>1. take'.pk = version
      BY <1>7 DEF MintDirect, NoTake
    <2> QED
      BY <1>7, <2>1, <1>b DEF MintDirect
  <1>8. ASSUME NEW n \in 1 .. 2, Take(n) PROVE KeysKnown'
    <2>1. take'.pk \in {take.pk, 0}
      BY <1>8 DEF Take, NoTake
    <2> QED
      BY <1>8, <2>1, <1>b DEF Take
  <1>9. CASE Probe
    <2>1. take'.pk \in {take.pk, 0}
      BY <1>9, <1>a DEF Probe, WalletTypeOK, Takes
    <2> QED
      BY <1>9, <2>1, <1>b DEF Probe
  <1>10. ASSUME NEW handles \in SUBSET auths, Assemble(handles) PROVE KeysKnown'
    <2>1. \A t \in flight' : t \in flight \/ t.version = history
      BY <1>10 DEF Assemble
    <2>2. UNCHANGED <<chain, version, history, client, take>>
      BY <1>10 DEF Assemble
    <2> QED
      BY <1>a, <2>1, <2>2 DEF KeysKnown, OwnVersions
  <1>11. ASSUME NEW t \in flight, Land(t) PROVE KeysKnown'
    <2> DEFINE S == {Note("self", i, version) : i \in t.indices}
               landed == SetToSeq(S)
    <2>1. chain \in Seq(Notes) /\ landed \in Seq(Notes) /\ chain' = chain \o landed
          /\ landed \in Seq(S)
      BY <1>11, LandedType, SetToSeqParts DEF Land, WalletTypeOK
    <2>2. \A x \in S : x.version = t.version
      BY <1>11 DEF Note, Land
    <2> HIDE DEF landed, S
    <2>3. \A p \in 1 .. Len(landed) : landed[p].version = t.version
      BY <2>1, <2>2
    <2>4. \A p \in DOMAIN chain' : \/ p \in DOMAIN chain /\ chain'[p] = chain[p]
                                   \/ chain'[p].version = t.version
      BY <2>1, <2>3, Appended
    <2>5. UNCHANGED <<version, history, client, take>> /\ flight' \subseteq flight
      BY <1>11 DEF Land
    <2>6. ASSUME NEW h \in Nat, OwnVersions(h) PROVE OwnVersions(h)'
      BY <2>4, <2>5, <2>6 DEF OwnVersions
    <2> QED
      BY <1>a, <2>5, <2>6 DEF KeysKnown
  <1>12. CASE Rotate
    <2>1. \A t \in flight : t.version \in Nat
      BY DEF WalletTypeOK, Transactions
    <2>2. \A p \in DOMAIN chain : chain[p] \in Notes
      BY DEF WalletTypeOK
    <2>3. \A p \in DOMAIN chain : chain[p].version \in Nat
      BY <2>2 DEF Notes
    <2>4. UNCHANGED <<chain, flight, history, client, take>> /\ version' = version + 1
      BY <1>12 DEF Rotate
    <2> QED
      BY <1>a, <2>1, <2>3, <2>4 DEF KeysKnown, OwnVersions
  <1>13. ASSUME NEW i \in issued, Pay(i) PROVE KeysKnown'
    <2>1. \A p \in DOMAIN chain' : \/ p \in DOMAIN chain /\ chain'[p] = chain[p]
                                   \/ chain'[p].family # "self"
      <3>1. Note("incoming", i, version) \in Notes /\ chain \in Seq(Notes)
        BY DEF Note, Notes, Families, WalletTypeOK
      <3>2. Note("incoming", i, version).family # "self"
        BY DEF Note
      <3> QED
        BY <1>13, <3>1, <3>2 DEF Pay
    <2>2. UNCHANGED <<version, history, client, take, flight>>
      BY <1>13 DEF Pay
    <2> QED
      BY <1>a, <2>1, <2>2 DEF KeysKnown, OwnVersions
  <1>14. ASSUME NEW w, ScanStart(w) PROVE KeysKnown'
    BY <1>14, <1>b DEF ScanStart
  <1> QED
    BY <1>1, <1>2, <1>3, <1>4, <1>5, <1>6, <1>7, <1>8, <1>9, <1>10, <1>11, <1>12, <1>13,
       <1>14 DEF Next

-----------------------------------------------------------------------------
(* The indices stay apart                                                  *)

\* A step that moves no index, may forget some, and never lowers the counter.
LEMMA NothingMoved ==
    ASSUME NEW i \in Nat, Fresh(i), Passed(i), store \in Nat, store' \in Nat, store <= store',
           lost' = lost, Chained(i)' = Chained(i), Carrying(i)' = Carrying(i),
           Authorising(i)' \subseteq Authorising(i), Readied(i)' \subseteq Readied(i),
           Listed(i)' \subseteq Listed(i)
    PROVE  Fresh(i)' /\ Passed(i)'
  <1>1. Passed(i)'
    BY DEF Passed
  <1>2. Alone(Chained(i))' /\ Alone(Carrying(i))' /\ Alone(Authorising(i))' /\ Alone(Readied(i))'
        /\ Alone(Listed(i))'
    BY DEF Fresh, Alone
  <1> QED
    BY <1>1, <1>2 DEF Fresh

\* Handing out the head of a queue: the index moves from the queue to the
\* authorisations, or stays in the queue.
LEMMA HandedOut ==
    ASSUME NEW i \in Indices, NEW q \in Seq(Indices), NEW n \in 0 .. Len(q),
           Alone({k \in DOMAIN q : q[k] = i}), Alone(Authorising(i)),
           {k \in DOMAIN q : q[k] = i} # {} => Authorising(i) = {},
           auths' = auths \cup Issued(q, n), ready' = SubSeq(q, n + 1, Len(q))
    PROVE  /\ Alone(Authorising(i))' /\ Alone(Readied(i))'
           /\ Authorising(i)' # {} => Readied(i)' = {}
           /\ Authorising(i)' # {} \/ Readied(i)' # {} =>
                 Authorising(i) # {} \/ {k \in DOMAIN q : q[k] = i} # {}
  <1> DEFINE at == {k \in DOMAIN q : q[k] = i}
  <1>1. DOMAIN q = 1 .. Len(q) /\ Len(q) \in Nat /\ n \in Nat /\ n <= Len(q)
    OBVIOUS
  <1>2. DOMAIN ready' = 1 .. Len(q) - n /\ \A k \in 1 .. Len(q) - n : ready'[k] = q[k + n]
    BY <1>1
  <1>3. ASSUME NEW k \in Readied(i)' PROVE k \in Int /\ k > 0 /\ k + n \in at
    <2>1. k \in 1 .. Len(q) - n /\ ready'[k] = i
      BY <1>2 DEF Readied
    <2>2. k + n \in 1 .. Len(q) /\ q[k + n] = i
      BY <1>1, <1>2, <2>1
    <2> QED
      BY <1>1, <2>1, <2>2
  <1>4. ASSUME NEW a \in Authorising(i)'
        PROVE  \/ a \in Authorising(i)
               \/ a = [index |-> i, version |-> history] /\ \E j \in 1 .. n : j \in at
    <2>1. a \in auths \/ \E j \in 1 .. n : a = [index |-> q[j], version |-> history]
      BY DEF Authorising, Issued
    <2>2. a.index = i
      BY DEF Authorising
    <2>3. CASE a \in auths
      BY <2>2, <2>3 DEF Authorising
    <2>4. ASSUME NEW j \in 1 .. n, a = [index |-> q[j], version |-> history]
          PROVE  a = [index |-> i, version |-> history] /\ j \in at
      BY <1>1, <2>2, <2>4
    <2> QED
      BY <2>1, <2>3, <2>4
  <1> HIDE DEF at
  <1>5. Alone(at) /\ (at # {} => Authorising(i) = {})
    BY DEF at
  <1>6. Alone(Readied(i)')
    <2> SUFFICES ASSUME NEW k \in Readied(i)', NEW l \in Readied(i)' PROVE k = l
      BY DEF Alone
    <2>1. k + n = l + n /\ k \in Int /\ l \in Int
      BY <1>3, <1>5 DEF Alone
    <2> QED
      BY <1>1, <2>1
  <1>7. Alone(Authorising(i)')
    BY <1>4, <1>5 DEF Alone
  <1>8. ASSUME NEW a \in Authorising(i)', NEW k \in Readied(i)' PROVE FALSE
    <2>1. at # {} /\ Authorising(i) = {}
      BY <1>3, <1>5
    <2>2. PICK j \in 1 .. n : j \in at
      BY <1>4, <2>1
    <2>3. j = k + n
      BY <1>3, <1>5, <2>2 DEF Alone
    <2> QED
      BY <1>1, <1>3, <2>2, <2>3
  <1>9. Authorising(i)' # {} \/ Readied(i)' # {} => Authorising(i) # {} \/ at # {}
    BY <1>3, <1>4
  <1> QED
    BY <1>6, <1>7, <1>8, <1>9 DEF at, Alone

\* What preflight queues: an index once, and one no note on the chain has.
InQueue(i) == {k \in DOMAIN Queue : Queue[k] = i}

LEMMA QueuedOnce ==
    ASSUME WalletInv, "group" \notin world, take.pc = "probe", NEW i \in Indices \ risk
    PROVE  /\ Alone(InQueue(i))
           /\ InQueue(i) # {} => Chained(i) = {} /\ (Readied(i) # {} \/ Listed(i) # {})
  <1>1. WalletTypeOK /\ Sessions /\ KeysKnown /\ Fresh(i) /\ Allocated = take.allocated
    BY DEF WalletInv, IndicesApart, Allocated
  <1> DEFINE kept == Filtered(take.allocated, Free)
  <1>2. ready \in Seq(Indices) /\ kept \in Seq(Indices) /\ Queue = ready \o kept
        /\ take.allocated \in Seq(Indices) /\ Free \in SUBSET (1 .. Len(take.allocated))
    BY <1>1, QueueType DEF Queue, WalletTypeOK
  <1>3. PICK at \in [1 .. Len(kept) -> Free] :
            /\ \A j \in 1 .. Len(kept) : kept[j] = take.allocated[at[j]]
            /\ \A j, k \in 1 .. Len(kept) : at[j] = at[k] => j = k
    <2> DEFINE s == take.allocated
    <2>1. s \in Seq(Indices) /\ Free \in SUBSET (1 .. Len(s))
      BY <1>2
    <2> HIDE DEF s
    <2>2. \E at \in [1 .. Len(Filtered(s, Free)) -> Free] :
             /\ \A j \in 1 .. Len(Filtered(s, Free)) : Filtered(s, Free)[j] = s[at[j]]
             /\ \A j, k \in 1 .. Len(Filtered(s, Free)) : at[j] = at[k] => j = k
      BY <2>1, FilteredParts, SMT
    <2> QED
      BY <2>2 DEF s
  <1>4. ASSUME NEW j \in 1 .. Len(kept), kept[j] = i
        PROVE  at[j] \in Listed(i) /\ Chained(i) = {}
    <2>1. at[j] \in Free /\ take.allocated[at[j]] = i
      BY <1>3, <1>4
    <2>2. at[j] \in Listed(i)
      BY <1>1, <2>1 DEF Free, Listed
    <2>3. ~ OpensExisting(i)
      BY <2>1 DEF Free
    <2>4. CASE ~lost
      BY <1>1, <2>2, <2>4 DEF Fresh
    <2>5. CASE lost
      <3>1. client = "sdk"
        BY <1>1, <2>5, NoTakeType DEF Sessions, WalletTypeOK
      <3>2. \A p \in DOMAIN chain : chain[p] \in Notes
        BY <1>1 DEF WalletTypeOK
      <3>3. \A p \in DOMAIN chain : chain[p].version \in Nat
        BY <3>2 DEF Notes
      <3>4. \A p \in Chained(i) : chain[p].version \in KnownVersions
        BY <1>1, <3>1, <3>3 DEF KeysKnown, OwnVersions, KnownVersions, Chained, WalletTypeOK
      <3> QED
        BY <2>2, <2>3, <3>4 DEF OpensExisting, Chained
    <2> QED
      BY <1>1, <2>2, <2>4, <2>5 DEF WalletTypeOK
  <1> HIDE DEF kept
  <1>5. ASSUME NEW k \in InQueue(i)
        PROVE  /\ k \in Int
               /\ \/ k \in 1 .. Len(ready) /\ k \in Readied(i)
                  \/ k - Len(ready) \in 1 .. Len(kept) /\ kept[k - Len(ready)] = i
    <2>1. k \in 1 .. Len(ready) + Len(kept) /\ (ready \o kept)[k] = i
      BY <1>2, Appended DEF InQueue
    <2>2. CASE k \in 1 .. Len(ready)
      BY <1>2, <2>1, <2>2, Appended DEF Readied
    <2>3. CASE k \notin 1 .. Len(ready)
      BY <1>2, <2>1, <2>3, Appended
    <2> QED
      BY <2>1, <2>2, <2>3
  <1>6. Alone(InQueue(i))
    <2> SUFFICES ASSUME NEW k \in InQueue(i), NEW l \in InQueue(i) PROVE k = l
      BY DEF Alone
    <2>1. Len(ready) \in Nat /\ k \in Int /\ l \in Int
      BY <1>2, <1>5
    <2>2. CASE k \in Readied(i) /\ l \in Readied(i)
      BY <1>1, <2>2 DEF Fresh, Alone
    <2>3. CASE k \notin Readied(i) /\ l \notin Readied(i)
      <3> DEFINE x == k - Len(ready)
                 y == l - Len(ready)
      <3>1. x \in 1 .. Len(kept) /\ kept[x] = i /\ y \in 1 .. Len(kept) /\ kept[y] = i
        BY <1>5, <2>3
      <3> HIDE DEF x, y
      <3>2. at[x] = at[y]
        BY <1>1, <1>4, <3>1 DEF Fresh, Alone
      <3>3. x = y
        BY <1>3, <3>1, <3>2
      <3> QED
        BY <2>1, <3>3 DEF x, y
    <2>4. Listed(i) = {} \/ Readied(i) = {}
      BY <1>1 DEF Fresh
    <2> QED
      BY <1>4, <1>5, <2>2, <2>3, <2>4
  <1>7. ASSUME InQueue(i) # {}
        PROVE  Chained(i) = {} /\ (Readied(i) # {} \/ Listed(i) # {})
    <2>1. PICK k : k \in InQueue(i)
      BY <1>7
    <2> QED
      BY <1>1, <1>4, <1>5, <2>1 DEF Fresh
  <1> QED
    BY <1>6, <1>7

LEMMA IndicesApartStep == WalletInv /\ WalletTypeOK' /\ [Next]_vars => IndicesApart'
  <1> SUFFICES ASSUME WalletInv, WalletTypeOK', [Next]_vars, "group" \notin world',
                      NEW i \in Indices \ risk'
               PROVE  Fresh(i)' /\ Passed(i)'
    BY DEF IndicesApart
  <1> USE DEF chainVars, mintVars, ghosts
  <1>a. /\ WalletTypeOK /\ Sessions /\ KeysKnown
        /\ i \in Indices /\ i \in Nat /\ store \in Nat /\ store' \in Nat
    BY WalletAssumption DEF WalletInv, WalletTypeOK, Indices
  <1>b. (~ LoseStore => risk' = risk) /\ world' = world
    BY DEF Next, vars, StartPage, StartSdk, Save, Crash, Refresh, Reserve, ReserveFails,
           MarkDerived, MarkDirect, MintDirect, Take, Probe, ProbeFails, Assemble, Reconcile,
           Land, Rotate, NextIncomingAddress, Pay, ScanStart, Look, LookDone, Fetch, ScanPass,
           LoseStore
  <1>h. "group" \notin world /\ client # "group"
    BY <1>a, <1>b DEF Sessions
  <1>c. i \in Indices \ risk /\ Fresh(i) /\ Passed(i)
    <2>1. LoseStore => risk = {}
      BY <1>a DEF LoseStore, Sessions
    <2>2. i \notin risk
      BY <1>b, <2>1
    <2> QED
      BY <1>a, <1>h, <2>2 DEF WalletInv, IndicesApart
  <1>d. ASSUME UNCHANGED <<chain, flight, auths, ready, take, lost>>, store <= store'
        PROVE  Fresh(i)' /\ Passed(i)'
    <2>1. /\ Chained(i)' = Chained(i) /\ Carrying(i)' = Carrying(i)
          /\ Authorising(i)' = Authorising(i) /\ Readied(i)' = Readied(i)
          /\ Listed(i)' = Listed(i)
      BY <1>d DEF Chained, Carrying, Authorising, Readied, Listed, Allocated
    <2> QED
      BY <1>a, <1>c, <1>d, <2>1, NothingMoved
  <1>e. ASSUME take'.pc # "mark", take'.allocated = <<>> PROVE Listed(i)' = {}
    BY <1>e DEF Listed, Allocated
  <1>f. NoTake.pc # "mark" /\ NoTake.allocated = <<>>
    BY DEF NoTake
  <1>g. store <= RatchetTo(RestoredMint(saved))
    BY <1>a, RestoredCounts DEF RatchetTo, Larger
  <1>1. CASE StartPage \/ StartSdk
    BY <1>1, <1>a, <1>d, <1>g DEF StartPage, StartSdk
  <1>2. CASE Reconcile
    <2>1. store <= store'
      BY <1>2, <1>a DEF Reconcile, RatchetTo, Larger
    <2> QED
      BY <1>2, <2>1, <1>d DEF Reconcile
  <1>3. CASE Save \/ Rotate \/ NextIncomingAddress \/ Look \/ LookDone \/ Fetch \/ ScanPass
             \/ UNCHANGED vars \/ \E w \in {Window, Window + ExtraWindow} : ScanStart(w)
    BY <1>3, <1>a, <1>d DEF Save, Rotate, NextIncomingAddress, Look, LookDone, Fetch, ScanPass,
                            vars, ScanStart
  <1>4. CASE Crash \/ Refresh \/ ReserveFails \/ ProbeFails
    <2>1. UNCHANGED <<store, chain, flight, lost>>
      BY <1>4, <1>h DEF Crash, Refresh, ReserveFails, ProbeFails
    <2>2. Chained(i)' = Chained(i) /\ Carrying(i)' = Carrying(i)
      BY <2>1 DEF Chained, Carrying
    <2>3. Authorising(i)' \subseteq Authorising(i) /\ Readied(i)' \subseteq Readied(i)
      BY <1>4 DEF Crash, Refresh, ReserveFails, ProbeFails, Authorising, Readied
    <2>4. take' = NoTake \/ take' = take
      BY <1>4 DEF Crash, Refresh, ReserveFails, ProbeFails
    <2>5. Listed(i)' \subseteq Listed(i)
      <3>1. CASE take' = NoTake
        BY <3>1, <1>e, <1>f
      <3>2. CASE take' = take
        BY <3>2 DEF Listed, Allocated
      <3> QED
        BY <2>4, <3>1, <3>2
    <2> QED
      BY <1>a, <1>c, <2>1, <2>2, <2>3, <2>5, NothingMoved
  <1>5. CASE LoseStore
    <2>1. take = NoTake /\ ready = <<>> /\ auths = {} /\ ~lost
          /\ UNCHANGED <<chain, flight, take, ready, auths>>
      BY <1>5, <1>a DEF LoseStore, Sessions
    <2>2. Carrying(i)' = {}
      BY <1>5, <2>1 DEF LoseStore, Carrying
    <2>3. Authorising(i)' = {} /\ Readied(i)' = {} /\ Listed(i)' = {}
      BY <2>1, <1>e, <1>f DEF Authorising, Readied
    <2>4. Chained(i)' = Chained(i) /\ lost'
      BY <1>5, <2>1 DEF LoseStore, Chained
    <2> QED
      BY <1>c, <2>2, <2>3, <2>4 DEF Fresh, Passed, Alone
  <1>6. CASE Reserve
    <2>1. UNCHANGED <<chain, flight, auths, ready, lost>> /\ store' = store + 1
          /\ take.pc = "reserve"
      BY <1>6 DEF Reserve
    <2>2. CASE take' = take
      BY <1>a, <1>d, <2>1, <2>2
    <2>3. CASE take' = [take EXCEPT !.pc = "mark", !.index = store]
      <3>1. Allocated = take.allocated /\ Allocated \in Seq(Indices)
        BY <1>a, <2>1 DEF Allocated, WalletTypeOK, Takes
      <3>2. Allocated' = Append(Allocated, store)
        BY <1>a, <2>3, <3>1 DEF Allocated, WalletTypeOK, Takes
      <3>3. /\ Len(Allocated) \in Nat /\ DOMAIN Allocated = 1 .. Len(Allocated)
            /\ DOMAIN Allocated' = 1 .. Len(Allocated) + 1
            /\ Allocated'[Len(Allocated) + 1] = store
            /\ \A k \in 1 .. Len(Allocated) : Allocated'[k] = Allocated[k]
        BY <3>1, <3>2
      <3>4. /\ Chained(i)' = Chained(i) /\ Carrying(i)' = Carrying(i)
            /\ Authorising(i)' = Authorising(i) /\ Readied(i)' = Readied(i)
        BY <2>1 DEF Chained, Carrying, Authorising, Readied
      <3>5. CASE i # store
        <4>1. Listed(i)' = Listed(i)
          BY <3>3, <3>5 DEF Listed
        <4> QED
          BY <1>a, <1>c, <2>1, <3>4, <4>1, NothingMoved
      <3>6. CASE i = store
        <4>1. /\ Carrying(i) = {} /\ Authorising(i) = {} /\ Readied(i) = {} /\ Listed(i) = {}
              /\ lost \/ Chained(i) = {}
          BY <1>a, <1>c, <3>6 DEF Passed
        <4>2. Listed(i)' = {Len(Allocated) + 1}
          BY <3>3, <3>6, <4>1 DEF Listed
        <4>3. Alone(Listed(i)')
          BY <4>2 DEF Alone
        <4>4. Passed(i)'
          BY <1>a, <2>1, <3>6 DEF Passed
        <4> QED
          BY <1>c, <2>1, <3>4, <4>1, <4>3, <4>4 DEF Fresh
      <3> QED
        BY <3>5, <3>6
    <2> QED
      BY <1>6, <2>2, <2>3 DEF Reserve
  <1>7. CASE MarkDerived
    <2>1. UNCHANGED <<store, chain, flight, auths, ready, lost>>
      BY <1>7 DEF MarkDerived
    <2>2. take'.pc # "mark" /\ take'.allocated = Append(take.allocated, take.index)
      BY <1>7, <1>a DEF MarkDerived, WalletTypeOK, Takes
    <2>3. Allocated' = Allocated
      BY <1>7, <2>2 DEF MarkDerived, Allocated
    <2>4. /\ Chained(i)' = Chained(i) /\ Carrying(i)' = Carrying(i)
          /\ Authorising(i)' = Authorising(i) /\ Readied(i)' = Readied(i)
          /\ Listed(i)' = Listed(i)
      BY <2>1, <2>3 DEF Chained, Carrying, Authorising, Readied, Listed
    <2> QED
      BY <1>a, <1>c, <2>1, <2>4, NothingMoved
  <1>8. CASE MarkDirect
    <2>1. UNCHANGED <<store, chain, auths, ready, lost>> /\ take' = NoTake /\ take.pc = "mark"
      BY <1>8 DEF MarkDirect
    <2>2. /\ Chained(i)' = Chained(i) /\ Authorising(i)' = Authorising(i)
          /\ Readied(i)' = Readied(i) /\ Listed(i)' = {}
      BY <2>1, <1>e, <1>f DEF Chained, Authorising, Readied
    <2>3. CASE i # take.index
      <3>1. Carrying(i)' = Carrying(i)
        BY <1>8, <2>3 DEF MarkDirect, Carrying
      <3> QED
        BY <1>a, <1>c, <2>1, <2>2, <3>1, NothingMoved
    <2>4. CASE i = take.index
      <3>1. take.allocated \in Seq(Indices) /\ Allocated = Append(take.allocated, i)
        BY <1>a, <2>1, <2>4 DEF Allocated, WalletTypeOK, Takes
      <3>2. Len(take.allocated) + 1 \in Listed(i)
        BY <3>1 DEF Listed
      <3>3. ~lost
        BY <1>8, <1>a DEF MarkDirect, Sessions
      <3>4. /\ Chained(i) = {} /\ Carrying(i) = {} /\ Authorising(i) = {} /\ Readied(i) = {}
            /\ i < store
        BY <1>c, <3>2, <3>3 DEF Fresh, Passed
      <3>5. Alone(Carrying(i)')
        <4>1. \A u \in Carrying(i)' : u \in Carrying(i)
                                       \/ u = [indices |-> {take.index}, version |-> take.pk]
          BY <1>8 DEF MarkDirect, Carrying
        <4> QED
          BY <3>4, <4>1 DEF Alone
      <3> QED
        BY <2>1, <2>2, <3>4, <3>5 DEF Fresh, Passed, Alone
    <2> QED
      BY <2>3, <2>4
  <1>9. CASE MintDirect
    <2>1. UNCHANGED <<store, chain, flight, auths, ready, lost>>
      BY <1>9, <1>h DEF MintDirect, CountedFrom
    <2>2. take'.pc # "mark" /\ take'.allocated = <<>>
      BY <1>9 DEF MintDirect, NoTake
    <2>3. /\ Chained(i)' = Chained(i) /\ Carrying(i)' = Carrying(i)
          /\ Authorising(i)' = Authorising(i) /\ Readied(i)' = Readied(i)
          /\ Listed(i)' = {}
      BY <2>1, <2>2, <1>e DEF Chained, Carrying, Authorising, Readied
    <2> QED
      BY <1>a, <1>c, <2>1, <2>3, NothingMoved
  <1>10. ASSUME NEW n \in 1 .. 2, Take(n) PROVE Fresh(i)' /\ Passed(i)'
    <2>1. UNCHANGED <<store, chain, flight, lost>>
      BY <1>10 DEF Take
    <2>2. Chained(i)' = Chained(i) /\ Carrying(i)' = Carrying(i)
      BY <2>1 DEF Chained, Carrying
    <2>3. CASE Len(ready) >= n
      <3>1. auths' = auths \cup Issued(ready, n) /\ ready' = SubSeq(ready, n + 1, Len(ready))
            /\ take' = take
        BY <1>10, <2>3 DEF Take
      <3>2. ready \in Seq(Indices) /\ n \in 0 .. Len(ready)
        BY <1>a, <2>3 DEF WalletTypeOK
      <3>3. Readied(i) = {k \in DOMAIN ready : ready[k] = i}
        BY DEF Readied
      <3>4. Alone(Readied(i)) /\ Alone(Authorising(i)) /\ (Readied(i) # {} => Authorising(i) = {})
        BY <1>c DEF Fresh
      <3>5. /\ Alone(Authorising(i))' /\ Alone(Readied(i))'
            /\ Authorising(i)' # {} => Readied(i)' = {}
            /\ Authorising(i)' # {} \/ Readied(i)' # {} => Authorising(i) # {} \/ Readied(i) # {}
        BY <1>a, <3>1, <3>2, <3>3, <3>4, HandedOut
      <3>6. Listed(i)' = Listed(i)
        BY <3>1 DEF Listed, Allocated
      <3> QED
        BY <1>c, <2>1, <2>2, <3>5, <3>6 DEF Fresh, Passed
    <2>4. CASE ~ (Len(ready) >= n)
      <3>1. UNCHANGED <<auths, ready>> /\ take'.pc # "mark" /\ take'.allocated = <<>>
        BY <1>10, <2>4 DEF Take, NoTake
      <3>2. Authorising(i)' = Authorising(i) /\ Readied(i)' = Readied(i) /\ Listed(i)' = {}
        BY <3>1, <1>e DEF Authorising, Readied
      <3> QED
        BY <1>a, <1>c, <2>1, <2>2, <3>2, NothingMoved
    <2> QED
      BY <2>3, <2>4
  <1>11. CASE Probe
    <2>1. UNCHANGED <<store, chain, flight, lost>> /\ take.pc = "probe"
      BY <1>11 DEF Probe
    <2>2. Chained(i)' = Chained(i) /\ Carrying(i)' = Carrying(i)
      BY <2>1 DEF Chained, Carrying
    <2>3. Alone(InQueue(i)) /\ (InQueue(i) # {} => Chained(i) = {} /\ (Readied(i) # {} \/ Listed(i) # {}))
      BY <1>c, <1>h, <2>1, QueuedOnce
    <2>4. Queue \in Seq(Indices) /\ take.want \in Nat /\ take.pc \in {"idle", "reserve", "mark", "probe"}
      BY <1>a, QueueType DEF WalletTypeOK, Takes
    <2>5. CASE Len(Queue) >= take.want
      <3>1. auths' = auths \cup Issued(Queue, take.want)
            /\ ready' = SubSeq(Queue, take.want + 1, Len(Queue)) /\ take' = NoTake
        BY <1>11, <2>5 DEF Probe, Queue, Free
      <3>2. take.want \in 0 .. Len(Queue)
        BY <2>4, <2>5
      <3>3. InQueue(i) = {k \in DOMAIN Queue : Queue[k] = i}
        BY DEF InQueue
      <3>4. Alone(Authorising(i)) /\ (InQueue(i) # {} => Authorising(i) = {})
        BY <1>c, <2>3 DEF Fresh
      <3>5. /\ Alone(Authorising(i))' /\ Alone(Readied(i))'
            /\ Authorising(i)' # {} => Readied(i)' = {}
            /\ Authorising(i)' # {} \/ Readied(i)' # {} => Authorising(i) # {} \/ InQueue(i) # {}
        BY <1>a, <2>3, <2>4, <3>1, <3>2, <3>3, <3>4, HandedOut
      <3>6. Listed(i)' = {}
        BY <3>1, <1>e, <1>f
      <3>7. Fresh(i)'
        BY <1>c, <2>2, <2>3, <3>5, <3>6 DEF Fresh, Alone
      <3>8. Passed(i)'
        BY <1>c, <2>1, <2>2, <2>3, <3>5, <3>6 DEF Passed
      <3> QED
        BY <3>7, <3>8
    <2>6. CASE ~ (Len(Queue) >= take.want)
      <3>1. ready' = Queue /\ auths' = auths
        BY <1>11, <2>6 DEF Probe, Queue, Free
      <3>2. take'.pc # "mark" /\ take'.allocated = <<>>
        <4> DEFINE need == Smaller(CollisionBatch, MaxCandidates - take.tested)
        <4>1. \/ take' = NoTake
              \/ take' = [take EXCEPT !.pc = "reserve", !.allocated = <<>>, !.need = need]
          BY <1>11, <2>6 DEF Probe, Queue, Free
        <4> HIDE DEF need
        <4> QED
          BY <1>a, <1>f, <4>1 DEF WalletTypeOK, Takes
      <3>3. Authorising(i)' = Authorising(i) /\ Readied(i)' = InQueue(i) /\ Listed(i)' = {}
        BY <3>1, <3>2, <1>e DEF Authorising, Readied, InQueue
      <3>4. Fresh(i)'
        BY <1>c, <2>2, <2>3, <3>3 DEF Fresh, Alone
      <3>5. Passed(i)'
        BY <1>c, <2>1, <2>2, <2>3, <3>3 DEF Passed
      <3> QED
        BY <3>4, <3>5
    <2> QED
      BY <2>5, <2>6
  <1>12. ASSUME NEW handles \in SUBSET auths, Assemble(handles) PROVE Fresh(i)' /\ Passed(i)'
    <2> DEFINE sent == [indices |-> {a.index : a \in handles}, version |-> history]
    <2>1. UNCHANGED <<store, chain, take, ready, lost>> /\ auths' = auths \ handles
          /\ flight' = flight \cup {sent}
      BY <1>12 DEF Assemble, Consumed
    <2>2. Chained(i)' = Chained(i) /\ Readied(i)' = Readied(i) /\ Listed(i)' = Listed(i)
          /\ Authorising(i)' \subseteq Authorising(i)
      BY <2>1 DEF Chained, Readied, Listed, Allocated, Authorising
    <2>3. sent.indices = {a.index : a \in handles}
      OBVIOUS
    <2> HIDE DEF sent
    <2>4. CASE i \notin sent.indices
      <3>1. Carrying(i)' = Carrying(i)
        BY <2>1, <2>4 DEF Carrying
      <3> QED
        BY <1>a, <1>c, <2>1, <2>2, <3>1, NothingMoved
    <2>5. CASE i \in sent.indices
      <3>1. PICK a \in handles : a.index = i
        BY <2>3, <2>5
      <3>2. a \in Authorising(i)
        BY <3>1 DEF Authorising
      <3>3. Carrying(i) = {} /\ Chained(i) = {} /\ Readied(i) = {} /\ Listed(i) = {} /\ i < store
        BY <1>c, <3>2 DEF Fresh, Passed
      <3>4. Authorising(i)' = {}
        <4>1. Authorising(i) = {a}
          BY <1>c, <3>2 DEF Fresh, Alone
        <4> QED
          BY <2>1, <3>1, <4>1 DEF Authorising
      <3>5. \A u \in Carrying(i)' : u = sent
        BY <2>1, <3>3 DEF Carrying
      <3> QED
        BY <2>1, <2>2, <3>3, <3>4, <3>5 DEF Fresh, Passed, Alone
    <2> QED
      BY <2>4, <2>5
  <1>13. ASSUME NEW t \in flight, Land(t) PROVE Fresh(i)' /\ Passed(i)'
    <2> DEFINE S == {Note("self", j, version) : j \in t.indices}
               landed == SetToSeq(S)
    <2>1. UNCHANGED <<store, auths, take, ready, lost>> /\ flight' = flight \ {t}
          /\ chain' = chain \o landed
      BY <1>13 DEF Land
    <2>2. Authorising(i)' = Authorising(i) /\ Readied(i)' = Readied(i) /\ Listed(i)' = Listed(i)
      BY <2>1 DEF Readied, Listed, Allocated, Authorising
    <2>3. /\ chain \in Seq(Notes) /\ landed \in Seq(Notes) /\ landed \in Seq(S)
          /\ \A j, k \in 1 .. Len(landed) : landed[j] = landed[k] => j = k
      BY <1>a, LandedType, SetToSeqParts DEF WalletTypeOK
    <2>4. \A x \in S : x.index \in t.indices /\ x = Note("self", x.index, version)
      BY DEF Note
    <2> HIDE DEF S, landed
    <2>5. \A k \in 1 .. Len(landed) : landed[k] \in S
      BY <2>3
    <2>6. ASSUME NEW p \in Chained(i)'
          PROVE  /\ p \in Int /\ Len(chain) \in Nat
                 /\ \/ p \in Chained(i)
                    \/ /\ p - Len(chain) \in 1 .. Len(landed)
                       /\ landed[p - Len(chain)] = Note("self", i, version)
                       /\ i \in t.indices
      <3>1. p \in 1 .. Len(chain) + Len(landed) /\ chain'[p].family = "self" /\ chain'[p].index = i
        BY <2>1, <2>3, Appended DEF Chained
      <3>2. Len(chain) \in Nat /\ p \in Int
        BY <2>3, <3>1
      <3>3. CASE p \in 1 .. Len(chain)
        BY <2>1, <2>3, <3>1, <3>2, <3>3, Appended DEF Chained
      <3>4. CASE p \notin 1 .. Len(chain)
        <4>1. p - Len(chain) \in 1 .. Len(landed) /\ chain'[p] = landed[p - Len(chain)]
          BY <2>1, <2>3, <3>1, <3>4, Appended
        <4> QED
          BY <2>4, <2>5, <3>1, <3>2, <4>1
      <3> QED
        BY <3>3, <3>4
    <2>7. CASE i \notin t.indices
      <3>1. Carrying(i)' = Carrying(i)
        BY <2>1, <2>7 DEF Carrying
      <3>2. Chained(i) \subseteq Chained(i)'
        BY <2>1, <2>3, Appended DEF Chained
      <3>3. Chained(i)' = Chained(i)
        BY <2>6, <2>7, <3>2
      <3> QED
        BY <1>a, <1>c, <2>1, <2>2, <3>1, <3>3, NothingMoved
    <2>8. CASE i \in t.indices
      <3>1. t \in Carrying(i)
        BY <2>8 DEF Carrying
      <3>2. Chained(i) = {} /\ Authorising(i) = {} /\ Readied(i) = {} /\ Listed(i) = {} /\ i < store
        BY <1>c, <3>1 DEF Fresh, Passed
      <3>3. Carrying(i)' = {}
        <4>1. Carrying(i) = {t}
          BY <1>c, <3>1 DEF Fresh, Alone
        <4> QED
          BY <2>1, <4>1 DEF Carrying
      <3>4. Alone(Chained(i)')
        <4> SUFFICES ASSUME NEW p \in Chained(i)', NEW q \in Chained(i)' PROVE p = q
          BY DEF Alone
        <4>1. p - Len(chain) = q - Len(chain)
          BY <2>3, <2>6, <3>2
        <4> QED
          BY <2>6, <4>1
      <3> QED
        BY <2>1, <2>2, <3>2, <3>3, <3>4 DEF Fresh, Passed, Alone
    <2> QED
      BY <2>7, <2>8
  <1>14. ASSUME NEW j \in issued, Pay(j) PROVE Fresh(i)' /\ Passed(i)'
    <2>1. UNCHANGED <<store, flight, auths, take, ready, lost>>
          /\ chain' = Append(chain, Note("incoming", j, version))
      BY <1>14 DEF Pay
    <2>2. Authorising(i)' = Authorising(i) /\ Readied(i)' = Readied(i) /\ Listed(i)' = Listed(i)
          /\ Carrying(i)' = Carrying(i)
      BY <2>1 DEF Readied, Listed, Allocated, Authorising, Carrying
    <2>3. chain \in Seq(Notes) /\ Note("incoming", j, version).family # "self"
      BY <1>a DEF WalletTypeOK, Note
    <2>4. /\ DOMAIN chain = 1 .. Len(chain) /\ DOMAIN chain' = 1 .. Len(chain) + 1 /\ Len(chain) \in Nat
          /\ \A p \in 1 .. Len(chain) : chain'[p] = chain[p]
          /\ chain'[Len(chain) + 1].family # "self"
      BY <2>1, <2>3
    <2>5. Chained(i)' = Chained(i)
      BY <2>4 DEF Chained
    <2> QED
      BY <1>a, <1>c, <2>1, <2>2, <2>5, NothingMoved
  <1> QED
    BY <1>1, <1>2, <1>3, <1>4, <1>5, <1>6, <1>7, <1>8, <1>9, <1>10, <1>11, <1>12, <1>13,
       <1>14 DEF Next

-----------------------------------------------------------------------------
(* The theorem                                                             *)

LEMMA WalletInvariant == Spec => []WalletInv
  <1>1. Init => WalletInv
    <2> SUFFICES ASSUME Init PROVE WalletInv
      OBVIOUS
    <2>1. WalletTypeOK
      BY WalletInitType
    <2>2. Sessions
      BY NoTakeType DEF Init, Sessions
    <2>3. KeysKnown
      BY DEF Init, KeysKnown, OwnVersions, NoTake
    <2>4. ASSUME NEW i \in Indices PROVE Fresh(i) /\ Passed(i)
      <3>1. /\ Chained(i) = {} /\ Carrying(i) = {} /\ Authorising(i) = {} /\ Readied(i) = {}
            /\ Listed(i) = {}
        BY DEF Init, Chained, Carrying, Authorising, Readied, Listed, Allocated, NoTake
      <3> QED
        BY <3>1 DEF Fresh, Passed, Alone
    <2> QED
      BY <2>1, <2>2, <2>3, <2>4 DEF WalletInv, IndicesApart
  <1>2. WalletInv /\ [Next]_vars => WalletInv'
    <2> SUFFICES ASSUME WalletInv, [Next]_vars PROVE WalletInv'
      OBVIOUS
    <2>1. WalletTypeOK'
      BY WalletTypeStep DEF WalletInv
    <2>2. Sessions' /\ KeysKnown'
      BY SessionsStep, KeysKnownStep DEF WalletInv
    <2>3. IndicesApart'
      BY <2>1, IndicesApartStep
    <2> QED
      BY <2>1, <2>2, <2>3 DEF WalletInv
  <1> QED
    BY <1>1, <1>2, PTL DEF Spec

\* "An index is never handed out twice" (EphemeralCounterStore), for every number of
\* indices, windows, notes, transactions and rotations: as long as the durable counter
\* is kept, an index is in one place on its way to the chain whatever crashes, restores,
\* rejected writes and scans lie between; and after the counter is lost, preflight still
\* lets no two notes share an index that was not under way at the loss.  It is a
\* theorem of the SDK's wallet and of the claim page's: a group's counter is not durable.
THEOREM WalletIndexNeverReused == Spec => []IndexNeverReused
  <1>1. WalletInv => IndexNeverReused
    <2> SUFFICES ASSUME WalletInv, "group" \notin world, NEW i \in Indices
                 PROVE  /\ ~lost => Cardinality(InUse(i)) <= 1
                        /\ i \notin risk => Cardinality(Chained(i)) <= 1
      BY DEF IndexNeverReused, Chained
    <2>1. ~lost => i \notin risk
      BY DEF WalletInv, Sessions
    <2>2. i \notin risk => Fresh(i)
      BY DEF WalletInv, IndicesApart
    <2>3. ASSUME ~lost PROVE Cardinality(InUse(i)) <= 1
      <3>1. Fresh(i)
        BY <2>1, <2>2, <2>3
      <3>2. InUse(i) = {<<"chain", p>> : p \in Chained(i)} \cup {<<"sent", t>> : t \in Carrying(i)}
                       \cup {<<"authorised", a>> : a \in Authorising(i)}
                       \cup {<<"ready", j>> : j \in Readied(i)}
                       \cup {<<"allocated", j>> : j \in Listed(i)}
        BY DEF InUse, Chained, Carrying, Authorising, Readied, Listed
      <3>3. ASSUME NEW x \in InUse(i), NEW y \in InUse(i) PROVE x = y
        BY <2>3, <3>1, <3>2 DEF Fresh, Alone
      <3> QED
        BY <3>3, AtMostOne
    <2>4. ASSUME i \notin risk PROVE Cardinality(Chained(i)) <= 1
      BY <2>2, <2>4, AtMostOne DEF Fresh, Alone
    <2> QED
      BY <2>3, <2>4
  <1> QED
    BY <1>1, WalletInvariant, PTL

-----------------------------------------------------------------------------
(* Scans: what the repository has registered, and what a scan has found.    *)

KeyRepos == [mint : Nat, issue : Nat, next : [Families -> Nat],
             matched : [Families -> -1 .. MaxIndex - 1], tags : [Families -> SUBSET Indices]]
KeyRepoStates == [mint : Nat, issue : Nat, next : [Families -> Nat],
                  matched : [Families -> -1 .. MaxIndex - 1]]
Scans == [pc : {"idle", "first", "fetch", "pass", "look", "done"}, window : Nat, pass : Nat,
          advanced : BOOLEAN, upto : Nat, known : Nat \X Nat]

\* The repository, what is saved of it, and the scan; a session that is over has none.
ScanTypeOK ==
    /\ repo \in KeyRepos /\ saved \in KeyRepoStates
    /\ scan \in Scans /\ scan.upto <= Len(chain)
    /\ client = "off" => scan = NoScan /\ repo = EmptyRepo

\* No key of family f below its scan index is missing in r.
Whole(r, f) == \A i \in Indices \ OddY[f] : i < r.next[f] => i \in r.tags[f]

LEMMA EmptyRepoWhole ==
    /\ EmptyRepo \in KeyRepos /\ EmptyRepo.mint = 0 /\ EmptyRepo.issue = 0
    /\ \A f \in Families : EmptyRepo.next[f] = 0 /\ Whole(EmptyRepo, f)
  <1>1. /\ EmptyRepo.mint = 0 /\ EmptyRepo.issue = 0
        /\ EmptyRepo.next = [f \in Families |-> 0]
        /\ EmptyRepo.matched = [f \in Families |-> -1]
        /\ EmptyRepo.tags = [f \in Families |-> {}]
    BY DEF EmptyRepo
  <1>2. -1 \in -1 .. MaxIndex - 1
    BY WalletAssumption
  <1>3. EmptyRepo \in KeyRepos
    BY <1>2 DEF EmptyRepo, KeyRepos
  <1>4. \A f \in Families : EmptyRepo.next[f] = 0
    BY <1>1
  <1>5. \A i \in Indices : ~ (i < 0)
    BY WalletAssumption DEF Indices
  <1> QED
    BY <1>1, <1>3, <1>4, <1>5 DEF Whole

\* Registering further leaves nothing out and forgets nothing.
LEMMA RegisterFacts ==
    ASSUME NEW r \in KeyRepos, NEW f \in Families, NEW target \in Int,
           NEW q, q = RegisterTo(r, f, target)
    PROVE  /\ q \in KeyRepos /\ q.mint = r.mint /\ q.issue = r.issue /\ q.matched = r.matched
           /\ \A g \in Families : r.next[g] <= q.next[g] /\ r.tags[g] \subseteq q.tags[g]
           /\ target <= q.next[f]
           /\ \A g \in Families : Whole(r, g) => Whole(q, g)
  <1> DEFINE n == Larger(r.next[f], target)
             new == {i \in Indices \ OddY[f] : r.next[f] <= i /\ i < target}
             t == r.tags[f] \cup new
  <1>1. r.next[f] \in Nat /\ r.tags[f] \subseteq Indices /\ r.next \in [Families -> Nat]
        /\ r.tags \in [Families -> SUBSET Indices]
    BY DEF KeyRepos
  <1>2. n \in Nat /\ r.next[f] <= n /\ target <= n /\ (n = r.next[f] \/ n = target)
    BY <1>1 DEF Larger
  <1>3. t \subseteq Indices /\ new \subseteq t /\ r.tags[f] \subseteq t
    BY <1>1
  <1>4. \A i \in Indices \ OddY[f] : i < n => i < r.next[f] \/ i \in new
    BY <1>1, <1>2 DEF Indices
  <1>5. q = [r EXCEPT !.next = [r.next EXCEPT ![f] = n], !.tags = [r.tags EXCEPT ![f] = t]]
    BY DEF RegisterTo, KeyRepos
  <1> HIDE DEF n, new, t
  <1>6. [r.next EXCEPT ![f] = n] \in [Families -> Nat] /\ [r.tags EXCEPT ![f] = t] \in [Families -> SUBSET Indices]
    BY <1>1, <1>2, <1>3
  <1>7. /\ q \in KeyRepos /\ q.mint = r.mint /\ q.issue = r.issue /\ q.matched = r.matched
        /\ q.next = [r.next EXCEPT ![f] = n] /\ q.tags = [r.tags EXCEPT ![f] = t]
    BY <1>5, <1>6 DEF KeyRepos
  <1>8. /\ q.next[f] = n /\ q.tags[f] = t
        /\ \A g \in Families : g # f => q.next[g] = r.next[g] /\ q.tags[g] = r.tags[g]
    BY <1>1, <1>7
  <1>9. \A g \in Families : r.next[g] <= q.next[g] /\ r.tags[g] \subseteq q.tags[g]
    <2> TAKE g \in Families
    <2>1. r.next[g] \in Nat
      BY <1>1
    <2> QED
      BY <1>2, <1>3, <1>8, <2>1
  <1>10. ASSUME NEW g \in Families, Whole(r, g) PROVE Whole(q, g)
    <2>1. CASE g = f
      BY <1>3, <1>4, <1>8, <1>10, <2>1 DEF Whole
    <2>2. CASE g # f
      BY <1>8, <1>10, <2>2 DEF Whole
    <2> QED
      BY <2>1, <2>2
  <1> QED
    BY <1>2, <1>7, <1>8, <1>9, <1>10

LEMMA TagFacts ==
    ASSUME NEW r \in KeyRepos, NEW i \in Indices
    PROVE  LET m == TagMinted(r, i)
               s == TagIssued(r, i)
           IN  /\ m \in KeyRepos /\ m.issue = r.issue /\ m.matched = r.matched
               /\ m.mint = Larger(r.mint, i + 1)
               /\ m.next["self"] = Larger(r.next["self"], i + 1) /\ m.tags["self"] = r.tags["self"] \cup {i}
               /\ m.next["incoming"] = r.next["incoming"] /\ m.tags["incoming"] = r.tags["incoming"]
               /\ s \in KeyRepos /\ s.mint = r.mint /\ s.matched = r.matched
               /\ s.issue = i + 1
               /\ s.next["incoming"] = Larger(r.next["incoming"], i + 1)
               /\ s.tags["incoming"] = r.tags["incoming"] \cup {i}
               /\ s.next["self"] = r.next["self"] /\ s.tags["self"] = r.tags["self"]
  <1> DEFINE c == Larger(r.mint, i + 1)
             n(f) == [r.next EXCEPT ![f] = Larger(r.next[f], i + 1)]
             t(f) == [r.tags EXCEPT ![f] = r.tags[f] \cup {i}]
  <1>1. i \in Nat /\ r.mint \in Nat /\ r.next \in [Families -> Nat] /\ r.tags \in [Families -> SUBSET Indices]
    BY WalletAssumption DEF KeyRepos, Indices
  <1>2. c \in Nat
    BY <1>1 DEF Larger
  <1>3. \A f \in Families : n(f) \in [Families -> Nat] /\ t(f) \in [Families -> SUBSET Indices]
    <2> TAKE f \in Families
    <2>1. Larger(r.next[f], i + 1) \in Nat /\ r.tags[f] \cup {i} \subseteq Indices
      BY <1>1 DEF Larger
    <2> QED
      BY <1>1, <2>1
  <1>4. "self" \in Families /\ "incoming" \in Families
    BY DEF Families
  <1>5. /\ n("self")["self"] = Larger(r.next["self"], i + 1) /\ n("self")["incoming"] = r.next["incoming"]
        /\ t("self")["self"] = r.tags["self"] \cup {i} /\ t("self")["incoming"] = r.tags["incoming"]
        /\ n("incoming")["incoming"] = Larger(r.next["incoming"], i + 1) /\ n("incoming")["self"] = r.next["self"]
        /\ t("incoming")["incoming"] = r.tags["incoming"] \cup {i} /\ t("incoming")["self"] = r.tags["self"]
    BY <1>1, <1>4
  <1>6. /\ TagMinted(r, i) = [r EXCEPT !.mint = c, !.tags = t("self"), !.next = n("self")]
        /\ TagIssued(r, i) = [r EXCEPT !.issue = i + 1, !.tags = t("incoming"), !.next = n("incoming")]
    BY DEF TagMinted, TagIssued, KeyRepos
  <1>7. i + 1 \in Nat /\ n("self") \in [Families -> Nat] /\ t("self") \in [Families -> SUBSET Indices]
        /\ n("incoming") \in [Families -> Nat] /\ t("incoming") \in [Families -> SUBSET Indices]
    BY <1>1, <1>3, <1>4
  <1> DEFINE ns == n("self") ts == t("self") ni == n("incoming") ti == t("incoming") one == i + 1
  <1> HIDE DEF ns, ts, ni, ti, one, c
  <1>8. /\ TagMinted(r, i) = [r EXCEPT !.mint = c, !.tags = ts, !.next = ns]
        /\ TagIssued(r, i) = [r EXCEPT !.issue = one, !.tags = ti, !.next = ni]
    BY <1>6 DEF ns, ts, ni, ti, one
  <1>9. /\ TagMinted(r, i) \in KeyRepos /\ TagMinted(r, i).issue = r.issue
        /\ TagMinted(r, i).matched = r.matched /\ TagMinted(r, i).mint = c
        /\ TagMinted(r, i).next = ns /\ TagMinted(r, i).tags = ts
    <2>1. c \in Nat /\ ts \in [Families -> SUBSET Indices] /\ ns \in [Families -> Nat]
      BY <1>2, <1>7 DEF ts, ns
    <2> QED
      BY <1>8, <2>1 DEF KeyRepos
  <1>10. /\ TagIssued(r, i) \in KeyRepos /\ TagIssued(r, i).mint = r.mint
         /\ TagIssued(r, i).matched = r.matched /\ TagIssued(r, i).issue = one
         /\ TagIssued(r, i).next = ni /\ TagIssued(r, i).tags = ti
    <2>1. one \in Nat /\ ti \in [Families -> SUBSET Indices] /\ ni \in [Families -> Nat]
      BY <1>7 DEF ti, ni, one
    <2> QED
      BY <1>8, <2>1 DEF KeyRepos
  <1> QED
    BY <1>5, <1>9, <1>10 DEF ns, ts, ni, ti, one, c

\* What restore knows: every key below the counters and the window.
LEMMA RestoredFacts ==
    ASSUME WalletTypeOK, ScanTypeOK, NEW q, q = Restored(saved)
    PROVE  /\ q \in KeyRepos /\ q.mint = RestoredMint(saved) /\ q.issue = saved.issue
           /\ \A f \in Families : Whole(q, f)
           /\ q.mint <= q.next["self"] /\ q.issue <= q.next["incoming"]
  <1> DEFINE mint == RestoredMint(saved)
             r0 == [EmptyRepo EXCEPT !.mint = mint, !.issue = saved.issue, !.matched = saved.matched]
             a1 == Larger(saved.next["self"], mint + Window)
             r1 == RegisterTo(r0, "self", a1)
             a2 == Larger(saved.next["incoming"], saved.issue)
             r2 == RegisterTo(r1, "incoming", a2)
             a3 == LookaheadTarget(r2, "self", Window)
             r3 == RegisterTo(r2, "self", a3)
             a4 == LookaheadTarget(r3, "incoming", Window)
  <1>0. "self" \in Families /\ "incoming" \in Families /\ Window \in Nat
    BY WalletAssumption DEF Families
  <1>1. mint \in Nat
    BY RestoredCounts
  <1>2. /\ saved.issue \in Nat /\ saved.next["self"] \in Nat /\ saved.next["incoming"] \in Nat
        /\ saved.matched \in [Families -> -1 .. MaxIndex - 1]
    BY <1>0 DEF ScanTypeOK, KeyRepoStates
  <1>3. q = RegisterTo(r3, "incoming", a4)
    BY DEF Restored
  <1> HIDE DEF mint
  <1>4. a1 \in Int /\ mint <= a1 /\ a2 \in Int /\ saved.issue <= a2
    BY <1>0, <1>1, <1>2 DEF Larger
  <1>5. /\ r0 \in KeyRepos /\ r0.mint = mint /\ r0.issue = saved.issue
        /\ \A f \in Families : Whole(r0, f)
    <2>1. /\ r0 \in KeyRepos /\ r0.mint = mint /\ r0.issue = saved.issue
          /\ r0.next = EmptyRepo.next /\ r0.tags = EmptyRepo.tags
      BY <1>1, <1>2, EmptyRepoWhole DEF KeyRepos
    <2> HIDE DEF r0
    <2> QED
      BY <2>1, EmptyRepoWhole DEF Whole
  <1> HIDE DEF r0, a1, a2
  <1>6. /\ r1 \in KeyRepos /\ r1.mint = mint /\ r1.issue = saved.issue /\ a1 <= r1.next["self"]
        /\ \A f \in Families : Whole(r1, f)
    BY <1>0, <1>4, <1>5, RegisterFacts
  <1> HIDE DEF r1
  <1>7. /\ r2 \in KeyRepos /\ r2.mint = mint /\ r2.issue = saved.issue /\ a2 <= r2.next["incoming"]
        /\ r1.next["self"] <= r2.next["self"]
        /\ \A f \in Families : Whole(r2, f)
    BY <1>0, <1>4, <1>6, RegisterFacts
  <1> HIDE DEF r2
  <1>8. ASSUME NEW r \in KeyRepos, NEW f \in Families PROVE LookaheadTarget(r, f, Window) \in Int
    <2>1. r.next[f] \in Nat /\ r.matched[f] \in Int
      BY WalletAssumption DEF KeyRepos
    <2> QED
      BY <1>0, <2>1 DEF LookaheadTarget, Larger
  <1>9. a3 \in Int
    BY <1>0, <1>7, <1>8
  <1> HIDE DEF a3
  <1>10. /\ r3 \in KeyRepos /\ r3.mint = mint /\ r3.issue = saved.issue
         /\ r2.next["self"] <= r3.next["self"] /\ r2.next["incoming"] <= r3.next["incoming"]
         /\ \A f \in Families : Whole(r3, f)
    BY <1>0, <1>7, <1>9, RegisterFacts
  <1> HIDE DEF r3
  <1>11. a4 \in Int
    BY <1>0, <1>8, <1>10
  <1> HIDE DEF a4
  <1>12. /\ q \in KeyRepos /\ q.mint = mint /\ q.issue = saved.issue
         /\ r3.next["self"] <= q.next["self"] /\ r3.next["incoming"] <= q.next["incoming"]
         /\ \A f \in Families : Whole(q, f)
    BY <1>0, <1>3, <1>10, <1>11, RegisterFacts
  <1>13. \A r \in KeyRepos : r.next["self"] \in Nat /\ r.next["incoming"] \in Nat
    BY <1>0 DEF KeyRepos
  <1>14. mint <= q.next["self"] /\ saved.issue <= q.next["incoming"]
    <2>1. /\ r1.next["self"] \in Nat /\ r2.next["self"] \in Nat /\ r3.next["self"] \in Nat /\ q.next["self"] \in Nat
          /\ r2.next["incoming"] \in Nat /\ r3.next["incoming"] \in Nat /\ q.next["incoming"] \in Nat
      BY <1>6, <1>7, <1>10, <1>12, <1>13
    <2> QED
      BY <1>1, <1>2, <1>4, <1>6, <1>7, <1>10, <1>12, <2>1
  <1> QED
    BY <1>12, <1>14 DEF mint

LEMMA NewScannerFacts ==
    /\ NewScanner \in KeyRepos /\ NewScanner.mint = 0 /\ NewScanner.issue = 0
    /\ \A f \in Families : Whole(NewScanner, f)
  <1> DEFINE r == RegisterTo(EmptyRepo, "self", Window)
  <1>0. "self" \in Families /\ "incoming" \in Families /\ Window \in Int
    BY WalletAssumption DEF Families
  <1>1. r \in KeyRepos /\ r.mint = 0 /\ r.issue = 0 /\ \A f \in Families : Whole(r, f)
    BY <1>0, EmptyRepoWhole, RegisterFacts
  <1>2. NewScanner = RegisterTo(r, "incoming", Window)
    BY DEF NewScanner
  <1> HIDE DEF r
  <1> QED
    BY <1>0, <1>1, <1>2, RegisterFacts

\* One pass of a scan: every tag it meets counts, what opens is found.
LEMMA PassFacts ==
    ASSUME WalletTypeOK, ScanTypeOK, ScanPass
    PROVE  /\ repo' \in KeyRepos /\ repo'.mint = repo.mint /\ repo'.issue = repo.issue
           /\ repo'.next = repo.next /\ repo'.tags = repo.tags
           /\ \A f \in Families : repo.matched[f] <= repo'.matched[f]
           /\ \A p \in 1 .. scan.upto : chain[p].index \in repo.tags[chain[p].family] =>
                /\ chain[p].index <= repo'.matched[chain[p].family]
                /\ Opens(p) => p \in utxos'
  <1> DEFINE S(f) == {repo.matched[f]} \cup {chain[p].index : p \in Hits(f)}
             m == [f \in Families |-> Max(S(f))]
             found == {p \in UNION {Hits(f) : f \in Families} : Opens(p)}
  <1>1. \A p \in 1 .. scan.upto : chain[p] \in Notes
    <2>1. scan.upto \in Nat /\ scan.upto <= Len(chain) /\ chain \in Seq(Notes)
      BY DEF WalletTypeOK, ScanTypeOK, Scans
    <2> QED
      BY <2>1
  <1>2. repo.matched \in [Families -> -1 .. MaxIndex - 1]
    BY DEF ScanTypeOK, KeyRepos
  <1>3. ASSUME NEW f \in Families
        PROVE  /\ Max(S(f)) \in -1 .. MaxIndex - 1
               /\ \A x \in S(f) : x <= Max(S(f))
    <2>1. S(f) \subseteq -1 .. MaxIndex - 1
      BY <1>1, <1>2, WalletAssumption DEF Hits, Notes, Indices
    <2>2. S(f) # {}
      OBVIOUS
    <2> HIDE DEF S
    <2>3. S(f) \in SUBSET Int /\ MaxIndex \in Int /\ \A x \in S(f) : x <= MaxIndex
      BY <2>1, WalletAssumption
    <2>4. Max(S(f)) \in S(f) /\ \A y \in S(f) : y <= Max(S(f))
      BY <2>2, <2>3, LargestIndex
    <2> QED
      BY <2>1, <2>4
  <1>4. repo' = [repo EXCEPT !.matched = m] /\ found \subseteq utxos'
    BY DEF ScanPass
  <1>5. m \in [Families -> -1 .. MaxIndex - 1]
    BY <1>3
  <1>6. \A f \in Families : m[f] = Max(S(f))
    OBVIOUS
  <1> HIDE DEF m
  <1>7. /\ repo' \in KeyRepos /\ repo'.mint = repo.mint /\ repo'.issue = repo.issue
        /\ repo'.next = repo.next /\ repo'.tags = repo.tags /\ repo'.matched = m
    BY <1>4, <1>5 DEF ScanTypeOK, KeyRepos
  <1>8. \A f \in Families : repo.matched[f] <= repo'.matched[f]
    BY <1>3, <1>6, <1>7
  <1>9. ASSUME NEW p \in 1 .. scan.upto, chain[p].index \in repo.tags[chain[p].family]
        PROVE  /\ chain[p].index <= repo'.matched[chain[p].family]
               /\ Opens(p) => p \in utxos'
    <2> DEFINE f == chain[p].family
    <2>1. f \in Families
      BY <1>1 DEF Notes
    <2>2. p \in Hits(f)
      BY <1>9 DEF Hits
    <2>3. chain[p].index \in S(f)
      BY <2>2
    <2>4. p \in UNION {Hits(g) : g \in Families}
      BY <2>1, <2>2
    <2> HIDE DEF f
    <2>5. chain[p].index <= repo'.matched[f]
      BY <1>3, <1>6, <1>7, <2>1, <2>3
    <2> QED
      BY <1>4, <2>4, <2>5 DEF f
  <1> QED
    BY <1>7, <1>8, <1>9

LEMMA NoScanType == NoScan \in Scans /\ NoScan.pc = "idle" /\ NoScan.upto = 0 /\ NoScan.known = <<0, 0>>
  BY DEF NoScan, Scans

\* Only Land and Pay change the chain, at its end.
LEMMA ChainGrows ==
    ASSUME WalletTypeOK, [Next]_vars
    PROVE  /\ Len(chain) \in Nat /\ Len(chain') \in Nat /\ Len(chain) <= Len(chain')
           /\ \A p \in 1 .. Len(chain) : chain'[p] = chain[p]
  <1> USE DEF chainVars, mintVars, ghosts
  <1>0. chain \in Seq(Notes) /\ Len(chain) \in Nat
    BY DEF WalletTypeOK
  <1>1. CASE chain' = chain
    BY <1>0, <1>1
  <1>2. ASSUME NEW t \in flight, Land(t)
        PROVE  Len(chain') \in Nat /\ Len(chain) <= Len(chain') /\ \A p \in 1 .. Len(chain) : chain'[p] = chain[p]
    <2> DEFINE landed == SetToSeq({Note("self", i, version) : i \in t.indices})
    <2>1. landed \in Seq(Notes) /\ chain' = chain \o landed
      BY <1>2, LandedType DEF Land
    <2> HIDE DEF landed
    <2> QED
      BY <1>0, <2>1
  <1>3. ASSUME NEW i \in issued, Pay(i)
        PROVE  Len(chain') \in Nat /\ Len(chain) <= Len(chain') /\ \A p \in 1 .. Len(chain) : chain'[p] = chain[p]
    <2>1. Note("incoming", i, version) \in Notes
      BY DEF Note, Notes, Families, WalletTypeOK
    <2> QED
      BY <1>0, <1>3, <2>1 DEF Pay
  <1>4. \/ chain' = chain
        \/ \E t \in flight : Land(t)
        \/ \E i \in issued : Pay(i)
    BY DEF Next, vars, StartPage, StartSdk, Save, Crash, LoseStore, Refresh, Reserve, ReserveFails, MarkDerived,
           MarkDirect, MintDirect, Take, Probe, ProbeFails, Assemble, Reconcile, Rotate, NextIncomingAddress,
           ScanStart, Look, LookDone, Fetch, ScanPass
  <1> QED
    BY <1>0, <1>1, <1>2, <1>3, <1>4

\* The address NextIncomingAddress hands out: the least even index from the counter on.
LEMMA AddressFacts ==
    ASSUME NextIncomingAddress, ScanTypeOK
    PROVE  \E i \in Indices \ OddY["incoming"] :
               /\ repo' = TagIssued(repo, i) /\ issued' = issued \cup {i} /\ repo.issue <= i
               /\ \A j \in Indices \ OddY["incoming"] : repo.issue <= j => i <= j
  <1> DEFINE S == NextIncoming(repo)
  <1>1. S \in SUBSET Nat /\ S # {}
    BY WalletAssumption DEF NextIncomingAddress, NextIncoming, Indices
  <1>2. Min(S) \in S /\ \A y \in S : Min(S) <= y
    BY <1>1, LeastIndex
  <1>3. repo' = TagIssued(repo, Min(S)) /\ issued' = issued \cup {Min(S)}
    BY DEF NextIncomingAddress
  <1>4. repo.issue \in Nat
    BY DEF ScanTypeOK, KeyRepos
  <1>5. \A j \in Indices \ OddY["incoming"] : repo.issue <= j => j \in S
    BY <1>4, WalletAssumption DEF NextIncoming, Indices
  <1>6. Min(S) \in Indices \ OddY["incoming"] /\ repo.issue <= Min(S)
    BY <1>1, <1>2, <1>4 DEF NextIncoming
  <1> HIDE DEF S
  <1> QED
    BY <1>2, <1>3, <1>5, <1>6

\* The lookahead of one family.
LEMMA LookFacts ==
    ASSUME ScanTypeOK, Look
    PROVE  /\ Family \in Families /\ repo' \in KeyRepos
           /\ repo'.mint = repo.mint /\ repo'.issue = repo.issue /\ repo'.matched = repo.matched
           /\ \A g \in Families : /\ repo.next[g] <= repo'.next[g] /\ repo.tags[g] \subseteq repo'.tags[g]
                                  /\ Whole(repo, g) => Whole(repo', g)
  <1>1. Family \in Families
    BY DEF Family, Families
  <1>2. repo \in KeyRepos /\ scan.window \in Nat
    BY DEF ScanTypeOK, Scans
  <1>3. LookaheadTarget(repo, Family, scan.window) \in Int
    <2>1. repo.next[Family] \in Nat /\ repo.matched[Family] \in Int
      BY <1>1, <1>2, WalletAssumption DEF KeyRepos
    <2> QED
      BY <1>2, <2>1 DEF LookaheadTarget, Larger
  <1>4. repo' = RegisterTo(repo, Family, LookaheadTarget(repo, Family, scan.window))
    BY DEF Look, Extended
  <1> DEFINE target == LookaheadTarget(repo, Family, scan.window)
             q == repo'
             r == repo
             f == Family
  <1>5. q = RegisterTo(r, f, target) /\ target \in Int /\ f \in Families /\ r \in KeyRepos
    BY <1>1, <1>2, <1>3, <1>4
  <1> HIDE DEF target, q, r, f
  <1>6. /\ q \in KeyRepos /\ q.mint = r.mint /\ q.issue = r.issue /\ q.matched = r.matched
        /\ \A g \in Families : r.next[g] <= q.next[g] /\ r.tags[g] \subseteq q.tags[g]
        /\ \A g \in Families : Whole(r, g) => Whole(q, g)
    BY <1>5, RegisterFacts
  <1> QED
    BY <1>1, <1>6 DEF q, r

LEMMA ScanTypeStep ==
    ASSUME WalletTypeOK, Sessions, ScanTypeOK, [Next]_vars PROVE ScanTypeOK'
  <1> USE DEF chainVars, mintVars, ghosts
  <1>a. /\ repo \in KeyRepos /\ saved \in KeyRepoStates /\ scan \in Scans /\ scan.upto \in Nat
        /\ scan.upto <= Len(chain)
    BY DEF ScanTypeOK, Scans
  <1>b. scan.upto <= Len(chain') /\ Len(chain) \in Nat /\ Len(chain') \in Nat
    BY <1>a, ChainGrows
  <1>c. (take.pc # "idle" => client # "off") /\ (scan.pc # "idle" => client # "off")
    BY NoTakeType, NoScanType DEF Sessions, ScanTypeOK
  <1>d. ASSUME UNCHANGED <<repo, saved, scan, client>> PROVE ScanTypeOK'
    BY <1>b, <1>d DEF ScanTypeOK
  <1>e. ASSUME UNCHANGED <<saved, scan, client>>, repo' \in KeyRepos, client # "off" PROVE ScanTypeOK'
    BY <1>b, <1>e DEF ScanTypeOK
  <1>1. CASE StartPage
    <2>1. repo' \in KeyRepos
      BY <1>1, NewScannerFacts, EmptyRepoWhole DEF StartPage
    <2> QED
      BY <1>1, <1>b, <2>1 DEF StartPage, ScanTypeOK
  <1>2. CASE StartSdk
    BY <1>2, <1>b, RestoredFacts DEF StartSdk, ScanTypeOK
  <1>3. CASE Save
    <2>1. KeyRepoState(repo) \in KeyRepoStates
      BY <1>a DEF KeyRepoState, KeyRepos, KeyRepoStates
    <2> QED
      BY <1>3, <1>b, <2>1 DEF Save, ScanTypeOK
  <1>4. CASE Crash
    BY <1>4, <1>a, <1>b, EmptyRepoWhole, NoScanType DEF Crash, ScanTypeOK
  <1>5. CASE Refresh
    BY <1>5, <1>a, <1>b, NoScanType DEF Refresh, ScanTypeOK
  <1>6. CASE \/ LoseStore \/ Reserve \/ ReserveFails \/ MintDirect \/ ProbeFails \/ Probe \/ Reconcile
             \/ Rotate \/ UNCHANGED vars
             \/ \E n \in 1 .. 2 : Take(n)
             \/ \E h \in SUBSET auths : Assemble(h)
             \/ \E t \in flight : Land(t)
             \/ \E i \in issued : Pay(i)
    BY <1>6, <1>d DEF LoseStore, Reserve, ReserveFails, MintDirect, ProbeFails, Probe, Reconcile, Rotate, vars,
                      Take, Assemble, Land, Pay
  <1>7. CASE MarkDerived \/ MarkDirect
    <2>1. take.index \in Indices /\ client # "off"
      BY <1>7, <1>c DEF MarkDerived, MarkDirect, WalletTypeOK
    <2>2. repo' \in KeyRepos
      BY <1>7, <1>a, <2>1, TagFacts DEF MarkDerived, MarkDirect
    <2> QED
      BY <1>7, <1>e, <2>1, <2>2 DEF MarkDerived, MarkDirect
  <1>8. CASE NextIncomingAddress
    <2>1. PICK i \in Indices : repo' = TagIssued(repo, i)
      BY <1>8, AddressFacts
    <2>2. repo' \in KeyRepos
      BY <1>a, <2>1, TagFacts
    <2> QED
      BY <1>8, <1>e, <2>2 DEF NextIncomingAddress
  <1>9. ASSUME NEW w \in {Window, Window + ExtraWindow}, ScanStart(w) PROVE ScanTypeOK'
    <2>1. w \in Nat /\ repo.mint \in Nat /\ repo.issue \in Nat
      BY <1>a, WalletAssumption DEF KeyRepos
    <2> DEFINE c == IF client = "group" THEN "fetch" ELSE "first"
               k == <<repo.mint, repo.issue>>
    <2>2. c \in {"fetch", "first"} /\ k \in Nat \X Nat
      BY <2>1
    <2>3. scan' = [NoScan EXCEPT !.pc = c, !.window = w, !.known = k]
      BY <1>9 DEF ScanStart
    <2> HIDE DEF c, k
    <2>4. scan' \in Scans /\ scan'.upto = 0
      BY <2>1, <2>2, <2>3, NoScanType DEF Scans
    <2>5. client # "off"
      BY <1>9, <1>c DEF ScanStart
    <2> QED
      BY <1>9, <1>b, <2>4, <2>5 DEF ScanStart, ScanTypeOK
  <1>10. CASE Look
    <2>1. client # "off" /\ repo' \in KeyRepos
      BY <1>10, <1>c, LookFacts DEF Look
    <2> DEFINE a == scan.advanced \/ Advances(Family)
    <2>2. scan' = [scan EXCEPT !.advanced = a] /\ a \in BOOLEAN
      BY <1>10 DEF Look
    <2> HIDE DEF a
    <2>3. scan' \in Scans /\ scan'.upto = scan.upto
      <3>1. CASE scan' = [scan EXCEPT !.advanced = TRUE]
        BY <1>a, <3>1 DEF Scans
      <3>2. CASE scan' = [scan EXCEPT !.advanced = FALSE]
        BY <1>a, <3>2 DEF Scans
      <3> QED
        BY <2>2, <3>1, <3>2
    <2> QED
      BY <1>10, <1>b, <2>1, <2>3 DEF Look, ScanTypeOK
  <1>11. CASE LookDone
    <2>1. client # "off"
      BY <1>11, <1>c DEF LookDone
    <2>2. \/ scan' = [scan EXCEPT !.pc = "fetch", !.advanced = FALSE]
          \/ scan' = [scan EXCEPT !.pc = "pass", !.advanced = FALSE]
          \/ scan' = [scan EXCEPT !.pc = "done", !.advanced = FALSE, !.pass = 0]
      BY <1>11 DEF LookDone
    <2>3. scan' \in Scans /\ scan'.upto = scan.upto
      <3>1. CASE scan' = [scan EXCEPT !.pc = "fetch", !.advanced = FALSE]
        BY <1>a, <3>1 DEF Scans
      <3>2. CASE scan' = [scan EXCEPT !.pc = "pass", !.advanced = FALSE]
        BY <1>a, <3>2 DEF Scans
      <3>3. CASE scan' = [scan EXCEPT !.pc = "done", !.advanced = FALSE, !.pass = 0]
        BY <1>a, <3>3 DEF Scans
      <3> QED
        BY <2>2, <3>1, <3>2, <3>3
    <2> QED
      BY <1>11, <1>b, <2>1, <2>3 DEF LookDone, ScanTypeOK
  <1>12. CASE Fetch
    <2>1. client # "off"
      BY <1>12, <1>c DEF Fetch
    <2> DEFINE n == Len(chain)
    <2>2. scan' = [scan EXCEPT !.pc = "pass", !.upto = n] /\ n \in Nat
      BY <1>12, <1>b DEF Fetch
    <2> HIDE DEF n
    <2>3. scan' \in Scans /\ scan'.upto = n
      BY <1>a, <2>2 DEF Scans
    <2>4. chain' = chain /\ n = Len(chain)
      BY <1>12 DEF Fetch, n
    <2> QED
      BY <1>12, <1>b, <2>1, <2>3, <2>4 DEF Fetch, ScanTypeOK
  <1>13. CASE ScanPass
    <2>1. client # "off" /\ repo' \in KeyRepos
      BY <1>13, <1>c, PassFacts DEF ScanPass
    <2> DEFINE n == scan.pass + 1
    <2>2. scan' = [scan EXCEPT !.pc = "look", !.pass = n] /\ n \in Nat
      BY <1>13, <1>a DEF ScanPass, Scans
    <2> HIDE DEF n
    <2>3. scan' \in Scans /\ scan'.upto = scan.upto
      BY <1>a, <2>2 DEF Scans
    <2> QED
      BY <1>13, <1>b, <2>1, <2>3 DEF ScanPass, ScanTypeOK
  <1> QED
    BY <1>1, <1>2, <1>3, <1>4, <1>5, <1>6, <1>7, <1>8, <1>9, <1>10, <1>11, <1>12, <1>13 DEF Next

\* Only indices of even points are handed out, so every note's tag can be registered.
Evens == Indices \ OddY["self"]
Even ==
    /\ ready \in Seq(Evens) /\ take.allocated \in Seq(Evens) /\ (take.pc = "mark" => take.index \in Evens)
    /\ \A a \in auths : a.index \in Evens
    /\ \A t \in flight : t.indices \subseteq Evens
    /\ \A p \in 1 .. Len(chain) : chain[p].index \notin OddY[chain[p].family]
    /\ issued \cap OddY["incoming"] = {}

LEMMA IssuedEven ==
    ASSUME NEW q \in Seq(Evens), NEW n \in 0 .. Len(q)
    PROVE  /\ \A a \in Issued(q, n) : a.index \in Evens
           /\ SubSeq(q, n + 1, Len(q)) \in Seq(Evens)
  <1>1. \A j \in 1 .. n : q[j] \in Evens
    OBVIOUS
  <1>2. SubSeq(q, n + 1, Len(q)) \in Seq(Evens)
    OBVIOUS
  <1> QED
    BY <1>1, <1>2 DEF Issued

LEMMA EvenStep == ASSUME WalletTypeOK, Even, [Next]_vars PROVE Even'
  <1> USE DEF chainVars, mintVars, ghosts
  <1>0. chain \in Seq(Notes) /\ Len(chain) \in Nat /\ <<>> \in Seq(Evens)
    BY DEF WalletTypeOK
  <1>a. ASSUME UNCHANGED <<ready, take, auths, flight, chain, issued>> PROVE Even'
    BY <1>a DEF Even
  <1>b. NoTake.allocated = <<>> /\ NoTake.pc = "idle"
    BY DEF NoTake
  <1>c. ASSUME UNCHANGED <<flight, chain, issued>>, ready' \in Seq(Evens), take'.allocated \in Seq(Evens),
               take'.pc # "mark", \A a \in auths' : a.index \in Evens
        PROVE  Even'
    BY <1>c DEF Even
  <1>1. CASE \/ StartPage \/ StartSdk \/ Save \/ LoseStore \/ Reconcile \/ Rotate \/ Look \/ LookDone
             \/ Fetch \/ ScanPass \/ UNCHANGED vars
             \/ \E w \in {Window, Window + ExtraWindow} : ScanStart(w)
    BY <1>1, <1>a DEF StartPage, StartSdk, Save, LoseStore, Reconcile, Rotate, Look, LookDone, Fetch, ScanPass,
                      vars, ScanStart
  <1>2. CASE Crash
    BY <1>2, <1>0, <1>b, <1>c DEF Crash
  <1>3. CASE Refresh
    BY <1>3, <1>0 DEF Refresh, Even
  <1>4. CASE ReserveFails \/ ProbeFails
    BY <1>4, <1>0, <1>b, <1>c DEF ReserveFails, ProbeFails, Even
  <1>5. CASE Reserve
    <2>1. store \in Nat /\ store < MaxIndex
      BY <1>5 DEF Reserve, WalletTypeOK
    <2>2. store \in Indices
      BY <2>1, WalletAssumption DEF Indices
    <2>3. take' = take \/ (store \in Evens /\ take' = [take EXCEPT !.pc = "mark", !.index = store])
      BY <1>5, <2>2 DEF Reserve, Evens
    <2>4. take'.allocated \in Seq(Evens) /\ (take'.pc = "mark" => take'.index \in Evens)
      BY <1>5, <2>3 DEF Reserve, Even, WalletTypeOK, Takes
    <2> QED
      BY <1>5, <2>4 DEF Reserve, Even
  <1>6. CASE MarkDerived
    <2> DEFINE allocated == Append(take.allocated, take.index)
               p == IF Len(allocated) = take.need THEN "probe" ELSE "reserve"
               c == take.tested + 1
    <2>1. take.index \in Evens /\ take.allocated \in Seq(Evens)
      BY <1>6 DEF MarkDerived, Even
    <2>2. allocated \in Seq(Evens) /\ p # "mark"
      BY <2>1
    <2>3. take' = [take EXCEPT !.pc = p, !.allocated = allocated, !.tested = c]
      BY <1>6 DEF MarkDerived
    <2> HIDE DEF allocated, p, c
    <2>4. take'.allocated \in Seq(Evens) /\ take'.pc # "mark"
      BY <2>2, <2>3 DEF WalletTypeOK, Takes
    <2> QED
      BY <1>6, <1>c, <2>4 DEF MarkDerived, Even
  <1>7. CASE MarkDirect
    <2>1. take.index \in Evens
      BY <1>7 DEF MarkDirect, Even
    <2>2. \A t \in flight' : t.indices \subseteq Evens
      BY <1>7, <2>1 DEF MarkDirect, Even
    <2> QED
      BY <1>7, <1>0, <1>b, <2>2 DEF MarkDirect, Even
  <1>8. CASE MintDirect
    <2>1. take'.allocated = <<>> /\ take'.pc # "mark"
      BY <1>8 DEF MintDirect, NoTake
    <2> QED
      BY <1>8, <1>0, <1>c, <2>1 DEF MintDirect, Even
  <1>9. ASSUME NEW n \in 1 .. 2, Take(n) PROVE Even'
    <2>1. CASE Len(ready) >= n
      <3>1. ready \in Seq(Evens) /\ n \in 0 .. Len(ready)
        BY <2>1 DEF Even
      <3>2. ready' \in Seq(Evens) /\ \A a \in auths' : a.index \in Evens
        BY <1>9, <2>1, <3>1, IssuedEven DEF Take, Even
      <3> QED
        BY <1>9, <2>1, <3>2 DEF Take, Even
    <2>2. CASE ~ (Len(ready) >= n)
      <3>1. UNCHANGED <<auths, ready>> /\ take'.pc # "mark" /\ take'.allocated = <<>>
        BY <1>9, <2>2 DEF Take, NoTake
      <3> QED
        BY <1>9, <1>0, <1>c, <3>1 DEF Take, Even
    <2> QED
      BY <2>1, <2>2
  <1>10. CASE Probe
    <2> DEFINE s == take.allocated
               kept == Filtered(s, Free)
    <2>1. s \in Seq(Evens) /\ Free \in SUBSET (1 .. Len(s)) /\ ready \in Seq(Evens)
      BY QueueType DEF Even
    <2> HIDE DEF s
    <2>2. kept \in Seq(Evens)
      BY <2>1, FilteredParts
    <2>3. Queue = ready \o kept
      BY DEF Queue, s
    <2> HIDE DEF kept
    <2>4. Queue \in Seq(Evens)
      BY <2>1, <2>2, <2>3
    <2>5. CASE Len(Queue) >= take.want
      <3>1. take.want \in 0 .. Len(Queue)
        BY <2>4, <2>5 DEF WalletTypeOK, Takes
      <3>2. auths' = auths \cup Issued(Queue, take.want)
            /\ ready' = SubSeq(Queue, take.want + 1, Len(Queue)) /\ take' = NoTake
        BY <1>10, <2>5 DEF Probe, Queue, Free
      <3>3. ready' \in Seq(Evens) /\ \A a \in auths' : a.index \in Evens
        BY <2>4, <3>1, <3>2, IssuedEven DEF Even
      <3> QED
        BY <1>10, <1>0, <1>b, <1>c, <3>2, <3>3 DEF Probe
    <2>6. CASE ~ (Len(Queue) >= take.want)
      <3> DEFINE need == Smaller(CollisionBatch, MaxCandidates - take.tested)
      <3>1. ready' = Queue /\ auths' = auths
            /\ (take' = NoTake
                  \/ take' = [take EXCEPT !.pc = "reserve", !.allocated = <<>>, !.need = need])
        BY <1>10, <2>6 DEF Probe, Queue, Free
      <3> HIDE DEF need
      <3>2. take'.pc # "mark" /\ take'.allocated = <<>>
        BY <1>b, <3>1 DEF WalletTypeOK, Takes
      <3> QED
        BY <1>10, <1>0, <1>c, <2>4, <3>1, <3>2 DEF Probe, Even
    <2> QED
      BY <2>5, <2>6
  <1>11. ASSUME NEW handles \in SUBSET auths, Assemble(handles) PROVE Even'
    <2>1. {a.index : a \in handles} \subseteq Evens
      BY DEF Even
    <2>2. \A t \in flight' : t.indices \subseteq Evens
      BY <1>11, <2>1 DEF Assemble, Even
    <2> QED
      BY <1>11, <2>2 DEF Assemble, Consumed, Even
  <1>12. ASSUME NEW t \in flight, Land(t) PROVE Even'
    <2> DEFINE S == {Note("self", i, version) : i \in t.indices}
               landed == SetToSeq(S)
    <2>1. landed \in Seq(Notes) /\ chain' = chain \o landed /\ landed \in Seq(S)
      BY <1>12, LandedType, SetToSeqParts DEF Land
    <2>2. \A x \in S : x.family = "self" /\ x.index \in Evens
      BY DEF Note, Even
    <2> HIDE DEF landed, S
    <2>3. \A p \in 1 .. Len(landed) : landed[p].index \notin OddY[landed[p].family]
      <3>1. \A p \in 1 .. Len(landed) : landed[p] \in S
        BY <2>1
      <3> QED
        BY <2>2, <3>1 DEF Evens
    <2>4. \A p \in 1 .. Len(chain') : \/ p \in 1 .. Len(chain) /\ chain'[p] = chain[p]
                                      \/ \E k \in 1 .. Len(landed) : chain'[p] = landed[k]
      <3>1. Len(chain') = Len(chain) + Len(landed)
        BY <1>0, <2>1
      <3> QED
        BY <1>0, <2>1, <3>1, Appended
    <2>5. \A p \in 1 .. Len(chain') : chain'[p].index \notin OddY[chain'[p].family]
      BY <2>3, <2>4 DEF Even
    <2> QED
      BY <1>12, <2>5 DEF Land, Even
  <1>13. CASE NextIncomingAddress
    <2> DEFINE S == NextIncoming(repo)
    <2>1. S \in SUBSET Nat /\ S # {}
      BY <1>13, WalletAssumption DEF NextIncomingAddress, NextIncoming, Indices
    <2>2. Min(S) \in S
      BY <2>1, LeastIndex
    <2>3. Min(S) \notin OddY["incoming"]
      BY <2>2 DEF NextIncoming
    <2>4. issued' = issued \cup {Min(S)} /\ UNCHANGED <<ready, take, auths, flight, chain>>
      BY <1>13 DEF NextIncomingAddress
    <2> QED
      BY <2>3, <2>4 DEF Even
  <1>14. ASSUME NEW i \in issued, Pay(i) PROVE Even'
    <2> DEFINE x == Note("incoming", i, version)
    <2>1. x \in Notes /\ x.family = "incoming" /\ x.index = i
      BY DEF Note, Notes, Families, WalletTypeOK
    <2>2. chain' = Append(chain, x)
      BY <1>14 DEF Pay
    <2>3. i \notin OddY["incoming"]
      BY DEF Even
    <2> HIDE DEF x
    <2>4. \A p \in 1 .. Len(chain') : \/ p \in 1 .. Len(chain) /\ chain'[p] = chain[p]
                                      \/ chain'[p] = x
      BY <1>0, <2>1, <2>2
    <2>5. \A p \in 1 .. Len(chain') : chain'[p].index \notin OddY[chain'[p].family]
      BY <2>1, <2>3, <2>4 DEF Even
    <2> QED
      BY <1>14, <2>5 DEF Pay, Even
  <1> QED
    BY <1>1, <1>2, <1>3, <1>4, <1>5, <1>6, <1>7, <1>8, <1>9, <1>10, <1>11, <1>12, <1>13, <1>14 DEF Next

\* The mint counter of the repository stays below the durable one, and handing out an
\* index raises it; the page mints only after its scan, and a group's scanner does not
\* count.
Counters ==
    /\ client # "off" => repo.mint <= store
    /\ client = "group" => repo.mint = 0
    /\ take.pc = "mark" => repo.mint <= take.index /\ take.index < store
    /\ take.pc # "idle" /\ take.want # 0 => client = "sdk"
    /\ take.pc # "idle" /\ client = "page" => scan.pc = "done"
    /\ scan.known[1] <= repo.mint /\ scan.known[2] <= repo.issue

LEMMA ScanTypes ==
    ASSUME WalletTypeOK, ScanTypeOK
    PROVE  /\ repo.mint \in Nat /\ repo.issue \in Nat /\ store \in Nat /\ take.index \in Nat
           /\ scan.known[1] \in Nat /\ scan.known[2] \in Nat /\ scan.known = <<scan.known[1], scan.known[2]>>
           /\ scan.window \in Nat /\ scan.pass \in Nat /\ scan.upto \in Nat /\ scan.advanced \in BOOLEAN
           /\ repo.next["self"] \in Nat /\ repo.next["incoming"] \in Nat
           /\ repo.matched["self"] \in -1 .. MaxIndex - 1 /\ repo.matched["incoming"] \in -1 .. MaxIndex - 1
           /\ MaxIndex \in Nat
  <1>1. take.index \in Nat /\ store \in Nat /\ MaxIndex \in Nat
    BY WalletAssumption DEF WalletTypeOK, Takes
  <1>2. /\ repo.mint \in Nat /\ repo.issue \in Nat
        /\ repo.next["self"] \in Nat /\ repo.next["incoming"] \in Nat
        /\ repo.matched["self"] \in -1 .. MaxIndex - 1 /\ repo.matched["incoming"] \in -1 .. MaxIndex - 1
    BY DEF ScanTypeOK, KeyRepos, Families
  <1>3. scan.known \in Nat \X Nat /\ scan.window \in Nat /\ scan.pass \in Nat /\ scan.upto \in Nat
        /\ scan.advanced \in BOOLEAN
    BY DEF ScanTypeOK, Scans
  <1>4. scan.known[1] \in Nat /\ scan.known[2] \in Nat /\ scan.known = <<scan.known[1], scan.known[2]>>
    BY <1>3
  <1> QED
    BY <1>1, <1>2, <1>3, <1>4

\* What a step of the scan leaves alone.
LEMMA ScanningFacts ==
    ASSUME WalletTypeOK, ScanTypeOK, Look \/ LookDone \/ Fetch \/ ScanPass
    PROVE  /\ scan.pc \notin {"idle", "done"} /\ scan'.known = scan.known /\ scan'.window = scan.window
           /\ repo'.mint = repo.mint /\ repo'.issue = repo.issue
           /\ UNCHANGED <<store, saved, chain, version, flight, client, history, take, ready, auths, issued,
                          risk, lost, world>>
  <1> USE DEF chainVars, mintVars, ghosts
  <1>1. scan \in Scans
    BY DEF ScanTypeOK
  <1>2. UNCHANGED <<store, saved, chain, version, flight, client, history, take, ready, auths, issued,
                    risk, lost, world>>
    BY DEF Look, LookDone, Fetch, ScanPass
  <1>3. CASE Look
    <2>1. repo'.mint = repo.mint /\ repo'.issue = repo.issue
      BY <1>3, LookFacts
    <2> DEFINE a == scan.advanced \/ Advances(Family)
    <2>2. scan' = [scan EXCEPT !.advanced = a] /\ scan.pc \in {"first", "look"}
      BY <1>3 DEF Look
    <2> HIDE DEF a
    <2> QED
      BY <1>1, <1>2, <2>1, <2>2 DEF Scans
  <1>4. CASE LookDone
    <2>1. \/ scan' = [scan EXCEPT !.pc = "fetch", !.advanced = FALSE]
          \/ scan' = [scan EXCEPT !.pc = "pass", !.advanced = FALSE]
          \/ scan' = [scan EXCEPT !.pc = "done", !.advanced = FALSE, !.pass = 0]
      BY <1>4 DEF LookDone
    <2>2. repo' = repo /\ scan.pc \in {"first", "look"}
      BY <1>4 DEF LookDone
    <2> QED
      BY <1>1, <1>2, <2>1, <2>2 DEF Scans
  <1>5. CASE Fetch
    BY <1>1, <1>2, <1>5 DEF Fetch, Scans
  <1>6. CASE ScanPass
    <2>1. repo'.mint = repo.mint /\ repo'.issue = repo.issue
      BY <1>6, PassFacts
    <2> DEFINE n == scan.pass + 1
    <2>2. scan' = [scan EXCEPT !.pc = "look", !.pass = n] /\ scan.pc = "pass"
      BY <1>6 DEF ScanPass
    <2> HIDE DEF n
    <2> QED
      BY <1>1, <1>2, <2>1, <2>2 DEF Scans
  <1> QED
    BY <1>3, <1>4, <1>5, <1>6

LEMMA ScanStartFacts ==
    ASSUME WalletTypeOK, ScanTypeOK, NEW w \in {Window, Window + ExtraWindow}, ScanStart(w)
    PROVE  /\ scan'.known = <<repo.mint, repo.issue>> /\ scan'.window = w /\ scan'.upto = 0
           /\ scan'.pc \in {"first", "fetch"} /\ scan'.pass = 0 /\ ~scan'.advanced
           /\ \/ scan.pc = "idle" /\ client # "off"
              \/ scan.pc = "done" /\ client = "sdk"
           /\ UNCHANGED <<store, saved, chain, version, flight, client, history, repo, take, ready, auths,
                          issued, risk, lost, world>>
  <1> DEFINE c == IF client = "group" THEN "fetch" ELSE "first"
             k == <<repo.mint, repo.issue>>
  <1>1. c \in {"first", "fetch"} /\ scan' = [NoScan EXCEPT !.pc = c, !.window = w, !.known = k]
    BY DEF ScanStart
  <1>2. UNCHANGED <<store, saved, chain, version, flight, client, history, repo, take, ready, auths,
                    issued, risk, lost, world>>
    BY DEF ScanStart, chainVars, mintVars, ghosts
  <1>3. \/ scan.pc = "idle" /\ client # "off"
        \/ scan.pc = "done" /\ client = "sdk"
    BY DEF ScanStart
  <1> HIDE DEF c
  <1>4. /\ scan'.known = k /\ scan'.window = w /\ scan'.upto = 0 /\ scan'.pc = c /\ scan'.pass = 0
        /\ ~scan'.advanced
    BY <1>1 DEF NoScan
  <1> QED
    BY <1>1, <1>2, <1>3, <1>4

LEMMA CountersStep ==
    ASSUME WalletTypeOK, Sessions, ScanTypeOK, Counters, [Next]_vars PROVE Counters'
  <1> USE DEF chainVars, mintVars, ghosts
  <1>t. /\ repo.mint \in Nat /\ repo.issue \in Nat /\ store \in Nat /\ take.index \in Nat
        /\ scan.known[1] \in Nat /\ scan.known[2] \in Nat
    BY ScanTypes
  <1>n. NoTake.pc = "idle" /\ NoTake.want = 0 /\ NoScan.known[1] = 0 /\ NoScan.known[2] = 0
    BY DEF NoTake, NoScan
  <1>o. /\ take.pc # "idle" \/ scan.pc # "idle" => client # "off"
        /\ client = "off" => repo.mint = 0 /\ repo.issue = 0 /\ take = NoTake /\ scan = NoScan
    BY <1>n, NoScanType, EmptyRepoWhole DEF Sessions, ScanTypeOK
  <1>a. ASSUME UNCHANGED <<store, client, take>>, repo'.mint = repo.mint, repo'.issue \in Nat,
               repo.issue <= repo'.issue, scan'.known = scan.known, scan.pc = "done" => scan'.pc = "done"
        PROVE  Counters'
    BY <1>t, <1>a DEF Counters
  <1>b. ASSUME UNCHANGED <<store, client, repo, scan>>, take'.pc # "mark",
               take'.pc # "idle" /\ take'.want # 0 => client = "sdk",
               take'.pc # "idle" /\ client = "page" => scan.pc = "done"
        PROVE  Counters'
    BY <1>t, <1>b DEF Counters
  <1>1. CASE StartPage
    <2>1. repo'.mint = 0 /\ repo'.issue = 0
      BY <1>1, NewScannerFacts, EmptyRepoWhole DEF StartPage
    <2> QED
      BY <1>1, <1>n, <1>o, <1>t, <2>1 DEF StartPage, Counters
  <1>2. CASE StartSdk
    <2>1. repo'.mint = RestoredMint(saved) /\ repo'.issue = saved.issue /\ saved.issue \in Nat
          /\ RestoredMint(saved) \in Nat
      BY <1>2, RestoredFacts, RestoredCounts DEF StartSdk, ScanTypeOK, KeyRepoStates
    <2>2. repo'.mint <= store'
      BY <1>2, <1>t, <2>1 DEF StartSdk, RatchetTo, Larger
    <2> QED
      BY <1>2, <1>n, <1>o, <2>1, <2>2 DEF StartSdk, Counters
  <1>3. CASE \/ Save \/ Rotate \/ UNCHANGED vars
             \/ \E h \in SUBSET auths : Assemble(h)
             \/ \E t \in flight : Land(t)
             \/ \E i \in issued : Pay(i)
    <2>1. UNCHANGED <<store, client, take, repo, scan>>
      BY <1>3 DEF Save, Rotate, vars, Assemble, Land, Pay
    <2> QED
      BY <1>a, <1>t, <2>1
  <1>4. CASE Crash
    BY <1>4, <1>n, <1>t, EmptyRepoWhole DEF Crash, Counters
  <1>5. CASE LoseStore
    BY <1>5, <1>n, <1>o DEF LoseStore, Counters
  <1>6. CASE Refresh
    BY <1>6, <1>n, <1>t DEF Refresh, Counters
  <1>7. CASE Reserve
    <2>1. take' = take \/ take' = [take EXCEPT !.pc = "mark", !.index = store]
      BY <1>7 DEF Reserve
    <2>2. store' = store + 1 /\ UNCHANGED <<client, repo, scan>> /\ take.pc = "reserve"
      BY <1>7 DEF Reserve
    <2>3. repo.mint <= store
      BY <1>o, <2>2 DEF Counters
    <2>4. /\ take'.want = take.want /\ take'.pc # "idle"
          /\ take'.pc = "mark" => take'.index = store
      BY <2>1, <2>2 DEF WalletTypeOK, Takes
    <2> QED
      BY <1>t, <2>2, <2>3, <2>4 DEF Counters
  <1>8. CASE ReserveFails \/ ProbeFails
    BY <1>8, <1>b, <1>n DEF ReserveFails, ProbeFails
  <1>9. CASE MarkDerived
    <2> DEFINE allocated == Append(take.allocated, take.index)
               c == IF Len(allocated) = take.need THEN "probe" ELSE "reserve"
               m == take.tested + 1
    <2>1. take' = [take EXCEPT !.pc = c, !.allocated = allocated, !.tested = m] /\ c \in {"probe", "reserve"}
      BY <1>9 DEF MarkDerived
    <2> HIDE DEF allocated, c, m
    <2>2. take'.pc \in {"probe", "reserve"} /\ take'.want = take.want /\ take.pc = "mark"
      BY <1>9, <2>1 DEF WalletTypeOK, Takes, MarkDerived
    <2>3. take.index \in Indices /\ repo \in KeyRepos
      BY <2>2 DEF WalletTypeOK, ScanTypeOK
    <2>4. repo'.mint = Larger(repo.mint, take.index + 1) /\ repo'.issue = repo.issue
      BY <1>9, <2>3, TagFacts DEF MarkDerived
    <2>5. repo.mint <= take.index /\ take.index < store
      BY <2>2 DEF Counters
    <2> QED
      BY <1>9, <1>t, <2>2, <2>4, <2>5 DEF MarkDerived, Counters, Larger
  <1>10. CASE MarkDirect
    <2>1. take.index \in Indices /\ repo \in KeyRepos /\ take.pc = "mark"
      BY <1>10 DEF WalletTypeOK, ScanTypeOK, MarkDirect
    <2>2. repo.mint <= take.index /\ take.index < store
      BY <2>1 DEF Counters
    <2>3. repo' = repo \/ (repo'.mint = Larger(repo.mint, take.index + 1) /\ repo'.issue = repo.issue)
      BY <1>10, <2>1, TagFacts DEF MarkDirect
    <2> QED
      BY <1>10, <1>n, <1>t, <2>2, <2>3 DEF MarkDirect, Counters, Larger
  <1>11. CASE MintDirect
    <2>1. take'.pc = "reserve" /\ take'.want = 0
      BY <1>11 DEF MintDirect, NoTake
    <2>2. CASE store' = store
      BY <1>11, <1>b, <2>1, <2>2 DEF MintDirect
    <2>3. CASE client = "group" /\ store' = 0
      BY <1>11, <1>t, <2>1, <2>3 DEF MintDirect, Counters
    <2> QED
      BY <1>11, <2>2, <2>3 DEF MintDirect, CountedFrom
  <1>12. ASSUME NEW n \in 1 .. 2, Take(n) PROVE Counters'
    <2>1. take' = take \/ take'.pc = "reserve"
      BY <1>12 DEF Take, NoTake
    <2>2. client = "sdk" /\ take.pc = "idle" /\ UNCHANGED <<store, client, repo, scan>>
      BY <1>12 DEF Take
    <2> QED
      BY <1>b, <2>1, <2>2
  <1>13. CASE Probe
    <2> DEFINE need == Smaller(CollisionBatch, MaxCandidates - take.tested)
    <2>1. take' = NoTake \/ take' = [take EXCEPT !.pc = "reserve", !.allocated = <<>>, !.need = need]
      BY <1>13 DEF Probe
    <2> HIDE DEF need
    <2>2. take'.pc = "idle" \/ (take'.pc = "reserve" /\ take'.want = take.want)
      BY <1>n, <2>1 DEF WalletTypeOK, Takes
    <2>3. take.pc = "probe" /\ UNCHANGED <<store, client, repo, scan>>
      BY <1>13 DEF Probe
    <2> QED
      BY <1>b, <2>2, <2>3 DEF Counters
  <1>14. CASE Reconcile
    <2> DEFINE m == Max(Occupied) + 1
    <2>1. store' = Larger(store, m) /\ UNCHANGED <<client, repo, scan, take>>
      BY <1>14 DEF Reconcile, RatchetTo
    <2>2. m \in Int
      BY <1>14, MaxOccupied DEF Reconcile
    <2> HIDE DEF m
    <2>3. store <= store' /\ store' \in Int
      BY <1>t, <2>1, <2>2 DEF Larger
    <2> QED
      BY <1>t, <2>1, <2>3 DEF Counters
  <1>15. CASE NextIncomingAddress
    <2>1. PICK i \in Indices : repo' = TagIssued(repo, i) /\ repo.issue <= i
      BY <1>15, AddressFacts
    <2>2. repo \in KeyRepos /\ i \in Nat
      BY WalletAssumption DEF ScanTypeOK, Indices
    <2>3. repo'.mint = repo.mint /\ repo'.issue = i + 1
      BY <2>1, <2>2, TagFacts
    <2> QED
      BY <1>15, <1>a, <1>t, <2>1, <2>2, <2>3 DEF NextIncomingAddress
  <1>16. ASSUME NEW w \in {Window, Window + ExtraWindow}, ScanStart(w) PROVE Counters'
    <2>1. /\ scan'.known[1] = repo.mint /\ scan'.known[2] = repo.issue
          /\ UNCHANGED <<store, client, take, repo>>
          /\ scan.pc = "idle" \/ client = "sdk"
      BY <1>16, ScanStartFacts
    <2> QED
      BY <1>t, <2>1 DEF Counters
  <1>17. CASE Look \/ LookDone \/ Fetch \/ ScanPass
    BY <1>17, <1>a, <1>t, ScanningFacts
  <1> QED
    BY <1>1, <1>2, <1>3, <1>4, <1>5, <1>6, <1>7, <1>8, <1>9, <1>10, <1>11, <1>12, <1>13, <1>14, <1>15,
       <1>16, <1>17 DEF Next

\* No key was handed out since the scan began.
Undisturbed == scan.known = <<repo.mint, repo.issue>>

\* Which keys are registered: of incoming addresses every one given out and every one
\* below the scan index; of its own keys, with the counter kept, every one reserved; and
\* nothing below the scan index is left out, except where a lost counter was reconciled
\* or the page minted after its scan.
Registered ==
    /\ Whole(repo, "incoming")
    /\ \A i \in Indices \ OddY["incoming"] : i < repo.issue => i \in repo.tags["incoming"]
    /\ client = "sdk" /\ ~lost =>
          \A i \in Evens : i < store => i \in repo.tags["self"] \/ (take.pc = "mark" /\ take.index = i)
    /\ \/ client = "sdk" /\ lost
       \/ client = "page" /\ scan.pc = "done" /\ ~Undisturbed
       \/ Whole(repo, "self")

LEMMA RegisteredStep ==
    ASSUME WalletInv, ScanTypeOK, Even, Counters, Registered, [Next]_vars PROVE Registered'
  <1> USE DEF chainVars, mintVars, ghosts
  <1>w. WalletTypeOK /\ Sessions /\ IndicesApart
    BY DEF WalletInv
  <1>t. /\ repo.mint \in Nat /\ repo.issue \in Nat /\ store \in Nat /\ take.index \in Nat
        /\ scan.known[1] \in Nat /\ scan.known[2] \in Nat /\ scan.known = <<scan.known[1], scan.known[2]>>
        /\ repo.next["self"] \in Nat /\ repo.next["incoming"] \in Nat
    BY <1>w, ScanTypes
  <1>n. NoTake.pc = "idle" /\ NoTake.want = 0
    BY DEF NoTake
  <1>f. "self" \in Families /\ "incoming" \in Families
    BY DEF Families
  <1>i. \A i \in Indices : i \in Nat
    BY WalletAssumption DEF Indices
  <1>r. repo \in KeyRepos
    BY DEF ScanTypeOK
  <1>o. /\ client = "off" => take.pc = "idle" /\ scan.pc = "idle"
        /\ scan.pc # "idle" => client # "off"
    BY <1>n, <1>w, NoScanType DEF Sessions, ScanTypeOK
  <1>e. EmptyRepo.issue = 0 /\ Whole(EmptyRepo, "incoming") /\ Whole(EmptyRepo, "self")
    BY <1>f, EmptyRepoWhole
  <1>z. \A i \in Indices : ~ (i < 0)
    BY <1>i
  <1>a. ASSUME UNCHANGED <<client, lost, repo, scan, store>>,
               \A i \in Evens : take.pc = "mark" /\ take.index = i => client # "sdk" \/ (take'.pc = "mark" /\ take'.index = i)
        PROVE  Registered'
    BY <1>a DEF Registered, Whole, Undisturbed
  <1>1. CASE StartPage
    <2>1. repo'.issue = 0 /\ Whole(repo', "incoming") /\ Whole(repo', "self")
      BY <1>1, <1>e, <1>f, NewScannerFacts DEF StartPage
    <2>2. client' # "sdk"
      BY <1>1 DEF StartPage
    <2> QED
      BY <1>z, <2>1, <2>2 DEF Registered, Whole
  <1>2. CASE StartSdk
    <2> DEFINE q == Restored(saved)
    <2>1. /\ q \in KeyRepos /\ q.mint = RestoredMint(saved) /\ Whole(q, "self") /\ Whole(q, "incoming")
          /\ q.mint <= q.next["self"] /\ q.issue <= q.next["incoming"]
      BY <1>f, <1>w, RestoredFacts
    <2>2. repo' = q /\ store' = RatchetTo(RestoredMint(saved)) /\ client' = "sdk"
      BY <1>2 DEF StartSdk
    <2> HIDE DEF q
    <2>3. q.mint \in Nat /\ q.issue \in Nat /\ q.next["self"] \in Nat /\ q.next["incoming"] \in Nat
      BY <1>f, <2>1 DEF KeyRepos
    <2>4. store' <= q.next["self"] /\ store' \in Nat
      <3>1. saved.mint \in Nat
        BY DEF ScanTypeOK, KeyRepoStates
      <3> QED
        BY <1>t, <2>1, <2>2, <2>3, <3>1 DEF RatchetTo, RestoredMint, Larger
    <2>5. \A i \in Evens : i < store' => i \in q.tags["self"]
      BY <1>i, <2>1, <2>3, <2>4 DEF Whole, Evens
    <2>6. \A i \in Indices \ OddY["incoming"] : i < q.issue => i \in q.tags["incoming"]
      BY <1>i, <2>1, <2>3 DEF Whole
    <2> QED
      BY <2>1, <2>2, <2>5, <2>6 DEF Registered, Whole
  <1>3. CASE \/ Save \/ Rotate \/ UNCHANGED vars
             \/ \E h \in SUBSET auths : Assemble(h)
             \/ \E t \in flight : Land(t)
             \/ \E i \in issued : Pay(i)
    <2>1. UNCHANGED <<client, lost, repo, scan, store, take>>
      BY <1>3 DEF Save, Rotate, vars, Assemble, Land, Pay
    <2> QED
      BY <1>a, <2>1
  <1>4. CASE Crash
    <2>1. repo' = EmptyRepo /\ client' = "off"
      BY <1>4 DEF Crash
    <2> QED
      BY <1>e, <1>z, <2>1 DEF Registered, Whole
  <1>5. CASE LoseStore
    <2>1. client = "off" /\ UNCHANGED <<client, repo, scan>>
      BY <1>5 DEF LoseStore
    <2> QED
      BY <2>1 DEF Registered, Whole
  <1>6. CASE Refresh
    <2>1. client = "sdk" /\ UNCHANGED <<client, repo, take, lost, store>>
      BY <1>6 DEF Refresh
    <2> QED
      BY <2>1 DEF Registered, Whole
  <1>7. CASE Reserve
    <2>1. take.pc = "reserve" /\ store' = store + 1 /\ store < MaxIndex /\ UNCHANGED <<client, repo, scan, lost>>
      BY <1>7 DEF Reserve
    <2>2. store \notin OddY["self"] => take'.pc = "mark" /\ take'.index = store
      BY <1>7, <1>w DEF Reserve, WalletTypeOK, Takes
    <2>3. ASSUME client = "sdk", ~lost, NEW i \in Evens, i < store'
          PROVE  i \in repo.tags["self"] \/ (take'.pc = "mark" /\ take'.index = i)
      <3>1. CASE i < store
        BY <2>1, <2>3, <3>1 DEF Registered
      <3>2. CASE ~ (i < store)
        <4>1. i = store
          BY <1>i, <1>t, <2>1, <2>3, <3>2 DEF Evens
        <4> QED
          BY <2>2, <4>1 DEF Evens
      <3> QED
        BY <3>1, <3>2
    <2> QED
      BY <2>1, <2>3 DEF Registered, Whole, Undisturbed
  <1>8. CASE ReserveFails \/ ProbeFails \/ Probe
    <2>1. take.pc # "mark" /\ UNCHANGED <<client, lost, repo, scan, store>>
      BY <1>8 DEF ReserveFails, ProbeFails, Probe
    <2> QED
      BY <1>a, <2>1
  <1>9. CASE MintDirect
    <2>1. client # "sdk" /\ UNCHANGED <<client, lost, repo, scan>>
      BY <1>9 DEF MintDirect
    <2> QED
      BY <2>1 DEF Registered, Whole, Undisturbed
  <1>10. ASSUME NEW n \in 1 .. 2, Take(n) PROVE Registered'
    BY <1>10, <1>a DEF Take
  <1>11. CASE MarkDerived
    <2> DEFINE j == take.index
               q == TagMinted(repo, j)
    <2>1. /\ take.pc = "mark" /\ take.want # 0 /\ repo' = q /\ UNCHANGED <<store, client, lost>>
          /\ j \in Indices
      BY <1>11, <1>w DEF MarkDerived, WalletTypeOK, Takes
    <2>2. client = "sdk" /\ j < store
      BY <2>1 DEF Counters
    <2>3. /\ q.issue = repo.issue /\ q.next["incoming"] = repo.next["incoming"] /\ q.tags["incoming"] = repo.tags["incoming"]
          /\ q.next["self"] = Larger(repo.next["self"], j + 1) /\ q.tags["self"] = repo.tags["self"] \cup {j}
      BY <1>r, <2>1, TagFacts
    <2> HIDE DEF j, q
    <2>4. Whole(q, "incoming") /\ \A i \in Indices \ OddY["incoming"] : i < q.issue => i \in q.tags["incoming"]
      BY <2>3 DEF Registered, Whole
    <2>5. ASSUME ~lost, NEW i \in Evens, i < store PROVE i \in q.tags["self"]
      BY <2>1, <2>2, <2>3, <2>5 DEF Registered, j
    <2>6. ASSUME ~lost PROVE Whole(q, "self")
      <3> SUFFICES ASSUME NEW i \in Indices \ OddY["self"], i < q.next["self"] PROVE i \in q.tags["self"]
        BY DEF Whole
      <3>1. CASE i < repo.next["self"]
        BY <2>2, <2>3, <2>6, <3>1 DEF Registered, Whole
      <3>2. CASE ~ (i < repo.next["self"])
        <4>1. i < store
          BY <1>i, <1>t, <2>1, <2>2, <2>3, <3>2 DEF Larger
        <4> QED
          BY <2>5, <2>6, <4>1 DEF Evens
      <3> QED
        BY <3>1, <3>2
    <2> QED
      BY <2>1, <2>2, <2>4, <2>5, <2>6 DEF Registered, Whole
  <1>12. CASE MarkDirect
    <2>1. take.pc = "mark" /\ take.want = 0 /\ UNCHANGED <<client, lost, store, scan>>
      BY <1>12 DEF MarkDirect
    <2>2. client \in {"page", "group"}
      BY <1>w, <2>1 DEF Sessions
    <2>3. CASE client = "group"
      <3>1. repo' = repo
        BY <1>12, <2>3 DEF MarkDirect
      <3> QED
        BY <1>a, <2>1, <2>3, <3>1
    <2>4. CASE client = "page"
      <3> DEFINE j == take.index
                 q == TagMinted(repo, j)
      <3>1. repo' = q /\ j \in Indices
        BY <1>12, <1>w, <2>4 DEF MarkDirect, WalletTypeOK
      <3>2. scan.pc = "done" /\ repo.mint <= j /\ scan.known[1] <= repo.mint
        BY <2>1, <2>4 DEF Counters
      <3>3. /\ q.issue = repo.issue /\ q.next["incoming"] = repo.next["incoming"] /\ q.tags["incoming"] = repo.tags["incoming"]
            /\ q.mint = Larger(repo.mint, j + 1)
        BY <1>r, <3>1, TagFacts
      <3> HIDE DEF j, q
      <3>4. Whole(q, "incoming") /\ \A i \in Indices \ OddY["incoming"] : i < q.issue => i \in q.tags["incoming"]
        BY <3>3 DEF Registered, Whole
      <3>5. q.mint # scan.known[1]
        BY <1>i, <1>t, <3>1, <3>2, <3>3 DEF Larger
      <3>6. scan.known # <<q.mint, q.issue>>
        BY <3>5
      <3> QED
        BY <2>1, <2>4, <3>1, <3>2, <3>4, <3>6 DEF Registered, Whole, Undisturbed
    <2> QED
      BY <2>2, <2>3, <2>4
  <1>13. CASE Reconcile
    <2>1. /\ client = "sdk" /\ Occupied # {} /\ store' = RatchetTo(Max(Occupied) + 1) /\ store' # store
          /\ UNCHANGED <<client, lost, repo, scan, take>>
      BY <1>13 DEF Reconcile
    <2>2. ASSUME ~lost PROVE FALSE
      <3> DEFINE m == Max(Occupied)
      <3>1. m \in Nat /\ m \in Occupied
        BY <1>w, <2>1, MaxOccupied
      <3>2. PICK p \in DOMAIN chain : chain[p].family = "self" /\ chain[p].index = m
        BY <3>1 DEF Occupied
      <3>3. m \in Indices
        <4>1. chain[p] \in Notes
          BY <1>w DEF WalletTypeOK
        <4> HIDE DEF m
        <4> QED
          BY <3>2, <4>1 DEF Notes
      <3>4. Chained(m) # {} /\ m \notin risk
        BY <1>w, <2>2, <3>2 DEF Chained, Sessions
      <3> HIDE DEF m
      <3>5. m < store
        BY <1>w, <2>1, <2>2, <3>3, <3>4, OneHolder DEF IndicesApart, Passed
      <3>6. store' = Larger(store, m + 1)
        BY <2>1 DEF RatchetTo, m
      <3> QED
        BY <1>t, <2>1, <3>1, <3>5, <3>6 DEF Larger
    <2> QED
      BY <1>w, <2>1, <2>2 DEF Registered, Whole
  <1>14. CASE NextIncomingAddress
    <2>1. PICK j \in Indices \ OddY["incoming"] :
                  /\ repo' = TagIssued(repo, j) /\ repo.issue <= j
                  /\ \A i \in Indices \ OddY["incoming"] : repo.issue <= i => j <= i
      BY <1>14, AddressFacts
    <2>2. client = "sdk" /\ UNCHANGED <<client, lost, store, take, scan>>
      BY <1>14 DEF NextIncomingAddress
    <2> DEFINE q == TagIssued(repo, j)
    <2>3. /\ q.issue = j + 1 /\ q.next["self"] = repo.next["self"] /\ q.tags["self"] = repo.tags["self"]
          /\ q.next["incoming"] = Larger(repo.next["incoming"], j + 1)
          /\ q.tags["incoming"] = repo.tags["incoming"] \cup {j}
      BY <1>r, TagFacts
    <2>4. repo' = q /\ j \in Nat
      BY <1>i, <2>1
    <2> HIDE DEF q
    <2>5. ASSUME NEW i \in Indices \ OddY["incoming"], i <= j PROVE i \in q.tags["incoming"]
      <3>1. CASE i < repo.issue
        BY <2>3, <3>1 DEF Registered
      <3>2. CASE ~ (i < repo.issue)
        <4>1. i = j
          BY <1>i, <1>t, <2>1, <2>4, <2>5, <3>2
        <4> QED
          BY <2>3, <4>1
      <3> QED
        BY <3>1, <3>2
    <2>6. Whole(q, "incoming")
      <3> SUFFICES ASSUME NEW i \in Indices \ OddY["incoming"], i < q.next["incoming"] PROVE i \in q.tags["incoming"]
        BY DEF Whole
      <3>1. CASE i < repo.next["incoming"]
        BY <2>3, <3>1 DEF Registered, Whole
      <3>2. CASE ~ (i < repo.next["incoming"])
        BY <1>i, <1>t, <2>3, <2>4, <2>5, <3>2 DEF Larger
      <3> QED
        BY <3>1, <3>2
    <2>7. \A i \in Indices \ OddY["incoming"] : i < q.issue => i \in q.tags["incoming"]
      BY <1>i, <2>3, <2>4, <2>5
    <2>8. Whole(repo, "self") => Whole(q, "self")
      BY <2>3 DEF Whole
    <2> QED
      BY <2>2, <2>3, <2>4, <2>6, <2>7, <2>8 DEF Registered, Whole
  <1>15. ASSUME NEW w \in {Window, Window + ExtraWindow}, ScanStart(w) PROVE Registered'
    <2>1. UNCHANGED <<client, lost, store, take, repo>> /\ (scan.pc = "idle" \/ client = "sdk")
      BY <1>15, <1>w, ScanStartFacts
    <2> QED
      BY <2>1 DEF Registered, Whole
  <1>16. CASE Look \/ LookDone \/ Fetch \/ ScanPass
    <2>1. /\ scan.pc # "done" /\ UNCHANGED <<client, lost, store, take>>
          /\ repo'.issue = repo.issue
      BY <1>16, <1>w, ScanningFacts
    <2>2. \A g \in Families : /\ repo.tags[g] \subseteq repo'.tags[g]
                              /\ Whole(repo, g) => Whole(repo', g)
      <3>1. CASE Look
        BY <3>1, LookFacts
      <3>2. CASE LookDone \/ Fetch
        <4>1. repo' = repo
          BY <3>2 DEF LookDone, Fetch
        <4> QED
          BY <4>1
      <3>3. CASE ScanPass
        <4>1. repo'.next = repo.next /\ repo'.tags = repo.tags
          BY <1>w, <3>3, PassFacts
        <4> QED
          BY <4>1 DEF Whole
      <3> QED
        BY <1>16, <3>1, <3>2, <3>3
    <2> QED
      BY <1>f, <2>1, <2>2 DEF Registered, Whole
  <1> QED
    BY <1>1, <1>2, <1>3, <1>4, <1>5, <1>6, <1>7, <1>8, <1>9, <1>10, <1>11, <1>12, <1>13, <1>14, <1>15,
       <1>16 DEF Next

\* Every pass but the first and the last met a new match.
Matches == repo.matched["self"] + repo.matched["incoming"] + 2
\* The lookahead of both families is registered.
Reaches == \A f \in Families : repo.matched[f] + 1 + scan.window <= repo.next[f]

Passes ==
    /\ scan.pc \in {"first", "fetch"} => scan.pass = 0
    /\ scan.pc \in {"fetch", "pass"} => ~scan.advanced
    /\ scan.pc = "pass" => scan.pass = 0 \/ (scan.pass <= Matches + 1 /\ Reaches)
    /\ scan.pc = "look" => scan.pass <= Matches + 1 \/ (~scan.advanced /\ Reaches)
    /\ scan.pc = "done" => Reaches

LEMMA NothingBehind ==
    ASSUME WalletTypeOK, ScanTypeOK PROVE Reaches <=> \A f \in Families : ~Behind(f)
  <1>1. ASSUME NEW f \in Families PROVE repo.matched[f] + 1 + scan.window <= repo.next[f] <=> ~Behind(f)
    <2>1. repo.next[f] \in Nat /\ repo.matched[f] \in Int /\ scan.window \in Nat
      BY WalletAssumption DEF ScanTypeOK, KeyRepos, Scans
    <2> QED
      BY <2>1 DEF Behind, LookaheadTarget, Larger
  <1> QED
    BY <1>1 DEF Reaches

\* Outside a scan's own steps the repository only grows.
LEMMA RepoGrows ==
    ASSUME WalletTypeOK, Sessions, ScanTypeOK, Counters,
           MarkDerived \/ MarkDirect \/ NextIncomingAddress
    PROVE  /\ repo' \in KeyRepos /\ repo'.matched = repo.matched
           /\ \A f \in Families : repo.next[f] <= repo'.next[f] /\ repo.tags[f] \subseteq repo'.tags[f]
           /\ \/ repo' = repo
              \/ repo.mint < repo'.mint /\ repo'.issue = repo.issue
              \/ repo.issue < repo'.issue /\ repo'.mint = repo.mint
           /\ UNCHANGED <<store, saved, chain, version, client, history, scan, utxos, lost>>
  <1> USE DEF chainVars, mintVars, ghosts
  <1>t. /\ repo.mint \in Nat /\ repo.issue \in Nat /\ take.index \in Nat
        /\ repo.next["self"] \in Nat /\ repo.next["incoming"] \in Nat
    BY ScanTypes
  <1>i. \A i \in Indices : i \in Nat
    BY WalletAssumption DEF Indices
  <1>r. repo \in KeyRepos
    BY DEF ScanTypeOK
  <1>u. UNCHANGED <<store, saved, chain, version, client, history, scan, utxos, lost>>
    BY DEF MarkDerived, MarkDirect, NextIncomingAddress
  <1>1. CASE repo' = repo
    <2>1. \A f \in Families : repo.next[f] \in Nat
      BY <1>r DEF KeyRepos
    <2> QED
      BY <1>1, <1>r, <1>u, <2>1
  <1>2. CASE repo' = TagMinted(repo, take.index) /\ take.pc = "mark"
    <2> DEFINE j == take.index
               q == TagMinted(repo, j)
    <2>1. j \in Indices /\ repo.mint <= j
      BY <1>2 DEF WalletTypeOK, Counters
    <2>2. /\ q \in KeyRepos /\ q.issue = repo.issue /\ q.matched = repo.matched
          /\ q.next["incoming"] = repo.next["incoming"] /\ q.tags["incoming"] = repo.tags["incoming"]
          /\ q.next["self"] = Larger(repo.next["self"], j + 1) /\ q.tags["self"] = repo.tags["self"] \cup {j}
          /\ q.mint = Larger(repo.mint, j + 1)
      BY <1>r, <2>1, TagFacts
    <2>3. repo' = q
      BY <1>2
    <2> HIDE DEF j, q
    <2>4. repo.mint < q.mint /\ repo.next["self"] <= q.next["self"] /\ repo.next["incoming"] <= q.next["incoming"]
      BY <1>i, <1>t, <2>1, <2>2 DEF Larger
    <2>5. \A f \in Families : repo.next[f] <= q.next[f] /\ repo.tags[f] \subseteq q.tags[f]
      BY <2>2, <2>4 DEF Families
    <2> QED
      BY <1>u, <2>2, <2>3, <2>4, <2>5
  <1>3. CASE NextIncomingAddress
    <2>1. PICK j \in Indices : repo' = TagIssued(repo, j) /\ repo.issue <= j
      BY <1>3, AddressFacts
    <2> DEFINE q == TagIssued(repo, j)
    <2>2. /\ q \in KeyRepos /\ q.mint = repo.mint /\ q.matched = repo.matched
          /\ q.issue = j + 1 /\ q.next["self"] = repo.next["self"] /\ q.tags["self"] = repo.tags["self"]
          /\ q.next["incoming"] = Larger(repo.next["incoming"], j + 1)
          /\ q.tags["incoming"] = repo.tags["incoming"] \cup {j}
      BY <1>r, TagFacts
    <2>3. repo' = q
      BY <2>1
    <2> HIDE DEF q
    <2>4. repo.issue < q.issue /\ repo.next["self"] <= q.next["self"] /\ repo.next["incoming"] <= q.next["incoming"]
      BY <1>i, <1>t, <2>1, <2>2 DEF Larger
    <2>5. \A f \in Families : repo.next[f] <= q.next[f] /\ repo.tags[f] \subseteq q.tags[f]
      BY <2>2, <2>4 DEF Families
    <2> QED
      BY <1>u, <2>2, <2>3, <2>4, <2>5
  <1> QED
    BY <1>1, <1>2, <1>3 DEF MarkDerived, MarkDirect

\* The other steps leave the repository and the scan alone, or there is no scan after them.
LEMMA Elsewhere ==
    ASSUME ScanTypeOK, [Next]_vars
    PROVE  \/ UNCHANGED <<repo, scan, utxos, client, history, lost>>
           \/ scan'.pc = "idle"
           \/ MarkDerived \/ MarkDirect \/ NextIncomingAddress
           \/ \E w \in {Window, Window + ExtraWindow} : ScanStart(w)
           \/ Look \/ LookDone \/ Fetch \/ ScanPass
  <1> USE DEF chainVars, mintVars, ghosts
  <1>1. CASE StartPage \/ StartSdk \/ LoseStore
    <2>1. client = "off" /\ scan' = scan
      BY <1>1 DEF StartPage, StartSdk, LoseStore
    <2> QED
      BY <2>1, NoScanType DEF ScanTypeOK
  <1>2. CASE Crash \/ Refresh
    BY <1>2, NoScanType DEF Crash, Refresh
  <1>3. CASE \/ Save \/ Reserve \/ ReserveFails \/ MintDirect \/ Probe \/ ProbeFails \/ Reconcile \/ Rotate
             \/ UNCHANGED vars
             \/ \E n \in 1 .. 2 : Take(n)
             \/ \E h \in SUBSET auths : Assemble(h)
             \/ \E t \in flight : Land(t)
             \/ \E i \in issued : Pay(i)
    BY <1>3 DEF Save, Reserve, ReserveFails, MintDirect, Probe, ProbeFails, Reconcile, Rotate, vars, Take,
                Assemble, Land, Pay
  <1> QED
    BY <1>1, <1>2, <1>3 DEF Next

\* How LookDone ends.
LEMMA LookDoneFacts ==
    ASSUME WalletTypeOK, ScanTypeOK, LookDone
    PROVE  /\ repo' = repo /\ utxos' = utxos /\ Reaches /\ scan'.upto = scan.upto /\ ~scan'.advanced
           /\ \/ scan.pc = "first" /\ scan'.pc = "fetch" /\ scan'.pass = scan.pass
              \/ scan.pc = "look" /\ scan'.pc = "pass" /\ scan'.pass = scan.pass /\ AnotherPass
              \/ scan.pc = "look" /\ scan'.pc = "done" /\ ~AnotherPass
  <1>1. scan \in Scans
    BY DEF ScanTypeOK
  <1>2. Reaches
    BY NothingBehind DEF LookDone
  <1>3. repo' = repo /\ utxos' = utxos
    BY DEF LookDone
  <1>4. CASE scan.pc = "first"
    <2>1. scan' = [scan EXCEPT !.pc = "fetch", !.advanced = FALSE]
      BY <1>4 DEF LookDone
    <2> QED
      BY <1>1, <1>2, <1>3, <1>4, <2>1 DEF Scans
  <1>5. CASE scan.pc = "look" /\ AnotherPass
    <2>1. scan' = [scan EXCEPT !.pc = "pass", !.advanced = FALSE]
      BY <1>5 DEF LookDone
    <2> QED
      BY <1>1, <1>2, <1>3, <1>5, <2>1 DEF Scans
  <1>6. CASE scan.pc = "look" /\ ~AnotherPass
    <2>1. scan' = [scan EXCEPT !.pc = "done", !.advanced = FALSE, !.pass = 0]
      BY <1>6 DEF LookDone
    <2> QED
      BY <1>1, <1>2, <1>3, <1>6, <2>1 DEF Scans
  <1> QED
    BY <1>4, <1>5, <1>6 DEF LookDone

LEMMA PassesStep ==
    ASSUME WalletTypeOK, Sessions, ScanTypeOK, Counters, Passes, WalletTypeOK', ScanTypeOK', [Next]_vars
    PROVE  Passes'
  <1>t. /\ scan.window \in Nat /\ scan.pass \in Nat /\ scan.advanced \in BOOLEAN
        /\ repo.next["self"] \in Nat /\ repo.next["incoming"] \in Nat
        /\ repo.matched["self"] \in -1 .. MaxIndex - 1 /\ repo.matched["incoming"] \in -1 .. MaxIndex - 1
        /\ MaxIndex \in Nat
    BY ScanTypes
  <1>u. /\ \A f \in Families : repo.next[f] \in Nat /\ repo.matched[f] \in Int
        /\ \A f \in Families : repo'.next[f] \in Nat /\ repo'.matched[f] \in Int
    BY WalletAssumption DEF ScanTypeOK, KeyRepos
  <1>s. scan \in Scans /\ scan' \in Scans
    BY DEF ScanTypeOK
  <1>1. CASE UNCHANGED <<repo, scan>>
    BY <1>1 DEF Passes, Reaches, Matches
  <1>2. CASE scan'.pc = "idle"
    BY <1>2 DEF Passes
  <1>3. CASE MarkDerived \/ MarkDirect \/ NextIncomingAddress
    <2>1. /\ repo'.matched = repo.matched /\ scan' = scan
          /\ \A f \in Families : repo.next[f] <= repo'.next[f]
      BY <1>3, RepoGrows
    <2>2. Reaches => Reaches'
      BY <1>t, <1>u, <2>1 DEF Reaches
    <2>3. Matches' = Matches
      BY <2>1 DEF Matches
    <2> QED
      BY <2>1, <2>2, <2>3 DEF Passes
  <1>4. ASSUME NEW w \in {Window, Window + ExtraWindow}, ScanStart(w) PROVE Passes'
    BY <1>4, ScanStartFacts DEF Passes
  <1>5. CASE Look
    <2>1. ~Reaches /\ scan.pc \in {"first", "look"}
      BY <1>5, NothingBehind DEF Look
    <2> DEFINE a == scan.advanced \/ Advances(Family)
    <2>2. scan' = [scan EXCEPT !.advanced = a]
      BY <1>5 DEF Look
    <2> HIDE DEF a
    <2>3. scan'.pc = scan.pc /\ scan'.pass = scan.pass
      BY <1>s, <2>2 DEF Scans
    <2>4. Matches' = Matches
      BY <1>5, LookFacts DEF Matches
    <2> QED
      BY <2>1, <2>3, <2>4 DEF Passes
  <1>6. CASE LookDone
    <2>1. repo' = repo /\ scan'.window = scan.window
      BY <1>6, LookDoneFacts, ScanningFacts
    <2>2. Reaches' /\ Matches' = Matches
      BY <1>6, <2>1, LookDoneFacts DEF Reaches, Matches
    <2> QED
      BY <1>6, <2>2, LookDoneFacts DEF Passes, AnotherPass
  <1>7. CASE Fetch
    <2> DEFINE n == Len(chain)
    <2>1. scan' = [scan EXCEPT !.pc = "pass", !.upto = n] /\ scan.pc = "fetch"
      BY <1>7 DEF Fetch
    <2> HIDE DEF n
    <2>2. scan'.pc = "pass" /\ scan'.pass = scan.pass /\ scan'.advanced = scan.advanced
      BY <1>s, <2>1 DEF Scans
    <2> QED
      BY <2>1, <2>2 DEF Passes
  <1>8. CASE ScanPass
    <2> DEFINE n == scan.pass + 1
    <2>1. scan' = [scan EXCEPT !.pc = "look", !.pass = n] /\ scan.pc = "pass"
      BY <1>8 DEF ScanPass
    <2> HIDE DEF n
    <2>2. /\ scan'.pc = "look" /\ scan'.pass = scan.pass + 1 /\ scan'.advanced = scan.advanced
          /\ scan'.window = scan.window
      BY <1>s, <2>1 DEF Scans, n
    <2>3. /\ repo'.next = repo.next
          /\ repo.matched["self"] <= repo'.matched["self"]
          /\ repo.matched["incoming"] <= repo'.matched["incoming"]
      BY <1>8, PassFacts DEF Families
    <2>4. repo'.matched["self"] \in Int /\ repo'.matched["incoming"] \in Int
      BY <1>u DEF Families
    <2>5. CASE repo'.matched["self"] = repo.matched["self"] /\ repo'.matched["incoming"] = repo.matched["incoming"]
      <3>1. Reaches => Reaches'
        BY <2>2, <2>3, <2>5 DEF Reaches, Families
      <3>2. ~scan'.advanced
        BY <2>1, <2>2 DEF Passes
      <3>3. Matches' = Matches /\ Matches \in Nat
        BY <1>t, <2>5 DEF Matches
      <3> QED
        BY <1>t, <2>1, <2>2, <3>1, <3>2, <3>3 DEF Passes
    <2>6. CASE repo'.matched["self"] # repo.matched["self"] \/ repo'.matched["incoming"] # repo.matched["incoming"]
      <3>1. Matches + 1 <= Matches' /\ Matches \in Nat /\ Matches' \in Int
        <4> DEFINE a == repo.matched["self"]
                   b == repo.matched["incoming"]
                   c == repo'.matched["self"]
                   d == repo'.matched["incoming"]
                   m == Matches'
        <4>1. Matches = a + b + 2 /\ m = c + d + 2
          BY DEF Matches
        <4>2. /\ a \in Int /\ b \in Int /\ c \in Int /\ d \in Int /\ a <= c /\ b <= d /\ -1 <= a /\ -1 <= b
              /\ a # c \/ b # d
          BY <1>t, <2>3, <2>4, <2>6
        <4> HIDE DEF a, b, c, d, m
        <4>3. Matches + 1 <= m /\ Matches \in Nat /\ m \in Int
          BY <4>1, <4>2
        <4> QED
          BY <4>3 DEF m
      <3>2. scan.pass <= Matches + 1
        BY <1>t, <2>1, <3>1 DEF Passes
      <3> QED
        BY <1>t, <2>2, <3>1, <3>2 DEF Passes
    <2> QED
      BY <2>5, <2>6
  <1> QED
    BY <1>1, <1>2, <1>3, <1>4, <1>5, <1>6, <1>7, <1>8, Elsewhere

\* The notes a restored wallet knows of without a gap limit.
Remembered(p) ==
    /\ client = "sdk"
    /\ IF chain[p].family = "self" THEN ~lost ELSE chain[p].index < scan.known[2]

\* Every note fetched whose key is registered was met, and is found if it opens.
Swept ==
    \A p \in 1 .. scan.upto : chain[p].index \in repo.tags[chain[p].family] =>
        /\ chain[p].index <= repo.matched[chain[p].family]
        /\ Opens(p) => p \in utxos

\* A pass finds what the wallet remembers; the lookahead reports nothing new only when
\* there is nothing left to sweep, or a key was handed out meanwhile.
Found ==
    /\ scan.pc \in {"look", "done"} \/ (scan.pc = "pass" /\ scan.pass # 0) =>
          \A p \in 1 .. scan.upto : Remembered(p) /\ Opens(p) => p \in utxos
    /\ scan.pc = "done" \/ (scan.pc = "look" /\ ~scan.advanced) => (Undisturbed => Swept)

\* The key of a note the wallet remembers is registered.
LEMMA RememberedRegistered ==
    ASSUME WalletInv, ScanTypeOK, Even, Counters, Registered,
           NEW p \in 1 .. scan.upto, Remembered(p)
    PROVE  chain[p].index \in repo.tags[chain[p].family]
  <1> DEFINE i == chain[p].index
             f == chain[p].family
  <1>t. /\ repo.issue \in Nat /\ scan.known[2] \in Nat /\ scan.upto \in Nat
    BY ScanTypes DEF WalletInv
  <1>1. p \in 1 .. Len(chain) /\ p \in DOMAIN chain /\ chain[p] \in Notes
    <2>1. chain \in Seq(Notes) /\ scan.upto <= Len(chain)
      BY DEF WalletInv, WalletTypeOK, ScanTypeOK
    <2> QED
      BY <1>t, <2>1
  <1>2. i \in Indices /\ f \in {"self", "incoming"} /\ i \notin OddY[f] /\ i \in Int
    <2>1. i \in Indices /\ f \in {"self", "incoming"} /\ i \notin OddY[f]
      BY <1>1 DEF Notes, Families, Even
    <2>2. \A j \in Indices : j \in Int
      BY DEF Indices
    <2> QED
      BY <2>1, <2>2
  <1>3. CASE f = "self"
    <2>1. client = "sdk" /\ ~lost /\ i \notin risk
      BY <1>3 DEF Remembered, WalletInv, Sessions
    <2>2. Chained(i) # {}
      BY <1>1, <1>3 DEF Chained
    <2>3. i < store /\ Listed(i) = {}
      BY <1>2, <2>1, <2>2, OneHolder DEF WalletInv, IndicesApart, Fresh, Passed
    <2>4. ASSUME take.pc = "mark", take.index = i PROVE FALSE
      <3>1. Allocated = Append(take.allocated, i) /\ take.allocated \in Seq(Indices)
        BY <2>4 DEF Allocated, WalletInv, WalletTypeOK, Takes
      <3> HIDE DEF i
      <3>2. Len(take.allocated) + 1 \in DOMAIN Allocated /\ Allocated[Len(take.allocated) + 1] = i
        BY <3>1
      <3> QED
        BY <2>3, <3>2 DEF Listed
    <2>5. i \in Evens
      BY <1>2, <1>3 DEF Evens
    <2> QED
      BY <1>3, <2>1, <2>3, <2>4, <2>5 DEF Registered
  <1>4. CASE f = "incoming"
    <2>1. i < scan.known[2] /\ scan.known[2] <= repo.issue
      BY <1>4 DEF Remembered, Counters
    <2>2. i < repo.issue
      BY <1>2, <1>t, <2>1
    <2> QED
      BY <1>2, <1>4, <2>2 DEF Registered
  <1> QED
    BY <1>2, <1>3, <1>4

LEMMA FoundStep ==
    ASSUME 2 * MaxIndex + 1 < MaxPasses,
           WalletInv, ScanTypeOK, Even, Counters, Registered, Passes, Found, [Next]_vars
    PROVE  Found'
  <1>w. WalletTypeOK /\ Sessions
    BY DEF WalletInv
  <1>t. /\ repo.mint \in Nat /\ repo.issue \in Nat /\ scan.known[1] \in Nat /\ scan.known[2] \in Nat
        /\ scan.pass \in Nat /\ scan.upto \in Nat /\ scan.advanced \in BOOLEAN
        /\ repo.matched["self"] \in -1 .. MaxIndex - 1 /\ repo.matched["incoming"] \in -1 .. MaxIndex - 1
        /\ MaxIndex \in Nat /\ MaxPasses \in Nat
    BY <1>w, ScanTypes, WalletAssumption
  <1>s. scan \in Scans
    BY DEF ScanTypeOK
  <1>p. \A p \in 1 .. scan.upto : chain'[p] = chain[p]
    <2>1. scan.upto <= Len(chain) /\ Len(chain) \in Nat /\ \A p \in 1 .. Len(chain) : chain'[p] = chain[p]
      BY <1>w, ChainGrows DEF ScanTypeOK
    <2>2. \A p \in 1 .. scan.upto : p \in 1 .. Len(chain)
      BY <1>t, <2>1
    <2> QED
      BY <2>1, <2>2
  <1>1. CASE UNCHANGED <<repo, scan, utxos, client, history, lost>>
    <2>1. ASSUME NEW p \in 1 .. scan.upto PROVE Opens(p)' = Opens(p) /\ Remembered(p)' = Remembered(p)
      BY <1>1, <1>p DEF Opens, KnownVersions, Remembered
    <2>2. Swept => Swept'
      BY <1>1, <1>p, <2>1 DEF Swept
    <2>3. Undisturbed' = Undisturbed
      BY <1>1 DEF Undisturbed
    <2> QED
      BY <1>1, <2>1, <2>2, <2>3 DEF Found
  <1>2. CASE scan'.pc = "idle"
    BY <1>2 DEF Found
  <1>3. CASE MarkDerived \/ MarkDirect \/ NextIncomingAddress
    <2>1. /\ UNCHANGED <<chain, client, history, scan, utxos, lost>>
          /\ \/ repo' = repo
             \/ repo.mint < repo'.mint /\ repo'.issue = repo.issue
             \/ repo.issue < repo'.issue /\ repo'.mint = repo.mint
          /\ repo' \in KeyRepos
      BY <1>3, <1>w, RepoGrows
    <2>2. CASE repo' = repo
      BY <1>1, <2>1, <2>2
    <2>3. CASE repo.mint < repo'.mint \/ repo.issue < repo'.issue
      <3>1. repo'.mint \in Nat /\ repo'.issue \in Nat
        BY <2>1 DEF KeyRepos
      <3>2. scan.known[1] # repo'.mint \/ scan.known[2] # repo'.issue
        BY <1>t, <2>3, <3>1 DEF Counters
      <3>3. ~Undisturbed'
        BY <2>1, <3>2 DEF Undisturbed
      <3>4. ASSUME NEW p \in 1 .. scan.upto PROVE Opens(p)' = Opens(p) /\ Remembered(p)' = Remembered(p)
        BY <2>1 DEF Opens, KnownVersions, Remembered
      <3> QED
        BY <2>1, <3>3, <3>4 DEF Found
    <2> QED
      BY <2>1, <2>2, <2>3
  <1>4. ASSUME NEW w \in {Window, Window + ExtraWindow}, ScanStart(w) PROVE Found'
    BY <1>4, <1>w, ScanStartFacts DEF Found
  <1>5. ASSUME Look \/ LookDone \/ Fetch \/ ScanPass
        PROVE  /\ \A p \in 1 .. scan.upto : Opens(p)' = Opens(p) /\ Remembered(p)' = Remembered(p)
               /\ Undisturbed' = Undisturbed
    <2>1. UNCHANGED <<chain, client, history, lost>> /\ scan'.known = scan.known /\ repo'.mint = repo.mint
          /\ repo'.issue = repo.issue
      BY <1>5, <1>w, ScanningFacts
    <2> QED
      BY <2>1 DEF Opens, KnownVersions, Remembered, Undisturbed
  <1>6. CASE Look
    <2> DEFINE a == scan.advanced \/ Advances(Family)
    <2>1. scan' = [scan EXCEPT !.advanced = a] /\ scan.pc \in {"first", "look"} /\ UNCHANGED <<utxos, chain>>
      BY <1>6 DEF Look, chainVars
    <2>2. ~a => ~scan.advanced /\ Extended(Family).tags = repo.tags
      BY DEF Advances
    <2>3. repo' = Extended(Family) /\ repo'.matched = repo.matched
      BY <1>6, LookFacts DEF Look
    <2>4. a \in BOOLEAN
      OBVIOUS
    <2> HIDE DEF a
    <2>5. scan'.pc = scan.pc /\ scan'.upto = scan.upto /\ scan'.pass = scan.pass /\ scan'.advanced = a
      BY <1>s, <2>1 DEF Scans
    <2>6. ~a => (Swept => Swept')
      BY <1>5, <1>6, <2>1, <2>2, <2>3, <2>5 DEF Swept
    <2> QED
      BY <1>5, <1>6, <2>1, <2>2, <2>5, <2>6 DEF Found
  <1>7. CASE LookDone
    <2>1. /\ repo' = repo /\ utxos' = utxos /\ scan'.upto = scan.upto /\ chain' = chain
          /\ \/ scan.pc = "first" /\ scan'.pc = "fetch"
             \/ scan.pc = "look" /\ scan'.pc = "pass"
             \/ scan.pc = "look" /\ scan'.pc = "done" /\ ~AnotherPass
      BY <1>7, <1>w, LookDoneFacts DEF LookDone, chainVars
    <2>2. ASSUME scan.pc = "look", ~AnotherPass PROVE ~scan.advanced
      <3>1. Matches <= 2 * MaxIndex /\ Matches \in Int
        BY <1>t DEF Matches
      <3>2. ASSUME scan.advanced PROVE FALSE
        <4>1. ~ (scan.pass < MaxPasses) /\ scan.pass <= Matches + 1
          BY <2>2, <3>2 DEF AnotherPass, Passes
        <4> QED
          BY <1>t, <3>1, <4>1
      <3> QED
        BY <3>2
    <2>3. Swept => Swept'
      BY <1>5, <1>7, <2>1 DEF Swept
    <2> QED
      BY <1>5, <1>7, <2>1, <2>2, <2>3 DEF Found
  <1>8. CASE Fetch
    <2> DEFINE n == Len(chain)
    <2>1. scan' = [scan EXCEPT !.pc = "pass", !.upto = n] /\ scan.pc = "fetch"
      BY <1>8 DEF Fetch
    <2> HIDE DEF n
    <2>2. scan'.pc = "pass" /\ scan'.pass = 0
      BY <1>s, <2>1 DEF Scans, Passes
    <2> QED
      BY <2>2 DEF Found
  <1>9. CASE ScanPass
    <2> DEFINE n == scan.pass + 1
    <2>1. scan' = [scan EXCEPT !.pc = "look", !.pass = n]
      BY <1>9 DEF ScanPass
    <2> HIDE DEF n
    <2>2. scan'.pc = "look" /\ scan'.upto = scan.upto
      BY <1>s, <2>1 DEF Scans
    <2>3. /\ repo'.tags = repo.tags
          /\ \A p \in 1 .. scan.upto : chain[p].index \in repo.tags[chain[p].family] =>
                /\ chain[p].index <= repo'.matched[chain[p].family]
                /\ Opens(p) => p \in utxos'
      BY <1>9, <1>w, PassFacts
    <2>4. Swept'
      BY <1>5, <1>9, <1>p, <2>2, <2>3 DEF Swept
    <2>5. \A p \in 1 .. scan.upto : Remembered(p) /\ Opens(p) => p \in utxos'
      BY <2>3, RememberedRegistered
    <2> QED
      BY <1>5, <1>9, <2>2, <2>4, <2>5 DEF Found
  <1> QED
    BY <1>1, <1>2, <1>3, <1>4, <1>6, <1>7, <1>8, <1>9, Elsewhere

ScanInv == ScanTypeOK /\ Even /\ Counters /\ Registered /\ Passes /\ Found

LEMMA ScanInvInit == Init => ScanInv
  <1> SUFFICES ASSUME Init PROVE ScanInv
    OBVIOUS
  <1>0. /\ client = "off" /\ repo = EmptyRepo /\ scan = NoScan /\ take = NoTake /\ chain = <<>>
        /\ NoTake.pc = "idle" /\ NoTake.allocated = <<>> /\ ready = <<>> /\ auths = {} /\ flight = {}
    BY DEF Init, NoTake
  <1>f. "self" \in Families /\ "incoming" \in Families
    BY DEF Families
  <1>z. \A i \in Indices : ~ (i < 0)
    BY WalletAssumption DEF Indices
  <1>1. ScanTypeOK
    <2>1. KeyRepoState(EmptyRepo) \in KeyRepoStates
      BY EmptyRepoWhole DEF KeyRepoState, KeyRepos, KeyRepoStates
    <2>2. Len(chain) = 0 /\ saved = KeyRepoState(EmptyRepo)
      BY <1>0 DEF Init
    <2> QED
      BY <1>0, <2>1, <2>2, EmptyRepoWhole, NoScanType DEF ScanTypeOK
  <1>2. Even
    <2>1. <<>> \in Seq(Evens) /\ Len(chain) = 0
      BY <1>0
    <2>2. issued \cap OddY["incoming"] = {}
      BY DEF Init
    <2> QED
      BY <1>0, <2>1, <2>2 DEF Even
  <1>3. Counters
    BY <1>0, EmptyRepoWhole, NoScanType DEF Counters
  <1>4. Registered
    BY <1>0, <1>f, <1>z, EmptyRepoWhole DEF Registered
  <1>5. Passes /\ Found
    BY <1>0, NoScanType DEF Passes, Found
  <1> QED
    BY <1>1, <1>2, <1>3, <1>4, <1>5 DEF ScanInv

LEMMA ScanInvariant == ASSUME 2 * MaxIndex + 1 < MaxPasses PROVE Spec => []ScanInv
  <1>1. Init => ScanInv
    BY ScanInvInit
  <1>2. WalletInv /\ WalletInv' /\ ScanInv /\ [Next]_vars => ScanInv'
    <2> SUFFICES ASSUME WalletInv, WalletInv', ScanInv, [Next]_vars PROVE ScanInv'
      OBVIOUS
    <2>1. ScanTypeOK'
      BY ScanTypeStep DEF WalletInv, ScanInv
    <2>2. Even' /\ Counters' /\ Registered'
      BY EvenStep, CountersStep, RegisteredStep DEF WalletInv, ScanInv
    <2>3. Passes'
      BY <2>1, PassesStep DEF WalletInv, ScanInv
    <2>4. Found'
      BY FoundStep DEF ScanInv
    <2> QED
      BY <2>1, <2>2, <2>3, <2>4 DEF ScanInv
  <1> QED
    BY <1>1, <1>2, WalletInvariant, PTL DEF Spec

\* Under a sweep that reaches its window, the keys within the gap limit are registered.
LEMMA GapRegistered ==
    ASSUME WalletTypeOK, ScanTypeOK, Even, Reaches, Swept,
           NEW f \in Families, Whole(repo, f), NEW used,
           used = {chain[q].index : q \in {r \in 1 .. scan.upto : chain[r].family = f}},
           NEW i \in WithinGap(used, scan.window)
    PROVE  i \in repo.tags[f]
  <1> SUFFICES ASSUME i \notin repo.tags[f] PROVE FALSE
    OBVIOUS
  <1> DEFINE missing == {j \in used : j <= i /\ j \notin repo.tags[f]}
             k == Min(missing)
  <1>1. \A q \in 1 .. scan.upto : chain[q] \in Notes /\ chain[q].index \notin OddY[chain[q].family]
    <2>1. chain \in Seq(Notes) /\ scan.upto <= Len(chain) /\ scan.upto \in Nat /\ Len(chain) \in Nat
      BY DEF WalletTypeOK, ScanTypeOK, Scans
    <2>2. \A q \in 1 .. scan.upto : q \in 1 .. Len(chain)
      BY <2>1
    <2> QED
      BY <2>1, <2>2 DEF Even
  <1>2. \A j \in used : j \in Indices /\ j \notin OddY[f]
    BY <1>1 DEF Notes
  <1>3. \A j \in used : j \in Nat
    BY <1>2, WalletAssumption DEF Indices
  <1>4. \A j \in used : j \in repo.tags[f] => j <= repo.matched[f]
    BY DEF Swept
  <1>5. i \in used /\ \A j \in used : j <= i => \E m \in used \cup {-1} : m < j /\ j <= m + scan.window
    BY DEF WithinGap
  <1> HIDE DEF k
  <1>6. k \in missing /\ \A y \in missing : k <= y
    <2>1. missing \in SUBSET Nat /\ missing # {}
      BY <1>3, <1>5
    <2> HIDE DEF missing
    <2> QED
      BY <2>1, LeastIndex DEF k
  <1>7. PICK m \in used \cup {-1} : m < k /\ k <= m + scan.window
    BY <1>5, <1>6
  <1>8. /\ repo.next[f] \in Nat /\ repo.matched[f] \in Int /\ -1 <= repo.matched[f] /\ scan.window \in Nat
        /\ repo.matched[f] + 1 + scan.window <= repo.next[f]
    BY WalletAssumption DEF ScanTypeOK, KeyRepos, Scans, Reaches
  <1>9. m <= repo.matched[f] /\ m \in Int
    <2>1. CASE m = -1
      BY <1>8, <2>1
    <2>2. CASE m \in used
      <3>1. m <= i /\ m \notin missing
        <4>1. m \in Nat /\ k \in Nat /\ i \in Nat /\ k <= i
          BY <1>3, <1>5, <1>6, <2>2
        <4>2. m <= i /\ ~ (k <= m)
          BY <1>7, <4>1
        <4>3. m \notin missing
          BY <1>6, <4>2
        <4> QED
          BY <4>2, <4>3
      <3> QED
        BY <1>3, <1>4, <2>2, <3>1
    <2> QED
      BY <2>1, <2>2
  <1>10. k < repo.next[f]
    BY <1>3, <1>6, <1>7, <1>8, <1>9
  <1>11. k \in repo.tags[f]
    BY <1>2, <1>6, <1>10 DEF Whole
  <1> QED
    BY <1>6, <1>11

\* A finished scan has found every note fetched that the wallet can know of (KeyRepository.restore,
\* ScanEngine, MultisigScanEngine), for every number of indices, every window, every choice of odd
\* points and any interleaving of the scan with mints, payments, rotations and crashes, as long as the
\* passes the scan is allowed are more than the matches it can make.
THEOREM WalletScanComplete == ASSUME 2 * MaxIndex + 1 < MaxPasses PROVE Spec => []ScanComplete
  <1>1. WalletInv /\ ScanInv => ScanComplete
    <2> SUFFICES ASSUME WalletInv, ScanInv, scan.pc = "done", NEW p \in 1 .. scan.upto, Opens(p)
                 PROVE  LET f == chain[p].family
                            used == {chain[q].index : q \in {r \in 1 .. scan.upto : chain[r].family = f}}
                            undisturbed == /\ <<repo.mint, repo.issue>> = scan.known
                                           /\ f = "self" /\ lost => AllRegistered(f)
                        IN  \/ Remembered(p)
                            \/ undisturbed /\ chain[p].index \in WithinGap(used, scan.window)
                            => p \in utxos
      BY DEF ScanComplete, Remembered
    <2> DEFINE f == chain[p].family
               used == {chain[q].index : q \in {r \in 1 .. scan.upto : chain[r].family = f}}
    <2>1. Remembered(p) => p \in utxos
      BY DEF ScanInv, Found
    <2>2. ASSUME <<repo.mint, repo.issue>> = scan.known, f = "self" /\ lost => AllRegistered(f),
                 chain[p].index \in WithinGap(used, scan.window)
          PROVE  p \in utxos
      <3>1. Undisturbed /\ Swept /\ Reaches
        BY <2>2 DEF Undisturbed, ScanInv, Found, Passes
      <3>2. f \in Families
        <4>1. chain \in Seq(Notes) /\ scan.upto <= Len(chain) /\ scan.upto \in Nat /\ Len(chain) \in Nat
          BY DEF WalletInv, WalletTypeOK, ScanInv, ScanTypeOK, Scans
        <4>2. p \in 1 .. Len(chain)
          BY <4>1
        <4>3. chain[p] \in Notes
          BY <4>1, <4>2
        <4> QED
          BY <4>3 DEF Notes
      <3>3. Whole(repo, f)
        <4>1. CASE f = "incoming"
          BY <4>1 DEF ScanInv, Registered
        <4>2. CASE f = "self" /\ lost
          BY <2>2, <4>2 DEF AllRegistered, Whole
        <4>3. CASE f = "self" /\ ~lost
          BY <3>1, <4>3 DEF ScanInv, Registered
        <4> QED
          BY <3>2, <4>1, <4>2, <4>3 DEF Families, WalletInv, WalletTypeOK
      <3> DEFINE u == used
                 i == chain[p].index
                 g == f
      <3>4. /\ g \in Families /\ Whole(repo, g) /\ i \in WithinGap(u, scan.window)
            /\ u = {chain[q].index : q \in {r \in 1 .. scan.upto : chain[r].family = g}}
        BY <2>2, <3>2, <3>3
      <3>5. WalletTypeOK /\ ScanTypeOK /\ Even
        BY DEF WalletInv, ScanInv
      <3> HIDE DEF u, i, g
      <3>6. i \in repo.tags[g]
        BY <3>1, <3>4, <3>5, GapRegistered
      <3> QED
        BY <3>1, <3>6 DEF Swept, i, g
    <2> QED
      BY <2>1, <2>2
  <1> QED
    BY <1>1, WalletInvariant, ScanInvariant, PTL

=============================================================================
