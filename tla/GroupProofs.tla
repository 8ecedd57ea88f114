----------------------------- MODULE GroupProofs -----------------------------
(***************************************************************************)
(* A FROST treasury for any number of members, runs, proposals and         *)
(* commands: one roster, one key, no nonce used twice, and no transaction  *)
(* without a quorum.                                                       *)
(***************************************************************************)
EXTENDS Group, FiniteSetTheorems, TLAPS

Identities == [member : Members, key : Nat]
Polynomials == Members \X Nat
Announces == [id : Identities, run : Nat]
Dealings == [dealer : Identities, run : Nat, boxes : SUBSET Identities]
Keys == [gpk : SUBSET Polynomials, public : SUBSET Polynomials]
NonceRefs == [id : Members, no : Nat]

\* The sign and the execute command a member may run; a proposal's text is
\* whatever was read.
SignCommands == [op : {"sign"}, pid : ProposalIds, no : Nat, text : Texts]
ExecuteCommands == [op : {"execute"}, pid : ProposalIds, text : Texts, over : SUBSET NonceRefs]

GroupTypeOK ==
    /\ dkg1 \subseteq Announces
    /\ dkg2 \subseteq Dealings
    /\ proposals \in Seq([pid : ProposalIds, text : Texts, key : Keys])
    /\ nonces \subseteq [pid : ProposalIds, id : Members, no : Nat, key : Keys]
    /\ shares \subseteq [pid : ProposalIds, id : Members, no : Nat, over : SUBSET NonceRefs,
                         text : Texts, key : Keys]
    /\ pc \in [Members -> {"announce", "roster", "deal", "combine", "member", "failed"}]
    /\ run \in [Members -> Nat]
    /\ roster \in [Members -> SUBSET Identities]
    /\ record \in [Members -> Keys]
    /\ signing \in [Members -> SignCommands \cup {None}]
    /\ nonceNo \in [Members -> Nat]
    /\ executing \in [Members -> ExecuteCommands \cup {None}]
    /\ again \in Nat

-----------------------------------------------------------------------------
(* Operators                                                               *)

\* A nonempty set of numbers has a least element, which Min picks.
LEMMA MinOfNumbers ==
    ASSUME NEW S \in SUBSET Nat, S # {}
    PROVE  Min(S) \in S /\ \A y \in S : Min(S) <= y
  <1> DEFINE below == {0 .. x : x \in S}
  <1>1. ASSUME NEW x \in S PROVE 0 .. x \in FiniteSubsetsOf(Nat)
    <2>1. IsFiniteSet(0 .. x)
      BY FS_Interval
    <2>2. 0 .. x \subseteq Nat
      OBVIOUS
    <2> QED
      BY <2>1, <2>2 DEF FiniteSubsetsOf
  <1>2. PICK b \in below : \A c \in below : <<c, b>> \notin StrictSubsetOrdering(Nat)
    <2>1. below \subseteq FiniteSubsetsOf(Nat) /\ below # {}
      BY <1>1
    <2>2. IsWellFoundedOn(StrictSubsetOrdering(Nat), FiniteSubsetsOf(Nat))
      BY FS_StrictSubsetOrderingWellFounded
    <2> HIDE DEF below
    <2> QED
      BY <2>1, <2>2, WFMin
  <1>3. PICK x \in S : b = 0 .. x
    OBVIOUS
  <1>4. ASSUME NEW y \in S, y < x PROVE FALSE
    <2>1. 0 .. y \subseteq 0 .. x /\ x \in 0 .. x /\ x \notin 0 .. y
      BY <1>4
    <2>2. 0 .. y \in SUBSET Nat /\ 0 .. x \in SUBSET Nat /\ 0 .. y # 0 .. x
      BY <2>1
    <2>3. <<0 .. y, 0 .. x>> \in StrictSubsetOrdering(Nat)
      BY <2>1, <2>2 DEF StrictSubsetOrdering
    <2> QED
      BY <1>2, <1>3, <2>3
  <1>5. \A y \in S : x =< y
    BY <1>4
  <1> QED
    BY <1>5 DEF Min

LEMMA IdentityType ==
    ASSUME GroupTypeOK, NEW m \in Members
    PROVE  Identity(m) \in Identities /\ Identity(m).member = m
  BY DEF GroupTypeOK, Identity, Identities

\* What fetchProposal returns is a text that was proposed.
LEMMA FetchedText ==
    ASSUME GroupTypeOK, NEW m \in Members, NEW p \in ProposalIds, Matching(m, p) # {}
    PROVE  FetchProposal(m, p) \in Texts
  <1>1. Matching(m, p) \subseteq 1 .. Len(proposals) /\ Matching(m, p) \in SUBSET Nat
    BY DEF Matching, GroupTypeOK
  <1>2. Min(Matching(m, p)) \in 1 .. Len(proposals)
    BY <1>1, MinOfNumbers
  <1> DEFINE P == [pid : ProposalIds, text : Texts, key : Keys]
  <1>3. proposals \in Seq(P) /\ \A q \in P : q.text \in Texts
    BY DEF GroupTypeOK
  <1> HIDE DEF P
  <1> QED
    BY <1>2, <1>3 DEF FetchProposal

\* decodeUnique keeps one nonce number of each signer.
LEMMA CommitmentsUnique ==
    ASSUME GroupTypeOK, NEW m \in Members, NEW p \in ProposalIds
    PROVE  /\ Commitments(m, p) \subseteq NonceRefs
           /\ \A c, d \in Commitments(m, p) : c.id = d.id => c = d
  <1> DEFINE latest == DecodeUnique(m, nonces, p)
  <1>1. latest \subseteq [pid : ProposalIds, id : Members, no : Nat, key : Keys]
    BY DEF DecodeUnique, GroupTypeOK
  <1>2. \A e, f \in latest : e.id = f.id => e.no = f.no
    BY <1>1 DEF DecodeUnique
  <1> QED
    BY <1>1, <1>2 DEF Commitments, NonceRefs

LEMMA SummedType ==
    ASSUME GroupTypeOK
    PROVE  [gpk |-> Summed(dkg2), public |-> LatestOf(dkg2)] \in Keys
  <1>1. Summed(dkg2) \subseteq Polynomials
    BY DEF GroupTypeOK, Summed, Dealings, Identities, Polynomials
  <1>2. LatestOf(dkg2) \subseteq Summed(dkg2)
    BY DEF LatestOf
  <1> QED
    BY <1>1, <1>2 DEF Keys

-----------------------------------------------------------------------------
(* Types                                                                   *)

LEMMA InitType == Init => GroupTypeOK
  <1> SUFFICES ASSUME Init PROVE GroupTypeOK
    OBVIOUS
  <1>1. NoRecord \in Keys
    BY DEF NoRecord, Keys
  <1> QED
    BY <1>1 DEF Init, GroupTypeOK

LEMMA CeremonyType ==
    ASSUME GroupTypeOK, NEW m \in Members,
           CeremonyStep(m) \/ CeremonyStops(m) \/ JoinAgain(m)
    PROVE  GroupTypeOK'
  <1> USE DEF session, commands
  <1>0. Identity(m) \in Identities
    BY IdentityType
  <1>1. CASE Announce(m)
    <2>1. [id |-> Identity(m), run |-> run[m]] \in Announces
      BY <1>0 DEF Announces, GroupTypeOK
    <2> QED
      BY <1>1, <2>1 DEF Announce, GroupTypeOK
  <1>2. CASE Roster(m)
    <2>1. {a.id : a \in dkg1} \in SUBSET Identities
      BY DEF GroupTypeOK, Announces
    <2> QED
      BY <1>2, <2>1 DEF Roster, GroupTypeOK
  <1>3. CASE Deal(m)
    <2>1. [dealer |-> Identity(m), run |-> run[m], boxes |-> roster[m]] \in Dealings
      BY <1>0 DEF Dealings, GroupTypeOK
    <2> QED
      BY <1>3, <2>1 DEF Deal, GroupTypeOK
  <1>4. CASE Combine(m)
    BY <1>4, SummedType DEF Combine, GroupTypeOK
  <1>5. CASE CeremonyStops(m)
    BY <1>5 DEF CeremonyStops, GroupTypeOK
  <1>6. CASE JoinAgain(m)
    BY <1>6 DEF JoinAgain, GroupTypeOK
  <1> QED
    BY <1>1, <1>2, <1>3, <1>4, <1>5, <1>6 DEF CeremonyStep

LEMMA ProposalType ==
    ASSUME GroupTypeOK, NEW m \in Members,
           \/ \E p \in ProposalIds, t \in Texts : Propose(m, p, t)
           \/ \E p \in ProposalIds : SignCommit(m, p) \/ ExecuteRead(m, p)
           \/ SignShare(m) \/ SignStops(m) \/ Aggregate(m) \/ ExecuteStops(m)
    PROVE  GroupTypeOK'
  <1> USE DEF session, ceremony, commands
  <1>0. record[m] \in Keys /\ nonceNo[m] \in Nat
    BY DEF GroupTypeOK
  <1>1. ASSUME NEW p \in ProposalIds, NEW t \in Texts, Propose(m, p, t) PROVE GroupTypeOK'
    BY <1>0, <1>1 DEF Propose, GroupTypeOK
  <1>2. ASSUME NEW p \in ProposalIds, SignCommit(m, p) PROVE GroupTypeOK'
    <2>1. FetchProposal(m, p) \in Texts
      BY <1>2, FetchedText DEF SignCommit
    <2>2. [op |-> "sign", pid |-> p, no |-> nonceNo[m] + 1, text |-> FetchProposal(m, p)] \in SignCommands
      BY <1>0, <2>1 DEF SignCommands
    <2>3. again' \in Nat
      BY <1>2 DEF SignCommit, GroupTypeOK
    <2> QED
      BY <1>0, <1>2, <2>2, <2>3 DEF SignCommit, GroupTypeOK
  <1>3. ASSUME NEW p \in ProposalIds, ExecuteRead(m, p) PROVE GroupTypeOK'
    <2>1. FetchProposal(m, p) \in Texts
      BY <1>3, FetchedText DEF ExecuteRead
    <2>2. [op |-> "execute", pid |-> p, text |-> FetchProposal(m, p), over |-> Commitments(m, p)]
            \in ExecuteCommands
      BY <2>1, CommitmentsUnique DEF ExecuteCommands
    <2> QED
      BY <1>3, <2>2 DEF ExecuteRead, GroupTypeOK
  <1>4. CASE SignShare(m)
    <2>1. signing[m] \in SignCommands
      BY <1>4 DEF SignShare, GroupTypeOK
    <2>2. signing[m].pid \in ProposalIds /\ signing[m].no \in Nat /\ signing[m].text \in Texts
      BY <2>1 DEF SignCommands
    <2>3. Commitments(m, signing[m].pid) \subseteq NonceRefs
      BY <2>2, CommitmentsUnique
    <2> QED
      BY <1>0, <1>4, <2>2, <2>3 DEF SignShare, GroupTypeOK
  <1>5. CASE SignStops(m)
    BY <1>5 DEF SignStops, GroupTypeOK
  <1>6. CASE Aggregate(m)
    BY <1>6 DEF Aggregate, GroupTypeOK
  <1>7. CASE ExecuteStops(m)
    BY <1>7 DEF ExecuteStops, GroupTypeOK
  <1> QED
    BY <1>1, <1>2, <1>3, <1>4, <1>5, <1>6, <1>7

LEMMA NextType == GroupTypeOK /\ [Next]_vars => GroupTypeOK'
  <1> SUFFICES ASSUME GroupTypeOK, [Next]_vars PROVE GroupTypeOK'
    OBVIOUS
  <1>1. CASE UNCHANGED vars
    BY <1>1 DEF vars, session, ceremony, commands, GroupTypeOK
  <1> QED
    BY <1>1, CeremonyType, ProposalType DEF Next

-----------------------------------------------------------------------------
(* The inductive invariant                                                 *)

Announced == {a.id : a \in dkg1}
PastRoundOne == {"deal", "combine", "member"}

\* A roster once read is a set of as many identities as there are members, all
\* announced: a later reader that finds N identities finds the same.
Rosters ==
    /\ IsFiniteSet(Announced)
    /\ \A m \in Members : pc[m] \in PastRoundOne =>
        roster[m] \subseteq Announced /\ Cardinality(roster[m]) = N
    /\ OneRoster

\* A record is the sum of at least N of the dealings in the session.
KeyOf(D) == [gpk |-> Summed(D), public |-> LatestOf(D)]
Records ==
    \A m \in Members : pc[m] = "member" =>
        \E D \in SUBSET dkg2 : Cardinality(D) >= N /\ record[m] = KeyOf(D)

\* A nonce that may still be used is the newest of its member and in no share.
Nonces ==
    /\ \A s \in shares : s.no <= nonceNo[s.id]
    /\ \A m \in Members : signing[m] # None =>
        /\ signing[m].no = nonceNo[m]
        /\ \A s \in shares : s.id = m => s.no < signing[m].no
    /\ NonceSignsOnce

\* A list of commitments under execution names a quorum of signers.
Quorums ==
    /\ \A m \in Members : executing[m] # None =>
        Cardinality({c.id : c \in executing[m].over}) >= Threshold
    /\ QuorumSigned

GroupInv == GroupTypeOK /\ Rosters /\ Records /\ Nonces /\ Quorums

LEMMA InitGroupInv == Init => GroupInv
  <1> SUFFICES ASSUME Init PROVE GroupInv
    OBVIOUS
  <1>1. IsFiniteSet(Announced)
    BY FS_EmptySet DEF Init, Announced
  <1> QED
    BY <1>1, InitType
    DEF Init, GroupInv, Rosters, Records, Nonces, Quorums, NonceSignsOnce, QuorumSigned, PastRoundOne, OneRoster

\* Steps that leave the ceremony alone.
LEMMA CeremonyKept ==
    ASSUME Rosters, Records, UNCHANGED <<dkg1, dkg2, pc, roster, record>>
    PROVE  Rosters' /\ Records'
  BY DEF Rosters, OneRoster, Records, Announced, KeyOf, Summed, LatestOf

LEMMA RostersKept ==
    ASSUME GroupInv, NEW m \in Members,
           CeremonyStep(m) \/ CeremonyStops(m) \/ JoinAgain(m)
    PROVE  Rosters'
  <1> USE DEF session, commands, GroupInv, GroupTypeOK, PastRoundOne, OneRoster
  <1>1. CASE Announce(m)
    <2> DEFINE a == [id |-> Identity(m), run |-> run[m]]
    <2>0. dkg1' = dkg1 \cup {a} /\ a.id = Identity(m)
      BY <1>1 DEF Announce
    <2> HIDE DEF a
    <2>1. Announced' = Announced \cup {Identity(m)}
      BY <2>0 DEF Announced
    <2>2. IsFiniteSet(Announced')
      BY <2>1, FS_AddElement DEF Rosters
    <2> QED
      BY <1>1, <2>1, <2>2 DEF Announce, Rosters
  <1>2. CASE Roster(m)
    <2>1. CASE /\ Cardinality(Announced) = N
               /\ roster' = [roster EXCEPT ![m] = Announced]
               /\ pc' = [pc EXCEPT ![m] = "deal"] /\ UNCHANGED dkg1
      <3>1. \A n \in Members : pc[n] \in PastRoundOne => roster[n] = Announced
        BY <2>1, FS_Subset DEF Rosters
      <3>2. \A n \in Members : pc'[n] \in PastRoundOne => roster'[n] = Announced
        BY <2>1, <3>1
      <3>3. Announced' = Announced
        BY <2>1 DEF Announced
      <3> QED
        BY <2>1, <3>2, <3>3 DEF Rosters
    <2>2. CASE pc' = [pc EXCEPT ![m] = "failed"] /\ UNCHANGED <<roster, dkg1>>
      BY <2>2 DEF Rosters, Announced
    <2> QED
      BY <1>2, <2>1, <2>2 DEF Roster, Announced
  <1>3. CASE Deal(m)
    BY <1>3 DEF Deal, Rosters, Announced
  <1>4. CASE Combine(m)
    <2>1. \A n \in Members : pc'[n] \in PastRoundOne => pc[n] \in PastRoundOne
      BY <1>4 DEF Combine
    <2>2. UNCHANGED <<dkg1, roster>>
      BY <1>4 DEF Combine
    <2> QED
      BY <2>1, <2>2 DEF Rosters, Announced
  <1>5. CASE CeremonyStops(m)
    BY <1>5 DEF CeremonyStops, Rosters, Announced
  <1>6. CASE JoinAgain(m)
    BY <1>6 DEF JoinAgain, Rosters, Announced
  <1> QED
    BY <1>1, <1>2, <1>3, <1>4, <1>5, <1>6 DEF CeremonyStep

LEMMA RecordsKept ==
    ASSUME GroupInv, NEW m \in Members,
           CeremonyStep(m) \/ CeremonyStops(m) \/ JoinAgain(m)
    PROVE  Records'
  <1> USE DEF session, commands, GroupInv, GroupTypeOK
  <1>1. CASE Announce(m)
    BY <1>1 DEF Announce, Records
  <1>2. CASE Roster(m)
    BY <1>2 DEF Roster, Records
  <1>3. CASE Deal(m)
    <2>1. dkg2 \subseteq dkg2'
      BY <1>3 DEF Deal
    <2> QED
      BY <1>3, <2>1 DEF Deal, Records
  <1>4. CASE Combine(m)
    <2>1. CASE pc' = [pc EXCEPT ![m] = "failed"] /\ UNCHANGED <<record, dkg2>>
      BY <2>1 DEF Records
    <2>2. CASE /\ record' = [record EXCEPT ![m] = KeyOf(dkg2)]
               /\ pc' = [pc EXCEPT ![m] = "member"]
               /\ UNCHANGED dkg2 /\ Cardinality(dkg2) >= N
      <3>1. ASSUME NEW n \in Members, pc'[n] = "member"
            PROVE  \E D \in SUBSET dkg2 : Cardinality(D) >= N /\ record'[n] = KeyOf(D)
        <4>1. CASE n = m
          BY <2>2, <4>1
        <4>2. CASE n # m
          BY <2>2, <3>1, <4>2 DEF Records
        <4> QED
          BY <4>1, <4>2
      <3> QED
        BY <2>2, <3>1 DEF Records
    <2> QED
      BY <1>4, <2>1, <2>2 DEF Combine, KeyOf
  <1>5. CASE CeremonyStops(m)
    BY <1>5 DEF CeremonyStops, Records
  <1>6. CASE JoinAgain(m)
    BY <1>6 DEF JoinAgain, Records
  <1> QED
    BY <1>1, <1>2, <1>3, <1>4, <1>5, <1>6 DEF CeremonyStep

\* Steps of the ceremony touch neither proposals nor commands.
LEMMA CommandsKept ==
    ASSUME Nonces, Quorums, UNCHANGED <<shares, commands>>
    PROVE  Nonces' /\ Quorums'
  BY DEF Nonces, Quorums, NonceSignsOnce, QuorumSigned, commands

\* The three steps of a sign command keep its nonce single-use.
LEMMA NoncesKept ==
    ASSUME GroupInv, NEW m \in Members,
           \/ \E p \in ProposalIds : SignCommit(m, p)
           \/ SignShare(m) \/ SignStops(m)
    PROVE  Nonces'
  <1> USE DEF session, GroupInv, GroupTypeOK
  <1>1. ASSUME NEW p \in ProposalIds, SignCommit(m, p) PROVE Nonces'
    <2>1. \A s \in shares : s.id = m => s.no < nonceNo[m] + 1
      BY DEF Nonces
    <2>2. /\ shares' = shares /\ nonceNo' = [nonceNo EXCEPT ![m] = nonceNo[m] + 1]
          /\ \A n \in Members \ {m} : signing'[n] = signing[n]
          /\ signing'[m].no = nonceNo[m] + 1
      BY <1>1 DEF SignCommit
    <2>3. \A s \in shares : s.no <= nonceNo'[s.id]
      BY <2>2 DEF Nonces
    <2>4. NonceSignsOnce'
      BY <2>2 DEF Nonces, NonceSignsOnce
    <2> QED
      BY <2>1, <2>2, <2>3, <2>4 DEF Nonces
  <1>2. CASE SignShare(m)
    <2> DEFINE s == signing[m]
               share == [pid |-> s.pid, id |-> m, no |-> s.no, over |-> Commitments(m, s.pid),
                         text |-> s.text, key |-> record[m]]
    <2>1. /\ shares' = shares \cup {share} /\ s # None
          /\ signing' = [signing EXCEPT ![m] = None] /\ UNCHANGED nonceNo
      BY <1>2 DEF SignShare
    <2>2. share.id = m /\ share.no = nonceNo[m] /\ \A t \in shares : t.id = m => t.no < share.no
      BY <2>1 DEF Nonces
    <2> HIDE DEF share, s
    <2>3. \A t \in shares' : t.no <= nonceNo'[t.id]
      BY <2>1, <2>2 DEF Nonces
    <2>4. \A n \in Members : signing'[n] # None =>
            /\ signing'[n].no = nonceNo'[n]
            /\ \A t \in shares' : t.id = n => t.no < signing'[n].no
      BY <2>1, <2>2 DEF Nonces
    <2>5. NonceSignsOnce'
      BY <2>1, <2>2 DEF Nonces, NonceSignsOnce
    <2> QED
      BY <2>3, <2>4, <2>5 DEF Nonces
  <1>3. CASE SignStops(m)
    BY <1>3 DEF SignStops, Nonces, NonceSignsOnce
  <1> QED
    BY <1>1, <1>2, <1>3

\* Commitments of different signers are as many as the signers.
LEMMA SignersCounted ==
    ASSUME NEW C \in SUBSET NonceRefs, \A c, d \in C : c.id = d.id => c = d
    PROVE  Cardinality({c.id : c \in C}) = Cardinality(C)
  <1> DEFINE ids == {c.id : c \in C}
             f == [c \in C |-> c.id]
  <1>1. ids \subseteq Members /\ IsFiniteSet(ids)
    BY FS_Subset, GroupAssumption DEF NonceRefs
  <1>2. f \in Injection(C, ids) /\ f \in Surjection(C, ids)
    BY DEF Injection, IsInjective, Surjection
  <1>3. Cardinality(C) = Cardinality(ids)
    BY <1>1, <1>2, FS_Injection
  <1> QED
    BY <1>3

\* More shares do not take a quorum back.
LEMMA QuorumGrows ==
    ASSUME QuorumSigned, shares \subseteq shares', UNCHANGED executed
    PROVE  QuorumSigned'
  BY DEF QuorumSigned

LEMMA QuorumAdded ==
    ASSUME QuorumSigned, NEW done, UNCHANGED shares, executed' \subseteq executed \cup {done},
           Cardinality(done.signers) >= Threshold,
           \A n \in done.signers : \E s \in shares : s.id = n /\ s.pid = done.pid /\ s.text = done.text
    PROVE  QuorumSigned'
  BY DEF QuorumSigned

LEMMA QuorumsKept ==
    ASSUME GroupInv, NEW m \in Members,
           \/ \E p \in ProposalIds : SignCommit(m, p) \/ ExecuteRead(m, p)
           \/ SignShare(m) \/ SignStops(m) \/ Aggregate(m) \/ ExecuteStops(m)
    PROVE  Quorums'
  <1> USE DEF session, GroupInv, GroupTypeOK
  <1>1. ASSUME NEW p \in ProposalIds, SignCommit(m, p) PROVE Quorums'
    BY <1>1, QuorumGrows DEF SignCommit, Quorums
  <1>2. ASSUME NEW p \in ProposalIds, ExecuteRead(m, p) PROVE Quorums'
    <2>1. Cardinality({c.id : c \in Commitments(m, p)}) >= Threshold
      BY <1>2, CommitmentsUnique, SignersCounted DEF ExecuteRead
    <2>2. executing'[m].over = Commitments(m, p) /\ \A n \in Members \ {m} : executing'[n] = executing[n]
      BY <1>2 DEF ExecuteRead
    <2> QED
      BY <1>2, <2>1, <2>2, QuorumGrows DEF ExecuteRead, Quorums
  <1>3. CASE SignShare(m)
    <2>1. shares \subseteq shares' /\ UNCHANGED <<executing, executed>>
      BY <1>3 DEF SignShare
    <2> QED
      BY <2>1, QuorumGrows DEF Quorums
  <1>4. CASE SignStops(m)
    BY <1>4, QuorumGrows DEF SignStops, Quorums
  <1>5. CASE Aggregate(m)
    <2> DEFINE x == executing[m]
               got == DecodeUnique(m, shares, x.pid)
               done == [pid |-> x.pid, text |-> x.text, signers |-> {s.id : s \in got}]
    <2>1. x # None /\ UNCHANGED shares /\ executing' = [executing EXCEPT ![m] = None]
      BY <1>5 DEF Aggregate
    <2>2. executed' = executed \/ (executed' = executed \cup {done} /\ SignatureValid(x, got)
                                    /\ \A s \in got : ShareVerifies(m, x, s))
      BY <1>5 DEF Aggregate
    <2>3. \A n \in Members : executing'[n] # None =>
            Cardinality({c.id : c \in executing'[n].over}) >= Threshold
      BY <2>1 DEF Quorums
    <2>4. CASE SignatureValid(x, got) /\ \A s \in got : ShareVerifies(m, x, s)
      <3>1. Cardinality(done.signers) >= Threshold
        BY <2>1, <2>4 DEF SignatureValid, Quorums
      <3>2. \A s \in got : s \in shares /\ s.pid = x.pid /\ s.text = x.text
        BY <2>4 DEF DecodeUnique, ShareVerifies
      <3>3. \A n \in done.signers : \E s \in shares : s.id = n /\ s.pid = done.pid /\ s.text = done.text
        BY <3>2
      <3>4. executed' \subseteq executed \cup {done}
        BY <2>2
      <3> HIDE DEF done, x, got
      <3>5. QuorumSigned'
        BY <2>1, <3>1, <3>3, <3>4, QuorumAdded DEF Quorums
      <3> QED
        BY <2>3, <3>5 DEF Quorums
    <2>5. CASE executed' = executed
      BY <2>1, <2>3, <2>5, QuorumGrows DEF Quorums
    <2> QED
      BY <2>2, <2>4, <2>5
  <1>6. CASE ExecuteStops(m)
    BY <1>6, QuorumGrows DEF ExecuteStops, Quorums
  <1> QED
    BY <1>1, <1>2, <1>3, <1>4, <1>5, <1>6

LEMMA NextGroupInv == GroupInv /\ [Next]_vars => GroupInv'
  <1> SUFFICES ASSUME GroupInv, [Next]_vars PROVE GroupInv'
    OBVIOUS
  <1>0. GroupTypeOK'
    BY NextType DEF GroupInv
  <1>1. CASE UNCHANGED vars
    BY <1>0, <1>1, CeremonyKept, CommandsKept DEF GroupInv, vars, session, ceremony
  <1>2. ASSUME NEW m \in Members, CeremonyStep(m) \/ CeremonyStops(m) \/ JoinAgain(m)
        PROVE  GroupInv'
    <2>1. UNCHANGED <<shares, commands>>
      BY <1>2 DEF CeremonyStep, CeremonyStops, JoinAgain, Announce, Roster, Deal, Combine, session
    <2> QED
      BY <1>0, <1>2, <2>1, RostersKept, RecordsKept, CommandsKept DEF GroupInv
  <1>3. ASSUME NEW m \in Members, NEW p \in ProposalIds, NEW t \in Texts, Propose(m, p, t)
        PROVE  GroupInv'
    BY <1>0, <1>3, CeremonyKept, CommandsKept DEF GroupInv, Propose, ceremony
  <1>4. ASSUME NEW m \in Members,
               \/ \E p \in ProposalIds : SignCommit(m, p)
               \/ SignShare(m) \/ SignStops(m)
        PROVE  GroupInv'
    <2>1. UNCHANGED <<dkg1, dkg2, pc, roster, record>>
      BY <1>4 DEF SignCommit, SignShare, SignStops, ceremony, session
    <2> QED
      BY <1>0, <1>4, <2>1, CeremonyKept, NoncesKept, QuorumsKept DEF GroupInv
  <1>5. ASSUME NEW m \in Members,
               \/ \E p \in ProposalIds : ExecuteRead(m, p)
               \/ Aggregate(m) \/ ExecuteStops(m)
        PROVE  GroupInv'
    <2>1. UNCHANGED <<dkg1, dkg2, pc, roster, record>> /\ UNCHANGED <<shares, signing, nonceNo>>
      BY <1>5 DEF ExecuteRead, Aggregate, ExecuteStops, ceremony, session
    <2>2. Nonces'
      BY <2>1 DEF GroupInv, Nonces, NonceSignsOnce
    <2> QED
      BY <1>0, <1>5, <2>1, <2>2, CeremonyKept, QuorumsKept DEF GroupInv
  <1> QED
    BY <1>1, <1>2, <1>3, <1>4, <1>5 DEF Next

-----------------------------------------------------------------------------
(* Theorems                                                                *)

LEMMA GroupInvariant == Spec => []GroupInv
  BY InitGroupInv, NextGroupInv, PTL DEF Spec

\* However the members interleave, stop and join again under new identities,
\* the members past round 1 of runDkgCeremony have read the same roster.
THEOREM GroupOneRoster == Spec => []OneRoster
  <1>1. GroupInv => OneRoster
    BY DEF GroupInv, Rosters
  <1> QED
    BY <1>1, GroupInvariant, PTL

\* N dealings of different members are all the dealings there can be.
LEMMA AllDealings ==
    ASSUME GroupTypeOK, DealtOnce, NEW D \in SUBSET dkg2, Cardinality(D) >= N
    PROVE  D = dkg2 /\ \A m \in Members : \E d \in D : d.dealer.member = m
  <1> DEFINE f == [d \in D |-> d.dealer.member]
  <1>1. \A d \in dkg2 : d.dealer.member \in Members
    BY DEF GroupTypeOK, Dealings, Identities
  <1>2. f \in Injection(D, Members)
    BY <1>1 DEF Injection, IsInjective, DealtOnce
  <1>3. IsFiniteSet(D) /\ Cardinality(D) \in Nat /\ N \in Nat
    BY <1>2, GroupAssumption, FS_Injection, FS_CardinalityType DEF N
  <1>4. Cardinality(D) <= N /\ (Cardinality(D) = N <=> f \in Surjection(D, Members))
    BY <1>2, GroupAssumption, FS_Injection DEF N
  <1>5. Cardinality(D) = N
    BY <1>3, <1>4
  <1>6. \A m \in Members : \E d \in D : f[d] = m
    BY <1>4, <1>5 DEF Surjection
  <1>7. \A m \in Members : \E d \in D : d.dealer.member = m
    BY <1>6
  <1>8. ASSUME NEW d \in dkg2 PROVE d \in D
    <2>1. PICK e \in D : e.dealer.member = d.dealer.member
      BY <1>1, <1>7
    <2> QED
      BY <2>1 DEF DealtOnce
  <1> QED
    BY <1>7, <1>8

\* When nobody dealt twice, the sum of the dealings holds one polynomial of
\* every member, and the Map of commitments by dealer loses none of them.
LEMMA SumOfAll ==
    ASSUME GroupTypeOK, DealtOnce, \A m \in Members : \E d \in dkg2 : d.dealer.member = m
    PROVE  {k[1] : k \in Summed(dkg2)} = Members /\ LatestOf(dkg2) = Summed(dkg2)
  <1>1. \A d \in dkg2 : d.dealer.member \in Members /\ d.run \in Nat
    BY DEF GroupTypeOK, Dealings, Identities
  <1>2. \A k, l \in Summed(dkg2) : k[1] = l[1] => k[2] = l[2] /\ k[2] \in Nat
    BY <1>1 DEF Summed, DealtOnce
  <1>3. LatestOf(dkg2) = Summed(dkg2)
    BY <1>2 DEF LatestOf
  <1>4. {k[1] : k \in Summed(dkg2)} = Members
    <2>1. ASSUME NEW m \in Members PROVE \E k \in Summed(dkg2) : k[1] = m
      <3>1. PICK d \in dkg2 : d.dealer.member = m
        OBVIOUS
      <3>2. <<d.dealer.member, d.run>> \in Summed(dkg2) /\ <<d.dealer.member, d.run>>[1] = m
        BY <3>1 DEF Summed
      <3> QED
        BY <3>2
    <2>2. \A k \in Summed(dkg2) : k[1] \in Members
      BY <1>1 DEF Summed
    <2> QED
      BY <2>1, <2>2
  <1> QED
    BY <1>3, <1>4

\* As long as no member deals twice, whoever finishes runDkgCeremony holds the
\* same key, with a polynomial of every member in it, and public data that
\* verifies everybody's shares.
THEOREM GroupAgreedKey == Spec => []AgreedKey
  <1>1. GroupInv => AgreedKey
    <2> SUFFICES ASSUME GroupInv, DealtOnce, NEW m \in Members, pc[m] = "member"
                 PROVE  /\ {k[1] : k \in record[m].gpk} = Members
                        /\ record[m].public = record[m].gpk
                        /\ \A n \in Members : pc[n] = "member" => record[n] = record[m]
      BY DEF AgreedKey
    <2>1. ASSUME NEW n \in Members, pc[n] = "member"
          PROVE  /\ record[n] = KeyOf(dkg2)
                 /\ \A l \in Members : \E d \in dkg2 : d.dealer.member = l
      BY <2>1, AllDealings DEF GroupInv, Records
    <2>2. record[m] = [gpk |-> Summed(dkg2), public |-> LatestOf(dkg2)]
      BY <2>1 DEF KeyOf
    <2>3. {k[1] : k \in Summed(dkg2)} = Members /\ LatestOf(dkg2) = Summed(dkg2)
      BY <2>1, SumOfAll DEF GroupInv
    <2> QED
      BY <2>1, <2>2, <2>3
  <1> QED
    BY <1>1, GroupInvariant, PTL

\* A transaction lands only after at least threshold members signed the very
\* text that is executed, however sign and execute commands interleave
\* (signProposal, aggregateProposal).
THEOREM GroupQuorumSigned == Spec => []QuorumSigned
  <1>1. GroupInv => QuorumSigned
    BY DEF GroupInv, Quorums
  <1> QED
    BY <1>1, GroupInvariant, PTL

\* No nonce is in two different shares, over any number of sign commands that
\* are run again, stopped or overtaken (NonceHandle).
THEOREM GroupNonceSignsOnce == Spec => []NonceSignsOnce
  <1>1. GroupInv => NonceSignsOnce
    BY DEF GroupInv, Nonces
  <1> QED
    BY <1>1, GroupInvariant, PTL

=============================================================================
