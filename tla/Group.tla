-------------------------------- MODULE Group --------------------------------
(***************************************************************************)
(* A FROST treasury over one coordinator session: the key ceremony         *)
(* (packages/cli/src/dkg/ceremony.ts, commands/group.ts, apps/web          *)
(* lib/treasury.ts), then proposals that are signed and executed           *)
(* (packages/cli/src/proposal, packages/sdk/src/frost).                    *)
(*                                                                         *)
(* The session is the channel of Channel, which Relay implements.  A read  *)
(* that returned early and a read of the whole session later differ only   *)
(* in when the next message is sent, so collectUntil reads the session as  *)
(* it stands.  Of the order of messages only "first proposal with this id" *)
(* and "latest message of this member" matter, so the messages of a kind   *)
(* are a set, numbered per sender; proposals are a sequence.               *)
(*                                                                         *)
(* The algebra is symbolic (Threshold checks it): a dealer's polynomial is *)
(* the pair (identity, run), a key is the set of polynomials summed up in  *)
(* it, and a signature share is what it was computed from.                 *)
(***************************************************************************)
EXTENDS Integers, Sequences, FiniteSets, FiniteSetsExt

CONSTANTS Members,
          Threshold,     \* threshold of the group
          FreshIdentity, \* members on the web page: a new key pair for every run
          Volunteers,    \* members that sign whatever is proposed
          ProposalIds,
          Texts,         \* msg_transfer and the like: what a proposal asks to sign
          Leaders,       \* bound: the members that propose and execute
          MaxAgain,      \* bound: commands started once more by the same member
          MaxProposals   \* bound: proposals posted

ASSUME GroupAssumption ==
    /\ IsFiniteSet(Members) /\ Threshold \in 1 .. Cardinality(Members)
    /\ FreshIdentity \subseteq Members /\ Volunteers \subseteq Members
    /\ Leaders \subseteq Members /\ MaxAgain \in Nat /\ MaxProposals \in Nat

VARIABLES dkg1,      \* announces in the session
          dkg2,      \* dealer messages in the session
          proposals, \* proposals in the session, oldest first
          nonces,    \* nonce commitments in the session
          shares,    \* signature shares in the session
          pc,        \* per member: where its ceremony is
          run,       \* per member: which ceremony run it is in
          roster,    \* per member: the identities it read in round 1
          record,    \* per member: its GroupRecord
          signing,   \* per member: the sign command it runs
          nonceNo,   \* per member: nonces drawn so far
          executing, \* per member: the execute command it runs
          executed,  \* transactions that landed
          again      \* commands started once more

session == <<dkg1, dkg2, proposals, nonces, shares>>
ceremony == <<pc, run, roster, record>>
commands == <<signing, nonceNo, executing, executed>>
vars == <<session, ceremony, commands, again>>

N == Cardinality(Members)
None == [op |-> "none"]
NoRecord == [gpk |-> {}, public |-> {}]

(* The ed25519 identity a member announces. *)
Identity(m) == [member |-> m, key |-> IF m \in FreshIdentity THEN run[m] ELSE 0]

Init ==
    /\ dkg1 = {} /\ dkg2 = {} /\ proposals = <<>> /\ nonces = {} /\ shares = {}
    /\ pc = [m \in Members |-> "announce"]
    /\ run = [m \in Members |-> 1]
    /\ roster = [m \in Members |-> {}]
    /\ record = [m \in Members |-> NoRecord]
    /\ signing = [m \in Members |-> None]
    /\ nonceNo = [m \in Members |-> 0]
    /\ executing = [m \in Members |-> None]
    /\ executed = {}
    /\ again = 0

-----------------------------------------------------------------------------
(* The key ceremony *)

(* Round 1: announce this member's identity. *)
Announce(m) ==
    /\ pc[m] = "announce"
    /\ dkg1' = dkg1 \cup {[id |-> Identity(m), run |-> run[m]]}
    /\ pc' = [pc EXCEPT ![m] = "roster"]
    /\ UNCHANGED <<dkg2, proposals, nonces, shares, run, roster, record, commands, again>>

RosterAnyCount(m) ==
    LET ids == {a.id : a \in dkg1}
    IN  /\ pc[m] = "roster" /\ Cardinality(dkg1) >= N
        /\ roster' = [roster EXCEPT ![m] = ids]
        /\ pc' = [pc EXCEPT ![m] = "deal"]
        /\ UNCHANGED <<session, run, record, commands, again>>

(* collectUntil memberCount announces; abort unless as many are distinct. *)
Roster(m) ==
    LET ids == {a.id : a \in dkg1}
    IN  /\ pc[m] = "roster" /\ Cardinality(dkg1) >= N
        /\ IF Cardinality(ids) = N
           THEN /\ roster' = [roster EXCEPT ![m] = ids]
                /\ pc' = [pc EXCEPT ![m] = "deal"]
           ELSE /\ pc' = [pc EXCEPT ![m] = "failed"]
                /\ UNCHANGED roster
        /\ UNCHANGED <<session, run, record, commands, again>>

(* Round 2: a fresh polynomial and view contribution, boxed for the roster. *)
Deal(m) ==
    /\ pc[m] = "deal"
    /\ dkg2' = dkg2 \cup {[dealer |-> Identity(m), run |-> run[m], boxes |-> roster[m]]}
    /\ pc' = [pc EXCEPT ![m] = "combine"]
    /\ UNCHANGED <<dkg1, proposals, nonces, shares, run, roster, record, commands, again>>

(* The polynomials summed up, and of each dealer the last one put into the *)
(* Map of commitments by dealer id.                                        *)
Summed(dealt) == {<<d.dealer.member, d.run>> : d \in dealt}
LatestOf(dealt) == {k \in Summed(dealt) : \A l \in Summed(dealt) : l[1] = k[1] => l[2] <= k[2]}

CombineEarly(m) ==
    /\ pc[m] = "combine" /\ Cardinality(dkg2) >= N - 1
    /\ record' = [record EXCEPT ![m] = [gpk |-> Summed(dkg2), public |-> LatestOf(dkg2)]]
    /\ pc' = [pc EXCEPT ![m] = "member"]
    /\ UNCHANGED <<session, run, roster, commands, again>>

(* collectUntil memberCount dealer messages; each must come from an identity *)
(* of the roster and hold a box for me; sum all, write the group record.     *)
Combine(m) ==
    /\ pc[m] = "combine" /\ Cardinality(dkg2) >= N
    /\ IF \A d \in dkg2 : d.dealer \in roster[m] /\ Identity(m) \in d.boxes
       THEN /\ record' = [record EXCEPT ![m] = [gpk |-> Summed(dkg2), public |-> LatestOf(dkg2)]]
            /\ pc' = [pc EXCEPT ![m] = "member"]
       ELSE /\ pc' = [pc EXCEPT ![m] = "failed"]
            /\ UNCHANGED record
    /\ UNCHANGED <<session, run, roster, commands, again>>

(* The command is stopped, loses the coordinator or runs out of rounds. *)
CeremonyStops(m) ==
    /\ pc[m] \in {"roster", "deal", "combine"}
    /\ pc' = [pc EXCEPT ![m] = "failed"]
    /\ UNCHANGED <<session, run, roster, record, commands, again>>

(* group join or the invite link again, in the same session. *)
JoinAgain(m) ==
    /\ pc[m] = "failed" /\ again < MaxAgain
    /\ again' = again + 1
    /\ pc' = [pc EXCEPT ![m] = "announce"]
    /\ run' = [run EXCEPT ![m] = @ + 1]
    /\ roster' = [roster EXCEPT ![m] = {}]
    /\ UNCHANGED <<session, record, commands>>

-----------------------------------------------------------------------------
(* Proposals *)

(* The session key comes from the group view secret, so from the whole key: *)
(* an envelope opens for members that hold the same one.                    *)
Opens(m, e) == e.key = record[m]

Propose(m, p, t) ==
    /\ pc[m] = "member" /\ m \in Leaders /\ Len(proposals) < MaxProposals
    /\ proposals' = Append(proposals, [pid |-> p, text |-> t, key |-> record[m]])
    /\ UNCHANGED <<dkg1, dkg2, nonces, shares, ceremony, commands, again>>

(* fetchProposal: the first proposal with this id. *)
Matching(m, p) == {i \in 1 .. Len(proposals) : proposals[i].pid = p /\ Opens(m, proposals[i])}
FetchProposal(m, p) == proposals[Min(Matching(m, p))].text

(* signProposal up to the nonce commitment: fetch, draw, publish. *)
SignCommit(m, p) ==
    LET no == nonceNo[m] + 1
    IN  /\ pc[m] = "member" /\ signing[m] = None
        /\ again' = IF nonceNo[m] > 0 THEN again + 1 ELSE again
        /\ again' <= MaxAgain
        /\ Matching(m, p) # {}
        /\ nonceNo' = [nonceNo EXCEPT ![m] = no]
        /\ nonces' = nonces \cup {[pid |-> p, id |-> m, no |-> no, key |-> record[m]]}
        /\ signing' = [signing EXCEPT ![m] = [op |-> "sign", pid |-> p, no |-> no,
                                              text |-> FetchProposal(m, p)]]
        /\ UNCHANGED <<dkg1, dkg2, proposals, shares, ceremony, executing, executed>>

(* decodeUnique: of the messages of a kind for p, the latest of each signer. *)
DecodeUnique(m, kind, p) ==
    LET mine == {e \in kind : e.pid = p /\ Opens(m, e)}
    IN  {e \in mine : \A f \in mine : f.id = e.id => f.no <= e.no}

Commitments(m, p) == {[id |-> e.id, no |-> e.no] : e \in DecodeUnique(m, nonces, p)}

SignShareKeepsNonce(m) ==
    LET s == signing[m]
        c == Commitments(m, s.pid)
    IN  /\ s # None /\ Cardinality(c) >= Threshold
        /\ shares' = shares \cup {[pid |-> s.pid, id |-> m, no |-> s.no, over |-> c,
                                   text |-> s.text, key |-> record[m]]}
        /\ UNCHANGED <<dkg1, dkg2, proposals, nonces, ceremony, commands, again>>

SignShareEager(m) ==
    LET s == signing[m]
        c == Commitments(m, s.pid)
    IN  /\ s # None
        /\ shares' = shares \cup {[pid |-> s.pid, id |-> m, no |-> s.no, over |-> c,
                                   text |-> s.text, key |-> record[m]]}
        /\ signing' = [signing EXCEPT ![m] = None]
        /\ UNCHANGED <<dkg1, dkg2, proposals, nonces, ceremony, nonceNo, executing, executed, again>>

(* signProposal, second half: once threshold signers have committed, this  *)
(* signer's share over exactly the commitments read; the nonce is spent.   *)
SignShare(m) ==
    LET s == signing[m]
        c == Commitments(m, s.pid)
    IN  /\ s # None /\ Cardinality(c) >= Threshold
        /\ shares' = shares \cup {[pid |-> s.pid, id |-> m, no |-> s.no, over |-> c,
                                   text |-> s.text, key |-> record[m]]}
        /\ signing' = [signing EXCEPT ![m] = None]
        /\ UNCHANGED <<dkg1, dkg2, proposals, nonces, ceremony, nonceNo, executing, executed, again>>

(* The sign command is stopped or runs out of rounds. *)
SignStops(m) ==
    /\ signing[m] # None
    /\ signing' = [signing EXCEPT ![m] = None]
    /\ UNCHANGED <<session, ceremony, nonceNo, executing, executed, again>>

(* aggregateProposal, first read: the commitments. *)
ExecuteRead(m, p) ==
    /\ pc[m] = "member" /\ m \in Leaders /\ executing[m] = None
    /\ Matching(m, p) # {}
    /\ \A x \in executed : x.pid # p
    /\ Cardinality(Commitments(m, p)) >= Threshold
    /\ executing' = [executing EXCEPT ![m] = [op |-> "execute", pid |-> p, text |-> FetchProposal(m, p),
                                              over |-> Commitments(m, p)]]
    /\ UNCHANGED <<session, ceremony, signing, nonceNo, executed, again>>

(* verifySignatureShare: the share must be over these commitments, this text *)
(* and a key share that matches the dealers' public commitments.             *)
ShareVerifies(m, x, s) ==
    /\ [id |-> s.id, no |-> s.no] \in x.over /\ s.over = x.over
    /\ s.text = x.text
    /\ s.key.gpk = record[m].gpk /\ s.key.gpk = record[m].public

(* The aggregate satisfies the circuit's FROST check if every signer of the *)
(* commitment list gave a share.                                            *)
SignatureValid(x, got) == {s.id : s \in got} = {c.id : c \in x.over}

AggregateUnchecked(m) ==
    LET x == executing[m]
        got == DecodeUnique(m, shares, x.pid)
    IN  /\ x # None /\ Cardinality(got) >= 1
        /\ executed' = executed \cup {[pid |-> x.pid, text |-> x.text, signers |-> {s.id : s \in got}]}
        /\ executing' = [executing EXCEPT ![m] = None]
        /\ UNCHANGED <<session, ceremony, signing, nonceNo, again>>

(* aggregateProposal, second read, coordinatorAggregate, then prove and send: *)
(* a share that fails aborts, an invalid signature has no proof.              *)
Aggregate(m) ==
    LET x == executing[m]
        got == DecodeUnique(m, shares, x.pid)
    IN  /\ x # None /\ Cardinality(got) >= Threshold
        /\ executed' = IF (\A s \in got : ShareVerifies(m, x, s)) /\ SignatureValid(x, got)
                       THEN executed \cup {[pid |-> x.pid, text |-> x.text, signers |-> {s.id : s \in got}]}
                       ELSE executed
        /\ executing' = [executing EXCEPT ![m] = None]
        /\ UNCHANGED <<session, ceremony, signing, nonceNo, again>>

(* The execute command is stopped or runs out of rounds. *)
ExecuteStops(m) ==
    /\ executing[m] # None
    /\ executing' = [executing EXCEPT ![m] = None]
    /\ UNCHANGED <<session, ceremony, signing, nonceNo, executed, again>>

CeremonyStep(m) == Announce(m) \/ Roster(m) \/ Deal(m) \/ Combine(m)

Next ==
    \E m \in Members :
        \/ CeremonyStep(m) \/ CeremonyStops(m) \/ JoinAgain(m)
        \/ \E p \in ProposalIds, t \in Texts : Propose(m, p, t)
        \/ \E p \in ProposalIds : SignCommit(m, p) \/ ExecuteRead(m, p)
        \/ SignShare(m) \/ SignStops(m) \/ Aggregate(m) \/ ExecuteStops(m)

(* Commands proceed when they can, the volunteers sign, and somebody keeps  *)
(* executing.  Nobody has to join again or to propose.                      *)
Fairness ==
    \A m \in Members :
        /\ WF_vars(CeremonyStep(m))
        /\ WF_vars(SignShare(m))
        /\ WF_vars(m \in Volunteers /\ \E p \in ProposalIds : SignCommit(m, p))
        /\ WF_vars(\E p \in ProposalIds : ExecuteRead(m, p))
        /\ SF_vars(Aggregate(m))

Spec == Init /\ [][Next]_vars /\ Fairness

-----------------------------------------------------------------------------
(* Properties *)

(* Nobody dealt twice. *)
DealtOnce == \A d, e \in dkg2 : d.dealer.member = e.dealer.member => d = e

(* As long as no member deals twice, all members that finish the ceremony   *)
(* have the same key, made of one polynomial of every member, and the same  *)
(* public data to verify shares against, whatever runs were given up in     *)
(* round 1 and whoever reads late (runDkgCeremony).                         *)
AgreedKey ==
    DealtOnce =>
        \A m \in Members : pc[m] = "member" =>
            /\ {k[1] : k \in record[m].gpk} = Members
            /\ record[m].public = record[m].gpk
            /\ \A n \in Members : pc[n] = "member" => record[n] = record[m]

(* All members past round 1 work with one roster, also when a member comes  *)
(* back under a new identity (runDkgCeremony assigns ids from it).          *)
OneRoster ==
    \A m, n \in Members :
        pc[m] \in {"deal", "combine", "member"} /\ pc[n] \in {"deal", "combine", "member"} =>
            roster[m] = roster[n]

(* A transaction lands only if at least threshold members each committed    *)
(* and signed for that proposal, all over the text that was executed, even  *)
(* when two proposals share an id or signers come and go.                   *)
QuorumSigned ==
    \A x \in executed :
        /\ Cardinality(x.signers) >= Threshold
        /\ \A m \in x.signers : \E s \in shares : s.id = m /\ s.pid = x.pid /\ s.text = x.text

(* One nonce signs once: two shares of a member under the same nonce but    *)
(* different commitments would reveal its key share (NonceHandle).          *)
NonceSignsOnce ==
    \A s, t \in shares : s.id = t.id /\ s.no = t.no => s = t

(* At most threshold members sign, each once, and the volunteers' ceremony *)
(* runs through.                                                           *)
Orderly ==
    /\ DealtOnce /\ \A m \in Volunteers : pc[m] # "failed"
    /\ Cardinality({e.id : e \in nonces}) <= Threshold
    /\ \A m \in Members : nonceNo[m] <= 1
    /\ \A e \in nonces : signing[e.id] # None \/ \E s \in shares : s.id = e.id

(* Then what is proposed is executed: the signers read the same commitments *)
(* and the executor accepts their shares (signProposal, aggregateProposal). *)
OrderlyExecutes ==
    []Orderly => \A p \in ProposalIds :
        (Len(proposals) = 1 /\ proposals[1].pid = p) ~>
            (Len(proposals) > 1 \/ \E x \in executed : x.pid = p)

=============================================================================
