------------------------------ MODULE Treasury ------------------------------
(***************************************************************************)
(* A treasury's page in the browser (apps/web/src/routes/TreasuryPage.tsx, *)
(* lib/treasuryFlows.ts, lib/payrollPlan.ts): it funds the group with a    *)
(* deposit proved by the browser's prover, and pays a list of people, one  *)
(* transfer a row, each row assembled, proposed on the relay, signed,      *)
(* proved by the helper, sent, and its change found again on the indexer   *)
(* to be the next row's source.                                            *)
(*                                                                         *)
(* The pool, the relay and the indexer are what this page sees of them:    *)
(* the leaves and the spent ones, the proposals of the group's session in  *)
(* order, and the prefix of the leaves that is served.  Their own models   *)
(* are ShieldedPool, Relay and Indexer.                                    *)
(***************************************************************************)
EXTENDS BrowserProver

CONSTANTS
    Lists,      \* the CSV texts: sequences of [to, amount]; <<>> is one that does not parse
    Deposits,   \* amounts deposited
    Threshold,  \* signers a spend of the group needs
    CoSigners,  \* members who sign elsewhere
    MaxBatches, \* payrolls started
    MaxDeposits,\* deposits started
    MaxSweeps,  \* times the relay drops the session
    MaxReloads, \* times the page is reloaded
    Worlds      \* what happens in a behaviour beside deposits, each a subset of Features

Features == {"claim", "pay", "again", "fault", "reload", "sweep", "cosign"}

Payees == UNION {{list[i].to : i \in DOMAIN list} : list \in Lists}

ASSUME TreasuryAssumption ==
    /\ Worlds \subseteq SUBSET Features /\ Threshold \in Nat \ {0}
    /\ Lists \subseteq Seq([to : Payees, amount : Nat]) /\ Deposits \subseteq Nat

VARIABLES
    leaves,     \* group notes [kind, value, index, parent] and payments [kind, to, amount, memo]
    spent,      \* the positions of the spent group notes
    indexed,    \* the indexer serves the first leaves up to this one
    proposals,  \* the session's proposals: [id, transfer]
    cosigned,   \* [id, by]: shares posted by others
    unlocked,
    rows,       \* what the page shows: [to, amount, status]
    fund,       \* the deposit: [pc, value, index, count]
    pay,        \* the payroll: [pc, batch, row, source, counter, made, signed, count]
    sweeps, reloads,
    world       \* the features of this behaviour

chainVars == <<leaves, spent, indexed>>
relayVars == <<proposals, cosigned, sweeps>>
vars == <<proverVars, chainVars, relayVars, unlocked, rows, fund, pay, reloads, world>>

Me == "me"
NoTransfer == [source |-> 0, to |-> "nobody", amount |-> 0, index |-> 0, value |-> 0, memo |-> 0]
NoNote == [leaf |-> 0, value |-> 0, index |-> 0, parent |-> 0]

GroupNote(value, index, parent) == [kind |-> "group", value |-> value, index |-> index, parent |-> parent]
NoteOf(view) == GroupNote(view.value, view.index, view.parent)

IdleFund(count) == [pc |-> "idle", value |-> 0, index |-> 0, count |-> count]
IdlePay(count) == [pc |-> "idle", batch |-> <<>>, row |-> 1, source |-> NoNote, counter |-> 0,
                   made |-> NoTransfer, signed |-> NoTransfer, count |-> count]

PageInit == /\ unlocked = FALSE /\ rows = <<>>
            /\ fund = IdleFund(0) /\ pay = IdlePay(0)

Init == /\ ProverInit /\ PageInit
        /\ leaves = <<>> /\ spent = {} /\ indexed = 0
        /\ proposals = <<>> /\ cosigned = {}
        /\ sweeps = 0 /\ reloads = 0
        /\ world \in Worlds

Page == <<unlocked, rows, fund, pay, reloads, world>>

-----------------------------------------------------------------------------
(* Opening the page. *)

\* onUnlock: the group is decrypted and the deposit circuit prepared ahead.
Unlock ==
    /\ ~unlocked /\ unlocked' = TRUE
    /\ Call("prewarm")
    /\ UNCHANGED <<chainVars, relayVars, rows, fund, pay, reloads, world>>

\* The page forgets how a preparation ahead of time ended.
Prewarmed ==
    /\ call["prewarm"].pc \in {"proved", "failed"} /\ call' = Taken("prewarm")
    /\ UNCHANGED <<wasm, port, ready, prepared, nextRequestId, pending, preparing, inbox, outbox,
                   acir, faults, chainVars, relayVars, Page>>

\* Another page of the application proves a withdrawal with the same worker.
Claim ==
    /\ "claim" \in world
    /\ \/ Call("claim")
       \/ /\ call["claim"].pc \in {"proved", "failed"} /\ call' = Taken("claim")
          /\ UNCHANGED <<wasm, port, ready, prepared, nextRequestId, pending, preparing, inbox,
                         outbox, acir, faults>>
    /\ UNCHANGED <<chainVars, relayVars, Page>>

\* The browser reloads the page: what was in memory is gone, transactions and messages are not.
Reload ==
    /\ "reload" \in world /\ reloads < MaxReloads /\ reloads' = reloads + 1
    /\ NewPage
    /\ unlocked' = FALSE /\ rows' = <<>>
    /\ fund' = IdleFund(fund.count) /\ pay' = IdlePay(pay.count)
    /\ UNCHANGED <<chainVars, relayVars, world>>

-----------------------------------------------------------------------------
(* Funding. *)

\* onFund: token, wallet and lookup table, then depositToTreasury, which is given no counter
\* store and reserves the first index of a new one.
Fund(value) ==
    /\ unlocked /\ fund.pc = "idle" /\ fund.count < MaxDeposits
    /\ fund' = [pc |-> "prove", value |-> value, index |-> 0, count |-> fund.count + 1]
    /\ Call("fund")
    /\ UNCHANGED <<chainVars, relayVars, unlocked, rows, pay, reloads, world>>

FundProved ==
    /\ fund.pc = "prove" /\ call["fund"].pc \in {"proved", "failed"}
    /\ fund' = [fund EXCEPT !.pc = IF call["fund"].pc = "proved" THEN "send" ELSE "idle"]
    /\ call' = Taken("fund")
    /\ UNCHANGED <<wasm, port, ready, prepared, nextRequestId, pending, preparing, inbox, outbox,
                   acir, faults, chainVars, relayVars, unlocked, rows, pay, reloads, world>>

\* sendViaWallet: the deposit lands, or the wallet or the cluster refuses it.
FundSent ==
    /\ fund.pc = "send" /\ fund' = IdleFund(fund.count)
    /\ leaves' \in {leaves, Append(leaves, GroupNote(fund.value, fund.index, 0))}
    /\ UNCHANGED <<proverVars, spent, indexed, relayVars, unlocked, rows, pay, reloads, world>>

-----------------------------------------------------------------------------
(* Paying. *)

\* Preview: the list is parsed, at any time, a payroll under way included.
Preview(list) ==
    /\ "pay" \in world /\ unlocked
    /\ rows' = [i \in DOMAIN list |-> [to |-> list[i].to, amount |-> list[i].amount, status |-> "pending"]]
    /\ UNCHANGED <<proverVars, chainVars, relayVars, unlocked, fund, pay, reloads, world>>

\* onPay starts with every row shown, whatever its status, and a new counter store.
Pay ==
    /\ unlocked /\ pay.pc = "idle" /\ rows # <<>>
    /\ pay.count < IF "again" \in world THEN MaxBatches ELSE 1
    /\ pay' = [IdlePay(pay.count + 1) EXCEPT !.pc = "scan", !.batch = rows]
    /\ UNCHANGED <<proverVars, chainVars, relayVars, unlocked, rows, fund, reloads, world>>

\* The group's notes the indexer serves and the pool has no nullifier for.
Spendable == {l \in 1 .. indexed : leaves[l].kind = "group" /\ l \notin spent}
Oldest(S) == CHOOSE l \in S : \A k \in S : l <= k
ViewOf(l) == [leaf |-> l, value |-> leaves[l].value, index |-> leaves[l].index, parent |-> leaves[l].parent]

StopPaying == pay' = [pay EXCEPT !.pc = "idle"]

SelectSource ==
    /\ pay.pc = "scan"
    /\ \/ Spendable # {} /\ pay' = [pay EXCEPT !.pc = "assemble", !.source = ViewOf(Oldest(Spendable))]
       \/ StopPaying
    /\ UNCHANGED <<proverVars, chainVars, relayVars, unlocked, rows, fund, reloads, world>>

\* setRows changes the rows shown now, by position.
Mark(status) == rows' = [i \in DOMAIN rows |-> IF i = pay.row THEN [rows[i] EXCEPT !.status = status] ELSE rows[i]]

\* An error of a row is shown and ends the payroll.
RowFails == Mark("failed") /\ StopPaying

\* assembleRow: the pool and the witness are read and the change's index reserved.  The memo
\* of the payment is random: the number of the batch and the row stand for it.
Assemble ==
    /\ pay.pc = "assemble"
    /\ LET row == pay.batch[pay.row] IN
       \/ /\ row.amount <= pay.source.value
          /\ pay' = [pay EXCEPT !.pc = "propose", !.counter = @ + 1,
                        !.made = [source |-> pay.source.leaf, to |-> row.to, amount |-> row.amount,
                                  index |-> pay.counter, value |-> pay.source.value - row.amount,
                                  memo |-> <<pay.count, pay.row>>]]
          /\ Mark("awaiting-signatures")
       \/ RowFails
    /\ UNCHANGED <<proverVars, chainVars, relayVars, unlocked, fund, reloads, world>>

\* The proposal's id is the treasury and the position of the row.
ProposalId == pay.row

\* createProposal: appended or not, the answer arrives or not.
Propose ==
    /\ pay.pc = "propose"
    /\ \/ /\ proposals' = Append(proposals, [id |-> ProposalId, transfer |-> pay.made])
          /\ \/ pay' = [pay EXCEPT !.pc = "sign"] /\ UNCHANGED rows
             \/ RowFails
       \/ RowFails /\ UNCHANGED proposals
    /\ UNCHANGED <<proverVars, chainVars, cosigned, sweeps, unlocked, fund, reloads, world>>

\* fetchProposal: the first proposal of the session with this id.
Found(id) == {i \in DOMAIN proposals : proposals[i].id = id}
FetchProposal(id) == proposals[Oldest(Found(id))].transfer

Signers(id) == {Me} \cup {s \in CoSigners : [id |-> id, by |-> s] \in cosigned}

\* signProposal with the page's own share, then aggregateProposal, which knows the public share
\* of the page's own member only and refuses the share of any other.
Sign ==
    /\ pay.pc = "sign"
    /\ \/ /\ Found(ProposalId) # {}
          /\ Cardinality(Signers(ProposalId)) >= Threshold /\ Signers(ProposalId) \subseteq {Me}
          /\ pay' = [pay EXCEPT !.pc = "prove", !.signed = FetchProposal(ProposalId)]
          /\ UNCHANGED rows
       \/ RowFails
    /\ UNCHANGED <<proverVars, chainVars, relayVars, unlocked, fund, reloads, world>>

\* The helper proves the transfer the proposal describes, or is not there.
HelperProve ==
    /\ pay.pc = "prove"
    /\ \/ pay' = [pay EXCEPT !.pc = "send"] /\ UNCHANGED rows
       \/ RowFails
    /\ UNCHANGED <<proverVars, chainVars, relayVars, unlocked, fund, reloads, world>>

\* The pool takes the transfer when the nullifier account, the one of the row's source, is the
\* proof's and not used; it appends the payment and the change.
Lands(t) ==
    /\ t.source = pay.source.leaf /\ t.source \notin spent
    /\ spent' = spent \cup {t.source}
    /\ leaves' = leaves \o <<[kind |-> "pay", to |-> t.to, amount |-> t.amount, memo |-> t.memo],
                             GroupNote(t.value, t.index, t.source)>>

\* sendViaWallet: confirmed, or landed and the confirmation lost, or refused (by the wallet, the
\* cluster, or the pool: the root left the ring since the pool was read).
Send ==
    /\ pay.pc = "send"
    /\ \/ Lands(pay.signed) /\ pay' = [pay EXCEPT !.pc = "resolve"] /\ UNCHANGED rows
       \/ Lands(pay.signed) /\ RowFails
       \/ RowFails /\ UNCHANGED <<spent, leaves>>
    /\ UNCHANGED <<proverVars, indexed, relayVars, unlocked, fund, reloads, world>>

ChangeLeafPredicted == {l \in 1 .. indexed : l = pay.source.leaf + 2}

\* The change the page assembled, among the leaves served after the source.
ChangeLeaf ==
    {l \in (pay.source.leaf + 1) .. indexed :
        leaves[l] = GroupNote(pay.made.value, pay.made.index, pay.made.source)}

\* resolveChangeNote: the row is confirmed and the next one spends its change; a change the
\* indexer does not serve in time fails the row.
Resolve ==
    /\ pay.pc = "resolve"
    /\ \/ /\ ChangeLeaf # {}
          /\ Mark("confirmed")
          /\ pay' = [pay EXCEPT !.pc = IF pay.row < Len(pay.batch) THEN "assemble" ELSE "idle",
                        !.row = @ + 1,
                        !.source = [leaf |-> Oldest(ChangeLeaf), value |-> pay.made.value,
                                    index |-> pay.made.index, parent |-> pay.made.source]]
       \/ RowFails
    /\ UNCHANGED <<proverVars, chainVars, relayVars, unlocked, fund, reloads, world>>

PayStep == SelectSource \/ Assemble \/ Propose \/ Sign \/ HelperProve \/ Send \/ Resolve

-----------------------------------------------------------------------------
(* The others. *)

\* The indexer serves one leaf more.
Ingest ==
    /\ "pay" \in world /\ indexed < Len(leaves) /\ indexed' = indexed + 1
    /\ UNCHANGED <<proverVars, leaves, spent, relayVars, Page>>

\* A member signs a proposal of the session elsewhere.
CoSign ==
    /\ "cosign" \in world
    /\ \E i \in DOMAIN proposals, s \in CoSigners :
           cosigned' = cosigned \cup {[id |-> proposals[i].id, by |-> s]}
    /\ cosigned' # cosigned
    /\ UNCHANGED <<proverVars, chainVars, proposals, sweeps, Page>>

\* The relay drops a session nobody wrote to for its time to live.
Sweep ==
    /\ "sweep" \in world /\ sweeps < MaxSweeps /\ proposals # <<>>
    /\ sweeps' = sweeps + 1 /\ proposals' = <<>> /\ cosigned' = {}
    /\ UNCHANGED <<proverVars, chainVars, Page>>

Prove == /\ ProverStep /\ ("fault" \in world \/ UNCHANGED faults)
         /\ UNCHANGED <<chainVars, relayVars, Page>>

Next ==
    \/ Prove \/ Unlock \/ Prewarmed \/ Claim \/ Reload
    \/ \E value \in Deposits : Fund(value)
    \/ FundProved \/ FundSent
    \/ \E list \in Lists : Preview(list)
    \/ Pay \/ PayStep \/ Ingest \/ CoSign \/ Sweep

\* Promises settle and the worker works; a wallet prompt is answered, a request answered or
\* timed out.  Nothing is assumed of what the user or the relay's operator does.
Fairness == WF_vars(Prove \/ FundProved \/ FundSent \/ PayStep)

Spec == Init /\ [][Next]_vars /\ Fairness

-----------------------------------------------------------------------------
(***************************************************************************)
(* A row never starts from a note the page made up: whenever a row is      *)
(* assembled, its source is, field by field, the note at that position of  *)
(* the pool, belongs to the group and is not spent, although its fields    *)
(* come from the row before and its position from the indexer, while       *)
(* deposits land in between (treasuryFlows.ts, assertRealNoteView and      *)
(* resolveChangeNote).                                                     *)
(***************************************************************************)
SourceIsReal ==
    pay.pc = "assemble" =>
        /\ pay.source.leaf \in 1 .. Len(leaves) \ spent
        /\ leaves[pay.source.leaf] = NoteOf(pay.source)

(***************************************************************************)
(* What is started ends: a deposit and a payroll come back to idle, and a  *)
(* call of the prover is answered, whichever fetches, preparations, proofs *)
(* and transactions fail on the way (TreasuryPage.tsx, onFund and onPay;   *)
(* wasmProver.ts, the pending maps).  A worker that dies after it was      *)
(* ready is not in the model: nothing answers its requests then.           *)
(***************************************************************************)
FlowsEnd ==
    /\ fund.pc # "idle" ~> fund.pc = "idle"
    /\ pay.pc # "idle" ~> pay.pc = "idle"
    /\ call["claim"].pc = "port" ~> call["claim"].pc \in {"proved", "failed", "idle"}

(***************************************************************************)
(* A row the page confirmed paid its own recipient its own amount.         *)
(* treasuryFlows.ts says of the assembly of a row that its message is the  *)
(* exact one the quorum signs.                                             *)
(***************************************************************************)
ConfirmedRowsPaid ==
    \A j \in 1 .. pay.row - 1 : \E l \in DOMAIN leaves :
        /\ leaves[l].kind = "pay"
        /\ leaves[l].to = pay.batch[j].to /\ leaves[l].amount = pay.batch[j].amount

=============================================================================
