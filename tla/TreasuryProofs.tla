---------------------------- MODULE TreasuryProofs ----------------------------
(***************************************************************************)
(* The browser's prover and the treasury page for any number of tasks,     *)
(* calls, payrolls, deposits and reloads: a proof answers the request it   *)
(* was asked for, and a row starts from a note the pool really has.        *)
(***************************************************************************)
EXTENDS Treasury, FiniteSetTheorems, TLAPS

-----------------------------------------------------------------------------
(* The prover: types                                                       *)

CallStates == {"idle", "port", "prepare", "proving", "proved", "failed"}
ProofsOf == [circuit : Circuits, inputs : Tasks \X Nat]
Calls == [pc : CallStates, n : Nat, proof : ProofsOf \cup {NoProof}]

Requests ==
    [type : {"init"}, id : {InitId}]
        \cup [type : {"prepare"}, id : Nat, circuit : Circuits]
        \cup [type : {"prove"}, id : Nat, circuit : Circuits, inputs : Tasks \X Nat]
Answers ==
    [type : {"ready", "prepared", "error"}, id : Int]
        \cup [type : {"result"}, id : Int, proof : ProofsOf]

ProverTypeOK ==
    /\ nextRequestId \in Nat
    /\ call \in [Tasks -> Calls]
    /\ inbox \in Seq(Requests)
    /\ outbox \in Seq(Answers)
    /\ \A id \in DOMAIN pending : id \in Nat /\ id < nextRequestId /\ pending[id] \in Tasks

-----------------------------------------------------------------------------
(* The prover: the inductive invariant                                     *)

\* Who waits in the map of pending proofs is proving, and waits once.
Waiting ==
    /\ \A id \in DOMAIN pending : call[pending[id]].pc = "proving"
    /\ \A id, jd \in DOMAIN pending : pending[id] = pending[jd] => id = jd

\* A request or an answer that somebody still waits for is about that call.
Asked(m) ==
    /\ m.id < nextRequestId
    /\ m.type = "prove" /\ m.id \in DOMAIN pending =>
        m.circuit = CircuitOf[pending[m.id]] /\ m.inputs = Inputs(pending[m.id])
Told(m) ==
    /\ m.id < nextRequestId
    /\ m.type = "result" /\ m.id \in DOMAIN pending =>
        m.proof = [circuit |-> CircuitOf[pending[m.id]], inputs |-> Inputs(pending[m.id])]

ProverInv ==
    /\ ProverTypeOK /\ Waiting /\ ProofMatches
    /\ \A k \in 1 .. Len(inbox) : Asked(inbox[k])
    /\ \A k \in 1 .. Len(outbox) : Told(outbox[k])

LEMMA ProverInitInv == ProverInit => ProverInv
  <1> SUFFICES ASSUME ProverInit PROVE ProverInv
    OBVIOUS
  <1>1. [pc |-> "idle", n |-> 0, proof |-> NoProof] \in Calls
    BY DEF Calls, CallStates
  <1>2. ProverTypeOK
    BY <1>1 DEF ProverInit, ProverTypeOK, Empty
  <1> QED
    BY <1>2 DEF ProverInit, ProverInv, Waiting, ProofMatches, At, Empty

LEMMA NewPageInv ==
    ASSUME ProverInv, NewPage PROVE ProverInv'
  <1>1. \A t \in Tasks : [call[t] EXCEPT !.pc = "idle", !.proof = NoProof] \in Calls
    BY DEF ProverInv, ProverTypeOK, Calls, CallStates
  <1>2. call' \in [Tasks -> Calls]
    BY <1>1 DEF NewPage
  <1>3. nextRequestId' = 0 /\ inbox' = <<>> /\ outbox' = <<>> /\ DOMAIN pending' = {}
    BY DEF NewPage, Empty
  <1>4. ProverTypeOK'
    BY <1>2, <1>3 DEF ProverTypeOK
  <1>5. \A t \in Tasks : call'[t].pc = "idle"
    BY DEF NewPage, ProverInv, ProverTypeOK, Calls
  <1>6. ProofMatches'
    BY <1>5 DEF ProofMatches, At
  <1>7. Waiting'
    BY <1>3 DEF Waiting
  <1>8. Len(inbox') = 0 /\ Len(outbox') = 0
    BY <1>3
  <1> QED
    BY <1>4, <1>6, <1>7, <1>8 DEF ProverInv

\* What a step may do to a task that is not waiting for the worker.
Harmless(t) ==
    \/ call'[t] = call[t]
    \/ call[t].pc # "proving" /\ (call'[t].pc # "proved" \/ t \in Prewarmers)

\* A message that was there before, or one that asks for and tells of no proof.
OldOrPlain(m, s, type) ==
    \/ \E j \in 1 .. Len(s) : m = s[j]
    \/ m.type # type /\ m.id < nextRequestId'

LEMMA QuietStep ==
    ASSUME ProverInv, ProverTypeOK', UNCHANGED pending, nextRequestId <= nextRequestId',
           \A t \in Tasks : Harmless(t),
           \A k \in 1 .. Len(inbox') : OldOrPlain(inbox'[k], inbox, "prove"),
           \A k \in 1 .. Len(outbox') : OldOrPlain(outbox'[k], outbox, "result")
    PROVE  ProverInv'
  <1>0. /\ \A id \in DOMAIN pending : pending[id] \in Tasks
        /\ nextRequestId \in Nat /\ nextRequestId' \in Nat
    BY DEF ProverInv, ProverTypeOK
  <1>1. \A id \in DOMAIN pending : call'[pending[id]] = call[pending[id]]
    BY <1>0 DEF ProverInv, Waiting, Harmless
  <1>2. Waiting'
    BY <1>1 DEF ProverInv, Waiting
  <1>3. ProofMatches'
    <2> SUFFICES ASSUME NEW t \in Tasks, call'[t].pc = "proved", t \notin Prewarmers
                 PROVE  call'[t].proof = [circuit |-> CircuitOf[t], inputs |-> <<t, call'[t].n>>]
      BY DEF ProofMatches, At, Inputs
    <2>1. call'[t] = call[t]
      BY DEF Harmless
    <2> QED
      BY <2>1 DEF ProverInv, ProofMatches, At, Inputs
  <1>6. (\A j \in 1 .. Len(inbox) : inbox[j].id \in Int) /\ (\A j \in 1 .. Len(outbox) : outbox[j].id \in Int)
    <2>1. \A m \in Requests \cup Answers : m.id \in Int
      BY DEF Requests, Answers, InitId
    <2>2. inbox \in Seq(Requests) /\ outbox \in Seq(Answers)
      BY DEF ProverInv, ProverTypeOK
    <2> QED
      BY <2>1, <2>2
  <1>7. ASSUME NEW k \in 1 .. Len(inbox') PROVE Asked(inbox[k])'
    <2>1. CASE \E j \in 1 .. Len(inbox) : inbox'[k] = inbox[j]
      <3>1. PICK j \in 1 .. Len(inbox) : inbox'[k] = inbox[j]
        BY <2>1
      <3> DEFINE m == inbox[j]
      <3>2. m.id \in Int /\ Asked(m)
        BY <1>6 DEF ProverInv
      <3>3. inbox'[k].id < nextRequestId'
        BY <1>0, <3>1, <3>2 DEF Asked
      <3>4. ASSUME m.type = "prove", m.id \in DOMAIN pending
            PROVE  /\ m.circuit = CircuitOf[pending[m.id]]
                   /\ m.inputs = <<pending[m.id], call'[pending[m.id]].n>>
        BY <1>1, <3>2, <3>4 DEF Asked, Inputs
      <3> QED
        BY <3>1, <3>3, <3>4 DEF Asked, Inputs
    <2>2. CASE inbox'[k].type # "prove" /\ inbox'[k].id < nextRequestId'
      BY <2>2 DEF Asked
    <2> QED
      BY <2>1, <2>2 DEF OldOrPlain
  <1>8. ASSUME NEW k \in 1 .. Len(outbox') PROVE Told(outbox[k])'
    <2>1. CASE \E j \in 1 .. Len(outbox) : outbox'[k] = outbox[j]
      <3>1. PICK j \in 1 .. Len(outbox) : outbox'[k] = outbox[j]
        BY <2>1
      <3> DEFINE m == outbox[j]
      <3>2. m.id \in Int /\ Told(m)
        BY <1>6 DEF ProverInv
      <3>3. outbox'[k].id < nextRequestId'
        BY <1>0, <3>1, <3>2 DEF Told
      <3>4. ASSUME m.type = "result", m.id \in DOMAIN pending
            PROVE  m.proof = [circuit |-> CircuitOf[pending[m.id]],
                              inputs |-> <<pending[m.id], call'[pending[m.id]].n>>]
        BY <1>1, <3>2, <3>4 DEF Told, Inputs
      <3> QED
        BY <3>1, <3>3, <3>4 DEF Told, Inputs
    <2>2. CASE outbox'[k].type # "result" /\ outbox'[k].id < nextRequestId'
      BY <2>2 DEF Told
    <2> QED
      BY <2>1, <2>2 DEF OldOrPlain
  <1> QED
    BY <1>2, <1>3, <1>7, <1>8 DEF ProverInv

-----------------------------------------------------------------------------
(* The prover: its steps                                                   *)

LEMMA AppendParts ==
    ASSUME NEW S, NEW s \in Seq(S), NEW m \in S
    PROVE  /\ Append(s, m) \in Seq(S)
           /\ \A k \in 1 .. Len(Append(s, m)) :
                 Append(s, m)[k] = m \/ \E j \in 1 .. Len(s) : Append(s, m)[k] = s[j]
  <1>1. Append(s, m) \in Seq(S) /\ Len(Append(s, m)) = Len(s) + 1 /\ Len(s) \in Nat
    OBVIOUS
  <1>2. ASSUME NEW k \in 1 .. Len(s) + 1
        PROVE  Append(s, m)[k] = m \/ \E j \in 1 .. Len(s) : Append(s, m)[k] = s[j]
    <2>1. CASE k = Len(s) + 1
      BY <1>1, <2>1
    <2>2. CASE k # Len(s) + 1
      <3>1. k \in 1 .. Len(s)
        BY <1>1, <2>2
      <3>2. Append(s, m)[k] = s[k]
        BY <3>1
      <3> QED
        BY <3>1, <3>2
    <2> QED
      BY <2>1, <2>2
  <1> QED
    BY <1>1, <1>2

LEMMA TailParts ==
    ASSUME NEW S, NEW s \in Seq(S), s # <<>>
    PROVE  /\ Tail(s) \in Seq(S) /\ 1 \in 1 .. Len(s) /\ Head(s) = s[1] /\ Head(s) \in S
           /\ \A k \in 1 .. Len(Tail(s)) : \E j \in 1 .. Len(s) : Tail(s)[k] = s[j]
  <1>1. Len(s) \in Nat /\ Len(s) # 0 /\ Tail(s) \in Seq(S) /\ Len(Tail(s)) = Len(s) - 1
    OBVIOUS
  <1>2. 1 \in 1 .. Len(s) /\ Head(s) = s[1] /\ s[1] \in S
    BY <1>1
  <1>3. ASSUME NEW k \in 1 .. Len(Tail(s)) PROVE \E j \in 1 .. Len(s) : Tail(s)[k] = s[j]
    <2>1. k + 1 \in 1 .. Len(s) /\ Tail(s)[k] = s[k + 1]
      BY <1>1
    <2> QED
      BY <2>1
  <1> QED
    BY <1>1, <1>2, <1>3

LEMMA SettledCalls ==
    ASSUME call \in [Tasks -> Calls], NEW S, NEW pc \in CallStates
    PROVE  /\ Settle(S, pc) \in [Tasks -> Calls]
           /\ \A t \in Tasks : /\ t \notin S => Settle(S, pc)[t] = call[t]
                               /\ t \in S => Settle(S, pc)[t].pc = pc /\ Settle(S, pc)[t].n = call[t].n
  <1>1. \A t \in Tasks : [call[t] EXCEPT !.pc = pc] \in Calls
    BY DEF Calls
  <1>2. \A t \in Tasks : [call[t] EXCEPT !.pc = pc].pc = pc /\ [call[t] EXCEPT !.pc = pc].n = call[t].n
    BY DEF Calls
  <1> QED
    BY <1>1, <1>2 DEF Settle

LEMMA OneCall ==
    ASSUME call \in [Tasks -> Calls], NEW t, NEW pc \in CallStates
    PROVE  /\ [call EXCEPT ![t].pc = pc] \in [Tasks -> Calls]
           /\ \A u \in Tasks : /\ u # t => [call EXCEPT ![t].pc = pc][u] = call[u]
                               /\ u = t => /\ [call EXCEPT ![t].pc = pc][u].pc = pc
                                           /\ [call EXCEPT ![t].pc = pc][u].n = call[u].n
  <1>1. \A u \in Tasks : [call[u] EXCEPT !.pc = pc] \in Calls
    BY DEF Calls
  <1>2. \A u \in Tasks : [call[u] EXCEPT !.pc = pc].pc = pc /\ [call[u] EXCEPT !.pc = pc].n = call[u].n
    BY DEF Calls
  <1> QED
    BY <1>1, <1>2

\* A step that leaves the map of pending proofs alone and asks for no proof.
LEMMA QuietProver ==
    ASSUME ProverInv, UNCHANGED pending, nextRequestId' \in Nat, nextRequestId <= nextRequestId',
           call' \in [Tasks -> Calls], inbox' \in Seq(Requests), outbox' \in Seq(Answers),
           \A t \in Tasks : Harmless(t),
           \/ inbox' = inbox
           \/ \A k \in 1 .. Len(inbox') : OldOrPlain(inbox'[k], inbox, "prove"),
           \/ outbox' = outbox
           \/ \A k \in 1 .. Len(outbox') : OldOrPlain(outbox'[k], outbox, "result")
    PROVE  ProverInv'
  <1>1. ProverTypeOK'
    BY DEF ProverInv, ProverTypeOK
  <1>2. \A k \in 1 .. Len(inbox') : OldOrPlain(inbox'[k], inbox, "prove")
    BY DEF OldOrPlain
  <1>3. \A k \in 1 .. Len(outbox') : OldOrPlain(outbox'[k], outbox, "result")
    BY DEF OldOrPlain
  <1> QED
    BY <1>1, <1>2, <1>3, QuietStep

\* A step that only moves calls which do not wait for the worker.
LEMMA QuietCalls ==
    ASSUME ProverInv, UNCHANGED <<pending, nextRequestId, inbox, outbox>>,
           call' \in [Tasks -> Calls], \A t \in Tasks : Harmless(t)
    PROVE  ProverInv'
  <1>1. nextRequestId \in Nat /\ inbox \in Seq(Requests) /\ outbox \in Seq(Answers)
    BY DEF ProverInv, ProverTypeOK
  <1>2. nextRequestId' \in Nat /\ nextRequestId <= nextRequestId' /\ inbox' \in Seq(Requests) /\ outbox' \in Seq(Answers)
    BY <1>1
  <1> QED
    BY <1>2, QuietProver

LEMMA CallInv ==
    ASSUME ProverInv, NEW t, Call(t) PROVE ProverInv'
  <1> DEFINE c == [pc |-> "port", n |-> call[t].n + 1, proof |-> NoProof]
  <1>0. call \in [Tasks -> Calls]
    BY DEF ProverInv, ProverTypeOK
  <1>1. t \in Tasks => c \in Calls
    BY <1>0 DEF Calls, CallStates
  <1>2. call' = [call EXCEPT ![t] = c]
    BY DEF Call
  <1>3. call' \in [Tasks -> Calls]
    BY <1>0, <1>1, <1>2
  <1>4. \A u \in Tasks : u # t => call'[u] = call[u]
    BY <1>0, <1>2
  <1>5. t \in Tasks => call'[t].pc = "port" /\ call[t].pc = "idle"
    BY <1>0, <1>2 DEF Call
  <1>6. \A u \in Tasks : Harmless(u)
    BY <1>4, <1>5 DEF Harmless
  <1> QED
    BY <1>3, <1>6, QuietCalls DEF Call

LEMMA TakenInv ==
    ASSUME ProverInv, NEW t, call[t].pc \in {"proved", "failed"}, call' = Taken(t),
           UNCHANGED <<pending, nextRequestId, inbox, outbox>>
    PROVE  ProverInv'
  <1>0. call \in [Tasks -> Calls] /\ "idle" \in CallStates
    BY DEF ProverInv, ProverTypeOK, CallStates
  <1>1. call' \in [Tasks -> Calls]
    BY <1>0, OneCall DEF Taken
  <1>2. \A u \in Tasks : (u # t => call'[u] = call[u]) /\ (u = t => call'[u].pc = "idle")
    BY <1>0, OneCall DEF Taken
  <1>3. \A u \in Tasks : Harmless(u)
    BY <1>2 DEF Harmless
  <1> QED
    BY <1>1, <1>3, QuietCalls

LEMMA PageStepInv ==
    ASSUME ProverInv,
           \/ FetchWasm \/ PortSettles
           \/ \E c \in Circuits : AfterWorker(c)
           \/ \E t \in Tasks : EnsurePrepared(t)
    PROVE  ProverInv'
  <1>0. /\ call \in [Tasks -> Calls] /\ inbox \in Seq(Requests) /\ outbox \in Seq(Answers)
        /\ nextRequestId \in Nat /\ "failed" \in CallStates /\ "prepare" \in CallStates
    BY DEF ProverInv, ProverTypeOK, CallStates
  <1>1. CASE FetchWasm
    BY <1>0, <1>1, QuietCalls DEF FetchWasm, Harmless
  <1>2. CASE PortSettles
    <2>1. /\ Settle(At("port"), "failed") \in [Tasks -> Calls]
          /\ \A t \in Tasks : /\ t \notin At("port") => Settle(At("port"), "failed")[t] = call[t]
                              /\ t \in At("port") => Settle(At("port"), "failed")[t].pc = "failed"
      BY <1>0, SettledCalls
    <2>2. \A t \in At("port") : call[t].pc = "port"
      BY DEF At
    <2>3. call' \in {call, Settle(At("port"), "failed")}
      BY <1>2 DEF PortSettles
    <2>4. call' \in [Tasks -> Calls] /\ \A t \in Tasks : Harmless(t)
      BY <1>0, <2>1, <2>2, <2>3 DEF Harmless
    <2> QED
      BY <1>2, <2>4, QuietCalls DEF PortSettles
  <1>3. ASSUME NEW c \in Circuits, AfterWorker(c) PROVE ProverInv'
    <2> DEFINE S == {t \in At("prepare") : CircuitOf[t] = c}
    <2>1. /\ Settle(S, "failed") \in [Tasks -> Calls]
          /\ \A t \in Tasks : /\ t \notin S => Settle(S, "failed")[t] = call[t]
                              /\ t \in S => Settle(S, "failed")[t].pc = "failed"
      BY <1>0, SettledCalls
    <2>2. \A t \in S : call[t].pc = "prepare"
      BY DEF At
    <2>3. call' \in {call, Settle(S, "failed")}
      BY <1>3 DEF AfterWorker, RejectPreparation
    <2> HIDE DEF S
    <2>4. call' \in [Tasks -> Calls] /\ \A t \in Tasks : Harmless(t)
      BY <1>0, <2>1, <2>2, <2>3 DEF Harmless
    <2> QED
      BY <1>3, <2>4, QuietCalls DEF AfterWorker
  <1>4. ASSUME NEW t \in Tasks, EnsurePrepared(t) PROVE ProverInv'
    <2>1. call' = [call EXCEPT ![t].pc = "prepare"] /\ call[t].pc = "port"
      BY <1>4 DEF EnsurePrepared
    <2>2. call' \in [Tasks -> Calls]
      BY <1>0, <2>1, OneCall
    <2>3. \A u \in Tasks : (u # t => call'[u] = call[u]) /\ (u = t => call'[u].pc = "prepare")
      BY <1>0, <2>1, OneCall
    <2>4. \A u \in Tasks : Harmless(u)
      BY <2>1, <2>3 DEF Harmless
    <2> DEFINE m == [type |-> "init", id |-> InitId]
    <2>5. m \in Requests /\ m.type # "prove" /\ m.id < nextRequestId
      BY <1>0 DEF Requests, InitId
    <2>6. inbox' \in {inbox, Append(inbox, m)}
      BY <1>4 DEF EnsurePrepared
    <2>7. UNCHANGED <<pending, nextRequestId, outbox>>
      BY <1>4 DEF EnsurePrepared
    <2> HIDE DEF m
    <2>8. inbox' \in Seq(Requests) /\ (inbox' = inbox \/ \A k \in 1 .. Len(inbox') : OldOrPlain(inbox'[k], inbox, "prove"))
      <3>1. CASE inbox' = inbox
        BY <1>0, <3>1
      <3>2. CASE inbox' = Append(inbox, m)
        BY <1>0, <2>5, <2>7, <3>2, AppendParts DEF OldOrPlain
      <3> QED
        BY <2>6, <3>1, <3>2
    <2> QED
      BY <1>0, <2>2, <2>4, <2>7, <2>8, QuietProver
  <1> QED
    BY <1>1, <1>2, <1>3, <1>4

LEMMA ArtifactsInv ==
    ASSUME ProverInv, NEW c \in Circuits, Artifacts(c) PROVE ProverInv'
  <1>0. /\ call \in [Tasks -> Calls] /\ inbox \in Seq(Requests) /\ outbox \in Seq(Answers)
        /\ nextRequestId \in Nat /\ "failed" \in CallStates
    BY DEF ProverInv, ProverTypeOK, CallStates
  <1>1. UNCHANGED <<pending, outbox>>
    BY DEF Artifacts
  <1>2. CASE RejectPreparation(c) /\ UNCHANGED <<preparing, inbox, nextRequestId>>
    <2> DEFINE S == {t \in At("prepare") : CircuitOf[t] = c}
    <2>1. /\ Settle(S, "failed") \in [Tasks -> Calls]
          /\ \A t \in Tasks : /\ t \notin S => Settle(S, "failed")[t] = call[t]
                              /\ t \in S => Settle(S, "failed")[t].pc = "failed"
      BY <1>0, SettledCalls
    <2>2. \A t \in S : call[t].pc = "prepare"
      BY DEF At
    <2>3. call' = Settle(S, "failed")
      BY <1>2 DEF RejectPreparation
    <2> HIDE DEF S
    <2>4. call' \in [Tasks -> Calls] /\ \A t \in Tasks : Harmless(t)
      BY <2>1, <2>2, <2>3 DEF Harmless
    <2> QED
      BY <1>1, <1>2, <2>4, QuietCalls
  <1>3. CASE ~(RejectPreparation(c) /\ UNCHANGED <<preparing, inbox, nextRequestId>>)
    <2> DEFINE m == [type |-> "prepare", id |-> nextRequestId, circuit |-> c]
    <2>1. UNCHANGED call /\ nextRequestId' = nextRequestId + 1 /\ inbox' = Append(inbox, m)
      BY <1>3 DEF Artifacts, NextId
    <2>2. m \in Requests /\ m.type # "prove" /\ m.id < nextRequestId'
      BY <1>0, <2>1 DEF Requests
    <2> HIDE DEF m
    <2>3. inbox' \in Seq(Requests) /\ \A k \in 1 .. Len(inbox') : OldOrPlain(inbox'[k], inbox, "prove")
      BY <1>0, <2>1, <2>2, AppendParts DEF OldOrPlain
    <2>4. nextRequestId' \in Nat /\ nextRequestId <= nextRequestId' /\ \A t \in Tasks : Harmless(t)
      BY <1>0, <2>1 DEF Harmless
    <2> QED
      BY <1>0, <1>1, <2>1, <2>3, <2>4, QuietProver
  <1> QED
    BY <1>2, <1>3

LEMMA AfterPreparedInv ==
    ASSUME ProverInv, NEW t \in Tasks, AfterPrepared(t) PROVE ProverInv'
  <1>0. /\ call \in [Tasks -> Calls] /\ inbox \in Seq(Requests) /\ outbox \in Seq(Answers)
        /\ nextRequestId \in Nat /\ "proved" \in CallStates /\ "proving" \in CallStates
        /\ \A id \in DOMAIN pending : id \in Nat /\ id < nextRequestId /\ pending[id] \in Tasks
    BY DEF ProverInv, ProverTypeOK, CallStates
  <1>1. call[t].pc = "prepare" /\ UNCHANGED outbox
    BY DEF AfterPrepared
  <1>2. CASE t \in Prewarmers
    <2>1. call' = [call EXCEPT ![t].pc = "proved"] /\ UNCHANGED <<pending, inbox, nextRequestId>>
      BY <1>2 DEF AfterPrepared
    <2>2. call' \in [Tasks -> Calls]
      BY <1>0, <2>1, OneCall
    <2>3. \A u \in Tasks : u # t => call'[u] = call[u]
      BY <1>0, <2>1, OneCall
    <2>4. \A u \in Tasks : Harmless(u)
      BY <1>1, <1>2, <2>3 DEF Harmless
    <2> QED
      BY <1>1, <2>1, <2>2, <2>4, QuietCalls
  <1>3. CASE t \notin Prewarmers
    <2> DEFINE m == [type |-> "prove", id |-> nextRequestId, circuit |-> CircuitOf[t], inputs |-> Inputs(t)]
    <2>1. /\ call' = [call EXCEPT ![t].pc = "proving"] /\ inbox' = Append(inbox, m)
          /\ nextRequestId' = nextRequestId + 1 /\ pending' = Put(pending, nextRequestId, t)
      BY <1>3 DEF AfterPrepared, NextId
    <2>2. call' \in [Tasks -> Calls]
      BY <1>0, <2>1, OneCall
    <2>3. \A u \in Tasks : /\ u # t => call'[u] = call[u]
                           /\ u = t => call'[u].pc = "proving" /\ call'[u].n = call[u].n
      BY <1>0, <2>1, OneCall
    <2>4. m \in Requests /\ m.id = nextRequestId /\ m.circuit = CircuitOf[t] /\ m.inputs = Inputs(t)
      <3>1. CircuitOf[t] \in Circuits /\ call[t].n \in Nat
        BY <1>0 DEF Circuits, Calls
      <3> QED
        BY <1>0, <3>1 DEF Requests, Inputs
    <2> HIDE DEF m
    <2>5. /\ DOMAIN pending' = DOMAIN pending \cup {nextRequestId}
          /\ pending'[nextRequestId] = t
          /\ nextRequestId \notin DOMAIN pending
          /\ \A id \in DOMAIN pending : pending'[id] = pending[id] /\ pending[id] # t
      BY <1>0, <1>1, <2>1 DEF Put, ProverInv, Waiting
    <2>6. inbox' \in Seq(Requests)
      BY <1>0, <2>1, <2>4, AppendParts
    <2>7. ProverTypeOK'
      <3>1. \A id \in DOMAIN pending' : id \in Nat /\ id < nextRequestId' /\ pending'[id] \in Tasks
        BY <1>0, <2>1, <2>5
      <3>2. nextRequestId' \in Nat /\ outbox' \in Seq(Answers)
        BY <1>0, <1>1, <2>1
      <3> QED
        BY <2>2, <2>6, <3>1, <3>2 DEF ProverTypeOK
    <2>8. Waiting'
      <3>1. \A id \in DOMAIN pending : call'[pending[id]] = call[pending[id]]
        BY <1>0, <2>3, <2>5
      <3> QED
        BY <2>3, <2>5, <3>1 DEF ProverInv, Waiting
    <2>9. ProofMatches'
      <3> SUFFICES ASSUME NEW u \in Tasks, call'[u].pc = "proved", u \notin Prewarmers
                   PROVE  call'[u].proof = [circuit |-> CircuitOf[u], inputs |-> <<u, call'[u].n>>]
        BY DEF ProofMatches, At, Inputs
      <3>1. call'[u] = call[u]
        BY <2>3
      <3> QED
        BY <3>1 DEF ProverInv, ProofMatches, At, Inputs
    <2>10. \A u \in Tasks : Inputs(u)' = Inputs(u)
      BY <2>3 DEF Inputs
    <2>11. ASSUME NEW k \in 1 .. Len(inbox') PROVE Asked(inbox[k])'
      <3>1. CASE inbox'[k] = m
        BY <1>0, <2>1, <2>4, <2>5, <2>10, <3>1 DEF Asked
      <3>2. ASSUME NEW j \in 1 .. Len(inbox), inbox'[k] = inbox[j] PROVE Asked(inbox[k])'
        <4>1. inbox[j].id \in Int /\ Asked(inbox[j])
          <5>1. inbox[j] \in Requests
            BY <1>0
          <5> QED
            BY <5>1 DEF Requests, InitId, ProverInv
        <4>2. inbox[j].id < nextRequestId' /\ inbox[j].id # nextRequestId
          BY <1>0, <2>1, <4>1 DEF Asked
        <4> QED
          BY <1>0, <2>5, <2>10, <3>2, <4>1, <4>2 DEF Asked
      <3> QED
        BY <1>0, <2>1, <2>4, <3>1, <3>2, AppendParts
    <2>12. ASSUME NEW k \in 1 .. Len(outbox') PROVE Told(outbox[k])'
      <3>1. outbox'[k] = outbox[k] /\ k \in 1 .. Len(outbox)
        BY <1>1
      <3>2. outbox[k].id \in Int /\ Told(outbox[k])
        <4>1. outbox[k] \in Answers
          BY <1>0, <3>1
        <4> QED
          BY <3>1, <4>1 DEF Answers, ProverInv
      <3>3. outbox[k].id < nextRequestId' /\ outbox[k].id # nextRequestId
        BY <1>0, <2>1, <3>2 DEF Told
      <3> QED
        BY <1>0, <2>5, <2>10, <3>1, <3>2, <3>3 DEF Told
    <2> QED
      BY <2>7, <2>8, <2>9, <2>11, <2>12 DEF ProverInv
  <1> QED
    BY <1>2, <1>3

\* The worker answers the request at the head of its queue.
LEMMA WorkInv ==
    ASSUME ProverInv, Work PROVE ProverInv'
  <1>0. /\ inbox \in Seq(Requests) /\ outbox \in Seq(Answers) /\ nextRequestId \in Nat
        /\ inbox # <<>> /\ inbox' = Tail(inbox)
        /\ UNCHANGED <<nextRequestId, pending, call>>
    BY DEF ProverInv, ProverTypeOK, Work
  <1> DEFINE msg == Head(inbox)
  <1>1. msg \in Requests /\ Asked(msg)
    <2>1. 1 \in 1 .. Len(inbox) /\ Head(inbox) = inbox[1] /\ Head(inbox) \in Requests
      BY <1>0, TailParts
    <2> QED
      BY <2>1 DEF ProverInv
  <1>2. PICK r : r \in {Served(msg), Failed(msg)} /\ outbox' = Append(outbox, r)
    BY DEF Work
  <1> HIDE DEF msg
  <1>3. r \in Answers /\ Told(r)
    <2>1. CASE r = Failed(msg)
      BY <1>1, <2>1 DEF Failed, Requests, Answers, Told, Asked, InitId
    <2>2. CASE r = Served(msg)
      <3>1. CASE msg \in [type : {"init"}, id : {InitId}]
        BY <1>1, <2>2, <3>1 DEF Served, Answers, Told, Asked, InitId
      <3>2. CASE msg \in [type : {"prepare"}, id : Nat, circuit : Circuits]
        BY <1>1, <2>2, <3>2 DEF Served, Answers, Told, Asked
      <3>3. CASE msg \in [type : {"prove"}, id : Nat, circuit : Circuits, inputs : Tasks \X Nat]
        <4>1. r = [type |-> "result", id |-> msg.id, proof |-> [circuit |-> msg.circuit, inputs |-> msg.inputs]]
          BY <2>2, <3>3 DEF Served
        <4>2. r \in Answers
          BY <3>3, <4>1 DEF Answers, ProofsOf
        <4> QED
          BY <1>1, <3>3, <4>1, <4>2 DEF Told, Asked
      <3> QED
        BY <1>1, <3>1, <3>2, <3>3 DEF Requests
    <2> QED
      BY <1>2, <2>1, <2>2
  <1>4. inbox' \in Seq(Requests) /\ \A k \in 1 .. Len(inbox') : \E j \in 1 .. Len(inbox) : inbox'[k] = inbox[j]
    BY <1>0, TailParts
  <1>5. /\ outbox' \in Seq(Answers)
        /\ \A k \in 1 .. Len(outbox') : outbox'[k] = r \/ \E j \in 1 .. Len(outbox) : outbox'[k] = outbox[j]
    BY <1>0, <1>2, <1>3, AppendParts
  <1>6. ProverTypeOK' /\ Waiting'
    BY <1>0, <1>4, <1>5 DEF ProverInv, ProverTypeOK, Waiting
  <1>7. ProofMatches'
    BY <1>0 DEF ProverInv, ProofMatches, At, Inputs
  <1>8. ASSUME NEW k \in 1 .. Len(inbox') PROVE Asked(inbox[k])'
    <2>1. PICK j \in 1 .. Len(inbox) : inbox'[k] = inbox[j]
      BY <1>4
    <2>2. Asked(inbox[j])
      BY DEF ProverInv
    <2> QED
      BY <1>0, <2>1, <2>2 DEF Asked, Inputs
  <1>9. ASSUME NEW k \in 1 .. Len(outbox') PROVE Told(outbox[k])'
    <2>1. Told(outbox'[k])
      BY <1>3, <1>5 DEF ProverInv
    <2> QED
      BY <1>0, <2>1 DEF Told, Inputs
  <1> QED
    BY <1>6, <1>7, <1>8, <1>9 DEF ProverInv

\* An answer of the worker frees the call that waited for it, and no other.
LEMMA AnswerInv ==
    ASSUME ProverInv, NEW id, pending' = Answered(pending, id),
           UNCHANGED <<nextRequestId, inbox>>, outbox # <<>>, outbox' = Tail(outbox),
           call' \in [Tasks -> Calls],
           \A t \in Tasks : \/ call'[t] = call[t]
                            \/ id \in DOMAIN pending /\ t = pending[id] /\ call'[t].n = call[t].n,
           ProofMatches'
    PROVE  ProverInv'
  <1>0. /\ inbox \in Seq(Requests) /\ outbox \in Seq(Answers) /\ nextRequestId \in Nat
        /\ \A i \in DOMAIN pending : i \in Nat /\ i < nextRequestId /\ pending[i] \in Tasks
    BY DEF ProverInv, ProverTypeOK
  <1>1. DOMAIN pending' = DOMAIN pending \ {id} /\ \A i \in DOMAIN pending' : pending'[i] = pending[i]
    BY DEF Answered, Restrict
  <1>2. \A i \in DOMAIN pending' : call'[pending[i]] = call[pending[i]]
    BY <1>0, <1>1 DEF ProverInv, Waiting
  <1>3. outbox' \in Seq(Answers) /\ \A k \in 1 .. Len(outbox') : \E j \in 1 .. Len(outbox) : outbox'[k] = outbox[j]
    BY <1>0, TailParts
  <1>4. ProverTypeOK'
    BY <1>0, <1>1, <1>3 DEF ProverTypeOK
  <1>5. Waiting'
    BY <1>1, <1>2 DEF ProverInv, Waiting
  <1>6. \A i \in DOMAIN pending' : Inputs(pending[i])' = Inputs(pending[i])
    BY <1>1, <1>2 DEF Inputs
  <1>7. ASSUME NEW k \in 1 .. Len(inbox') PROVE Asked(inbox[k])'
    <2>1. Asked(inbox[k]) /\ inbox'[k] = inbox[k]
      BY DEF ProverInv
    <2> QED
      BY <1>1, <1>6, <2>1 DEF Asked
  <1>8. ASSUME NEW k \in 1 .. Len(outbox') PROVE Told(outbox[k])'
    <2>1. PICK j \in 1 .. Len(outbox) : outbox'[k] = outbox[j]
      BY <1>3
    <2>2. Told(outbox[j])
      BY DEF ProverInv
    <2> QED
      BY <1>1, <1>6, <2>1, <2>2 DEF Told
  <1> QED
    BY <1>4, <1>5, <1>7, <1>8 DEF ProverInv

LEMMA OnMessageInv ==
    ASSUME ProverInv, OnMessage PROVE ProverInv'
  <1> DEFINE msg == Head(outbox)
  <1>0. /\ call \in [Tasks -> Calls] /\ inbox \in Seq(Requests) /\ outbox \in Seq(Answers)
        /\ nextRequestId \in Nat /\ "failed" \in CallStates
        /\ \A id \in DOMAIN pending : pending[id] \in Tasks
    BY DEF ProverInv, ProverTypeOK, CallStates
  <1>1. outbox # <<>> /\ outbox' = Tail(outbox) /\ UNCHANGED <<nextRequestId, inbox>>
    BY DEF OnMessage
  <1>2. msg \in Answers /\ Told(msg)
    <2>1. 1 \in 1 .. Len(outbox) /\ Head(outbox) = outbox[1] /\ Head(outbox) \in Answers
      BY <1>0, <1>1, TailParts
    <2> QED
      BY <2>1 DEF ProverInv
  <1>3. /\ outbox' \in Seq(Answers)
        /\ \A k \in 1 .. Len(outbox') : OldOrPlain(outbox'[k], outbox, "result")
    BY <1>0, <1>1, TailParts DEF OldOrPlain
  <1>4. ASSUME UNCHANGED pending, call' \in [Tasks -> Calls], \A t \in Tasks : Harmless(t)
        PROVE  ProverInv'
    BY <1>0, <1>1, <1>3, <1>4, QuietProver
  <1>5. CASE UNCHANGED <<pending, call>>
    BY <1>0, <1>4, <1>5 DEF Harmless
  <1>6. ASSUME NEW c, RejectPreparation(c), UNCHANGED pending PROVE ProverInv'
    <2> DEFINE S == {t \in At("prepare") : CircuitOf[t] = c}
    <2>1. /\ Settle(S, "failed") \in [Tasks -> Calls]
          /\ \A t \in Tasks : /\ t \notin S => Settle(S, "failed")[t] = call[t]
                              /\ t \in S => Settle(S, "failed")[t].pc = "failed"
      BY <1>0, SettledCalls
    <2>2. \A t \in S : call[t].pc = "prepare"
      BY DEF At
    <2>3. call' = Settle(S, "failed")
      BY <1>6 DEF RejectPreparation
    <2> HIDE DEF S
    <2>4. call' \in [Tasks -> Calls] /\ \A t \in Tasks : Harmless(t)
      BY <2>1, <2>2, <2>3 DEF Harmless
    <2> QED
      BY <1>4, <1>6, <2>4
  <1>7. CASE /\ call' = Settle({pending[i] : i \in {msg.id} \cap DOMAIN pending}, "failed")
             /\ pending' = Answered(pending, msg.id)
    <2> DEFINE S == {pending[i] : i \in {msg.id} \cap DOMAIN pending}
    <2>1. /\ Settle(S, "failed") \in [Tasks -> Calls]
          /\ \A t \in Tasks : /\ t \notin S => Settle(S, "failed")[t] = call[t]
                              /\ t \in S => Settle(S, "failed")[t].pc = "failed" /\ Settle(S, "failed")[t].n = call[t].n
      BY <1>0, SettledCalls
    <2>2. \A t \in S : msg.id \in DOMAIN pending /\ t = pending[msg.id]
      OBVIOUS
    <2>3. call' = Settle(S, "failed")
      BY <1>7
    <2> HIDE DEF S
    <2>4. call' \in [Tasks -> Calls]
      BY <2>1, <2>3
    <2>5. \A t \in Tasks : \/ call'[t] = call[t]
                           \/ /\ msg.id \in DOMAIN pending /\ t = pending[msg.id]
                              /\ call'[t].n = call[t].n /\ call'[t].pc = "failed"
      BY <2>1, <2>2, <2>3
    <2>6. ProofMatches'
      <3> SUFFICES ASSUME NEW t \in Tasks, call'[t].pc = "proved", t \notin Prewarmers
                   PROVE  call'[t].proof = [circuit |-> CircuitOf[t], inputs |-> <<t, call'[t].n>>]
        BY DEF ProofMatches, At, Inputs
      <3>1. call'[t] = call[t]
        BY <2>5
      <3> QED
        BY <3>1 DEF ProverInv, ProofMatches, At, Inputs
    <2> QED
      BY <1>1, <1>7, <2>4, <2>5, <2>6, AnswerInv
  <1>8. CASE /\ msg.type = "result"
             /\ call' = IF msg.id \notin DOMAIN pending THEN call
                        ELSE [call EXCEPT ![pending[msg.id]] = [@ EXCEPT !.pc = "proved", !.proof = msg.proof]]
             /\ pending' = Answered(pending, msg.id)
    <2>1. msg.proof \in ProofsOf
      BY <1>2, <1>8 DEF Answers
    <2> DEFINE done(t) == [call[t] EXCEPT !.pc = "proved", !.proof = msg.proof]
    <2>2. \A t \in Tasks : /\ done(t) \in Calls /\ done(t).n = call[t].n
                           /\ done(t).pc = "proved" /\ done(t).proof = msg.proof
      BY <1>0, <2>1 DEF Calls, CallStates
    <2>3. \A t \in Tasks : call'[t] = IF msg.id \in DOMAIN pending /\ t = pending[msg.id] THEN done(t) ELSE call[t]
      BY <1>0, <1>8
    <2>4. call' \in [Tasks -> Calls]
      <3>1. CASE msg.id \notin DOMAIN pending
        BY <1>0, <1>8, <3>1
      <3>2. CASE msg.id \in DOMAIN pending
        BY <1>0, <1>8, <2>2, <3>2
      <3> QED
        BY <3>1, <3>2
    <2> HIDE DEF done
    <2>5. \A t \in Tasks : \/ call'[t] = call[t]
                           \/ msg.id \in DOMAIN pending /\ t = pending[msg.id] /\ call'[t].n = call[t].n
      BY <2>2, <2>3
    <2>6. ProofMatches'
      <3> SUFFICES ASSUME NEW t \in Tasks, call'[t].pc = "proved", t \notin Prewarmers
                   PROVE  call'[t].proof = [circuit |-> CircuitOf[t], inputs |-> <<t, call'[t].n>>]
        BY DEF ProofMatches, At, Inputs
      <3>1. CASE msg.id \in DOMAIN pending /\ t = pending[msg.id]
        <4>1. call'[t].proof = msg.proof /\ call'[t].n = call[t].n
          BY <2>2, <2>3, <3>1
        <4> QED
          BY <1>2, <1>8, <3>1, <4>1 DEF Told, Inputs
      <3>2. CASE ~(msg.id \in DOMAIN pending /\ t = pending[msg.id])
        <4>1. call'[t] = call[t]
          BY <2>3, <3>2
        <4> QED
          BY <4>1 DEF ProverInv, ProofMatches, At, Inputs
      <3> QED
        BY <3>1, <3>2
    <2> QED
      BY <1>1, <1>8, <2>4, <2>5, <2>6, AnswerInv
  <1>9. \/ UNCHANGED <<pending, call>>
        \/ msg.type = "error" /\ DeliverError(msg.id)
        \/ /\ msg.type = "result"
           /\ call' = IF msg.id \notin DOMAIN pending THEN call
                      ELSE [call EXCEPT ![pending[msg.id]] = [@ EXCEPT !.pc = "proved", !.proof = msg.proof]]
           /\ pending' = Answered(pending, msg.id)
    BY DEF OnMessage
  <1>10. CASE DeliverError(msg.id)
    BY <1>5, <1>6, <1>7, <1>10 DEF DeliverError
  <1> QED
    BY <1>5, <1>8, <1>9, <1>10

LEMMA ProverStepInv ==
    ASSUME ProverInv, ProverStep PROVE ProverInv'
  BY PageStepInv, ArtifactsInv, AfterPreparedInv, WorkInv, OnMessageInv DEF ProverStep

\* What the page does to its prover: it calls it, takes its answers, or starts anew.
LEMMA PageProverInv ==
    ASSUME ProverInv, [Next]_vars PROVE ProverInv'
  <1>1. CASE UNCHANGED proverVars
    BY <1>1 DEF proverVars, ProverInv, ProverTypeOK, Waiting, ProofMatches, At, Inputs, Asked, Told
  <1>2. CASE Prove
    BY <1>2, ProverStepInv DEF Prove
  <1>3. CASE Unlock \/ \E value \in Deposits : Fund(value)
    BY <1>3, CallInv DEF Unlock, Fund
  <1>4. CASE Prewarmed \/ FundProved
    BY <1>4, TakenInv DEF Prewarmed, FundProved
  <1>5. CASE Claim
    BY <1>5, CallInv, TakenInv DEF Claim
  <1>6. CASE Reload
    BY <1>6, NewPageInv DEF Reload
  <1>7. CASE FundSent \/ (\E list \in Lists : Preview(list)) \/ Pay \/ PayStep \/ Ingest \/ CoSign \/ Sweep
    <2>1. UNCHANGED proverVars
      BY <1>7 DEF FundSent, Preview, Pay, PayStep, Ingest, CoSign, Sweep, SelectSource, Assemble, Propose, Sign,
                  HelperProve, Send, Resolve
    <2> QED
      BY <1>1, <2>1
  <1>8. CASE UNCHANGED vars
    BY <1>1, <1>8 DEF vars
  <1> QED
    BY <1>2, <1>3, <1>4, <1>5, <1>6, <1>7, <1>8 DEF Next

(***************************************************************************)
(* For any tasks, circuits, numbers of calls and of failures, and however  *)
(* often the page is reloaded: a call of prove that is answered gets the   *)
(* proof of its own circuit and inputs (wasmProver.ts, nextRequestId and   *)
(* the two pending maps; worker.ts, one queue).                            *)
(***************************************************************************)
THEOREM TreasuryProofMatches == Spec => []ProofMatches
  <1>1. Init => ProverInv
    BY ProverInitInv DEF Init
  <1>2. ProverInv /\ [Next]_vars => ProverInv'
    BY PageProverInv
  <1>3. ProverInv => ProofMatches
    BY DEF ProverInv
  <1> QED
    BY <1>1, <1>2, <1>3, PTL DEF Spec

-----------------------------------------------------------------------------
(* The payroll: types                                                      *)

Named == Payees \cup {"nobody"}
Statuses == {"pending", "awaiting-signatures", "confirmed", "failed"}
Memos == {0} \cup (Nat \X Nat)
Leaves == [kind : {"group"}, value : Nat, index : Nat, parent : Nat]
            \cup [kind : {"pay"}, to : Named, amount : Nat, memo : Memos]
Transfers == [source : Nat, to : Named, amount : Nat, index : Nat, value : Nat, memo : Memos]
Views == [leaf : Nat, value : Nat, index : Nat, parent : Nat]
Shown == [to : Named, amount : Nat, status : Statuses]
Underway == {"propose", "sign", "prove", "send", "resolve"}
Payrolls == [pc : {"idle", "scan", "assemble"} \cup Underway, batch : Seq(Shown), row : Nat, source : Views,
             counter : Nat, made : Transfers, signed : Transfers, count : Nat]

ChainOK ==
    /\ leaves \in Seq(Leaves) /\ spent \subseteq 1 .. Len(leaves)
    /\ indexed \in Nat /\ indexed <= Len(leaves)
PageOK ==
    /\ rows \in Seq(Shown) /\ fund \in [pc : {"idle", "prove", "send"}, value : Nat, index : Nat, count : Nat]
    /\ pay \in Payrolls /\ proposals \in Seq([id : Nat, transfer : Transfers])

-----------------------------------------------------------------------------
(* The payroll: the inductive invariant                                    *)

\* The change of a spend exists only once its source is spent; a deposit has none.
Heirs == \A l \in 1 .. Len(leaves) : leaves[l].kind = "group" => leaves[l].parent \in spent \cup {0}

\* A row is one of the batch, its source a leaf, and what was assembled spends that source.
Placed ==
    /\ pay.pc # "idle" => pay.row \in 1 .. Len(pay.batch)
    /\ pay.pc \in Underway => pay.source.leaf \in 1 .. Len(leaves) /\ pay.made.source = pay.source.leaf

\* Whoever waits for the change of the row's source will find it unspent.
Awaited ==
    pay.pc = "resolve" =>
        \A l \in 1 .. Len(leaves) :
            leaves[l].kind = "group" /\ leaves[l].parent = pay.source.leaf => l \notin spent

PayrollInv == ChainOK /\ PageOK /\ Heirs /\ Placed /\ Awaited /\ SourceIsReal

\* A nonempty set of numbers has a least element, which Oldest picks.
LEMMA OldestOfNumbers ==
    ASSUME NEW S \in SUBSET Nat, S # {} PROVE Oldest(S) \in S
  <1> DEFINE below == {0 .. x : x \in S}
  <1>1. ASSUME NEW x \in S PROVE 0 .. x \in FiniteSubsetsOf(Nat)
    <2>1. IsFiniteSet(0 .. x) /\ 0 .. x \subseteq Nat
      BY FS_Interval
    <2> QED
      BY <2>1 DEF FiniteSubsetsOf
  <1>2. PICK b \in below : \A c \in below : <<c, b>> \notin StrictSubsetOrdering(Nat)
    <2>1. below \subseteq FiniteSubsetsOf(Nat) /\ below # {}
      BY <1>1
    <2>2. IsWellFoundedOn(StrictSubsetOrdering(Nat), FiniteSubsetsOf(Nat))
      BY FS_StrictSubsetOrderingWellFounded
    <2> HIDE DEF below
    <2> QED
      BY <2>1, <2>2, WFMin
  <1>3. PICK x \in S : b = 0 .. x
    OBVIOUS
  <1>4. ASSUME NEW y \in S, y < x PROVE FALSE
    <2>1. 0 .. y \subseteq 0 .. x /\ x \in 0 .. x /\ x \notin 0 .. y
      BY <1>4
    <2>2. 0 .. y \in SUBSET Nat /\ 0 .. x \in SUBSET Nat /\ 0 .. y # 0 .. x
      BY <2>1
    <2>3. <<0 .. y, 0 .. x>> \in StrictSubsetOrdering(Nat)
      BY <2>1, <2>2 DEF StrictSubsetOrdering
    <2> QED
      BY <1>2, <1>3, <2>3
  <1>5. \A y \in S : x <= y
    BY <1>4
  <1> QED
    BY <1>5 DEF Oldest

LEMMA MarkedRows ==
    ASSUME PageOK, NEW status \in Statuses, Mark(status) PROVE rows' \in Seq(Shown)
  <1>1. rows \in Seq(Shown) /\ DOMAIN rows = 1 .. Len(rows) /\ Len(rows) \in Nat
    BY DEF PageOK
  <1>2. \A i \in 1 .. Len(rows) : rows[i] \in Shown /\ [rows[i] EXCEPT !.status = status] \in Shown
    <2>1. \A r \in Shown : [r EXCEPT !.status = status] \in Shown
      BY DEF Shown
    <2>2. \A i \in 1 .. Len(rows) : rows[i] \in Shown
      BY <1>1
    <2> QED
      BY <2>1, <2>2
  <1>3. rows' = [i \in 1 .. Len(rows) |-> IF i = pay.row THEN [rows[i] EXCEPT !.status = status] ELSE rows[i]]
    BY <1>1 DEF Mark
  <1>4. rows' \in [1 .. Len(rows) -> Shown]
    BY <1>2, <1>3
  <1> QED
    BY <1>1, <1>4

LEMMA PayrollInitInv == Init => PayrollInv
  <1> SUFFICES ASSUME Init PROVE PayrollInv
    OBVIOUS
  <1>1. NoTransfer \in Transfers /\ NoNote \in Views
    BY DEF NoTransfer, NoNote, Transfers, Views, Memos, Named
  <1>2. <<>> \in Seq(Shown) /\ pay = IdlePay(0)
    BY DEF Init, PageInit
  <1>3. pay \in Payrolls /\ pay.pc = "idle"
    BY <1>1, <1>2 DEF IdlePay, Payrolls
  <1>4. ChainOK /\ Heirs
    BY DEF Init, ChainOK, Heirs
  <1>5. PageOK
    BY <1>3 DEF Init, PageInit, PageOK, IdleFund
  <1> QED
    BY <1>3, <1>4, <1>5 DEF PayrollInv, Placed, Awaited, SourceIsReal, Underway

\* A payroll that is not under way asks nothing of the chain.
LEMMA StoppedInv ==
    ASSUME PayrollInv, UNCHANGED <<chainVars>>, PageOK', pay'.pc = "idle"
    PROVE  PayrollInv'
  BY DEF PayrollInv, chainVars, ChainOK, Heirs, Placed, Awaited, SourceIsReal, Underway

LEMMA StopPayingOK ==
    ASSUME PageOK, StopPaying PROVE pay' \in Payrolls /\ pay'.pc = "idle"
  BY DEF PageOK, StopPaying, Payrolls

LEMMA RowFailsInv ==
    ASSUME PayrollInv, UNCHANGED <<chainVars, fund>>, RowFails,
           proposals' \in Seq([id : Nat, transfer : Transfers])
    PROVE  PayrollInv'
  <1>1. PageOK
    BY DEF PayrollInv
  <1>2. rows' \in Seq(Shown)
    BY <1>1, MarkedRows DEF RowFails, Statuses
  <1>3. pay' \in Payrolls /\ pay'.pc = "idle"
    BY <1>1, StopPayingOK DEF RowFails
  <1>4. PageOK'
    BY <1>1, <1>2, <1>3 DEF PageOK
  <1> QED
    BY <1>3, <1>4, StoppedInv

\* The chain as it is left by the steps of the page that only move the payroll.
LEMMA PageOnlyInv ==
    ASSUME PayrollInv, UNCHANGED <<chainVars>>, PageOK', Placed', Awaited', SourceIsReal'
    PROVE  PayrollInv'
  BY DEF PayrollInv, chainVars, ChainOK, Heirs

LEMMA ReloadInv ==
    ASSUME PayrollInv, Reload PROVE PayrollInv'
  <1>0. PageOK
    BY DEF PayrollInv
  <1>1. NoTransfer \in Transfers /\ NoNote \in Views
    BY DEF NoTransfer, NoNote, Transfers, Views, Memos, Named
  <1>2. pay' = IdlePay(pay.count) /\ <<>> \in Seq(Shown) /\ pay.count \in Nat
    BY <1>0 DEF Reload, PageOK, Payrolls
  <1>3. pay' \in Payrolls /\ pay'.pc = "idle"
    BY <1>1, <1>2 DEF IdlePay, Payrolls
  <1>4. fund' \in [pc : {"idle", "prove", "send"}, value : Nat, index : Nat, count : Nat]
    BY <1>0 DEF Reload, PageOK, IdleFund
  <1>5. PageOK'
    BY <1>0, <1>3, <1>4 DEF Reload, PageOK, relayVars
  <1> QED
    BY <1>3, <1>5, StoppedInv DEF Reload

\* A deposit appends a note without a parent.
LEMMA FundSentInv ==
    ASSUME PayrollInv, FundSent PROVE PayrollInv'
  <1>0. ChainOK /\ PageOK /\ Heirs /\ Placed /\ Awaited /\ SourceIsReal
    BY DEF PayrollInv
  <1>1. UNCHANGED <<spent, indexed, proposals, rows, pay>>
    BY DEF FundSent, relayVars
  <1>2. PageOK'
    BY <1>0, <1>1 DEF FundSent, PageOK, IdleFund
  <1> DEFINE g == GroupNote(fund.value, fund.index, 0)
  <1>3. g \in Leaves /\ g.kind = "group" /\ g.parent = 0
    BY <1>0 DEF PageOK, GroupNote, Leaves
  <1>4. leaves' \in {leaves, Append(leaves, g)}
    BY DEF FundSent
  <1> HIDE DEF g
  <1>5. leaves \in Seq(Leaves) /\ Len(leaves) \in Nat
    BY <1>0 DEF ChainOK
  <1>6. /\ leaves' \in Seq(Leaves) /\ Len(leaves') \in {Len(leaves), Len(leaves) + 1}
        /\ \A l \in 1 .. Len(leaves) : leaves'[l] = leaves[l]
        /\ \A l \in 1 .. Len(leaves') : l \in 1 .. Len(leaves) \/ leaves'[l] = g
    BY <1>3, <1>4, <1>5
  <1>7. ChainOK'
    BY <1>0, <1>1, <1>5, <1>6 DEF ChainOK
  <1>8. Heirs'
    BY <1>0, <1>1, <1>3, <1>6 DEF Heirs
  <1>9. Placed'
    BY <1>0, <1>1, <1>5, <1>6 DEF Placed
  <1>10. Awaited'
    <2>1. pay.pc = "resolve" => pay.source.leaf # 0
      BY <1>0 DEF Placed, Underway
    <2> QED
      BY <1>0, <1>1, <1>3, <1>6, <2>1 DEF Awaited
  <1>11. SourceIsReal'
    BY <1>0, <1>1, <1>5, <1>6 DEF SourceIsReal, NoteOf
  <1> QED
    BY <1>2, <1>7, <1>8, <1>9, <1>10, <1>11 DEF PayrollInv

LEMMA OthersInv ==
    ASSUME PayrollInv,
           \/ UNCHANGED <<chainVars, proposals, rows, fund, pay>>
           \/ (\E value \in Deposits : Fund(value)) \/ FundProved
           \/ \E list \in Lists : Preview(list)
           \/ Ingest \/ Sweep
    PROVE  PayrollInv'
  <1>0. ChainOK /\ PageOK /\ Heirs /\ Placed /\ Awaited /\ SourceIsReal
    BY DEF PayrollInv
  <1>1. ASSUME UNCHANGED <<chainVars, pay>>, PageOK' PROVE PayrollInv'
    BY <1>0, <1>1 DEF chainVars, PayrollInv, ChainOK, Heirs, Placed, Awaited, SourceIsReal
  <1>2. CASE UNCHANGED <<chainVars, proposals, rows, fund, pay>>
    BY <1>0, <1>1, <1>2 DEF PageOK
  <1>3. ASSUME NEW value \in Deposits, Fund(value) PROVE PayrollInv'
    <2>1. value \in Nat
      BY TreasuryAssumption
    <2> QED
      BY <1>0, <1>1, <1>3, <2>1 DEF Fund, PageOK, relayVars
  <1>4. CASE FundProved
    BY <1>0, <1>1, <1>4 DEF FundProved, PageOK, relayVars
  <1>5. ASSUME NEW list \in Lists, Preview(list) PROVE PayrollInv'
    <2>1. list \in Seq([to : Payees, amount : Nat])
      BY TreasuryAssumption
    <2>2. \A i \in 1 .. Len(list) : list[i] \in [to : Payees, amount : Nat]
      <3> DEFINE D == [to : Payees, amount : Nat]
      <3>1. list \in Seq(D)
        BY <2>1
      <3> HIDE DEF D
      <3>2. \A i \in 1 .. Len(list) : list[i] \in D
        BY <3>1
      <3> QED
        BY <3>2 DEF D
    <2>3. \A i \in 1 .. Len(list) : [to |-> list[i].to, amount |-> list[i].amount, status |-> "pending"] \in Shown
      BY <2>2 DEF Shown, Named, Statuses
    <2>4. DOMAIN list = 1 .. Len(list) /\ Len(list) \in Nat
      BY <2>1
    <2>5. rows' \in [1 .. Len(list) -> Shown]
      BY <1>5, <2>3, <2>4 DEF Preview
    <2>6. rows' \in Seq(Shown)
      BY <2>4, <2>5
    <2> QED
      BY <1>0, <1>1, <1>5, <2>6 DEF Preview, PageOK, relayVars
  <1>6. CASE Ingest
    <2>1. UNCHANGED <<leaves, spent, proposals, rows, fund, pay>> /\ indexed' = indexed + 1 /\ indexed < Len(leaves)
      BY <1>6 DEF Ingest, relayVars, Page
    <2>2. ChainOK'
      BY <1>0, <2>1 DEF ChainOK
    <2> QED
      BY <1>0, <2>1, <2>2 DEF PayrollInv, PageOK, Heirs, Placed, Awaited, SourceIsReal
  <1>7. CASE Sweep
    BY <1>0, <1>1, <1>7 DEF Sweep, PageOK, Page
  <1> QED
    BY <1>2, <1>3, <1>4, <1>5, <1>6, <1>7

LEMMA PayInv ==
    ASSUME PayrollInv, Pay PROVE PayrollInv'
  <1>0. PageOK /\ UNCHANGED <<chainVars, proposals, rows, fund>> /\ rows # <<>>
    BY DEF PayrollInv, Pay, relayVars
  <1>1. NoTransfer \in Transfers /\ NoNote \in Views
    BY DEF NoTransfer, NoNote, Transfers, Views, Memos, Named
  <1>2. rows \in Seq(Shown) /\ pay.count \in Nat
    BY <1>0 DEF PageOK, Payrolls
  <1>3. pay' = [IdlePay(pay.count + 1) EXCEPT !.pc = "scan", !.batch = rows]
    BY DEF Pay
  <1>4. pay' \in Payrolls /\ pay'.pc = "scan" /\ pay'.row = 1 /\ pay'.batch = rows
    <2> DEFINE n == pay.count + 1
    <2>1. n \in Nat /\ pay' = [IdlePay(n) EXCEPT !.pc = "scan", !.batch = rows]
      BY <1>2, <1>3
    <2> HIDE DEF n
    <2>2. <<>> \in Seq(Shown)
      OBVIOUS
    <2>3. IdlePay(n) \in Payrolls /\ IdlePay(n).row = 1
      BY <1>1, <2>1, <2>2 DEF IdlePay, Payrolls
    <2> QED
      BY <1>2, <2>1, <2>3 DEF Payrolls
  <1>5. 1 \in 1 .. Len(rows)
    BY <1>0, <1>2
  <1>6. PageOK'
    BY <1>0, <1>4 DEF PageOK
  <1>7. Placed' /\ Awaited' /\ SourceIsReal'
    BY <1>4, <1>5 DEF Placed, Awaited, SourceIsReal, Underway
  <1> QED
    BY <1>0, <1>6, <1>7, PageOnlyInv

\* The scan takes an unspent note of the group from the leaves served.
LEMMA SelectSourceInv ==
    ASSUME PayrollInv, SelectSource PROVE PayrollInv'
  <1>0. ChainOK /\ PageOK /\ Placed /\ UNCHANGED <<chainVars, proposals, rows, fund>> /\ pay.pc = "scan"
    BY DEF PayrollInv, SelectSource, relayVars
  <1>1. CASE StopPaying
    <2>1. pay' \in Payrolls /\ pay'.pc = "idle"
      BY <1>0, <1>1, StopPayingOK
    <2>2. PageOK'
      BY <1>0, <2>1 DEF PageOK
    <2> QED
      BY <1>0, <2>1, <2>2, StoppedInv
  <1>2. CASE Spendable # {} /\ pay' = [pay EXCEPT !.pc = "assemble", !.source = ViewOf(Oldest(Spendable))]
    <2> DEFINE l == Oldest(Spendable)
    <2>1. l \in Spendable
      BY <1>2, OldestOfNumbers DEF Spendable
    <2> HIDE DEF l
    <2>2. l \in 1 .. indexed /\ leaves[l].kind = "group" /\ l \notin spent
      BY <2>1 DEF Spendable
    <2>3. l \in 1 .. Len(leaves) /\ l \in Nat
      BY <1>0, <2>2 DEF ChainOK
    <2>4. leaves[l] \in Leaves
      BY <1>0, <2>3 DEF ChainOK
    <2>5. /\ leaves[l] = GroupNote(leaves[l].value, leaves[l].index, leaves[l].parent)
          /\ leaves[l].value \in Nat /\ leaves[l].index \in Nat /\ leaves[l].parent \in Nat
      BY <2>2, <2>4 DEF Leaves, GroupNote
    <2>6. ViewOf(l) \in Views /\ ViewOf(l).leaf = l /\ NoteOf(ViewOf(l)) = leaves[l]
      BY <2>3, <2>5 DEF ViewOf, Views, NoteOf
    <2>7. /\ pay' \in Payrolls /\ pay'.pc = "assemble" /\ pay'.source = ViewOf(l)
          /\ pay'.row = pay.row /\ pay'.batch = pay.batch
      BY <1>0, <1>2, <2>6 DEF PageOK, Payrolls, l
    <2>8. PageOK'
      BY <1>0, <2>7 DEF PageOK
    <2>9. Placed' /\ Awaited'
      BY <1>0, <2>7 DEF Placed, Awaited, Underway
    <2>10. SourceIsReal'
      <3>1. pay'.source.leaf = l /\ NoteOf(pay'.source) = leaves[l] /\ leaves' = leaves /\ spent' = spent
        BY <1>0, <2>6, <2>7 DEF chainVars
      <3> QED
        BY <2>2, <2>3, <3>1 DEF SourceIsReal, NoteOf
    <2> QED
      BY <1>0, <2>8, <2>9, <2>10, PageOnlyInv
  <1> QED
    BY <1>1, <1>2 DEF SelectSource

LEMMA AssembleInv ==
    ASSUME PayrollInv, Assemble PROVE PayrollInv'
  <1>0. /\ ChainOK /\ PageOK /\ Placed /\ SourceIsReal /\ UNCHANGED <<chainVars, proposals, fund>>
        /\ pay.pc = "assemble"
    BY DEF PayrollInv, Assemble, relayVars
  <1>1. CASE RowFails
    BY <1>0, <1>1, RowFailsInv DEF PageOK
  <1>2. CASE ~RowFails
    <2> DEFINE row == pay.batch[pay.row]
               t == [source |-> pay.source.leaf, to |-> row.to, amount |-> row.amount, index |-> pay.counter,
                     value |-> pay.source.value - row.amount, memo |-> <<pay.count, pay.row>>]
    <2>1. /\ row.amount <= pay.source.value /\ Mark("awaiting-signatures")
          /\ pay' = [pay EXCEPT !.pc = "propose", !.counter = pay.counter + 1, !.made = t]
      BY <1>2 DEF Assemble
    <2>2. /\ pay.batch \in Seq(Shown) /\ pay.row \in 1 .. Len(pay.batch) /\ pay.source \in Views
          /\ pay.counter \in Nat /\ pay.count \in Nat /\ pay.row \in Nat
      BY <1>0 DEF PageOK, Payrolls, Placed
    <2>3. row \in Shown
      BY <2>2
    <2>4. t \in Transfers /\ t.source = pay.source.leaf
      <3>1. row.to \in Named /\ row.amount \in Nat /\ pay.source.leaf \in Nat /\ pay.source.value \in Nat
        BY <2>2, <2>3 DEF Shown, Views
      <3>2. pay.source.value - row.amount \in Nat /\ <<pay.count, pay.row>> \in Memos
        BY <2>1, <2>2, <3>1 DEF Memos
      <3> QED
        BY <2>2, <3>1, <3>2 DEF Transfers
    <2> HIDE DEF t, row
    <2>5. rows' \in Seq(Shown)
      BY <1>0, <2>1, MarkedRows DEF Statuses
    <2>6. /\ pay' \in Payrolls /\ pay'.pc = "propose" /\ pay'.source = pay.source /\ pay'.made = t
          /\ pay'.row = pay.row /\ pay'.batch = pay.batch
      <3> DEFINE c == pay.counter + 1
      <3>1. c \in Nat /\ pay' = [pay EXCEPT !.pc = "propose", !.counter = c, !.made = t]
        BY <2>1, <2>2
      <3>2. pay \in Payrolls
        BY <1>0 DEF PageOK
      <3> HIDE DEF c
      <3> QED
        BY <2>4, <3>1, <3>2 DEF Payrolls, Underway
    <2>7. PageOK'
      BY <1>0, <2>5, <2>6 DEF PageOK
    <2>8. Placed'
      BY <1>0, <2>2, <2>4, <2>6 DEF Placed, SourceIsReal, chainVars
    <2>9. Awaited' /\ SourceIsReal'
      BY <2>6 DEF Awaited, SourceIsReal
    <2> QED
      BY <1>0, <2>7, <2>8, <2>9, PageOnlyInv
  <1> QED
    BY <1>1, <1>2

LEMMA ProposeInv ==
    ASSUME PayrollInv, Propose PROVE PayrollInv'
  <1> DEFINE P == [id : Nat, transfer : Transfers]
  <1>0. /\ ChainOK /\ PageOK /\ Placed /\ UNCHANGED <<chainVars, fund>> /\ pay.pc = "propose"
        /\ proposals \in Seq(P)
    BY DEF PayrollInv, Propose, PageOK
  <1> DEFINE p == [id |-> ProposalId, transfer |-> pay.made]
  <1>1. p \in P
    BY <1>0 DEF PageOK, Payrolls, ProposalId
  <1> HIDE DEF P, p
  <1>2. proposals' \in {proposals, Append(proposals, p)}
    BY DEF Propose, p
  <1>3. proposals' \in Seq(P)
    BY <1>0, <1>1, <1>2
  <1>4. CASE RowFails
    BY <1>0, <1>3, <1>4, RowFailsInv DEF P
  <1>5. CASE ~RowFails
    <2>1. pay' = [pay EXCEPT !.pc = "sign"] /\ UNCHANGED rows
      BY <1>5 DEF Propose
    <2>2. /\ pay' \in Payrolls /\ pay'.pc = "sign" /\ pay'.source = pay.source /\ pay'.made = pay.made
          /\ pay'.row = pay.row /\ pay'.batch = pay.batch
      BY <1>0, <2>1 DEF PageOK, Payrolls, Underway
    <2>3. PageOK'
      BY <1>0, <1>3, <2>1, <2>2 DEF PageOK, P
    <2>4. Placed' /\ Awaited' /\ SourceIsReal'
      BY <1>0, <2>2 DEF Placed, Awaited, SourceIsReal, chainVars, Underway
    <2> QED
      BY <1>0, <2>3, <2>4, PageOnlyInv
  <1> QED
    BY <1>4, <1>5

\* The transfer signed is one that was proposed.
LEMMA FetchedTransfer ==
    ASSUME PageOK, NEW id, Found(id) # {} PROVE FetchProposal(id) \in Transfers
  <1> DEFINE P == [id : Nat, transfer : Transfers]
  <1>1. proposals \in Seq(P) /\ \A p \in P : p.transfer \in Transfers
    BY DEF PageOK
  <1> HIDE DEF P
  <1>2. Found(id) \subseteq 1 .. Len(proposals)
    BY <1>1 DEF Found
  <1>3. Oldest(Found(id)) \in 1 .. Len(proposals)
    BY <1>2, OldestOfNumbers
  <1> QED
    BY <1>1, <1>3 DEF FetchProposal

LEMMA SignInv ==
    ASSUME PayrollInv, Sign \/ HelperProve PROVE PayrollInv'
  <1>0. /\ PageOK /\ Placed /\ UNCHANGED <<chainVars, proposals, fund>> /\ pay.pc \in {"sign", "prove"}
    BY DEF PayrollInv, Sign, HelperProve, relayVars
  <1>1. CASE RowFails
    BY <1>0, <1>1, RowFailsInv DEF PageOK
  <1>2. CASE ~RowFails
    <2>1. UNCHANGED rows
      BY <1>2 DEF Sign, HelperProve
    <2>2. /\ pay' \in Payrolls /\ pay'.pc \in {"prove", "send"} /\ pay'.source = pay.source /\ pay'.made = pay.made
          /\ pay'.row = pay.row /\ pay'.batch = pay.batch
      <3>1. CASE HelperProve
        BY <1>0, <1>2, <3>1 DEF PageOK, Payrolls, Underway, HelperProve
      <3>2. CASE Sign
        <4>1. FetchProposal(ProposalId) \in Transfers
          BY <1>0, <1>2, <3>2, FetchedTransfer DEF Sign
        <4>2. pay' = [pay EXCEPT !.pc = "prove", !.signed = FetchProposal(ProposalId)]
          BY <1>2, <3>2 DEF Sign
        <4> QED
          BY <1>0, <4>1, <4>2 DEF PageOK, Payrolls, Underway
      <3> QED
        BY <3>1, <3>2
    <2>3. PageOK'
      BY <1>0, <2>1, <2>2 DEF PageOK
    <2>4. Placed' /\ Awaited' /\ SourceIsReal'
      BY <1>0, <2>2 DEF Placed, Awaited, SourceIsReal, chainVars, Underway
    <2> QED
      BY <1>0, <2>3, <2>4, PageOnlyInv
  <1> QED
    BY <1>1, <1>2

\* A transfer that lands spends its source, which had no change before, and appends the change.
LEMMA SendInv ==
    ASSUME PayrollInv, Send PROVE PayrollInv'
  <1>0. /\ ChainOK /\ PageOK /\ Heirs /\ Placed /\ pay.pc = "send"
        /\ UNCHANGED <<indexed, proposals, fund>>
    BY DEF PayrollInv, Send, relayVars
  <1>1. CASE RowFails /\ UNCHANGED <<spent, leaves>>
    BY <1>0, <1>1, RowFailsInv DEF PageOK, chainVars
  <1>2. CASE Lands(pay.signed)
    <2> DEFINE t == pay.signed
               s == pay.source.leaf
               a == [kind |-> "pay", to |-> t.to, amount |-> t.amount, memo |-> t.memo]
               b == GroupNote(t.value, t.index, t.source)
               n == Len(leaves)
    <2>1. t.source = s /\ s \notin spent /\ spent' = spent \cup {s} /\ leaves' = leaves \o <<a, b>>
      BY <1>2 DEF Lands
    <2>2. t \in Transfers /\ s \in 1 .. n /\ pay.made.source = s
      BY <1>0 DEF PageOK, Payrolls, Placed, Underway
    <2>3. a \in Leaves /\ b \in Leaves /\ a.kind = "pay" /\ b.kind = "group" /\ b.parent = s
      BY <2>1, <2>2 DEF Leaves, Transfers, GroupNote
    <2> HIDE DEF a, b, t, s
    <2>4. leaves \in Seq(Leaves) /\ n \in Nat /\ spent \subseteq 1 .. n /\ indexed \in Nat /\ indexed <= n
      BY <1>0 DEF ChainOK
    <2>5. /\ leaves' \in Seq(Leaves) /\ Len(leaves') = n + 2
          /\ \A l \in 1 .. n : leaves'[l] = leaves[l]
          /\ leaves'[n + 1] = a /\ leaves'[n + 2] = b
      BY <2>1, <2>3, <2>4
    <2> HIDE DEF n
    <2>6. \A l \in 1 .. Len(leaves') : l \in 1 .. n \/ l = n + 1 \/ l = n + 2
      BY <2>4, <2>5
    <2>7. ChainOK'
      BY <1>0, <2>1, <2>2, <2>4, <2>5 DEF ChainOK
    <2>8. Heirs'
      BY <1>0, <2>1, <2>3, <2>5, <2>6 DEF Heirs, n
    <2>9. \A l \in 1 .. Len(leaves') : leaves'[l].kind = "group" /\ leaves'[l].parent = s => l \notin spent'
      <3> SUFFICES ASSUME NEW l \in 1 .. Len(leaves'), leaves'[l].kind = "group", leaves'[l].parent = s
                   PROVE  l \notin spent'
        OBVIOUS
      <3>1. l \notin 1 .. n
        <4>1. ASSUME l \in 1 .. n PROVE s \in spent \cup {0}
          BY <1>0, <2>5, <4>1 DEF Heirs, n
        <4> QED
          BY <2>1, <2>2, <2>4, <4>1
      <3> QED
        BY <2>1, <2>2, <2>4, <3>1
    <2>10. CASE RowFails
      <3>1. rows' \in Seq(Shown)
        BY <1>0, <2>10, MarkedRows DEF RowFails, Statuses
      <3>2. pay' \in Payrolls /\ pay'.pc = "idle"
        BY <1>0, <2>10, StopPayingOK DEF RowFails
      <3>3. PageOK'
        BY <1>0, <3>1, <3>2 DEF PageOK
      <3> QED
        BY <2>7, <2>8, <3>2, <3>3 DEF PayrollInv, Placed, Awaited, SourceIsReal, Underway
    <2>11. CASE pay' = [pay EXCEPT !.pc = "resolve"] /\ UNCHANGED rows
      <3>1. /\ pay' \in Payrolls /\ pay'.pc = "resolve" /\ pay'.source = pay.source /\ pay'.made = pay.made
            /\ pay'.row = pay.row /\ pay'.batch = pay.batch
        BY <1>0, <2>11 DEF PageOK, Payrolls, Underway
      <3>2. PageOK'
        BY <1>0, <2>11, <3>1 DEF PageOK
      <3>3. s \in 1 .. Len(leaves')
        BY <2>2, <2>4, <2>5
      <3>4. Placed'
        BY <1>0, <2>2, <3>1, <3>3 DEF Placed, s
      <3>5. Awaited' /\ SourceIsReal'
        BY <2>9, <3>1 DEF Awaited, SourceIsReal, s
      <3> QED
        BY <2>7, <2>8, <3>2, <3>4, <3>5 DEF PayrollInv
    <2> QED
      BY <1>2, <2>10, <2>11 DEF Send
  <1> QED
    BY <1>1, <1>2 DEF Send

\* The next row's source is the change found, and nobody spent it meanwhile.
LEMMA ResolveInv ==
    ASSUME PayrollInv, Resolve PROVE PayrollInv'
  <1>0. /\ ChainOK /\ PageOK /\ Placed /\ Awaited /\ UNCHANGED <<chainVars, proposals, fund>>
        /\ pay.pc = "resolve"
    BY DEF PayrollInv, Resolve, relayVars
  <1>1. CASE RowFails
    BY <1>0, <1>1, RowFailsInv DEF PageOK
  <1>2. CASE ~RowFails
    <2> DEFINE l == Oldest(ChangeLeaf)
               v == [leaf |-> l, value |-> pay.made.value, index |-> pay.made.index, parent |-> pay.made.source]
               next == IF pay.row < Len(pay.batch) THEN "assemble" ELSE "idle"
    <2>1. /\ ChangeLeaf # {} /\ Mark("confirmed")
          /\ pay' = [pay EXCEPT !.pc = next, !.row = pay.row + 1, !.source = v]
      BY <1>2 DEF Resolve
    <2>2. pay.made \in Transfers /\ pay.source \in Views /\ pay.source.leaf \in 1 .. Len(leaves)
          /\ pay.made.source = pay.source.leaf /\ pay.row \in 1 .. Len(pay.batch) /\ pay.batch \in Seq(Shown)
      BY <1>0 DEF PageOK, Payrolls, Placed, Underway
    <2>3. pay.source.leaf \in Nat /\ indexed \in Nat /\ indexed <= Len(leaves) /\ Len(leaves) \in Nat
      BY <1>0, <2>2 DEF ChainOK
    <2>4. l \in ChangeLeaf
      <3>1. ChangeLeaf \subseteq Nat
        BY <2>3 DEF ChangeLeaf
      <3> QED
        BY <2>1, <3>1, OldestOfNumbers
    <2> HIDE DEF l
    <2>5. l \in 1 .. Len(leaves) /\ l \in Nat /\ leaves[l] = GroupNote(pay.made.value, pay.made.index, pay.made.source)
      BY <2>3, <2>4 DEF ChangeLeaf
    <2>6. v \in Views /\ v.leaf = l /\ NoteOf(v) = leaves[l]
      BY <2>2, <2>5 DEF Views, Transfers, NoteOf
    <2>7. l \notin spent
      <3>1. leaves[l].kind = "group" /\ leaves[l].parent = pay.source.leaf
        BY <2>2, <2>5 DEF GroupNote
      <3> QED
        BY <1>0, <2>5, <3>1 DEF Awaited
    <2> HIDE DEF v
    <2>8. rows' \in Seq(Shown)
      BY <1>0, <2>1, MarkedRows DEF Statuses
    <2>9. /\ pay' \in Payrolls /\ pay'.pc = next /\ pay'.source = v
          /\ pay'.row = pay.row + 1 /\ pay'.batch = pay.batch
      <3> DEFINE r == pay.row + 1
      <3>1. r \in Nat /\ next \in {"idle", "assemble"} /\ pay' = [pay EXCEPT !.pc = next, !.row = r, !.source = v]
        BY <2>1, <2>2
      <3>2. pay \in Payrolls
        BY <1>0 DEF PageOK
      <3> HIDE DEF r, next
      <3>3. pay' \in Payrolls /\ pay'.pc = next /\ pay'.source = v /\ pay'.row = r /\ pay'.batch = pay.batch
        BY <2>6, <3>1, <3>2 DEF Payrolls
      <3> QED
        BY <3>3 DEF r
    <2>10. PageOK'
      BY <1>0, <2>8, <2>9 DEF PageOK
    <2>11. Placed'
      <3>1. Len(pay.batch) \in Nat
        BY <2>2
      <3> QED
        BY <2>2, <2>9, <3>1 DEF Placed, Underway
    <2>12. Awaited'
      BY <2>9 DEF Awaited
    <2>13. SourceIsReal'
      <3>1. pay'.source.leaf = l /\ NoteOf(pay'.source) = leaves[l] /\ leaves' = leaves /\ spent' = spent
        BY <1>0, <2>6, <2>9 DEF chainVars
      <3> QED
        BY <2>5, <2>7, <3>1 DEF SourceIsReal, NoteOf
    <2> QED
      BY <1>0, <2>10, <2>11, <2>12, <2>13, PageOnlyInv
  <1> QED
    BY <1>1, <1>2

LEMMA PayrollNextInv ==
    ASSUME PayrollInv, [Next]_vars PROVE PayrollInv'
  <1>1. CASE Prove \/ Unlock \/ Prewarmed \/ Claim \/ CoSign \/ UNCHANGED vars
    <2>1. UNCHANGED <<chainVars, proposals, rows, fund, pay>>
      BY <1>1 DEF Prove, Unlock, Prewarmed, Claim, CoSign, vars, relayVars, Page
    <2> QED
      BY <2>1, OthersInv
  <1>2. CASE PayStep
    BY <1>2, SelectSourceInv, AssembleInv, ProposeInv, SignInv, SendInv, ResolveInv DEF PayStep
  <1> QED
    BY <1>1, <1>2, ReloadInv, FundSentInv, OthersInv, PayInv DEF Next

(***************************************************************************)
(* For any lists, deposits, payrolls, lost confirmations, lost sessions    *)
(* and reloads: a row is assembled from an unspent note of the group that  *)
(* the pool has at that position with those fields (treasuryFlows.ts,      *)
(* assertRealNoteView and resolveChangeNote).                              *)
(***************************************************************************)
THEOREM TreasurySourceIsReal == Spec => []SourceIsReal
  <1>1. Init => PayrollInv
    BY PayrollInitInv
  <1>2. PayrollInv /\ [Next]_vars => PayrollInv'
    BY PayrollNextInv
  <1>3. PayrollInv => SourceIsReal
    BY DEF PayrollInv
  <1> QED
    BY <1>1, <1>2, <1>3, PTL DEF Spec

=============================================================================
