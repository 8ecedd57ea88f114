--------------------------- MODULE BrowserProver ---------------------------
(***************************************************************************)
(* The prover every page of the web application shares                     *)
(* (apps/web/src/prover/router.ts, realWasmProver.ts; packages/            *)
(* prover-wasm/src/wasmProver.ts, worker.ts).  Pages call one port, which  *)
(* loads the wasm binary, starts one worker, prepares each circuit in it   *)
(* once and posts it one request per proof; two queues of messages connect *)
(* page and worker.  Every promise that is memoised is a variable with the *)
(* life of that promise.                                                   *)
(***************************************************************************)
EXTENDS Integers, Sequences, FiniteSets, Functions

CONSTANTS
    CircuitOf,  \* CircuitOf[t]: the circuit task t asks for; its domain is the tasks
    Prewarmers, \* tasks that only prepare their circuit
    MaxCalls,   \* calls one task makes
    MaxFaults   \* fetches and worker operations that fail

Tasks == DOMAIN CircuitOf
Circuits == {CircuitOf[t] : t \in Tasks}
InitId == -1

VARIABLES
    wasm,       \* wasmBytesPromise and workerUrlPromise: "none", "loading", "ok", "bad"
    port,       \* portPromise: "none", "pending", "ready"
    ready,      \* the promise of ensureWorker: "none", "pending", "ok", "bad"
    prepared,   \* prepared[c]: "none", "worker", "artifacts", "sent", "ok"
    nextRequestId,
    pending,    \* request id -> task
    preparing,  \* pendingPreparations: request id -> circuit
    inbox,      \* messages to the worker
    outbox,     \* messages from the worker
    acir,       \* acirByCircuit: the circuits the worker has prepared
    call,       \* call[t]: [pc, n, proof], n the number of the call, proof its result
    faults

proverVars == <<wasm, port, ready, prepared, nextRequestId, pending, preparing, inbox, outbox,
                acir, call, faults>>

Empty == [i \in {} |-> i]
NoProof == [circuit |-> "none", inputs |-> <<>>]
Inputs(t) == <<t, call[t].n>>

NotPrepared == [c \in Circuits |-> "none"]

ProverInit ==
    /\ wasm = "none" /\ port = "none" /\ ready = "none" /\ prepared = NotPrepared
    /\ nextRequestId = 0 /\ pending = Empty /\ preparing = Empty
    /\ inbox = <<>> /\ outbox = <<>> /\ acir = {}
    /\ call = [t \in Tasks |-> [pc |-> "idle", n |-> 0, proof |-> NoProof]]
    /\ faults = 0

\* The page is loaded anew: module scope again, and another worker.
NewPage ==
    /\ wasm' = "none" /\ port' = "none" /\ ready' = "none" /\ prepared' = NotPrepared
    /\ nextRequestId' = 0 /\ pending' = Empty /\ preparing' = Empty
    /\ inbox' = <<>> /\ outbox' = <<>> /\ acir' = {}
    /\ call' = [t \in Tasks |-> [call[t] EXCEPT !.pc = "idle", !.proof = NoProof]]
    /\ UNCHANGED faults

\* The tasks of S end with pc.
Settle(S, pc) == [t \in Tasks |-> IF t \in S THEN [call[t] EXCEPT !.pc = pc] ELSE call[t]]
At(pc) == {t \in Tasks : call[t].pc = pc}

Fault == faults < MaxFaults /\ faults' = faults + 1
NoFault == UNCHANGED faults

-----------------------------------------------------------------------------
(* The page's side. *)

\* prove or prepare is called: getPort, unless its promise exists, starts to load the binary,
\* unless that promise exists.
Call(t) ==
    /\ call[t].pc = "idle" /\ call[t].n < MaxCalls
    /\ call' = [call EXCEPT ![t] = [pc |-> "port", n |-> @.n + 1, proof |-> NoProof]]
    /\ port' = IF port = "none" THEN "pending" ELSE port
    /\ wasm' = IF port = "none" /\ wasm = "none" THEN "loading" ELSE wasm
    /\ UNCHANGED <<ready, prepared, nextRequestId, pending, preparing, inbox, outbox, acir, faults>>

\* The promise of the binary and of the worker's script is kept whatever it settles to.
FetchWasm ==
    /\ wasm = "loading"
    /\ \/ wasm' = "ok" /\ NoFault
       \/ wasm' = "bad" /\ Fault
    /\ UNCHANGED <<port, ready, prepared, nextRequestId, pending, preparing, inbox, outbox, acir, call>>

\* A port that failed is forgotten, and fails those who wait for it.
PortSettles ==
    /\ port = "pending" /\ wasm \in {"ok", "bad"}
    /\ port' = IF wasm = "ok" THEN "ready" ELSE "none"
    /\ call' = IF wasm = "ok" THEN call ELSE Settle(At("port"), "failed")
    /\ UNCHANGED <<wasm, ready, prepared, nextRequestId, pending, preparing, inbox, outbox, acir, faults>>

\* ensurePrepared joins the preparation under way or starts one, which starts the worker,
\* unless it was started before.
EnsurePrepared(t) ==
    /\ call[t].pc = "port" /\ port = "ready"
    /\ call' = [call EXCEPT ![t].pc = "prepare"]
    /\ IF prepared[CircuitOf[t]] # "none" THEN UNCHANGED <<prepared, ready, inbox>>
       ELSE /\ prepared' = [prepared EXCEPT ![CircuitOf[t]] = "worker"]
            /\ ready' = IF ready = "none" THEN "pending" ELSE ready
            /\ inbox' = IF ready = "none" THEN Append(inbox, [type |-> "init", id |-> InitId]) ELSE inbox
    /\ UNCHANGED <<wasm, port, nextRequestId, pending, preparing, outbox, acir, faults>>

\* A preparation that failed is forgotten, so that the next call tries again.
RejectPreparation(c) ==
    /\ prepared' = [prepared EXCEPT ![c] = "none"]
    /\ call' = Settle({t \in At("prepare") : CircuitOf[t] = c}, "failed")

AfterWorker(c) ==
    /\ prepared[c] = "worker" /\ ready \in {"ok", "bad"}
    /\ \/ ready = "ok" /\ prepared' = [prepared EXCEPT ![c] = "artifacts"] /\ UNCHANGED call
       \/ ready = "bad" /\ RejectPreparation(c)
    /\ UNCHANGED <<wasm, port, ready, nextRequestId, pending, preparing, inbox, outbox, acir, faults>>

NextIdBySize == Cardinality(DOMAIN pending) + Cardinality(DOMAIN preparing)

\* The id of the next request, of whichever kind.
NextId == nextRequestId

\* Map.set on a map of requests.
Put(f, id, v) == [i \in DOMAIN f \cup {id} |-> IF i = id THEN v ELSE f[i]]

\* artifactsFor answered: the circuit goes to the worker.
Artifacts(c) ==
    /\ prepared[c] = "artifacts"
    /\ \/ /\ prepared' = [prepared EXCEPT ![c] = "sent"]
          /\ preparing' = Put(preparing, NextId, c)
          /\ inbox' = Append(inbox, [type |-> "prepare", id |-> NextId, circuit |-> c])
          /\ nextRequestId' = nextRequestId + 1
          /\ UNCHANGED call /\ NoFault
       \/ /\ RejectPreparation(c) /\ Fault
          /\ UNCHANGED <<preparing, inbox, nextRequestId>>
    /\ UNCHANGED <<wasm, port, ready, pending, outbox, acir>>

\* prove goes on once its circuit is prepared; prepare is done.
AfterPrepared(t) ==
    /\ call[t].pc = "prepare" /\ prepared[CircuitOf[t]] = "ok"
    /\ IF t \in Prewarmers
       THEN /\ call' = [call EXCEPT ![t].pc = "proved"]
            /\ UNCHANGED <<pending, inbox, nextRequestId>>
       ELSE /\ call' = [call EXCEPT ![t].pc = "proving"]
            /\ pending' = Put(pending, NextId, t)
            /\ inbox' = Append(inbox, [type |-> "prove", id |-> NextId,
                                       circuit |-> CircuitOf[t], inputs |-> Inputs(t)])
            /\ nextRequestId' = nextRequestId + 1
    /\ UNCHANGED <<wasm, port, ready, prepared, preparing, outbox, acir, faults>>

Answered(f, id) == Restrict(f, DOMAIN f \ {id})

DeliverErrorLost(id) ==
    /\ pending' = Answered(pending, id) /\ preparing' = Answered(preparing, id)
    /\ UNCHANGED <<ready, prepared, call>>

\* An error: of the worker's start, of a preparation, or of a proof.
DeliverError(id) ==
    \/ /\ id = InitId /\ ready' = "bad"
       /\ UNCHANGED <<pending, preparing, prepared, call>>
    \/ /\ id \in DOMAIN preparing /\ RejectPreparation(preparing[id])
       /\ preparing' = Answered(preparing, id) /\ UNCHANGED <<ready, pending>>
    \/ /\ id \notin DOMAIN preparing \cup {InitId}
       /\ call' = Settle({pending[i] : i \in {id} \cap DOMAIN pending}, "failed")
       /\ pending' = Answered(pending, id) /\ UNCHANGED <<ready, preparing, prepared>>

\* The page receives the worker's next message.
OnMessage ==
    /\ outbox # <<>> /\ outbox' = Tail(outbox)
    /\ LET msg == Head(outbox) IN
       \/ /\ msg.type = "ready" /\ ready' = "ok"
          /\ UNCHANGED <<pending, preparing, prepared, call>>
       \/ /\ msg.type = "prepared"
          /\ prepared' = [c \in Circuits |->
                            IF msg.id \in DOMAIN preparing /\ c = preparing[msg.id] THEN "ok" ELSE prepared[c]]
          /\ preparing' = Answered(preparing, msg.id)
          /\ UNCHANGED <<ready, pending, call>>
       \/ msg.type = "error" /\ DeliverError(msg.id)
       \/ /\ msg.type = "result"
          /\ call' = IF msg.id \notin DOMAIN pending THEN call
                     ELSE [call EXCEPT ![pending[msg.id]] = [@ EXCEPT !.pc = "proved", !.proof = msg.proof]]
          /\ pending' = Answered(pending, msg.id)
          /\ UNCHANGED <<ready, preparing, prepared>>
    /\ UNCHANGED <<wasm, port, nextRequestId, inbox, acir, faults>>

-----------------------------------------------------------------------------
(* The worker's side: one queue, one operation at a time. *)

Served(msg) == CASE msg.type = "init" -> [type |-> "ready", id |-> msg.id]
                 [] msg.type = "prepare" -> [type |-> "prepared", id |-> msg.id]
                 [] OTHER -> [type |-> "result", id |-> msg.id,
                              proof |-> [circuit |-> msg.circuit, inputs |-> msg.inputs]]
Failed(msg) == [type |-> "error", id |-> msg.id]

Work ==
    /\ inbox # <<>> /\ inbox' = Tail(inbox)
    /\ LET msg == Head(inbox)
           unprepared == msg.type = "prove" /\ msg.circuit \notin acir
       IN \/ /\ ~unprepared /\ outbox' = Append(outbox, Served(msg))
             /\ acir' = IF msg.type = "prepare" THEN acir \cup {msg.circuit} ELSE acir
             /\ NoFault
          \/ /\ outbox' = Append(outbox, Failed(msg)) /\ UNCHANGED acir
             /\ IF unprepared THEN NoFault ELSE Fault
    /\ UNCHANGED <<wasm, port, ready, prepared, nextRequestId, pending, preparing, call>>

ProverStep ==
    \/ FetchWasm \/ PortSettles \/ OnMessage \/ Work
    \/ \E t \in Tasks : EnsurePrepared(t) \/ AfterPrepared(t)
    \/ \E c \in Circuits : AfterWorker(c) \/ Artifacts(c)

\* The caller takes its answer and may call again.
Taken(t) == [call EXCEPT ![t].pc = "idle"]

-----------------------------------------------------------------------------
(***************************************************************************)
(* A proof answers the request it was asked for: each call of prove gets   *)
(* the proof of its own circuit and its own inputs, however the requests   *)
(* of several pages and the preparations they start are interleaved on the *)
(* one worker (wasmProver.ts, nextRequestId and the two pending maps).     *)
(***************************************************************************)
ProofMatches ==
    \A t \in At("proved") \ Prewarmers :
        call[t].proof = [circuit |-> CircuitOf[t], inputs |-> Inputs(t)]

=============================================================================
