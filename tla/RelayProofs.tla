----------------------------- MODULE RelayProofs -----------------------------
(***************************************************************************)
(* A coordinator session for any number of clients, appends, retries,      *)
(* restarts, lost answers and sweeps: no lost wakeup, readers that hold    *)
(* exactly a prefix, one place for each append, and the channel that the   *)
(* session implements.                                                     *)
(***************************************************************************)
EXTENDS Relay, FiniteSetTheorems, TLAPS

Envelopes == [seq : Nat, msg : Message]

\* A batch that is not empty has a newest envelope.
HasNewest(b) == \E e \in b : \A f \in b : f.seq <= e.seq

RequestOK(r) ==
    /\ r.op \in {"none", "post", "get", "waiting", "messages", "created", "conflict"}
    /\ r.op = "post" => r.seq \in Nat
    /\ r.op \in {"get", "waiting"} => r.since \in Int /\ r.since >= -1
    /\ r.op = "messages" => r.batch \in SUBSET Envelopes /\ (r.batch # {} => HasNewest(r.batch))

Phases == {"ready", "appending", "rereading", "collecting", "done", "failed"}

RelayTypeOK ==
    /\ log \in Seq(Message) /\ fresh \in BOOLEAN /\ epoch \in Nat
    /\ pc \in [Clients -> Phases]
    /\ req = [c \in Clients |-> req[c]]
    /\ guess \in [Clients -> Nat]
    /\ attempt \in [Clients -> Nat]
    /\ step \in [Clients -> 0 .. Appends]
    /\ cursor \in [Clients -> Int]
    /\ seen \in [Clients -> SUBSET Envelopes]
    /\ round \in [Clients -> Nat]
    /\ run \in [Clients -> 1 .. MaxRuns]
    /\ readEpoch \in [Clients -> Nat]

-----------------------------------------------------------------------------
(* Operators                                                               *)

\* The envelopes with sequence numbers a to b.
Slice(l, a, b) == {EnvelopeAt(l, s) : s \in a .. b}

LEMMA MaxIs ==
    ASSUME NEW S \in SUBSET Int, NEW x \in S, \A y \in S : y <= x
    PROVE  Max(S) = x
  <1>1. \E z \in S : \A y \in S : z >= y
    OBVIOUS
  <1>2. Max(S) \in S /\ \A y \in S : Max(S) >= y
    BY <1>1 DEF Max
  <1>3. Max(S) \in Int /\ x \in Int /\ Max(S) >= x /\ Max(S) <= x
    BY <1>2
  <1> QED
    BY <1>3

LEMMA MaxOfTwo ==
    ASSUME NEW a \in Int, NEW b \in Int
    PROVE  Max({a, b}) = IF a >= b THEN a ELSE b
  <1>1. CASE a >= b
    BY <1>1, MaxIs
  <1>2. CASE ~(a >= b)
    BY <1>2, MaxIs
  <1> QED
    BY <1>1, <1>2

\* MAX(seq) of a batch that is not empty.
LEMMA MaxSeqType ==
    ASSUME NEW b \in SUBSET Envelopes, HasNewest(b)
    PROVE  MaxSeq(b) \in Nat
  <1>1. PICK e \in b : \A f \in b : f.seq <= e.seq
    BY DEF HasNewest
  <1>2. {f.seq : f \in b} \in SUBSET Int /\ e.seq \in {f.seq : f \in b} /\ e.seq \in Nat
    BY DEF Envelopes
  <1> DEFINE S == {f.seq : f \in b}
  <1>3. \A y \in S : y <= e.seq
    BY <1>1
  <1>4. S \in SUBSET Int /\ e.seq \in S
    BY <1>2
  <1> HIDE DEF S
  <1>5. Max(S) = e.seq
    BY <1>3, <1>4, MaxIs
  <1> QED
    BY <1>2, <1>5 DEF MaxSeq, S

\* store.since(n) is the rest of the session after n.
LEMMA SinceIsSlice ==
    ASSUME NEW l \in Seq(Message), NEW n \in Int, n >= -1
    PROVE  Since(l, n) = Slice(l, n + 1, Len(l) - 1)
  <1>1. {s \in 0 .. Len(l) - 1 : s > n} = (n + 1) .. (Len(l) - 1)
    OBVIOUS
  <1> QED
    BY <1>1 DEF Since, Slice

LEMMA SliceType ==
    ASSUME NEW l \in Seq(Message), NEW a \in Nat, NEW b \in Int, b <= Len(l) - 1
    PROVE  /\ Slice(l, a, b) \in SUBSET Envelopes
           /\ (Slice(l, a, b) = {}) <=> b < a
           /\ a <= b => HasNewest(Slice(l, a, b)) /\ MaxSeq(Slice(l, a, b)) = b
  <1>1. \A s \in a .. b : l[s + 1] \in Message /\ s \in Nat
    OBVIOUS
  <1>2. Slice(l, a, b) \in SUBSET Envelopes
    BY <1>1 DEF Slice, EnvelopeAt, Envelopes
  <1>3. ASSUME a <= b
        PROVE  HasNewest(Slice(l, a, b)) /\ MaxSeq(Slice(l, a, b)) = b
    <2> DEFINE S == {e.seq : e \in Slice(l, a, b)}
    <2>0. b \in a .. b
      BY <1>3
    <2>1. EnvelopeAt(l, b) \in Slice(l, a, b) /\ EnvelopeAt(l, b).seq = b
      BY <2>0 DEF Slice, EnvelopeAt
    <2>2. \A e \in Slice(l, a, b) : e.seq \in Int /\ e.seq <= b
      BY DEF Slice, EnvelopeAt
    <2>3. HasNewest(Slice(l, a, b))
      BY <2>1, <2>2 DEF HasNewest
    <2>4. S \in SUBSET Int /\ b \in S /\ \A y \in S : y <= b
      BY <2>1, <2>2
    <2> HIDE DEF S
    <2>5. Max(S) = b
      BY <2>4, MaxIs
    <2> QED
      BY <2>3, <2>5 DEF MaxSeq, S
  <1>4. (Slice(l, a, b) = {}) <=> b < a
    BY DEF Slice
  <1> QED
    BY <1>2, <1>3, <1>4

\* An append leaves the earlier sequence numbers alone.
LEMMA SliceKept ==
    ASSUME NEW l \in Seq(Message), NEW m \in Message, NEW a \in Nat, NEW b \in Int, b <= Len(l) - 1
    PROVE  Slice(Append(l, m), a, b) = Slice(l, a, b)
  <1>1. \A s \in a .. b : Append(l, m)[s + 1] = l[s + 1]
    OBVIOUS
  <1> QED
    BY <1>1 DEF Slice, EnvelopeAt

LEMMA SliceJoined ==
    ASSUME NEW l, NEW a \in Int, NEW b \in Int, -1 <= a, a <= b
    PROVE  Slice(l, 0, a) \cup Slice(l, a + 1, b) = Slice(l, 0, b)
  <1>1. (0 .. a) \cup ((a + 1) .. b) = 0 .. b
    OBVIOUS
  <1> QED
    BY <1>1 DEF Slice

-----------------------------------------------------------------------------
(* The inductive invariant                                                 *)

\* Where a client's command is decides which request it has outstanding, and
\* a client that is appending has a message left.
Phase(c) ==
    /\ RequestOK(req[c])
    /\ pc[c] = "collecting" => req[c].op \in {"get", "waiting", "messages"}
    /\ pc[c] = "rereading" => req[c].op \in {"get", "waiting", "messages"}
    /\ pc[c] = "appending" => req[c].op \in {"post", "created", "conflict"}
    /\ pc[c] \in {"ready", "done", "failed"} => req[c].op = "none"
    /\ pc[c] \in {"ready", "appending", "rereading"} => step[c] < Appends

\* The batch that is on its way to a reader starts where the reader is.
InFlight(c) ==
    /\ req[c].op \in {"get", "waiting"} => req[c].since = cursor[c]
    /\ req[c].op = "messages" =>
        \E k \in cursor[c] .. Len(log) - 1 : req[c].batch = Slice(log, cursor[c] + 1, k)

\* A reader of the current session holds its messages up to the cursor.
Reader(c) ==
    /\ cursor[c] >= -1 /\ readEpoch[c] <= epoch
    /\ readEpoch[c] = epoch =>
        /\ cursor[c] <= Len(log) - 1
        /\ seen[c] = Slice(log, 0, cursor[c])
        /\ pc[c] = "collecting" => InFlight(c)

Awake(c) == req[c].op = "waiting" => Since(log, req[c].since) = {}

ClientOK(c) == Phase(c) /\ Reader(c) /\ Awake(c)
RelayInv == RelayTypeOK /\ \A c \in Clients : ClientOK(c)

\* A step that leaves client d alone.
Untouched(d) ==
    /\ pc'[d] = pc[d] /\ req'[d] = req[d] /\ step'[d] = step[d] /\ cursor'[d] = cursor[d]
    /\ seen'[d] = seen[d] /\ readEpoch'[d] = readEpoch[d]

LEMMA UntouchedOK ==
    ASSUME NEW d \in Clients, ClientOK(d), Untouched(d), UNCHANGED <<log, epoch>>
    PROVE  ClientOK(d)'
  BY DEF ClientOK, Phase, Reader, Awake, InFlight, Untouched

LEMMA InitRelay == Init => RelayInv
  <1> SUFFICES ASSUME Init PROVE RelayInv
    OBVIOUS
  <1>1. RelayTypeOK
    BY RelayAssumption DEF Init, RelayTypeOK, Phases
  <1>2. ASSUME NEW c \in Clients PROVE ClientOK(c)
    <2>1. Slice(log, 0, -1) = {}
      BY DEF Slice
    <2> QED
      BY <2>1, RelayAssumption
      DEF Init, ClientOK, Phase, Reader, Awake, InFlight, RequestOK, NoRequest
  <1> QED
    BY <1>1, <1>2 DEF RelayInv

-----------------------------------------------------------------------------
(* Steps of one client                                                     *)

Local(c) == UNCHANGED <<log, epoch>> /\ \A d \in Clients \ {c} : Untouched(d)

LEMMA LocalOK ==
    ASSUME RelayInv, NEW c \in Clients, Local(c), RelayTypeOK', ClientOK(c)'
    PROVE  RelayInv'
  BY UntouchedOK DEF RelayInv, Local

\* Only a client that is appending has a POST outstanding or answered.
LEMMA PostPhase ==
    ASSUME RelayInv, NEW c \in Clients, req[c].op \in {"post", "created", "conflict"}
    PROVE  pc[c] = "appending" /\ step[c] < Appends
  <1>1. Phase(c) /\ pc[c] \in Phases
    BY DEF RelayInv, RelayTypeOK, ClientOK
  <1> QED
    BY <1>1 DEF Phase, Phases

LEMMA AppendSteps ==
    ASSUME RelayInv, NEW c \in Clients,
           AppendNext(c) \/ Appended(c) \/ AppendConflict(c) \/ Retry(c)
    PROVE  RelayInv' /\ Local(c)
  <1> USE DEF server, reading
  <1>0. RelayTypeOK /\ Phase(c) /\ Reader(c) /\ Awake(c)
    BY DEF RelayInv, ClientOK
  <1>1. CASE AppendNext(c)
    <2>1. Local(c)
      BY <1>0, <1>1 DEF AppendNext, RelayTypeOK, Local, Untouched
    <2>2. RelayTypeOK'
      BY <1>0, <1>1 DEF AppendNext, RelayTypeOK, Phases
    <2>3. ClientOK(c)'
      BY <1>0, <1>1 DEF AppendNext, RelayTypeOK, ClientOK, Phase, Reader, Awake, RequestOK, Post
    <2> QED
      BY <2>1, <2>2, <2>3, LocalOK
  <1>2. CASE Appended(c)
    <2>0. pc[c] = "appending" /\ step[c] < Appends
      BY <1>2, PostPhase DEF Appended, Created
    <2>1. Local(c)
      BY <1>0, <1>2 DEF Appended, RelayTypeOK, Local, Untouched
    <2>2. RelayTypeOK'
      <3>1. step[c] + 1 \in 0 .. Appends /\ guess[c] + 1 \in Nat
        <4>1. step[c] \in 0 .. Appends /\ guess[c] \in Nat
          BY <1>0 DEF RelayTypeOK
        <4>2. Appends \in Nat
          BY RelayAssumption
        <4> QED
          BY <2>0, <4>1, <4>2
      <3>2. req' = [d \in Clients |-> req'[d]]
        BY <1>0, <1>2 DEF Appended, RelayTypeOK
      <3>3. pc' \in [Clients -> Phases] /\ guess' \in [Clients -> Nat] /\ step' \in [Clients -> 0 .. Appends]
        BY <1>0, <1>2, <3>1 DEF Appended, RelayTypeOK, Phases
      <3>4. cursor' \in [Clients -> Int] /\ seen' \in [Clients -> SUBSET Envelopes]
        <4>1. /\ cursor' = [cursor EXCEPT ![c] = -1] /\ seen' = [seen EXCEPT ![c] = {}]
              /\ cursor \in [Clients -> Int] /\ seen \in [Clients -> SUBSET Envelopes]
          BY <1>0, <1>2 DEF Appended, RelayTypeOK
        <4>2. -1 \in Int /\ {} \in SUBSET Envelopes
          OBVIOUS
        <4> QED
          BY <4>1, <4>2
      <3>5. /\ round' \in [Clients -> Nat] /\ readEpoch' \in [Clients -> Nat]
            /\ attempt' \in [Clients -> Nat]
        BY <1>0, <1>2 DEF Appended, RelayTypeOK
      <3> QED
        BY <1>0, <1>2, <3>2, <3>3, <3>4, <3>5 DEF Appended, RelayTypeOK
    <2>3. Slice(log', 0, -1) = {}
      BY DEF Slice
    <2>4. ClientOK(c)'
      BY <1>0, <1>2, <2>3
      DEF Appended, RelayTypeOK, ClientOK, Phase, Reader, InFlight, Awake, RequestOK, Get
    <2> QED
      BY <2>1, <2>2, <2>4, LocalOK
  <1>3. CASE AppendConflict(c)
    <2>0. pc[c] = "appending" /\ step[c] < Appends
      BY <1>3, PostPhase DEF AppendConflict, Conflict
    <2>1. Local(c)
      BY <1>0, <1>3 DEF AppendConflict, RelayTypeOK, Local, Untouched
    <2>2. RelayTypeOK'
      <3>1. attempt' \in [Clients -> Nat]
        BY <1>0, <1>3 DEF AppendConflict, RelayTypeOK
      <3>2. pc' \in [Clients -> Phases]
        BY <1>0, <1>3 DEF AppendConflict, RelayTypeOK, Phases
      <3>3. req' = [d \in Clients |-> req'[d]]
        BY <1>0, <1>3 DEF AppendConflict, RelayTypeOK
      <3> QED
        BY <1>0, <1>3, <3>1, <3>2, <3>3 DEF AppendConflict, RelayTypeOK
    <2>3. ClientOK(c)'
      BY <1>0, <1>3, <2>0
      DEF AppendConflict, RelayTypeOK, ClientOK, Phase, Reader, Awake, RequestOK, Get
    <2> QED
      BY <2>1, <2>2, <2>3, LocalOK
  <1>4. CASE Retry(c)
    <2> DEFINE b == req[c].batch
               n == IF b = {} THEN 0 ELSE MaxSeq(b) + 1
    <2>0. n \in Nat
      BY <1>0, <1>4, MaxSeqType DEF Retry, Phase, RequestOK
    <2>1. /\ guess' = [guess EXCEPT ![c] = n]
          /\ req' = [req EXCEPT ![c] = Post(n)]
          /\ pc' = [pc EXCEPT ![c] = "appending"] /\ pc[c] = "rereading"
          /\ UNCHANGED <<log, fresh, epoch, attempt, step, cursor, seen, round, run, readEpoch>>
      BY <1>4 DEF Retry
    <2> HIDE DEF n, b
    <2>2. Local(c)
      BY <1>0, <2>1 DEF RelayTypeOK, Local, Untouched
    <2>3. RelayTypeOK'
      BY <1>0, <2>0, <2>1 DEF RelayTypeOK, Phases
    <2>4. ClientOK(c)'
      BY <1>0, <2>0, <2>1 DEF RelayTypeOK, ClientOK, Phase, Reader, Awake, RequestOK, Post
    <2> QED
      BY <2>2, <2>3, <2>4, LocalOK
  <1> QED
    BY <1>1, <1>2, <1>3, <1>4

\* A command that ends with an error keeps nothing.
LEMMA FailOK ==
    ASSUME RelayInv, NEW C \in SUBSET Clients, Fail(C), UNCHANGED <<log, fresh, epoch>>
    PROVE  RelayInv' /\ \A d \in Clients \ C : Untouched(d)
  <1>0. RelayTypeOK
    BY DEF RelayInv
  <1>1. RelayTypeOK'
    BY <1>0 DEF Fail, RelayTypeOK, Phases
  <1>2. ASSUME NEW d \in Clients \ C PROVE Untouched(d)
    BY <1>0 DEF Fail, Untouched, RelayTypeOK
  <1>3. ASSUME NEW d \in C PROVE ClientOK(d)'
    <2>1. Reader(d)
      BY DEF RelayInv, ClientOK
    <2>2. Slice(log', 0, -1) = {}
      BY DEF Slice
    <2>3. Phase(d)' /\ Awake(d)'
      BY <1>0 DEF Fail, Phase, Awake, RequestOK, NoRequest
    <2>4. Reader(d)'
      <3>1. cursor'[d] = -1 /\ seen'[d] = {} /\ readEpoch'[d] = readEpoch[d] /\ pc'[d] = "failed"
        BY DEF Fail
      <3>2. Len(log') \in Nat
        BY <1>0 DEF RelayTypeOK
      <3> QED
        BY <2>1, <2>2, <3>1, <3>2 DEF Reader
    <2> QED
      BY <2>3, <2>4 DEF ClientOK
  <1> QED
    BY <1>1, <1>2, <1>3, UntouchedOK DEF RelayInv

\* One round of collectUntil moves the reader to the end of the batch.
LEMMA CollectStep ==
    ASSUME RelayInv, NEW c \in Clients, Collect(c)
    PROVE  /\ RelayInv' /\ Local(c) /\ UNCHANGED readEpoch
           /\ readEpoch[c] = epoch => cursor[c] <= cursor'[c] /\ cursor'[c] <= Len(log) - 1
  <1> DEFINE b == req[c].batch
             s == seen[c] \cup b
             n == IF b = {} THEN cursor[c] ELSE Max({cursor[c], MaxSeq(b)})
             next == IF ~Enough(c, s) THEN "collecting"
                     ELSE IF step[c] = Appends THEN "done" ELSE "ready"
  <1>0. RelayTypeOK /\ Phase(c) /\ Reader(c) /\ Awake(c)
    BY DEF RelayInv, ClientOK
  <1>1. /\ pc[c] = "collecting" /\ req[c].op = "messages"
        /\ seen' = [seen EXCEPT ![c] = s]
        /\ cursor' = [cursor EXCEPT ![c] = n]
        /\ round' = [round EXCEPT ![c] = IF next = "collecting" THEN @ + 1 ELSE 0]
        /\ pc' = [pc EXCEPT ![c] = next]
        /\ req' = [req EXCEPT ![c] = IF next = "collecting" THEN Get(n) ELSE NoRequest]
        /\ UNCHANGED <<log, fresh, epoch, guess, attempt, step, run, readEpoch>>
    BY DEF Collect, server
  <1>2. b \in SUBSET Envelopes /\ (b # {} => HasNewest(b))
    BY <1>0, <1>1 DEF Phase, RequestOK
  <1>3. n \in Int /\ n >= cursor[c]
    <2>1. cursor[c] \in Int
      BY <1>0 DEF RelayTypeOK
    <2>2. CASE b # {}
      <3>1. MaxSeq(b) \in Int
        BY <1>2, <2>2, MaxSeqType
      <3> HIDE DEF b
      <3> QED
        BY <2>1, <2>2, <3>1, MaxOfTwo
    <2> QED
      BY <2>1, <2>2
  <1>4. s \in SUBSET Envelopes
    BY <1>0, <1>2 DEF RelayTypeOK
  <1>5. next \in {"collecting", "done", "ready"} /\ (next = "ready" => step[c] < Appends)
    BY <1>0, RelayAssumption DEF RelayTypeOK
  <1>6. ASSUME readEpoch[c] = epoch
        PROVE  n <= Len(log) - 1 /\ s = Slice(log, 0, n)
    <2>1. InFlight(c) /\ cursor[c] \in Int /\ -1 <= cursor[c] /\ cursor[c] <= Len(log) - 1
          /\ seen[c] = Slice(log, 0, cursor[c]) /\ log \in Seq(Message)
      BY <1>0, <1>1, <1>6 DEF Reader, RelayTypeOK
    <2>2. PICK k \in cursor[c] .. Len(log) - 1 : b = Slice(log, cursor[c] + 1, k)
      BY <1>1, <2>1 DEF InFlight
    <2>3. s = Slice(log, 0, k)
      BY <2>1, <2>2, SliceJoined
    <2>4. n = k
      <3>1. CASE k = cursor[c]
        <4>1. b = {}
          BY <2>1, <2>2, <3>1, SliceType
        <4> QED
          BY <3>1, <4>1
      <3>2. CASE k > cursor[c]
        <4>1. b # {} /\ MaxSeq(b) = k
          BY <2>1, <2>2, <3>2, SliceType
        <4> HIDE DEF b
        <4> QED
          BY <2>1, <3>2, <4>1, MaxOfTwo
      <3> QED
        BY <2>1, <3>1, <3>2
    <2> HIDE DEF n, s, b
    <2> QED
      BY <2>1, <2>3, <2>4
  <1> HIDE DEF n, s, b, next
  <1>7. Local(c)
    BY <1>0, <1>1 DEF RelayTypeOK, Local, Untouched
  <1>8. RelayTypeOK'
    <2>1. req' = [d \in Clients |-> req'[d]]
      BY <1>0, <1>1 DEF RelayTypeOK
    <2>2. pc' \in [Clients -> Phases] /\ cursor' \in [Clients -> Int] /\ seen' \in [Clients -> SUBSET Envelopes]
      BY <1>0, <1>1, <1>3, <1>4, <1>5 DEF RelayTypeOK, Phases
    <2>3. round' \in [Clients -> Nat]
      BY <1>0, <1>1 DEF RelayTypeOK
    <2> QED
      BY <1>0, <1>1, <2>1, <2>2, <2>3 DEF RelayTypeOK
  <1>9. ClientOK(c)'
    <2>1. pc'[c] = next /\ cursor'[c] = n /\ seen'[c] = s /\ step'[c] = step[c]
          /\ req'[c] = IF next = "collecting" THEN Get(n) ELSE NoRequest
      BY <1>0, <1>1 DEF RelayTypeOK
    <2>2. n >= -1
      BY <1>0, <1>3 DEF Reader, RelayTypeOK
    <2>3. Phase(c)'
      BY <1>3, <1>5, <2>1, <2>2 DEF Phase, RequestOK, Get, NoRequest
    <2>4. Reader(c)'
      BY <1>0, <1>1, <1>3, <1>6, <2>1, <2>2 DEF Reader, InFlight, Get
    <2>5. Awake(c)'
      BY <2>1 DEF Awake, Get, NoRequest
    <2> QED
      BY <2>3, <2>4, <2>5 DEF ClientOK
  <1>10. cursor'[c] = n
    BY <1>0, <1>1 DEF RelayTypeOK
  <1> QED
    BY <1>1, <1>3, <1>6, <1>7, <1>8, <1>9, <1>10, LocalOK

LEMMA RerunStep ==
    ASSUME RelayInv, NEW c \in Clients, Rerun(c)
    PROVE  RelayInv' /\ Local(c)
  <1> USE DEF server, reading
  <1>0. RelayTypeOK /\ Phase(c) /\ Reader(c) /\ Awake(c)
    BY DEF RelayInv, ClientOK
  <1>1. Local(c)
    BY <1>0 DEF Rerun, RelayTypeOK, Local, Untouched
  <1>2. RelayTypeOK'
    <2>1. run[c] + 1 \in 1 .. MaxRuns
      BY <1>0, RelayAssumption DEF Rerun, MayRerun, RelayTypeOK
    <2>2. /\ pc' \in [Clients -> Phases] /\ run' \in [Clients -> 1 .. MaxRuns]
          /\ step' \in [Clients -> 0 .. Appends]
      BY <1>0, <2>1, RelayAssumption DEF Rerun, RelayTypeOK, Phases
    <2> QED
      BY <1>0, <2>2 DEF Rerun, RelayTypeOK
  <1>3. pc'[c] = "ready" /\ step'[c] = 0 /\ req'[c] = req[c] /\ req[c].op = "none"
    BY <1>0 DEF Rerun, RelayTypeOK, Phase
  <1>4. Phase(c)' /\ Awake(c)'
    BY <1>0, <1>3, RelayAssumption DEF Phase, Awake
  <1>5. Reader(c)'
    BY <1>0, <1>3 DEF Rerun, Reader
  <1> QED
    BY <1>1, <1>2, <1>4, <1>5, LocalOK DEF ClientOK

-----------------------------------------------------------------------------
(* Steps of the server                                                     *)

\* A long poll that ends with nothing, or a GET: the answer starts where the
\* reader is, and whoever waits has read everything.
LEMMA PollSteps ==
    ASSUME RelayInv, NEW c \in Clients, HandleGet(c) \/ PollTimeout(c)
    PROVE  RelayInv' /\ Local(c)
  <1> USE DEF server, command
  <1>0. RelayTypeOK /\ Phase(c) /\ Reader(c) /\ Awake(c)
    BY DEF RelayInv, ClientOK
  <1>1. Local(c) /\ RelayTypeOK'
    <2>1. req' = [d \in Clients |-> req'[d]] /\ \A d \in Clients \ {c} : req'[d] = req[d]
      BY <1>0 DEF HandleGet, PollTimeout, RelayTypeOK
    <2>2. UNCHANGED <<log, fresh, epoch, pc, guess, attempt, step, cursor, seen, round, run, readEpoch>>
      BY DEF HandleGet, PollTimeout
    <2> QED
      BY <1>0, <2>1, <2>2 DEF RelayTypeOK, Local, Untouched
  <1>2. UNCHANGED <<log, epoch, pc, step, cursor, seen, readEpoch>>
    BY DEF HandleGet, PollTimeout
  <1>3. /\ log \in Seq(Message) /\ pc[c] \in Phases /\ cursor[c] \in Int /\ cursor[c] >= -1
        /\ Len(log) \in Nat
    BY <1>0 DEF RelayTypeOK, Reader
  <1>4. CASE HandleGet(c)
    <2> DEFINE n == req[c].since
    <2>1. n \in Int /\ n >= -1 /\ req[c].op = "get"
      BY <1>0, <1>4 DEF HandleGet, Phase, RequestOK
    <2>2. Since(log, n) = Slice(log, n + 1, Len(log) - 1)
      BY <1>3, <2>1, SinceIsSlice
    <2>3. CASE Since(log, n) # {}
      <3>1. req'[c] = Answer(Since(log, n))
        BY <1>0, <1>4, <2>3 DEF HandleGet, RelayTypeOK
      <3>2. Since(log, n) \in SUBSET Envelopes /\ HasNewest(Since(log, n)) /\ n <= Len(log) - 1
        BY <1>3, <2>1, <2>2, <2>3, SliceType
      <3>3. Phase(c)'
        BY <1>0, <1>2, <2>1, <3>1, <3>2 DEF Phase, RequestOK, Answer
      <3>4. Awake(c)'
        BY <3>1 DEF Awake, Answer
      <3>5. readEpoch[c] = epoch /\ pc[c] = "collecting" => InFlight(c)'
        <4>1. SUFFICES ASSUME readEpoch[c] = epoch, pc[c] = "collecting" PROVE InFlight(c)'
          OBVIOUS
        <4>2. cursor[c] = n
          BY <1>0, <2>1, <4>1 DEF Reader, InFlight
        <4>3. Len(log) - 1 \in cursor[c] .. Len(log) - 1
          BY <1>3, <3>2, <4>2
        <4> QED
          BY <1>2, <2>2, <3>1, <4>2, <4>3 DEF InFlight, Answer
      <3>6. Reader(c)'
        BY <1>0, <1>2, <3>5 DEF Reader
      <3> QED
        BY <1>1, <3>3, <3>4, <3>6, LocalOK DEF ClientOK
    <2>4. CASE Since(log, n) = {}
      <3>1. req'[c] = Waiting(n)
        BY <1>0, <1>4, <2>4 DEF HandleGet, RelayTypeOK
      <3>2. Phase(c)'
        BY <1>0, <1>2, <2>1, <3>1 DEF Phase, RequestOK, Waiting
      <3>3. Awake(c)'
        BY <1>2, <2>4, <3>1 DEF Awake, Waiting
      <3>4. Reader(c)'
        BY <1>0, <1>2, <2>1, <3>1 DEF Reader, InFlight, Waiting
      <3> QED
        BY <1>1, <3>2, <3>3, <3>4, LocalOK DEF ClientOK
    <2> QED
      BY <2>3, <2>4
  <1>5. CASE PollTimeout(c)
    <2>1. req'[c] = Answer({}) /\ req[c].op = "waiting"
      BY <1>0, <1>5 DEF PollTimeout, RelayTypeOK
    <2>2. Phase(c)'
      BY <1>0, <1>2, <2>1 DEF Phase, RequestOK, Answer
    <2>3. Awake(c)'
      BY <2>1 DEF Awake, Answer
    <2>4. Slice(log, cursor[c] + 1, cursor[c]) = {}
      BY <1>3 DEF Slice
    <2>5. Reader(c)'
      BY <1>0, <1>2, <1>3, <2>1, <2>4 DEF Reader, InFlight, Answer
    <2> QED
      BY <1>1, <2>2, <2>3, <2>5, LocalOK DEF ClientOK
  <1> QED
    BY <1>4, <1>5

\* What HandlePost does when the sequence number is the next one.
PostAccepted(c) ==
    LET e == [seq |-> req[c].seq, msg |-> [from |-> c, run |-> run[c], step |-> step[c] + 1]]
    IN  /\ req[c].op = "post" /\ req[c].seq = Len(log)
        /\ log' = Append(log, e.msg) /\ fresh' = TRUE
        /\ req' = [Published(e) EXCEPT ![c] = Created]
        /\ UNCHANGED <<epoch, pc, command>>

LEMMA PostRefused ==
    ASSUME RelayInv, NEW c \in Clients, HandlePost(c), req[c].seq # NextSeq(log)
    PROVE  RelayInv' /\ Local(c)
  <1> USE DEF command
  <1>0. RelayTypeOK /\ Phase(c) /\ Reader(c) /\ pc[c] = "appending"
    BY PostPhase DEF RelayInv, ClientOK, HandlePost
  <1>1. /\ req' = [req EXCEPT ![c] = Conflict]
        /\ UNCHANGED <<log, fresh, epoch, pc, guess, attempt, step, cursor, seen, round, run, readEpoch>>
    BY DEF HandlePost
  <1>2. Local(c) /\ RelayTypeOK'
    BY <1>0, <1>1 DEF RelayTypeOK, Local, Untouched
  <1>3. req'[c] = Conflict
    BY <1>0, <1>1 DEF RelayTypeOK
  <1>4. ClientOK(c)'
    BY <1>0, <1>1, <1>3 DEF ClientOK, Phase, Reader, Awake, RequestOK, Conflict
  <1> QED
    BY <1>2, <1>4, LocalOK

LEMMA PostMessage ==
    ASSUME RelayInv, NEW c \in Clients, PostAccepted(c)
    PROVE  [from |-> c, run |-> run[c], step |-> step[c] + 1] \in Message
  <1>1. step[c] < Appends /\ run[c] \in 1 .. MaxRuns /\ step[c] \in 0 .. Appends
    BY PostPhase DEF PostAccepted, RelayInv, RelayTypeOK
  <1>2. step[c] + 1 \in 1 .. Appends
    BY <1>1, RelayAssumption
  <1> QED
    BY <1>1, <1>2 DEF Message

\* An append settles the long polls it satisfies and leaves the readers'
\* prefixes as they are.
LEMMA PostAcceptedOK ==
    ASSUME RelayInv, NEW c \in Clients, PostAccepted(c)
    PROVE  RelayInv'
  <1> DEFINE m == [from |-> c, run |-> run[c], step |-> step[c] + 1]
             e == [seq |-> req[c].seq, msg |-> m]
  <1>0. RelayTypeOK /\ \A d \in Clients : Phase(d) /\ Reader(d) /\ Awake(d)
    BY DEF RelayInv, ClientOK
  <1>1. m \in Message
    BY PostMessage
  <1>2. /\ log' = Append(log, m) /\ fresh' = TRUE /\ req[c].seq = Len(log)
        /\ req' = [Published(e) EXCEPT ![c] = Created]
        /\ UNCHANGED <<epoch, pc, guess, attempt, step, cursor, seen, round, run, readEpoch>>
    BY DEF PostAccepted, command
  <1>3. e = EnvelopeAt(log', Len(log)) /\ e.seq = Len(log)
    BY <1>0, <1>2 DEF EnvelopeAt, RelayTypeOK
  <1>4. pc[c] = "appending" /\ step[c] < Appends
    BY PostPhase DEF PostAccepted
  <1> HIDE DEF m, e
  <1>5. /\ log \in Seq(Message) /\ log' \in Seq(Message) /\ Len(log) \in Nat /\ Len(log') = Len(log) + 1
        /\ \A d \in Clients : cursor[d] \in Int
    BY <1>0, <1>1, <1>2 DEF RelayTypeOK
  <1>6. RelayTypeOK'
    <2>1. req' = [d \in Clients |-> req'[d]]
      BY <1>2 DEF Published
    <2> QED
      BY <1>0, <1>2, <1>5, <2>1 DEF RelayTypeOK
  <1>7. {e} = Slice(log', Len(log), Len(log))
    BY <1>3, <1>5 DEF Slice
  <1>8. {e} \in SUBSET Envelopes /\ HasNewest({e})
    <2>1. Len(log) \in Int /\ Len(log) <= Len(log') - 1
      BY <1>5
    <2>2. {e} \in SUBSET Envelopes
      BY <1>5, <1>7, <2>1, SliceType
    <2>3. HasNewest({e})
      BY <1>3, <1>5 DEF HasNewest
    <2> QED
      BY <2>2, <2>3
  <1>9. ASSUME NEW d \in Clients PROVE ClientOK(d)'
    <2>0. /\ Phase(d) /\ Reader(d) /\ Awake(d) /\ cursor[d] \in Int /\ cursor[d] >= -1
          /\ pc'[d] = pc[d] /\ step'[d] = step[d] /\ cursor'[d] = cursor[d] /\ seen'[d] = seen[d]
          /\ readEpoch'[d] = readEpoch[d] /\ epoch' = epoch
      BY <1>0, <1>2, <1>5 DEF Reader
    <2>1. readEpoch[d] = epoch => Slice(log', 0, cursor[d]) = Slice(log, 0, cursor[d])
      BY <1>1, <1>2, <1>5, <2>0, SliceKept DEF Reader
    <2>2. CASE d = c
      <3>1. req'[d] = Created
        BY <1>2, <2>2 DEF Published
      <3>2. Phase(d)' /\ Awake(d)'
        BY <1>4, <2>0, <2>2, <3>1 DEF Phase, Awake, RequestOK, Created
      <3>3. Reader(d)'
        BY <1>4, <1>5, <2>0, <2>1, <2>2 DEF Reader
      <3> QED
        BY <3>2, <3>3 DEF ClientOK
    <2>3. CASE d # c /\ req[d].op = "waiting" /\ Len(log) > req[d].since
      <3>1. req'[d] = Answer({e})
        BY <1>2, <1>3, <2>3 DEF Published
      <3>2. Phase(d)'
        BY <1>8, <2>0, <2>3, <3>1 DEF Phase, RequestOK, Answer
      <3>3. Awake(d)'
        BY <3>1 DEF Awake, Answer
      <3>4. readEpoch[d] = epoch /\ pc[d] = "collecting" => InFlight(d)'
        <4>1. SUFFICES ASSUME readEpoch[d] = epoch, pc[d] = "collecting" PROVE InFlight(d)'
          OBVIOUS
        <4>2. cursor[d] = req[d].since /\ cursor[d] <= Len(log) - 1
          BY <2>0, <2>3, <4>1 DEF Reader, InFlight
        <4>3. Slice(log, cursor[d] + 1, Len(log) - 1) = {}
          BY <1>5, <2>0, <2>3, <4>2, SinceIsSlice DEF Awake
        <4>4. cursor[d] + 1 = Len(log)
          <5>1. cursor[d] + 1 \in Nat /\ Len(log) - 1 \in Int /\ Len(log) - 1 <= Len(log) - 1
            BY <1>5, <2>0
          <5>2. Len(log) - 1 < cursor[d] + 1
            BY <1>5, <4>3, <5>1, SliceType
          <5> QED
            BY <1>5, <2>0, <4>2, <5>2
        <4>5. Len(log) \in cursor[d] .. Len(log') - 1 /\ {e} = Slice(log', cursor[d] + 1, Len(log))
          BY <1>5, <1>7, <2>0, <4>4
        <4> QED
          BY <2>0, <3>1, <4>5 DEF InFlight, Answer
      <3>5. Reader(d)'
        BY <1>5, <2>0, <2>1, <3>4 DEF Reader
      <3> QED
        BY <3>2, <3>3, <3>5 DEF ClientOK
    <2>4. CASE d # c /\ ~(req[d].op = "waiting" /\ Len(log) > req[d].since)
      <3>1. req'[d] = req[d]
        BY <1>2, <1>3, <2>4 DEF Published
      <3>2. Phase(d)'
        BY <2>0, <3>1 DEF Phase
      <3>3. Awake(d)'
        <4>1. SUFFICES ASSUME req[d].op = "waiting" PROVE Since(log', req[d].since) = {}
          BY <3>1 DEF Awake
        <4>2. req[d].since \in Int /\ req[d].since >= Len(log)
          BY <1>5, <2>0, <2>4, <4>1 DEF Phase, RequestOK
        <4> QED
          BY <1>5, <4>2 DEF Since
      <3>4. readEpoch[d] = epoch /\ pc[d] = "collecting" => InFlight(d)'
        <4>1. SUFFICES ASSUME readEpoch[d] = epoch, pc[d] = "collecting" PROVE InFlight(d)'
          OBVIOUS
        <4>2. InFlight(d)
          BY <2>0, <4>1 DEF Reader
        <4>3. ASSUME NEW k \in cursor[d] .. Len(log) - 1
              PROVE  /\ k \in cursor[d] .. Len(log') - 1
                     /\ Slice(log', cursor[d] + 1, k) = Slice(log, cursor[d] + 1, k)
          BY <1>1, <1>2, <1>5, <2>0, SliceKept
        <4> QED
          BY <2>0, <3>1, <4>2, <4>3 DEF InFlight
      <3>5. Reader(d)'
        BY <1>5, <2>0, <2>1, <3>4 DEF Reader
      <3> QED
        BY <3>2, <3>3, <3>5 DEF ClientOK
    <2> QED
      BY <2>2, <2>3, <2>4
  <1> QED
    BY <1>6, <1>9 DEF RelayInv

\* A sweep empties the session: whoever reads it reads an older epoch.
LEMMA SweepOK ==
    ASSUME RelayInv, SweepExpired
    PROVE  RelayInv' /\ \A c \in Clients : readEpoch[c] < epoch'
  <1>0. RelayTypeOK
    BY DEF RelayInv
  <1>1. RelayTypeOK'
    BY <1>0 DEF SweepExpired, RelayTypeOK, command
  <1>2. ASSUME NEW c \in Clients PROVE ClientOK(c)' /\ readEpoch[c] < epoch'
    <2>1. Phase(c) /\ Reader(c) /\ readEpoch[c] \in Nat /\ epoch \in Nat
      BY <1>0 DEF RelayInv, ClientOK, RelayTypeOK
    <2>2. readEpoch[c] < epoch' /\ readEpoch' = readEpoch /\ epoch' = epoch + 1
      BY <2>1 DEF SweepExpired, command, Reader
    <2>3. Phase(c)'
      BY <2>1 DEF SweepExpired, command, Phase
    <2>4. Reader(c)'
      BY <2>1, <2>2 DEF SweepExpired, command, Reader
    <2>5. Awake(c)'
      BY DEF SweepExpired, Awake, Since
    <2> QED
      BY <2>2, <2>3, <2>4, <2>5 DEF ClientOK
  <1> QED
    BY <1>1, <1>2 DEF RelayInv

LEMMA NextRelay == RelayInv /\ [Next]_vars => RelayInv'
  <1> SUFFICES ASSUME RelayInv, [Next]_vars PROVE RelayInv'
    OBVIOUS
  <1>1. ASSUME NEW c \in Clients, ClientStep(c) PROVE RelayInv'
    <2>1. CASE AppendGivesUp(c) \/ CollectGivesUp(c)
      BY <2>1, FailOK DEF AppendGivesUp, CollectGivesUp, server
    <2> QED
      BY <1>1, <2>1, AppendSteps, CollectStep DEF ClientStep
  <1>2. ASSUME NEW c \in Clients, HandlePost(c) PROVE RelayInv'
    <2>1. CASE req[c].seq = NextSeq(log)
      <3>1. PostAccepted(c)
        BY <1>2, <2>1 DEF HandlePost, PostAccepted, NextSeq
      <3> QED
        BY <3>1, PostAcceptedOK
    <2> QED
      BY <1>2, <2>1, PostRefused
  <1>3. ASSUME NEW c \in Clients, HandleGet(c) \/ PollTimeout(c) PROVE RelayInv'
    BY <1>3, PollSteps
  <1>4. ASSUME NEW c \in Clients, FetchFails(c) PROVE RelayInv'
    BY <1>4, FailOK DEF FetchFails, server
  <1>5. ASSUME NEW c \in Clients, Rerun(c) PROVE RelayInv'
    BY <1>5, RerunStep
  <1>6. CASE Restart
    BY <1>6, FailOK DEF Restart, server
  <1>7. CASE SweepExpired
    BY <1>7, SweepOK
  <1>8. ASSUME UNCHANGED <<log, epoch, pc, req, command>>, fresh' \in BOOLEAN
        PROVE  RelayInv'
    <2>1. RelayTypeOK'
      BY <1>8 DEF RelayInv, RelayTypeOK, command
    <2>2. \A c \in Clients : Untouched(c)
      BY <1>8 DEF Untouched, command
    <2> QED
      BY <1>8, <2>1, <2>2, UntouchedOK DEF RelayInv
  <1>9. fresh \in BOOLEAN
    BY DEF RelayInv, RelayTypeOK
  <1>10. CASE Age
    BY <1>8, <1>10 DEF Age
  <1>11. CASE \E o \in Observers : SocketConnect(o) \/ SocketClose(o)
    BY <1>8, <1>9, <1>11 DEF SocketConnect, SocketClose, server
  <1>12. CASE Ended \/ UNCHANGED vars
    BY <1>8, <1>9, <1>12 DEF Ended, vars, server
  <1> QED
    BY <1>1, <1>2, <1>3, <1>4, <1>5, <1>6, <1>7, <1>10, <1>11, <1>12 DEF Next, ServerStep

LEMMA RelayInvariant == Spec => []RelayInv
  BY InitRelay, NextRelay, PTL DEF Spec

-----------------------------------------------------------------------------
(* Websockets                                                              *)

OpenSocket == [open : {TRUE}, epoch : Nat, from : Nat, pushed : SUBSET Envelopes]

\* An open websocket joined this session, at a position it still has, or an
\* earlier one, and was pushed what came after.
SocketOK(o) ==
    socket[o].open =>
        /\ socket[o].epoch <= epoch
        /\ socket[o].epoch = epoch => socket[o].from <= Len(log)
        /\ AfterConnect(o) \subseteq socket[o].pushed
        /\ socket[o].epoch = epoch => socket[o].pushed = AfterConnect(o)

SocketInv ==
    /\ socket \in [Observers -> {Closed} \cup OpenSocket]
    /\ \A o \in Observers : SocketOK(o)

\* Steps that leave the session and the websockets alone.
LEMMA SocketKept ==
    ASSUME SocketInv, UNCHANGED <<log, epoch, socket>>
    PROVE  SocketInv'
  BY DEF SocketInv, SocketOK, AfterConnect

\* An append is pushed to every open websocket.
LEMMA SocketPost ==
    ASSUME RelayInv, SocketInv, NEW c \in Clients, HandlePost(c)
    PROVE  SocketInv'
  <1>1. CASE req[c].seq # NextSeq(log)
    BY <1>1, SocketKept DEF HandlePost
  <1>2. CASE req[c].seq = NextSeq(log)
    <2> DEFINE m == [from |-> c, run |-> run[c], step |-> step[c] + 1]
               e == [seq |-> req[c].seq, msg |-> m]
    <2>1. PostAccepted(c)
      BY <1>2 DEF HandlePost, PostAccepted, NextSeq
    <2>2. m \in Message /\ log \in Seq(Message) /\ epoch \in Nat
      BY <2>1, PostMessage DEF RelayInv, RelayTypeOK
    <2>3. log' = Append(log, m) /\ epoch' = epoch /\ req[c].seq = Len(log) /\ socket' = Pushed(e)
      BY <1>2 DEF HandlePost, NextSeq
    <2>4. e = EnvelopeAt(log', Len(log)) /\ e \in Envelopes
      BY <2>2, <2>3 DEF EnvelopeAt, Envelopes
    <2> HIDE DEF m, e
    <2>5. Len(log) \in Nat /\ Len(log') = Len(log) + 1
      BY <2>2, <2>3
    <2>6. ASSUME NEW o \in Observers, socket[o].open
          PROVE  /\ socket[o] \in OpenSocket
                 /\ socket'[o] = [socket[o] EXCEPT !.pushed = @ \cup {e}]
                 /\ socket'[o] \in OpenSocket
      <3>1. socket[o] \in OpenSocket
        BY <2>6 DEF SocketInv, Closed
      <3>2. socket'[o] = [socket[o] EXCEPT !.pushed = @ \cup {e}]
        BY <2>3, <2>6 DEF Pushed
      <3>3. socket[o].pushed \cup {e} \in SUBSET Envelopes
        BY <2>4, <3>1 DEF OpenSocket
      <3>4. socket'[o] \in OpenSocket
        BY <3>1, <3>2, <3>3 DEF OpenSocket
      <3> QED
        BY <3>1, <3>2, <3>4
    <2>7. ASSUME NEW o \in Observers, ~socket[o].open
          PROVE  socket'[o] = socket[o] /\ socket[o] = Closed
      BY <2>3, <2>7 DEF Pushed, SocketInv, OpenSocket
    <2>8. socket' \in [Observers -> {Closed} \cup OpenSocket]
      <3>1. socket' = [o \in Observers |-> socket'[o]]
        BY <2>3 DEF Pushed
      <3> QED
        BY <2>6, <2>7, <3>1
    <2>9. ASSUME NEW o \in Observers, socket'[o].open PROVE SocketOK(o)'
      <3>1. socket[o].open
        BY <2>7, <2>9 DEF Closed
      <3>2. /\ socket[o] \in OpenSocket /\ SocketOK(o)
            /\ socket'[o].epoch = socket[o].epoch /\ socket'[o].from = socket[o].from
            /\ socket'[o].pushed = socket[o].pushed \cup {e}
        BY <2>6, <3>1 DEF SocketInv, OpenSocket
      <3> DEFINE f == IF socket[o].epoch = epoch THEN socket[o].from ELSE 0
      <3>3. f \in Nat /\ f <= Len(log)
        <4>1. socket[o].from \in Nat
          BY <3>2 DEF OpenSocket
        <4>2. socket[o].epoch = epoch => socket[o].from <= Len(log)
          BY <3>1, <3>2 DEF SocketOK
        <4> QED
          BY <2>5, <4>1, <4>2
      <3>4. AfterConnect(o) = Slice(log, f, Len(log) - 1)
        BY DEF AfterConnect, Slice
      <3>5. AfterConnect(o)' = Slice(log', f, Len(log))
        BY <2>3, <2>5, <3>2 DEF AfterConnect, Slice
      <3> HIDE DEF f
      <3>6. Slice(log', f, Len(log)) = Slice(log', f, Len(log) - 1) \cup {e}
        <4>1. f .. Len(log) = (f .. (Len(log) - 1)) \cup {Len(log)}
          BY <2>5, <3>3
        <4> QED
          BY <2>4, <4>1 DEF Slice
      <3>7. Slice(log', f, Len(log) - 1) = Slice(log, f, Len(log) - 1)
        BY <2>2, <2>3, <2>5, <3>3, SliceKept
      <3>8. AfterConnect(o)' = AfterConnect(o) \cup {e}
        BY <3>4, <3>5, <3>6, <3>7
      <3> HIDE DEF AfterConnect
      <3>9. /\ socket[o].epoch <= epoch /\ AfterConnect(o) \subseteq socket[o].pushed
            /\ socket[o].epoch = epoch =>
                socket[o].pushed = AfterConnect(o) /\ socket[o].from <= Len(log)
        BY <3>1, <3>2 DEF SocketOK
      <3>10. socket[o].epoch = epoch => socket[o].from <= Len(log')
        <4>1. socket[o].from \in Nat
          BY <3>2 DEF OpenSocket
        <4> QED
          BY <2>5, <3>9, <4>1
      <3> QED
        BY <2>3, <3>2, <3>8, <3>9, <3>10 DEF SocketOK
    <2> QED
      BY <2>8, <2>9 DEF SocketInv, SocketOK
  <1> QED
    BY <1>1, <1>2

\* After a sweep every open websocket joined an earlier session.
LEMMA SocketSweep ==
    ASSUME RelayInv, SocketInv, SweepExpired
    PROVE  SocketInv'
  <1>1. log' = <<>> /\ epoch' = epoch + 1 /\ socket' = socket /\ epoch \in Nat
    BY DEF SweepExpired, RelayInv, RelayTypeOK
  <1>2. ASSUME NEW o \in Observers, socket[o].open PROVE SocketOK(o)'
    <2>1. socket[o] \in OpenSocket /\ socket[o].epoch <= epoch
      BY <1>2 DEF SocketInv, Closed, SocketOK
    <2>2. socket[o].epoch \in Nat
      BY <2>1 DEF OpenSocket
    <2>3. socket[o].epoch <= epoch + 1 /\ socket[o].epoch # epoch + 1
      BY <1>1, <2>1, <2>2
    <2>4. AfterConnect(o)' = {}
      BY <1>1, <2>3 DEF AfterConnect
    <2> QED
      BY <1>1, <2>3, <2>4 DEF SocketOK
  <1> QED
    BY <1>1, <1>2 DEF SocketInv, SocketOK

LEMMA SocketConnects ==
    ASSUME RelayInv, SocketInv, NEW o \in Observers, SocketConnect(o) \/ SocketClose(o)
    PROVE  SocketInv'
  <1> DEFINE s == [open |-> TRUE, epoch |-> epoch, from |-> Len(log), pushed |-> {}]
  <1>1. /\ UNCHANGED <<log, epoch>> /\ log \in Seq(Message) /\ epoch \in Nat
        /\ socket' = [socket EXCEPT ![o] = s] \/ socket' = [socket EXCEPT ![o] = Closed]
    BY DEF SocketConnect, SocketClose, server, RelayInv, RelayTypeOK
  <1>2. s \in OpenSocket /\ s.epoch = epoch /\ s.from = Len(log) /\ s.pushed = {}
    BY <1>1 DEF OpenSocket
  <1> HIDE DEF s
  <1>3. socket' \in [Observers -> {Closed} \cup OpenSocket]
    BY <1>1, <1>2 DEF SocketInv
  <1>4. ASSUME NEW p \in Observers PROVE SocketOK(p)'
    <2>1. CASE socket'[p] = socket[p]
      BY <1>1, <2>1 DEF SocketInv, SocketOK, AfterConnect
    <2>2. CASE socket'[p] = s
      <3>1. AfterConnect(p)' = {}
        BY <1>1, <1>2, <2>2 DEF AfterConnect
      <3> QED
        BY <1>1, <1>2, <2>2, <3>1 DEF SocketOK
    <2>3. CASE socket'[p] = Closed
      BY <2>3 DEF SocketOK, Closed
    <2> QED
      BY <1>1, <2>1, <2>2, <2>3 DEF SocketInv
  <1> QED
    BY <1>3, <1>4 DEF SocketInv

LEMMA SocketInvariant == Spec => []SocketInv
  <1>1. Init => SocketInv
    BY DEF Init, SocketInv, SocketOK, Closed
  <1>2. RelayInv /\ SocketInv /\ [Next]_vars => SocketInv'
    <2> SUFFICES ASSUME RelayInv, SocketInv, [Next]_vars PROVE SocketInv'
      OBVIOUS
    <2>1. CASE \E c \in Clients : ClientStep(c)
      BY <2>1, SocketKept
      DEF ClientStep, AppendNext, Appended, AppendConflict, AppendGivesUp, Retry, Collect, CollectGivesUp, server
    <2>2. CASE \E c \in Clients : HandlePost(c)
      BY <2>2, SocketPost
    <2>3. CASE \E c \in Clients : HandleGet(c) \/ PollTimeout(c) \/ FetchFails(c) \/ Rerun(c)
      BY <2>3, SocketKept DEF HandleGet, PollTimeout, FetchFails, Rerun, server
    <2>4. CASE \E o \in Observers : SocketConnect(o) \/ SocketClose(o)
      BY <2>4, SocketConnects
    <2>5. CASE Age \/ Ended \/ UNCHANGED vars
      BY <2>5, SocketKept DEF Age, Ended, vars, server
    <2>6. CASE SweepExpired
      BY <2>6, SocketSweep
    <2>7. CASE Restart
      BY <2>7 DEF Restart, SocketInv, SocketOK, Closed
    <2> QED
      BY <2>1, <2>2, <2>3, <2>4, <2>5, <2>6, <2>7 DEF Next, ServerStep
  <1> QED
    BY <1>1, <1>2, RelayInvariant, PTL DEF Spec

\* Nobody waits in a long poll while the session holds a newer message (the read
\* and subscribe of GET), and an open websocket has been pushed every message
\* since it connected, with any number of readers, restarts and sweeps.
THEOREM RelayNoMissedWakeup == Spec => []NoMissedWakeup
  <1>1. RelayInv /\ SocketInv => NoMissedWakeup
    BY DEF RelayInv, ClientOK, Awake, SocketInv, SocketOK, NoMissedWakeup
  <1> QED
    BY <1>1, RelayInvariant, SocketInvariant, PTL

-----------------------------------------------------------------------------
(* Readers                                                                 *)

\* What collectUntil has collected of the current session is the session up to
\* its cursor: no message skipped, none twice under another number.
THEOREM RelayCollectedIsPrefix == Spec => []CollectedIsPrefix
  <1>1. RelayInv => CollectedIsPrefix
    BY DEF RelayInv, ClientOK, Reader, Slice, CollectedIsPrefix
  <1> QED
    BY <1>1, RelayInvariant, PTL

-----------------------------------------------------------------------------
(* The channel                                                             *)

\* The position of a reader in the channel depends on its cursor and epochs.
LEMMA GotKept ==
    ASSUME UNCHANGED <<log, epoch, cursor, readEpoch>>
    PROVE  UNCHANGED Abstract!chan
  BY DEF Abstract!chan, AbstractGot

LEMMA FailStartsOver ==
    ASSUME RelayInv, NEW C \in SUBSET Clients, Fail(C), UNCHANGED server
    PROVE  Abstract!StartOver(C)
  <1>1. \A c \in Clients : cursor'[c] = (IF c \in C THEN -1 ELSE cursor[c])
    BY DEF Fail
  <1>2. UNCHANGED <<readEpoch, epoch, log>>
    BY DEF Fail, server
  <1>3. AbstractGot' = [c \in Clients |-> IF c \in C THEN 0 ELSE AbstractGot[c]]
    BY <1>1, <1>2 DEF AbstractGot
  <1> QED
    BY <1>2, <1>3 DEF Abstract!StartOver

\* Every step of the session is a step of the channel: an append sends, a
\* round of collectUntil receives, a new collectUntil or a failure starts
\* over, a sweep expires.
LEMMA NextChannel == RelayInv /\ [Next]_vars => [Abstract!Next]_(Abstract!chan)
  <1> SUFFICES ASSUME RelayInv, [Next]_vars PROVE Abstract!Next \/ UNCHANGED Abstract!chan
    OBVIOUS
  <1>0. RelayTypeOK
    BY DEF RelayInv
  <1>1. ASSUME NEW c \in Clients, AppendNext(c) \/ AppendConflict(c) \/ Retry(c)
        PROVE  UNCHANGED Abstract!chan
    BY <1>1, GotKept DEF AppendNext, AppendConflict, Retry, server, reading
  <1>2. ASSUME NEW c \in Clients, Appended(c) PROVE Abstract!StartOver({c})
    <2>1. UNCHANGED <<log, epoch>> /\ \A d \in Clients \ {c} : cursor'[d] = cursor[d] /\ readEpoch'[d] = readEpoch[d]
      BY <1>0, <1>2 DEF Appended, server, RelayTypeOK
    <2>2. cursor'[c] = -1
      BY <1>0, <1>2 DEF Appended, RelayTypeOK
    <2>3. AbstractGot' = [d \in Clients |-> IF d \in {c} THEN 0 ELSE AbstractGot[d]]
      BY <2>1, <2>2 DEF AbstractGot
    <2> QED
      BY <2>1, <2>3 DEF Abstract!StartOver
  <1>3. ASSUME NEW c \in Clients, AppendGivesUp(c) \/ CollectGivesUp(c) \/ FetchFails(c)
        PROVE  Abstract!StartOver({c})
    BY <1>3, FailStartsOver DEF AppendGivesUp, CollectGivesUp, FetchFails
  <1>4. ASSUME NEW c \in Clients, Collect(c) PROVE Abstract!Receive(c) \/ UNCHANGED Abstract!chan
    <2>1. /\ UNCHANGED <<log, epoch, readEpoch>> /\ \A d \in Clients \ {c} : cursor'[d] = cursor[d]
          /\ readEpoch[c] = epoch => cursor[c] <= cursor'[c] /\ cursor'[c] <= Len(log) - 1
          /\ cursor[c] \in Int /\ cursor'[c] \in Int /\ cursor[c] >= -1 /\ Len(log) \in Nat
      BY <1>4, CollectStep DEF Local, Untouched, RelayInv, RelayTypeOK, ClientOK, Reader
    <2>2. CASE readEpoch[c] # epoch \/ cursor'[c] = cursor[c]
      <3>1. AbstractGot' = AbstractGot
        BY <2>1, <2>2 DEF AbstractGot
      <3> QED
        BY <2>1, <3>1 DEF Abstract!chan
    <2>3. CASE readEpoch[c] = epoch /\ cursor'[c] # cursor[c]
      <3>1. AbstractGot[c] = cursor[c] + 1
        BY <2>3 DEF AbstractGot
      <3>2. cursor'[c] + 1 \in AbstractGot[c] + 1 .. Len(log)
        BY <2>1, <2>3, <3>1
      <3>3. AbstractGot' = [AbstractGot EXCEPT ![c] = cursor'[c] + 1]
        BY <2>1, <2>3 DEF AbstractGot
      <3> QED
        BY <2>1, <3>2, <3>3 DEF Abstract!Receive
    <2> QED
      BY <2>2, <2>3
  <1>5. ASSUME NEW c \in Clients, HandlePost(c) PROVE Abstract!Next \/ UNCHANGED Abstract!chan
    <2> DEFINE m == [from |-> c, run |-> run[c], step |-> step[c] + 1]
    <2>1. CASE req[c].seq = NextSeq(log)
      <3>1. PostAccepted(c)
        BY <1>5, <2>1 DEF HandlePost, PostAccepted, NextSeq
      <3>2. m \in Message /\ log' = Append(log, m) /\ UNCHANGED <<epoch, cursor, readEpoch>>
        BY <3>1, PostMessage DEF PostAccepted, command
      <3>3. AbstractGot' = AbstractGot
        BY <3>2 DEF AbstractGot
      <3> HIDE DEF m
      <3> QED
        BY <3>2, <3>3 DEF Abstract!Next, Abstract!Send
    <2>2. CASE req[c].seq # NextSeq(log)
      BY <1>5, <2>2, GotKept DEF HandlePost, command
    <2> QED
      BY <2>1, <2>2
  <1>6. ASSUME NEW c \in Clients, HandleGet(c) \/ PollTimeout(c) \/ Rerun(c)
        PROVE  UNCHANGED Abstract!chan
    BY <1>6, GotKept DEF HandleGet, PollTimeout, Rerun, server, command, reading
  <1>7. CASE Restart
    <2>1. \E C \in SUBSET Clients : Abstract!StartOver(C)
      BY <1>7, FailStartsOver DEF Restart
    <2> QED
      BY <2>1 DEF Abstract!Next
  <1>8. CASE SweepExpired
    <2>1. log' = <<>> /\ \A c \in Clients : readEpoch'[c] # epoch'
      BY <1>0, <1>8, SweepOK DEF SweepExpired, command, RelayTypeOK
    <2>2. AbstractGot' = [c \in Clients |-> 0]
      BY <2>1 DEF AbstractGot
    <2> QED
      BY <2>1, <2>2 DEF Abstract!Next, Abstract!Expire
  <1>9. CASE Age \/ Ended \/ UNCHANGED vars \/ \E o \in Observers : SocketConnect(o) \/ SocketClose(o)
    BY <1>9, GotKept DEF Age, Ended, vars, SocketConnect, SocketClose, server, command
  <1>10. \A c \in Clients : Abstract!StartOver({c}) \/ Abstract!Receive(c) => Abstract!Next
    BY DEF Abstract!Next
  <1> QED
    BY <1>1, <1>2, <1>3, <1>4, <1>5, <1>6, <1>7, <1>8, <1>9, <1>10 DEF Next, ClientStep, ServerStep

\* The session with its conflicts, long polls, restarts, lost answers and
\* sweeps implements a totally ordered channel whose readers never skip.
THEOREM RelayImplementsChannel == Spec => ImplementsChannel
  <1>1. Init => Abstract!Init
    BY DEF Init, Abstract!Init, AbstractGot
  <1> QED
    BY <1>1, RelayInvariant, NextChannel, PTL DEF Spec, ImplementsChannel, Abstract!Spec

-----------------------------------------------------------------------------
(* One place for each append                                               *)

Call(c, r, n) == [from |-> c, run |-> r, step |-> n]

\* Every message is of a call that was made, and of no call after the one the
\* member is in; the answer 201 is only given to a call whose message is there.
Placed ==
    /\ \A i \in 1 .. Len(log) : log[i].run <= run[log[i].from]
    /\ \A i \in 1 .. Len(log) : \A c \in Clients :
        log[i].from = c /\ log[i].run = run[c] /\ pc[c] # "failed" =>
            log[i].step <= step[c] \/ (req[c].op = "created" /\ log[i].step = step[c] + 1)
    /\ \A i, j \in 1 .. Len(log) : log[i] = log[j] => i = j

Present ==
    epoch = 0 => \A c \in Clients :
        /\ \A n \in 1 .. step[c] : \E i \in 1 .. Len(log) : log[i] = Call(c, run[c], n)
        /\ req[c].op = "created" => \E i \in 1 .. Len(log) : log[i] = Call(c, run[c], step[c] + 1)

LEMMA LogType ==
    ASSUME RelayTypeOK, NEW i \in 1 .. Len(log)
    PROVE  log[i].from \in Clients /\ log[i].run \in Nat /\ log[i].step \in Nat
  <1>1. log \in Seq(Message)
    BY DEF RelayTypeOK
  <1>2. log[i] \in Message
    BY <1>1
  <1> QED
    BY <1>2, RelayAssumption DEF Message

\* A step that makes and answers no append of client d.
Quiet(d) ==
    /\ run'[d] = run[d] /\ step'[d] = step[d]
    /\ pc'[d] # "failed" => pc[d] # "failed" /\ (req[d].op = "created" => req'[d].op = "created")
    /\ req'[d].op = "created" => req[d].op = "created"

LEMMA QuietPlaced ==
    ASSUME RelayTypeOK, Placed, Present, UNCHANGED <<log, epoch>>, \A d \in Clients : Quiet(d)
    PROVE  Placed' /\ Present'
  <1>1. \A i \in 1 .. Len(log) : log[i].from \in Clients
    BY LogType
  <1>2. Placed'
    BY <1>1 DEF Placed, Quiet
  <1>3. Present'
    BY DEF Present, Quiet
  <1> QED
    BY <1>2, <1>3

\* Steps of one client that are neither an append nor its answer.
LEMMA LocalQuiet ==
    ASSUME RelayInv, Placed, Present, NEW c \in Clients, Local(c), Quiet(c), UNCHANGED run
    PROVE  Placed' /\ Present'
  <1>1. \A d \in Clients : Quiet(d)
    BY DEF Local, Untouched, Quiet
  <1> QED
    BY <1>1, QuietPlaced DEF Local, RelayInv

\* 201 is counted as one more message of the command.
LEMMA AppendedPlaced ==
    ASSUME RelayInv, Placed, Present, NEW c \in Clients, Appended(c)
    PROVE  Placed' /\ Present'
  <1>0. RelayTypeOK /\ step[c] \in Nat
    <2>1. RelayTypeOK
      BY DEF RelayInv
    <2>2. step[c] \in 0 .. Appends
      BY <2>1 DEF RelayTypeOK
    <2> QED
      BY <2>1, <2>2
  <1>1. /\ UNCHANGED <<log, epoch, run>> /\ req[c].op = "created"
        /\ step'[c] = step[c] + 1 /\ pc'[c] = "collecting" /\ req'[c].op = "get"
        /\ \A d \in Clients \ {c} : Untouched(d)
    <2>1. /\ req[c] = Created /\ req' = [req EXCEPT ![c] = Get(-1)] /\ pc' = [pc EXCEPT ![c] = "collecting"]
          /\ step' = [step EXCEPT ![c] = @ + 1] /\ UNCHANGED run
      BY DEF Appended
    <2>2. req'[c] = Get(-1) /\ pc'[c] = "collecting" /\ step'[c] = step[c] + 1
      BY <1>0, <2>1 DEF RelayTypeOK
    <2> QED
      BY <2>1, <2>2, AppendSteps DEF Created, Get, Local
  <1>2. pc[c] # "failed"
    BY <1>1, PostPhase
  <1>3. \A i \in 1 .. Len(log) : log[i].from \in Clients /\ log[i].step \in Nat
    BY <1>0, LogType
  <1>4. Placed'
    <2>1. ASSUME NEW i \in 1 .. Len(log), NEW d \in Clients,
                 log[i].from = d, log[i].run = run[d], pc'[d] # "failed"
          PROVE  log[i].step <= step'[d] \/ (req'[d].op = "created" /\ log[i].step = step'[d] + 1)
      <3>1. CASE d = c
        BY <1>0, <1>1, <1>2, <1>3, <2>1, <3>1 DEF Placed
      <3>2. CASE d # c
        BY <1>1, <2>1, <3>2 DEF Placed, Untouched
      <3> QED
        BY <3>1, <3>2
    <2> QED
      BY <1>1, <2>1 DEF Placed
  <1>5. Present'
    <2>1. ASSUME epoch = 0, NEW d \in Clients
          PROVE  /\ \A n \in 1 .. step'[d] : \E i \in 1 .. Len(log) : log[i] = Call(d, run[d], n)
                 /\ req'[d].op = "created" => \E i \in 1 .. Len(log) : log[i] = Call(d, run[d], step'[d] + 1)
      <3>1. CASE d = c
        <4>1. \A n \in 1 .. step[c] + 1 : n \in 1 .. step[c] \/ n = step[c] + 1
          BY <1>0
        <4> QED
          BY <1>1, <2>1, <3>1, <4>1 DEF Present
      <3>2. CASE d # c
        BY <1>1, <2>1, <3>2 DEF Present, Untouched
      <3> QED
        BY <3>1, <3>2
    <2> QED
      BY <1>1, <2>1 DEF Present
  <1> QED
    BY <1>4, <1>5

\* A command started again makes calls that have not been made before.
LEMMA RerunPlaced ==
    ASSUME RelayInv, Placed, Present, NEW c \in Clients, Rerun(c)
    PROVE  Placed' /\ Present'
  <1>0. RelayTypeOK /\ run[c] \in Nat /\ req[c].op = "none"
    BY DEF RelayInv, RelayTypeOK, ClientOK, Phase, Rerun
  <1>1. /\ UNCHANGED <<log, epoch, req>> /\ step'[c] = 0 /\ run'[c] = run[c] + 1
        /\ \A d \in Clients \ {c} : Untouched(d) /\ run'[d] = run[d]
    BY <1>0, RerunStep DEF Rerun, RelayTypeOK, server, Local
  <1>2. \A i \in 1 .. Len(log) : log[i].from \in Clients /\ log[i].run \in Nat
    BY <1>0, LogType
  <1>3. \A i \in 1 .. Len(log) : log[i].from = c => log[i].run < run'[c]
    BY <1>0, <1>1, <1>2 DEF Placed
  <1>4. Placed'
    <2>1. ASSUME NEW i \in 1 .. Len(log) PROVE log[i].run <= run'[log[i].from]
      BY <1>0, <1>1, <1>2, <1>3 DEF Placed
    <2>2. ASSUME NEW i \in 1 .. Len(log), NEW d \in Clients,
                 log[i].from = d, log[i].run = run'[d], pc'[d] # "failed"
          PROVE  log[i].step <= step'[d] \/ (req'[d].op = "created" /\ log[i].step = step'[d] + 1)
      <3>1. d # c
        BY <1>0, <1>1, <1>2, <1>3, <2>2
      <3> QED
        BY <1>1, <2>2, <3>1 DEF Placed, Untouched
    <2> QED
      BY <1>1, <2>1, <2>2 DEF Placed
  <1>5. Present'
    BY <1>0, <1>1 DEF Present, Untouched
  <1> QED
    BY <1>4, <1>5

LEMMA PostPlaced ==
    ASSUME RelayInv, Placed, Present, NEW c \in Clients, PostAccepted(c)
    PROVE  Placed' /\ Present'
  <1> DEFINE m == Call(c, run[c], step[c] + 1)
  <1>0. RelayTypeOK /\ step[c] \in Nat /\ run[c] \in Nat /\ pc[c] = "appending" /\ req[c].op = "post"
    <2>1. step[c] \in 0 .. Appends /\ run[c] \in 1 .. MaxRuns
      BY DEF RelayInv, RelayTypeOK
    <2>2. step[c] \in Nat /\ run[c] \in Nat
      BY <2>1, RelayAssumption
    <2> QED
      BY <2>2, PostPhase DEF RelayInv, PostAccepted
  <1>1. log' = Append(log, m) /\ UNCHANGED <<epoch, pc, run, step>>
    BY DEF PostAccepted, command, Call
  <1>2. /\ req'[c].op = "created"
        /\ \A d \in Clients \ {c} : (req'[d].op = "created" <=> req[d].op = "created")
    BY DEF PostAccepted, Published, Created, Answer
  <1>3. /\ log \in Seq(Message) /\ Len(log) \in Nat /\ Len(log') = Len(log) + 1
        /\ log'[Len(log) + 1] = m /\ \A i \in 1 .. Len(log) : log'[i] = log[i]
    BY <1>0, <1>1 DEF RelayTypeOK
  <1>4. \A i \in 1 .. Len(log) : log[i].from \in Clients /\ log[i].run \in Nat /\ log[i].step \in Nat
    BY <1>0, LogType
  <1>5. m.from = c /\ m.run = run[c] /\ m.step = step[c] + 1
    BY DEF Call
  <1> HIDE DEF m
  <1>6. \A i \in 1 .. Len(log) : log[i] # m
    <2>1. SUFFICES ASSUME NEW i \in 1 .. Len(log), log[i] = m PROVE FALSE
      OBVIOUS
    <2>2. log[i].step <= step[c]
      BY <1>0, <1>5, <2>1 DEF Placed
    <2> QED
      BY <1>0, <1>5, <2>1, <2>2
  <1>7. Placed'
    <2>1. ASSUME NEW i \in 1 .. Len(log') PROVE log'[i].run <= run'[log'[i].from]
      BY <1>0, <1>1, <1>3, <1>5 DEF Placed
    <2>2. ASSUME NEW i \in 1 .. Len(log'), NEW d \in Clients,
                 log'[i].from = d, log'[i].run = run'[d], pc'[d] # "failed"
          PROVE  log'[i].step <= step'[d] \/ (req'[d].op = "created" /\ log'[i].step = step'[d] + 1)
      <3>1. CASE i = Len(log) + 1
        BY <1>1, <1>2, <1>3, <1>5, <2>2, <3>1
      <3>2. CASE i \in 1 .. Len(log)
        <4>1. log[i].step <= step[d] \/ (req[d].op = "created" /\ log[i].step = step[d] + 1)
          BY <1>1, <1>3, <2>2, <3>2 DEF Placed
        <4> QED
          BY <1>0, <1>1, <1>2, <1>3, <3>2, <4>1
      <3> QED
        BY <1>3, <3>1, <3>2
    <2>3. ASSUME NEW i \in 1 .. Len(log'), NEW j \in 1 .. Len(log'), log'[i] = log'[j] PROVE i = j
      BY <1>3, <1>6, <2>3 DEF Placed
    <2> QED
      BY <2>1, <2>2, <2>3 DEF Placed
  <1>8. Present'
    <2>1. 1 .. Len(log) \subseteq 1 .. Len(log') /\ Len(log) + 1 \in 1 .. Len(log')
      BY <1>3
    <2>2. ASSUME epoch' = 0, NEW d \in Clients
          PROVE  /\ \A n \in 1 .. step'[d] : \E i \in 1 .. Len(log') : log'[i] = Call(d, run'[d], n)
                 /\ req'[d].op = "created" =>
                      \E i \in 1 .. Len(log') : log'[i] = Call(d, run'[d], step'[d] + 1)
      <3>1. \A n \in 1 .. step'[d] : \E i \in 1 .. Len(log') : log'[i] = Call(d, run'[d], n)
        BY <1>1, <1>3, <2>1, <2>2 DEF Present
      <3>2. CASE d = c
        BY <1>1, <1>3, <2>1, <3>1, <3>2 DEF m
      <3>3. CASE d # c
        BY <1>1, <1>2, <1>3, <2>1, <2>2, <3>1, <3>3 DEF Present
      <3> QED
        BY <3>2, <3>3
    <2> QED
      BY <2>2 DEF Present
  <1> QED
    BY <1>7, <1>8

LEMMA NextPlaced == RelayInv /\ Placed /\ Present /\ [Next]_vars => Placed' /\ Present'
  <1> SUFFICES ASSUME RelayInv, Placed, Present, [Next]_vars PROVE Placed' /\ Present'
    OBVIOUS
  <1>0. RelayTypeOK /\ \A c \in Clients : Phase(c)
    BY DEF RelayInv, ClientOK
  <1>1. ASSUME NEW c \in Clients, AppendNext(c) \/ AppendConflict(c) \/ Retry(c) PROVE Placed' /\ Present'
    <2>1. Quiet(c) /\ UNCHANGED run
      BY <1>0, <1>1 DEF AppendNext, AppendConflict, Retry, Quiet, RelayTypeOK, Phase, Post, Get, Conflict
    <2> QED
      BY <1>1, <2>1, AppendSteps, LocalQuiet
  <1>2. ASSUME NEW C \in SUBSET Clients, Fail(C), UNCHANGED server PROVE Placed' /\ Present'
    <2>1. ASSUME NEW d \in Clients PROVE Quiet(d)
      BY <1>2 DEF Fail, Quiet, NoRequest
    <2> QED
      BY <1>0, <1>2, <2>1, QuietPlaced DEF server
  <1>3. ASSUME NEW c \in Clients, AppendGivesUp(c) \/ CollectGivesUp(c) \/ FetchFails(c) PROVE Placed' /\ Present'
    BY <1>2, <1>3 DEF AppendGivesUp, CollectGivesUp, FetchFails
  <1>4. CASE Restart
    BY <1>2, <1>4 DEF Restart
  <1>5. ASSUME NEW c \in Clients, Collect(c) PROVE Placed' /\ Present'
    <2>1. pc'[c] \in {"collecting", "done", "ready"} /\ req'[c].op \in {"get", "none"}
      BY <1>0, <1>5 DEF Collect, RelayTypeOK, Get, NoRequest
    <2>2. Quiet(c) /\ UNCHANGED run
      BY <1>5, <2>1 DEF Collect, Quiet
    <2> QED
      BY <1>5, <2>2, CollectStep, LocalQuiet
  <1>6. ASSUME NEW c \in Clients, HandleGet(c) \/ PollTimeout(c) PROVE Placed' /\ Present'
    <2>1. req'[c].op \in {"messages", "waiting"} /\ req[c].op \in {"get", "waiting"}
      BY <1>0, <1>6 DEF HandleGet, PollTimeout, RelayTypeOK, Answer, Waiting
    <2>2. Quiet(c) /\ UNCHANGED run
      BY <1>6, <2>1 DEF HandleGet, PollTimeout, Quiet, command
    <2> QED
      BY <1>6, <2>2, PollSteps, LocalQuiet
  <1>7. ASSUME NEW c \in Clients, HandlePost(c) PROVE Placed' /\ Present'
    <2>1. CASE req[c].seq = NextSeq(log)
      <3>1. PostAccepted(c)
        BY <1>7, <2>1 DEF HandlePost, PostAccepted, NextSeq
      <3> QED
        BY <3>1, PostPlaced
    <2>2. CASE req[c].seq # NextSeq(log)
      <3>1. req'[c].op = "conflict" /\ req[c].op = "post" /\ UNCHANGED <<pc, step, run>>
        BY <1>0, <1>7, <2>2 DEF HandlePost, RelayTypeOK, Conflict, command
      <3>2. Quiet(c)
        BY <3>1 DEF Quiet
      <3> QED
        BY <1>7, <2>2, <3>1, <3>2, PostRefused, LocalQuiet
    <2> QED
      BY <2>1, <2>2
  <1>8. CASE SweepExpired
    BY <1>0, <1>8 DEF SweepExpired, Placed, Present, RelayTypeOK
  <1>9. CASE Age \/ Ended \/ UNCHANGED vars \/ \E o \in Observers : SocketConnect(o) \/ SocketClose(o)
    <2>1. UNCHANGED <<log, epoch, pc, req, command>>
      BY <1>9 DEF Age, Ended, vars, SocketConnect, SocketClose, server
    <2>2. \A d \in Clients : Quiet(d)
      BY <2>1 DEF Quiet, command
    <2> QED
      BY <1>0, <2>1, <2>2, QuietPlaced
  <1> QED
    BY <1>1, <1>3, <1>4, <1>5, <1>6, <1>7, <1>8, <1>9, AppendedPlaced, RerunPlaced
    DEF Next, ClientStep, ServerStep

\* One call of appendNext puts at most one message into the session, and one
\* that returned put exactly one there, for any number of conflicts, retries,
\* lost answers and runs.
THEOREM RelayAppendedOnce == Spec => []AppendedOnce
  <1>1. Init => Placed /\ Present
    BY DEF Init, Placed, Present, NoRequest
  <1>2. RelayInv /\ Placed /\ Present => AppendedOnce
    <2> SUFFICES ASSUME RelayInv, Placed, Present, NEW c \in Clients,
                        NEW r \in 1 .. run[c], NEW n \in 1 .. Appends
                 PROVE  LET P == {i \in 1 .. Len(log) : log[i] = Call(c, r, n)}
                        IN  /\ Cardinality(P) <= 1
                            /\ r = run[c] /\ n <= step[c] /\ epoch = 0 => P # {}
      BY DEF AppendedOnce, Call
    <2> DEFINE P == {i \in 1 .. Len(log) : log[i] = Call(c, r, n)}
    <2>1. \A i, j \in P : i = j
      BY DEF Placed
    <2>2. P = {} \/ \E i \in P : P = {i}
      BY <2>1
    <2>3. Cardinality(P) <= 1
      <3> HIDE DEF P
      <3>1. CASE P = {}
        BY <3>1, FS_EmptySet
      <3>2. ASSUME NEW i \in P, P = {i} PROVE Cardinality(P) = 1
        BY <3>2, FS_Singleton
      <3> QED
        BY <2>2, <3>1, <3>2
    <2>4. r = run[c] /\ n <= step[c] /\ epoch = 0 => P # {}
      <3> SUFFICES ASSUME r = run[c], n <= step[c], epoch = 0 PROVE \E i \in 1 .. Len(log) : log[i] = Call(c, r, n)
        OBVIOUS
      <3>1. n \in 1 .. step[c]
        BY DEF RelayInv, RelayTypeOK
      <3> QED
        BY <3>1 DEF Present
    <2> QED
      BY <2>3, <2>4
  <1> QED
    BY <1>1, <1>2, RelayInvariant, NextPlaced, PTL DEF Spec

-----------------------------------------------------------------------------
(* Conflicts                                                               *)

\* How many of the first k messages are of other members.
Others(l, c, k) == {i \in 1 .. k : l[i].from # c}
Count(l, c, k) == Cardinality(Others(l, c, k))

LEMMA CountType ==
    ASSUME NEW l, NEW c, NEW k \in Nat
    PROVE  IsFiniteSet(Others(l, c, k)) /\ Count(l, c, k) \in Nat
  <1>1. IsFiniteSet(1 .. k)
    BY FS_Interval
  <1>2. Others(l, c, k) \subseteq 1 .. k
    BY DEF Others
  <1> QED
    BY <1>1, <1>2, FS_Subset, FS_CardinalityType DEF Count

LEMMA CountGrows ==
    ASSUME NEW l, NEW c, NEW k \in Nat, NEW j \in Nat, k <= j
    PROVE  /\ Count(l, c, k) <= Count(l, c, j)
           /\ k < j /\ l[k + 1].from # c => Count(l, c, k) + 1 <= Count(l, c, j)
  <1>1. IsFiniteSet(Others(l, c, j)) /\ IsFiniteSet(Others(l, c, k))
    BY CountType
  <1>2. Others(l, c, k) \subseteq Others(l, c, j)
    BY DEF Others
  <1>3. Count(l, c, k) <= Count(l, c, j)
    BY <1>1, <1>2, FS_Subset DEF Count
  <1>4. ASSUME k < j, l[k + 1].from # c
        PROVE  Count(l, c, k) + 1 <= Count(l, c, j)
    <2>1. Others(l, c, k) \cup {k + 1} \subseteq Others(l, c, j) /\ k + 1 \notin Others(l, c, k)
      BY <1>4 DEF Others
    <2>2. Cardinality(Others(l, c, k) \cup {k + 1}) = Count(l, c, k) + 1
      BY <1>1, <2>1, FS_AddElement DEF Count
    <2> QED
      BY <1>1, <2>1, <2>2, FS_Subset DEF Count
  <1> QED
    BY <1>3, <1>4

LEMMA CountKept ==
    ASSUME NEW l \in Seq(Message), NEW m \in Message, NEW c, NEW k \in Nat, k <= Len(l)
    PROVE  Count(Append(l, m), c, k) = Count(l, c, k)
  <1>1. \A i \in 1 .. k : Append(l, m)[i] = l[i]
    OBVIOUS
  <1>2. Others(Append(l, m), c, k) = Others(l, c, k)
    BY <1>1 DEF Others
  <1> QED
    BY <1>2 DEF Count

\* All of c's messages are among the first k.
OwnUpTo(c, k) == \A i \in k + 1 .. Len(log) : log[i].from # c
Rejoined(c) == IF run[c] > 1 THEN 1 ELSE 0

\* The refusals of a call are paid for by messages of others before the number
\* it tries, and after that number there is no message of its own, except for
\* the first try of a command that was started again.
Tries(c) ==
    /\ guess[c] <= Len(log)
    /\ attempt[c] <= Count(log, c, Len(log)) + Rejoined(c)
    /\ pc[c] \notin {"appending", "rereading"} => attempt[c] = 0
    /\ pc[c] \in {"ready", "collecting", "done"} => OwnUpTo(c, guess[c]) \/ run[c] > 1
    /\ req[c].op \in {"post", "conflict"} =>
        /\ attempt[c] <= Count(log, c, guess[c]) + Rejoined(c)
        /\ OwnUpTo(c, guess[c]) \/ (run[c] > 1 /\ attempt[c] = 0)
    /\ req[c].op = "post" => req[c].seq = guess[c]
    /\ req[c].op = "conflict" => guess[c] < Len(log)
    /\ req[c].op = "created" => guess[c] < Len(log) /\ OwnUpTo(c, guess[c] + 1)

\* What appendNext reads after a refusal is the session up to some message,
\* and not nothing: it never falls back to the number 0.
Rereads(c) ==
    pc[c] = "rereading" =>
        /\ Len(log) > 0 /\ req[c].op # "waiting"
        /\ req[c].op = "get" => req[c].since = -1
        /\ req[c].op = "messages" => \E k \in 0 .. Len(log) - 1 :
            /\ req[c].batch = Slice(log, 0, k)
            /\ attempt[c] <= Count(log, c, k + 1) + Rejoined(c)
            /\ OwnUpTo(c, k + 1)

Contended == epoch = 0 => \A c \in Clients : Tries(c) /\ Rereads(c)

Still(d) == Untouched(d) /\ guess'[d] = guess[d] /\ attempt'[d] = attempt[d] /\ run'[d] = run[d]

LEMMA StillContended ==
    ASSUME NEW d \in Clients, Tries(d), Rereads(d), Still(d), UNCHANGED log
    PROVE  (Tries(d) /\ Rereads(d))'
  BY DEF Tries, Rereads, Still, Untouched, OwnUpTo, Rejoined

LEMMA LocalContended ==
    ASSUME Contended, NEW c \in Clients, UNCHANGED <<log, epoch>>,
           \A d \in Clients \ {c} : Still(d),
           epoch = 0 => (Tries(c) /\ Rereads(c))'
    PROVE  Contended'
  BY StillContended DEF Contended

\* The facts about one client that the steps below need.
LEMMA ClientFacts ==
    ASSUME RelayInv, NEW c \in Clients
    PROVE  /\ pc[c] \in Phases /\ guess[c] \in Nat /\ attempt[c] \in Nat /\ run[c] \in Nat /\ run[c] >= 1
           /\ log \in Seq(Message) /\ Len(log) \in Nat /\ Phase(c) /\ Rejoined(c) \in {0, 1}
           /\ Count(log, c, Len(log)) \in Nat /\ Count(log, c, guess[c]) \in Nat
  <1>1. RelayTypeOK /\ Phase(c)
    BY DEF RelayInv, ClientOK
  <1>2. pc[c] \in Phases /\ guess[c] \in Nat /\ attempt[c] \in Nat /\ run[c] \in 1 .. MaxRuns /\ log \in Seq(Message)
    BY <1>1 DEF RelayTypeOK
  <1>3. run[c] \in Nat /\ run[c] >= 1 /\ Len(log) \in Nat
    BY <1>2, RelayAssumption
  <1> QED
    BY <1>1, <1>2, <1>3, CountType DEF Rejoined

LEMMA AppendContended ==
    ASSUME RelayInv, Contended, NEW c \in Clients,
           AppendNext(c) \/ Appended(c) \/ AppendConflict(c) \/ Retry(c)
    PROVE  Contended'
  <1> USE DEF server, reading
  <1>0. RelayTypeOK
    BY DEF RelayInv
  <1>1. UNCHANGED <<log, epoch>> /\ \A d \in Clients \ {c} : Still(d)
    BY <1>0, AppendSteps
    DEF AppendNext, Appended, AppendConflict, Retry, Local, Still, RelayTypeOK
  <1> SUFFICES ASSUME epoch = 0 PROVE (Tries(c) /\ Rereads(c))'
    BY <1>1, LocalContended
  <1>2. Tries(c) /\ Rereads(c)
    BY DEF Contended
  <1>3. /\ pc[c] \in Phases /\ guess[c] \in Nat /\ attempt[c] \in Nat /\ run[c] \in Nat
        /\ Len(log) \in Nat /\ log \in Seq(Message) /\ Phase(c) /\ Rejoined(c) \in {0, 1}
        /\ Count(log, c, Len(log)) \in Nat /\ Count(log, c, guess[c]) \in Nat
    BY ClientFacts
  <1>4. CASE AppendNext(c)
    <2>1. /\ pc[c] = "ready" /\ pc'[c] = "appending" /\ attempt'[c] = 0 /\ guess'[c] = guess[c]
          /\ run'[c] = run[c] /\ req'[c] = Post(guess[c])
      BY <1>0, <1>4 DEF AppendNext, RelayTypeOK
    <2> QED
      BY <1>1, <1>2, <1>3, <2>1 DEF Tries, Rereads, Post, OwnUpTo, Rejoined
  <1>5. CASE Appended(c)
    <2>1. /\ req[c].op = "created" /\ pc'[c] = "collecting" /\ attempt'[c] = 0 /\ guess'[c] = guess[c] + 1
          /\ run'[c] = run[c] /\ req'[c] = Get(-1)
      BY <1>0, <1>5 DEF Appended, RelayTypeOK, Created
    <2>2. guess'[c] <= Len(log) /\ OwnUpTo(c, guess[c] + 1)
      BY <1>2, <1>3, <2>1 DEF Tries
    <2> QED
      BY <1>1, <1>3, <2>1, <2>2 DEF Tries, Rereads, Get, OwnUpTo, Rejoined
  <1>6. CASE AppendConflict(c)
    <2>1. /\ req[c].op = "conflict" /\ pc'[c] = "rereading" /\ attempt'[c] = attempt[c] + 1
          /\ guess'[c] = guess[c] /\ run'[c] = run[c] /\ req'[c] = Get(-1)
      BY <1>0, <1>6 DEF AppendConflict, RelayTypeOK, Conflict
    <2>2. /\ guess[c] < Len(log) /\ attempt[c] <= Count(log, c, guess[c]) + Rejoined(c)
          /\ OwnUpTo(c, guess[c]) \/ (run[c] > 1 /\ attempt[c] = 0)
      BY <1>2, <2>1 DEF Tries
    <2>3. attempt[c] + 1 <= Count(log, c, Len(log)) + Rejoined(c)
      <3>1. CASE OwnUpTo(c, guess[c])
        <4>1. log[guess[c] + 1].from # c
          BY <1>3, <2>2, <3>1 DEF OwnUpTo
        <4>2. Count(log, c, guess[c]) + 1 <= Count(log, c, Len(log))
          BY <1>3, <2>2, <4>1, CountGrows
        <4> QED
          BY <1>3, <2>2, <4>2
      <3>2. CASE run[c] > 1 /\ attempt[c] = 0
        BY <1>3, <3>2 DEF Rejoined
      <3> QED
        BY <2>2, <3>1, <3>2
    <2>4. Tries(c)'
      BY <1>1, <1>3, <2>1, <2>2, <2>3 DEF Tries, Get, Rejoined
    <2>5. Rereads(c)'
      BY <1>1, <1>3, <2>1, <2>2 DEF Rereads, Get
    <2> QED
      BY <2>4, <2>5
  <1>7. CASE Retry(c)
    <2> DEFINE b == req[c].batch
               n == IF b = {} THEN 0 ELSE MaxSeq(b) + 1
    <2>1. /\ pc[c] = "rereading" /\ req[c].op = "messages" /\ pc'[c] = "appending"
          /\ attempt'[c] = attempt[c] /\ guess'[c] = n /\ run'[c] = run[c] /\ req'[c] = Post(n)
      BY <1>0, <1>7 DEF Retry, RelayTypeOK
    <2>2. PICK k \in 0 .. Len(log) - 1 :
            /\ b = Slice(log, 0, k)
            /\ attempt[c] <= Count(log, c, k + 1) + Rejoined(c)
            /\ OwnUpTo(c, k + 1)
      BY <1>2, <2>1 DEF Rereads
    <2>3. b # {} /\ MaxSeq(b) = k
      <3>1. k \in Int /\ k <= Len(log) - 1 /\ 0 <= k /\ ~(k < 0)
        BY <1>3
      <3> QED
        BY <1>3, <2>2, <3>1, SliceType
    <2>4. n = k + 1
      BY <2>3
    <2> HIDE DEF n, b
    <2> QED
      BY <1>1, <1>2, <1>3, <2>1, <2>2, <2>4 DEF Tries, Rereads, Post, OwnUpTo, Rejoined
  <1> QED
    BY <1>4, <1>5, <1>6, <1>7

LEMMA PollContended ==
    ASSUME RelayInv, Contended, NEW c \in Clients, HandleGet(c) \/ PollTimeout(c)
    PROVE  Contended'
  <1> USE DEF server, command
  <1>0. RelayTypeOK
    BY DEF RelayInv
  <1>1. /\ UNCHANGED <<log, epoch, pc, guess, attempt, run>>
        /\ \A d \in Clients \ {c} : Still(d)
    BY PollSteps DEF HandleGet, PollTimeout, Local, Still
  <1> SUFFICES ASSUME epoch = 0 PROVE (Tries(c) /\ Rereads(c))'
    BY <1>1, LocalContended
  <1>2. Tries(c) /\ Rereads(c)
    BY DEF Contended
  <1>3. log \in Seq(Message) /\ Len(log) \in Nat /\ attempt[c] \in Nat /\ Phase(c)
    BY ClientFacts
  <1>4. req'[c].op \in {"messages", "waiting"}
    BY <1>0 DEF HandleGet, PollTimeout, RelayTypeOK, Answer, Waiting
  <1>5. Tries(c)'
    BY <1>1, <1>2, <1>4 DEF Tries, OwnUpTo, Rejoined
  <1>6. CASE pc[c] = "rereading"
    <2>1. HandleGet(c) /\ req[c].op = "get" /\ req[c].since = -1 /\ Len(log) > 0
      BY <1>2, <1>6 DEF HandleGet, PollTimeout, Rereads
    <2>2. Since(log, -1) = Slice(log, 0, Len(log) - 1)
      BY <1>3, SinceIsSlice
    <2>3. Slice(log, 0, Len(log) - 1) # {}
      <3>1. 0 \in 0 .. Len(log) - 1
        BY <1>3, <2>1
      <3> QED
        BY <3>1 DEF Slice
    <2>4. req'[c] = Answer(Slice(log, 0, Len(log) - 1))
      BY <1>0, <2>1, <2>2, <2>3 DEF HandleGet, RelayTypeOK
    <2>5. Len(log) - 1 \in 0 .. Len(log) - 1 /\ Len(log) - 1 + 1 = Len(log)
      BY <1>3, <2>1
    <2>6. OwnUpTo(c, Len(log)) /\ attempt[c] <= Count(log, c, Len(log)) + Rejoined(c)
      BY <1>2, <1>3 DEF OwnUpTo, Tries
    <2> QED
      BY <1>1, <1>5, <2>1, <2>4, <2>5, <2>6 DEF Rereads, Answer, OwnUpTo, Rejoined
  <1>7. CASE pc[c] # "rereading"
    BY <1>1, <1>5, <1>7 DEF Rereads
  <1> QED
    BY <1>6, <1>7

LEMMA CollectContended ==
    ASSUME RelayInv, Contended, NEW c \in Clients, Collect(c)
    PROVE  Contended'
  <1>0. RelayTypeOK
    BY DEF RelayInv
  <1>1. UNCHANGED <<log, epoch, guess, attempt, run>> /\ \A d \in Clients \ {c} : Still(d)
    BY CollectStep DEF Collect, Local, Still, server
  <1> SUFFICES ASSUME epoch = 0 PROVE (Tries(c) /\ Rereads(c))'
    BY <1>1, LocalContended
  <1>2. Tries(c)
    BY DEF Contended
  <1>3. pc[c] = "collecting" /\ pc'[c] \in {"collecting", "done", "ready"} /\ req'[c].op \in {"get", "none"}
    BY <1>0 DEF Collect, RelayTypeOK, Get, NoRequest
  <1> QED
    BY <1>1, <1>2, <1>3 DEF Tries, Rereads, OwnUpTo, Rejoined

LEMMA FailContended ==
    ASSUME RelayInv, Contended, NEW C \in SUBSET Clients, Fail(C), UNCHANGED server
    PROVE  Contended'
  <1> SUFFICES ASSUME epoch = 0, NEW d \in Clients PROVE (Tries(d) /\ Rereads(d))'
    BY DEF Contended, server
  <1>1. Tries(d) /\ Rereads(d) /\ UNCHANGED <<log, epoch>>
    BY DEF Contended, server
  <1>2. Len(log) \in Nat /\ Count(log, d, Len(log)) \in Nat /\ Rejoined(d) \in {0, 1}
    BY ClientFacts
  <1>3. CASE d \notin C
    <2>1. Still(d)
      BY <1>1, <1>3, FailOK DEF Fail, Still, server
    <2> QED
      BY <1>1, <2>1, StillContended
  <1>4. CASE d \in C
    <2>1. /\ pc'[d] = "failed" /\ req'[d].op = "none" /\ guess'[d] = 0 /\ attempt'[d] = 0
          /\ run'[d] = run[d]
      BY <1>4 DEF Fail, NoRequest
    <2> QED
      BY <1>1, <1>2, <2>1 DEF Tries, Rereads, Rejoined
  <1> QED
    BY <1>3, <1>4

LEMMA RerunContended ==
    ASSUME RelayInv, Contended, NEW c \in Clients, Rerun(c)
    PROVE  Contended'
  <1>0. RelayTypeOK
    BY DEF RelayInv
  <1>1. /\ UNCHANGED <<log, epoch, guess, attempt, req>>
        /\ \A d \in Clients \ {c} : Still(d)
    BY <1>0, RerunStep DEF Rerun, Local, Still, server, RelayTypeOK
  <1> SUFFICES ASSUME epoch = 0 PROVE (Tries(c) /\ Rereads(c))'
    BY <1>1, LocalContended
  <1>2. Tries(c) /\ run[c] \in Nat /\ run[c] >= 1 /\ Count(log, c, Len(log)) \in Nat /\ Phase(c)
    BY ClientFacts DEF Contended
  <1>3. pc[c] = "failed" /\ pc'[c] = "ready" /\ run'[c] = run[c] + 1 /\ req[c].op = "none"
    BY <1>0, <1>2 DEF Rerun, RelayTypeOK, Phase
  <1>4. attempt[c] = 0 /\ run'[c] > 1
    BY <1>2, <1>3 DEF Tries
  <1> QED
    BY <1>1, <1>2, <1>3, <1>4 DEF Tries, Rereads, Rejoined

LEMMA RefusedContended ==
    ASSUME RelayInv, Contended, NEW c \in Clients, HandlePost(c), req[c].seq # NextSeq(log)
    PROVE  Contended'
  <1>0. RelayTypeOK
    BY DEF RelayInv
  <1>1. /\ UNCHANGED <<log, epoch, pc, guess, attempt, run>> /\ req[c].op = "post"
        /\ \A d \in Clients \ {c} : Still(d)
    BY PostRefused DEF HandlePost, Local, Still, command
  <1> SUFFICES ASSUME epoch = 0 PROVE (Tries(c) /\ Rereads(c))'
    BY <1>1, LocalContended
  <1>2. Tries(c) /\ pc[c] = "appending" /\ guess[c] \in Nat /\ Len(log) \in Nat
    BY <1>1, ClientFacts, PostPhase DEF Contended
  <1>3. req'[c].op = "conflict"
    BY <1>0 DEF HandlePost, Conflict, RelayTypeOK
  <1>4. guess[c] < Len(log)
    BY <1>1, <1>2 DEF Tries, NextSeq
  <1> QED
    BY <1>1, <1>2, <1>3, <1>4 DEF Tries, Rereads, OwnUpTo, Rejoined

\* An append is a message of another member for everybody else.
LEMMA AcceptedContended ==
    ASSUME RelayInv, Contended, NEW c \in Clients, PostAccepted(c)
    PROVE  Contended'
  <1> DEFINE m == [from |-> c, run |-> run[c], step |-> step[c] + 1]
  <1> SUFFICES ASSUME epoch = 0, NEW d \in Clients PROVE (Tries(d) /\ Rereads(d))'
    BY DEF Contended, PostAccepted
  <1>1. m \in Message /\ m.from = c
    BY PostMessage
  <1>2. log' = Append(log, m) /\ UNCHANGED <<pc, guess, attempt, run>>
    BY DEF PostAccepted, command
  <1> HIDE DEF m
  <1>3. Tries(d) /\ Rereads(d)
    BY DEF Contended
  <1>4. /\ pc[d] \in Phases /\ guess[d] \in Nat /\ attempt[d] \in Nat /\ run[d] \in Nat
        /\ Len(log) \in Nat /\ log \in Seq(Message) /\ Phase(d) /\ Rejoined(d) \in {0, 1}
        /\ Count(log, d, Len(log)) \in Nat /\ Count(log, d, guess[d]) \in Nat
    BY ClientFacts
  <1>5. /\ Len(log') = Len(log) + 1 /\ log'[Len(log) + 1] = m
        /\ \A i \in 1 .. Len(log) : log'[i] = log[i]
    BY <1>1, <1>2, <1>4
  <1>6. \A k \in 0 .. Len(log) : Count(log', d, k) = Count(log, d, k)
    BY <1>1, <1>2, <1>4, CountKept
  <1>7. Count(log', d, Len(log')) \in Nat /\ Count(log, d, Len(log)) <= Count(log', d, Len(log'))
    <2>1. Count(log', d, Len(log)) <= Count(log', d, Len(log')) /\ Count(log', d, Len(log')) \in Nat
      BY <1>4, <1>5, CountGrows, CountType
    <2>2. Len(log) \in 0 .. Len(log)
      BY <1>4
    <2> QED
      BY <1>6, <2>1, <2>2
  <1>8. Rejoined(d)' = Rejoined(d)
    BY <1>2 DEF Rejoined
  <1>9. attempt[d] <= Count(log', d, Len(log')) + Rejoined(d)
    BY <1>3, <1>4, <1>7 DEF Tries
  <1>10. CASE d = c
    <2>1. req'[d].op = "created" /\ pc[d] = "appending" /\ req[d].op = "post" /\ guess[d] = Len(log)
      BY <1>3, <1>10, PostPhase DEF PostAccepted, Published, Created, Tries
    <2>2. OwnUpTo(d, guess[d] + 1)'
      BY <1>2, <1>4, <1>5, <2>1 DEF OwnUpTo
    <2>3. Tries(d)'
      BY <1>2, <1>4, <1>5, <1>8, <1>9, <2>1, <2>2 DEF Tries
    <2>4. Rereads(d)'
      BY <1>2, <2>1 DEF Rereads
    <2> QED
      BY <2>3, <2>4
  <1>11. CASE d # c
    <2>1. \A k \in 0 .. Len(log) : OwnUpTo(d, k) => OwnUpTo(d, k)'
      BY <1>1, <1>4, <1>5, <1>11 DEF OwnUpTo
    <2>2. req'[d] = req[d] \/ (req[d].op = "waiting" /\ req'[d].op = "messages")
      BY <1>11 DEF PostAccepted, Published, Answer
    <2>3. guess[d] \in 0 .. Len(log) /\ guess[d] <= Len(log')
          /\ (guess[d] < Len(log) => guess[d] + 1 \in 0 .. Len(log) /\ guess[d] < Len(log'))
      BY <1>3, <1>4, <1>5 DEF Tries
    <2>4. Tries(d)'
      <3>1. OwnUpTo(d, guess[d]) => OwnUpTo(d, guess[d])'
        BY <1>2, <2>1, <2>3 DEF OwnUpTo
      <3>2. guess[d] < Len(log) /\ OwnUpTo(d, guess[d] + 1) => OwnUpTo(d, guess[d] + 1)'
        BY <1>2, <2>1, <2>3 DEF OwnUpTo
      <3>3. Count(log', d, guess[d]) = Count(log, d, guess[d])
        BY <1>6, <2>3
      <3>4. guess'[d] = guess[d] /\ attempt'[d] = attempt[d] /\ pc'[d] = pc[d] /\ run'[d] = run[d]
        BY <1>2
      <3> QED
        BY <1>3, <1>8, <1>9, <2>2, <2>3, <3>1, <3>2, <3>3, <3>4 DEF Tries
    <2>5. Rereads(d)'
      <3>1. SUFFICES ASSUME pc[d] = "rereading" PROVE Rereads(d)'
        BY <1>2 DEF Rereads
      <3>2. Len(log') > 0 /\ req'[d] = req[d] /\ req[d].op # "waiting"
        BY <1>3, <1>4, <1>5, <2>2, <3>1 DEF Rereads
      <3>3. ASSUME NEW k \in 0 .. Len(log) - 1,
                   req[d].batch = Slice(log, 0, k),
                   attempt[d] <= Count(log, d, k + 1) + Rejoined(d), OwnUpTo(d, k + 1)
            PROVE  /\ k \in 0 .. Len(log') - 1 /\ req'[d].batch = Slice(log', 0, k)
                   /\ attempt[d] <= Count(log', d, k + 1) + Rejoined(d) /\ OwnUpTo(d, k + 1)'
        <4>1. k + 1 \in 0 .. Len(log) /\ k \in 0 .. Len(log') - 1 /\ k \in Int /\ k <= Len(log) - 1
          BY <1>4, <1>5
        <4>2. Slice(log', 0, k) = Slice(log, 0, k)
          BY <1>1, <1>2, <1>4, <4>1, SliceKept
        <4>3. Count(log', d, k + 1) = Count(log, d, k + 1) /\ OwnUpTo(d, k + 1)'
          BY <1>6, <2>1, <3>3, <4>1
        <4> QED
          BY <3>2, <3>3, <4>1, <4>2, <4>3
      <3>4. attempt'[d] = attempt[d]
        BY <1>2
      <3> QED
        BY <1>3, <1>8, <3>1, <3>2, <3>3, <3>4 DEF Rereads, OwnUpTo
    <2> QED
      BY <2>4, <2>5
  <1> QED
    BY <1>10, <1>11

LEMMA NextContended == RelayInv /\ Contended /\ [Next]_vars => Contended'
  <1> SUFFICES ASSUME RelayInv, Contended, [Next]_vars PROVE Contended'
    OBVIOUS
  <1>1. ASSUME NEW c \in Clients, AppendGivesUp(c) \/ CollectGivesUp(c) \/ FetchFails(c) PROVE Contended'
    BY <1>1, FailContended DEF AppendGivesUp, CollectGivesUp, FetchFails
  <1>2. CASE Restart
    BY <1>2, FailContended DEF Restart
  <1>3. ASSUME NEW c \in Clients, HandlePost(c) PROVE Contended'
    <2>1. CASE req[c].seq = NextSeq(log)
      <3>1. PostAccepted(c)
        BY <1>3, <2>1 DEF HandlePost, PostAccepted, NextSeq
      <3> QED
        BY <3>1, AcceptedContended
    <2> QED
      BY <1>3, <2>1, RefusedContended
  <1>4. CASE SweepExpired
    <2>1. epoch \in Nat /\ epoch' = epoch + 1
      BY <1>4 DEF SweepExpired, RelayInv, RelayTypeOK
    <2> QED
      BY <2>1 DEF Contended
  <1>5. CASE Age \/ Ended \/ UNCHANGED vars \/ \E o \in Observers : SocketConnect(o) \/ SocketClose(o)
    <2>1. UNCHANGED <<log, epoch, pc, req, command>>
      BY <1>5 DEF Age, Ended, vars, SocketConnect, SocketClose, server
    <2>2. \A d \in Clients : Still(d)
      BY <2>1 DEF Still, Untouched, command
    <2> QED
      BY <2>1, <2>2, StillContended DEF Contended
  <1> QED
    BY <1>1, <1>2, <1>3, <1>4, <1>5, AppendContended, PollContended, CollectContended, RerunContended
    DEF Next, ClientStep, ServerStep

\* Within a session appendNext is refused at most once for each message of
\* another member, and once more after a restart of the command, for any
\* number of members that append at the same time.
THEOREM RelayConflictsBounded == Spec => []ConflictsBounded
  <1>1. Init => Contended
    <2> SUFFICES ASSUME Init, NEW c \in Clients PROVE Tries(c) /\ Rereads(c)
      BY DEF Contended
    <2>1. Count(log, c, Len(log)) \in Nat /\ Len(log) = 0
      BY CountType DEF Init
    <2> QED
      BY <2>1 DEF Init, Tries, Rereads, OwnUpTo, Rejoined, NoRequest
  <1>2. RelayInv /\ Contended => ConflictsBounded
    BY DEF Contended, Tries, Count, Others, Rejoined, ConflictsBounded
  <1> QED
    BY <1>1, <1>2, RelayInvariant, NextContended, PTL DEF Spec

=============================================================================
