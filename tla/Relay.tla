-------------------------------- MODULE Relay --------------------------------
(***************************************************************************)
(* One session of the coordinator (packages/coordinator) and the clients   *)
(* that use it through CoordinatorClient (packages/cli): appendNext with   *)
(* its retry after a sequence conflict, collectUntil over long polls, the  *)
(* websocket push and the time-to-live sweep. Node runs a request handler  *)
(* up to its next await as one step, so POST, and the read and subscribe   *)
(* of GET, are one action each; requests and answers are in flight between *)
(* them and may be lost.                                                   *)
(***************************************************************************)
EXTENDS Integers, Sequences, FiniteSets, FiniteSetsExt

CONSTANTS Clients,      \* members running one command each
          Observers,    \* websocket clients
          Appends,      \* messages a command appends, each followed by a collect
          MaxAttempts,  \* maxAttempts of appendNext
          MaxRounds,    \* maxRounds of collectUntil
          Rerunners,    \* bound: the members that start a failed command again
          MaxRuns,      \* bound: how often they run it
          MaxFaults,    \* bound: lost requests or answers, restarts of the server
          MaxSweeps,    \* bound: expiries of the session
          ConnectUpTo   \* bound: messages in the session when an observer connects

ASSUME RelayAssumption ==
    /\ Appends \in Nat \ {0} /\ MaxAttempts \in Nat \ {0} /\ MaxRounds \in Nat \ {0}
    /\ MaxRuns \in Nat \ {0} /\ MaxFaults \in Nat /\ MaxSweeps \in Nat /\ ConnectUpTo \in Nat
    /\ Clients \cap Observers = {} /\ Rerunners \subseteq Clients

VARIABLES log,       \* the table messages of this session, by seq, from 0
          fresh,     \* its newest message is younger than the time to live
          epoch,     \* how often the session was swept
          faults,
          pc,        \* where a client's command is
          req,       \* the client's outstanding HTTP request, or its answer
          guess,     \* nextSeqGuess
          attempt,   \* attempt of appendNext
          step,      \* how many messages the command has appended
          cursor,    \* since of collectUntil
          seen,      \* the envelopes collected so far, by seq
          round,     \* round of collectUntil
          run,       \* how often the command was started
          readEpoch, \* epoch in which the current collectUntil began
          socket     \* per observer: what its websocket was pushed

server == <<log, fresh, epoch>>
command == <<guess, attempt, step, cursor, seen, round, run, readEpoch>>
reading == <<cursor, seen, round>>
vars == <<server, faults, pc, req, command, socket>>

Message == [from : Clients, run : 1 .. MaxRuns, step : 1 .. Appends]
NoRequest == [op |-> "none"]
Post(n) == [op |-> "post", seq |-> n]
Get(n) == [op |-> "get", since |-> n]
Waiting(n) == [op |-> "waiting", since |-> n]
Answer(b) == [op |-> "messages", batch |-> b]
Created == [op |-> "created"]
Conflict == [op |-> "conflict"]
Closed == [open |-> FALSE]

EnvelopeAt(l, n) == [seq |-> n, msg |-> l[n + 1]]
(* MessageStore.since: rows with seq greater than n, ascending. *)
Since(l, n) == {EnvelopeAt(l, s) : s \in {s \in 0 .. Len(l) - 1 : s > n}}
MaxSeq(batch) == Max({e.seq : e \in batch})
(* MessageStore.nextSeq: MAX(seq) + 1, or 0 for an empty session. *)
NextSeq(l) == Len(l)

Init ==
    /\ log = <<>> /\ fresh = TRUE /\ epoch = 0 /\ faults = 0
    /\ pc = [c \in Clients |-> "ready"]
    /\ req = [c \in Clients |-> NoRequest]
    /\ guess = [c \in Clients |-> 0]
    /\ attempt = [c \in Clients |-> 0]
    /\ step = [c \in Clients |-> 0]
    /\ cursor = [c \in Clients |-> -1]
    /\ seen = [c \in Clients |-> {}]
    /\ round = [c \in Clients |-> 0]
    /\ run = [c \in Clients |-> 1]
    /\ readEpoch = [c \in Clients |-> 0]
    /\ socket = [o \in Observers |-> Closed]

-----------------------------------------------------------------------------
(* The server *)

PublishedLate(e) ==
    [c \in Clients |-> IF req[c].op = "waiting" /\ e.seq > req[c].since + 1
                       THEN Answer({e}) ELSE req[c]]

(* publish: settle every long poll the envelope satisfies, push to sockets. *)
Published(e) ==
    [c \in Clients |-> IF req[c].op = "waiting" /\ e.seq > req[c].since
                       THEN Answer({e}) ELSE req[c]]

PushedOnce(e) ==
    [o \in Observers |-> IF socket[o].open /\ socket[o].pushed = {}
                         THEN [socket[o] EXCEPT !.pushed = @ \cup {e}] ELSE socket[o]]

(* The listener of a websocket sends every envelope published. *)
Pushed(e) ==
    [o \in Observers |-> IF socket[o].open
                         THEN [socket[o] EXCEPT !.pushed = @ \cup {e}] ELSE socket[o]]

HandlePostLastWins(c) ==
    LET e == [seq |-> NextSeq(log), msg |-> [from |-> c, run |-> run[c], step |-> step[c] + 1]]
    IN  /\ req[c].op = "post"
        /\ log' = Append(log, e.msg)
        /\ fresh' = TRUE
        /\ req' = [Published(e) EXCEPT ![c] = IF req[c].seq = e.seq THEN Created ELSE Conflict]
        /\ socket' = Pushed(e)
        /\ UNCHANGED <<epoch, faults, pc, command>>

(* POST: store.append checks the sequence number, then the handler publishes. *)
HandlePost(c) ==
    LET e == [seq |-> req[c].seq, msg |-> [from |-> c, run |-> run[c], step |-> step[c] + 1]]
    IN  /\ req[c].op = "post"
        /\ IF req[c].seq = NextSeq(log)
           THEN /\ log' = Append(log, e.msg)
                /\ fresh' = TRUE
                /\ req' = [Published(e) EXCEPT ![c] = Created]
                /\ socket' = Pushed(e)
           ELSE /\ req' = [req EXCEPT ![c] = Conflict]
                /\ UNCHANGED <<log, fresh, socket>>
        /\ UNCHANGED <<epoch, faults, pc, command>>

(* GET: answer what is there, or subscribe; the two are one step. *)
HandleGet(c) ==
    LET found == Since(log, req[c].since)
    IN  /\ req[c].op = "get"
        /\ req' = [req EXCEPT ![c] = IF found # {} THEN Answer(found)
                                     ELSE Waiting(req[c].since)]
        /\ UNCHANGED <<server, faults, pc, command, socket>>

PollTimeoutNever(c) ==
    /\ req[c].op = "waiting" /\ epoch > MaxSweeps
    /\ req' = [req EXCEPT ![c] = Answer({})]
    /\ UNCHANGED <<server, faults, pc, command, socket>>

(* The 25 s timer of a long poll. *)
PollTimeout(c) ==
    /\ req[c].op = "waiting"
    /\ req' = [req EXCEPT ![c] = Answer({})]
    /\ UNCHANGED <<server, faults, pc, command, socket>>

(* 24 h pass without a new message in the session. *)
Age ==
    /\ epoch < MaxSweeps
    /\ fresh /\ log # <<>>
    /\ fresh' = FALSE
    /\ UNCHANGED <<log, epoch, faults, pc, req, command, socket>>

SweepExpiredPartly ==
    /\ ~fresh
    /\ log' = Tail(log) /\ fresh' = TRUE /\ epoch' = epoch + 1
    /\ UNCHANGED <<faults, pc, req, command, socket>>

(* sweepExpired: the whole session, and only if its newest message is too old. *)
SweepExpired ==
    /\ ~fresh
    /\ log' = <<>> /\ fresh' = TRUE /\ epoch' = epoch + 1
    /\ UNCHANGED <<faults, pc, req, command, socket>>

(* Upgrade: subscribed from here on; nothing older is sent. *)
SocketConnect(o) ==
    /\ ~socket[o].open /\ Len(log) <= ConnectUpTo
    /\ socket' = [socket EXCEPT ![o] = [open |-> TRUE, epoch |-> epoch, from |-> Len(log), pushed |-> {}]]
    /\ UNCHANGED <<server, faults, pc, req, command>>

SocketClose(o) ==
    /\ socket[o].open
    /\ socket' = [socket EXCEPT ![o] = Closed]
    /\ UNCHANGED <<server, faults, pc, req, command>>

(* The commands of the clients in C end with an error; their state goes. *)
Fail(C) ==
    /\ pc' = [c \in Clients |-> IF c \in C THEN "failed" ELSE pc[c]]
    /\ req' = [c \in Clients |-> IF c \in C THEN NoRequest ELSE req[c]]
    /\ guess' = [c \in Clients |-> IF c \in C THEN 0 ELSE guess[c]]
    /\ attempt' = [c \in Clients |-> IF c \in C THEN 0 ELSE attempt[c]]
    /\ cursor' = [c \in Clients |-> IF c \in C THEN -1 ELSE cursor[c]]
    /\ seen' = [c \in Clients |-> IF c \in C THEN {} ELSE seen[c]]
    /\ round' = [c \in Clients |-> IF c \in C THEN 0 ELSE round[c]]
    /\ UNCHANGED <<step, run, readEpoch>>

(* SIGTERM or crash: listeners and connections go, the SQLite file stays. *)
Restart ==
    LET cut == {c \in Clients : req[c].op \in {"post", "get", "waiting"}}
    IN  /\ faults < MaxFaults
        /\ faults' = faults + 1
        /\ Fail(cut)
        /\ socket' = [o \in Observers |-> Closed]
        /\ UNCHANGED server

-----------------------------------------------------------------------------
(* The clients *)

(* The command calls appendNext: first attempt at the guessed number. *)
AppendNext(c) ==
    /\ pc[c] = "ready"
    /\ pc' = [pc EXCEPT ![c] = "appending"]
    /\ req' = [req EXCEPT ![c] = Post(guess[c])]
    /\ attempt' = [attempt EXCEPT ![c] = 0]
    /\ UNCHANGED <<server, faults, guess, step, reading, run, readEpoch, socket>>

(* 201: remember the next number; the command goes on to collectUntil. *)
Appended(c) ==
    /\ req[c] = Created
    /\ guess' = [guess EXCEPT ![c] = @ + 1]
    /\ step' = [step EXCEPT ![c] = @ + 1]
    /\ pc' = [pc EXCEPT ![c] = "collecting"]
    /\ cursor' = [cursor EXCEPT ![c] = -1]
    /\ seen' = [seen EXCEPT ![c] = {}]
    /\ round' = [round EXCEPT ![c] = 0]
    /\ readEpoch' = [readEpoch EXCEPT ![c] = epoch]
    /\ req' = [req EXCEPT ![c] = Get(-1)]
    /\ attempt' = [attempt EXCEPT ![c] = 0]
    /\ UNCHANGED <<server, faults, run, socket>>

(* 409: read the session from its start. *)
AppendConflict(c) ==
    /\ req[c] = Conflict /\ attempt[c] < MaxAttempts - 1
    /\ pc' = [pc EXCEPT ![c] = "rereading"]
    /\ req' = [req EXCEPT ![c] = Get(-1)]
    /\ attempt' = [attempt EXCEPT ![c] = @ + 1]
    /\ UNCHANGED <<server, faults, guess, step, reading, run, readEpoch, socket>>

(* 409 at the last attempt. *)
AppendGivesUp(c) ==
    /\ req[c] = Conflict /\ attempt[c] = MaxAttempts - 1
    /\ Fail({c})
    /\ UNCHANGED <<server, faults, socket>>

RetrySame(c) ==
    /\ pc[c] = "rereading" /\ req[c].op = "messages"
    /\ req' = [req EXCEPT ![c] = Post(guess[c])]
    /\ pc' = [pc EXCEPT ![c] = "appending"]
    /\ UNCHANGED <<server, faults, command, socket>>

(* The next attempt at the number after the highest one read. *)
Retry(c) ==
    LET b == req[c].batch
        n == IF b = {} THEN 0 ELSE MaxSeq(b) + 1
    IN  /\ pc[c] = "rereading" /\ req[c].op = "messages"
        /\ guess' = [guess EXCEPT ![c] = n]
        /\ req' = [req EXCEPT ![c] = Post(n)]
        /\ pc' = [pc EXCEPT ![c] = "appending"]
        /\ UNCHANGED <<server, faults, attempt, step, reading, run, readEpoch, socket>>

(* The caller's predicate: as many messages as all members together append. *)
Enough(c, s) == Cardinality(s) >= step[c] * Cardinality(Clients)

CollectForgets(c) ==
    LET b == req[c].batch
        s == seen[c] \cup b
        n == IF b = {} THEN cursor[c] ELSE Max({cursor[c], MaxSeq(b)})
        next == IF ~Enough(c, s) THEN "collecting"
                ELSE IF step[c] = Appends THEN "done" ELSE "ready"
    IN  /\ pc[c] = "collecting" /\ req[c].op = "messages"
        /\ Enough(c, s) \/ round[c] + 1 < MaxRounds
        /\ seen' = [seen EXCEPT ![c] = b]
        /\ cursor' = [cursor EXCEPT ![c] = n]
        /\ round' = [round EXCEPT ![c] = IF next = "collecting" THEN @ + 1 ELSE 0]
        /\ pc' = [pc EXCEPT ![c] = next]
        /\ req' = [req EXCEPT ![c] = IF next = "collecting" THEN Get(n) ELSE NoRequest]
        /\ UNCHANGED <<server, faults, guess, attempt, step, run, readEpoch, socket>>

(* One round of collectUntil. *)
Collect(c) ==
    LET b == req[c].batch
        s == seen[c] \cup b
        n == IF b = {} THEN cursor[c] ELSE Max({cursor[c], MaxSeq(b)})
        next == IF ~Enough(c, s) THEN "collecting"
                ELSE IF step[c] = Appends THEN "done" ELSE "ready"
    IN  /\ pc[c] = "collecting" /\ req[c].op = "messages"
        /\ Enough(c, s) \/ round[c] + 1 < MaxRounds
        /\ seen' = [seen EXCEPT ![c] = s]
        /\ cursor' = [cursor EXCEPT ![c] = n]
        /\ round' = [round EXCEPT ![c] = IF next = "collecting" THEN @ + 1 ELSE 0]
        /\ pc' = [pc EXCEPT ![c] = next]
        /\ req' = [req EXCEPT ![c] = IF next = "collecting" THEN Get(n) ELSE NoRequest]
        /\ UNCHANGED <<server, faults, guess, attempt, step, run, readEpoch, socket>>

(* The rounds are used up. *)
CollectGivesUp(c) ==
    /\ pc[c] = "collecting" /\ req[c].op = "messages"
    /\ ~Enough(c, seen[c] \cup req[c].batch) /\ round[c] + 1 = MaxRounds
    /\ Fail({c})
    /\ UNCHANGED <<server, faults, socket>>

(* fetch rejects: the request did not arrive, or its answer was lost. *)
FetchFails(c) ==
    /\ faults < MaxFaults
    /\ req[c] # NoRequest
    /\ faults' = faults + 1
    /\ Fail({c})
    /\ UNCHANGED <<server, socket>>

MayRerun(c) == c \in Rerunners /\ run[c] < MaxRuns
(* The member starts the command again: a new CoordinatorClient. *)
Rerun(c) ==
    /\ pc[c] = "failed" /\ MayRerun(c)
    /\ pc' = [pc EXCEPT ![c] = "ready"]
    /\ run' = [run EXCEPT ![c] = @ + 1]
    /\ step' = [step EXCEPT ![c] = 0]
    /\ UNCHANGED <<server, faults, req, guess, attempt, reading, readEpoch, socket>>

(* Every command has ended. *)
Ended ==
    /\ \A c \in Clients : pc[c] = "done" \/ (pc[c] = "failed" /\ ~MayRerun(c))
    /\ UNCHANGED vars

ClientStep(c) ==
    \/ AppendNext(c) \/ Appended(c) \/ AppendConflict(c) \/ AppendGivesUp(c) \/ Retry(c)
    \/ Collect(c) \/ CollectGivesUp(c)

ServerStep(c) == HandlePost(c) \/ HandleGet(c) \/ PollTimeout(c)

Next ==
    \/ \E c \in Clients : ClientStep(c) \/ ServerStep(c) \/ FetchFails(c) \/ Rerun(c)
    \/ \E o \in Observers : SocketConnect(o) \/ SocketClose(o)
    \/ Age \/ SweepExpired \/ Restart
    \/ Ended

(* Requests are handled, timers fire, and commands go on when answered. *)
Fairness == \A c \in Clients : WF_vars(ClientStep(c)) /\ WF_vars(ServerStep(c))

Spec == Init /\ [][Next]_vars /\ Fairness

-----------------------------------------------------------------------------
(* Properties *)

(* The envelopes of the session appended after the observer connected; all *)
(* of them if the session was swept since.                                 *)
AfterConnect(o) ==
    LET first == IF socket[o].epoch = epoch THEN socket[o].from ELSE 0
    IN  {EnvelopeAt(log, s) : s \in first .. Len(log) - 1}

(* The read of a long poll and its subscription leave no gap: nobody waits *)
(* while the session holds a message newer than the reader's position,     *)
(* even when it arrived between the two or right after a restart or sweep. *)
(* An open websocket has been pushed every message appended since it       *)
(* connected, through sweeps, and nothing else of the session it joined.   *)
NoMissedWakeup ==
    /\ \A c \in Clients : req[c].op = "waiting" => Since(log, req[c].since) = {}
    /\ \A o \in Observers : socket[o].open =>
        /\ AfterConnect(o) \subseteq socket[o].pushed
        /\ socket[o].epoch = epoch => socket[o].pushed = AfterConnect(o)

(* However often appendNext is refused and tries again, one call puts one  *)
(* message into the session at most, and a call that returned put exactly  *)
(* one there (until the session expires).                                  *)
AppendedOnce ==
    LET Places(c, r, n) == {i \in 1 .. Len(log) : log[i] = [from |-> c, run |-> r, step |-> n]}
    IN  \A c \in Clients : \A r \in 1 .. run[c], n \in 1 .. Appends :
            /\ Cardinality(Places(c, r, n)) <= 1
            /\ r = run[c] /\ n <= step[c] /\ epoch = 0 => Places(c, r, n) # {}

(* Within a session appendNext is refused at most once for each message of *)
(* another member, and once more if its own earlier run left messages that *)
(* its first guess does not know: contention cannot use up maxAttempts     *)
(* unless that many messages were appended.                                *)
ConflictsBounded ==
    \A c \in Clients :
        epoch = 0 =>
            attempt[c] <= Cardinality({i \in 1 .. Len(log) : log[i].from # c})
                          + (IF run[c] > 1 THEN 1 ELSE 0)

(* Readers of the session that live through a sweep are mapped to the      *)
(* beginning: they learn nothing of the new session.                       *)
AbstractGot ==
    [c \in Clients |-> IF readEpoch[c] = epoch THEN cursor[c] + 1 ELSE 0]

Abstract == INSTANCE Channel WITH Messages <- Message, sent <- log, got <- AbstractGot

(* The HTTP session with its conflicts, long polls, restarts and lost      *)
(* answers implements a totally ordered channel whose readers never skip.  *)
ImplementsChannel == Abstract!Spec

(* What a reader of the current session holds is exactly what the channel  *)
(* says it has received.                                                   *)
CollectedIsPrefix ==
    \A c \in Clients :
        readEpoch[c] = epoch => seen[c] = {EnvelopeAt(log, s) : s \in 0 .. cursor[c]}

(* Every command ends, with its messages or with an error: no wait for an  *)
(* absent member is for ever.                                              *)
CommandsEnd ==
    \A c \in Clients : pc[c] \notin {"done", "failed"} ~> pc[c] \in {"done", "failed"}

=============================================================================
