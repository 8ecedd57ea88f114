------------------------------- MODULE Channel -------------------------------
(***************************************************************************)
(* What a session of the coordinator promises the members that use it: one *)
(* order of messages for everybody, in which each reader advances without  *)
(* skipping, until the session expires as a whole.                         *)
(***************************************************************************)
EXTENDS Naturals, Sequences

CONSTANTS Clients,   \* members of the session
          Messages   \* what they may send

VARIABLES sent,      \* the session's messages, oldest first
          got        \* got[c]: how many of them c has received

chan == <<sent, got>>

Init ==
    /\ sent = <<>>
    /\ got = [c \in Clients |-> 0]

(* A message takes the next place in the order. *)
Send(m) ==
    /\ sent' = Append(sent, m)
    /\ UNCHANGED got

(* A reader learns some more messages, never skipping one. *)
Receive(c) ==
    /\ \E n \in got[c] + 1 .. Len(sent) : got' = [got EXCEPT ![c] = n]
    /\ UNCHANGED sent

(* Some readers start over. *)
StartOver(C) ==
    /\ got' = [c \in Clients |-> IF c \in C THEN 0 ELSE got[c]]
    /\ UNCHANGED sent

(* The session is gone for everybody at once. *)
Expire ==
    /\ sent' = <<>>
    /\ got' = [c \in Clients |-> 0]

Next ==
    \/ \E m \in Messages : Send(m)
    \/ \E c \in Clients : Receive(c)
    \/ \E C \in SUBSET Clients : StartOver(C)
    \/ Expire

Spec == Init /\ [][Next]_chan
=============================================================================
