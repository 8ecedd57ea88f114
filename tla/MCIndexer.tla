------------------------------ MODULE MCIndexer ------------------------------
(* Instances of Indexer for model checking.                                *)
EXTENDS Indexer

HttpOnly == [live |-> FALSE, overlap |-> FALSE, faulty |-> TRUE, lossy |-> FALSE]
LiveTail == [live |-> TRUE, overlap |-> TRUE, faulty |-> FALSE, lossy |-> FALSE]
Harsh    == [live |-> TRUE, overlap |-> TRUE, faulty |-> TRUE, lossy |-> TRUE]

EveryDeployment == {HttpOnly, LiveTail, Harsh}
OnlyLive == {LiveTail}

AnyKind == {"deposit", "transfer", "rotate", "failed", "truncated"}

Bounds ==
    [d \in Deployments |->
        CASE d = HttpOnly -> [kinds |-> AnyKind, txs |-> 4, gaps |-> {0, 1}]
          [] d = LiveTail -> [kinds |-> AnyKind, txs |-> 3, gaps |-> {1}]
          [] d = Harsh    -> [kinds |-> {"deposit", "truncated"}, txs |-> 2, gaps |-> {1}]]
=============================================================================
