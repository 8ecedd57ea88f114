----------------------------- MODULE MCTreasury -----------------------------
EXTENDS Treasury

PageTasks == [prewarm |-> "deposit", fund |-> "deposit", claim |-> "withdraw"]

Due(to, amount) == [to |-> to, amount |-> amount]
Payrolls == {<<Due("ann", 1), Due("bob", 1)>>, <<Due("bob", 1)>>}

=============================================================================
