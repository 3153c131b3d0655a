------------------------------- MODULE MCSelfTest -----------------------------
(* An instance of SelfTest: one or two bases, one or two modules.          *)
EXTENDS SelfTest, TLC

(* Deaths, lost vnodes, failing reads, further updates, lag.               *)
Runs(dies, lost, unread, updates, late) ==
    [dies |-> dies, lost |-> lost, unread |-> unread, updates |-> updates,
     late |-> late]

SomeBudgets ==
    {Runs(1, 1, 0, 1, FALSE), Runs(1, 0, 1, 0, FALSE), Runs(1, 0, 0, 0, TRUE)}
=============================================================================
