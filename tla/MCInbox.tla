------------------------------ MODULE MCInbox ------------------------------
(* Instances of InboxDelivery.                                             *)
EXTENDS InboxDelivery

\* For one start, and what a process does while it runs: no write reaches the disk,
\* where nobody would read it.
OneStartSpec == Init /\ [][Next /\ UNCHANGED <<session, ledgerFile>>]_vars /\ Fairness
============================================================================
