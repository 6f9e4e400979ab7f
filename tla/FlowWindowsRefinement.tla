------------------------- MODULE FlowWindowsRefinement -------------------------
(***************************************************************************)
(* The window manager implements the window ledger: the mapping keeps the  *)
(* flow and the number of every window and forgets clocks, statistics,     *)
(* closure reasons and calls.                                              *)
(***************************************************************************)
EXTENDS FlowWindows

LiveKeys == {<<f, active[f].seq>> : f \in DOMAIN active}
RetiredKeys == {<<emitted[i].flow, emitted[i].seq>> : i \in DOMAIN emitted}
FiledKeys == [i \in DOMAIN log |-> <<log[i].flow, log[i].seq>>]

Ledger == INSTANCE WindowLedger
            WITH opened <- nextSeq, live <- LiveKeys,
                 retired <- RetiredKeys, filed <- FiledKeys

(* Every behaviour of the manager is one of the ledger: packets are filed in *)
(* the open window of their flow, and closed windows stay closed.            *)
LedgerSpec == Ledger!Spec

(* The ledger's promise, read off the manager's own state.                   *)
LedgerConsistent == Ledger!Consistent
=============================================================================
