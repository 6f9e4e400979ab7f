----------------------------- MODULE WindowLedger -----------------------------
(***************************************************************************)
(* What the observation windows of a capture session promise, without      *)
(* clocks, capacity or calls: every accepted packet is filed in exactly    *)
(* one window, a window of the packet's own flow that was open when the    *)
(* packet arrived; a flow has at most one open window; windows are         *)
(* numbered in the order they open; a retired window never opens again.    *)
(* FlowWindows implements it (FlowWindowsRefinement).                      *)
(***************************************************************************)
EXTENDS Naturals, Sequences

CONSTANT Flows

VARIABLES opened,    \* how many windows were ever opened
          live,      \* the open windows, as <<flow, number>>
          retired,   \* the windows handed out
          filed      \* the window of each accepted packet

ledgerVars == <<opened, live, retired, filed>>

Init ==
    /\ opened = 0
    /\ live = {}
    /\ retired = {}
    /\ filed = <<>>

FileInLive ==
    \E w \in live :
        /\ filed' = Append(filed, w)
        /\ UNCHANGED <<opened, live, retired>>

(* At most one window retires to let the new one open, and no other window   *)
(* of the flow may stay open.                                                *)
OpenAndFile(f) ==
    \E r \in {{}} \cup {{w} : w \in live} :
        /\ \A w \in live \ r : w[1] # f
        /\ live' = (live \ r) \cup {<<f, opened>>}
        /\ retired' = retired \cup r
        /\ filed' = Append(filed, <<f, opened>>)
        /\ opened' = opened + 1

Retire ==
    \E r \in SUBSET live :
        /\ live' = live \ r
        /\ retired' = retired \cup r
        /\ UNCHANGED <<opened, filed>>

Next ==
    \/ FileInLive
    \/ \E f \in Flows : OpenAndFile(f)
    \/ Retire

Spec == Init /\ [][Next]_ledgerVars

(* The promise as an invariant: a window is open or retired, not both; every *)
(* packet lies in one of them; a flow has one open window.                   *)
Consistent ==
    /\ live \cap retired = {}
    /\ \A i \in DOMAIN filed : filed[i] \in live \cup retired
    /\ \A v, w \in live : v[1] = w[1] => v = w
    /\ \A v, w \in live \cup retired : v[2] = w[2] => v = w
    /\ \A w \in live \cup retired : w[2] < opened
=============================================================================
