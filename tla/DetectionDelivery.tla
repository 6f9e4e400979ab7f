--------------------------- MODULE DetectionDelivery ---------------------------
(***************************************************************************)
(* What the callers of the detection stream may rely on, read off the      *)
(* history of consumer calls: delivery in order and at most once, what     *)
(* failures suppress and what they must not, and the end of the stream.    *)
(***************************************************************************)
EXTENDS DetectionStream

FlowCalls == {i \in DOMAIN calls : calls[i].consumer = "flow"}
PacketCalls == {i \in DOMAIN calls : calls[i].consumer = "packet"}

(* Finding n of the k-th window handed out, in the order they are owed.      *)
OwedBefore(j, m, k, n) == j < k \/ (j = k /\ m < n)

(* Call i of the flow consumer is the one for that finding.                  *)
Gives(i, k, n) ==
    /\ calls[i].subject = emitted[k].seq
    /\ calls[i].finding = FindingsOf(emitted[k])[n]

GivenBefore(i, k, n) == \E j \in FlowCalls : j < i /\ Gives(j, k, n)

AllGiven ==
    \A k \in DOMAIN emitted : \A n \in DOMAIN FindingsOf(emitted[k]) :
        \E i \in FlowCalls : Gives(i, k, n)

AllReported == \A p \in 1 .. taken : \E i \in PacketCalls : calls[i].subject = p

FailedCallIsLast == \A i \in DOMAIN calls : ~calls[i].returned => i = Len(calls)

(* Flow findings are delivered at most once each, in the order the manager   *)
(* handed their windows out, volume before control, without a gap: what was  *)
(* given before a call is exactly what was owed before its finding.  Packet  *)
(* findings come likewise, one per packet in the order of the source.  A     *)
(* consumer that raised is the last one called: neither it nor the other one *)
(* hears of anything after that, not even while the session ends.            *)
FlowCallsInOrder ==
    \A i \in FlowCalls : \E k \in DOMAIN emitted : \E n \in DOMAIN FindingsOf(emitted[k]) :
        /\ Gives(i, k, n)
        /\ \A j \in DOMAIN emitted : \A m \in DOMAIN FindingsOf(emitted[j]) :
               GivenBefore(i, j, m) <=> OwedBefore(j, m, k, n)

PacketCallsInOrder ==
    \A i \in PacketCalls :
        /\ calls[i].subject \in 1 .. taken
        /\ \A p \in 1 .. taken :
               (\E j \in PacketCalls : j < i /\ calls[j].subject = p) <=> p < calls[i].subject

DeliveredInOrder == FlowCallsInOrder /\ PacketCallsInOrder /\ FailedCallIsLast

(* No packet is asked of the source while anything is undelivered: the       *)
(* packet's own finding came first, then all windows its admission closed.   *)
Backpressure == pc = "next" => AllGiven /\ AllReported /\ error = "none"

(* A packet whose own finding was not delivered, because its detection or    *)
(* the packet consumer raised or because its turn has not come, holds back   *)
(* every flow finding: no window is reported before it, nor ever after.      *)
Unreported ==
    \E p \in 1 .. taken : \A i \in PacketCalls : calls[i].subject = p => ~calls[i].returned

NoFlowBeforePacket ==
    [][Unreported /\ calls' # calls => calls'[Len(calls')].consumer = "packet"]_allVars

(* When the stream is over, the source was stopped exactly once, the session *)
(* has ended, and no window is left open; every window ever handed out was   *)
(* delivered in full unless a packet or flow delivery failed: an error of    *)
(* the source, of admission or of stop() costs no prior window; and a stream *)
(* that ends without an error is one in which no consumer raised.            *)
DeliveryFailed ==
    \/ packetDeliveryFailed
    \/ downstreamFailed
    \/ error \in {"delivery", "detection"}

EverythingDelivered ==
    pc = "done" =>
        /\ stops = 1 /\ ended /\ DOMAIN active = {}
        /\ ~DeliveryFailed => AllGiven /\ AllReported
        /\ error = "none" => \A i \in DOMAIN calls : calls[i].returned
=============================================================================
