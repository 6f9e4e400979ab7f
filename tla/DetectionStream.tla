---------------------------- MODULE DetectionStream ----------------------------
(***************************************************************************)
(* run_detection_stream of application/detection_pipeline.py with the      *)
(* loops it is built from: consume() over the packet source,               *)
(* _run_flow_observation_session around the window manager, and the        *)
(* callers' two finding consumers.                                         *)
(*                                                                         *)
(* One thread of control runs through pc; every call into code the stream  *)
(* does not own (source, detectors, consumers) may raise, and so may the   *)
(* manager's record().  pc:                                                *)
(*   start -> next -> detect -> packetCall -> admit -> recording ->        *)
(*   closing <-> flowCall -> next ... stop -> finalize -> closing -> done  *)
(***************************************************************************)
EXTENDS FlowWindows

CONSTANTS TcpFlows,        \* flows of protocol 6
          IcmpFlows,       \* flows of protocol 1 and 58; the others are UDP
          MaxPackets       \* bound: packets the source yields

ASSUME ProtocolAssumption == TcpFlows \subseteq Flows /\ IcmpFlows \subseteq Flows \ TcpFlows
ASSUME MaxPacketsAssumption == MaxPackets \in Nat

VARIABLES pc,                      \* the statement the stream is at
          tcpConfigured,           \* tcp_control_configuration is not None
          packet,                  \* the outcome being handled
          taken,                   \* packets taken from the source
          packetDeliveryFailed,    \* packet_delivery_failed
          downstreamFailed,        \* downstream_delivery_failed
          queue,                   \* closed windows of the loop in progress
          batch,                   \* findings of the head of queue still to deliver
          error,                   \* the exception on its way out, if any
          calls,                   \* history: every consumer call, in order
          stops                    \* history: calls of source.stop()

inputVars == <<tcpConfigured, packet, taken>>
streamVars == <<pc, inputVars, packetDeliveryFailed, downstreamFailed,
                queue, batch, error, calls, stops>>
allVars == <<vars, streamVars>>

Packets == [flow : Flows, time : Times, analysed : BOOLEAN]

StreamInit ==
    /\ Init
    /\ pc = "start"
    /\ tcpConfigured \in BOOLEAN
    /\ packet = "none"
    /\ taken = 0
    /\ packetDeliveryFailed = FALSE
    /\ downstreamFailed = FALSE
    /\ queue = <<>>
    /\ batch = <<>>
    /\ error = "none"
    /\ calls = <<>>
    /\ stops = 0

-----------------------------------------------------------------------------
(* run_closed_flow_detectors: what it returns for a closed window.           *)
FindingsOf(w) ==
    IF w.flow \in IcmpFlows THEN <<>>
    ELSE IF w.flow \in TcpFlows THEN <<"volume", "control">>
    ELSE <<"volume">>

Detectable(w) == w.flow \in TcpFlows => tcpConfigured

(* An exception inside the loop over the source: consume()'s finally next.   *)
Raise(kind) == error' = kind /\ pc' = "stop"

LogCall(consumer, subject, finding, returned) ==
    calls' = Append(calls, [consumer |-> consumer, subject |-> subject,
                            finding |-> finding, returned |-> returned])

-----------------------------------------------------------------------------
(* consume(): start, the loop over the source, stop in the finally clause.   *)
StartSource ==
    /\ pc = "start"
    /\ pc' = "next"
    /\ UNCHANGED <<vars, inputVars, packetDeliveryFailed, downstreamFailed,
                   queue, batch, error, calls, stops>>

StartRaises ==
    /\ pc = "start"
    /\ Raise("capture")
    /\ UNCHANGED <<vars, inputVars, packetDeliveryFailed, downstreamFailed,
                   queue, batch, calls, stops>>

(* The next observation and its analysis outcome, analysed or classified.    *)
TakePacket(p) ==
    /\ pc = "next"
    /\ taken < MaxPackets
    /\ taken' = taken + 1
    /\ packet' = p
    /\ pc' = "detect"
    /\ UNCHANGED <<vars, tcpConfigured, packetDeliveryFailed, downstreamFailed,
                   queue, batch, error, calls, stops>>

(* The source, or the analysis of its observation, raised.                   *)
TakeRaises ==
    /\ pc = "next"
    /\ Raise("capture")
    /\ UNCHANGED <<vars, inputVars, packetDeliveryFailed, downstreamFailed,
                   queue, batch, calls, stops>>

Exhausted ==
    /\ pc = "next"
    /\ pc' = "stop"
    /\ UNCHANGED <<vars, inputVars, packetDeliveryFailed, downstreamFailed,
                   queue, batch, error, calls, stops>>

-----------------------------------------------------------------------------
(* receive_outcome(): the packet detectors and the packet consumer, whose    *)
(* failure is remembered, then admission.                                    *)
DetectPacket ==
    /\ pc = "detect"
    /\ pc' = "packetCall"
    /\ UNCHANGED <<vars, inputVars, packetDeliveryFailed, downstreamFailed,
                   queue, batch, error, calls, stops>>

DetectPacketRaisesUnnoted ==
    /\ pc = "detect"
    /\ Raise("detection")
    /\ UNCHANGED <<vars, inputVars, packetDeliveryFailed, downstreamFailed,
                   queue, batch, calls, stops>>

DetectPacketRaises ==
    /\ pc = "detect"
    /\ packetDeliveryFailed' = TRUE
    /\ Raise("detection")
    /\ UNCHANGED <<vars, inputVars, downstreamFailed, queue, batch, calls, stops>>

PacketCallReturns ==
    /\ pc = "packetCall"
    /\ LogCall("packet", taken, "integrity", TRUE)
    /\ pc' = "admit"
    /\ UNCHANGED <<vars, inputVars, packetDeliveryFailed, downstreamFailed,
                   queue, batch, error, stops>>

PacketCallRaises ==
    /\ pc = "packetCall"
    /\ LogCall("packet", taken, "integrity", FALSE)
    /\ packetDeliveryFailed' = TRUE
    /\ Raise("delivery")
    /\ UNCHANGED <<vars, inputVars, downstreamFailed, queue, batch, stops>>

(* record_analysis(None) returns at once.                                    *)
SkipUnanalysed ==
    /\ pc = "admit"
    /\ ~packet.analysed
    /\ pc' = "next"
    /\ UNCHANGED <<vars, inputVars, packetDeliveryFailed, downstreamFailed,
                   queue, batch, error, calls, stops>>

Admit ==
    /\ pc = "admit"
    /\ packet.analysed
    /\ Record(packet.flow, packet.time)
    /\ pc' = "recording"
    /\ UNCHANGED <<inputVars, packetDeliveryFailed, downstreamFailed,
                   queue, batch, error, calls, stops>>

AdmitRefused ==
    /\ pc = "admit"
    /\ packet.analysed
    /\ RefuseRecord(packet.time)
    /\ Raise("admission")
    /\ UNCHANGED <<inputVars, packetDeliveryFailed, downstreamFailed,
                   queue, batch, calls, stops>>

AdmitRaises ==
    /\ pc = "recording"
    /\ FailRecord
    /\ Raise("admission")
    /\ UNCHANGED <<inputVars, packetDeliveryFailed, downstreamFailed,
                   queue, batch, calls, stops>>

NewlyEmitted == SubSeq(emitted', Len(emitted) + 1, Len(emitted'))

AdmittedUndelivered ==
    /\ pc = "recording"
    /\ PublishContinue \/ PublishNew
    /\ pc' = "next"
    /\ UNCHANGED <<inputVars, packetDeliveryFailed, downstreamFailed,
                   queue, batch, error, calls, stops>>

Admitted ==
    /\ pc = "recording"
    /\ PublishContinue \/ PublishNew
    /\ queue' = NewlyEmitted
    /\ pc' = "closing"
    /\ UNCHANGED <<inputVars, packetDeliveryFailed, downstreamFailed,
                   batch, error, calls, stops>>

-----------------------------------------------------------------------------
(* detect_closed_window(), called for each closed window by record_analysis  *)
(* while the source runs and by the finally clause of the session after it.  *)
DeliveryRaises(kind) ==
    /\ error' = kind
    /\ queue' = <<>>
    /\ batch' = <<>>
    /\ downstreamFailed' = (downstreamFailed \/ ~ended)
    /\ pc' = IF ended THEN "done" ELSE "stop"

SuppressWindow ==
    /\ pc = "closing"
    /\ queue # <<>>
    /\ packetDeliveryFailed
    /\ queue' = Tail(queue)
    /\ UNCHANGED <<vars, pc, inputVars, packetDeliveryFailed, downstreamFailed,
                   batch, error, calls, stops>>

(* The whole batch of the window is computed before the first callback.      *)
DetectWindow ==
    /\ pc = "closing"
    /\ queue # <<>>
    /\ ~packetDeliveryFailed
    /\ Detectable(Head(queue))
    /\ batch' = FindingsOf(Head(queue))
    /\ pc' = "flowCall"
    /\ UNCHANGED <<vars, inputVars, packetDeliveryFailed, downstreamFailed,
                   queue, error, calls, stops>>

DetectWindowRaises ==
    /\ pc = "closing"
    /\ queue # <<>>
    /\ ~packetDeliveryFailed
    /\ DeliveryRaises("detection")
    /\ UNCHANGED <<vars, inputVars, packetDeliveryFailed, calls, stops>>

FlowCallReturns ==
    /\ pc = "flowCall"
    /\ batch # <<>>
    /\ LogCall("flow", Head(queue).seq, Head(batch), TRUE)
    /\ batch' = Tail(batch)
    /\ UNCHANGED <<vars, pc, inputVars, packetDeliveryFailed, downstreamFailed,
                   queue, error, stops>>

FlowCallRaises ==
    /\ pc = "flowCall"
    /\ batch # <<>>
    /\ LogCall("flow", Head(queue).seq, Head(batch), FALSE)
    /\ DeliveryRaises("delivery")
    /\ UNCHANGED <<vars, inputVars, packetDeliveryFailed, stops>>

WindowDeliveredAndKept ==
    /\ pc = "flowCall"
    /\ batch = <<>>
    /\ pc' = "closing"
    /\ UNCHANGED <<vars, inputVars, packetDeliveryFailed, downstreamFailed,
                   queue, batch, error, calls, stops>>

WindowDelivered ==
    /\ pc = "flowCall"
    /\ batch = <<>>
    /\ queue' = Tail(queue)
    /\ pc' = "closing"
    /\ UNCHANGED <<vars, inputVars, packetDeliveryFailed, downstreamFailed,
                   batch, error, calls, stops>>

QueueDelivered ==
    /\ pc = "closing"
    /\ queue = <<>>
    /\ pc' = IF ended THEN "done" ELSE "next"
    /\ UNCHANGED <<vars, inputVars, packetDeliveryFailed, downstreamFailed,
                   queue, batch, error, calls, stops>>

-----------------------------------------------------------------------------
(* The two finally clauses: source.stop(), whose exception replaces the one  *)
(* under way, then the end of the capture session.                           *)
StopSource ==
    /\ pc = "stop"
    /\ stops' = stops + 1
    /\ pc' = "finalize"
    /\ error' \in {error, "stop"}
    /\ UNCHANGED <<vars, inputVars, packetDeliveryFailed, downstreamFailed,
                   queue, batch, calls>>

FinalizeOnlyIfClean ==
    /\ pc = "finalize"
    /\ EndSession
    /\ queue' = IF downstreamFailed \/ error # "none" THEN <<>> ELSE NewlyEmitted
    /\ pc' = "closing"
    /\ UNCHANGED <<inputVars, packetDeliveryFailed, downstreamFailed,
                   batch, error, calls, stops>>

Finalize ==
    /\ pc = "finalize"
    /\ EndSession
    /\ queue' = IF downstreamFailed THEN <<>> ELSE NewlyEmitted
    /\ pc' = "closing"
    /\ UNCHANGED <<inputVars, packetDeliveryFailed, downstreamFailed,
                   batch, error, calls, stops>>

(* run_detection_stream() returned or raised; nothing runs any more.         *)
Returned == pc = "done" /\ UNCHANGED allVars

StreamNext ==
    \/ StartSource \/ StartRaises
    \/ (\E p \in Packets : TakePacket(p)) \/ TakeRaises \/ Exhausted
    \/ DetectPacket \/ DetectPacketRaises
    \/ PacketCallReturns \/ PacketCallRaises
    \/ SkipUnanalysed \/ Admit \/ AdmitRefused \/ AdmitRaises \/ Admitted
    \/ SuppressWindow \/ DetectWindow \/ DetectWindowRaises
    \/ FlowCallReturns \/ FlowCallRaises \/ WindowDelivered \/ QueueDelivered
    \/ StopSource \/ Finalize
    \/ Returned

StreamSpec == StreamInit /\ [][StreamNext]_allVars
=============================================================================
