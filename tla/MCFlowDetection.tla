---------------------------- MODULE MCFlowDetection ----------------------------
(* An instance of FlowDetection for TLC: every metric at a threshold that    *)
(* windows of three packets reach and miss.                                  *)
EXTENDS FlowDetection, MCFlowAccumulation

VolumeThreshold(metric) ==
  CASE metric.part = "packet_count" /\ metric.of = "second" -> 0
    [] metric.part = "packet_count" /\ metric.of # "second" -> 1
    [] metric.part # "packet_count" /\ metric.of = "second" -> 45
    [] OTHER -> 110

NoControl == [volume |-> [metric |-> [part |-> "packet_count", of |-> "all"], threshold |-> 1],
              control |-> None]

MCConfigurations ==
  {NoControl}
    \cup {[volume |-> [metric |-> m, threshold |-> VolumeThreshold(m)],
           control |-> [metric |-> [direction |-> "forward", flag |-> "ack"], threshold |-> 1]]
            : m \in VolumeMetrics}
    \cup {[volume |-> [metric |-> [part |-> "captured", of |-> "second"], threshold |-> 30],
           control |-> [metric |-> m, threshold |-> 0]]
            : m \in {c \in ControlMetrics : c.flag \in {"syn", "syn_ack", "psh", "ece"}}}

MCWindows ==
  TCPFrames \cup {[Plain EXCEPT !.ip.ihl = 4]}
    \cup At(Datagram(<<>>, 17, 8, 8, 1), {0}) \cup At(Back(Datagram(<<>>, 17, 12, 10, 2)), {0, 1})
    \cup At(Message(8, 0), {0, 2})
=============================================================================
