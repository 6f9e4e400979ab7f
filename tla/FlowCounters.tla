---------------------------- MODULE FlowCounters ----------------------------
(***************************************************************************)
(* The packet accumulators of one flow: volume, volume per direction,      *)
(* packet sizes, intervals between packets, intervals per direction and    *)
(* TCP control flags (flow_statistics.py,                                  *)
(* directional_flow_statistics.py, flow_packet_size_statistics.py,         *)
(* flow_inter_arrival_statistics.py,                                       *)
(* directional_inter_arrival_statistics.py, tcp_control_statistics.py).    *)
(*                                                                         *)
(* Every accumulator is an immutable value, so each one is here an empty   *)
(* value (the None the code starts from), a predicate telling which        *)
(* packets its update refuses with an exception, the update, and the       *)
(* checks of its __post_init__.  Times are integers: the code adds up the  *)
(* same intervals as floating point seconds.                               *)
(***************************************************************************)
EXTENDS Integers

CONSTANT None    \* Python's None: a length that is not known, a time not yet set

One(condition) == IF condition THEN 1 ELSE 0

Directions == {"forward", "reverse"}

Lengths == {"captured", "original"}

TCPFlags == {"ns", "cwr", "ece", "urg", "ack", "psh", "rst", "syn", "fin"}

-----------------------------------------------------------------------------
(* A running summary: how many values, their sum, their sum of squares and *)
(* their extrema, which are zero while there is no value.                  *)

Samples == [count : Nat, total : Int, squares : Int, least : Int, greatest : Int]

NoSamples == [count |-> 0, total |-> 0, squares |-> 0, least |-> 0, greatest |-> 0]

Sampled(a, x) ==
  [count |-> a.count + 1, total |-> a.total + x, squares |-> a.squares + x * x,
   least |-> IF a.count = 0 \/ x < a.least THEN x ELSE a.least,
   greatest |-> IF a.count = 0 \/ x > a.greatest THEN x ELSE a.greatest]

SamplesValid(a) ==
  /\ \A part \in DOMAIN a : a[part] >= 0
  /\ a.least <= a.greatest
  /\ a.count = 0 => a = NoSamples

-----------------------------------------------------------------------------
(* FlowStatistics                                                          *)

FlowVolumes == [packet_count : Nat, captured : Int, original : Int, first : Int, last : Int]

NoFlowStatistics ==
  [packet_count |-> 0, captured |-> 0, original |-> 0, first |-> None, last |-> None]

FlowStatisticsRefuse(s, o) ==
  \/ o.original = None
  \/ s.packet_count > 0 /\ o.at < s.first

FlowStatisticsUpdated(s, o) ==
  [packet_count |-> s.packet_count + 1,
   captured |-> s.captured + o.captured, original |-> s.original + o.original,
   first |-> IF s.packet_count = 0 THEN o.at ELSE s.first, last |-> o.at]

FlowStatisticsValid(s) ==
  /\ s.packet_count >= 1
  /\ 0 <= s.captured /\ s.captured <= s.original
  /\ s.first <= s.last

(* DirectionalFlowStatistics                                               *)

DirectionalVolumes == [Directions -> [packet_count : Nat, captured : Int, original : Int]]

NoDirectionalStatistics ==
  [d \in Directions |-> [packet_count |-> 0, captured |-> 0, original |-> 0]]

DirectionalStatisticsUpdated(s, o, d) ==
  [s EXCEPT ![d] = [packet_count |-> @.packet_count + 1,
                    captured |-> @.captured + o.captured,
                    original |-> @.original + o.original]]

DirectionalStatisticsValid(s) ==
  \A d \in Directions : /\ s[d].packet_count >= 0
                        /\ 0 <= s[d].captured /\ s[d].captured <= s[d].original

-----------------------------------------------------------------------------
(* FlowPacketSizeStatistics: a summary of the captured and of the original *)
(* lengths, of all the packets and of each direction.                      *)

PacketSizes == [Directions \cup {"all"} -> [Lengths -> Samples]]

NoPacketSizes == [scope \in Directions \cup {"all"} |-> [l \in Lengths |-> NoSamples]]

PacketSizesRefuse(o) == o.original = None

PacketSizesUpdated(s, o, d) ==
  [scope \in DOMAIN s |->
     IF scope \in {"all", d} THEN [l \in Lengths |-> Sampled(s[scope][l], o[l])]
     ELSE s[scope]]

PacketSizesValid(s) ==
  /\ s["all"]["captured"].count >= 1
  /\ \A scope \in DOMAIN s :
       /\ \A l \in Lengths : SamplesValid(s[scope][l])
       /\ s[scope]["captured"].total <= s[scope]["original"].total

-----------------------------------------------------------------------------
(* FlowInterArrivalStatistics                                              *)

Intervals == [packet_count : Nat, first : Int, last : Int, gaps : Samples]

NoIntervals == [packet_count |-> 0, first |-> None, last |-> None, gaps |-> NoSamples]

IntervalsRefuse(s, o) == s.packet_count > 0 /\ o.at - s.last < 0

IntervalsUpdated(s, o) ==
  IF s.packet_count = 0
  THEN [packet_count |-> 1, first |-> o.at, last |-> o.at, gaps |-> NoSamples]
  ELSE [s EXCEPT !.packet_count = @ + 1, !.last = o.at,
                 !.gaps = Sampled(@, o.at - s.last)]

IntervalsValid(s) ==
  /\ s.packet_count >= 1
  /\ s.gaps.count = s.packet_count - 1
  /\ s.first <= s.last
  /\ SamplesValid(s.gaps)

(* DirectionalInterArrivalStatistics: an interval is between two packets   *)
(* of the same direction.                                                  *)

DirectionalIntervals ==
  [packet_count : Nat, first : Int, last : Int, latest : [Directions -> Int \cup {None}],
   gaps : [Directions -> Samples]]

NoDirectionalIntervals ==
  [packet_count |-> 0, first |-> None, last |-> None,
   latest |-> [d \in Directions |-> None], gaps |-> [d \in Directions |-> NoSamples]]

DirectionalIntervalsRefuse(s, o) == s.packet_count > 0 /\ o.at < s.last

\* A plausible mistake: the interval is taken from the packet before, of
\* whichever direction.
DirectionalIntervalsFromLast(s, o, d) ==
  [packet_count |-> s.packet_count + 1,
   first |-> IF s.packet_count = 0 THEN o.at ELSE s.first, last |-> o.at,
   latest |-> [s.latest EXCEPT ![d] = o.at],
   gaps |-> IF s.latest[d] = None THEN s.gaps
            ELSE [s.gaps EXCEPT ![d] = Sampled(@, o.at - s.last)]]

DirectionalIntervalsUpdated(s, o, d) ==
  [packet_count |-> s.packet_count + 1,
   first |-> IF s.packet_count = 0 THEN o.at ELSE s.first, last |-> o.at,
   latest |-> [s.latest EXCEPT ![d] = o.at],
   gaps |-> IF s.latest[d] = None THEN s.gaps
            ELSE [s.gaps EXCEPT ![d] = Sampled(@, o.at - s.latest[d])]]

Observed(s) == {d \in Directions : s.latest[d] # None}

DirectionalIntervalsValid(s) ==
  /\ s.packet_count >= 1
  /\ s.first <= s.last
  /\ \A d \in Directions :
       /\ SamplesValid(s.gaps[d])
       /\ IF d \in Observed(s) THEN s.first <= s.latest[d] /\ s.latest[d] <= s.last
          ELSE s.gaps[d].count = 0
  /\ s.gaps["forward"].count + s.gaps["reverse"].count
       = s.packet_count - One("forward" \in Observed(s)) - One("reverse" \in Observed(s))

-----------------------------------------------------------------------------
(* TCPControlStatistics: the packets of each direction that carry a flag,  *)
(* and those that carry both SYN and ACK.                                  *)

TCPControls ==
  [packet_count : Nat,
   direction : [Directions -> [packet_count : Nat, syn_ack : Nat, flag : [TCPFlags -> Nat]]]]

NoTCPControl ==
  [packet_count |-> 0,
   direction |-> [d \in Directions |-> [packet_count |-> 0, syn_ack |-> 0,
                                        flag |-> [f \in TCPFlags |-> 0]]]]

TCPControlUpdated(s, flags, d) ==
  [packet_count |-> s.packet_count + 1,
   direction |->
     [s.direction EXCEPT ![d] =
        [packet_count |-> @.packet_count + 1,
         syn_ack |-> @.syn_ack + One({"syn", "ack"} \subseteq flags),
         flag |-> [f \in TCPFlags |-> @.flag[f] + One(f \in flags)]]]]

TCPControlValid(s) ==
  /\ s.packet_count >= 1
  /\ s.direction["forward"].packet_count + s.direction["reverse"].packet_count
       = s.packet_count
  /\ \A d \in Directions :
       /\ \A f \in TCPFlags : s.direction[d].flag[f] \in 0..s.direction[d].packet_count
       /\ \A f \in {"syn", "ack"} : s.direction[d].syn_ack \in 0..s.direction[d].flag[f]
=============================================================================
