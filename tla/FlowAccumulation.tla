-------------------------- MODULE FlowAccumulation --------------------------
(***************************************************************************)
(* Frames of a capture decoded and recorded in one FlowStateCoordinator    *)
(* (flow_state_coordinator.py): every accumulator of FlowCounters and      *)
(* HeaderCounters is updated from the decoded packet, and only if none of  *)
(* them refuses it and the new values agree with one another is the new    *)
(* state taken.  Beside the flow runs the count of the IPv4 fragments of   *)
(* the capture (capture_fragmentation.py), which belongs to no flow.       *)
(***************************************************************************)
EXTENDS HeaderCounters, FiniteSetsExt

CONSTANTS
  Frames,        \* the frames that a capture can hold
  MaxPackets     \* bound: frames of a capture

Decoding == INSTANCE PacketDecoding

\* A fragment offset is a field of 13 bits, without a sign.
ASSUME OffsetAssumption ==
  \A f \in Frames : Decoding!CountsAsIPv4(f) => Decoding!Network(f).fragment_offset \in Nat

\* The header fields of a frame that decodes are numbers, which its bytes spell.
OptionFields == [kind : 0..255, length : Nat, value : Nat \cup {None}]

ExtensionFields ==
  [next : 0..255, length : Nat, fragment_offset : Nat, more : BOOLEAN,
   reserved : Nat, reserved_bits : Nat]

NetworkFields(f) ==
  IF Decoding!EtherType(f) = "IPv4"
  THEN {f.ip.ihl, f.ip.total_length, f.ip.ttl, f.ip.dscp, f.ip.ecn} \subseteq Nat
  ELSE /\ {f.ip.payload_length, f.ip.next_header, f.ip.hop_limit, f.ip.traffic_class,
           f.ip.flow_label} \subseteq Nat
       /\ f.ip.headers \in Seq(ExtensionFields)

TransportFields(f) ==
  LET protocol == Decoding!Protocol(f)
  IN /\ protocol = 6 =>
          /\ f.transport.data_offset \in Nat /\ f.transport.options \in Seq(OptionFields)
          /\ \A i \in DOMAIN f.transport.options :
               f.transport.options[i].kind \in {2, 3} => f.transport.options[i].value \in Nat
     /\ protocol = 17 => f.transport.length \in Nat
     /\ protocol \in {1, 58} => {f.transport.type, f.transport.code} \subseteq Nat

ASSUME FieldsAssumption ==
  \A f \in Frames : Decoding!Outcome(f) = "analyzed" =>
    /\ f.at \in Int /\ f.bytes \in Nat /\ f.original \in Nat \cup {None}
    /\ NetworkFields(f)
    /\ Decoding!TransportDecoded(f) => TransportFields(f)

VARIABLES
  state,         \* the CoordinatedFlowState, or None before the first packet
  fragments,     \* the IPv4FragmentationStatistics of the capture
  outcome,       \* what became of the last frame
  accepted,      \* history: the packets the flow took
  refused,       \* history: the packet of the last frame, if the flow refused it
  seen           \* history: the frames of the capture

vars == <<state, fragments, outcome, accepted, refused, seen>>

TCP == 6
UDP == 17
ICMP == {1, 58}

\* CoordinatedFlowState: what a flow has accumulated.
HeaderStates ==
  [hop_limit : Bins, traffic_class : Bins, flow_label : FlowLabels, ipv4 : IPv4Headers,
   extension : ExtensionHeaders, fragment : IPv6Fragments, udp : Datagrams, icmp : Bins,
   options : TCPOptions]

CoordinatedStates ==
  [identity : {Decoding!Identity(f) : f \in {g \in Frames : Decoding!Outcome(g) = "analyzed"}},
   flow : FlowVolumes, directional : DirectionalVolumes, sizes : PacketSizes,
   intervals : Intervals, directional_intervals : DirectionalIntervals,
   control : TCPControls \cup {None}, headers : [Directions -> HeaderStates],
   icmp_protocol : ICMP \cup {None}]

\* None is no number, no state of a flow and no failure of a decoder.
ASSUME NoneAssumption ==
  /\ None \notin Int /\ None \notin CoordinatedStates
  /\ None \notin Decoding!UnsupportedMessages \cup Decoding!IncompleteMessages
                  \cup Decoding!StructuralMessages

\* No message is in two of the lists of _classify_known_failure that stand for
\* an unsupported packet and for one that is cut or malformed.
ASSUME MessagesAssumption ==
  Decoding!UnsupportedMessages
    \cap (Decoding!IncompleteMessages \cup Decoding!StructuralMessages) = {}

\* The statistics of a direction start from their defaults.
NoHeaders ==
  [hop_limit |-> NoBins, traffic_class |-> NoBins, flow_label |-> NoFlowLabels,
   ipv4 |-> NoIPv4Headers, extension |-> NoExtensionHeaders, fragment |-> NoIPv6Fragments,
   udp |-> NoDatagrams, icmp |-> NoBins, options |-> NoTCPOptions]

Empty(identity) ==
  [identity |-> identity,
   flow |-> NoFlowStatistics, directional |-> NoDirectionalStatistics,
   sizes |-> NoPacketSizes, intervals |-> NoIntervals,
   directional_intervals |-> NoDirectionalIntervals,
   control |-> IF identity.protocol = TCP THEN NoTCPControl ELSE None,
   headers |-> [d \in Directions |-> NoHeaders],
   icmp_protocol |-> None]

Current(p) == IF state = None THEN Empty(p.identity) ELSE state

\* The header statistics of the direction a packet goes.
HeadersUpdated(h, p) ==
  LET IPv4 == p.ip.version = 4
      Protocol == p.identity.protocol
  IN [hop_limit |-> HopLimitsUpdated(h.hop_limit, p.ip),
      traffic_class |-> IF IPv4 THEN h.traffic_class
                        ELSE TrafficClassesUpdated(h.traffic_class, p.ip),
      flow_label |-> IF IPv4 THEN h.flow_label ELSE FlowLabelsUpdated(h.flow_label, p.ip),
      ipv4 |-> IF IPv4 THEN IPv4HeadersUpdated(h.ipv4, p.ip) ELSE h.ipv4,
      extension |-> IF IPv4 THEN h.extension ELSE ExtensionHeadersUpdated(h.extension, p.ip),
      fragment |-> IF IPv4 THEN h.fragment ELSE IPv6FragmentsUpdated(h.fragment, p.ip),
      udp |-> IF Protocol = UDP THEN DatagramsUpdated(h.udp, p) ELSE h.udp,
      icmp |-> IF Protocol \in ICMP THEN ICMPUpdated(h.icmp, p.transport) ELSE h.icmp,
      options |-> IF Protocol = TCP THEN TCPOptionsUpdated(h.options, p.transport)
                  ELSE h.options]

Updated(s, p) ==
  LET o == p.observation
      d == p.direction
  IN [identity |-> s.identity,
      flow |-> FlowStatisticsUpdated(s.flow, o),
      directional |-> DirectionalStatisticsUpdated(s.directional, o, d),
      sizes |-> PacketSizesUpdated(s.sizes, o, d),
      intervals |-> IntervalsUpdated(s.intervals, o),
      directional_intervals |-> DirectionalIntervalsUpdated(s.directional_intervals, o, d),
      control |-> IF s.identity.protocol = TCP
                  THEN TCPControlUpdated(s.control, p.transport.flags, d) ELSE None,
      headers |-> [s.headers EXCEPT ![d] = HeadersUpdated(@, p)],
      icmp_protocol |-> IF s.identity.protocol \in ICMP THEN s.identity.protocol
                        ELSE s.icmp_protocol]

\* Some update raises an exception at this packet.
Refuse(s, p) ==
  \/ s.identity # p.identity
  \/ FlowStatisticsRefuse(s.flow, p.observation)
  \/ PacketSizesRefuse(p.observation)
  \/ IntervalsRefuse(s.intervals, p.observation)
  \/ DirectionalIntervalsRefuse(s.directional_intervals, p.observation)

HeadersRefuse(s, p) ==
  \/ HopLimitRefuses(p.ip)
  \/ p.ip.version = 4 /\ IPv4HeaderRefuses(p.ip)
  \/ /\ p.ip.version = 6
     /\ \/ TrafficClassRefuses(p.ip) \/ FlowLabelRefuses(p.ip)
        \/ ChainRefuses(p.ip) \/ FragmentHeadersRefuse(p.ip)
  \/ p.identity.protocol = TCP /\ TCPOptionsRefuse(p.transport)
  \/ p.identity.protocol = UDP /\ UDPRefuses(p)
  \/ p.identity.protocol \in ICMP /\ ICMPRefuses(p.transport)
  \/ s.icmp_protocol \notin {None, p.identity.protocol}

-----------------------------------------------------------------------------
(* The checks of __post_init__: each value for itself, and the values of   *)
(* one CoordinatedFlowState against one another.                           *)

HeadersValid(h) ==
  /\ HopLimitsValid(h.hop_limit) /\ TrafficClassesValid(h.traffic_class)
  /\ FlowLabelsValid(h.flow_label) /\ IPv4HeadersValid(h.ipv4)
  /\ ExtensionHeadersValid(h.extension) /\ IPv6FragmentsValid(h.fragment)
  /\ DatagramsValid(h.udp) /\ ICMPValid(h.icmp) /\ TCPOptionsValid(h.options)

ValuesValid(s) ==
  /\ FlowStatisticsValid(s.flow) /\ DirectionalStatisticsValid(s.directional)
  /\ PacketSizesValid(s.sizes) /\ IntervalsValid(s.intervals)
  /\ DirectionalIntervalsValid(s.directional_intervals)
  /\ s.control # None => TCPControlValid(s.control)
  /\ \A d \in Directions : HeadersValid(s.headers[d])
  /\ (s.icmp_protocol = None) <=> (\A d \in Directions : s.headers[d].icmp = NoBins)

CountsAgree(s) ==
  LET packets == s.flow.packet_count
  IN /\ s.sizes["all"]["captured"].count = packets
     /\ s.intervals.packet_count = packets
     /\ s.directional_intervals.packet_count = packets
     /\ s.control # None => s.control.packet_count = packets
     /\ s.directional["forward"].packet_count + s.directional["reverse"].packet_count = packets
     /\ \A d \in Directions :
          /\ s.sizes[d]["captured"].count = s.directional[d].packet_count
          /\ s.control # None =>
               s.control.direction[d].packet_count = s.directional[d].packet_count
          /\ s.directional_intervals.gaps[d].count
               + One(s.directional_intervals.latest[d] # None) = s.directional[d].packet_count

TotalsAgree(s) ==
  /\ \A l \in Lengths :
       /\ s.sizes["all"][l].total = s.flow[l]
       /\ s.directional["forward"][l] + s.directional["reverse"][l] = s.flow[l]
       /\ \A d \in Directions : s.sizes[d][l].total = s.directional[d][l]
  /\ \A value \in {s.intervals, s.directional_intervals} :
       value.first = s.flow.first /\ value.last = s.flow.last

CoordinatedValid(s) ==
  /\ (s.identity.protocol = TCP) <=> (s.control # None)
  /\ CountsAgree(s) /\ TotalsAgree(s)

-----------------------------------------------------------------------------
Init ==
  /\ state = None
  /\ fragments = NoFragments
  /\ outcome = "none"
  /\ accepted = <<>>
  /\ refused = None
  /\ seen = <<>>

\* The fragments of the capture are counted before the flow sees the packet.
CountFragment(f) ==
  IF Decoding!CountsAsIPv4(f)
  THEN fragments' = FragmentsUpdated(fragments, Decoding!Network(f))
  ELSE UNCHANGED fragments

\* A frame that has no analysis does not reach the flow.
Undecoded(f) ==
  /\ Decoding!Outcome(f) # "analyzed"
  /\ outcome' = Decoding!Outcome(f)
  /\ refused' = None
  /\ UNCHANGED <<state, accepted>>

\* flow_identity_from_packet raises an exception.
WithoutIdentity(f) ==
  /\ Decoding!Outcome(f) = "analyzed" /\ ~Decoding!HasIdentity(f)
  /\ outcome' = "no identity"
  /\ refused' = None
  /\ UNCHANGED <<state, accepted>>

\* The coordinator takes a packet, or one of its updates, or of the checks of
\* what the updates made, raises an exception.
Verdict(s, p) ==
  CASE Refuse(s, p) -> "refused"
    [] ~Refuse(s, p) /\ HeadersRefuse(s, p) -> "header refused"
    [] ~Refuse(s, p) /\ ~HeadersRefuse(s, p)
         /\ \E new \in {Updated(s, p)} : ~(ValuesValid(new) /\ CoordinatedValid(new))
         -> "inconsistent"
    [] OTHER -> "recorded"

\* After an exception the coordinator has the state it had before.
Refused(f) ==
  /\ Decoding!Outcome(f) = "analyzed" /\ Decoding!HasIdentity(f)
  /\ refused' \in {Decoding!Packet(f)}
  /\ outcome' \in {Verdict(Current(refused'), refused')} \ {"recorded"}
  /\ UNCHANGED <<state, accepted>>

Record(f) ==
  /\ Decoding!Outcome(f) = "analyzed" /\ Decoding!HasIdentity(f)
  /\ \E p \in {Decoding!Packet(f)} :
       /\ Verdict(Current(p), p) = "recorded"
       /\ state' \in {Updated(Current(p), p)}
       /\ accepted' = Append(accepted, p)
  /\ outcome' = "recorded"
  /\ refused' = None

\* An exception that is not a classified failure ends the session.
Ended == outcome \notin {"none", "recorded", "unsupported", "incomplete",
                         "structural_failure", "integrity_failure"}

Observe(f) ==
  /\ ~Ended /\ Len(seen) < MaxPackets
  /\ seen' = Append(seen, f)
  /\ CountFragment(f)
  /\ Undecoded(f) \/ WithoutIdentity(f) \/ Refused(f) \/ Record(f)

Next == \E f \in Frames : Observe(f)

Spec == Init /\ [][Next]_vars

-----------------------------------------------------------------------------
(* What the accumulators stand for, in the packets that the flow took.     *)

Packets == DOMAIN accepted

Toward(d) == {i \in Packets : accepted[i].direction = d}

InScope(scope) == IF scope = "all" THEN Packets ELSE Toward(scope)

Length(i, l) == accepted[i].observation[l]

Time(i) == accepted[i].observation.at

\* Each packet of a set but the first, and the time since the one before it.
Gaps(S) ==
  {<<i, Time(i) - Time(Max({j \in S : j < i}))>> : i \in S \ {Min(S)}}

\* Whether a running summary is that of the values x of the pairs <<i, x>>.
Summarizes(a, pairs) ==
  LET values == {pair[2] : pair \in pairs}
  IN /\ a.count = Cardinality(pairs)
     /\ a.total = MapThenSumSet(LAMBDA pair : pair[2], pairs)
     /\ a.squares = MapThenSumSet(LAMBDA pair : pair[2] * pair[2], pairs)
     /\ pairs # {} => a.least = Min(values) /\ a.greatest = Max(values)

\* The volume, sizes, intervals and TCP flags that the accumulators hold are
\* those of the packets taken, of all of them and of each direction: six
\* values that are kept apart, each from the packet and its own past, by
\* flow_statistics.py, directional_flow_statistics.py,
\* flow_packet_size_statistics.py, flow_inter_arrival_statistics.py,
\* directional_inter_arrival_statistics.py and tcp_control_statistics.py.
CountersOfPackets ==
  state # None =>
    /\ \A scope \in Directions \cup {"all"}, l \in Lengths :
         Summarizes(state.sizes[scope][l], {<<i, Length(i, l)>> : i \in InScope(scope)})
    /\ state.flow.first = Time(1) /\ state.flow.last = Time(Len(accepted))
    /\ Summarizes(state.intervals.gaps, Gaps(Packets))
    /\ \A d \in Directions :
         /\ Toward(d) # {} => Summarizes(state.directional_intervals.gaps[d], Gaps(Toward(d)))
         /\ state.directional[d] =
              [packet_count |-> Cardinality(Toward(d)),
               captured |-> MapThenSumSet(LAMBDA i : Length(i, "captured"), Toward(d)),
               original |-> MapThenSumSet(LAMBDA i : Length(i, "original"), Toward(d))]
         /\ state.control # None =>
              LET carrying(F) == Cardinality({i \in Toward(d) : F \subseteq accepted[i].transport.flags})
              IN /\ \A f \in TCPFlags : state.control.direction[d].flag[f] = carrying({f})
                 /\ state.control.direction[d].syn_ack = carrying({"syn", "ack"})

\* Whether a histogram holds the values of the pairs <<packet, value>>.
Tallies(bins, pairs) ==
  /\ Total(bins) = Cardinality(pairs)
  /\ \A pair \in pairs :
       CountIn(bins, pair[2]) = Cardinality({other \in pairs : other[2] = pair[2]})

OfVersion(d, version) == {i \in Toward(d) : accepted[i].ip.version = version}

\* The pairs of one field of the IP header.
HeaderField(d, version, Field(_)) ==
  {<<i, Field(accepted[i].ip)>> : i \in OfVersion(d, version)}

\* The headers or options <<packet, place>> of the packets of a direction.
Places(d, version, Items(_)) ==
  UNION {{<<<<i, j>>, Items(accepted[i])[j]>> : j \in DOMAIN Items(accepted[i])}
         : i \in OfVersion(d, version)}

\* The options of a segment, of which none counts when one is malformed.
CountedOptions(p) ==
  IF \E j \in DOMAIN p.transport.options : Malformed(p.transport.options[j])
  THEN <<>> ELSE p.transport.options

ValuesOfOption(items, kind) ==
  {<<item[1], item[2].value>> : item \in {x \in items : x[2].kind = kind}}

\* The flow labels are counted exactly until a direction has shown more of
\* them than there are bins; from then on no bin is left and every packet is
\* still counted (ipv6_flow_label_statistics.py).
LabelsUntilSaturation ==
  state # None => \A d \in Directions :
    LET labels == HeaderField(d, 6, LAMBDA ip : ip.flow_label)
        s == state.headers[d].flow_label
    IN IF Cardinality({pair[2] : pair \in labels}) <= MaxLabelBins
       THEN Tallies(s.bins, labels) /\ s.saturated = 0
       ELSE s.bins = NoBins /\ s.saturated = Cardinality(labels)

\* The histograms of the headers of each direction are those of its packets:
\* updates that insert a bin between others, or count several headers or
\* options of one packet, leave none out and count none twice
\* (ip_hop_limit_statistics.py, ipv4_header_statistics.py,
\* ipv6_traffic_class_statistics.py, ipv6_extension_header_statistics.py,
\* icmp_statistics.py, tcp_option_statistics.py), and the labels saturate.
HistogramsOfPackets ==
  /\ LabelsUntilSaturation
  /\ state # None => \A d \in Directions :
    LET h == state.headers[d]
        Extension == Places(d, 6, LAMBDA p : p.ip.headers)
    IN /\ Tallies(h.hop_limit, HeaderField(d, 4, LAMBDA ip : ip.hop_limit)
                                 \cup HeaderField(d, 6, LAMBDA ip : ip.hop_limit))
       /\ Tallies(h.traffic_class, HeaderField(d, 6, LAMBDA ip : ip.traffic_class))
       /\ Tallies(h.ipv4.dscp, HeaderField(d, 4, LAMBDA ip : ip.dscp))
       /\ Tallies(h.ipv4.ecn, HeaderField(d, 4, LAMBDA ip : ip.ecn))
       /\ Tallies(h.extension.terminals, HeaderField(d, 6, Terminal))
       /\ Tallies(h.extension.types, {<<item[1], item[2].type>> : item \in Extension})
       /\ h.fragment.first + h.fragment.atomic
            = Cardinality({item \in Extension : item[2].type = 44})
       /\ state.identity.protocol \in ICMP =>
            Tallies(TypeCounts(h.icmp), {<<i, accepted[i].transport.type>> : i \in Toward(d)})
       /\ state.identity.protocol = UDP =>
            /\ h.udp.count = Cardinality(Toward(d))
            /\ h.udp.total + h.udp.surplus
                 = MapThenSumSet(LAMBDA i : accepted[i].ip_payload - 8, Toward(d))
       /\ state.identity.protocol = TCP =>
            LET options == Places(d, 4, CountedOptions) \cup Places(d, 6, CountedOptions)
            IN /\ Tallies(h.options.kinds, {<<item[1], item[2].kind>> : item \in options})
               /\ Tallies(h.options.mss, ValuesOfOption(options, 2))
               /\ Tallies(h.options.scales, ValuesOfOption(options, 3))

\* Of all frames of the capture exactly those count that hold a sound IPv4
\* header, if the header is one of a later fragment, whatever its protocol and
\* however little of its payload there is, or if the whole packet is analyzed;
\* each counts once, in the category of its own flags and offset.  A later
\* fragment has to be decoded a second time for it, because the analysis of all
\* but a few protocols stops at it (ipv4_fragmentation_statistics.py:81-112,
\* capture_fragmentation.py:7-15).
SoundIPv4(f) ==
  /\ Decoding!First(Decoding!LinkChecks(f)) = None /\ Decoding!EtherType(f) = "IPv4"
  /\ Decoding!First(Decoding!IPv4Checks(f)) = None /\ Decoding!IPv4OptionFailure(f) = None
  /\ f.ip.checksum_valid

LaterFragment(f) == f.ip.fragment_offset > 0

ToCount == {f \in Frames : SoundIPv4(f) /\ (LaterFragment(f) \/ Decoding!Outcome(f) = "analyzed")}

FragmentsOfCapture ==
  /\ FragmentsValid(fragments)
  /\ \A more \in BOOLEAN, later \in BOOLEAN :
       LET those == {i \in DOMAIN seen : /\ seen[i] \in ToCount
                                         /\ ("mf" \in seen[i].ip.flags) = more
                                         /\ LaterFragment(seen[i]) = later}
           category == CASE more /\ later -> "intermediate" [] more /\ ~later -> "initial"
                         [] ~more /\ later -> "final" [] OTHER -> "unfragmented"
       IN /\ fragments.packets[category] = Cardinality(those)
          /\ fragments.df[category] = Cardinality({i \in those : "df" \in seen[i].ip.flags})

-----------------------------------------------------------------------------
\* A frame ends the capture only for cause.  Every failure of a decoder is
\* classified: the exception of none goes past analyze_packet_outcome
\* (packet_analysis_outcome.py:175-218).  And a packet that decodes and has an
\* identity is refused by a flow only if it is of another flow, its original
\* length is unknown, or it is older than the packet before it: no bound or
\* cross-check of the accumulators (their __post_init__,
\* flow_state_coordinator.py:127-298) stops at what the decoders let through.
EndedForCause ==
  /\ outcome # "unclassified"
  /\ outcome \in {"refused", "header refused", "inconsistent"} =>
       \/ refused.observation.original = None
       \/ /\ accepted # <<>>
          /\ \/ refused.identity # accepted[1].identity
             \/ refused.observation.at < Time(Len(accepted))
=============================================================================
