--------------------------- MODULE PacketDecoding ---------------------------
(***************************************************************************)
(* What analyze_packet_outcome makes of one captured frame: the analysis   *)
(* of its layers, or a classified failure (packet_analysis.py,             *)
(* packet_analysis_outcome.py and the decoder of each layer).              *)
(*                                                                         *)
(* A frame is what was on the wire, field by field, and the number of      *)
(* bytes of it that were captured.  A decoder reads a field only after it  *)
(* has checked that the bytes are there, so each decoder is the sequence   *)
(* of its checks in their order, <<what fails, whether it does>>, and the  *)
(* fields it passes on.                                                    *)
(***************************************************************************)
EXTENDS Integers, Sequences, FiniteSets

CONSTANT None

VLANTagLimit == 2

\* The first check that fails, or None.
First(checks) ==
  LET failing == {i \in DOMAIN checks : checks[i][2]}
  IN IF failing = {} THEN None
     ELSE checks[CHOOSE i \in failing : \A j \in failing : i <= j][1]

-----------------------------------------------------------------------------
(* The link layer: Ethernet with up to two VLAN tags, raw IP, or a Linux   *)
(* cooked header.                                                          *)

Ethernet == 1
RawIP == 101
LinuxCooked == 113

LinkHeader(f) ==
  CASE f.link = Ethernet -> 14 + 4 * f.tags
    [] f.link = LinuxCooked -> 16
    [] OTHER -> 0

EtherType(f) ==
  IF f.link = RawIP THEN (IF f.ip.version = 4 THEN "IPv4" ELSE "IPv6") ELSE f.ether_type

EthernetChecks(f) ==
  << <<"Ethernet frame too short", f.bytes < 14>>,
     <<"VLAN tag too short", f.tags > 0 /\ f.bytes < 18>>,
     <<"VLAN tag too short", f.tags > 1 /\ f.bytes < 22>>,
     <<"VLAN tag depth", f.tags > VLANTagLimit>> >>

LinkLayerChecks(f) ==
  IF f.link = RawIP
  THEN << <<"raw IP too short", f.bytes < 1>>,
          <<"raw IP version", f.ip.version \notin {4, 6}>> >>
  ELSE << <<"Linux cooked frame too short", f.bytes < 16>> >>

LinkChecks(f) ==
  CASE f.link = Ethernet -> EthernetChecks(f)
    [] f.link \in {RawIP, LinuxCooked} -> LinkLayerChecks(f)
    [] OTHER -> << <<"packet LinkType", TRUE>> >>

\* The bytes that are left for IP.
IPBytes(f) == f.bytes - LinkHeader(f)

-----------------------------------------------------------------------------
(* Options of IPv4 and of TCP: a sequence of [kind, length, value] that    *)
(* fills an area of bytes, up to an end-of-list (kind 0) and its padding.  *)

OptionLength(o) == IF o.kind \in {0, 1} THEN 1 ELSE o.length

\* Where option i starts in the area.
OptionOffset(options, i) ==
  LET offset[j \in 1..i] == IF j = 1 THEN 0 ELSE offset[j - 1] + OptionLength(options[j - 1])
  IN offset[i]

\* The options the loop reaches: those that start in the area, to the first end.
OptionsIn(options, area) ==
  {i \in DOMAIN options : /\ OptionOffset(options, i) < area
                          /\ \A j \in 1..(i - 1) : options[j].kind # 0}

EnvelopeFailure(options, area, zero_padding, protocol) ==
  LET Check(i) ==
        LET o == options[i]
            left == area - OptionOffset(options, i)
        IN IF o.kind \in {0, 1}
           THEN IF o.kind = 0 /\ ~zero_padding THEN protocol \o " option padding" ELSE None
           ELSE First(<< <<protocol \o " option length field", left < 2>>,
                         <<protocol \o " option length", o.length < 2>>,
                         <<protocol \o " option area", o.length > left>> >>)
      failing == {i \in OptionsIn(options, area) : Check(i) # None}
  IN IF failing = {} THEN None
     ELSE Check(CHOOSE i \in failing : \A j \in failing : i <= j)

-----------------------------------------------------------------------------
(* IPv4                                                                    *)

IPv4Checks(f) ==
  LET available == IPBytes(f)
  IN << <<"IPv4 header too short", available < 20>>,
        <<"IPv4 version", f.ip.version # 4>>,
        <<"IPv4 IHL", f.ip.ihl < 5>>,
        <<"IPv4 header length", available < 4 * f.ip.ihl>>,
        <<"IPv4 total length", f.ip.total_length < 4 * f.ip.ihl>>,
        <<"IPv4 total length available", f.ip.total_length > available>> >>

IPv4OptionFailure(f) ==
  EnvelopeFailure(f.ip.options, 4 * f.ip.ihl - 20, f.ip.zero_padding, "IPv4")

IPv4Payload(f) == f.ip.total_length - 4 * f.ip.ihl

-----------------------------------------------------------------------------
(* IPv6 and its extension headers.  The headers of a frame are the         *)
(* [next, length, fragment_offset, more, reserved, reserved_bits] that     *)
(* follow one another; what type one has the header before it says.        *)

IPv6Checks(f) ==
  LET available == IPBytes(f)
  IN << <<"IPv6 header too short", available < 40>>,
        <<"IPv6 version", f.ip.version # 6>>,
        <<"IPv6 payload length", 40 + f.ip.payload_length > available>> >>

ExtensionTypes == {0, 43, 44, 60}

HeaderType(f, i) == IF i = 1 THEN f.ip.next_header ELSE f.ip.headers[i - 1].next

HeaderOffset(f, i) ==
  LET offset[j \in 1..i] ==
        IF j = 1 THEN 40
        ELSE offset[j - 1] + (IF HeaderType(f, j - 1) = 44 THEN 8 ELSE f.ip.headers[j - 1].length)
  IN offset[i]

HeaderEnd(f, i) ==
  HeaderOffset(f, i) + (IF HeaderType(f, i) = 44 THEN 8 ELSE f.ip.headers[i].length)

\* The headers the walk reaches: it stops at the first type that is not an
\* extension header's, and after a Fragment header with an offset.
HeadersReached(f) ==
  {i \in 1..(Len(f.ip.headers) + 1) :
     /\ \A j \in 1..i : HeaderType(f, j) \in ExtensionTypes
     /\ \A j \in 1..(i - 1) :
          ~(HeaderType(f, j) = 44 /\ f.ip.headers[j].fragment_offset > 0)}

HeadersTaken(f) == HeadersReached(f) \cap DOMAIN f.ip.headers

ExtensionFailure(f) ==
  LET end == 40 + f.ip.payload_length
      Check(i) ==
        IF i > Len(f.ip.headers) THEN "IPv6 extension prefix"
        ELSE First(<< <<"IPv6 extension prefix",
                        end - HeaderOffset(f, i) < (IF HeaderType(f, i) = 44 THEN 1 ELSE 2)>>,
                      <<"IPv6 extension length", HeaderEnd(f, i) > end>> >>)
      failing == {i \in HeadersReached(f) : Check(i) # None}
  IN IF failing = {} THEN None
     ELSE Check(CHOOSE i \in failing : \A j \in failing : i <= j)

Chain(f) ==
  [i \in 1..Cardinality(HeadersTaken(f)) |->
     [type |-> HeaderType(f, i), offset |-> HeaderOffset(f, i),
      length |-> HeaderEnd(f, i) - HeaderOffset(f, i), next |-> f.ip.headers[i].next,
      fragment_offset |-> f.ip.headers[i].fragment_offset, more |-> f.ip.headers[i].more,
      reserved |-> f.ip.headers[i].reserved, reserved_bits |-> f.ip.headers[i].reserved_bits]]

\* The terminating Next Header, and the bytes of payload after the chain.
UpperProtocol(f) ==
  LET n == Cardinality(HeadersTaken(f))
  IN IF n = 0 THEN f.ip.next_header ELSE f.ip.headers[n].next

IPv6Payload(f) ==
  LET n == Cardinality(HeadersTaken(f))
  IN 40 + f.ip.payload_length - (IF n = 0 THEN 40 ELSE HeaderEnd(f, n))

FragmentsOf(f) == {i \in DOMAIN Chain(f) : Chain(f)[i].type = 44}

NonFirst(f) == \E i \in FragmentsOf(f) : Chain(f)[i].fragment_offset > 0

Whole(f) == \A i \in FragmentsOf(f) :
              Chain(f)[i].fragment_offset = 0 /\ ~Chain(f)[i].more
-----------------------------------------------------------------------------
(* Transports, in payload bytes of which the IP header says they are there *)

TCPFailure(f, payload) ==
  LET short == First(<< <<"TCP header too short", payload < 20>>,
                        <<"TCP data offset", f.transport.data_offset < 5>>,
                        <<"TCP header length", 4 * f.transport.data_offset > payload>> >>)
  IN IF short # None THEN short
     ELSE EnvelopeFailure(f.transport.options, 4 * f.transport.data_offset - 20,
                          f.transport.zero_padding, "TCP")

UDPFailure(f, payload) ==
  First(<< <<"UDP header too short", payload < 8>>,
           <<"UDP length", f.transport.length < 8>>,
           <<"UDP length available", f.transport.length > payload>> >>)

ICMPFailure(payload) == First(<< <<"ICMP header too short", payload < 8>> >>)

ICMPv6Failure(payload) == First(<< <<"ICMPv6 header too short", payload < 4>> >>)

IPv4TransportFailure(f) ==
  LET protocol == f.ip.protocol
      payload == IPv4Payload(f)
  IN CASE protocol \notin {1, 6, 17} -> None
       [] protocol \in {1, 6, 17} /\ f.ip.fragment_offset # 0 -> "initial IPv4 fragment"
       [] protocol = 6 /\ f.ip.fragment_offset = 0 -> TCPFailure(f, payload)
       [] protocol = 17 /\ f.ip.fragment_offset = 0 -> UDPFailure(f, payload)
       [] protocol = 1 /\ f.ip.fragment_offset = 0 -> ICMPFailure(payload)

\* Which transport of an IPv6 packet is decoded at all: TCP and UDP in a
\* first fragment, ICMPv6 in a whole datagram.
IPv6Transport(f) ==
  \/ UpperProtocol(f) \in {6, 17} /\ ~NonFirst(f)
  \/ UpperProtocol(f) = 58 /\ Whole(f)

IPv6TransportFailure(f) ==
  LET payload == IPv6Payload(f)
  IN IF ~IPv6Transport(f) THEN None
     ELSE CASE UpperProtocol(f) = 6 -> TCPFailure(f, payload)
            [] UpperProtocol(f) = 17 -> UDPFailure(f, payload)
            [] UpperProtocol(f) = 58 -> ICMPv6Failure(payload)

-----------------------------------------------------------------------------
(* analyze_packet                                                          *)

IPv4Failure(f) ==
  LET header == First(IPv4Checks(f))
      options == IPv4OptionFailure(f)
  IN IF header # None THEN header
     ELSE IF options # None THEN options ELSE IPv4TransportFailure(f)

IPv6Failure(f) ==
  LET header == First(IPv6Checks(f))
      extensions == ExtensionFailure(f)
  IN IF header # None THEN header
     ELSE IF extensions # None THEN extensions ELSE IPv6TransportFailure(f)

DecodeFailure(f) ==
  LET link == First(LinkChecks(f))
  IN IF link # None THEN link
     ELSE CASE EtherType(f) = "IPv4" -> IPv4Failure(f)
            [] EtherType(f) = "IPv6" -> IPv6Failure(f)
            [] OTHER -> "packet EtherType"

\* The lists of _classify_known_failure.
UnsupportedMessages ==
  {"packet LinkType", "packet EtherType", "VLAN tag depth", "raw IP version",
   "initial IPv4 fragment"}

\* A plausible mistake: one message of a decoder is missing from the list.
IncompleteMessagesButExtensions ==
  {"Ethernet frame too short", "VLAN tag too short", "raw IP too short",
   "Linux cooked frame too short", "IPv4 header too short", "IPv4 header length",
   "IPv4 total length available", "IPv6 header too short", "IPv6 payload length",
   "IPv6 extension prefix", "ICMPv6 header too short",
   "TCP header too short", "TCP header length", "UDP header too short",
   "UDP length available", "ICMP header too short"}

IncompleteMessages ==
  {"Ethernet frame too short", "VLAN tag too short", "raw IP too short",
   "Linux cooked frame too short", "IPv4 header too short", "IPv4 header length",
   "IPv4 total length available", "IPv6 header too short", "IPv6 payload length",
   "IPv6 extension prefix", "IPv6 extension length", "ICMPv6 header too short",
   "TCP header too short", "TCP header length", "UDP header too short",
   "UDP length available", "ICMP header too short"}

OptionMessages(protocol) ==
  {protocol \o field : field \in {" option padding", " option length field",
                                 " option length", " option area"}}

StructuralMessages ==
  {"IPv4 version", "IPv4 IHL", "IPv4 total length", "IPv6 version", "TCP data offset",
   "UDP length"}
    \cup OptionMessages("IPv4") \cup OptionMessages("TCP")

Classification(failure) ==
  CASE failure \in UnsupportedMessages -> "unsupported"
    [] failure \in IncompleteMessages -> "incomplete"
    [] failure \in StructuralMessages -> "structural_failure"
    [] OTHER -> "unclassified"      \* the decoder's exception is raised again

\* A checksum is verified in IPv4 only, and a UDP checksum of 0 is no failure.
IntegrityFailure(f) ==
  /\ EtherType(f) = "IPv4"
  /\ \/ ~f.ip.checksum_valid
     \/ f.ip.protocol \in {1, 6} /\ f.transport.checksum # "valid"
     \/ f.ip.protocol = 17 /\ f.transport.checksum = "invalid"

Outcome(f) ==
  LET failure == DecodeFailure(f)
  IN CASE failure # None -> Classification(failure)
       [] failure = None /\ IntegrityFailure(f) -> "integrity_failure"
       [] OTHER -> "analyzed"

-----------------------------------------------------------------------------
(* The analysis of a frame that decodes, as the flow takes it.             *)

Observation(f) == [at |-> f.at, captured |-> f.bytes, original |-> f.original]

Network(f) ==
  IF EtherType(f) = "IPv4"
  THEN [version |-> 4, hop_limit |-> f.ip.ttl, dscp |-> f.ip.dscp, ecn |-> f.ip.ecn,
        header_length |-> 4 * f.ip.ihl, flags |-> f.ip.flags,
        fragment_offset |-> f.ip.fragment_offset]
  ELSE [version |-> 6, hop_limit |-> f.ip.hop_limit, traffic_class |-> f.ip.traffic_class,
        flow_label |-> f.ip.flow_label, payload_length |-> f.ip.payload_length,
        next_header |-> f.ip.next_header, headers |-> Chain(f)]

Protocol(f) == IF EtherType(f) = "IPv4" THEN f.ip.protocol ELSE UpperProtocol(f)

IPPayload(f) == IF EtherType(f) = "IPv4" THEN IPv4Payload(f) ELSE IPv6Payload(f)

TransportDecoded(f) ==
  IF EtherType(f) = "IPv4" THEN f.ip.protocol \in {1, 6, 17} ELSE IPv6Transport(f)

EchoTypes(f) == IF EtherType(f) = "IPv4" THEN {0, 8} ELSE {128, 129}

EchoIdentifier(f) ==
  IF f.transport.type \in EchoTypes(f) /\ IPPayload(f) >= 8
  THEN f.transport.identifier ELSE None

Transport(f) ==
  CASE Protocol(f) = 6 ->
         LET area == 4 * f.transport.data_offset - 20
         IN [flags |-> f.transport.flags, area |-> area,
             options |-> SubSeq(f.transport.options, 1,
                                Cardinality(OptionsIn(f.transport.options, area)))]
    [] Protocol(f) = 17 -> [length |-> f.transport.length]
    [] Protocol(f) \in {1, 58} ->
         [type |-> f.transport.type, code |-> f.transport.code]

\* A flow takes a packet whose transport was decoded: none for a later
\* fragment, a fragmented ICMPv6 message or another protocol.
HasIdentity(f) ==
  /\ TransportDecoded(f)
  /\ EtherType(f) = "IPv6" => ~NonFirst(f)

Identity(f) ==
  [ends |-> {f.source, f.destination}, protocol |-> Protocol(f),
   version |-> Network(f).version,
   echo |-> IF Protocol(f) \in {1, 58} THEN EchoIdentifier(f) ELSE None]

\* The canonical order of an identity puts the lesser endpoint first.
Direction(f) == IF f.source <= f.destination THEN "forward" ELSE "reverse"

Packet(f) ==
  [identity |-> Identity(f), direction |-> Direction(f), observation |-> Observation(f),
   ip |-> Network(f), ip_payload |-> IPPayload(f), transport |-> Transport(f)]

-----------------------------------------------------------------------------
(* A non-initial IPv4 fragment has no analysis, but the statistics of      *)
(* fragments of the capture decode it once more.                           *)

NonInitialFragment(f) ==
  /\ Outcome(f) = "unsupported"
  /\ First(LinkChecks(f)) = None /\ EtherType(f) = "IPv4"
  /\ First(IPv4Checks(f)) = None
  /\ f.ip.fragment_offset # 0
  /\ f.ip.protocol \in {1, 6, 17}
  /\ f.ip.checksum_valid

\* A plausible mistake: only what the analysis returned is counted.
CountsIfAnalyzed(f) == Outcome(f) = "analyzed" /\ EtherType(f) = "IPv4"

CountsAsIPv4(f) ==
  \/ Outcome(f) = "analyzed" /\ EtherType(f) = "IPv4"
  \/ NonInitialFragment(f)
=============================================================================
