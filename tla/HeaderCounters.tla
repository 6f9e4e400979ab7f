--------------------------- MODULE HeaderCounters ---------------------------
(***************************************************************************)
(* The header accumulators of one direction of a flow: the histograms of   *)
(* the hop limit, of the IPv4 header, of the IPv6 traffic class and flow   *)
(* label, of the ICMP types, of the IPv6 extension headers and of the TCP  *)
(* options, and the counters of UDP datagrams and of fragments             *)
(* (the statistics modules of src/src/analysis).  As in FlowCounters, each *)
(* one is its empty value, the packets it refuses, its update and the      *)
(* checks of its __post_init__.  A packet is what PacketDecoding makes.    *)
(***************************************************************************)
EXTENDS FlowCounters, FiniteSets, SequencesExt

CONSTANT MaxLabelBins    \* IPV6_FLOW_LABEL_MAX_BINS

ASSUME LabelBinsAssumption == MaxLabelBins \in Nat

-----------------------------------------------------------------------------
(* A histogram is the sequence of its occupied bins <<value, count>> in    *)
(* the order of the values.                                                *)

Bins == Seq(Int \X Nat)

NoBins == <<>>

\* How often the histogram counts a value.
CountIn(bins, v) ==
  IF \E i \in DOMAIN bins : bins[i][1] = v
  THEN bins[CHOOSE i \in DOMAIN bins : bins[i][1] = v][2] ELSE 0

\* Where the bin of v is, or belongs.
Place(bins, v) == Cardinality({i \in DOMAIN bins : bins[i][1] < v}) + 1

\* One more occurrence of v: its bin is incremented, or inserted in order.
Incremented(bins, v) ==
  LET i == Place(bins, v)
  IN IF i \in DOMAIN bins /\ bins[i][1] = v THEN [bins EXCEPT ![i] = <<v, @[2] + 1>>]
     ELSE InsertAt(bins, i, <<v, 1>>)

\* The occurrences of the values at some places of a sequence.
Counting(bins, values, places) ==
  LET counted[i \in 0..Len(values)] ==
        IF i = 0 THEN bins
        ELSE IF i \in places THEN Incremented(counted[i - 1], values[i]) ELSE counted[i - 1]
  IN counted[Len(values)]

Sum(values) == MapThenSumSet(LAMBDA i : values[i], DOMAIN values)

Total(bins) == Sum([i \in DOMAIN bins |-> bins[i][2]])

BinsValid(bins, size) ==
  /\ Len(bins) <= size
  /\ \A i \in DOMAIN bins : bins[i][1] \in 0..(size - 1) /\ bins[i][2] > 0
  /\ \A i \in DOMAIN bins \ {1} : bins[i - 1][1] < bins[i][1]

-----------------------------------------------------------------------------
(* IPHopLimitStatistics: the TTL of IPv4, the hop limit of IPv6.           *)

HopLimitRefuses(ip) == ip.hop_limit \notin 0..255

HopLimitsUpdated(bins, ip) == Incremented(bins, ip.hop_limit)

HopLimitsValid(bins) == BinsValid(bins, 256)

\* IPv6TrafficClassStatistics
TrafficClassRefuses(ip) == ip.traffic_class \notin 0..255

TrafficClassesUpdated(bins, ip) == Incremented(bins, ip.traffic_class)

TrafficClassesValid(bins) == BinsValid(bins, 256)

-----------------------------------------------------------------------------
(* IPv6FlowLabelStatistics: a flow that shows more labels than there are   *)
(* bins loses the bins for good and goes on counting packets.              *)

FlowLabels == [bins : Bins, saturated : Nat]

NoFlowLabels == [bins |-> NoBins, saturated |-> 0]

FlowLabelRefuses(ip) == ip.flow_label \notin 0..1048575

FlowLabelPackets(s) == Total(s.bins) + s.saturated

FlowLabelsUpdated(s, ip) ==
  CASE s.saturated > 0 -> [s EXCEPT !.saturated = @ + 1]
    [] /\ s.saturated = 0
       /\ CountIn(s.bins, ip.flow_label) = 0
       /\ Len(s.bins) = MaxLabelBins ->
         [bins |-> NoBins, saturated |-> FlowLabelPackets(s) + 1]
    [] OTHER -> [s EXCEPT !.bins = Incremented(@, ip.flow_label)]

FlowLabelsValid(s) ==
  /\ BinsValid(s.bins, 1048576) /\ Len(s.bins) <= MaxLabelBins
  /\ s.saturated >= 0
  /\ s.saturated > 0 => s.bins = NoBins /\ s.saturated > MaxLabelBins

-----------------------------------------------------------------------------
(* IPv4HeaderStatistics.  The flags of a packet are a set: "df", "mf" and  *)
(* "reserved".                                                             *)

IPv4Headers ==
  [dscp : Bins, ecn : Bins, df : Nat, mf : Nat, reserved : Nat,
   options_packets : Nat, options_length : Int]

NoIPv4Headers ==
  [dscp |-> NoBins, ecn |-> NoBins, df |-> 0, mf |-> 0, reserved |-> 0,
   options_packets |-> 0, options_length |-> 0]

IPv4HeaderRefuses(ip) ==
  \/ ip.header_length \div 4 \notin 5..15
  \/ ip.dscp \notin 0..63 \/ ip.ecn \notin 0..3
  \/ ip.fragment_offset # 0

IPv4HeadersUpdated(s, ip) ==
  LET options == ip.header_length - 20
  IN [dscp |-> Incremented(s.dscp, ip.dscp), ecn |-> Incremented(s.ecn, ip.ecn),
      df |-> s.df + One("df" \in ip.flags), mf |-> s.mf + One("mf" \in ip.flags),
      reserved |-> s.reserved + One("reserved" \in ip.flags),
      options_packets |-> s.options_packets + One(options > 0),
      options_length |-> s.options_length + options]

IPv4HeadersValid(s) ==
  LET packets == Total(s.dscp)
  IN /\ BinsValid(s.dscp, 64) /\ BinsValid(s.ecn, 4)
     /\ Total(s.ecn) = packets
     /\ {s.df, s.mf, s.reserved, s.options_packets} \subseteq 0..packets
     /\ s.options_length % 4 = 0
     /\ s.options_length \in (4 * s.options_packets)..(40 * s.options_packets)

-----------------------------------------------------------------------------
(* IPv4FragmentationStatistics: every IPv4 packet of the capture, the      *)
(* non-initial fragments included that no flow takes.                      *)

Categories == {"unfragmented", "initial", "intermediate", "final"}

NoFragments ==
  [packets |-> [c \in Categories |-> 0], df |-> [c \in Categories |-> 0], reserved |-> 0]

\* A plausible mistake: the last fragment is one without the flag "mf", at
\* whichever offset.
CategoryByFlag(ip) ==
  IF "mf" \in ip.flags
  THEN IF ip.fragment_offset = 0 THEN "initial" ELSE "intermediate"
  ELSE "unfragmented"

Category(ip) ==
  IF "mf" \in ip.flags
  THEN IF ip.fragment_offset = 0 THEN "initial" ELSE "intermediate"
  ELSE IF ip.fragment_offset = 0 THEN "unfragmented" ELSE "final"

FragmentsUpdated(s, ip) ==
  [packets |-> [s.packets EXCEPT ![Category(ip)] = @ + 1],
   df |-> [s.df EXCEPT ![Category(ip)] = @ + One("df" \in ip.flags)],
   reserved |-> s.reserved + One("reserved" \in ip.flags)]

FragmentsValid(s) ==
  /\ \A c \in Categories : s.df[c] \in 0..s.packets[c]
  /\ s.reserved \in 0..(s.packets["unfragmented"] + s.packets["initial"]
                          + s.packets["intermediate"] + s.packets["final"])
-----------------------------------------------------------------------------
(* UDPStatistics.  What the IP payload holds beyond the UDP length is      *)
(* surplus.                                                                *)

Datagrams ==
  [count : Nat, empty : Nat, least : Int \cup {None}, greatest : Int \cup {None}, total : Int,
   surplus_count : Nat, surplus : Int]

NoDatagrams ==
  [count |-> 0, empty |-> 0, least |-> None, greatest |-> None, total |-> 0,
   surplus_count |-> 0, surplus |-> 0]

Surplus(p) == p.ip_payload - p.transport.length

UDPRefuses(p) ==
  \/ p.transport.length \notin 8..65535
  \/ Surplus(p) \notin 0..65527

DatagramsUpdated(s, p) ==
  LET length == p.transport.length - 8
  IN [count |-> s.count + 1,
      empty |-> s.empty + One(length = 0),
      least |-> IF s.count = 0 \/ length < s.least THEN length ELSE s.least,
      greatest |-> IF s.count = 0 \/ length > s.greatest THEN length ELSE s.greatest,
      total |-> s.total + length,
      surplus_count |-> s.surplus_count + One(Surplus(p) > 0),
      surplus |-> s.surplus + Surplus(p)]

DatagramsValid(s) ==
  /\ s.count >= 0
  /\ IF s.count = 0 THEN s.least = None /\ s.greatest = None
     ELSE /\ 0 <= s.least /\ s.least <= s.greatest /\ s.greatest <= 65527
          /\ s.total \in (s.count * s.least)..(s.count * s.greatest)
          /\ (s.least = 0) <=> (s.empty > 0)
          /\ s.empty = s.count => s.greatest = 0
  /\ {s.empty, s.surplus_count} \subseteq 0..s.count
  /\ s.surplus \in s.surplus_count..(s.surplus_count * 65527)

-----------------------------------------------------------------------------
(* ICMPStatistics: a bin for each pair of a type and a code, which their   *)
(* lexicographic order makes the number 256 * type + code.                 *)

TypeAndCode(m) == 256 * m.type + m.code

ICMPRefuses(m) == m.type \notin 0..255 \/ m.code \notin 0..255

ICMPUpdated(bins, m) == Incremented(bins, TypeAndCode(m))

ICMPValid(bins) == BinsValid(bins, 65536)

\* A plausible mistake: each code makes an entry of its own for its type.
TypeCountsApart(bins) == [i \in DOMAIN bins |-> <<bins[i][1] \div 256, bins[i][2]>>]

\* type_counts: the codes of a type are next to one another, and are added up.
TypeCounts(bins) ==
  LET counted[i \in 0..Len(bins)] ==
        IF i = 0 THEN NoBins
        ELSE LET prev == counted[i - 1]
                 type == bins[i][1] \div 256
                 n == Len(prev)
             IN IF n > 0 /\ prev[n][1] = type
                THEN [prev EXCEPT ![n] = <<type, @[2] + bins[i][2]>>]
                ELSE Append(prev, <<type, bins[i][2]>>)
  IN counted[Len(bins)]

-----------------------------------------------------------------------------
(* IPv6ExtensionHeaderStatistics.  A chain is the sequence of the headers  *)
(* [type, offset, length, next, ...] that follow the 40 bytes of IPv6.     *)

ExtensionTypes == {0, 43, 44, 60}

Terminal(ip) ==
  IF ip.headers = <<>> THEN ip.next_header ELSE ip.headers[Len(ip.headers)].next

ChainRefuses(ip) ==
  LET h == ip.headers
      extent == [i \in DOMAIN h |-> h[i].offset + h[i].length]
  IN \/ \E i \in DOMAIN h :
           \/ h[i].type # (IF i = 1 THEN ip.next_header ELSE h[i - 1].next)
           \/ h[i].offset # (IF i = 1 THEN 40 ELSE extent[i - 1])
           \/ h[i].type \notin ExtensionTypes
           \/ h[i].type = 44 /\ h[i].length # 8
           \/ h[i].length < 8 \/ h[i].length % 8 # 0
           \/ extent[i] > 40 + ip.payload_length
     \/ Terminal(ip) \in ExtensionTypes

ExtensionHeaders ==
  [packets : Nat, with_headers : Nat, least : Nat \cup {None}, greatest : Nat \cup {None},
   total : Nat, types : Bins, terminals : Bins, duplicates : Int]

NoExtensionHeaders ==
  [packets |-> 0, with_headers |-> 0, least |-> None, greatest |-> None, total |-> 0,
   types |-> NoBins, terminals |-> NoBins, duplicates |-> 0]

ExtensionHeadersUpdated(s, ip) ==
  LET n == Len(ip.headers)
      types == [i \in 1..n |-> ip.headers[i].type]
  IN [packets |-> s.packets + 1,
      with_headers |-> s.with_headers + One(n > 0),
      least |-> IF s.least = None \/ n < s.least THEN n ELSE s.least,
      greatest |-> IF s.greatest = None \/ n > s.greatest
                   THEN n ELSE s.greatest,
      total |-> s.total + n,
      types |-> Counting(s.types, types, DOMAIN types),
      terminals |-> Incremented(s.terminals, Terminal(ip)),
      duplicates |-> s.duplicates + n - Cardinality({types[i] : i \in 1..n})]

ExtensionHeadersValid(s) ==
  /\ BinsValid(s.types, 256) /\ Total(s.types) = s.total
  /\ BinsValid(s.terminals, 256) /\ Total(s.terminals) = s.packets
  /\ IF s.packets = 0 THEN s.least = None /\ s.greatest = None
     ELSE 0 <= s.least /\ s.least <= s.greatest /\ s.greatest <= 8191
  /\ s.with_headers \in 0..s.packets
  /\ (s.total = 0) <=> (s.with_headers = 0)
  /\ s.total <= s.packets * 8191
  /\ s.duplicates \in 0..s.total

-----------------------------------------------------------------------------
(* IPv6FragmentationStatistics: the Fragment headers of a chain, which     *)
(* have a flag more, and two fields reserved and reserved_bits.            *)

FragmentHeaders(ip) == {i \in DOMAIN ip.headers : ip.headers[i].type = 44}

FragmentHeadersRefuse(ip) ==
  \E i \in FragmentHeaders(ip) : ip.headers[i].length # 8 \/ ip.headers[i].fragment_offset # 0

IPv6Fragments ==
  [packets : Nat, with_headers : Nat, fragmented : Nat, repeated : Nat,
   first : Nat, atomic : Int, reserved : Nat, reserved_bits : Nat]

NoIPv6Fragments ==
  [packets |-> 0, with_headers |-> 0, fragmented |-> 0, repeated |-> 0,
   first |-> 0, atomic |-> 0, reserved |-> 0, reserved_bits |-> 0]

IPv6FragmentsUpdated(s, ip) ==
  LET headers == FragmentHeaders(ip)
      Those(P(_)) == Cardinality({i \in headers : P(ip.headers[i])})
      first == Those(LAMBDA h : h.more)
  IN [packets |-> s.packets + 1,
      with_headers |-> s.with_headers + One(headers # {}),
      fragmented |-> s.fragmented + One(first > 0),
      repeated |-> s.repeated + One(Cardinality(headers) > 1),
      first |-> s.first + first,
      atomic |-> s.atomic + Cardinality(headers) - first,
      reserved |-> s.reserved + Those(LAMBDA h : h.reserved > 0),
      reserved_bits |-> s.reserved_bits + Those(LAMBDA h : h.reserved_bits > 0)]

IPv6FragmentsValid(s) ==
  LET headers == s.first + s.atomic
  IN /\ \A part \in DOMAIN s : s[part] >= 0
     /\ s.with_headers <= s.packets
     /\ {s.fragmented, s.repeated} \subseteq 0..s.with_headers
     /\ headers \in (s.with_headers + s.repeated)..(s.with_headers * 8191)
     /\ s.fragmented <= s.first
     /\ s.first > 0 => s.fragmented > 0
     /\ s.atomic >= s.with_headers - s.fragmented
     /\ {s.reserved, s.reserved_bits} \subseteq 0..headers

-----------------------------------------------------------------------------
(* TCPOptionStatistics.  The option area of a segment is area bytes long,  *)
(* and holds the sequence options of [kind, length, value], which ends     *)
(* with the first end-of-list (kind 0).                                    *)

TCPOptionsRefuse(t) == t.area \notin 0..40 \/ t.area % 4 # 0

ExpectedLength == (2 :> 4) @@ (3 :> 3) @@ (4 :> 2) @@ (8 :> 10)

Malformed(o) ==
  \/ o.kind \in DOMAIN ExpectedLength /\ o.length # ExpectedLength[o.kind]
  \/ o.kind = 5 /\ (o.length < 10 \/ (o.length - 2) % 8 # 0)

TCPOptions ==
  [packets : Nat, malformed : Nat, with_options : Nat, bytes : Int, kinds : Bins,
   duplicates : Nat, mss : Bins, scales : Bins, sack_blocks : Int]

NoTCPOptions ==
  [packets |-> 0, malformed |-> 0, with_options |-> 0, bytes |-> 0, kinds |-> NoBins,
   duplicates |-> 0, mss |-> NoBins, scales |-> NoBins, sack_blocks |-> 0]

OfKind(options, kind) == {i \in DOMAIN options : options[i].kind = kind}

\* A plausible mistake: a repeated no-operation counts as a duplicate.
RepeatedPadding(options) ==
  {i \in DOMAIN options : \E j \in 1..(i - 1) : options[j].kind = options[i].kind}

\* The options that repeat the kind of an earlier one, padding apart.
Repeated(options) ==
  {i \in DOMAIN options : /\ options[i].kind > 1
                          /\ \E j \in 1..(i - 1) : options[j].kind = options[i].kind}

TCPOptionsUpdated(s, t) ==
  LET options == t.options
      n == Len(options)
      kinds == [i \in 1..n |-> options[i].kind]
      values == [i \in 1..n |-> options[i].value]
      blocks == [i \in 1..n |-> IF kinds[i] = 5 THEN (options[i].length - 2) \div 8 ELSE 0]
  IN IF \E i \in 1..n : Malformed(options[i])
     THEN [s EXCEPT !.packets = @ + 1, !.malformed = @ + 1]
     ELSE [packets |-> s.packets + 1,
           malformed |-> s.malformed,
           with_options |-> s.with_options + One(t.area > 0),
           bytes |-> s.bytes + t.area,
           kinds |-> Counting(s.kinds, kinds, 1..n),
           duplicates |-> s.duplicates + Cardinality(Repeated(options)),
           mss |-> Counting(s.mss, values, OfKind(options, 2)),
           scales |-> Counting(s.scales, values, OfKind(options, 3)),
           sack_blocks |-> s.sack_blocks + Sum(blocks)]

\* The bytes that the counted options take at least.
LeastLength(kind) ==
  CASE kind \in {0, 1} -> 1
    [] kind \in DOMAIN ExpectedLength -> ExpectedLength[kind]
    [] OTHER -> 2

TCPOptionsValid(s) ==
  LET Kind(k) == CountIn(s.kinds, k)
      count == Total(s.kinds)
      distinct == Cardinality({i \in DOMAIN s.kinds : s.kinds[i][1] > 1})
  IN /\ BinsValid(s.kinds, 256) /\ BinsValid(s.mss, 65536) /\ BinsValid(s.scales, 256)
     /\ s.malformed \in 0..s.packets
     /\ s.with_options \in 0..(s.packets - s.malformed)
     /\ s.bytes \in (4 * s.with_options)..(40 * s.with_options) /\ s.bytes % 4 = 0
     /\ count \in s.with_options..(40 * s.with_options)
     /\ Total(s.mss) = Kind(2) /\ Total(s.scales) = Kind(3)
     /\ Kind(0) <= s.with_options
     /\ s.sack_blocks \in Kind(5)..(4 * Kind(5))
     /\ \/ s.duplicates = 0
        \/ s.duplicates \in 0..(count - Kind(0) - Kind(1) - distinct)
     /\ Sum([i \in DOMAIN s.kinds |-> s.kinds[i][2] * LeastLength(s.kinds[i][1])])
           + 8 * s.sack_blocks <= s.bytes
     /\ s.sack_blocks <= 4 * s.with_options
=============================================================================
