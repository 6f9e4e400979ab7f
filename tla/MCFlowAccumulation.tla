--------------------------- MODULE MCFlowAccumulation ---------------------------
(***************************************************************************)
(* Two instances of FlowAccumulation for TLC.  MCFlows are the frames of   *)
(* three flows, chosen so that every accumulator meets more than one value *)
(* and every value twice; MCSweep are frames with each header field at its *)
(* boundaries, one at a time and together with a second layer's.           *)
(***************************************************************************)
EXTENDS FlowAccumulation

IPv4Base ==
  [version |-> 4, ihl |-> 5, total_length |-> 40, options |-> <<>>, zero_padding |-> TRUE,
   protocol |-> 6, fragment_offset |-> 0, flags |-> {}, ttl |-> 64, dscp |-> 0, ecn |-> 0,
   checksum_valid |-> TRUE]

IPv6Base ==
  [version |-> 6, payload_length |-> 8, next_header |-> 17, hop_limit |-> 64,
   traffic_class |-> 0, flow_label |-> 1, headers |-> <<>>]

Header(next, length, offset, more) ==
  [next |-> next, length |-> length, fragment_offset |-> offset, more |-> more,
   reserved |-> 0, reserved_bits |-> 0]

Option(kind, length, value) == [kind |-> kind, length |-> length, value |-> value]

TCPBase ==
  [data_offset |-> 5, options |-> <<>>, zero_padding |-> TRUE, flags |-> {"ack"},
   checksum |-> "valid"]

UDPBase == [length |-> 8, checksum |-> "valid"]

ICMPBase == [type |-> 8, code |-> 0, identifier |-> 1, checksum |-> "valid"]

Frame(type, bytes, ip, transport) ==
  [link |-> 1, bytes |-> bytes, tags |-> 0, ether_type |-> type, at |-> 0, original |-> bytes,
   source |-> 1, destination |-> 2, ip |-> ip, transport |-> transport]

Back(f) == [f EXCEPT !.source = f.destination, !.destination = f.source]

At(f, times) == {[f EXCEPT !.at = t] : t \in times}

-----------------------------------------------------------------------------
(* A TCP flow over IPv4: segments with and without options, one of which   *)
(* is malformed, flags, TTLs and classes that differ by direction.         *)

Segment(ihl, ip_options, area, options, flags) ==
  Frame("IPv4", 14 + 4 * ihl + 20 + area,
        [IPv4Base EXCEPT !.ihl = ihl, !.options = ip_options, !.total_length = 4 * ihl + 20 + area],
        [TCPBase EXCEPT !.data_offset = 5 + area \div 4, !.options = options, !.flags = flags])

MSS(value) == Option(2, 4, value)
NoOperation == Option(1, 1, None)
WindowScale(value) == Option(3, 3, value)
Sack(blocks) == Option(5, 2 + 8 * blocks, None)
End == Option(0, 1, None)

Plain == Segment(5, <<>>, 0, <<>>, {"ack"})

TCPFrames ==
  At(Segment(5, <<>>, 8, <<MSS(1460), NoOperation, WindowScale(7)>>, {"syn"}), {0})
    \cup At(Back(Segment(5, <<>>, 12, <<MSS(536), MSS(1460), NoOperation, End>>,
                         {"syn", "ack", "ece"})), {2})
    \cup At([Segment(6, <<NoOperation, End>>, 20, <<NoOperation, NoOperation, Sack(2)>>, {"ack"})
               EXCEPT !.ip.dscp = 46, !.ip.ecn = 1, !.ip.flags = {"df"}, !.ip.ttl = 63], {3})
    \cup At(Segment(5, <<>>, 4, <<Option(2, 3, 0)>>, {"ack", "psh"}), {3})
    \cup At([Back(Plain) EXCEPT !.ip.ttl = 128, !.ip.ecn = 3, !.original = 60], {2, 5})
    \cup At([Plain EXCEPT !.ip.flags = {"mf", "reserved"}, !.ip.ttl = 62], {5})

\* What the flow does not take: a later fragment, a segment of another flow,
\* a segment that was cut, a length that is not known, a damaged header.
Strays ==
  At([Plain EXCEPT !.ip.fragment_offset = 1, !.ip.flags = {"mf"}], {0})
    \cup At([Plain EXCEPT !.ip.fragment_offset = 3, !.ip.flags = {"df"}], {0})
    \cup At([Plain EXCEPT !.ip.fragment_offset = 1, !.ip.checksum_valid = FALSE], {0})
    \cup At([Plain EXCEPT !.ip.fragment_offset = 1, !.ip.protocol = 50], {0})
    \cup At([Plain EXCEPT !.destination = 3], {0})
    \cup At([Plain EXCEPT !.bytes = 53], {0})
    \cup At([Plain EXCEPT !.original = None], {0})
    \cup At([Plain EXCEPT !.ip.checksum_valid = FALSE], {0})

-----------------------------------------------------------------------------
(* A UDP flow over IPv6: chains of extension headers, first fragments, flow*)
(* labels and surplus bytes.                                               *)

Datagram(headers, first, payload, length, label) ==
  Frame("IPv6", 54 + payload,
        [IPv6Base EXCEPT !.headers = headers, !.next_header = first, !.payload_length = payload,
                         !.flow_label = label],
        [UDPBase EXCEPT !.length = length])

UDPFrames ==
  At(Datagram(<<>>, 17, 8, 8, 1), {0, 1})
    \cup At(Datagram(<<>>, 17, 12, 10, 2), {1})
    \cup At([Datagram(<<Header(44, 8, 0, FALSE), Header(44, 8, 0, TRUE), Header(17, 8, 0, FALSE)>>,
                      0, 40, 9, 1)
               EXCEPT !.ip.headers[2].reserved = 1, !.ip.headers[3].reserved_bits = 1], {1, 4})
    \cup At([Datagram(<<Header(60, 16, 0, FALSE), Header(17, 8, 0, FALSE)>>, 60, 32, 8, 3)
               EXCEPT !.ip.traffic_class = 184, !.ip.hop_limit = 1], {4})
    \cup At(Back([Datagram(<<>>, 17, 8, 8, 7) EXCEPT !.ip.traffic_class = 3, !.original = 90]), {1, 4})
    \cup At(Back(Datagram(<<Header(17, 8, 0, FALSE)>>, 44, 28, 20, 7)), {4})
    \cup At(Datagram(<<Header(17, 8, 2, FALSE)>>, 44, 16, 8, 1), {0})

-----------------------------------------------------------------------------
(* An ICMP flow over IPv4: echo messages with one identifier.              *)

Message(type, code) ==
  Frame("IPv4", 42, [IPv4Base EXCEPT !.protocol = 1, !.total_length = 28],
        [ICMPBase EXCEPT !.type = type, !.code = code])

ICMPFrames ==
  At(Message(8, 0), {0, 1}) \cup At(Message(8, 1), {1}) \cup At(Message(8, 2), {1, 2})
    \cup At(Back(Message(0, 0)), {0, 2}) \cup At(Back(Message(0, 3)), {2})
    \cup At(Message(3, 1), {0, 1})

MCFlows == TCPFrames \cup Strays \cup UDPFrames \cup ICMPFrames

-----------------------------------------------------------------------------
(* The sweep of the decoders.                                              *)

\* Every length at which a check of the link layer or of IP turns over.
Cuts(f) == {[f EXCEPT !.bytes = b, !.original = f.original] : b \in 0..f.bytes}

Links(f) ==
  {[f EXCEPT !.tags = tags, !.bytes = f.bytes + 4 * tags, !.original = f.bytes + 4 * tags]
     : tags \in 0..3}
    \cup {[f EXCEPT !.link = 101, !.bytes = f.bytes - 14],
          [f EXCEPT !.link = 113, !.bytes = f.bytes + 2, !.original = f.bytes + 2],
          [f EXCEPT !.link = 101, !.bytes = f.bytes - 14, !.ip.version = 5],
          [f EXCEPT !.link = 7], [f EXCEPT !.ether_type = "ARP"]}

WithIPv4(f) ==
  {[f EXCEPT !.ip.version = version, !.ip.ihl = ihl, !.ip.total_length = @ + extra,
             !.ip.fragment_offset = offset, !.ip.flags = flags, !.ip.checksum_valid = valid,
             !.ip.options = options, !.ip.zero_padding = zero]
     : version \in {4, 5}, ihl \in {4, 5, 6, 15}, extra \in {-1, 0, 1},
       offset \in {0, 1}, flags \in {{}, {"mf", "df"}}, valid \in BOOLEAN,
       options \in {<<End>>, <<NoOperation, NoOperation, Option(7, 3, None)>>,
                    <<NoOperation, NoOperation, NoOperation, Option(7, 3, None)>>,
                    <<NoOperation, NoOperation, Option(7, 1, None)>>},
       zero \in BOOLEAN}

WithTCP(f) ==
  {[f EXCEPT !.transport.data_offset = words, !.transport.options = options,
             !.transport.zero_padding = zero, !.transport.checksum = checksum]
     : words \in {4, 5, 6, 15}, zero \in BOOLEAN, checksum \in {"valid", "invalid"},
       options \in {<<End>>, <<Sack(1)>>, <<Sack(4), Sack(0), End>>, <<MSS(1), End>>,
                    <<Option(2, 4, 9)>>, <<Option(9, 1, None)>>,
                    <<NoOperation, NoOperation, NoOperation, Option(9, 2, None)>>}}

WithIPv6(f) ==
  {[f EXCEPT !.ip.version = version, !.ip.payload_length = @ + extra, !.ip.next_header = next,
             !.ip.headers = headers]
     : version \in {4, 6}, extra \in {-1, 0, 1}, next \in {0, 6, 17, 44, 50, 58, 60},
       headers \in {<<>>, <<Header(17, 8, 0, FALSE)>>, <<Header(17, 8, 1, TRUE)>>,
                    <<Header(58, 8, 0, FALSE)>>, <<Header(58, 8, 0, TRUE)>>,
                    <<Header(44, 8, 0, FALSE), Header(6, 8, 0, FALSE)>>,
                    <<Header(60, 16, 0, FALSE), Header(17, 48, 0, FALSE)>>}}

WithUDP(f) ==
  {[f EXCEPT !.transport.length = length, !.transport.checksum = checksum]
     : length \in {7, 8, 16, 17}, checksum \in {"valid", "invalid", "absent"}}

Wide == Segment(5, <<>>, 40, <<Sack(4), Sack(0), End>>, {"ack"})

\* A datagram with the fields of every transport, so that the protocol alone
\* decides which decoder reads it.
AnyTransport ==
  [Frame("IPv6", 94, [IPv6Base EXCEPT !.payload_length = 40],
         TCPBase @@ UDPBase @@ ICMPBase) EXCEPT !.transport.length = 16]

Datagram4 ==
  Frame("IPv4", 50, [IPv4Base EXCEPT !.protocol = 17, !.total_length = 36],
        [UDPBase EXCEPT !.length = 16])

\* IP payloads of every length around those of the transport headers.
Payloads ==
  {[f EXCEPT !.ip.total_length = 19 + n] : n \in 0..21, f \in {Plain, Datagram4, Message(8, 0)}}
    \cup {[AnyTransport EXCEPT !.ip.payload_length = n, !.ip.next_header = next]
            : n \in 0..21, next \in {6, 17, 58}}

MCSweep ==
  UNION {Cuts(f) : f \in UNION {Links(g) : g \in {Plain, Datagram4, Message(8, 0), AnyTransport}}}
    \cup WithIPv4(Wide) \cup WithTCP(Wide) \cup WithUDP(Datagram4)
    \cup {[f EXCEPT !.ip.protocol = 50] : f \in WithIPv4(Datagram4)}
    \cup WithIPv6(AnyTransport) \cup Payloads
    \cup {[AnyTransport EXCEPT !.ip.next_header = 6, !.ip.hop_limit = limit,
                                 !.ip.traffic_class = class, !.ip.flow_label = label]
            : limit \in {0, 255}, class \in {0, 255}, label \in {0, 1048575}}
    \cup {[Back(Message(type, 255)) EXCEPT !.ip.ttl = 255, !.ip.dscp = 63, !.ip.ecn = 3,
                                           !.transport.checksum = checksum]
            : type \in {0, 255}, checksum \in {"valid", "invalid"}}
=============================================================================
