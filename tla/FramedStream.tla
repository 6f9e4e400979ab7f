------------------------------ MODULE FramedStream ------------------------------
(***************************************************************************)
(* What flow_state_coordinator.py does with a TCP segment of a DNS or TLS  *)
(* flow, in one direction of it: the segment is observed, the bytes it     *)
(* makes available are framed and consumed, and for TLS the records of     *)
(* handshake type are framed again, as one stream of messages.             *)
(*                                                                         *)
(* The stream is TCPStream's, with the sender's segments only.             *)
(***************************************************************************)
EXTENDS TCPStream, StreamFraming

CONSTANTS DNSFormat,       \* 2 bytes, both of the length
          RecordFormat,    \* 5 bytes, 2 of the length
          MessageFormat,   \* 4 bytes, 3 of the length
          Handshake        \* content type 22

ASSUME FormatsAssumption == {DNSFormat, RecordFormat, MessageFormat} \subseteq Formats
ASSUME BytesAssumption == Bytes \subseteq 0 .. Base - 1

VARIABLES protocol,   \* by the ports of the flow
          outer,      \* framer of the DNS stream or of the TLS records
          inner,      \* framer of the TLS handshake messages
          frames,     \* history: DNS frames or TLS records completed
          messages    \* history: TLS handshake messages completed

framedVars == <<stream, sent, isn, first, genuine, protocol, outer, inner, frames, messages>>

OuterFormat == IF protocol = "DNS" THEN DNSFormat ELSE RecordFormat

FramedInit ==
    /\ TCPInit
    /\ protocol \in {"DNS", "TLS"}
    /\ outer = Idle /\ inner = Idle
    /\ frames = <<>> /\ messages = <<>>

-----------------------------------------------------------------------------
(* _frame_direction of the DNS stream and of the TLS records: the reason not *)
(* to frame is the first there was, and stays.                               *)
FramingReason(s) ==
    IF outer.reason = NoReason /\ ~Contiguous(s) THEN s.status ELSE outer.reason

Available(s) == IF FramingReason(s) = NoReason THEN Unconsumed(s) ELSE <<>>

OuterFramed(s) ==
    Framed(OuterFormat, [outer EXCEPT !.reason = FramingReason(s)], Available(s))

OuterConsumed(s, pass) == Consumed(s, Len(Available(s)) - Len(pass.left))

(* A slip for a property to be seen to fail on; nothing uses it.             *)
RecordFramedAnew(pass, record) ==
    IF record.header[1] # Handshake \/ pass.framer.reason # NoReason THEN pass
    ELSE LET next == Framed(MessageFormat, [pass.framer EXCEPT !.prefix = <<>>], record.payload)
         IN [next EXCEPT !.frames = pass.frames \o @]

(* A record of another content type, or after a message that is too long, is *)
(* passed over; what is left of a message waits for the next record.         *)
RecordFramed(pass, record) ==
    IF record.header[1] # Handshake \/ pass.framer.reason # NoReason THEN pass
    ELSE LET next == Framed(MessageFormat, pass.framer, record.payload)
         IN [next EXCEPT !.frames = pass.frames \o @]

(* _frame_direction of the TLS handshakes.  Records at an offset that was    *)
(* reached before are skipped.                                               *)
InnerFramed(s, records, reason) ==
    LET unread == IF ConsumedOffset(s) > ConsumedOffset(stream) THEN records ELSE <<>>
        pass == FoldLeft(RecordFramed, [framer |-> inner, frames |-> <<>>, left |-> <<>>], unread)
    IN IF pass.framer.reason = NoReason THEN [pass EXCEPT !.framer.reason = reason] ELSE pass

Handshaken(s, pass) ==
    IF protocol = "TLS" THEN InnerFramed(s, pass.frames, pass.framer.reason)
    ELSE [framer |-> inner, frames |-> <<>>, left |-> <<>>]

(* A packet of this direction.  Bound: no RST and no fragment.               *)
FrameSegment(p, n) ==
    /\ p + n <= Length
    /\ \E syn \in {FALSE, p = 0}, fin \in {FALSE, p + n = Length} :
       \E seen \in {Observed(stream, Segment(p, n, syn, fin, FALSE, FALSE))} :
       \E pass \in {OuterFramed(seen)} :
       \E inside \in {Handshaken(OuterConsumed(seen, pass), pass)} :
          /\ stream' = OuterConsumed(seen, pass)
          /\ outer' = pass.framer
          /\ frames' = frames \o pass.frames
          /\ inner' = inside.framer
          /\ messages' = messages \o inside.frames
    /\ Took(p)
    /\ UNCHANGED <<sent, isn, genuine, protocol>>

FramedNext == \E p \in 0 .. Length, n \in 1 .. MaxSegment : FrameSegment(p, n)

FramedSpec == FramedInit /\ [][FramedNext]_framedVars

-----------------------------------------------------------------------------
(* The frames of some bytes, without regard to how they arrive.              *)
Cut(format, data) ==
    LET from[at \in 1 .. Len(data) + 1] ==
            LET body == at + format.header
                length == Declared(format, SubSeq(data, at, body - 1))
            IN IF body > Len(data) + 1 THEN <<>>
               ELSE IF length > format.limit \/ body + length > Len(data) + 1 THEN <<>>
               ELSE <<[header |-> SubSeq(data, at, body - 1),
                       payload |-> SubSeq(data, body, body + length - 1)]>> \o from[body + length]
    IN from[1]

Accepted == SubSeq(sent, first + 1, Reached(stream))

Fragments ==
    FoldLeft(LAMBDA bytes, record : IF record.header[1] = Handshake
                                    THEN bytes \o record.payload ELSE bytes,
             <<>>, frames)

(* The frames are those of the bytes accepted, however these were cut into   *)
(* segments and whatever was lost or repeated.  While framing goes on, every *)
(* byte is consumed as it comes, so that the buffer never overflows.         *)
FramesOfStream ==
    /\ stream.start # None => frames = Cut(OuterFormat, Accepted)
    /\ outer.reason = NoReason =>
          Unconsumed(stream) = <<>> /\ Contiguous(stream)
    /\ stream.status = "LIMIT_EXCEEDED" => outer.reason = "LIMIT_EXCEEDED"

(* The handshake messages are those of the handshake records joined, however *)
(* they share out the messages, and records of other types in between.       *)
MessagesOfRecords ==
    /\ messages = IF protocol = "TLS" THEN Cut(MessageFormat, Fragments) ELSE <<>>
    /\ protocol = "TLS" /\ outer.reason # NoReason => inner.reason # NoReason
=============================================================================
