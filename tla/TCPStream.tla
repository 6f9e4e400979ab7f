------------------------------- MODULE TCPStream -------------------------------
(***************************************************************************)
(* One direction of a TCP flow as tcp_stream_observation.py observes it: a *)
(* bounded buffer of contiguous bytes, consumed from the front, and a      *)
(* status that says whether the buffer may still be trusted.  The other    *)
(* direction has an observation of its own.                                *)
(*                                                                         *)
(* Segments come from a sender whose stream is known to the model only:    *)
(* they may be lost, repeated, reordered and cut anew.  Segments that no   *)
(* such sender would send may arrive as well.                              *)
(***************************************************************************)
EXTENDS Integers, Sequences

CONSTANTS Modulus,      \* _SEQUENCE_MODULUS
          MaxBytes,     \* TCP_STREAM_MAX_BYTES
          Bytes,        \* byte values
          Origins,      \* bound: initial sequence numbers of the sender
          Length,       \* bound: bytes the sender sends
          MaxSegment    \* bound: bytes of a segment

ASSUME ModulusAssumption == Modulus \in Nat \ {0} /\ Modulus % 2 = 0
ASSUME MaxBytesAssumption == MaxBytes \in Nat \ {0}
ASSUME OriginsAssumption == Origins \subseteq 0 .. Modulus - 1
ASSUME WindowAssumption == Length \in Nat /\ MaxSegment \in Nat /\ 2 * (Length + 1) < Modulus

VARIABLES stream,    \* the TCPStreamObservation
          sent,      \* the sender's bytes
          isn,       \* the sender's initial sequence number
          first,     \* history: position of the first byte taken into the buffer
          genuine    \* history: every segment so far was the sender's

tcpVars == <<stream, sent, isn, first, genuine>>

HalfRange == Modulus \div 2      \* also the delta of two numbers half a range apart
Sequences == 0 .. Modulus - 1
None == -1
Statuses == {"OPEN", "FIN", "RESET", "AFTER_CLOSE", "GAP", "OVERLAP", "CONFLICT",
             "AMBIGUOUS", "LIMIT_EXCEEDED", "RESTART", "FRAGMENTED"}
Relations == {"FIRST", "CONTIGUOUS", "GAP", "OVERLAP", "DUPLICATE", "EMPTY",
              "AMBIGUOUS", "UNAVAILABLE"}
Observations == [payload : Seq(Bytes), start : Sequences \cup {None},
                 next : Sequences \cup {None}, syn : Sequences \cup {None},
                 status : Statuses, relation : Relations,
                 offset : Nat, consumed : Nat]

TCPTypeOK ==
    /\ stream \in Observations
    /\ Len(stream.payload) <= MaxBytes
    /\ stream.consumed <= Len(stream.payload)
    /\ (stream.start = None) => (stream.payload = <<>> /\ stream.offset = 0)
    /\ first \in 0 .. Length

-----------------------------------------------------------------------------
Fresh == [payload |-> <<>>, start |-> None, next |-> None, syn |-> None,
          status |-> "OPEN", relation |-> "EMPTY", offset |-> 0, consumed |-> 0]

Judged(s, status, relation) == [s EXCEPT !.status = status, !.relation = relation]

(* DeltaUnsigned, CompactedWhole and FinishedAnywhere are slips for the      *)
(* properties to be seen to fail on; nothing uses them.                      *)

(* _sequence_delta: the signed distance, HalfRange where the code has None.  *)
DeltaUnsigned(sequence, expected) == (sequence - expected) % Modulus

Delta(sequence, expected) ==
    LET d == (sequence - expected) % Modulus
    IN IF d <= HalfRange THEN d ELSE d - Modulus

FirstByte(g) == (g.seq + IF g.syn THEN 1 ELSE 0) % Modulus

(* Payload p starts at position base of the buffer, base < Len(s.payload).   *)
Overlapped(s, p, base) ==
    IF \E i \in DOMAIN p : base + i \in DOMAIN s.payload /\ s.payload[base + i] # p[i]
    THEN Judged(s, "CONFLICT", "OVERLAP")
    ELSE IF base >= 0 /\ base + Len(p) <= Len(s.payload)
    THEN Judged(s, s.status, "DUPLICATE")
    ELSE Judged(s, "OVERLAP", "OVERLAP")

CompactedWhole(s) ==
    [s EXCEPT !.payload = <<>>,
              !.start = (@ + Len(s.payload)) % Modulus,
              !.offset = @ + Len(s.payload),
              !.consumed = 0]

Compacted(s) ==
    [s EXCEPT !.payload = SubSeq(@, s.consumed + 1, Len(@)),
              !.start = (@ + s.consumed) % Modulus,
              !.offset = @ + s.consumed,
              !.consumed = 0]

Fits(s, p) == Len(s.payload) + Len(p) <= MaxBytes

(* The bytes expected next: consumed ones make room if there is too little.  *)
Appended(s, sequence, p) ==
    LET t == IF ~Fits(s, p) /\ s.consumed > 0 THEN Compacted(s) ELSE s
        relation == IF s.start = None THEN "FIRST" ELSE "CONTIGUOUS"
    IN IF ~Fits(t, p) THEN Judged(t, "LIMIT_EXCEEDED", relation)
       ELSE [t EXCEPT !.payload = @ \o p,
                      !.start = IF @ = None THEN sequence ELSE @,
                      !.next = (sequence + Len(p)) % Modulus,
                      !.relation = relation]

(* _observe_payload                                                          *)
Received(s, g) ==
    LET d == IF s.next = None THEN 0 ELSE Delta(FirstByte(g), s.next)
    IN CASE g.payload = <<>> -> s
         [] g.payload # <<>> /\ d = HalfRange -> Judged(s, "AMBIGUOUS", "AMBIGUOUS")
         [] g.payload # <<>> /\ d > 0 /\ d # HalfRange -> Judged(s, "GAP", "GAP")
         [] g.payload # <<>> /\ d < 0 -> Overlapped(s, g.payload, Len(s.payload) + d)
         [] g.payload # <<>> /\ d = 0 -> Appended(s, FirstByte(g), g.payload)

Synchronized(s, g) ==
    IF g.syn /\ s.syn = None THEN [s EXCEPT !.syn = g.seq, !.next = FirstByte(g)] ELSE s

FinishedAnywhere(s, g) ==
    IF s.status # "OPEN" THEN s
    ELSE IF g.rst THEN [s EXCEPT !.status = "RESET"]
    ELSE IF g.fin
    THEN [s EXCEPT !.status = "FIN",
                   !.next = (FirstByte(g) + Len(g.payload) + 1) % Modulus]
    ELSE s

(* RST, or else a FIN, which must come right after the bytes received.       *)
Finished(s, g) ==
    LET end == (FirstByte(g) + Len(g.payload)) % Modulus
        d == IF s.next = None THEN 0 ELSE Delta(end, s.next)
    IN IF s.status # "OPEN" \/ (~g.rst /\ ~g.fin) THEN s
       ELSE IF g.rst THEN [s EXCEPT !.status = "RESET"]
       ELSE IF d = 0 THEN [s EXCEPT !.status = "FIN", !.next = (end + 1) % Modulus]
       ELSE [s EXCEPT !.status = IF d = HalfRange THEN "AMBIGUOUS"
                                 ELSE IF d > 0 THEN "GAP" ELSE "OVERLAP"]

Closed(s) == s.status \in {"FIN", "RESET"}
Restarts(s, g) == g.syn /\ s.next # None /\ s.syn # g.seq

(* _observe_segment                                                          *)
Observed(current, g) ==
    LET s == [current EXCEPT !.relation = "EMPTY"]
    IN IF Closed(s) /\ (g.payload # <<>> \/ g.syn) THEN Judged(s, "AFTER_CLOSE", "UNAVAILABLE")
       ELSE IF s.status # "OPEN"
       THEN Judged(s, s.status, IF g.payload # <<>> THEN "UNAVAILABLE" ELSE "EMPTY")
       ELSE IF g.fragmented THEN Judged(s, "FRAGMENTED", "UNAVAILABLE")
       ELSE IF Restarts(s, g) THEN Judged(s, "RESTART", "UNAVAILABLE")
       ELSE Finished(Received(Synchronized(s, g), g), g)

(* contiguous_payload is not None; unconsumed_payload; consumed_offset.      *)
Contiguous(s) == s.status = "OPEN" \/ Closed(s)
Unconsumed(s) == SubSeq(s.payload, s.consumed + 1, Len(s.payload))
ConsumedOffset(s) == s.offset + s.consumed

(* consume_tcp_stream                                                        *)
Consumed(s, n) == [s EXCEPT !.consumed = @ + n]

-----------------------------------------------------------------------------
TCPInit ==
    /\ stream = Fresh
    /\ sent \in [1 .. Length -> Bytes]
    /\ isn \in Origins
    /\ first = 0
    /\ genuine = TRUE

(* The sequence number of the byte after the first p bytes sent.             *)
SequenceOf(p) == (isn + 1 + p) % Modulus

(* Bytes p + 1 .. p + n of the sender.                                       *)
Segment(p, n, syn, fin, rst, fragmented) ==
    [seq |-> IF syn THEN isn ELSE SequenceOf(p), syn |-> syn, fin |-> fin, rst |-> rst,
     payload |-> SubSeq(sent, p + 1, p + n), fragmented |-> fragmented]

(* The first byte comes with the SYN or not, the last with the FIN or not.   *)
Segments(p, n) ==
    {Segment(p, n, syn /\ p = 0, fin /\ p + n = Length, rst, fragmented) :
        syn, fin, rst, fragmented \in BOOLEAN}

Strays == {[seq |-> q, syn |-> syn, fin |-> fin, rst |-> FALSE,
            payload |-> p, fragmented |-> FALSE] :
               q \in Sequences, syn \in BOOLEAN, fin \in BOOLEAN,
               p \in {<<>>} \cup {<<b>> : b \in Bytes}}

Took(p) == first' = IF stream.start = None /\ stream'.start # None THEN p ELSE first

ObserveSegment(p, n) ==
    /\ p + n <= Length
    /\ stream' \in {Observed(stream, g) : g \in Segments(p, n)}
    /\ Took(p)
    /\ UNCHANGED <<sent, isn, genuine>>

\* bound: one of them.
ObserveStray ==
    /\ genuine
    /\ stream' \in {Observed(stream, g) : g \in Strays}
    /\ genuine' = FALSE
    /\ UNCHANGED <<sent, isn, first>>

Consume ==
    /\ Contiguous(stream)
    /\ \E n \in 1 .. Len(Unconsumed(stream)) : stream' = Consumed(stream, n)
    /\ UNCHANGED <<sent, isn, first, genuine>>

TCPNext ==
    \/ \E p \in 0 .. Length, n \in 0 .. MaxSegment : ObserveSegment(p, n)
    \/ ObserveStray
    \/ Consume

TCPSpec == TCPInit /\ [][TCPNext]_tcpVars

-----------------------------------------------------------------------------
Reached(s) == first + s.offset + Len(s.payload)

(* However the sender's segments are lost, repeated, reordered and cut, the  *)
(* buffer is a piece of what was sent, under the right sequence numbers      *)
(* across their wrap-around; no segment is taken for a conflict; and an end  *)
(* is only believed when every byte up to it has arrived.                    *)
BufferIsStream ==
    genuine =>
        /\ stream.status \notin {"CONFLICT", "AMBIGUOUS"}
        /\ stream.start # None =>
              /\ stream.payload = SubSeq(sent, first + stream.offset + 1, Reached(stream))
              /\ stream.start = SequenceOf(first + stream.offset)
              /\ stream.syn # None => first = 0
        /\ stream.status = "FIN" /\ (stream.start # None \/ stream.syn # None) =>
              Reached(stream) = Length
        /\ stream.next # None /\ stream.status \notin {"FIN", "AFTER_CLOSE"} =>
              stream.next = SequenceOf(Reached(stream))

(* A repetition of buffered bytes, however it is cut, changes nothing: such  *)
(* a segment is neither a gap nor an overlap nor a conflict, on either side  *)
(* of the wrap-around.                                                       *)
Plain(g) == ~g.fin /\ ~g.rst /\ ~g.fragmented /\ (g.syn => stream.syn # None)

RepetitionHarmless ==
    genuine /\ stream.status = "OPEN" =>
        \A p \in first + stream.offset .. Reached(stream) - 1 :
            \A n \in 1 .. Reached(stream) - p : \A g \in Segments(p, n) :
                Plain(g) => Observed(stream, g) = [stream EXCEPT !.relation = "DUPLICATE"]

(* A byte that was not consumed stays available, whatever makes room in the  *)
(* buffer, until it is consumed in its turn; an observation that is no       *)
(* longer open takes no more bytes and is never trusted again.               *)
UnconsumedKept ==
    [][LET before == Unconsumed(stream)
           after == Unconsumed(stream')
           n == ConsumedOffset(stream') - ConsumedOffset(stream)
       IN /\ n >= 0
          /\ SubSeq(before, n + 1, Len(before)) = SubSeq(after, 1, Len(before) - n)
          /\ n > 0 => Len(after) = Len(before) - n
          /\ stream.status # "OPEN" => Len(after) = Len(before) - n /\ stream'.status # "OPEN"
          /\ ~Contiguous(stream) => stream'.status = stream.status]_tcpVars
=============================================================================
