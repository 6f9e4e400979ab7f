----------------------------- MODULE StreamFraming -----------------------------
(***************************************************************************)
(* The loop that dns_stream_framing.py, tls_record_framing.py and          *)
(* tls_handshake_framing.py share: a header of fixed size, whose last      *)
(* bytes declare a length, then a payload of that length, over and over,   *)
(* from data that may end anywhere.  They differ in three numbers, here a  *)
(* format.  A header is kept as its bytes, <<>> where the code has None.   *)
(***************************************************************************)
EXTENDS Integers, SequencesExt

CONSTANT Base      \* 256, number of values of a byte

ASSUME BaseAssumption == Base \in Nat \ {0}

(* header: its bytes; size: those of the length; limit: the greatest length. *)
Formats == {f \in [header : Nat, size : Nat, limit : Nat] : 1 <= f.size /\ f.size <= f.header}

NoReason == "NONE"
Idle == [prefix |-> <<>>, header |-> <<>>, payload |-> <<>>, reason |-> NoReason]

(* The length a header declares, the most significant byte first.            *)
Declared(format, header) ==
    LET value[i \in 0 .. format.size] ==
            IF i = 0 THEN 0
            ELSE value[i - 1] * Base + header[format.header - format.size + i]
    IN value[format.size]

Least(m, n) == IF m <= n THEN m ELSE n
Dropped(data, count) == SubSeq(data, count + 1, Len(data))

(* A pass over some data: the framer, the frames completed, the bytes left.  *)
HeaderRead(format, pass) ==
    LET count == Least(format.header - Len(pass.framer.prefix), Len(pass.left))
        prefix == pass.framer.prefix \o SubSeq(pass.left, 1, count)
        whole == Len(prefix) = format.header
    IN [pass EXCEPT
          !.left = Dropped(@, count),
          !.framer.prefix = IF whole THEN <<>> ELSE prefix,
          !.framer.header = IF whole THEN prefix ELSE @,
          !.framer.reason = IF whole /\ Declared(format, prefix) > format.limit
                            THEN "LIMIT_EXCEEDED" ELSE @]

PayloadRead(format, pass) ==
    LET header == pass.framer.header
        count == Least(Declared(format, header) - Len(pass.framer.payload), Len(pass.left))
        payload == pass.framer.payload \o SubSeq(pass.left, 1, count)
        whole == Len(payload) = Declared(format, header)
    IN [pass EXCEPT
          !.left = Dropped(@, count),
          !.framer.header = IF whole THEN <<>> ELSE @,
          !.framer.payload = IF whole THEN <<>> ELSE payload,
          !.frames = IF whole THEN Append(@, [header |-> header, payload |-> payload]) ELSE @]

(* A slip for a property to be seen to fail on; nothing uses it.             *)
TurnWaiting(format, pass) ==
    IF pass.framer.header = <<>> THEN HeaderRead(format, pass) ELSE PayloadRead(format, pass)

(* One turn of the while loop.  A payload of no bytes is complete at once.   *)
Turn(format, pass) ==
    LET read == IF pass.framer.header = <<>> THEN HeaderRead(format, pass) ELSE pass
    IN IF read.framer.header = <<>> \/ read.framer.reason # NoReason
       THEN read ELSE PayloadRead(format, read)

(* Every turn takes a byte, so that there are at most Len(data).             *)
Framed(format, framer, data) ==
    LET turns[n \in 0 .. Len(data)] ==
            IF n = 0 THEN [framer |-> framer, frames |-> <<>>, left |-> data]
            ELSE LET pass == turns[n - 1]
                 IN IF pass.left = <<>> \/ pass.framer.reason # NoReason
                    THEN pass ELSE Turn(format, pass)
    IN turns[Len(data)]
=============================================================================
