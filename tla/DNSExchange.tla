----------------------------- MODULE DNSExchange -----------------------------
(***************************************************************************)
(* What the correlation of a window should come to, said of the sequence   *)
(* of its messages alone, without a pending table.                         *)
(***************************************************************************)
EXTENDS DNSCorrelation

IsRequest(s, i) == ~s[i].response

SameKey(s, q, p) ==
    /\ IsRequest(s, q) /\ IsRequest(s, p)
    /\ s[q].direction = s[p].direction /\ s[q].id = s[p].id

(* The response r has the identifier of the request q, the other way round.  *)
Addresses(s, q, r) ==
    /\ q < r
    /\ IsRequest(s, q) /\ ~IsRequest(s, r)
    /\ s[q].direction # s[r].direction /\ s[q].id = s[r].id

Answers(s, q, r) == Addresses(s, q, r) /\ s[q].content = s[r].content

(* Two requests of a key with no answer to the first before the second: from *)
(* the second on, nobody can tell which one a response belongs to.           *)
Crossed(s, q, p) ==
    /\ q < p
    /\ SameKey(s, q, p)
    /\ \A i \in q + 1 .. p - 1 : ~SameKey(s, q, i) /\ ~Answers(s, q, i)

(* The key of request q is beyond telling apart when message i arrives.      *)
Poisoned(s, q, i) == \E a, b \in 1 .. i - 1 : SameKey(s, a, q) /\ Crossed(s, a, b)

Outstanding(s, i) ==
    {q \in 1 .. i - 1 :
        /\ IsRequest(s, q)
        /\ Poisoned(s, q, i) \/ \A r \in q + 1 .. i - 1 : ~Answers(s, q, r)}

OneTooMany(s, i) ==
    /\ IsRequest(s, i)
    /\ \A q \in Outstanding(s, i) : ~SameKey(s, q, i)
    /\ Cardinality({<<s[q].direction, s[q].id>> : q \in Outstanding(s, i)}) = MaxPending

GivenUp(s, i) == \E j \in 1 .. i - 1 : OneTooMany(s, j)

(* The response r is the first answer to the only request of its key.        *)
Matches(s, q, r) ==
    /\ Answers(s, q, r)
    /\ ~GivenUp(s, r)
    /\ ~Poisoned(s, q, r)
    /\ \A p \in q + 1 .. r - 1 : ~Answers(s, q, p)

Matched(s) == {r \in DOMAIN s : \E q \in DOMAIN s : Matches(s, q, r)}

Ambiguous(s) ==
    {i \in DOMAIN s :
        /\ ~GivenUp(s, i)
        /\ \/ \E q \in Outstanding(s, i) : SameKey(s, q, i)
           \/ \E q \in 1 .. i - 1 : Addresses(s, q, i) /\ Poisoned(s, q, i)}

Unmatched(s) == {r \in DOMAIN s : ~IsRequest(s, r)} \ (Matched(s) \cup Ambiguous(s))

Unanswered(s) ==
    {q \in DOMAIN s : /\ IsRequest(s, q)
                      /\ q \notin Ambiguous(s)
                      /\ ~\E r \in DOMAIN s : Matches(s, q, r)}

(* The outcome of every message is the one the exchange itself implies: a    *)
(* response is matched if and only if it is the first answer to the only     *)
(* request outstanding for its key, nothing is matched after the table was   *)
(* given up, and an unanswered request is unresolved once it cannot be       *)
(* answered any more.                                                        *)
Unresolved(d, s) ==
    IF GivenUp(s, Len(s) + 1) \/ (closed /\ d = state) THEN Unanswered(s) ELSE {}

StatisticsOfExchange ==
    \A d \in Live :
        /\ d.stats["MATCHED"] = Cardinality(Matched(d.seen))
        /\ d.stats["AMBIGUOUS"] = Cardinality(Ambiguous(d.seen))
        /\ d.stats["UNMATCHED"] = Cardinality(Unmatched(d.seen))
        /\ d.stats["UNRESOLVED"] = Cardinality(Unresolved(d, d.seen))

(* A match that is published names the request the exchange gives it.        *)
MatchesNameTheirRequest ==
    \A d \in Live : \A i \in DOMAIN d.observations :
        d.observations[i].status = "MATCHED" =>
            Matches(d.seen, d.observations[i].request, d.observations[i].message)
=============================================================================
