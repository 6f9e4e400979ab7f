-------------------------- MODULE DetectionEvaluation --------------------------
(***************************************************************************)
(* The evaluation of a complete sequence of findings against a sequence of *)
(* expectations: application/detection_evaluation.py, and the counts that  *)
(* application/detection_metrics.py makes of its entries.                  *)
(*                                                                         *)
(* An identity is what a finding and an expectation must share: the target *)
(* and, for packets, the position of the finding among the packet          *)
(* findings; position 0 stands for flows, which have none.  Indices start  *)
(* at 1 here, and 0 is None.                                               *)
(***************************************************************************)
EXTENDS Integers, Sequences, FiniteSets

CONSTANT Targets

Channels == {"packet", "flow"}
Decisions == {"match", "no_match", "not_evaluable"}
Classifications == {"true_positive", "false_positive", "false_negative",
                    "true_negative", "unclassified"}

(* ExpectedDetectionResult: an identity is not expected both ways.           *)
Admissible(expectations) ==
    \A i, j \in DOMAIN expectations :
        expectations[i].identity = expectations[j].identity =>
            expectations[i].positive = expectations[j].positive

Required(expectation) == IF expectation.positive THEN "match" ELSE "no_match"
Opposite(expectation) == IF expectation.positive THEN "no_match" ELSE "match"

(* WantedOppositeFirst and ClassificationEvaluated are never used by the     *)
(* model: each stands for what the definition after it might have been, so   *)
(* that a property can be seen to fail on it.                                *)
WantedOppositeFirst(expectation, phase) ==
    CASE phase = 1 -> Opposite(expectation)
      [] phase = 2 -> Required(expectation)
      [] phase = 3 -> "not_evaluable"

(* The decision an expectation looks for in the three phases of matching.    *)
Wanted(expectation, phase) ==
    CASE phase = 1 -> Required(expectation)
      [] phase = 2 -> Opposite(expectation)
      [] phase = 3 -> "not_evaluable"

Least(S) == CHOOSE i \in S : \A j \in S : i <= j

Assigned(assignment) == {assignment[a] : a \in DOMAIN assignment} \ {0}

(* The findings that an expectation may take in a phase.                     *)
Candidates(findings, expectation, phase, assignment) ==
    {a \in DOMAIN findings :
        /\ assignment[a] = 0
        /\ findings[a].identity = expectation.identity
        /\ findings[a].decision = Wanted(expectation, phase)}

(* The turn of one expectation: unless it is used, it takes the first of its *)
(* candidates.                                                               *)
Turn(findings, expectations, used, phase, assignment, e) ==
    LET candidates == Candidates(findings, expectations[e], phase, assignment)
    IN IF e \in used \cup Assigned(assignment) \/ candidates = {}
       THEN assignment
       ELSE [assignment EXCEPT ![Least(candidates)] = e]

(* The assignment after the turns of the first e expectations in a phase.    *)
Turns(findings, expectations, used, phase, before) ==
    LET after[e \in 0 .. Len(expectations)] ==
            IF e = 0 THEN before
            ELSE Turn(findings, expectations, used, phase, after[e - 1], e)
    IN after

Phase(findings, expectations, used, phase, before) ==
    Turns(findings, expectations, used, phase, before)[Len(expectations)]

(* _match_findings: phase by phase, every expectation in order has its turn. *)
MatchFindings(findings, expectations, used) ==
    LET none == [a \in DOMAIN findings |-> 0]
        required == Phase(findings, expectations, used, 1, none)
        opposite == Phase(findings, expectations, used, 2, required)
    IN Phase(findings, expectations, used, 3, opposite)

ClassificationEvaluated(expectations, e, findings, a) ==
    LET positive == e # 0 /\ expectations[e].positive
    IN IF a # 0 /\ findings[a].decision = "match"
       THEN IF positive THEN "true_positive" ELSE "false_positive"
       ELSE IF a = 0 \/ findings[a].decision = "not_evaluable" THEN "unclassified"
       ELSE IF positive THEN "false_negative"
       ELSE IF e # 0 THEN "true_negative" ELSE "unclassified"

(* _classification(expectation, finding), of which one may be missing (0).   *)
Classification(expectations, e, findings, a) ==
    LET positive == e # 0 /\ expectations[e].positive
    IN IF a # 0 /\ findings[a].decision = "match"
       THEN IF positive THEN "true_positive" ELSE "false_positive"
       ELSE IF positive THEN "false_negative"
       ELSE IF e # 0 /\ a # 0 /\ findings[a].decision = "no_match"
            THEN "true_negative" ELSE "unclassified"

Entry(expectations, e, findings, a) ==
    [class |-> Classification(expectations, e, findings, a), expected |-> e, actual |-> a]

(* One entry per finding, at its offset among all findings of the channel.   *)
EntriesOf(findings, expectations, assignment, offset) ==
    [a \in DOMAIN findings |->
        [Entry(expectations, assignment[a], findings, a) EXCEPT !.actual = offset + a]]

(* The i-th of a set of numbers in their order.                              *)
Nth(S, i) == CHOOSE n \in S : Cardinality({m \in S : m < n}) = i - 1

(* The expectations nobody met, in their order.                              *)
Missing(expectations, used) ==
    LET unmet == DOMAIN expectations \ used
    IN [i \in 1 .. Cardinality(unmet) |-> Entry(expectations, Nth(unmet, i), <<>>, 0)]

(* _evaluate_channel(findings, expectations, packet).                        *)
EvaluateChannel(findings, expectations) ==
    LET assignment == MatchFindings(findings, expectations, {})
    IN EntriesOf(findings, expectations, assignment, 0)
          \o Missing(expectations, Assigned(assignment))

(* _aggregate(entries).                                                      *)
Aggregate(entries) ==
    [c \in Classifications |-> Cardinality({i \in DOMAIN entries : entries[i].class = c})]
=============================================================================
