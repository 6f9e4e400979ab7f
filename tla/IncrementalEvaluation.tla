------------------------- MODULE IncrementalEvaluation -------------------------
(***************************************************************************)
(* IncrementalDetectionEvaluator of                                        *)
(* application/incremental_detection_evaluation.py: findings are recorded  *)
(* one by one on two channels, and the entries that can be settled are     *)
(* handed to the channel's consumer at once.  A consumer returns, raises   *)
(* or calls the evaluator again; a call that finds the evaluator busy,     *)
(* failed or finished is refused and changes nothing, so that no action    *)
(* stands for it.                                                          *)
(***************************************************************************)
EXTENDS DetectionEvaluation

CONSTANTS MaxFindings,       \* bound: findings recorded, both channels together
          MaxExpectations    \* bound: expectations, both channels together

ASSUME EvaluationBounds == MaxFindings \in Nat /\ MaxExpectations \in Nat

VARIABLES expected,    \* the ExpectedDetectionResult: channel -> expectations
          recorded,    \* history: channel -> findings that got an index
          used,        \* used: channel -> expectations matched
          pending,     \* pending_findings: channel -> the deferred suffix
          evaluator,   \* _state
          call,        \* the call a busy evaluator is in, and its channel
          due,         \* entries of that call still to be handed over
          published    \* history: channel -> entries its consumer was called with

evaluatorVars == <<expected, recorded, used, pending, evaluator, call, due, published>>

Idle == [kind |-> "none", channel |-> "packet"]

-----------------------------------------------------------------------------
PositionsOf(ch) == IF ch = "packet" THEN 1 .. MaxFindings ELSE {0}

ExpectationsOf(ch) ==
    {s \in UNION {[1 .. n -> [identity : [position : PositionsOf(ch), target : Targets],
                              positive : BOOLEAN]] : n \in 0 .. MaxExpectations} :
        Admissible(s)}

EvaluationInit ==
    /\ expected \in {x \in [Channels -> UNION {ExpectationsOf(ch) : ch \in Channels}] :
                        /\ \A ch \in Channels : x[ch] \in ExpectationsOf(ch)
                        /\ Len(x["packet"]) + Len(x["flow"]) <= MaxExpectations}
    /\ recorded = [ch \in Channels |-> <<>>]
    /\ used = [ch \in Channels |-> {}]
    /\ pending = [ch \in Channels |-> <<>>]
    /\ evaluator = "open"
    /\ call = Idle
    /\ due = <<>>
    /\ published = [ch \in Channels |-> <<>>]

(* A finding for the channel's next index.                                   *)
FindingsNow(ch) ==
    [identity : [position : IF ch = "packet" THEN {Len(recorded[ch]) + 1} ELSE {0},
                 target : Targets],
     decision : Decisions]

MayRecord ==
    /\ evaluator = "open"
    /\ Len(recorded["packet"]) + Len(recorded["flow"]) < MaxFindings

(* _match_current: the first expectation of that identity not yet used, 0 if *)
(* there is none.                                                            *)
MatchCurrent(ch, finding) ==
    LET free == {e \in DOMAIN expected[ch] :
                    e \notin used[ch] /\ expected[ch][e].identity = finding.identity}
    IN IF free = {} THEN 0 ELSE Least(free)

(* A flow finding that meets an expectation only for want of a better one.   *)
Displaceable(ch, finding) ==
    LET e == MatchCurrent(ch, finding)
    IN ch = "flow" /\ e # 0 /\ finding.decision # Required(expected[ch][e])

Index(ch, finding) == recorded' = [recorded EXCEPT ![ch] = Append(@, finding)]

(* Once a finding waits, every later one of its channel waits behind it.     *)
RecordBehind(ch, finding) ==
    /\ MayRecord
    /\ pending[ch] # <<>>
    /\ Index(ch, finding)
    /\ pending' = [pending EXCEPT ![ch] = Append(@, finding)]
    /\ UNCHANGED <<expected, used, evaluator, call, due, published>>

RecordDeferred(ch, finding) ==
    /\ MayRecord
    /\ pending[ch] = <<>>
    /\ Displaceable(ch, finding)
    /\ Index(ch, finding)
    /\ pending' = [pending EXCEPT ![ch] = <<finding>>]
    /\ UNCHANGED <<expected, used, evaluator, call, due, published>>

(* The finding's entry is settled; its consumer is about to be called.       *)
RecordSettled(ch, finding) ==
    /\ MayRecord
    /\ pending[ch] = <<>>
    /\ ~Displaceable(ch, finding)
    /\ Index(ch, finding)
    /\ LET e == MatchCurrent(ch, finding)
       IN /\ due' = <<Entry(expected[ch], e, recorded'[ch], Len(recorded'[ch]))>>
          /\ used' = [used EXCEPT ![ch] = @ \cup ({e} \ {0})]
    /\ evaluator' = "busy"
    /\ call' = [kind |-> "record", channel |-> ch]
    /\ UNCHANGED <<expected, pending, published>>

Fail ==
    /\ evaluator' = "failed"
    /\ pending' = [ch \in Channels |-> <<>>]
    /\ call' = Idle
    /\ due' = <<>>
    /\ UNCHANGED <<expected, recorded, used>>

(* No exact finding, one of the other channel, or an entry that cannot be    *)
(* built: the channel raised before it called its consumer.                  *)
RecordRejected ==
    /\ evaluator = "open"
    /\ Fail
    /\ UNCHANGED published

-----------------------------------------------------------------------------
(* The consumer is called with the next entry; a finding that waited is      *)
(* taken off the suffix just before.                                         *)
HandOver ==
    /\ evaluator = "busy"
    /\ due # <<>>
    /\ published' = [published EXCEPT ![call.channel] = Append(@, Head(due))]

ConsumerReturns ==
    /\ HandOver
    /\ due' = Tail(due)
    /\ pending' = IF call.kind = "finish" /\ pending[call.channel] # <<>>
                  THEN [pending EXCEPT ![call.channel] = Tail(@)]
                  ELSE pending
    /\ UNCHANGED <<expected, recorded, used, evaluator, call>>

ConsumerRaises == HandOver /\ Fail

RecordReturns ==
    /\ evaluator = "busy"
    /\ call.kind = "record"
    /\ due = <<>>
    /\ evaluator' = "open"
    /\ call' = Idle
    /\ UNCHANGED <<expected, recorded, used, pending, due, published>>

-----------------------------------------------------------------------------
(* FinishChannelAfresh is never used by the model: it stands for what the    *)
(* definition after it might have been, so that a property can be seen to    *)
(* fail on it.                                                               *)
FinishChannelAfresh(ch) ==
    LET waiting == pending[ch]
        assignment == MatchFindings(waiting, expected[ch], {})
    IN /\ due' = EntriesOf(waiting, expected[ch], assignment, Len(recorded[ch]) - Len(waiting))
                    \o Missing(expected[ch], used[ch] \cup Assigned(assignment))
       /\ used' = [used EXCEPT ![ch] = @ \cup Assigned(assignment)]
       /\ call' = [kind |-> "finish", channel |-> ch]

(* _EvaluationChannel.finish(): the suffix that waited is matched against    *)
(* what is left, then the expectations that nothing met are due.             *)
FinishChannel(ch) ==
    LET waiting == pending[ch]
        assignment == MatchFindings(waiting, expected[ch], used[ch])
    IN /\ due' = EntriesOf(waiting, expected[ch], assignment, Len(recorded[ch]) - Len(waiting))
                    \o Missing(expected[ch], used[ch] \cup Assigned(assignment))
       /\ used' = [used EXCEPT ![ch] = @ \cup Assigned(assignment)]
       /\ call' = [kind |-> "finish", channel |-> ch]

Finish ==
    /\ evaluator = "open"
    /\ evaluator' = "busy"
    /\ FinishChannel("packet")
    /\ UNCHANGED <<expected, recorded, pending, published>>

FinishFlows ==
    /\ evaluator = "busy"
    /\ call = [kind |-> "finish", channel |-> "packet"]
    /\ due = <<>>
    /\ FinishChannel("flow")
    /\ UNCHANGED <<expected, recorded, pending, evaluator, published>>

FinishReturns ==
    /\ evaluator = "busy"
    /\ call = [kind |-> "finish", channel |-> "flow"]
    /\ due = <<>>
    /\ evaluator' = "finished"
    /\ call' = Idle
    /\ UNCHANGED <<expected, recorded, used, pending, due, published>>

(* Matching the suffix, or building an entry, raises.                        *)
FinishRejected ==
    /\ evaluator = "busy"
    /\ call.kind = "finish"
    /\ Fail
    /\ UNCHANGED published

(* Nothing is left to do for a second finish().                              *)
FinishAgain == evaluator = "finished" /\ UNCHANGED evaluatorVars

Abort ==
    /\ evaluator \in {"open", "failed"}
    /\ Fail
    /\ UNCHANGED published

Record(ch) ==
    \E finding \in FindingsNow(ch) :
        \/ RecordBehind(ch, finding)
        \/ RecordDeferred(ch, finding)
        \/ RecordSettled(ch, finding)

EvaluationNext ==
    \/ \E ch \in Channels : Record(ch)
    \/ RecordRejected
    \/ ConsumerReturns
    \/ ConsumerRaises
    \/ RecordReturns
    \/ Finish
    \/ FinishFlows
    \/ FinishReturns
    \/ FinishRejected
    \/ FinishAgain
    \/ Abort

EvaluationSpec == EvaluationInit /\ [][EvaluationNext]_evaluatorVars

-----------------------------------------------------------------------------
Batch(ch) == EvaluateChannel(recorded[ch], expected[ch])

PrefixOf(s, t) == Len(s) <= Len(t) /\ \A i \in DOMAIN s : s[i] = t[i]

(* At any moment, whatever is recorded later, what the consumers were given  *)
(* is the beginning of what the batch evaluation of the same findings gives, *)
(* and all of it once the evaluator is finished.                             *)
PublishedIsBatch ==
    \A ch \in Channels :
        /\ PrefixOf(published[ch], Batch(ch))
        /\ evaluator = "finished" => published[ch] = Batch(ch)

(* Matching wastes no agreement: of every identity, as many expectations are *)
(* met by their own decision as there are expectations and such findings.    *)
AgreementsMaximal ==
    evaluator = "finished" =>
        \A ch \in Channels : \A e \in DOMAIN expected[ch] :
            LET same == {x \in DOMAIN expected[ch] : expected[ch][x].identity = expected[ch][e].identity}
                right == {a \in DOMAIN recorded[ch] :
                             /\ recorded[ch][a].identity = expected[ch][e].identity
                             /\ recorded[ch][a].decision = Required(expected[ch][e])}
                met == {i \in DOMAIN published[ch] :
                           /\ published[ch][i].expected \in same
                           /\ published[ch][i].actual \in right}
            IN Cardinality(met) = IF Cardinality(right) < Cardinality(same)
                                  THEN Cardinality(right) ELSE Cardinality(same)
=============================================================================
