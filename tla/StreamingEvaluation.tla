-------------------------- MODULE StreamingEvaluation --------------------------
(***************************************************************************)
(* run_streaming_evaluation of application/streaming_evaluation.py: the    *)
(* detection stream records its findings with the incremental evaluator,   *)
(* whose consumers are the two record methods of IncrementalDetection-     *)
(* Metrics.  When all three succeed the metrics are returned; whatever     *)
(* raises, the metrics and then the evaluator are aborted and the          *)
(* exception goes on.  The stream itself (DetectionStream) appears as the  *)
(* sequence of findings it delivers, ended by a return or an exception.    *)
(***************************************************************************)
EXTENDS IncrementalEvaluation

VARIABLES counts,     \* _packets.counts, _flows.counts: channel -> class -> Nat
          metrics,    \* _state of the metrics between two calls
          stage,      \* what run_streaming_evaluation is doing
          streamed    \* history: how run_detection_stream ended

streamingVars == <<counts, metrics, stage, streamed, evaluatorVars>>

NoCounts == [c \in Classifications |-> 0]

(* The ground truth has each target once; a run starts with a fresh          *)
(* evaluator and fresh metrics.                                              *)
StreamingInit ==
    /\ EvaluationInit
    /\ \A ch \in Channels : \A i, j \in DOMAIN expected[ch] :
            expected[ch][i].identity = expected[ch][j].identity => i = j
    /\ counts = [ch \in Channels |-> NoCounts]
    /\ metrics = "open"
    /\ stage = "streaming"
    /\ streamed = "running"

(* A finding of the stream reaches the evaluator.                            *)
StreamRecords ==
    /\ stage = "streaming"
    /\ \E ch \in Channels : Record(ch)
    /\ UNCHANGED <<counts, metrics, stage, streamed>>

(* The metrics are the evaluator's consumer: record_packet, record_flow.     *)
MetricsRecord ==
    /\ ConsumerReturns
    /\ metrics = "open"
    /\ counts' = [counts EXCEPT ![call.channel][Head(due).class] = @ + 1]
    /\ UNCHANGED <<metrics, stage, streamed>>

(* A record call of the metrics raises, and everything up to the handler.    *)
MetricsRecordRaises ==
    /\ ConsumerRaises
    /\ metrics' = "failed"
    /\ streamed' = IF stage = "streaming" THEN "raised" ELSE streamed
    /\ stage' = "handling"
    /\ UNCHANGED counts

EvaluatorRecordReturns ==
    /\ RecordReturns
    /\ UNCHANGED <<counts, metrics, stage, streamed>>

(* The evaluator refuses a finding before any consumer is called.            *)
EvaluatorRecordRaises ==
    /\ stage = "streaming"
    /\ RecordRejected
    /\ streamed' = "raised"
    /\ stage' = "handling"
    /\ UNCHANGED <<counts, metrics>>

(* run_detection_stream returns, or raises for reasons of its own.           *)
StreamEnds ==
    /\ stage = "streaming"
    /\ evaluator = "open"
    /\ \/ streamed' = "returned" /\ stage' = "evaluating"
       \/ streamed' = "raised" /\ stage' = "handling"
    /\ UNCHANGED <<counts, metrics, evaluatorVars>>

-----------------------------------------------------------------------------
EvaluatorFinishes ==
    /\ stage = "evaluating"
    /\ \/ Finish /\ UNCHANGED stage
       \/ FinishFlows /\ UNCHANGED stage
       \/ FinishReturns /\ stage' = "measuring"
    /\ UNCHANGED <<counts, metrics, streamed>>

EvaluatorFinishRaises ==
    /\ stage = "evaluating"
    /\ FinishRejected
    /\ stage' = "handling"
    /\ UNCHANGED <<counts, metrics, streamed>>

(* A slip, for the property below to be seen to fail on; not used.           *)
MetricsFinishFirst ==
    /\ stage \in {"evaluating", "measuring"}
    /\ metrics = "open"
    /\ \/ metrics' = "finished" /\ stage' = "returned"
       \/ metrics' = "failed" /\ stage' = "handling"
    /\ UNCHANGED <<counts, streamed, evaluatorVars>>

(* metrics.finish() returns the result or raises.                            *)
MetricsFinish ==
    /\ stage = "measuring"
    /\ metrics = "open"
    /\ \/ metrics' = "finished" /\ stage' = "returned"
       \/ metrics' = "failed" /\ stage' = "handling"
    /\ UNCHANGED <<counts, streamed, evaluatorVars>>

(* The handler: metrics.abort(), then evaluator.abort() unless it finished.  *)
Handle ==
    /\ stage = "handling"
    /\ metrics \in {"open", "failed"}
    /\ metrics' = "failed"
    /\ IF evaluator = "finished" THEN UNCHANGED evaluatorVars ELSE Abort
    /\ stage' = "raised"
    /\ UNCHANGED <<counts, streamed>>

Over == stage \in {"returned", "raised"} /\ UNCHANGED streamingVars

StreamingNext ==
    \/ StreamRecords
    \/ MetricsRecord
    \/ MetricsRecordRaises
    \/ EvaluatorRecordReturns
    \/ EvaluatorRecordRaises
    \/ StreamEnds
    \/ EvaluatorFinishes
    \/ EvaluatorFinishRaises
    \/ MetricsFinish
    \/ Handle
    \/ Over

StreamingSpec == StreamingInit /\ [][StreamingNext]_streamingVars

-----------------------------------------------------------------------------
(* Metrics are returned only for a complete stream, and are those that the   *)
(* batch evaluation of the same findings gives; a run that raises leaves     *)
(* neither an evaluator nor metrics that a later call could complete.        *)
MetricsOrNothing ==
    /\ metrics = "finished" \/ stage = "returned" =>
           /\ streamed = "returned"
           /\ \A ch \in Channels : counts[ch] = Aggregate(Batch(ch))
    /\ stage = "raised" =>
           /\ metrics = "failed"
           /\ evaluator \in {"failed", "finished"}
           /\ \A ch \in Channels : pending[ch] = <<>>

(* Recall is taken over the ground truth: of each channel, true positives    *)
(* and false negatives are together as many as its positive records.         *)
RecallOverTruth ==
    stage = "returned" =>
        \A ch \in Channels :
            counts[ch]["true_positive"] + counts[ch]["false_negative"] =
                Cardinality({e \in DOMAIN expected[ch] : expected[ch][e].positive})
=============================================================================
