----------------------------- MODULE FlowDetection -----------------------------
(***************************************************************************)
(* From the accumulators of a closed window to findings: the feature       *)
(* snapshot (flow_feature_snapshot.py and the extractor of each group of   *)
(* features), the three detectors (flow_volume_threshold.py,               *)
(* tcp_control_threshold.py, packet_integrity.py), the findings            *)
(* (detection_finding.py) and the orchestration that runs the detectors    *)
(* on each outcome and on each closed window (detector_orchestration.py).  *)
(*                                                                         *)
(* A number that the code keeps as a float is a fraction <<n, d>>, d > 0,  *)
(* so that features are exact here; standard deviations are left out.      *)
(***************************************************************************)
EXTENDS FlowAccumulation

CONSTANT Configurations
  \* the detection sessions: [volume, control] with a metric and a threshold
  \* each, where control may be None

VARIABLES
  configuration,    \* the DetectionSession, fixed for the capture
  packet_finding,   \* the finding of the last packet, or None
  window,           \* "open", then "detected" or "raised"
  flow_findings     \* the findings of the closed window

allVars == <<vars, configuration, packet_finding, window, flow_findings>>

-----------------------------------------------------------------------------
(* Fractions                                                               *)

Ratio(n, d) == IF d = 0 THEN <<0, 1>> ELSE <<n, d>>

InUnit(r) == 0 <= r[1] /\ r[1] <= r[2]

Exceeds(r, threshold) == r[1] > threshold * r[2]

-----------------------------------------------------------------------------
(* Features                                                                *)

\* FlowFeatureInput: volumes of the flow and of each direction.
FeatureInput(s) ==
  [all |-> [packet_count |-> s.flow.packet_count, captured |-> s.flow.captured,
            original |-> s.flow.original],
   forward |-> s.directional["forward"], reverse |-> s.directional["reverse"]]

FeatureInputRefuses(i) ==
  \E scope \in DOMAIN i : \/ \E part \in DOMAIN i[scope] : i[scope][part] < 0
                          \/ i[scope].original < i[scope].captured

VolumeFeatures(i) ==
  [volume |-> i,
   share |-> [d \in Directions |-> [part \in DOMAIN i[d] |-> Ratio(i[d][part], i.all[part])]],
   capture |-> Ratio(i.all.captured, i.all.original)]

VolumeRefuses(v) ==
  \/ ~InUnit(v.capture)
  \/ \E d \in Directions : \E part \in DOMAIN v.share[d] : ~InUnit(v.share[d][part])

\* A plausible mistake: the mean of the squares less the square of the total.
MomentsUnscaled(a) ==
  [mean |-> Ratio(a.total, a.count),
   variance |-> Ratio(a.squares - a.total * a.total, a.count * a.count),
   least |-> a.least, greatest |-> a.greatest]

\* A plausible mistake: the variance of a sample, not of the population.
MomentsOfSample(a) ==
  [mean |-> Ratio(a.total, a.count),
   variance |-> Ratio(a.count * a.squares - a.total * a.total, a.count * (a.count - 1)),
   least |-> a.least, greatest |-> a.greatest]

\* Mean and population variance of a running summary that is not empty.
Moments(a) ==
  [mean |-> Ratio(a.total, a.count),
   variance |-> Ratio(a.count * a.squares - a.total * a.total, a.count * a.count),
   least |-> a.least, greatest |-> a.greatest]

MomentsRefuse(m) == m.variance[1] < 0 \/ m.least > m.greatest

\* Sizes of a direction without packets are zero.
SizeFeatures(s) ==
  [captured |-> Moments(s["all"]["captured"]), original |-> Moments(s["all"]["original"]),
   forward |-> Moments(s["forward"]["captured"]), reverse |-> Moments(s["reverse"]["captured"])]

Duration(s) == s.last - s.first

\* A plausible mistake: a window without a duration is one of one second.
RateFeaturesOfInstant(s) ==
  [part \in {"packet_count", "captured", "original"} |->
     <<s[part], IF Duration(s) = 0 THEN 1 ELSE Duration(s)>>]

\* There are no rates for a window whose packets have all the same time.
RateFeatures(s) ==
  IF Duration(s) = 0 THEN None
  ELSE [part \in {"packet_count", "captured", "original"} |-> <<s[part], Duration(s)>>]

\* Intervals of a flow of one packet are zero.
IntervalFeatures(s) == Moments(s.gaps)

\* Intervals of a direction that has none are not available.
DirectionalIntervalFeatures(s) ==
  [d \in Directions |-> IF s.gaps[d].count = 0 THEN None ELSE Moments(s.gaps[d])]

DirectionalIntervalsRefuseFeatures(s) ==
  \/ s.packet_count < 1
  \/ s.gaps["forward"].count + s.gaps["reverse"].count
       # s.packet_count - Cardinality(Observed(s))
  \/ \E d \in Directions : /\ s.gaps[d].count = 0
                           /\ \/ s.gaps[d].total # 0 \/ s.gaps[d].squares # 0
                              \/ s.gaps[d].least # 0 \/ s.gaps[d].greatest # 0

Snapshot(s) ==
  [identity |-> s.identity, control |-> s.control,
   volume |-> VolumeFeatures(FeatureInput(s)), sizes |-> SizeFeatures(s.sizes),
   duration |-> Duration(s.flow), rates |-> RateFeatures(s.flow),
   intervals |-> IntervalFeatures(s.intervals),
   directional |-> DirectionalIntervalFeatures(s.directional_intervals)]

\* An extractor raises an exception at the state of a window.
SnapshotRefused(s) ==
  LET snapshot == Snapshot(s)
  IN \/ FeatureInputRefuses(FeatureInput(s)) \/ VolumeRefuses(snapshot.volume)
     \/ snapshot.duration < 0
     \/ \E kind \in DOMAIN snapshot.sizes : MomentsRefuse(snapshot.sizes[kind])
     \/ MomentsRefuse(snapshot.intervals)
     \/ DirectionalIntervalsRefuseFeatures(s.directional_intervals)
     \/ \E d \in Directions : /\ snapshot.directional[d] # None
                              /\ MomentsRefuse(snapshot.directional[d])

-----------------------------------------------------------------------------
(* The detectors.  A volume metric is [part, of] with of a scope of the    *)
(* volume or "second"; a control metric is [direction, flag], where flag   *)
(* may be "syn_ack".  A threshold of a rate is a fraction's numerator over *)
(* one second.                                                             *)

VolumeMetrics ==
  [part : {"packet_count", "captured", "original"}, of : {"all", "forward", "reverse", "second"}]

ControlMetrics == [direction : Directions, flag : TCPFlags \cup {"syn_ack"}]

VolumeDetectors == [metric : VolumeMetrics, threshold : Nat]

ControlDetectors == [metric : ControlMetrics, threshold : Nat]

\* No threshold is negative.
ASSUME ConfigurationsAssumption ==
  Configurations \subseteq [volume : VolumeDetectors, control : ControlDetectors \cup {None}]

\* None is no rate, no detector and no observed value.
ASSUME NothingAssumption ==
  None \notin [Lengths \cup {"packet_count"} -> Int \X Int] \cup ControlDetectors \cup (Int \X Int)

ObservedVolume(snapshot, metric) ==
  IF metric.of = "second"
  THEN IF snapshot.rates = None THEN None ELSE snapshot.rates[metric.part]
  ELSE <<snapshot.volume.volume[metric.of][metric.part], 1>>

ObservedControl(control, metric) ==
  LET counters == control.direction[metric.direction]
  IN <<IF metric.flag = "syn_ack" THEN counters.syn_ack ELSE counters.flag[metric.flag], 1>>

Decision(observed, threshold) ==
  CASE observed = None -> "not_evaluable"
    [] observed # None /\ Exceeds(observed, threshold) -> "match"
    [] OTHER -> "no_match"

Interpretation(family, decision) ==
  CASE decision = "match" -> IF family = "packet" THEN "violation observed" ELSE "exceeded"
    [] decision = "no_match" -> IF family = "packet" THEN "no violation" ELSE "not exceeded"
    [] decision = "not_evaluable" -> "not evaluable"

Evaluated(family, observed, detector) ==
  LET decision == Decision(observed, detector.threshold)
  IN [family |-> family, detector |-> detector, observed |-> observed, decision |-> decision,
      interpretation |-> Interpretation(family, decision)]

VolumeEvaluation(snapshot) ==
  Evaluated("volume", ObservedVolume(snapshot, configuration.volume.metric),
            configuration.volume)

ControlEvaluation(snapshot) ==
  Evaluated("control", ObservedControl(snapshot.control, configuration.control.metric),
            configuration.control)

\* The volume detector takes closed windows of TCP and UDP.
VolumeDetectable(snapshot) == snapshot.identity.protocol \in {TCP, UDP}

\* _decision_for: an analysis that failed for its structure or for a checksum
\* matches, one that was not possible is not evaluated.
PacketDecision(result) ==
  CASE result = "analyzed" -> "no_match"
    [] result \in {"structural_failure", "integrity_failure"} -> "match"
    [] result \in {"incomplete", "unsupported"} -> "not_evaluable"

PacketEvaluation(result) ==
  [family |-> "packet", detector |-> None, observed |-> result,
   decision |-> PacketDecision(result),
   interpretation |-> Interpretation("packet", PacketDecision(result))]

\* DetectionFinding: what evidence, decision and interpretation go together.
FindingValid(e) ==
  /\ e.interpretation = Interpretation(e.family, e.decision)
  /\ e.family = "packet" => e.decision = PacketDecision(e.observed)
  /\ e.family = "control" => e.decision # "not_evaluable"

-----------------------------------------------------------------------------
(* run_closed_flow_detectors: the findings of one closed window.           *)

ClosedFlowFindings(snapshot) ==
  CASE snapshot.identity.protocol \in ICMP -> <<>>
    [] snapshot.identity.protocol = UDP -> <<VolumeEvaluation(snapshot)>>
    [] snapshot.identity.protocol = TCP /\ configuration.control # None ->
         <<VolumeEvaluation(snapshot), ControlEvaluation(snapshot)>>
    [] OTHER -> <<>>

ClosedFlowRaises(snapshot) ==
  \/ snapshot.identity.protocol = TCP /\ configuration.control = None
  \/ snapshot.identity.protocol \notin ICMP /\ ~VolumeDetectable(snapshot)
  \/ \E i \in DOMAIN ClosedFlowFindings(snapshot) :
       ~FindingValid(ClosedFlowFindings(snapshot)[i])

\* detect_closed_window raises an exception.
WindowRaises(s) == SnapshotRefused(s) \/ ClosedFlowRaises(Snapshot(s))

DetectionInit ==
  /\ Init
  /\ configuration \in Configurations
  /\ packet_finding = None
  /\ window = "open"
  /\ flow_findings = <<>>

\* The packet detectors see each outcome before the flow does.
DetectPacket(f) ==
  /\ window = "open"
  /\ Observe(f)
  /\ packet_finding' \in {e \in {PacketEvaluation(Decoding!Outcome(f))} : FindingValid(e)}
  /\ UNCHANGED <<configuration, window, flow_findings>>

DetectWindow ==
  /\ window = "open" /\ state # None
  /\ ~WindowRaises(state)
  /\ flow_findings' = ClosedFlowFindings(Snapshot(state))
  /\ window' = "detected"
  /\ UNCHANGED <<vars, configuration, packet_finding>>

DetectWindowRaises ==
  /\ window = "open" /\ state # None
  /\ WindowRaises(state)
  /\ window' = "raised"
  /\ UNCHANGED <<vars, configuration, packet_finding, flow_findings>>

DetectionNext ==
  (\E f \in Frames : DetectPacket(f)) \/ DetectWindow \/ DetectWindowRaises

DetectionSpec == DetectionInit /\ [][DetectionNext]_allVars

-----------------------------------------------------------------------------
\* The sum of one part of the packets of a scope.
Volume(part, scope) ==
  IF part = "packet_count" THEN Cardinality(InScope(scope))
  ELSE MapThenSumSet(LAMBDA i : Length(i, part), InScope(scope))

Elapsed == Time(Len(accepted)) - Time(1)

\* The squares of the differences between every two packets of a scope.
Spread(l, scope) ==
  MapThenSumSet(LAMBDA pair : (Length(pair[1], l) - Length(pair[2], l))
                                * (Length(pair[1], l) - Length(pair[2], l)),
                {pair \in InScope(scope) \X InScope(scope) : pair[1] < pair[2]})

\* A closed window is detected from its packets: the volume detector matches
\* if and only if the packets of the window sum up to more than the
\* threshold, or to more than the threshold per second of its duration, which
\* no duration at all makes not evaluable; the control detector if and only
\* if enough of them carry the flag.  Between the packets and the decision
\* are an accumulator, a feature, a metric and a comparison
\* (flow_volume_threshold.py:108-127, tcp_control_threshold.py:243-265).
DecisionsOfPackets ==
    \A i \in DOMAIN flow_findings :
      LET e == flow_findings[i]
          metric == e.detector.metric
      IN CASE e.family = "volume" /\ metric.of # "second" ->
                (e.decision = "match") <=> (Volume(metric.part, metric.of) > e.detector.threshold)
           [] e.family = "volume" /\ metric.of = "second" ->
                e.decision = IF Elapsed = 0 THEN "not_evaluable"
                             ELSE IF Volume(metric.part, "all") > e.detector.threshold * Elapsed
                             THEN "match" ELSE "no_match"
           [] e.family = "control" ->
                LET flags == IF metric.flag = "syn_ack" THEN {"syn", "ack"} ELSE {metric.flag}
                IN (e.decision = "match")
                     <=> (Cardinality({j \in Toward(metric.direction) :
                                         flags \subseteq accepted[j].transport.flags})
                            > e.detector.threshold)

\* Every window that a flow can reach is detected: no extractor and no check
\* of a finding ever refuses the state of a window, which would end the
\* session and take every other window with it.  The one exception is a TCP
\* window in a session without a control detector
\* (detector_orchestration.py:52-54).  A TCP window has a volume and a control
\* finding, a UDP window a volume finding, an ICMP window none.
EveryWindowDetected ==
  window # "open" =>
    IF state.identity.protocol = TCP /\ configuration.control = None
    THEN window = "raised"
    ELSE /\ window = "detected"
         /\ [i \in DOMAIN flow_findings |-> flow_findings[i].family]
              = CASE state.identity.protocol = TCP -> <<"volume", "control">>
                  [] state.identity.protocol = UDP -> <<"volume">>
                  [] OTHER -> <<>>

\* The features of a window are those of its packets: the variances, which
\* the code takes from sums of squares, are those of the differences between
\* the packets, and the shares of the directions add up to the whole
\* (packet_size_features.py, flow_volume_features.py).
FeaturesOfPackets ==
  state # None =>
    LET snapshot == Snapshot(state)
        Describes(m, l, scope) ==
          InScope(scope) # {} =>
            /\ m.variance[1] * Cardinality(InScope(scope)) * Cardinality(InScope(scope))
                 = Spread(l, scope) * m.variance[2]
            /\ m.least * m.mean[2] <= m.mean[1] /\ m.mean[1] <= m.greatest * m.mean[2]
    IN /\ \A l \in Lengths : Describes(snapshot.sizes[l], l, "all")
       /\ \A d \in Directions : Describes(snapshot.sizes[d], "captured", d)
       /\ \A part \in {"packet_count", "captured", "original"} :
            LET forward == snapshot.volume.share["forward"][part]
                reverse == snapshot.volume.share["reverse"][part]
            IN forward[2] = reverse[2] /\ forward[1] + reverse[1] = forward[2]
       /\ snapshot.rates = None => snapshot.intervals.greatest = 0
=============================================================================
