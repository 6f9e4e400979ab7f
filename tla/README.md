# A verification development for NIDS-NetOps

NIDS-NetOps is a deterministic, single-threaded network intrusion detection
pipeline in Python: packets come from a source, are decoded, grouped into
flows and observation windows, and judged by detectors whose findings go to
the caller's consumers. Nothing runs in parallel and nothing is persisted;
what is hard in this code is

* calls into foreign code (source, detectors, consumers) that may raise at any
  point of nested loops and `finally` clauses,
* operations that must change all of their state or none of it,
* bounded tables that close something early when they are full, and
* results that must not depend on how the input was cut up or on when it came.

The modules in this directory model those parts; TLC checks them on small
instances and TLAPS proves the central results for every value of the
constants. Source paths below are relative to `src/src/`.

## Inventory

| component | state | operations | correct when |
|---|---|---|---|
| window manager, `analysis/flow_observation_window.py` | table of active windows, next sequence number, frontier (latest accepted time), ended flag | `record`, `close`, `end_capture_session`, `active_windows` | bounded table; a call that raises has no effect on later ones; every number is one window, handed out once; a window holds exactly its flow's packets between two gaps |
| flow state coordinator, `analysis/flow_state_coordinator.py` | about thirty accumulators of one window | prepare, commit | the accumulators agree with one another and with the packets recorded |
| detection stream, `application/detection_pipeline.py`, `flow_observation_session.py`, `capture_execution.py`, `detector_orchestration.py`, `detection_session.py` | two failure flags, the loops' positions | one call, with callbacks | findings in order, at most once, all of them unless a delivery failed, none after a failed one; the session always ends |
| packet ingestion and sources, `capture/` | started / failed / stopped | `start`, iteration, `stop` | `stop` once on every path |
| DNS correlation and statistics, `analysis/dns_correlation.py`, `dns_*_statistics.py` | pending requests (at most 128), the last batch of observations, counters | update per message, finalize at closure | each complete message is counted once, a response is matched to the only request it can answer |
| TCP stream, `analysis/tcp_stream_observation.py` | per direction a bounded buffer, next sequence number, sticky status | observe segment, consume | the buffer is the contiguous stream; the status never recovers |
| DNS, LDAP, TLS framing, `analysis/*_framing.py` | per direction a partial frame | update per packet | frames do not depend on segmentation |
| LDAP correlation, `analysis/ldap_correlation.py`, `ldap_request_summary.py` | pending requests with their summaries | update, finalize | as DNS; a search keeps its request open until its last response |
| evaluation, `application/detection_evaluation.py`, `incremental_detection_evaluation.py`, `detection_metrics.py`, `streaming_evaluation.py` | used expectations, deferred findings, open/busy/failed/finished | record, finish, abort | the incremental evaluation is the batch evaluation |
| detectors, `detection/` | none | evaluate | a finding follows from the packets of the window; every window that can arise is detected |
| decoders, `analysis/packet_analysis*.py`, `ethernet.py`, `ipv4.py`, `tcp.py`, ... | none | analyse a packet | an analysis or a classified failure, and nothing else |
| per-flow and protocol statistics, `analysis/*_statistics.py` | counters, running sums, histograms per direction | one update per packet | each holds what the packets taken come to; none of its checks stops at a packet the decoders let through |
| features, `analysis/*_features.py`, `flow_feature_snapshot.py` | none | extract from a closed window | defined for every window that can arise |
| capture fragmentation, `analysis/capture_fragmentation.py` | counters of the whole capture | one update per analysed IPv4 packet | every fragment once, also those no flow takes |
| validation, benchmark, experiments, reports, CLI, ML projection, research, integrations | none | compose the above | as their parts |

How they interact. `run_detection_stream` calls `consume`, which starts the
source and pulls observations; every observation becomes an analysis outcome
that is first given to the packet detectors and the packet consumer, then to
the window manager. The windows that admission closes are judged one by one
and their findings given to the flow consumer before the next packet is
pulled. `consume` stops the source in its `finally` clause and the session
ends the manager in its own, which closes the windows still open and delivers
them unless a delivery failed before. Evaluators are such consumers.

Inside the manager, `record` gives the packet to the coordinator of its
window. The coordinator first takes the packet's identity and updates the
accumulators, then observes a TCP segment, frames what the stream has now, hands
complete messages to the correlations, checks the new values against one
another, and only then replaces its state. A decoder's failure, by contrast,
never reaches the manager: it is an outcome of its own class, which the packet
integrity detector turns into a finding.

## Modules

Arrows say what extends or instantiates what.

    FlowWindows ----> DetectionStream ----> DetectionDelivery     (run stream)
        |                                        +--+
        |                                           +--> FlowWindowsProofs
        |                                        +--+
        +--> FlowWindowsRefinement --------------+
                 +--INSTANCE--> WindowLedger                      (run windows)
    DNSCorrelation ----> DNSExchange                       (runs dns, dns_overflow)
                             +--> DNSExchangeProofs
    DetectionEvaluation --> IncrementalEvaluation         (run evaluation)
                                +--> StreamingEvaluation  (run streaming_evaluation)
                                         +--> EvaluationProofs
    TCPStream ----> FramedStream                 (runs tcp_stream, framed_stream)
        |              +<-- StreamFraming
        |              +--> TCPStreamProofs
        +---+
    LDAPFraming ----> LDAPCorrelation                                 (run ldap)
                             +--> LDAPProofs
    FlowCounters --> HeaderCounters --> FlowAccumulation   (runs accumulators, decoding)
        PacketDecoding --INSTANCE------------+  |
                                                +--> FlowDetection  (run detection)
                                                |         +--> FlowDetectionProofs
                                                +--> FlowAccumulationProofs --+

`InductionLemmas`, induction over naturals and finite sets, is extended by the
proof modules that need it.

**FlowWindows** is `FlowObservationWindowManager`. `active`, `nextSeq`,
`latest` and `ended` are its four attributes; `emitted` and `log` are
histories (closed windows handed out, packets accepted) that no guard reads
except the bound. The code computes everything that can fail before it assigns
anything, so `record()` is two steps: `Prepare...` puts into `inFlight` what
the call is about to publish, one action for each way through the method
(window continues, ends by inactivity, is new, is new in a full table), then
`PublishContinue` or `PublishNew` does the assignments, or `FailRecord` is an
exception of the coordinator in between. `Close`, `EndSession` and the refusals
(`RefuseRecord`, `RefuseClose`, `EndAgain`) are one step each. Of the
coordinator's accumulators four fields are kept: packet count, first and last
time, longest interval. They are what inactivity, eviction and the accounting
properties read. Times are naturals, durations differences; `NoTime` is the
frontier's `None`.

**WindowLedger** is what a window manager promises at its plainest: windows
are numbered, a packet is filed in the open window of its flow or in a new one,
and windows retire for good. It knows no clock, no capacity and no call.
**FlowWindowsRefinement** gives the mapping.

**DetectionStream** is the control flow of `run_detection_stream` with
`consume`, `_run_flow_observation_session`, the two finding consumers and the
manager's own actions as the steps that change the manager. `pc` is the
statement the one thread is at; `queue` and `batch` are the two nested loops
over closed windows and over findings; `packetDeliveryFailed` and
`downstreamFailed` are the two flags of the code; `error` is the exception on
its way out. Whatever the stream calls and does not own may return or raise.
**DetectionDelivery** holds what the callers may rely on, said of the history
of calls alone: which finding of which window handed out each call was for, and
what had been given before it.

**DNSCorrelation** is `update_dns_correlation_state` and
`finalize_dns_correlation_state`, the fold into `DNSTransactionStatistics`, and
the way a packet's messages become state: `Packet` starts a candidate, one
action per branch of the update folds the next message into it, `Commit` keeps
and `Abandon` drops it, `Close` finalizes, `NewWindow` starts over. A message
is direction, identifier, role and content (all that a response must repeat of
its request). A message that is not complete leaves the candidate as the code
does (`NotComplete`). The code's `None` state is the state without requests
and observations. Timestamps and latencies are left out: the manager's frontier
already keeps them from running backwards, and no branch depends on them
otherwise. **DNSExchange** defines outcomes from the sequence of messages alone
("the only request this response can answer"), without a table.

**DetectionEvaluation** is the batch matching of findings with expectations:
`Turn` is what one expectation takes in one phase, `Phase` the turns of them all
in their order, `MatchFindings` the three phases; `Classification` is the decision
table, `EvaluateChannel` the entries, `Aggregate` the counts.
An identity is a target, and for packets also the position among the packet
findings. Indices start at 1, and 0 is the code's `None`.
**IncrementalEvaluation** is `IncrementalDetectionEvaluator`, both channels.
Findings arrive one by one; an entry that is settled is handed over at once,
a flow entry that a later finding could take over is deferred, with every one
behind it. A call is `busy` while its consumer runs, so each hand-over is a
step of its own and may raise. Reentrant calls are refused without effect and
have no action. **StreamingEvaluation** composes the evaluator with
`IncrementalDetectionMetrics` as its consumers, as `run_streaming_evaluation`
does, with the handler that aborts both.

**TCPStream** is one direction of a TCP flow. `stream` is the
`TCPStreamObservation`; `sent` and `isn` are the sender's, which the code never
sees; `first` remembers where in the stream the buffer began, since a capture
may start in the middle. `Observed` is `_observe_segment` with the branches of
`_observe_payload` as operators of their own. Segments may be any piece of what
was sent, any number of times and in any order (`ObserveSegment`), or not of
this sender at all (`ObserveStray`, at most one per behaviour). Sequence
numbers are modulo an even `Modulus`; of the `last_*` fields only the relation
is kept, no branch reads the others.

**StreamFraming** is the loop that DNS framing, TLS record framing and TLS
handshake framing share, parameterised by a format: header length, length of
the length, limit. **FramedStream** is what the coordinator does with a segment
of a DNS or TLS flow: observe it, frame what became available, consume that
much, and frame the handshake records again. The reference is `Cut`, which
cuts a whole byte sequence at once.

**LDAPFraming** is `ldap.py`'s reading of a message and
`ldap_stream_framing.py`. A direction's bytes are really bytes here: `Envelope`
reads tag and BER length, `Checks` is the sequence of tests of `_message` in
their order with the status each failure gives, `Decoded` what is known of the
message when one of them fails. `Parsed` is the `while` loop over the buffered
bytes, `FrameDirection` the early returns around it. **LDAPCorrelation**
composes it with the TCP stream (segments in order, or lost for good) and with
`update_ldap_correlation_state`, one operator per branch, and
`finalize_ldap_correlation_state`. Unlike in DNS, a message that is not
understood may taint the request whose identifier it repeats, and a search
stays open while its entries come. `OutcomesOfExchange` defines each message's
outcome from the log of messages alone.

**PacketDecoding** is `analyze_packet_outcome`. A frame is a record of what was
on the wire, field by field, and of how many bytes of it were captured; every
decoder (Ethernet with VLAN tags, raw IP, Linux cooked, IPv4 with options, IPv6
with its extension headers, TCP, UDP, ICMP, ICMPv6) is the sequence of its
checks, each with the name of its failure. `Outcome` classifies the first
failure by the tables of `packet_analysis_outcome.py`, where a failure without
an entry is the exception that goes past the classification. A checksum is its
verdict; header and option bytes are kinds, lengths and values. `Packet` is
the analysis that reaches the flow, `HasIdentity` tells which analysed packets
have no flow: later IPv6 fragments, fragmented ICMPv6, other protocols.

**FlowCounters** and **HeaderCounters** are the accumulators of the
coordinator. Each is an immutable value in the code and so here: its empty
value, the packets whose update raises, the update, and the checks of its
`__post_init__`. A histogram is the sequence of its occupied bins.
**FlowAccumulation** decodes the frames of a capture and records them in one
coordinator: `Undecoded`, `WithoutIdentity`, `Refused` and `Record` are the four
ways of a frame, `Verdict` tells whether an update, a value's own checks or
the cross-checks of `CoordinatedFlowState` raise. Beside the flow runs the
fragmentation count of the capture.

**FlowDetection** goes on from there: the feature extractors, the snapshot of a
closed window, the three detectors, the findings and the orchestration. Where
the code has a float there is an exact fraction.

The modules contain some definitions named after a slip (`ExpiredStrictly`,
`KeyOfSender`, ...). No model uses them. Each is what the definition following
it could have been by a plausible mistake, and each property has been seen to
fail with one of them in place.

## Runs

| run | instance | asks | size |
|---|---|---|---|
| `windows` | 3 flows, table of 2, times 0..3, timeout 2, 4 packets | are windows a faithful partition of the packets, filed by the accepted packets alone whatever raised in between, and does the manager implement the ledger | 72,005 states |
| `stream` | one TCP, one UDP, one ICMP flow, table of 2, times 0..2, timeout 2, 3 packets, any callee may raise anywhere | are findings delivered in order, at most once, none after a failed delivery, completely unless one failed | 134,728 states |
| `dns` | 2 identifiers, 2 contents, 2 directions, table of 2, packets of up to 2 messages, 4 messages | does the table compute what the exchange means | 95,420 states |
| `dns_overflow` | 1 content, single messages, 5 of them, table of 2 | a table filled, freed, filled again and given up | 72,217 states |
| `evaluation` | 2 targets, 3 findings, up to 2 expectations, both channels together | is incremental evaluation the batch evaluation at every moment | 1.1 million states |
| `streaming_evaluation` | the same against ground truth (targets unique), stream, evaluator or metrics failing anywhere | are metrics of the complete stream returned, or none | 2.5 million states |
| `tcp_stream` | 4 bytes of 2 values, buffer of 3, segments of up to 2, sequence numbers modulo 12 that wrap in the middle | is the buffer a piece of the stream, are repetitions harmless, is anything unconsumed lost | 160,480 states |
| `framed_stream` | 6 bytes of 3 values, buffer of 3, segments of up to 3, headers of 2, DNS and TLS | do frames and messages depend on the bytes only | 386,910 states |
| `accumulators` | frames of a TCP/IPv4, a UDP/IPv6 and an ICMP flow and strays between them, up to 4 frames a capture, one flow label bin | do the accumulators hold what the packets come to, is every sound IPv4 packet and later fragment counted, and does anything but a real cause end the capture | 184,136 states |
| `decoding` | some thousand frames, cut at every length and varied in every field a decoder tests, each as the first of its capture | is every failure classified, every analysed frame recorded, and every frame counted as IPv4 that is to count | 5,818 states |
| `detection` | the frames of the three flows, windows of up to 3 packets, 21 configurations | do findings and features follow from the packets, and is every window detected | 43,638 states |
| `ldap` | 10 conversations of up to 5 messages in both directions, segments of 1, 3 or 14 bytes, streams lost anywhere, 2 pending requests | does framing depend on the bytes only, and does correlation compute what the exchange means | 41,740 states |

Why these bounds show what they should. *windows*: three flows are the fewest
with a real choice of a victim in a full table of two; four packets reach a
window after an eviction of the same flow and a second eviction; gaps of 1, 2
and 3 lie on both sides of, and at, the timeout of 2. *stream*: an admission
that closes a window while two others are open, then finalization with two
windows and two findings each, with a failure at any call of either. *dns*:
two identifiers and two contents are needed for a response with the right
identifier and the wrong question; two messages in a packet for a candidate
lost after its first message; a reused identifier needs three messages, its
ambiguous response a fourth. *dns_overflow*: the third request overflows a
table of two, and a fifth message is a response to what was lost. The real limit is 128;
the code compares with it in one place, and the proofs hold for every value.
*evaluation*: with two equal expectations and three findings an entry is
displaced, an unrelated finding waits behind it, and an agreement is contested.
*accumulators*: three packets are a first packet, one that has a predecessor in
its direction and one whose predecessor in its direction is not the last
packet, and a fourth frame lets a stray come anywhere between them; the frames give every histogram a bin before, between and behind
others; a second label saturates one bin. *decoding*: a capture is one frame, so
there is a state for each; the frames are all of `MCSweep`, each field at the values where a check turns over, alone
and together with the layer below. *detection*: each volume metric at a
threshold that windows of three packets reach and miss, with every feature
undefined for one packet or for no duration met. *ldap*: segments of one byte
cut a message everywhere, those of 14 hold two messages and end in none, in one or in
another's middle; the conversations have a search with several responses, a
reused identifier, an identifier reused by a message that is not understood, a
third request for a table of two, long, indefinite and overlong lengths.

Symmetry is used where model values are only ever compared: flows in `windows`,
identifiers, contents and directions in the DNS runs, targets in the evaluation
runs; no configuration checks a liveness property. In `stream` the
flows differ by protocol and no symmetry is declared.

Bounds of the modules, not of the code: `MaxAdmissions` (packets of a
session), `MaxPackets` (packets of the source), `MaxMessages`, `MaxFrames`
(messages of a window, of a packet), `MaxFindings`, `MaxExpectations`,
`Length`, `MaxSegment` (bytes of the sender, of a segment), one segment of
another sender per behaviour, `MaxPackets` and `Frames` of an accumulation,
`Configurations`, `Conversations` and `Cuts`. `MaxLabelBins`, `MaxMessage` and
`MaxPending` are limits of the code, small. *tcp_stream*: four bytes through a buffer of
three force it to make room, after some and after all of its bytes were
consumed. *framed_stream*: six bytes are two records that share a message
header between them, with a cut anywhere.

Deadlock is checked except in `accumulators`, `decoding`, `detection` and
`ldap`, whose captures and conversations are finite: they stop when an exception
ends the capture, when the window is closed, or when there is nothing more to
receive. Everywhere else an ended session, a finished evaluation and a stream
that returned still answer calls, or stutter explicitly.

Fairness. None is assumed, and no liveness property is stated. The code waits for
nobody: every operation is a synchronous call, and `run_detection_stream` is a
chain of `try ... finally` blocks around one loop over the source. That it ends
once the source does is its shape, not something to check; that it never stands
still before it returned is what the deadlock check of `stream` says, where only a
stream that returned may stutter. What may go wrong on the way, a
delivery left out or a session not ended, is `EverythingDelivered`, of the
state it ends in. A source that never ends is outside (its packets are
bounded); so is a consumer that never returns.

## What is proved

TLAPS checks every theorem for all values of the constants under the named
assumptions of the modules: timestamps are naturals, the timeout, the capacity
and the pending limits are positive, there are exactly two directions, the TCP
modulus is even and more than twice what a sender sends. Flows, identifiers,
contents, targets and, in a TCP stream, bytes are arbitrary sets; framed bytes
are naturals (`BytesAssumption`), those of an LDAP conversation 0..255
(`ConversationsAssumption`). The header fields of a frame that decodes are
numbers (`FieldsAssumption`), thresholds are not negative
(`ConfigurationsAssumption`; the code's rate thresholds are floats, the
model's whole numbers), and `None` is none of the values it stands beside
(`NoneAssumption`, `NothingAssumption`, `NoCorrelationAssumption`). No decoder
message stands for an unsupported packet and for a cut or malformed one at once
(`MessagesAssumption`). TLC
evaluates all of them on every run. 47 results are listed in
`PROJECT.json`; the lemmas they rest on stand before them in the same modules.

**The window manager** (`FlowWindowsProofs`). None of the safety properties is
inductive alone, because a record call is split at the point where it may fail.
What it computed is only right as long as the state it was computed from is
still there. `Fits(c)` says that: a prepared continuation carries the open
window's number and its updated statistics and is not expired; a prepared new
window carries the next number, and closes nothing while there is room, the
expired window of its own flow, or a least recently updated one of a full
table. `IInv` is `TypeOK`, `InFlightFits` (all of the above), `Bounded`,
`KeysAreWindows`, `NoLongGap` and `BehindFrontier`. The steps are first reduced
to four shapes (nothing published, one window continued, one opened, some let
go); each part of `IInv` is then preserved by each shape. From `IInv` follow
`TypeCorrect`, `Capacity` (the table never exceeds `max_active_windows`),
`Keys` (every number handed out names exactly one window, open or closed once),
`Gapless` (no window spans a gap as long as the timeout) and `Frontier`. `Eviction`,
an action property, uses `Fits` too, since the victim was chosen in an earlier
step than the one that hands it out.

**What windows say of their packets** (the second part of `FlowWindowsProofs`).
`WindowAccounting` holds by what `record` does to one window and the log at
once, so the invariant has the log in it: `AccountsFor(L, f, s, x)` says that
the statistics `x` of window `s` of flow `f` are those of the packets filed
under `s` in the log `L`, with the first and the last of them named. Appending
a packet under another number leaves the account alone, under a fresh number it
starts one, under the window's own it continues it; the last case needs that
the packet is not older than the window's last one, which is where
`BehindFrontier` of `IInv` enters. `Succession` (`WindowsOfFlowFollow`) needs
`Following`: of two windows of a flow the later one starts after the other's
end, and a window closed for inactivity has a successor a timeout later.
`Filing` (`FiledByHistory`) says what a failure must not leave behind: the window
a packet is filed in follows from the packets accepted and the windows handed
out before it, so a `record()` that raised, after it had chosen a victim or run
the accumulators of an open window, has no say. The manager decides that by
its table; the property by the log. `TableOfLog` joins them: the entry of a flow in
the table names the window and the time of the last packet of the flow in the log. With
`KeysAreWindows` and the accounts it follows that a flow has an entry just if
its last window was not handed out (`OpenOrHandedOut`), and that as many
windows have begun as numbers were issued (`NumbersIssued`).
`SessionEnd` (`EndOfSession`) is inductive together with `IInv`.

**Refinement** (the third part of `FlowWindowsProofs`). `ImplementsLedger` is
`Spec => LedgerSpec`: under the mapping of `FlowWindowsRefinement`,
`PublishContinue` files a packet in an open window, `PublishNew` opens one and
retires at most one, `Close` and `EndSession` retire, everything else stutters.
`LedgerPromise` adds what a reader of the ledger concludes: a window is open or
closed and never both, every accepted packet lies in exactly one window, and no
flow has two open windows.

**Detection stream** (the end of `FlowWindowsProofs`). Every step of the stream is a
step of the manager or leaves it alone, so the manager's theorems hold of it:
`Manager` is `IInv` and `EndOfSession`. `StreamInv` adds where the stream is:
`Placed` ties the two failure flags, the exception under way, the session and
the loops to the statement; `QueueIsRest` and `BatchIsRest` say that the loops hold
exactly the windows and findings not yet given; `GivenSoFar` and
`ReportedSoFar` say what was given and reported, by position. From it follow
`Delivery` (`DeliveredInOrder`), `NothingPending` (`Backpressure`),
`EndOfStream` (`EverythingDelivered`) and the action property `PacketsFirst`
(`NoFlowBeforePacket`), for every capture and every point at which the source,
a detector, the manager or a consumer may raise.

**DNS correlation** (the first part of `DNSExchangeProofs`). `Sound(d)` is a correlation state
on its own: typed, counted messages and outstanding requests together are the
messages seen, at most `MaxPending` entries, one per key, none once given up.
`DNSInv` says that the committed state and the candidate are sound, and that a
closed window has no outstanding request. Each branch of the update preserves
`Sound` by a lemma of its own; the overflow branch and finalization, which turn
all outstanding requests into observations at once, rest on a lemma about what
folding such a batch adds to the counters. Results: `DNSTypeCorrect`,
`Conserved` (`MessagesConserved`), `Pending` (`PendingTable`) and `Final`
(`LossIsFinal`, an action property).

**DNS exchange** (`DNSExchangeProofs`). The table against the definition without
one. `Tabled(d)` reads every entry of the table as a fact about the messages
seen (`PENDING`: the latest request of its key, with every earlier one
answered; `AMBIGUOUS`: a key poisoned by a crossed reuse) and every request
without an entry as one with nothing left to answer; `Known(d)` says what each
observation and counter stands for, also once the table was given up. Both
speak of the messages before a given one only, so that a message more does not
change what was said of the others: the `Same...` lemmas. Each branch of
the update then decides its message as the exchange does. Results:
`ExchangeInvariant`, `Statistics` (`StatisticsOfExchange`), `MatchedRequest`
(`MatchesNameTheirRequest`).

**TCP stream** (`TCPStreamProofs`). `Sound(s)` is an observation on its own:
typed, its buffer within `TCP_STREAM_MAX_BYTES`, no more consumed than there is.
`Extends(s, t)` says that nothing was consumed and that the unconsumed bytes of
`s` begin those of `t`. Compaction, appending, overlap, synchronisation and the
end of a stream each preserve `Sound` and extend, by a lemma of its own over three
lemmas on what is left of a sequence after its first elements; `Observed` is their
composition. Results: `TypeCorrect` (the buffer is bounded whatever segments
arrive) and `NothingLost` (`UnconsumedKept`: making room in a full buffer loses
no unconsumed byte, and a stream once not open takes no more), for every
buffer size, modulus and segment. The proofs need only that a segment has
a sequence number below the modulus and bytes for a payload.

`BufferOfSender` (`BufferIsStream`) and `Repetition` (`RepetitionHarmless`) are
about an observation that has met one sender only. `Tracks(s, f)` says that the
buffer is the sender's bytes from position `f + offset`, that the next sequence
number is the one after them, that no status is one of a disagreement, and that an end was
believed only at the sender's own. Sequence numbers are taken modulo
`Modulus`, so what carries the proof is that the signed distance of the numbers of
two positions is the difference of the positions, which holds when the sender
sends less than half the modulus (`WindowAssumption`). Each part of
`Observed` preserves `Tracks`; a byte that comes again is then found in the buffer.

**Framed streams** (the second part of `TCPStreamProofs`). `FramesOfStream` compares
what was framed, segment by segment and through a bounded buffer, with `Cut` of the
whole sequence of bytes received. It is inductive only together with where the
framer stands in that sequence. `StreamInv` says that the observation `Tracks` the
sender and that `OuterAt` one of three cases holds: framing reads on, and what is framed
is `Cut` of the bytes consumed with the buffer the rest of them (`Reading`); a
length beyond the limit was read, which more bytes do not take back (`TooLong`); or
the stream is no longer trusted, and the frames are those of the bytes taken while
it was. That a segment which ends the trust takes no byte is `ObservedStops`; that a
trusted one only adds bytes is `AcceptedGrows`. `CutIs` gives the recursion that `Cut` is: the
frames of a sequence are those of its beginning, then those of what these leave
followed by what comes. `MessagesInv` says the same one layer up, of the handshake
messages over the payloads of the handshake records (`Joined`), where it rests on the
first layer's frames. Results, for every segmentation, format and buffer size:
`FramesAreOfStream` (`FramesOfStream`) and `MessagesAreOfRecords` (`MessagesOfRecords`).

**LDAP correlation** (`LDAPProofs`). `LDAPInvariant` says that there is a
correlation state `c` `Standing` for the conversation: each direction has consumed
whole messages (`Consumed`) that are those in the log (`FramedUpTo`), the log is
accounted for up to the last complete segment (`LoggedUpTo`), and
`c` holds of every logged message what `OutcomesOfExchange` says (`Accounted`). An
open window shows `c`, a closed one `c` finalized. Unlike DNS, a
request's outcome is open until its last response, so the account is of an observation
together with what may still come (`Explained`), and the branches of the
update show that a message more `Continues` it. Result:
`LDAPCorrelationIsOfExchange` (`CorrelationOfExchange`), for every set of conversations, every
cut into segments, and every limit of pending requests and of message lengths.

**LDAP framing** (the end of `LDAPProofs`). `FramingOfBytes` compares what was framed
as the segments came with a parsing of all bytes at once. `MessageIsStable` says
that more bytes change the reading of a message only where bytes were missing,
check by check; so `ParsedGrows`: parsing more bytes is parsing those that were there and going
on where that stopped. `OfBytes` says of one direction that it is framed as its
bytes are, with the shortcuts of the code: a direction at rest has nothing pending that
new bytes could complete, one that has failed reads no more. `FramingInvariant`
adds to `LDAPInvariant` that every direction is `OfBytes`, the messages being those of
the log, and that only one direction has new ones. Result:
`LDAPFramingIsOfBytes` (`FramingOfBytes`).

**Evaluation** (`EvaluationProofs`). The batch evaluation matches expectation by
expectation in three phases, the incremental one finding by finding as they
come, and defers what it cannot settle. They agree because there is only one
way to waste nothing: an assignment is `Greedy` when it is proper, when within
an identity better findings (by phase, then by order) take earlier expectations,
and when no finding is left over that an expectation left over could take.
`MatchFindingsGreedy` proves that the three phases give such an assignment,
by an invariant over the turns; `GreedyUnique` that there is no other, by the first
expectation on which two would differ. What has been settled early is `Settled`
and `Firm` (no later finding can be better: for packets, since no later one has
the position; for flows, since only agreements are settled), and extends by the
matching of the deferred rest to a greedy assignment of all findings:
`EarlyIsBatch`. The invariant `EvaluatorInv` says of each channel that it
`Follows` its findings while they come, and once it is being finished that what
it handed over and what is due are together the batch. Results:
`EvaluatorInvariant`, `IncrementalIsBatch` (`PublishedIsBatch`) and `Agreements`
(`AgreementsMaximal`). `StreamingInv` adds that the metrics count what was
published unless the evaluator failed, and what each stage of
`run_streaming_evaluation` has behind it: `Metrics` (`MetricsOrNothing`), and
`Recall` (`RecallOverTruth`), for which the entries that recall counts are mapped one
to one to the positive expectations.

**Accumulators** (`FlowAccumulationProofs`). `CountersOfPackets` and
`HistogramsOfPackets` compare sums, extrema and bins kept packet by packet with sums
and sets over all packets, and no single counter says what the next packet
does to it. So every running value has its description by the packets it was made
from: `Summary` (count, total, squares, extrema of sampled values), `Holds` (the
bins of a histogram are in order, and each has the count of the pairs
`<<where, value>>` with its value), `Labels` (the same until there are too many
labels), and one definition for each accumulator over these (`VolumesOf`,
`IntervalsOf`, `HeadersOf`, ...). The empty value is described by no
packets; each update carries the description over to one packet more, by a
lemma of its own. The histogram lemmas (`Incremented`, then `Counting` for the
loops over options and extension headers) say where a new bin goes and that bins
stay in order. `Held` says that the whole state of a flow is described by
the packets accepted; it is inductive (`Holding`) since a refused packet leaves
both as they were. `CountersAreOfPackets` and `HistogramsAreOfPackets` follow, the
reference sums of the library being those of `SumOf` (`InductionLemmas`), whose
value does not depend on the order in which elements are taken.

**Detection** (`FlowDetectionProofs`). A closed window has the state of a
flow and what was made of it: `Detecting` adds to `Held` that the findings of a window
are those of its features, until something raised. `Features`
(`FeaturesOfPackets`) needs that a variance computed as `n * squares - total^2`
is the sum of the squared differences between any two packets
(`SpreadOf`), so that it is never negative, and that no packet is older than the
one before it (`TimesRise`), so that no rate is over a negative time; `EveryWindow`
(`EveryWindowDetected`) that no extractor refuses what `Held` describes; `Decisions`
(`DecisionsOfPackets`) that what a detector compares with its threshold is a
value of the packets.

**Fragments** (the end of `FlowAccumulationProofs`). `FragmentsOfCapture` is said
of all frames of the capture (`seen`), and of which of them are to count it says:
those with a sound IPv4 header that are later fragments, or analysed. The code
comes to it by another way: it takes what was analysed, and decodes again what
was not and failed as unsupported. `CountsAreToCount` proves that the two are the
same; it needs that no malformed option counts as an unsupported packet
(`OptionsAreStructural`, `MessagesAssumption`), and that a sound later fragment fails in its
transport, with the one message that does, or not at all. `Counted` says that each
category holds the number of frames seen that count and are in it, and of those with the
DF flag, as cardinalities of sets of positions (`Among`); a frame that counts adds one to exactly
one category (`CountedMore`), any other none (`CountedSame`), whatever becomes of
its packet afterwards. It includes `FragmentsValid`, the checks of `__post_init__`, which
therefore never raise. `Fragments` reads the categories
back as the two header fields. It rests on `OffsetAssumption`: a decoded fragment
offset, 13 bits of the header, is a natural number.

**Induction** (`InductionLemmas`). The library's induction theorems take an
operator as a parameter, which the installed provers cannot instantiate. Where a
proof needs induction, it is stated of a set instead: every nonempty set of naturals
has a least element (`LeastNat`, from the well-foundedness of strict inclusion of finite
sets), hence a set with 0 that contains with each number the next contains all up to a
bound (`Upwards`; `Downwards` for places), hence a recursive function whose steps stay in
a set has the values its equation says: step by step (`Iteration`), over the
subsets of a finite set (`SubsetRecursion`, and `FoldRecursion` for the folds of
sequences), or jumping ahead in a sequence (`JumpRecursion`, for framing loops).

## What is only model-checked

* `EndedForCause`: that the checks of the accumulators refuse nothing the
  decoders let through needs the range of every header field that some
  decoder establishes. What the accumulators hold of the packets they take
  is proved.

No module declares a RECURSIVE operator.

## What is not modelled

* **Asynchronous exceptions** (`KeyboardInterrupt` between two assignments of a
  publication). CPython may raise one between any two bytecodes; the code takes
  no measure against it.
* **RST and fragmented segments under framing**: `tcp_stream` has them;
  `framed_stream` leaves them out to fit its bound. Streams end there by a FIN,
  and become unavailable by a gap, an overlap, a late SYN, more data after the
  end, or a length beyond the limit.
* **Float arithmetic**: intervals are integers and features exact fractions. The
  tolerance with which the code compares rounded variances, and the standard
  deviations, are left out.
* **Checksum arithmetic**: a checksum is valid, invalid or absent. Option and
  extension header bytes are records; where their lengths matter (the envelope,
  padding, SACK blocks) they are kept.
* **DNS message contents**: the decoder of one message (`dns.py`,
  `dns_message.py`), stateless, and the statistics of names, records, flags and
  EDNS, bounded counts over those contents. **TLS hello contents** and their
  statistics likewise. The messages themselves are framed and counted.
* **`LDAPFlowStatistics`**, which `analyze_ldap_payload` gathers from single
  segments, and the terminal response kept in a request's summary.
* **`flow_tracker.py`**, which no application module uses for detection.
* **Packet sources**: only what they may do to their caller. Their own
  start-once checks, sockets and files are I/O.
* **Metrics ratios**: quotients of the counts that are checked.
* **CLI, reports, datasets, benchmarks, ML projection, research,
  integrations**: value validation, formatting and serialization without state.

`PROJECT.json` lists every component with its status.

## Plan

Done, in the order in which the behaviour matters:

1. `FlowWindows`, `WindowLedger`, their refinement and proofs;
   `DetectionStream` and `DetectionDelivery`; `DNSCorrelation`, `DNSExchange`
   and proofs; `DetectionEvaluation`, `IncrementalEvaluation`,
   `StreamingEvaluation`.
2. `TCPStream`, `StreamFraming`, `FramedStream`; `TCPStreamProofs`.
3. `LDAPFraming` and `LDAPCorrelation`.
4. `FlowCounters`, `HeaderCounters`, `PacketDecoding`, `FlowAccumulation`: the
   coordinator's accumulators and cross-checks over decoded frames.
5. `FlowDetection`: features and detectors.

Left:

6. The statistics of TLS hellos and handshakes over `FramedStream`'s messages,
   those of DNS flags and EDNS over `DNSCorrelation`'s.
7. The start-once checks of the sources (`capture/`), composed with
   `DetectionStream`.

A proof still worth having: of `EndedForCause`, from `Held`.
