----------------------------- MODULE StageData ------------------------------
(***************************************************************************)
(* What the stages of a job compute, beside the calls they make.           *)
(*                                                                         *)
(* A behaviour is either that of ModelCalls, from its initial state, or    *)
(* one computation on an input: an answer of a provider judged, keyframes  *)
(* selected from frame features, a timeline fused and read back, or        *)
(* evidence reduced to one request.                                        *)
(* The stages hand files to each other and share no other state, so that   *)
(* their inputs are chosen freely within what the stage before can write.  *)
(***************************************************************************)
EXTENDS ModelCalls, KeyframeSelection, Timeline, EvidenceReduction

CONSTANTS
    FeatureInputs,   \* bound: sequences of frame features
    Transcripts,     \* bound: sequences of transcript segments
    KeyframeTimes,   \* bound: increasing sequences of keyframe times
    EvidenceLengths, \* bound: sequences of section lengths
    PartialLengths   \* bound: lengths of a partial summary, none is zero

\* Segments are numbered, keyframes some time apart.
ASSUME InputsAssumption ==
    /\ FeatureInputs \subseteq Seq(FrameFeature)
    /\ Transcripts \subseteq Seq(Segment)
    /\ \A t \in Transcripts : \A i, j \in DOMAIN t : t[i].id = t[j].id => i = j
    /\ KeyframeTimes \subseteq Seq(Nat)
    /\ \A t \in KeyframeTimes : \A i, j \in DOMAIN t : i < j => t[i] < t[j]
    /\ EvidenceLengths \subseteq Seq(Nat)
    /\ PartialLengths \subseteq Nat

VARIABLE
    work    \* the computation: its input, its result and how far it came

allVars == <<callVars, work>>

NoWork == [step |-> "none"]
Untouched == stage = "off" /\ runs = 0

-----------------------------------------------------------------------------
(* Any call: what request_model makes of an answer.                        *)

JudgeAnswer ==
    /\ work = NoWork /\ Untouched
    /\ \E p \in Payload :
          work' = [step |-> "judged", answer |-> p,
                   outcome |-> PayloadOutcome(p)]

-----------------------------------------------------------------------------
(* KEYFRAMES: run_from_features.                                           *)

SelectFromFeatures ==
    /\ work = NoWork /\ Untouched
    /\ \E frames \in FeatureInputs :
          work' = [step |-> "selected", frames |-> frames,
                   candidates |-> Candidates(frames),
                   selected |-> SelectKeyframes(frames)]

-----------------------------------------------------------------------------
(* FUSION: run, and read_timeline_evidence of DELIVERABLES.                *)

\* Only some frames need have been described: fusion takes what it finds.
FuseTimeline ==
    /\ work = NoWork /\ Untouched
    /\ \E transcript \in Transcripts, times \in KeyframeTimes :
       \E described \in {{}, DOMAIN times} :
          work' = [step |-> "fused", transcript |-> transcript,
                   times |-> times, described |-> described,
                   chunks |-> BuildChunks(transcript, times, described)]

\* One invalid chunk fails the stage; none is dropped.
ReadEvidence ==
    /\ work.step = "fused"
    /\ work' = [work EXCEPT !.step = IF ReadTimeline(work.chunks)
                                     THEN "evidence" ELSE "rejected"]

-----------------------------------------------------------------------------
(* DELIVERABLES: _summarize_hierarchically.                                *)

Batches == Partition(work.sections)

\* The rendered evidence sections, transcript first, then frames.
RenderEvidence ==
    /\ work = NoWork /\ Untouched
    /\ \E lengths \in EvidenceLengths :
          work' = [step |-> "reducing", round |-> 1, sources |-> Len(lengths),
                   sections |-> [i \in DOMAIN lengths |->
                                   [len |-> lengths[i], of |-> {i}]]]

\* A round: each batch is summarised, and the result must need fewer batches.
ReduceRound ==
    /\ work.step = "reducing"
    /\ Len(Batches) # 1
    /\ \E lengths \in [DOMAIN Batches -> PartialLengths] :
       LET next == NextSections(Batches, lengths, work.round)
       IN  work' = CASE Len(Partition(next)) >= Len(Batches)
                           -> [work EXCEPT !.step = "not_reduced"]
                     [] Len(Partition(next)) < Len(Batches)
                        /\ work.round = MaxRounds
                           -> [work EXCEPT !.step = "limit"]
                     [] OTHER -> [work EXCEPT !.sections = next,
                                              !.round = @ + 1]

\* One batch is left: it is the final request.
SummariseFinally ==
    /\ work.step = "reducing"
    /\ Len(Batches) = 1
    /\ work' = [work EXCEPT !.step = "summarised"]

-----------------------------------------------------------------------------
(* The specification.                                                      *)

Init == CallsInit /\ work = NoWork

DataStep == \/ JudgeAnswer
            \/ SelectFromFeatures
            \/ FuseTimeline \/ ReadEvidence
            \/ RenderEvidence \/ ReduceRound \/ SummariseFinally

Next == \/ DataStep /\ UNCHANGED callVars
        \/ CallsNext /\ work = NoWork /\ UNCHANGED work

\* The threads of the pool and the worker's own thread go on, the provider
\* answers or the client's timeout fires, and time passes.
Spec == Init /\ [][Next]_allVars /\ WF_allVars(CallStep /\ UNCHANGED work)

-----------------------------------------------------------------------------
(* Properties.                                                             *)

Steps == {"none", "judged", "selected", "fused", "evidence", "rejected",
          "reducing", "not_reduced", "limit", "summarised"}

TypeOK == CallsTypeOK /\ work.step \in Steps

\* Under every protocol an answer counts as complete only if its text is
\* there and its stated reason is the normal end; a truncated, aborted or
\* broken one is never taken, and one without a reason not either
\* (model_api/client.py:275).
CompletionIsStrict ==
    work.step = "judged" /\ work.outcome = "complete" =>
        LET p == work.answer
        IN  /\ p.text
            /\ p.reason \in Expected(p.protocol)
            /\ p.protocol = "openai_responses" => ~p.broken
            /\ p.protocol # "anthropic_messages" => ~p.refusal

\* The attempt at the calls ends: no request waits for the limiter, the pool
\* or the backoff for ever, whoever asks for what
\* (frame_summary/service.py:31, model_api/client.py:188).
CallsEnd == stage # "off" ~> stage = "off"

Apart(c, d) == Gap(c, d) >= MinGap /\ Distance(c, d) >= MinHashDist

\* The selection is not empty; any two of it keep the gap and the distance;
\* and a candidate left out conflicts with one that was taken, or it is not
\* worth it and its bucket of time has another (keyframes/algorithm.py:147).
SelectionIsSound ==
    work.step = "selected" =>
        /\ work.frames # <<>> => work.selected # {}
        /\ \A c, d \in work.selected : c # d => Apart(c, d)
        /\ \A c \in ToSet(work.candidates) \ work.selected :
              (\A d \in work.selected : Apart(c, d)) =>
                 /\ ~Worth(c, work.candidates, work.selected)
                 /\ \E d \in work.selected :
                       Bucket(d.frame.ts) = Bucket(c.frame.ts)

\* Every segment is in one chunk; with keyframes it is the chunk of the one
\* nearest to its midpoint, of two as near the later, and the chunk spans its
\* segments and keeps their order (fusion/service.py:106).
ChaptersFollowKeyframes ==
    work.step = "fused" =>
        LET Dist(seg, k) == LET d == Midpoint(seg) - 2 * work.times[k]
                            IN  IF d >= 0 THEN d ELSE -d
            Nearest(seg, k) ==
                /\ \A j \in DOMAIN work.times : Dist(seg, k) <= Dist(seg, j)
                /\ \A j \in DOMAIN work.times :
                      j > k => Dist(seg, k) < Dist(seg, j)
        IN  /\ \A i \in DOMAIN work.transcript :
                  LET seg == work.transcript[i]
                      holding == {c \in DOMAIN work.chunks :
                                     Contains(work.chunks[c].refs, seg.id)}
                  IN  /\ Cardinality(holding) = 1
                      /\ \A c \in holding :
                            /\ work.chunks[c].start <= seg.start
                            /\ seg.end <= work.chunks[c].end
                            /\ \A k \in work.chunks[c].frames : Nearest(seg, k)
                            /\ work.times # <<>> => work.chunks[c].frames # {}
            /\ \A c \in DOMAIN work.chunks, i, j \in DOMAIN work.transcript :
                  LET refs == work.chunks[c].refs
                  IN  \A a, b \in DOMAIN refs :
                         /\ a < b
                         /\ refs[a] = work.transcript[i].id
                         /\ refs[b] = work.transcript[j].id
                         => work.transcript[i].start <= work.transcript[j].start

\* Whatever the lengths, every section of evidence is in the next request,
\* in order, and no request is longer than the client's check lets through
\* (overall_summary/service.py:339, model_api/client.py:118).  The check counts
\* the prompt as well: that it fits into PromptReserve with the text around the
\* sections is assumed, and nothing enforces it for a prompt of the user's.
ReductionIsFaithful ==
    work.step \in {"reducing", "summarised"} =>
        /\ UNION {Batches[i].of : i \in DOMAIN Batches} = 1..work.sources
        /\ \A i, j \in DOMAIN Batches :
              i < j => /\ Min(Batches[i].of) <= Min(Batches[j].of)
                       /\ Max(Batches[i].of) <= Max(Batches[j].of)
        /\ \A i \in DOMAIN Batches :
              BytesPerChar * Batches[i].len + PromptReserve
                 <= Context - MaxOutput - InputReserve
=============================================================================
