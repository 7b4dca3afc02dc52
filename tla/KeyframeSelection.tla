------------------------- MODULE KeyframeSelection --------------------------
(***************************************************************************)
(* The choice of keyframes from the features of sampled frames:            *)
(* packages/keyframes/algorithm.py and run_from_features of                *)
(* packages/keyframes/service.py.                                          *)
(*                                                                         *)
(* A frame is [ts, diff, sharp, hash, text]; a perceptual hash is the set  *)
(* of its bits that are set.  Times and features are whole numbers.        *)
(* A normalised value counts sixtieths of one, a score six-thousandths,    *)
(* which is exact for ranges that divide sixty.                            *)
(***************************************************************************)
EXTENDS Sorting, SequencesExt, FiniteSetsExt

CONSTANTS
    Lookback,      \* stable_lookback
    MinStableLen,  \* min_stable_len
    MinGap,        \* min_gap_seconds
    BucketGap,     \* fallback_gap_seconds
    MinHashDist,   \* min_hash_dist
    HashBits       \* bits of a hash

ASSUME SelectionAssumption ==
    /\ Lookback \in Nat \ {0}
    /\ MinStableLen \in Nat \ {0}
    /\ MinGap \in Nat \ {0}
    /\ BucketGap \in Nat \ {0}
    /\ MinHashDist \in Nat
    /\ HashBits \in Nat \ {0}

FrameFeature == [ts: Nat, diff: Nat, sharp: Nat, hash: SUBSET (1..HashBits),
                 text: Nat]

One == 60

\* _normalize: a value's place between the least and the greatest of them.
Normalize(v, values) ==
    LET lo == Min(values)
        hi == Max(values)
    IN  IF hi <= lo THEN One ELSE ((v - lo) * One) \div (hi - lo)

Field(s, Get(_)) == {Get(s[i]) : i \in DOMAIN s}
Diff(f) == f.diff
Sharp(f) == f.sharp
Text(f) == f.text

HammingDistance(a, b) == Cardinality(SymDiff(a, b))

\* The first position at which value is greatest: max() with a key.
FirstMax(s, value(_)) ==
    Min({i \in DOMAIN s : \A j \in DOMAIN s : value(s[j]) <= value(s[i])})

-----------------------------------------------------------------------------
(* Stable segments.                                                        *)

\* Twice the median of a sequence.
MiddleTwo(t) == t[(Len(t) + 1) \div 2] + t[(Len(t) + 2) \div 2]
TwiceMedian(s) == MiddleTwo(SortedBy(s, s))

\* detect_stable_segments: a frame is stable if its difference is at most the
\* median of the last ones plus three times their median deviation.
IsStable(diffs, i) ==
    LET window == SubSeq(diffs, Max({1, i - Lookback + 1}), i)
        med == TwiceMedian(window)
        deviations == [j \in DOMAIN window |->
                          IF 2 * window[j] >= med THEN 2 * window[j] - med
                                                  ELSE med - 2 * window[j]]
    IN  4 * diffs[i] <= 2 * med + 3 * TwiceMedian(deviations)

\* The maximal runs of positions in P that are long enough.
LongRuns(P) == {seg \in P \X P : /\ seg[1]..seg[2] \subseteq P
                                 /\ seg[1] - 1 \notin P
                                 /\ seg[2] + 1 \notin P
                                 /\ seg[2] - seg[1] + 1 >= MinStableLen}

RunsInOrder(runs) ==
    InOrder(runs, {p \in runs \X runs : p[1][1] < p[2][1]})

StableSegments(frames) ==
    LET n == Len(frames)
        diffs == [i \in 1..n |-> frames[i].diff]
    IN  RunsInOrder(LongRuns({i \in 1..n : IsStable(diffs, i)}))

-----------------------------------------------------------------------------
(* Candidates.                                                             *)

\* The representative of a segment: its middle, or its sharpest frame if the
\* middle is blurred.
Representative(segment) ==
    LET middle == (Len(segment) + 1) \div 2
    IN  IF Normalize(segment[middle].sharp, Field(segment, Sharp)) < 36
        THEN FirstMax(segment, Sharp)
        ELSE middle

\* build_stable_candidates.
StableCandidate(segment) ==
    LET chosen == segment[Representative(segment)]
    IN  [frame |-> chosen, reason |-> "stable",
         stability |-> One - Normalize(chosen.diff, Field(segment, Diff))]

StableCandidates(frames) ==
    LET segs == StableSegments(frames)
    IN  [i \in DOMAIN segs |->
            StableCandidate(SubSeq(frames, segs[i][1], segs[i][2]))]

Duration(frames) == Max({frames[i].ts : i \in DOMAIN frames})
Bucket(ts) == ts \div BucketGap

InBucket(frames, b) ==
    Picked(frames, {i \in DOMAIN frames : Bucket(frames[i].ts) = b})

\* fallback_rank: calm first, then sharp.
FallbackRank(f, bucket) ==
    LET diffs == Field(bucket, Diff)
        calm == IF Max(diffs) = Min(diffs) THEN One
                ELSE One - Normalize(f.diff, diffs)
    IN  65 * calm + 35 * Normalize(f.sharp, Field(bucket, Sharp))

\* A sample stands for a bucket of time that has no stable candidate.
SampleCandidate(frames, b) ==
    LET bucket == InBucket(frames, b)
        Rank(f) == FallbackRank(f, bucket)
    IN  [frame |-> bucket[FirstMax(bucket, Rank)], reason |-> "sample",
         stability |-> One \div 2]

SampledBuckets(frames) ==
    LET stable == StableCandidates(frames)
    IN  {b \in 0..Bucket(Duration(frames)) :
            /\ InBucket(frames, b) # <<>>
            /\ \A i \in DOMAIN stable : Bucket(stable[i].frame.ts) # b}

SampleCandidates(frames) ==
    LET buckets == Ascending(SampledBuckets(frames))
    IN  [i \in DOMAIN buckets |-> SampleCandidate(frames, buckets[i])]

ByTime(candidates) ==
    SortedBy(candidates,
             [i \in DOMAIN candidates |-> candidates[i].frame.ts])

\* All the candidates, by time as select_with_constraints sorts them.
Candidates(frames) ==
    IF frames = <<>> THEN <<>>
    ELSE ByTime(StableCandidates(frames) \o SampleCandidates(frames))

\* score_candidates.
Score(c, candidates) ==
    LET frames == [i \in DOMAIN candidates |-> candidates[i].frame]
    IN  45 * c.stability + 30 * Normalize(c.frame.sharp, Field(frames, Sharp))
           + 25 * Normalize(c.frame.text, Field(frames, Text))

-----------------------------------------------------------------------------
(* Selection.                                                              *)

Gap(c, d) == IF c.frame.ts >= d.frame.ts THEN c.frame.ts - d.frame.ts
                                         ELSE d.frame.ts - c.frame.ts
Distance(c, d) == HammingDistance(c.frame.hash, d.frame.hash)

\* Mutant of Conflicts: a frame may be as near as the gap less one.
ConflictsNearly(c, d) == Gap(c, d) < MinGap - 1 \/ Distance(c, d) < MinHashDist

\* Too near in time, or too similar.
Conflicts(c, d) == Gap(c, d) < MinGap \/ Distance(c, d) < MinHashDist

Fits(c, selected) == \A d \in selected : ~Conflicts(c, d)

\* By falling score; of equal ones the earlier first.
ByScore(candidates) ==
    SortedBy(candidates,
             [i \in DOMAIN candidates |-> -Score(candidates[i], candidates)])

\* A candidate is new as far as it differs from all that are selected.
Novelty(c, selected) ==
    IF selected = {} THEN One
    ELSE (One * Min({Distance(c, d) : d \in selected})) \div HashBits

\* Good enough, with its novelty, to be taken after the buckets.
Worth(c, candidates, selected) ==
    Score(c, candidates) + 25 * Novelty(c, selected) >= 35 * One

\* select_with_constraints, first pass: the best that fits from each bucket.
TakeFromBucket(selected, b, ranked) ==
    LET fitting == {i \in DOMAIN ranked : /\ Bucket(ranked[i].frame.ts) = b
                                          /\ Fits(ranked[i], selected)}
    IN  IF fitting = {} THEN selected
        ELSE selected \cup {ranked[Min(fitting)]}

CoverBuckets(frames, candidates) ==
    LET ranked == ByScore(candidates)
        buckets == Bucket(Duration(frames)) + 1
        taken[n \in 0..buckets] ==
            IF n = 0 THEN {} ELSE TakeFromBucket(taken[n - 1], n - 1, ranked)
    IN  taken[buckets]

\* Second pass: the others by score, as long as they fit and are worth it.
TakeIfWorth(selected, c, candidates) ==
    IF Fits(c, selected) /\ Worth(c, candidates, selected)
    THEN selected \cup {c} ELSE selected

TakeOthers(covering, candidates) ==
    LET ranked == ByScore(candidates)
        taken[n \in 0..Len(ranked)] ==
            IF n = 0 THEN covering
            ELSE IF ranked[n] \in covering THEN taken[n - 1]
            ELSE TakeIfWorth(taken[n - 1], ranked[n], candidates)
    IN  taken[Len(ranked)]

SelectKeyframes(frames) ==
    LET candidates == Candidates(frames)
    IN  IF frames = <<>> THEN {}
        ELSE TakeOthers(CoverBuckets(frames, candidates), candidates)
=============================================================================
