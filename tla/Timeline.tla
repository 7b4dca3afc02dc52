------------------------------ MODULE Timeline ------------------------------
(***************************************************************************)
(* Fusion and the evidence it becomes: packages/fusion/service.py, which   *)
(* puts every transcript segment into the chapter of a keyframe, and       *)
(* packages/overall_summary/evidence.py, which reads the result back.      *)
(*                                                                         *)
(* A segment is [id, start, end, text] where text says whether it is more  *)
(* than white space; a keyframe is known by its number and has a time.     *)
(***************************************************************************)
EXTENDS Sorting, SequencesExt, FiniteSetsExt

Segment == [id: STRING, start: Nat, end: Nat, text: BOOLEAN]

\* Rows in the order of their start; equal ones keep their order.
ByStart(transcript) ==
    SortedBy(transcript, [i \in DOMAIN transcript |-> transcript[i].start])

\* _compute_midpoint_boundaries, doubled.
Boundaries(times) == [i \in 1..(Len(times) - 1) |-> times[i] + times[i + 1]]

\* The midpoint of a segment, doubled.
Midpoint(seg) == seg.start + seg.end

\* Mutant of Chapter: the boundary belongs to the keyframe before it.
ChapterBefore(seg, times) ==
    1 + Cardinality({i \in DOMAIN Boundaries(times) :
                        Boundaries(times)[i] < Midpoint(seg)})

\* bisect_right of the midpoint in the boundaries, counted from one.
Chapter(seg, times) ==
    1 + Cardinality({i \in DOMAIN Boundaries(times) :
                        Boundaries(times)[i] <= Midpoint(seg)})

ChunkOf(number, segs, frame, described) ==
    LET segments == {segs[i] : i \in DOMAIN segs}
    IN  [id |-> number,
         start |-> Min({s.start : s \in segments}),
         end |-> Max({s.end : s \in segments}),
         text |-> \E s \in segments : s.text,
         refs |-> [i \in DOMAIN segs |-> segs[i].id],
         frames |-> frame,
         summaries |-> frame \cap described]

\* The segments of a chapter, in the order of the rows.
InChapter(k, rows, times) ==
    Picked(rows, {i \in DOMAIN rows : Chapter(rows[i], times) = k})

\* The keyframes that have segments.
UsedChapters(rows, times) ==
    Ascending({k \in DOMAIN times :
                  \E i \in DOMAIN rows : Chapter(rows[i], times) = k})

\* _build_chunks: a chunk for each keyframe that has segments; without any
\* keyframe one for each segment.
BuildChunks(transcript, times, described) ==
    LET rows == ByStart(transcript)
        used == UsedChapters(rows, times)
    IN  IF times = <<>>
        THEN [i \in DOMAIN rows |-> ChunkOf(i, <<rows[i]>>, {}, {})]
        ELSE [i \in DOMAIN used |->
                 ChunkOf(used[i], InChapter(used[i], rows, times),
                         {used[i]}, described)]

\* read_timeline_evidence: a chunk that is blank or ends before it starts
\* makes the whole timeline invalid.
ValidChunk(chunk) == chunk.end >= chunk.start /\ chunk.text

ReadTimeline(chunks) ==
    /\ \A i \in DOMAIN chunks : ValidChunk(chunks[i])
    /\ \A i, j \in DOMAIN chunks : chunks[i].id = chunks[j].id => i = j
=============================================================================
