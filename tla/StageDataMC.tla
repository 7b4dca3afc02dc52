---------------------------- MODULE StageDataMC -----------------------------
(* Inputs for checking StageData with TLC. *)
EXTENDS StageData

CONSTANTS f1, f2

TwoFrames == {f1, f2}

\* Of what was sent and what was lost only the difference matters, to every
\* property and every step.
UpToLosses == <<stage, runs, task, stamps, asked, owned, journal, counted,
                sends, tally.late, tally.sent - tally.lost, work>>

\* What a sampled frame can look like: calm or not, sharp or blurred, the same
\* slide, nearly the same, or another; with and without text.
Looks == {[diff |-> 0, sharp |-> 3, hash |-> {},        text |-> 0],
          [diff |-> 0, sharp |-> 1, hash |-> {1},       text |-> 0],
          [diff |-> 1, sharp |-> 2, hash |-> {1, 2, 3}, text |-> 1],
          [diff |-> 6, sharp |-> 3, hash |-> {2, 3},    text |-> 0],
          [diff |-> 6, sharp |-> 1, hash |-> {1, 2, 3, 4}, text |-> 1]}

\* A frame each second.
Sampled(looks) ==
    [i \in DOMAIN looks |->
        [ts |-> i - 1, diff |-> looks[i].diff, sharp |-> looks[i].sharp,
         hash |-> looks[i].hash, text |-> looks[i].text]]
Features == {Sampled(l) : l \in UNION {[1..n -> Looks] : n \in {0, 1, 3, 5}}}

\* Two segments, also in the wrong order and of no length, one perhaps blank.
Spans == {<<a, b>> \in (0..4) \X (0..4) : a <= b}
TwoSegments ==
    {<<>>} \cup
    {<<[id |-> "a", start |-> p[1], end |-> p[2], text |-> TRUE],
       [id |-> "b", start |-> q[1], end |-> q[2], text |-> t]>> :
        p \in Spans, q \in Spans, t \in BOOLEAN}

Times == {<<>>, <<1>>, <<0, 2>>, <<1, 3>>, <<0, 1, 4>>, <<1, 2, 3>>}

\* Around the limit of a batch and the places where sections are cut.
Lengths == {1, 498, 500, 1001}
Sections == {<<>>} \cup UNION {[1..n -> Lengths] : n \in 1..3}
Partials == {1, 470, 990}
=============================================================================
