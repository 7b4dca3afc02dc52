-------------------------- MODULE JobStages_proofs ---------------------------
(***************************************************************************)
(* Proofs about JobStages, for every number of frames, attempts, kills and *)
(* downloads, and every set of configurations.                             *)
(***************************************************************************)
EXTENDS JobStages, FiniteSetTheorems, TLAPS

-----------------------------------------------------------------------------
(* The inductive invariant.                                                *)

\* Who is at a step is an attempt.
AttemptRuns == at # "off" => attempt \in Attempts

\* Only a job with two formats has a file for analysis.
OnlyPairs ==
    /\ config.source # "pair" => file["analysis"] = None
    /\ at = "analysis" => config.source = "pair"

\* No record in f is of another attempt, or cut off; whether the images behind
\* it were current is left open.
Mine == [of: {{attempt}}, whole: {TRUE}, current: BOOLEAN]
Own(f) == file[f] \in {None} \cup Mine

\* What every output of this attempt holds.
Product == From({"timeline", "summaries"})

\* The files that a step may read are of its own attempt.
BeforeTranscript == {"off", "source", "analysis", "meta", "hotwords",
                     "transcript"}
BeforeKeyframes == BeforeTranscript \cup {"keyframes", "baseline"}
BeforeSummaries == BeforeKeyframes \cup {"images", "missing", "zip",
                                         "summarise"}
BeforeTimeline == BeforeSummaries \cup {"calls", "timeline"}

WorkIsOwn ==
    /\ at \notin {"off", "source"} => Own("source")
    /\ at \notin {"off", "source", "analysis"} => Own("analysis")
    /\ at \notin BeforeTranscript => Own("transcript")
    /\ at \notin BeforeKeyframes => Own("keyframes")
    /\ at \notin BeforeSummaries => Own("summaries")
    /\ at \notin BeforeTimeline => Own("timeline")
    /\ at = "publish" => \A f \in Outputs : file[f] \in {None, Product}

\* Whatever is published is the whole work of one attempt.
OutputsAreWhole ==
    \A f \in Outputs :
        file[f] # None =>
            \E a \in Attempts :
                file[f] \in [of: {{a}}, whole: {TRUE}, current: BOOLEAN]

\* Images, archive and summaries as the stages leave them.
FramesAreServed ==
    /\ at = "zip" => Missing(images) = {}
    /\ at \in {"summarise", "calls", "timeline", "withdraw", "publish", "final"}
          => selected \subseteq zipped
    /\ at \in {"timeline", "withdraw", "publish", "final"}
          => summarised = selected

\* What the reader has looked at is what its manifest vouches for.
ReaderIsStrict ==
    reader.manifest # None =>
        \A f \in Artifacts \ reader.left : reader.seen[f] = reader.manifest

IInv == /\ TypeOK
        /\ AttemptRuns
        /\ OnlyPairs
        /\ WorkIsOwn
        /\ OutputsAreWhole
        /\ ManifestCoversOutputs
        /\ FramesAreServed
        /\ ReaderIsStrict

-----------------------------------------------------------------------------
(* Files.                                                                  *)

\* Writing one file keeps the type of the directory.
LEMMA FileUpdate ==
    ASSUME TypeOK, NEW f \in Files, NEW c \in Content \cup {None}
    PROVE  [file EXCEPT ![f] = c] \in [Files -> Content \cup {None}]
BY DEF TypeOK

\* What an attempt derives is content, and leaving a file torn is.
LEMMA FromType ==
    ASSUME TypeOK, attempt \in Attempts, NEW inputs \in SUBSET Files,
           NEW frames \in SUBSET Frames
    PROVE  /\ From(inputs) \in Content
           /\ FromImages(inputs, frames) \in Content
           /\ Torn \in Content
<1>1. \A f \in Present(inputs) : file[f] \in Content
  BY DEF TypeOK, Present
<1>2. UNION {file[f].of : f \in Present(inputs)} \subseteq Attempts
  BY <1>1 DEF Content
<1>3. /\ (\A f \in Present(inputs) : file[f].whole) \in BOOLEAN
      /\ (\A f \in Present(inputs) : file[f].current) \in BOOLEAN
  OBVIOUS
<1>4. From(inputs) \in Content
  BY <1>2, <1>3 DEF From, Content
<1>5. FromImages(inputs, frames) \in Content
  BY <1>4 DEF FromImages, Content
<1>6. Torn \in Content
  BY DEF Torn, Content
<1> QED
  BY <1>4, <1>5, <1>6

\* From files of its own an attempt derives one of its own.
LEMMA FromMine ==
    ASSUME NEW inputs \in SUBSET Files, \A f \in inputs : Own(f),
           NEW frames \in SUBSET Frames
    PROVE  From(inputs) \in Mine /\ FromImages(inputs, frames) \in Mine
<1>1. \A f \in Present(inputs) : file[f] \in Mine
  BY DEF Present, Own
<1>2. \A f \in Present(inputs) : file[f].of = {attempt} /\ file[f].whole
  BY <1>1 DEF Mine
<1>3. {attempt} \cup UNION {file[f].of : f \in Present(inputs)} = {attempt}
  BY <1>2
<1>4. (\A f \in Present(inputs) : file[f].current) \in BOOLEAN
  OBVIOUS
<1>5. From(inputs) = [of |-> {attempt}, whole |-> TRUE,
                      current |-> \A f \in Present(inputs) : file[f].current]
  BY <1>2, <1>3 DEF From
<1>6. From(inputs) \in Mine
  BY <1>4, <1>5 DEF Mine
<1>7. [From(inputs) EXCEPT !.current = FALSE] \in Mine
  BY <1>6 DEF Mine
<1>8. FromImages(inputs, frames) \in Mine
  BY <1>6, <1>7 DEF FromImages
<1> QED
  BY <1>6, <1>8

\* The product stays the same while its inputs and the attempt do.
LEMMA ProductStays ==
    ASSUME attempt' = attempt, file'["timeline"] = file["timeline"],
           file'["summaries"] = file["summaries"]
    PROVE  Product' = Product
BY DEF Product, From, Present

-----------------------------------------------------------------------------
(* The initial states.                                                     *)

LEMMA InitIInv == Init => IInv
<1> SUFFICES ASSUME Init PROVE IInv
  OBVIOUS
<1> USE StagesAssumption DEF Init
<1>1. TypeOK
  <2>1. reader \in [manifest: Content \cup {None}, left: SUBSET Outputs,
                    seen: [Outputs -> Content \cup {None}]]
    BY DEF Unseen
  <2> QED
    BY <2>1 DEF TypeOK, Statuses, Steps, Shots
<1>2. AttemptRuns /\ OnlyPairs /\ OutputsAreWhole /\ ManifestCoversOutputs
  BY DEF AttemptRuns, OnlyPairs, OutputsAreWhole, ManifestCoversOutputs, Files,
         Outputs
<1>3. WorkIsOwn /\ FramesAreServed
  BY DEF WorkIsOwn, FramesAreServed, BeforeTranscript, BeforeKeyframes,
         BeforeSummaries, BeforeTimeline
<1>4. ReaderIsStrict
  BY DEF ReaderIsStrict
<1> QED
  BY <1>1, <1>2, <1>3, <1>4 DEF IInv

-----------------------------------------------------------------------------
(* Types.                                                                  *)

ControlShape ==
    /\ config \in Configs
    /\ attempt \in 0..MaxAttempts
    /\ status \in Statuses
    /\ asked \in {"none", "pause", "cancel"}
    /\ owned \in BOOLEAN
    /\ at \in Steps
    /\ tries \in 0..DownloadRetries
    /\ kills \in 0..MaxKills
    /\ AttemptRuns

\* How an attempt ends is a status.
LEMMA EndShape ==
    ASSUME status \in Statuses
    PROVE  ControlledEnd \in Statuses
BY DEF ControlledEnd, Statuses

LEMMA ControlStep ==
    ASSUME TypeOK, AttemptRuns, [Next]_vars
    PROVE  ControlShape'
<1> USE StagesAssumption
<1>0. ControlShape /\ ControlledEnd \in Statuses
  BY EndShape DEF TypeOK, ControlShape
<1>1. CASE Begin
  BY <1>0, <1>1 DEF Begin, FirstStep, jobVars, ControlShape, AttemptRuns,
       Attempts, Steps, Fallible, StageStarts, Statuses
<1>2. CASE FetchSource
  BY <1>0, <1>2 DEF FetchSource, Reaches, jobVars, ControlShape, AttemptRuns,
       Attempts, Steps, Fallible, StageStarts, Statuses
<1>3. CASE FetchAnalysis
  BY <1>0, <1>3 DEF FetchAnalysis, Writes, Reaches, jobVars, ControlShape,
       AttemptRuns, Attempts, Steps, Fallible, StageStarts, Statuses
<1>4. CASE RetryDownloads
  BY <1>0, <1>4 DEF RetryDownloads, DownloadStops, Reaches, jobVars,
       ControlShape, AttemptRuns, Attempts, Steps, Fallible, StageStarts,
       Statuses
<1>5. CASE CancelDownload
  BY <1>0, <1>5 DEF CancelDownload, EndAs, DownloadStops, Reaches, jobVars,
       ControlShape, AttemptRuns, Attempts, Steps, Fallible, StageStarts,
       Statuses
<1>6. CASE WriteMeta
  BY <1>0, <1>6 DEF WriteMeta, Writes, Reaches, jobVars, ControlShape,
       AttemptRuns, Attempts, Steps, Fallible, StageStarts, Statuses
<1>7. CASE WriteHotwords
  BY <1>0, <1>7 DEF WriteHotwords, Writes, Reaches, jobVars, ControlShape,
       AttemptRuns, Attempts, Steps, Fallible, StageStarts, Statuses
<1>8. CASE WriteTranscript
  BY <1>0, <1>8 DEF WriteTranscript, Writes, Reaches, jobVars, ControlShape,
       AttemptRuns, Attempts, Steps, Fallible, StageStarts, Statuses
<1>9. CASE SelectFrames
  BY <1>0, <1>9 DEF SelectFrames, Select, Reaches, Raise, EndAs, jobVars,
       ControlShape, AttemptRuns, Attempts, Steps, Fallible, StageStarts,
       Statuses
<1>10. CASE WriteImages
  BY <1>0, <1>10 DEF WriteImages, jobVars, ControlShape, AttemptRuns,
       Attempts, Steps, Fallible, StageStarts, Statuses
<1>11. CASE FallBack
  BY <1>0, <1>11 DEF FallBack, Reaches, jobVars, ControlShape, AttemptRuns,
       Attempts, Steps, Fallible, StageStarts, Statuses
<1>12. CASE SelectBaseline
  BY <1>0, <1>12 DEF SelectBaseline, Select, Reaches, Raise, EndAs, jobVars,
       ControlShape, AttemptRuns, Attempts, Steps, Fallible, StageStarts,
       Statuses
<1>13. CASE WriteMissing
  BY <1>0, <1>13 DEF WriteMissing, Raise, EndAs, jobVars, ControlShape,
       AttemptRuns, Attempts, Steps, Fallible, StageStarts, Statuses
<1>14. CASE BuildZip
  BY <1>0, <1>14 DEF BuildZip, Writes, Reaches, jobVars, ControlShape,
       AttemptRuns, Attempts, Steps, Fallible, StageStarts, Statuses
<1>15. CASE SummariseFrames
  BY <1>0, <1>15 DEF SummariseFrames, Writes, Reaches, jobVars, ControlShape,
       AttemptRuns, Attempts, Steps, Fallible, StageStarts, Statuses
<1>16. CASE SaveSummaries
  BY <1>0, <1>16 DEF SaveSummaries, Writes, Reaches, jobVars, ControlShape,
       AttemptRuns, Attempts, Steps, Fallible, StageStarts, Statuses
<1>17. CASE Fuse
  BY <1>0, <1>17 DEF Fuse, Writes, Reaches, jobVars, ControlShape,
       AttemptRuns, Attempts, Steps, Fallible, StageStarts, Statuses
<1>18. CASE Withdraw
  BY <1>0, <1>18 DEF Withdraw, jobVars, ControlShape, AttemptRuns, Attempts,
       Steps, Fallible, StageStarts, Statuses
<1>19. CASE Render
  BY <1>0, <1>19 DEF Render, Reaches, jobVars, ControlShape, AttemptRuns,
       Attempts, Steps, Fallible, StageStarts, Statuses
<1>20. CASE Publish
  BY <1>0, <1>20 DEF Publish, jobVars, ControlShape, AttemptRuns, Attempts,
       Steps, Fallible, StageStarts, Statuses
<1>21. CASE PublishRaises
  BY <1>0, <1>21 DEF PublishRaises, jobVars, ControlShape, AttemptRuns,
       Attempts, Steps, Fallible, StageStarts, Statuses
<1>22. CASE Retracted
  BY <1>0, <1>22 DEF Retracted, Raise, EndAs, jobVars, ControlShape,
       AttemptRuns, Attempts, Steps, Fallible, StageStarts, Statuses
<1>23. CASE Stop
  BY <1>0, <1>23 DEF Stop, EndAs, jobVars, ControlShape, AttemptRuns,
       Attempts, Steps, Fallible, StageStarts, Statuses
<1>24. CASE StageRaises
  BY <1>0, <1>24 DEF StageRaises, Raise, EndAs, jobVars, ControlShape,
       AttemptRuns, Attempts, Steps, Fallible, StageStarts, Statuses
<1>25. CASE Succeed
  BY <1>0, <1>25 DEF Succeed, EndAs, Reaches, jobVars, ControlShape,
       AttemptRuns, Attempts, Steps, Fallible, StageStarts, Statuses
<1>26. CASE Kill
  BY <1>0, <1>26 DEF Kill, EndAs, jobVars, ControlShape, AttemptRuns,
       Attempts, Steps, Fallible, StageStarts, Statuses
<1>27. CASE Ask
  BY <1>0, <1>27 DEF Ask, jobVars, ControlShape, AttemptRuns, Attempts, Steps,
       Fallible, StageStarts, Statuses
<1>28. CASE LoseClaim
  BY <1>0, <1>28 DEF LoseClaim, jobVars, ControlShape, AttemptRuns, Attempts,
       Steps, Fallible, StageStarts, Statuses
<1>29. CASE ReadManifest
  BY <1>0, <1>29 DEF ReadManifest, jobVars, ControlShape, AttemptRuns,
       Attempts, Steps, Fallible, StageStarts, Statuses
<1>30. CASE VerifyArtifact
  BY <1>0, <1>30 DEF VerifyArtifact, jobVars, ControlShape, AttemptRuns,
       Attempts, Steps, Fallible, StageStarts, Statuses
<1>31. CASE UNCHANGED vars
  BY <1>0, <1>31 DEF vars, jobVars, ControlShape, AttemptRuns
<1> QED
  BY <1>1, <1>2, <1>3, <1>4, <1>5, <1>6, <1>7, <1>8, <1>9, <1>10, <1>11,
     <1>12, <1>13, <1>14, <1>15, <1>16, <1>17, <1>18, <1>19, <1>20, <1>21,
     <1>22, <1>23, <1>24, <1>25, <1>26, <1>27, <1>28, <1>29, <1>30, <1>31
     DEF Next, WorkerStep, Ingest, Keyframes, FrameSummary, Deliverables

FileShape == file \in [Files -> Content \cup {None}]

LEMMA FileStep ==
    ASSUME TypeOK, AttemptRuns, [Next]_vars
    PROVE  FileShape'
<1>0. FileShape /\ selected \in SUBSET Frames
  BY DEF TypeOK, FileShape
<1>f. ASSUME attempt \in Attempts
      PROVE  /\ \A inputs \in SUBSET Files : From(inputs) \in Content
             /\ \A inputs \in SUBSET Files, frames \in SUBSET Frames :
                   FromImages(inputs, frames) \in Content
             /\ Torn \in Content
  BY <1>f, FromType
<1>1. CASE FetchSource
  BY <1>0, <1>f, <1>1 DEF FetchSource, Reaches, FileShape, Files,
       StageStarts, Outputs, AttemptRuns, Video
<1>2. CASE FetchAnalysis
  BY <1>0, <1>f, <1>2 DEF FetchAnalysis, Writes, Reaches, FileShape, Files,
       StageStarts, Outputs, AttemptRuns, Video
<1>3. CASE RetryDownloads
  BY <1>0, <1>f, <1>3 DEF RetryDownloads, DownloadStops, Reaches, FileShape,
       Files, StageStarts, Outputs, AttemptRuns, Video
<1>4. CASE CancelDownload
  BY <1>0, <1>f, <1>4 DEF CancelDownload, EndAs, DownloadStops, Reaches,
       FileShape, Files, StageStarts, Outputs, AttemptRuns, Video
<1>5. CASE WriteMeta
  BY <1>0, <1>f, <1>5 DEF WriteMeta, Writes, Reaches, FileShape, Files,
       StageStarts, Outputs, AttemptRuns, Video
<1>6. CASE WriteHotwords
  BY <1>0, <1>f, <1>6 DEF WriteHotwords, Writes, Reaches, FileShape, Files,
       StageStarts, Outputs, AttemptRuns, Video
<1>7. CASE WriteTranscript
  BY <1>0, <1>f, <1>7 DEF WriteTranscript, Writes, Reaches, FileShape,
       Files, StageStarts, Outputs, AttemptRuns, Video
<1>8. CASE SelectFrames
  BY <1>0, <1>f, <1>8 DEF SelectFrames, Select, Reaches, Raise, EndAs,
       FileShape, Files, StageStarts, Outputs, AttemptRuns, Video
<1>9. CASE SelectBaseline
  BY <1>0, <1>f, <1>9 DEF SelectBaseline, Select, Reaches, Raise, EndAs,
       FileShape, Files, StageStarts, Outputs, AttemptRuns, Video
<1>10. CASE BuildZip
  BY <1>0, <1>f, <1>10 DEF BuildZip, Writes, Reaches, FileShape, Files,
       StageStarts, Outputs, AttemptRuns, Video
<1>11. CASE SummariseFrames
  BY <1>0, <1>f, <1>11 DEF SummariseFrames, Writes, Reaches, FileShape,
       Files, StageStarts, Outputs, AttemptRuns, Video
<1>12. CASE SaveSummaries
  BY <1>0, <1>f, <1>12 DEF SaveSummaries, Writes, Reaches, FileShape, Files,
       StageStarts, Outputs, AttemptRuns, Video
<1>13. CASE Fuse
  BY <1>0, <1>f, <1>13 DEF Fuse, Writes, Reaches, FileShape, Files,
       StageStarts, Outputs, AttemptRuns, Video
<1>14. CASE Withdraw
  BY <1>0, <1>f, <1>14 DEF Withdraw, Reaches, FileShape, Files, StageStarts,
       Outputs, AttemptRuns, Video
<1>15. CASE Publish
  <2>1. PICK f \in First(Unpublished, PublishRank) :
           file' = [file EXCEPT ![f] = From({"timeline", "summaries"})]
    BY <1>15 DEF Publish
  <2>2. f \in Files /\ {"timeline", "summaries"} \in SUBSET Files
    BY <2>1 DEF First, Unpublished, Artifacts, Files, Outputs
  <2>3. attempt \in Attempts
    BY <1>15 DEF Publish, AttemptRuns
  <2> QED
    BY <1>0, <1>f, <2>1, <2>2, <2>3 DEF FileShape
<1>16. CASE Kill
  BY <1>0, <1>f, <1>16 DEF Kill, FileShape, Files, InPlace, AttemptRuns
<1>17. CASE \/ Begin \/ WriteImages \/ FallBack \/ WriteMissing \/ Render
           \/ PublishRaises \/ Retracted \/ Stop \/ StageRaises
           \/ Succeed \/ Ask \/ LoseClaim \/ ReadManifest
           \/ VerifyArtifact
  BY <1>0, <1>17 DEF Begin, FirstStep, FileShape, jobVars, frameVars,
       WriteImages, FallBack, Reaches, WriteMissing, Raise, EndAs, Render,
       PublishRaises, Retracted, Stop, StageRaises, Succeed, Ask, LoseClaim,
       ReadManifest, VerifyArtifact
<1>18. CASE UNCHANGED vars
  BY <1>0, <1>18 DEF vars, FileShape, jobVars, frameVars
<1> QED
  BY <1>1, <1>2, <1>3, <1>4, <1>5, <1>6, <1>7, <1>8, <1>9, <1>10, <1>11,
       <1>12, <1>13, <1>14, <1>15, <1>16, <1>17, <1>18 DEF Next, WorkerStep,
       Ingest, Keyframes, FrameSummary, Deliverables

FramesShape == /\ images \in [Frames -> Shots]
               /\ selected \subseteq Frames
               /\ zipped \subseteq Frames
               /\ summarised \subseteq Frames

LEMMA FramesStep ==
    ASSUME TypeOK, [Next]_vars
    PROVE  FramesShape'
<1>0. FramesShape
  BY DEF TypeOK, FramesShape
<1>1a. \A written \in SUBSET Frames : Shot(written) \in [Frames -> Shots]
  BY <1>0 DEF Shot, Shots, FramesShape
<1>1b. /\ Outdated \in [Frames -> Shots]
       /\ \A n \in 0..NumFrames : 1..n \subseteq Frames
  BY StagesAssumption DEF Outdated, Shots, Frames
<1>1c. Missing(images) \subseteq Frames
  BY <1>0 DEF Missing, FramesShape
<1>1. CASE SelectFrames
  BY <1>0, <1>1b, <1>1 DEF SelectFrames, Select, FramesShape
<1>2. CASE WriteImages
  BY <1>0, <1>1a, <1>2 DEF WriteImages, FramesShape
<1>3. CASE FallBack
  BY <1>0, <1>1a, <1>3 DEF FallBack, FramesShape
<1>4. CASE SelectBaseline
  BY <1>0, <1>1b, <1>4 DEF SelectBaseline, Select, FramesShape
<1>5. CASE WriteMissing
  BY <1>0, <1>1a, <1>1c, <1>5 DEF WriteMissing, FramesShape
<1>6. CASE SaveSummaries
  BY <1>0, <1>6 DEF SaveSummaries, Writes, Answered, FramesShape
<1>7. CASE Kill
  <2>1. PICK written, broken \in SUBSET Shooting :
           images' = [i \in Frames |->
                         IF i \in broken THEN "stale" ELSE Shot(written)[i]]
    BY <1>7 DEF Kill
  <2>2. Shooting \subseteq Frames
    BY <1>0, <1>1c DEF Shooting, FramesShape
  <2>3. Shot(written) \in [Frames -> Shots]
    BY <1>1a, <2>2
  <2> QED
    BY <1>0, <2>1, <2>3, <1>7 DEF Kill, FramesShape, Shots
<1>8. CASE \/ Begin \/ FetchSource \/ FetchAnalysis \/ RetryDownloads
           \/ CancelDownload \/ WriteMeta \/ WriteHotwords
           \/ WriteTranscript \/ BuildZip \/ SummariseFrames \/ Fuse
           \/ Withdraw \/ Render \/ Publish \/ PublishRaises \/ Retracted
           \/ Stop \/ StageRaises \/ Succeed \/ Ask \/ LoseClaim
           \/ ReadManifest \/ VerifyArtifact
  BY <1>0, <1>8 DEF Begin, FirstStep, FramesShape, jobVars, frameVars,
       FetchSource, Reaches, FetchAnalysis, Writes, RetryDownloads,
       DownloadStops, CancelDownload, EndAs, WriteMeta, WriteHotwords,
       WriteTranscript, BuildZip, SummariseFrames, Fuse, Withdraw, Render,
       Publish, PublishRaises, Retracted, Raise, Stop, StageRaises, Succeed, Ask,
       LoseClaim, ReadManifest, VerifyArtifact
<1>9. CASE UNCHANGED vars
  BY <1>0, <1>9 DEF vars, FramesShape, jobVars, frameVars
<1> QED
  BY <1>1, <1>2, <1>3, <1>4, <1>5, <1>6, <1>7, <1>8, <1>9 DEF Next,
       WorkerStep, Ingest, Keyframes, FrameSummary, Deliverables

ReaderShape == reader \in [manifest: Content \cup {None}, left: SUBSET Outputs,
                           seen: [Outputs -> Content \cup {None}]]

LEMMA ReaderStep ==
    ASSUME TypeOK, [Next]_vars
    PROVE  ReaderShape'
<1>0. ReaderShape /\ Unseen \in [Outputs -> Content \cup {None}]
  BY DEF TypeOK, ReaderShape, Unseen
<1>1a. FileShape /\ Outputs \subseteq Files /\ Artifacts \subseteq Outputs
  BY DEF TypeOK, FileShape, Files, Outputs, Artifacts
<1>1. CASE ReadManifest
  BY <1>0, <1>1a, <1>1 DEF ReadManifest, ReaderShape, FileShape, Outputs
<1>2. CASE VerifyArtifact
  <2>1. PICK f \in First(reader.left, PublishRank) :
           reader' = IF Vouched(f)
                     THEN [reader EXCEPT !.left = @ \ {f}, !.seen[f] = file[f]]
                     ELSE [manifest |-> None, left |-> {}, seen |-> Unseen]
    BY <1>2 DEF VerifyArtifact
  <2>2. f \in Outputs /\ file[f] \in Content \cup {None}
    BY <1>0, <1>1a, <2>1 DEF First, ReaderShape, FileShape
  <2> QED
    BY <1>0, <2>1, <2>2 DEF ReaderShape
<1>3. CASE \/ Begin \/ FetchSource \/ FetchAnalysis \/ RetryDownloads
           \/ CancelDownload \/ WriteMeta \/ WriteHotwords
           \/ WriteTranscript \/ SelectFrames \/ WriteImages \/ FallBack
           \/ SelectBaseline \/ WriteMissing \/ BuildZip
           \/ SummariseFrames \/ SaveSummaries \/ Fuse \/ Withdraw
           \/ Render \/ Publish \/ PublishRaises \/ Retracted \/ Stop
           \/ StageRaises \/ Succeed \/ Kill \/ Ask \/ LoseClaim
  BY <1>0, <1>3 DEF Begin, FirstStep, ReaderShape, jobVars, frameVars,
       FetchSource, Reaches, FetchAnalysis, Writes, RetryDownloads,
       DownloadStops, CancelDownload, EndAs, WriteMeta, WriteHotwords,
       WriteTranscript, SelectFrames, Select, Raise, WriteImages, FallBack,
       SelectBaseline, WriteMissing, BuildZip, SummariseFrames, SaveSummaries,
       Fuse, Withdraw, Render, Publish, PublishRaises, Retracted, Stop,
       StageRaises, Succeed, Kill, Ask, LoseClaim
<1>4. CASE UNCHANGED vars
  BY <1>0, <1>4 DEF vars, ReaderShape, jobVars, frameVars
<1> QED
  BY <1>1, <1>2, <1>3, <1>4 DEF Next, WorkerStep, Ingest, Keyframes,
       FrameSummary, Deliverables

LEMMA TypeStep ==
    ASSUME TypeOK, AttemptRuns, [Next]_vars
    PROVE  TypeOK' /\ AttemptRuns'
BY ControlStep, FileStep, FramesStep, ReaderStep
   DEF TypeOK, ControlShape, FileShape, FramesShape, ReaderShape
-----------------------------------------------------------------------------
(* Whose work the files are.                                               *)


\* A step writes what is its attempt's own, from what is its attempt's own.
LEMMA WorkStep ==
    ASSUME TypeOK, AttemptRuns, OnlyPairs, WorkIsOwn, [Next]_vars
    PROVE  OnlyPairs' /\ WorkIsOwn'
<1>0. /\ FileShape /\ OnlyPairs /\ WorkIsOwn /\ config \in Configs
      /\ selected \in SUBSET Frames
  BY DEF TypeOK, FileShape
<1>f. \A inputs \in SUBSET Files :
         (\A f \in inputs : Own(f)) =>
             /\ From(inputs) \in Mine
             /\ \A fs \in SUBSET Frames : FromImages(inputs, fs) \in Mine
  BY FromMine
<1>m. attempt' = attempt => Mine' = Mine
  BY DEF Mine
<1>1. CASE Begin
  BY <1>0, <1>m, <1>1 DEF Begin, FirstStep, frameVars, WorkIsOwn, OnlyPairs, Own,
       BeforeTranscript, BeforeKeyframes, BeforeSummaries, BeforeTimeline
<1>2. CASE FetchSource
  BY <1>0, <1>f, <1>m, <1>2 DEF FetchSource, Reaches, FileShape, jobVars,
       frameVars, Files, Outputs, Video, WorkIsOwn, OnlyPairs, Own,
       BeforeTranscript, BeforeKeyframes, BeforeSummaries, BeforeTimeline
<1>3. CASE FetchAnalysis
  BY <1>0, <1>f, <1>m, <1>3 DEF FetchAnalysis, Writes, Reaches, FileShape,
       jobVars, frameVars, Files, Outputs, Video, WorkIsOwn, OnlyPairs, Own,
       BeforeTranscript, BeforeKeyframes, BeforeSummaries, BeforeTimeline
<1>4. CASE RetryDownloads
  BY <1>0, <1>f, <1>m, <1>4 DEF RetryDownloads, DownloadStops, Reaches, FileShape,
       jobVars, frameVars, Files, Outputs, Video, WorkIsOwn, OnlyPairs, Own,
       BeforeTranscript, BeforeKeyframes, BeforeSummaries, BeforeTimeline
<1>5. CASE CancelDownload
  BY <1>0, <1>f, <1>m, <1>5 DEF CancelDownload, EndAs, DownloadStops, Reaches,
       FileShape, jobVars, frameVars, Files, Outputs, Video, WorkIsOwn,
       OnlyPairs, Own, BeforeTranscript, BeforeKeyframes, BeforeSummaries,
       BeforeTimeline
<1>6. CASE WriteMeta
  BY <1>0, <1>f, <1>m, <1>6 DEF WriteMeta, Writes, Reaches, FileShape, jobVars,
       frameVars, Files, Outputs, Video, WorkIsOwn, OnlyPairs, Own,
       BeforeTranscript, BeforeKeyframes, BeforeSummaries, BeforeTimeline
<1>7. CASE WriteHotwords
  BY <1>0, <1>f, <1>m, <1>7 DEF WriteHotwords, Writes, Reaches, FileShape,
       jobVars, frameVars, Files, Outputs, Video, WorkIsOwn, OnlyPairs, Own,
       BeforeTranscript, BeforeKeyframes, BeforeSummaries, BeforeTimeline
<1>8. CASE WriteTranscript
  BY <1>0, <1>f, <1>m, <1>8 DEF WriteTranscript, Writes, Reaches, FileShape,
       jobVars, frameVars, Files, Outputs, Video, WorkIsOwn, OnlyPairs, Own,
       BeforeTranscript, BeforeKeyframes, BeforeSummaries, BeforeTimeline
<1>9. CASE SelectFrames
  BY <1>0, <1>f, <1>m, <1>9 DEF SelectFrames, Select, Reaches, Raise, EndAs,
       FileShape, jobVars, frameVars, Files, Outputs, Video, WorkIsOwn,
       OnlyPairs, Own, BeforeTranscript, BeforeKeyframes, BeforeSummaries,
       BeforeTimeline
<1>10. CASE SelectBaseline
  BY <1>0, <1>f, <1>m, <1>10 DEF SelectBaseline, Select, Reaches, Raise, EndAs,
       FileShape, jobVars, frameVars, Files, Outputs, Video, WorkIsOwn,
       OnlyPairs, Own, BeforeTranscript, BeforeKeyframes, BeforeSummaries,
       BeforeTimeline
<1>11. CASE WriteMissing
  BY <1>0, <1>f, <1>m, <1>11 DEF WriteMissing, Raise, EndAs, FileShape, jobVars,
       frameVars, Files, Outputs, Video, WorkIsOwn, OnlyPairs, Own,
       BeforeTranscript, BeforeKeyframes, BeforeSummaries, BeforeTimeline
<1>12. CASE BuildZip
  BY <1>0, <1>f, <1>m, <1>12 DEF BuildZip, Writes, Reaches, FileShape, jobVars,
       frameVars, Files, Outputs, Video, WorkIsOwn, OnlyPairs, Own,
       BeforeTranscript, BeforeKeyframes, BeforeSummaries, BeforeTimeline
<1>13. CASE SummariseFrames
  BY <1>0, <1>f, <1>m, <1>13 DEF SummariseFrames, Writes, Reaches, FileShape,
       jobVars, frameVars, Files, Outputs, Video, WorkIsOwn, OnlyPairs, Own,
       BeforeTranscript, BeforeKeyframes, BeforeSummaries, BeforeTimeline
<1>14. CASE SaveSummaries
  BY <1>0, <1>f, <1>m, <1>14 DEF SaveSummaries, Writes, Reaches, FileShape,
       jobVars, frameVars, Files, Outputs, Video, WorkIsOwn, OnlyPairs, Own,
       BeforeTranscript, BeforeKeyframes, BeforeSummaries, BeforeTimeline
<1>15. CASE Fuse
  BY <1>0, <1>f, <1>m, <1>15 DEF Fuse, Writes, Reaches, FileShape, jobVars,
       frameVars, Files, Outputs, Video, WorkIsOwn, OnlyPairs, Own,
       BeforeTranscript, BeforeKeyframes, BeforeSummaries, BeforeTimeline
<1>16. CASE Withdraw
  <2>1. PICK f \in Outputs : file' = [file EXCEPT ![f] = None]
    BY <1>16 DEF Withdraw, First, Present
  <2> QED
    BY <1>0, <1>m, <2>1, <1>16 DEF Withdraw, jobVars, FileShape, Files, Outputs,
       WorkIsOwn, OnlyPairs, Own, BeforeTranscript, BeforeKeyframes,
       BeforeSummaries, BeforeTimeline
<1>17. CASE Render
  BY <1>0, <1>m, <1>17 DEF Render, Reaches, Present, jobVars, frameVars,
       WorkIsOwn, OnlyPairs, Own, BeforeTranscript, BeforeKeyframes,
       BeforeSummaries, BeforeTimeline
<1>18. CASE Publish
  <2>1. PICK f \in First(Unpublished, PublishRank) :
           file' = [file EXCEPT ![f] = From({"timeline", "summaries"})]
    BY <1>18 DEF Publish
  <2>2. f \in Outputs
    BY <2>1 DEF First, Unpublished, Artifacts, Outputs
  <2>3. /\ attempt' = attempt /\ config' = config
        /\ at = "publish" /\ at' \in {"publish", "final"}
    BY <1>18 DEF Publish, jobVars
  <2>4. /\ file' = [file EXCEPT ![f] = Product]
        /\ Product' = Product
    BY <1>0, <2>1, <2>2, <2>3, ProductStays DEF Product, FileShape, Files,
       Outputs
  <2> QED
    BY <1>0, <1>m, <2>2, <2>3, <2>4 DEF FileShape, Files, Outputs, WorkIsOwn,
       OnlyPairs, Own, BeforeTranscript, BeforeKeyframes,
       BeforeSummaries, BeforeTimeline
<1>19. CASE Kill
  BY <1>0, <1>m, <1>19 DEF Kill, EndAs, InPlace, Files, Outputs, FileShape,
       WorkIsOwn, OnlyPairs, Own, BeforeTranscript, BeforeKeyframes,
       BeforeSummaries, BeforeTimeline
<1>20. CASE \/ WriteImages \/ FallBack \/ PublishRaises \/ Retracted
           \/ Stop \/ StageRaises \/ Succeed
  BY <1>0, <1>m, <1>20 DEF WriteImages, jobVars, frameVars, WorkIsOwn,
       OnlyPairs, Own, BeforeTranscript, BeforeKeyframes, BeforeSummaries,
       BeforeTimeline, FallBack, Reaches, PublishRaises, Retracted, Raise,
       EndAs, Stop, StageRaises, Succeed
<1>21. CASE Ask \/ LoseClaim \/ ReadManifest \/ VerifyArtifact \/ UNCHANGED vars
  <2>1. /\ attempt' = attempt /\ config' = config /\ at' = at
        /\ file' = file
    BY <1>21 DEF Ask, LoseClaim, ReadManifest, VerifyArtifact, vars, jobVars
  <2>2. Product' = Product
    BY <2>1, ProductStays
  <2> QED
    BY <1>0, <1>m, <2>1, <2>2 DEF WorkIsOwn, OnlyPairs, Own
<1> QED
  BY <1>1, <1>2, <1>3, <1>4, <1>5, <1>6, <1>7, <1>8, <1>9, <1>10, <1>11,
       <1>12, <1>13, <1>14, <1>15, <1>16, <1>17, <1>18, <1>19, <1>20, <1>21 DEF
       Next, WorkerStep, Ingest, Keyframes, FrameSummary, Deliverables

OutputsStay == \A f \in Outputs : file'[f] = file[f]
OutputWithdrawn ==
    \E f \in First(Present(Outputs), WithdrawRank) :
        file' = [file EXCEPT ![f] = None]
OutputPublished ==
    /\ at = "publish"
    /\ attempt \in Attempts
    /\ Product \in Mine
    /\ \E f \in First(Unpublished, PublishRank) :
           file' = [file EXCEPT ![f] = Product]

\* Only withdrawing and publishing touch the outputs.
LEMMA OutputStep ==
    ASSUME TypeOK, AttemptRuns, WorkIsOwn, [Next]_vars
    PROVE  /\ config' = config
           /\ OutputsStay \/ OutputWithdrawn \/ OutputPublished
<1>0. FileShape
  BY DEF TypeOK, FileShape
<1>f. \A inputs \in SUBSET Files :
         (\A f \in inputs : Own(f)) =>
             /\ From(inputs) \in Mine
             /\ \A fs \in SUBSET Frames : FromImages(inputs, fs) \in Mine
  BY FromMine
<1>1. CASE FetchSource
  BY <1>0, <1>1 DEF FetchSource, Reaches, FileShape, OutputsStay, jobVars,
       frameVars, Files, Outputs
<1>2. CASE FetchAnalysis
  BY <1>0, <1>2 DEF FetchAnalysis, Writes, Reaches, FileShape, OutputsStay,
       jobVars, frameVars, Files, Outputs
<1>3. CASE RetryDownloads
  BY <1>0, <1>3 DEF RetryDownloads, DownloadStops, Reaches, FileShape,
       OutputsStay, jobVars, frameVars, Files, Outputs
<1>4. CASE CancelDownload
  BY <1>0, <1>4 DEF CancelDownload, EndAs, DownloadStops, Reaches,
       FileShape, OutputsStay, jobVars, frameVars, Files, Outputs
<1>5. CASE WriteMeta
  BY <1>0, <1>5 DEF WriteMeta, Writes, Reaches, FileShape, OutputsStay,
       jobVars, frameVars, Files, Outputs
<1>6. CASE WriteHotwords
  BY <1>0, <1>6 DEF WriteHotwords, Writes, Reaches, FileShape, OutputsStay,
       jobVars, frameVars, Files, Outputs
<1>7. CASE WriteTranscript
  BY <1>0, <1>7 DEF WriteTranscript, Writes, Reaches, FileShape,
       OutputsStay, jobVars, frameVars, Files, Outputs
<1>8. CASE SelectFrames
  BY <1>0, <1>8 DEF SelectFrames, Select, Reaches, Raise, EndAs, FileShape,
       OutputsStay, jobVars, frameVars, Files, Outputs
<1>9. CASE SelectBaseline
  BY <1>0, <1>9 DEF SelectBaseline, Select, Reaches, Raise, EndAs,
       FileShape, OutputsStay, jobVars, frameVars, Files, Outputs
<1>10. CASE BuildZip
  BY <1>0, <1>10 DEF BuildZip, Writes, Reaches, FileShape, OutputsStay,
       jobVars, frameVars, Files, Outputs
<1>11. CASE SummariseFrames
  BY <1>0, <1>11 DEF SummariseFrames, Writes, Reaches, FileShape,
       OutputsStay, jobVars, frameVars, Files, Outputs
<1>12. CASE SaveSummaries
  BY <1>0, <1>12 DEF SaveSummaries, Writes, Reaches, FileShape, OutputsStay,
       jobVars, frameVars, Files, Outputs
<1>13. CASE Fuse
  BY <1>0, <1>13 DEF Fuse, Writes, Reaches, FileShape, OutputsStay, jobVars,
       frameVars, Files, Outputs
<1>14. CASE Withdraw
  <2>1. PICK f \in First(Present(Outputs), WithdrawRank) :
           file' = [file EXCEPT ![f] = None]
    BY <1>14 DEF Withdraw
  <2>2. f \in Outputs
    BY <2>1 DEF First, Present
  <2> QED
    BY <1>0, <2>1, <2>2, <1>14 DEF Withdraw, jobVars, OutputWithdrawn
<1>15. CASE Publish
  <2>1. PICK f \in First(Unpublished, PublishRank) :
           file' = [file EXCEPT ![f] = From({"timeline", "summaries"})]
    BY <1>15 DEF Publish
  <2>2. f \in Outputs
    BY <2>1 DEF First, Unpublished, Artifacts, Outputs
  <2>3. attempt \in Attempts
    BY <1>15 DEF Publish, AttemptRuns
  <2>4. Own("timeline") /\ Own("summaries")
    BY <1>15 DEF Publish, WorkIsOwn, BeforeTimeline, BeforeSummaries,
       BeforeKeyframes, BeforeTranscript
  <2>5. Product \in Mine
    BY <1>f, <2>4 DEF Product, Files
  <2> QED
    BY <1>0, <2>1, <2>2, <2>3, <2>5, <1>15
       DEF Publish, jobVars, OutputPublished, Product
<1>16. CASE Kill
  BY <1>0, <1>16 DEF Kill, InPlace, FileShape, OutputsStay, Files, Outputs
<1>17. CASE \/ Begin \/ WriteImages \/ FallBack \/ WriteMissing \/ Render
           \/ PublishRaises \/ Retracted \/ Stop \/ StageRaises
           \/ Succeed \/ Ask \/ LoseClaim \/ ReadManifest
           \/ VerifyArtifact
  BY <1>0, <1>17 DEF Begin, FirstStep, jobVars, frameVars, OutputsStay,
       WriteImages, FallBack, Reaches, WriteMissing, Raise, EndAs, Render,
       PublishRaises, Retracted, Stop, StageRaises, Succeed, Ask, LoseClaim,
       ReadManifest, VerifyArtifact
<1>18. CASE UNCHANGED vars
  BY <1>0, <1>18 DEF vars, jobVars, frameVars, OutputsStay
<1> QED
  BY <1>1, <1>2, <1>3, <1>4, <1>5, <1>6, <1>7, <1>8, <1>9, <1>10, <1>11,
       <1>12, <1>13, <1>14, <1>15, <1>16, <1>17, <1>18 DEF Next, WorkerStep,
       Ingest, Keyframes, FrameSummary, Deliverables

LEMMA OutputsWholeStep ==
    ASSUME TypeOK, AttemptRuns, WorkIsOwn, OutputsAreWhole, [Next]_vars
    PROVE  OutputsAreWhole'
<1>0. file \in [Files -> Content \cup {None}] /\ Outputs \subseteq Files
  BY DEF TypeOK, Files
<1>1. CASE OutputsStay
  BY <1>1 DEF OutputsStay, OutputsAreWhole
<1>2. CASE OutputWithdrawn
  BY <1>0, <1>2 DEF OutputWithdrawn, OutputsAreWhole
<1>3. CASE OutputPublished
  BY <1>0, <1>3 DEF OutputPublished, OutputsAreWhole, Mine
<1> QED
  BY <1>1, <1>2, <1>3, OutputStep

\* The manifest is published last and withdrawn first.
LEMMA ManifestStep ==
    ASSUME TypeOK, AttemptRuns, WorkIsOwn, ManifestCoversOutputs, [Next]_vars
    PROVE  ManifestCoversOutputs'
<1>0. /\ file \in [Files -> Content \cup {None}]
      /\ Outputs \subseteq Files
      /\ Artifacts \subseteq Outputs
      /\ "manifest" \in Outputs \ Artifacts
  BY DEF TypeOK, Files, Outputs, Artifacts
<1>1. Artifacts' = Artifacts
  BY OutputStep DEF Artifacts
<1>2. CASE OutputsStay
  BY <1>0, <1>1, <1>2 DEF OutputsStay, ManifestCoversOutputs
<1>3. CASE OutputWithdrawn
  <2>1. PICK f \in First(Present(Outputs), WithdrawRank) :
           file' = [file EXCEPT ![f] = None]
    BY <1>3 DEF OutputWithdrawn
  <2>2. f \in Outputs
    BY <2>1 DEF First, Present
  <2>3. CASE file["manifest"] # None
    <3>1. f = "manifest"
      BY <1>0, <2>1, <2>2, <2>3 DEF First, Present, WithdrawRank, Outputs
    <3> QED
      BY <1>0, <2>1, <3>1 DEF ManifestCoversOutputs
  <2>4. CASE file["manifest"] = None
    BY <1>0, <2>1, <2>2, <2>4 DEF ManifestCoversOutputs
  <2> QED
    BY <2>3, <2>4
<1>4. CASE OutputPublished
  <2>1. PICK f \in First(Unpublished, PublishRank) :
           file' = [file EXCEPT ![f] = Product]
    BY <1>4 DEF OutputPublished
  <2>2. \A g \in Outputs : file[g] \in {None, Product}
    BY <1>4 DEF OutputPublished, WorkIsOwn
  <2>3. f \in Artifacts \cup {"manifest"} /\ f \notin Present(Outputs)
    BY <2>1 DEF First, Unpublished
  <2>4. file[f] = None
    BY <1>0, <2>3 DEF Present
  <2>5. CASE f = "manifest"
    <3>1. \A g \in Artifacts : g \in Present(Outputs)
      BY <1>0, <2>1, <2>5
         DEF First, Unpublished, PublishRank, Artifacts, Outputs
    <3>2. \A g \in Artifacts : file[g] = Product
      BY <1>0, <2>2, <3>1 DEF Present
    <3> QED
      BY <1>0, <1>1, <2>1, <2>5, <3>2 DEF ManifestCoversOutputs
  <2>6. CASE f # "manifest"
    <3>1. file["manifest"] = None
      BY <1>0, <2>3, <2>4, <2>6 DEF ManifestCoversOutputs
    <3> QED
      BY <1>0, <2>1, <2>3, <2>6, <3>1 DEF ManifestCoversOutputs
  <2> QED
    BY <2>5, <2>6
<1> QED
  BY <1>2, <1>3, <1>4, OutputStep

-----------------------------------------------------------------------------
(* Frames and the reader.                                                  *)

LEMMA FramesServedStep ==
    ASSUME TypeOK, FramesAreServed, [Next]_vars
    PROVE  FramesAreServed'
<1>0. FramesAreServed
  OBVIOUS
<1>1a. selected \subseteq Frames
  BY DEF TypeOK
<1>1. CASE Begin
  BY <1>0, <1>1 DEF Begin, FirstStep, FramesAreServed, Missing
<1>2. CASE WriteMissing
  BY <1>0, <1>2 DEF WriteMissing, ImagesIncomplete, Raise, EndAs, jobVars,
       FramesAreServed, Missing
<1>3. CASE BuildZip
  BY <1>0, <1>1a, <1>3 DEF BuildZip, Writes, Reaches, jobVars,
       FramesAreServed, Missing
<1>4. CASE SaveSummaries
  BY <1>0, <1>4 DEF SaveSummaries, Writes, Reaches, Answered, jobVars,
       FramesAreServed, Missing
<1>5. CASE \/ FetchSource \/ FetchAnalysis \/ RetryDownloads
           \/ CancelDownload \/ WriteMeta \/ WriteHotwords
           \/ WriteTranscript \/ SelectFrames \/ WriteImages \/ FallBack
           \/ SelectBaseline \/ SummariseFrames \/ Fuse \/ Withdraw
           \/ Render \/ Publish \/ PublishRaises \/ Retracted \/ Stop
           \/ StageRaises \/ Succeed \/ Kill \/ Ask \/ LoseClaim
           \/ ReadManifest \/ VerifyArtifact
  BY <1>0, <1>5 DEF FetchSource, Reaches, jobVars, frameVars,
       FramesAreServed, Missing, FetchAnalysis, Writes, RetryDownloads,
       DownloadStops, CancelDownload, EndAs, WriteMeta, WriteHotwords,
       WriteTranscript, SelectFrames, Select, Raise, WriteImages, FallBack,
       SelectBaseline, SummariseFrames, Fuse, Withdraw, Render, Publish,
       PublishRaises, Retracted, Stop, StageRaises, Succeed, Kill, Ask,
       LoseClaim, ReadManifest, VerifyArtifact
<1>6. CASE UNCHANGED vars
  BY <1>0, <1>6 DEF vars, jobVars, frameVars, FramesAreServed, Missing
<1> QED
  BY <1>1, <1>2, <1>3, <1>4, <1>5, <1>6 DEF Next, WorkerStep, Ingest,
       Keyframes, FrameSummary, Deliverables

LEMMA ReaderStrictStep ==
    ASSUME TypeOK, ReaderIsStrict, [Next]_vars
    PROVE  ReaderIsStrict'
<1>0. ReaderIsStrict
  OBVIOUS
<1>1a. /\ reader \in [manifest: Content \cup {None}, left: SUBSET Outputs,
                      seen: [Outputs -> Content \cup {None}]]
       /\ Artifacts \subseteq Outputs
  BY DEF TypeOK, Artifacts, Outputs
<1>1. CASE ReadManifest
  BY <1>0, <1>1 DEF ReadManifest, jobVars, Artifacts, ReaderIsStrict
<1>2. CASE VerifyArtifact
  <2>1. PICK f \in First(reader.left, PublishRank) :
           reader' = IF Vouched(f)
                     THEN [reader EXCEPT !.left = reader.left \ {f},
                                         !.seen[f] = file[f]]
                     ELSE [manifest |-> None, left |-> {}, seen |-> Unseen]
    BY <1>2 DEF VerifyArtifact
  <2>2. f \in Outputs
    BY <1>1a, <2>1 DEF First
  <2>3. Artifacts' = Artifacts
    BY <1>2 DEF VerifyArtifact, jobVars, Artifacts
  <2> QED
    BY <1>0, <1>1a, <2>1, <2>2, <2>3 DEF Vouched, ReaderIsStrict
<1>3. CASE \/ Begin \/ FetchSource \/ FetchAnalysis \/ RetryDownloads
           \/ CancelDownload \/ WriteMeta \/ WriteHotwords
           \/ WriteTranscript \/ SelectFrames \/ WriteImages \/ FallBack
           \/ SelectBaseline \/ WriteMissing \/ BuildZip
           \/ SummariseFrames \/ SaveSummaries \/ Fuse \/ Withdraw
           \/ Render \/ Publish \/ PublishRaises \/ Retracted \/ Stop
           \/ StageRaises \/ Succeed \/ Kill \/ Ask \/ LoseClaim
  BY <1>0, <1>3 DEF Begin, FirstStep, jobVars, ReaderIsStrict, Artifacts,
       FetchSource, Reaches, FetchAnalysis, Writes, RetryDownloads,
       DownloadStops, CancelDownload, EndAs, WriteMeta, WriteHotwords,
       WriteTranscript, SelectFrames, Select, Raise, WriteImages, FallBack,
       SelectBaseline, WriteMissing, BuildZip, SummariseFrames, SaveSummaries,
       Fuse, Withdraw, Render, Publish, PublishRaises, Retracted, Stop,
       StageRaises, Succeed, Kill, Ask, LoseClaim
<1>4. CASE UNCHANGED vars
  BY <1>0, <1>4 DEF vars, jobVars, ReaderIsStrict, Artifacts
<1> QED
  BY <1>1, <1>2, <1>3, <1>4 DEF Next, WorkerStep, Ingest, Keyframes,
       FrameSummary, Deliverables

-----------------------------------------------------------------------------
(* The theorems.                                                           *)

LEMMA StepIInv == IInv /\ [Next]_vars => IInv'
<1> SUFFICES ASSUME IInv, [Next]_vars PROVE IInv'
  OBVIOUS
<1> USE DEF IInv
<1>1. TypeOK' /\ AttemptRuns'
  BY TypeStep
<1>2. OnlyPairs' /\ WorkIsOwn'
  BY WorkStep
<1>3. OutputsAreWhole' /\ ManifestCoversOutputs'
  BY OutputsWholeStep, ManifestStep
<1>4. FramesAreServed' /\ ReaderIsStrict'
  BY FramesServedStep, ReaderStrictStep
<1> QED
  BY <1>1, <1>2, <1>3, <1>4

\* The invariant holds in every reachable state, whatever the number of
\* frames, attempts, kills and downloads.
THEOREM Invariance == Spec => []IInv
BY InitIInv, StepIInv, PTL DEF Spec

\* Every variable keeps its type: attempts, repeated downloads and kills stay
\* within their bounds and a file is nothing or what attempts wrote.
THEOREM TypeCorrect == Spec => []TypeOK
<1>1. IInv => TypeOK
  BY DEF IInv
<1> QED
  BY <1>1, Invariance, PTL

\* Wherever the worker is killed or raises while it publishes or withdraws, a
\* manifest that exists finds its artifacts in place as it lists them.
THEOREM ManifestsAreHonest == Spec => []ManifestCoversOutputs
<1>1. IInv => ManifestCoversOutputs
  BY DEF IInv
<1> QED
  BY <1>1, Invariance, PTL

\* Whatever earlier attempts left, torn or whole, the records behind what is
\* published are those of one attempt, none of them cut off, and fusion starts
\* only with an image, an entry in the archive and a summary for every frame of
\* the selection.  Images are not records: see ImagesAreCurrent.
THEOREM AttemptsDoNotMix == Spec => []RecordsAreOwnAndComplete
<1>1. OutputsAreWhole => RecordsAreOfOneAttempt
  <2> SUFFICES ASSUME OutputsAreWhole, NEW f \in Present(Outputs)
               PROVE  file[f].whole /\ Cardinality(file[f].of) = 1
    BY DEF RecordsAreOfOneAttempt
  <2>1. PICK a \in Attempts :
           file[f] \in [of: {{a}}, whole: {TRUE}, current: BOOLEAN]
    BY DEF OutputsAreWhole, Present
  <2>2. Cardinality({a}) = 1
    BY FS_Singleton
  <2> QED
    BY <2>1, <2>2
<1>2. FramesAreServed => SelectionIsServed
  BY DEF FramesAreServed, SelectionIsServed
<1>3. IInv => RecordsAreOwnAndComplete
  BY <1>1, <1>2 DEF IInv, RecordsAreOwnAndComplete
<1> QED
  BY <1>3, Invariance, PTL

\* A listing that is returned holds every deliverable, all from the attempt
\* whose manifest it read, however attempts come and go meanwhile.
THEOREM ListingsAreConsistent == Spec => []ListingIsOneGeneration
<1>1. IInv => ListingIsOneGeneration
  BY DEF IInv, ReaderIsStrict, ListingIsOneGeneration
<1> QED
  BY <1>1, Invariance, PTL
=============================================================================
