----------------------------- MODULE JobStages ------------------------------
(***************************************************************************)
(* One job's attempts at the pipeline and the files they leave in its      *)
(* directory: PipelineOrchestrator._run_stage with the stages it calls,    *)
(* and the API's listing of the artifacts, which reads the same directory  *)
(* from another process without a lock.                                    *)
(*                                                                         *)
(* The job row and its control protocol are the subject of JobControl;     *)
(* here an attempt begins, is asked to stop, and ends.  A step is one file *)
(* written, replaced or removed, so that the worker can be killed between  *)
(* any two of them or in the middle of one that is written in place.  What *)
(* the stages compute is the subject of StageData, and the calls to the    *)
(* model providers that of ModelCalls.                                     *)
(***************************************************************************)
EXTENDS Naturals, FiniteSets

CONSTANTS
    NumFrames,       \* bound: keyframes that are ever selected
    MaxAttempts,     \* bound: attempts at the job
    MaxKills,        \* bound: kills of the worker
    DownloadRetries, \* download_retries of the ingest request
    Configs,         \* the job configurations to start from
    None             \* a file that does not exist

Frames == 1..NumFrames
Attempts == 1..MaxAttempts

\* Where the video comes from: a local file, a URL with one format for both
\* uses, or a URL with separate analysis and quality formats.
Sources == {"local", "single", "pair"}

ASSUME StagesAssumption ==
    /\ NumFrames \in Nat \ {0}
    /\ MaxAttempts \in Nat
    /\ MaxKills \in Nat
    /\ DownloadRetries \in Nat
    /\ Configs \subseteq [source: Sources, summary: BOOLEAN]

VARIABLES
    config,     \* config.snapshot.json, immutable
    attempt,    \* the attempt that runs or ran last
    status,     \* of the job's row
    asked,      \* the control request that waits in the row
    owned,      \* the row still names this worker and attempt
    at,         \* the step of the pipeline the worker is at, or "off"
    tries,      \* downloads repeated by this attempt
    file,       \* the files of the job's directory
    images,     \* frames/images: slide_000001.jpg, ...
    selected,   \* the frames in keyframes.jsonl
    zipped,     \* the frames in images.zip
    summarised, \* the frames in frame_summary.jsonl
    reader,     \* list_artifacts, running in the API
    kills       \* kills so far

frameVars == <<images, selected, zipped, summarised>>
jobVars == <<config, attempt, asked, owned, kills>>
vars == <<jobVars, status, at, tries, file, frameVars, reader>>

-----------------------------------------------------------------------------
(* Files.                                                                  *)

Outputs == {"manifest", "clean", "notes", "summary"}
Files == {"source", "analysis", "meta", "hotwords", "transcript", "keyframes",
          "zip", "summaries", "timeline"} \cup Outputs

\* The artifacts that a manifest lists.
Artifacts ==
    {"clean", "notes"} \cup (IF config.summary THEN {"summary"} ELSE {})

\* Mutant of PublishRank: the manifest goes first.
PublishRankManifestFirst ==
    [manifest |-> 1, clean |-> 2, notes |-> 3, summary |-> 4]

\* The orders in which the outputs are published and removed.
PublishRank == [clean |-> 1, notes |-> 2, summary |-> 3, manifest |-> 4]
WithdrawRank == [manifest |-> 1, clean |-> 2, notes |-> 3, summary |-> 4]

\* What a file holds: the attempts whose records went into it, whether all of
\* them were written to their end, and whether every image that was read for it
\* showed the frame it was taken for.
Content == [of: SUBSET Attempts, whole: BOOLEAN, current: BOOLEAN]

Torn == [of |-> {attempt}, whole |-> FALSE, current |-> TRUE]
Present(fs) == {f \in fs : file[f] # None}

\* The content this attempt derives from files as they are now.
From(inputs) ==
    [of |-> {attempt} \cup UNION {file[f].of : f \in Present(inputs)},
     whole |-> \A f \in Present(inputs) : file[f].whole,
     current |-> \A f \in Present(inputs) : file[f].current]

\* An image that does not show the frame the current row of keyframes.jsonl
\* names is stale: it was written for another selection, or not to its end.
Shots == {"none", "stale", "fresh"}
Outdated == [i \in Frames |-> IF images[i] = "none" THEN "none" ELSE "stale"]
Shot(written) == [i \in Frames |-> IF i \in written THEN "fresh"
                                                    ELSE images[i]]

\* The same with images: only that they exist was looked at.
FromImages(inputs, frames) ==
    IF \E i \in frames : images[i] = "stale"
    THEN [From(inputs) EXCEPT !.current = FALSE]
    ELSE From(inputs)

-----------------------------------------------------------------------------
(* Beginning and ending an attempt.                                        *)

\* The first step of each stage: the safety point before it comes first.
StageStarts == {"source", "hotwords", "transcript", "keyframes", "summarise",
                "timeline", "withdraw", "final"}

\* _safety_point and _check_model_control stop for a pause and a cancel.
ControlPending == ~owned \/ asked # "none"

\* The worker is at a step of the pipeline and lets it happen.
Reaches(here) == at = here /\ (here \in StageStarts => ~ControlPending)

\* Mutant of FirstStep: a resumed attempt goes on from its checkpoint.
FirstStepFromCheckpoint ==
    IF file["transcript"] # None THEN "keyframes" ELSE "source"

\* load_checkpoint only restores what is reported: run_job goes through the
\* whole STAGE_SEQUENCE again.
FirstStep == "source"

\* claim_next_job and the start of run_job.
Begin ==
    /\ at = "off"
    /\ status \in {"queued", "paused", "interrupted"}
    /\ asked # "cancel"
    /\ attempt < MaxAttempts
    /\ attempt' = attempt + 1
    /\ status' = "running"
    /\ asked' = "none"
    /\ at' = FirstStep
    /\ tries' = 0
    /\ UNCHANGED <<config, owned, kills, file, frameVars, reader>>

\* How an attempt ends when control is pending: as the request says, or, for
\* a lost claim, without a word about the row.
ControlledEnd == CASE ~owned -> status
                   [] owned /\ asked = "pause" -> "paused"
                   [] OTHER -> "cancelled"

EndAs(s) == at' = "off" /\ status' = s

\* A stage raises: a pending control is honoured before it is a failure.
Raise == EndAs(IF ControlPending THEN ControlledEnd ELSE "failed")

\* _safety_point.
Stop ==
    /\ at \in StageStarts
    /\ ControlPending
    /\ EndAs(ControlledEnd)
    /\ UNCHANGED <<jobVars, tries, file, frameVars, reader>>

\* The steps at which an exception leaves the stage at once.
Fallible == {"source", "analysis", "meta", "hotwords", "transcript", "zip",
             "summarise", "calls", "timeline", "withdraw", "retract"}

StageRaises ==
    /\ at \in Fallible
    /\ Reaches(at)
    /\ Raise
    /\ UNCHANGED <<jobVars, tries, file, frameVars, reader>>

\* The last safety point lets the job succeed.
Succeed ==
    /\ Reaches("final")
    /\ EndAs("succeeded")
    /\ UNCHANGED <<jobVars, tries, file, frameVars, reader>>

\* The step of a stage goes well: it writes f and the worker goes on.
Writes(here, f, content, next) ==
    /\ Reaches(here)
    /\ file' = [file EXCEPT ![f] = content]
    /\ at' = next
    /\ UNCHANGED <<jobVars, status, tries, reader>>

-----------------------------------------------------------------------------
(* INGEST, HOTWORDS and ASR.                                               *)

\* The cancel_checker of ingest does not look for a pause.
IngestCancelled == ~owned \/ asked = "cancel"

Downloads == config.source # "local"

\* copy2 of the local file, or the download of the quality asset; with one
\* format for both uses an analysis file is removed first.
FetchSource ==
    /\ Reaches("source")
    /\ Downloads => ~IngestCancelled
    /\ file' = [file EXCEPT !["source"] = From({}),
                            !["analysis"] = IF config.source = "single"
                                            THEN None ELSE @]
    /\ at' = IF config.source = "pair" THEN "analysis" ELSE "meta"
    /\ UNCHANGED <<jobVars, status, tries, frameVars, reader>>

FetchAnalysis ==
    /\ ~IngestCancelled
    /\ Writes("analysis", "analysis", From({}), "meta")
    /\ UNCHANGED frameVars

\* The target is removed before a download, which may leave a part of it.
DownloadStops ==
    /\ at \in {"source", "analysis"}
    /\ Downloads
    /\ Reaches(at)
    /\ \E left \in {None, Torn} : file' = [file EXCEPT ![at] = left]

\* Mutant of RetryDownloads: the last attempt is retried as well.
RetryOnceMore ==
    /\ DownloadStops
    /\ ~IngestCancelled
    /\ tries <= DownloadRetries
    /\ tries' = tries + 1
    /\ at' = "source"
    /\ UNCHANGED <<jobVars, status, frameVars, reader>>

\* A download fails and the plan is repeated from its first asset.
RetryDownloads ==
    /\ DownloadStops
    /\ ~IngestCancelled
    /\ tries < DownloadRetries
    /\ tries' = tries + 1
    /\ at' = "source"
    /\ UNCHANGED <<jobVars, status, frameVars, reader>>

\* INGEST_CANCELLED, before a download or out of its progress hook: the
\* attempt ends as cancelled.
CancelDownload ==
    /\ DownloadStops
    /\ IngestCancelled
    /\ EndAs(IF owned THEN "cancelled" ELSE status)
    /\ UNCHANGED <<jobVars, tries, frameVars, reader>>

WriteMeta == /\ Writes("meta", "meta", From({"source"}), "hotwords")
             /\ UNCHANGED frameVars

WriteHotwords ==
    /\ Writes("hotwords", "hotwords", From({"meta"}), "transcript")
    /\ UNCHANGED frameVars

WriteTranscript ==
    /\ Writes("transcript", "transcript", From({"source"}), "keyframes")
    /\ UNCHANGED frameVars

-----------------------------------------------------------------------------
(* KEYFRAMES.                                                              *)

Video == IF file["analysis"] = None THEN {"source"} ELSE {"source", "analysis"}

\* The selection is numbered from one, and its images are named by number.
\* An empty one fails the stage once it is written.
Select(here, next) ==
    /\ Reaches(here)
    /\ \E n \in 0..NumFrames :
          /\ selected' = 1..n
          /\ IF n = 0 THEN Raise ELSE at' = next /\ UNCHANGED status
    /\ file' = [file EXCEPT !["keyframes"] = From(Video)]
    /\ images' = Outdated
    /\ UNCHANGED <<jobVars, tries, zipped, summarised, reader>>

\* run_from_dual_sources up to keyframes.jsonl; the sampling of the baseline.
SelectFrames == Select("keyframes", "images")
SelectBaseline == Select("baseline", "missing")

\* write_images_for_records skips a frame that it cannot decode.
WriteImages ==
    /\ at = "images"
    /\ \E written \in SUBSET selected : images' = Shot(written)
    /\ at' = "missing"
    /\ UNCHANGED <<jobVars, status, tries, file, selected, zipped, summarised,
                   reader>>

\* Any exception of the algorithm, at whatever point, is answered by the
\* baseline sampling, which knows nothing of the images that are there.
FallBack ==
    /\ at \in {"keyframes", "images"}
    /\ Reaches(at)
    /\ \E written \in IF at = "images" THEN SUBSET selected ELSE {{}} :
          images' = Shot(written)
    /\ at' = "baseline"
    /\ UNCHANGED <<jobVars, status, tries, file, selected, zipped, summarised,
                   reader>>

\* The selected frames whose image file does not exist.
Missing(shots) == {i \in selected : shots[i] = "none"}

\* Mutant of ImagesIncomplete: what the second extraction did is not checked.
NeverIncomplete(shots) == FALSE

\* KEYFRAME_IMAGES_INCOMPLETE.
ImagesIncomplete(shots) == Missing(shots) # {}

\* Missing images are extracted once more.
WriteMissing ==
    /\ at = "missing"
    /\ \E written \in SUBSET Missing(images) : images' = Shot(written)
    /\ IF ImagesIncomplete(images') THEN Raise
                                    ELSE at' = "zip" /\ UNCHANGED status
    /\ UNCHANGED <<jobVars, tries, file, selected, zipped, summarised, reader>>

\* build_images_zip takes every image of the directory.
BuildZip ==
    /\ Writes("zip", "zip", FromImages({"keyframes"}, Frames), "summarise")
    /\ zipped' = {i \in Frames : images[i] # "none"}
    /\ UNCHANGED <<images, selected, summarised>>

-----------------------------------------------------------------------------
(* FRAME_SUMMARY and FUSION.                                               *)

\* The summaries of before are removed, then every frame is submitted.
SummariseFrames ==
    /\ Writes("summarise", "summaries", None, "calls")
    /\ UNCHANGED frameVars

\* The frames with a result when the pool has shut down without an exception.
Answered == {selected}

\* Each request carries the image of its frame; frame_summary.jsonl appears by
\* a rename.
SaveSummaries ==
    /\ summarised' \in Answered
    /\ Writes("calls", "summaries", FromImages({"keyframes"}, selected),
              "timeline")
    /\ UNCHANGED <<images, selected, zipped>>

Fuse == /\ Writes("timeline", "timeline",
                  From({"transcript", "keyframes", "summaries"}), "withdraw")
        /\ UNCHANGED frameVars

-----------------------------------------------------------------------------
(* DELIVERABLES.                                                           *)

\* The files of a set that come first in an order: there is one at most.
First(fs, rank) == {f \in fs : \A g \in fs : rank[f] <= rank[g]}

\* Unlink the outputs one by one, before the work and after an exception.
Withdraw ==
    /\ at \in {"withdraw", "retract"}
    /\ Reaches(at)
    /\ \E f \in First(Present(Outputs), WithdrawRank) :
          file' = [file EXCEPT ![f] = None]
    /\ UNCHANGED <<jobVars, status, at, tries, frameVars, reader>>

\* Nothing is left of an earlier attempt: the outputs are staged, the overall
\* summary is requested if the job wants one, or something of that raises.
Render ==
    /\ Reaches("withdraw")
    /\ Present(Outputs) = {}
    /\ at' \in {"publish", "retract"}
    /\ UNCHANGED <<jobVars, status, tries, file, frameVars, reader>>

Unpublished == (Artifacts \cup {"manifest"}) \ Present(Outputs)

\* Rename one staged file into place.
Publish ==
    /\ at = "publish"
    /\ \E f \in First(Unpublished, PublishRank) :
          /\ file' = [file EXCEPT ![f] = From({"timeline", "summaries"})]
          /\ at' = IF Unpublished = {f} THEN "final" ELSE "publish"
    /\ UNCHANGED <<jobVars, status, tries, frameVars, reader>>

\* An exception of the stage takes all of them back.
PublishRaises ==
    /\ at = "publish"
    /\ at' = "retract"
    /\ UNCHANGED <<jobVars, status, tries, file, frameVars, reader>>

\* The exception leaves the stage once the outputs are gone.
Retracted ==
    /\ at = "retract"
    /\ Present(Outputs) = {}
    /\ Raise
    /\ UNCHANGED <<jobVars, tries, file, frameVars, reader>>

-----------------------------------------------------------------------------
(* Kills and the API.                                                      *)

\* The file a step writes in place, which a kill can leave torn, and the
\* images it writes.
InPlace == IF at = "baseline" THEN {"keyframes"}
           ELSE {at} \cap {"source", "analysis", "meta", "hotwords",
                           "transcript", "keyframes", "zip", "timeline"}
Shooting == CASE at = "images"  -> selected
              [] at = "missing" -> Missing(images)
              [] OTHER          -> {}

\* SIGKILL of the worker; the sweep of the next worker finds the row.
Kill ==
    /\ at # "off"
    /\ kills < MaxKills
    /\ kills' = kills + 1
    /\ file' \in {file} \cup {[file EXCEPT ![f] = Torn] : f \in InPlace}
    /\ \E written, broken \in SUBSET Shooting :
          /\ Cardinality(broken) <= 1
          /\ images' = [i \in Frames |->
                IF i \in broken THEN "stale" ELSE Shot(written)[i]]
    /\ EndAs(IF owned THEN "interrupted" ELSE status)
    /\ UNCHANGED <<config, attempt, asked, owned, tries, selected, zipped,
                   summarised, reader>>

\* The API asks the running attempt to stop.
Ask ==
    /\ at # "off"
    /\ \/ asked = "none" /\ asked' \in {"pause", "cancel"}
       \/ asked = "pause" /\ asked' = "cancel"
    /\ UNCHANGED <<config, attempt, owned, kills, status, at, tries, file,
                   frameVars, reader>>

\* A forced deletion of the project removes the row under the worker.
LoseClaim ==
    /\ at # "off"
    /\ owned
    /\ owned' = FALSE
    /\ status' = "gone"
    /\ UNCHANGED <<config, attempt, asked, kills, at, tries, file, frameVars,
                   reader>>

Unseen == [f \in Outputs |-> None]

\* _ready_deliverable_paths reads the manifest: the artifacts it names are to
\* be looked at one by one.
ReadManifest ==
    /\ reader.left = {}
    /\ file["manifest"] # None
    /\ reader' = [manifest |-> file["manifest"], left |-> Artifacts,
                  seen |-> Unseen]
    /\ UNCHANGED <<jobVars, status, at, tries, file, frameVars>>

\* Mutant of Vouched: the hash is not compared.
VouchedByName(f) == file[f] # None

\* The file is there with the size and the hash of its manifest entry.
Vouched(f) == file[f] = reader.manifest

\* One artifact is hashed; one that is not vouched for empties the answer.
VerifyArtifact ==
    /\ \E f \in First(reader.left, PublishRank) :
          reader' = IF Vouched(f)
                    THEN [reader EXCEPT !.left = @ \ {f}, !.seen[f] = file[f]]
                    ELSE [manifest |-> None, left |-> {}, seen |-> Unseen]
    /\ UNCHANGED <<jobVars, status, at, tries, file, frameVars>>

-----------------------------------------------------------------------------
(* The specification.                                                      *)

Init ==
    /\ config \in Configs
    /\ attempt = 0
    /\ status = "queued"
    /\ asked = "none"
    /\ owned = TRUE
    /\ at = "off"
    /\ tries = 0
    /\ file = [f \in Files |-> None]
    /\ images = [i \in Frames |-> "none"]
    /\ selected = {}
    /\ zipped = {}
    /\ summarised = {}
    /\ reader = [manifest |-> None, left |-> {}, seen |-> Unseen]
    /\ kills = 0

Ingest == \/ FetchSource \/ FetchAnalysis \/ RetryDownloads \/ CancelDownload
          \/ WriteMeta
Keyframes == \/ SelectFrames \/ WriteImages \/ FallBack \/ SelectBaseline
             \/ WriteMissing \/ BuildZip
FrameSummary == SummariseFrames \/ SaveSummaries
Deliverables == Withdraw \/ Render \/ Publish \/ PublishRaises
                   \/ Retracted

WorkerStep == \/ Ingest \/ WriteHotwords \/ WriteTranscript \/ Keyframes
              \/ FrameSummary \/ Fuse \/ Deliverables
              \/ Stop \/ StageRaises \/ Succeed

Next == \/ Begin \/ WorkerStep \/ Kill \/ Ask \/ LoseClaim
        \/ ReadManifest \/ VerifyArtifact

Spec == Init /\ [][Next]_vars

-----------------------------------------------------------------------------
(* Properties.                                                             *)

Statuses == {"queued", "running", "paused", "interrupted", "cancelled",
             "failed", "succeeded", "gone"}
Steps == Fallible \cup StageStarts \cup
            {"off", "images", "baseline", "missing", "publish"}

TypeOK ==
    /\ config \in Configs
    /\ attempt \in 0..MaxAttempts
    /\ status \in Statuses
    /\ asked \in {"none", "pause", "cancel"}
    /\ owned \in BOOLEAN
    /\ at \in Steps
    /\ tries \in 0..DownloadRetries
    /\ file \in [Files -> Content \cup {None}]
    /\ images \in [Frames -> Shots]
    /\ selected \subseteq Frames
    /\ zipped \subseteq Frames
    /\ summarised \subseteq Frames
    /\ reader \in [manifest: Content \cup {None}, left: SUBSET Outputs,
                   seen: [Outputs -> Content \cup {None}]]
    /\ kills \in 0..MaxKills

\* Wherever the worker is killed or raises, a manifest that exists finds
\* every artifact it lists in place, as it was written with it
\* (deliverables/service.py:79, 190).
ManifestCoversOutputs ==
    file["manifest"] # None =>
        \A f \in Artifacts : file[f] = file["manifest"]

RecordsAreOfOneAttempt ==
    \A f \in Present(Outputs) : file[f].whole /\ Cardinality(file[f].of) = 1

SelectionIsServed ==
    at \in {"timeline", "withdraw", "publish", "final"} =>
        /\ selected \subseteq zipped
        /\ summarised = selected

\* What is published was made by one attempt from its own video, transcript,
\* keyframe records, summaries and timeline, none of them cut off, although
\* the files of earlier attempts are never cleared (orchestrator.py:118); and
\* every frame of its selection is in the archive and was summarised before
\* fusion starts, whatever could not be decoded or was left over
\* (orchestrator.py:577, frame_summary/service.py:247).  This is about
\* records: the images are another matter, see ImagesAreCurrent.
RecordsAreOwnAndComplete == RecordsAreOfOneAttempt /\ SelectionIsServed

\* A listing that the API returns while attempts come and go holds all the
\* deliverables of the job, from one attempt (apps/api/service.py:1889).
ListingIsOneGeneration ==
    reader.manifest # None /\ reader.left = {} =>
        \A f \in Artifacts : reader.seen[f] = reader.manifest

-----------------------------------------------------------------------------
(* What the documents say and the code does not keep.                      *)

\* keyframes.md, Failure & Fallback: also after a fallback every image is taken
\* from the source video.  So what is published never rests on an image that
\* the algorithm, or an earlier attempt, took at another time of the video.
ImagesAreCurrent == \A f \in Present(Outputs) : file[f].current
=============================================================================
