------------------------------ MODULE VideoSweep ------------------------------
(* scripts/video_frames.py and scripts/bench_accuracy_video.py: the frame    *)
(* cache of a clip tree, the clip order, features of every model and backend *)
(* and the logits of the SSv2 head, and the report that scores them. Stages  *)
(* are processes; each may be killed, and run again with other options.      *)
(*                                                                           *)
(* Clips are numbered in the order `lists` sorts them in (train, val, test). *)
(* A feature or logits file is the sequence of the clips of its rows.        *)
EXTENDS Naturals, Sequences, FiniteSets, SequencesExt, SortedLists

CONSTANTS Split,           \* the split of each clip, in list order: train, val, test
          SplitSets,       \* values of video_frames' --splits
          Encoders,        \* the models whose features are scored
          VideoDtypes,     \* values of --dtype
          VideoLimits,     \* values of torch's --limit, 0 for none
          MaxVideoStages,  \* bound on the stages started
          Absent,
          HalfFile         \* a file cut short inside its write: reading it raises

VideoClips == DOMAIN Split
Ssv2 == "ssv2"         \* the classification head, run on the query clips
TorchTags == {"torch", "torchpred"}     \* without and with --no-skip-predictor
Outputs == (Encoders \X (TorchTags \cup VideoDtypes)) \cup ({Ssv2} \X ({"torch"} \cup VideoDtypes))

ASSUME VideoAssumption ==
    /\ Split \in Seq({"train", "val", "test"})
    /\ Ssv2 \notin Encoders /\ VideoLimits \subseteq Nat

VARIABLES frames,         \* the clips with a frame tensor
          frameIndex,     \* tmp/frames/index.json: the clips, and how many its wall time decoded
          order,          \* clips.json
          listing,        \* clips.txt
          outputs,        \* <model>-<tag>.npy, ssv2-<tag>-logits.npy
          timings,        \* their JSON: how many clips the timed pass had
          videoArtifact,  \* tests/results/accuracy-video.json
          videoRun,       \* the stage that runs
          videoUsed,      \* stages started
          asked           \* the split lists frames were decoded for

videoVars == <<frames, frameIndex, order, listing, outputs, timings, videoArtifact, videoRun, videoUsed, asked>>
NoVideoRun == [stage |-> "idle"]

VideoInit ==
    /\ frames = {} /\ frameIndex = Absent /\ order = Absent /\ listing = Absent
    /\ outputs = [o \in Outputs |-> Absent] /\ timings = [o \in Outputs |-> Absent]
    /\ videoArtifact = Absent /\ videoRun = NoVideoRun /\ videoUsed = 0 /\ asked = {}

StartStage(p) ==
    /\ videoRun = NoVideoRun /\ videoUsed < MaxVideoStages
    /\ videoRun' = p
    /\ videoUsed' = videoUsed + 1

VideoFiles == <<frames, frameIndex, order, listing, outputs, timings, videoArtifact>>
Exists(file) == file # Absent
Entire(file) == file \notin {Absent, HalfFile}

-----------------------------------------------------------------------------
(* video_frames.py: decode what is not cached, then index the clips.         *)

ListClips(splits) == InOrder({c \in VideoClips : Split[c] \in splits})
StartDecode ==
    \E splits \in SplitSets :
        /\ StartStage([stage |-> "frames", clips |-> ListClips(splits),
                  todo |-> Range(ListClips(splits)), decoded |-> 0])
        /\ asked' = asked \cup {splits}
        /\ UNCHANGED VideoFiles

With(c) == [videoRun EXCEPT !.todo = @ \ {c}, !.decoded = @ + 1]
\* Mutant: a clip that will not decode is left out of the index.
DecodeClip_Resilient ==
    /\ videoRun.stage = "frames"
    /\ \E c \in videoRun.todo \ frames :
          \/ /\ frames' = frames \cup {c}
             /\ videoRun' = With(c)
          \/ /\ videoRun' = [videoRun EXCEPT !.todo = @ \ {c}, !.clips = SelectSeq(@, LAMBDA d : d # c)]
             /\ UNCHANGED frames
    /\ UNCHANGED <<frameIndex, order, listing, outputs, timings, videoArtifact, videoUsed, asked>>

(* _one: the tensor is renamed into place. A clip that will not decode ends  *)
(* the whole run, and the index is not written.                              *)
DecodeClip ==
    /\ videoRun.stage = "frames"
    /\ \E c \in videoRun.todo \ frames :
          \/ /\ frames' = frames \cup {c}
             /\ videoRun' = With(c)
          \/ videoRun' = NoVideoRun /\ UNCHANGED frames
    /\ UNCHANGED <<frameIndex, order, listing, outputs, timings, videoArtifact, videoUsed, asked>>

IndexFrames ==
    /\ videoRun.stage = "frames" /\ videoRun.todo \subseteq frames
    /\ frameIndex' = [clips |-> videoRun.clips, timed |-> videoRun.decoded]
    /\ videoRun' = NoVideoRun
    /\ UNCHANGED <<frames, order, listing, outputs, timings, videoArtifact, videoUsed, asked>>

(* The cache is deleted, and its index with it: after a sweep, as a rule.    *)
(* It counts as a stage.                                                     *)
DropFrames ==
    /\ frames # {} \/ frameIndex # Absent
    /\ StartStage(NoVideoRun)
    /\ frames' = {} /\ frameIndex' = Absent
    /\ UNCHANGED <<order, listing, outputs, timings, videoArtifact, asked>>

-----------------------------------------------------------------------------
(* lists: clips.json for the PyTorch stages, clips.txt for jepa-embed.       *)

StartOrder ==
    /\ Entire(frameIndex)
    /\ StartStage([stage |-> "lists", clips |-> frameIndex.clips])
    /\ UNCHANGED <<VideoFiles, asked>>
WriteOrder ==
    /\ videoRun.stage = "lists"
    /\ order' = videoRun.clips
    /\ videoRun' = [videoRun EXCEPT !.stage = "listing"]
    /\ UNCHANGED <<frames, frameIndex, listing, outputs, timings, videoArtifact, videoUsed, asked>>
WriteListing ==
    /\ videoRun.stage = "listing"
    /\ listing' = videoRun.clips
    /\ videoRun' = NoVideoRun
    /\ UNCHANGED <<frames, frameIndex, order, outputs, timings, videoArtifact, videoUsed, asked>>

-----------------------------------------------------------------------------
(* torch, cpp, ssv2-torch, ssv2-cpp: the rows first, then the statistics.    *)

QueryOrder == InOrder({c \in Range(order) : Split[c] \in {"val", "test"}})
First(seq, n) == IF n = 0 THEN seq ELSE SubSeq(seq, 1, IF n < Len(seq) THEN n ELSE Len(seq))

RunPass(out, rows) ==
    /\ Range(rows) \subseteq frames /\ rows # <<>>
    /\ StartStage([stage |-> "run", out |-> out, rows |-> rows])
    /\ UNCHANGED <<VideoFiles, asked>>
StartReference ==
    /\ Entire(order)
    /\ \E m \in Encoders, tag \in TorchTags, n \in VideoLimits : RunPass(<<m, tag>>, First(order, n))
StartEmbed ==
    /\ Entire(order) /\ Entire(listing)
    /\ \E m \in Encoders, dt \in VideoDtypes : RunPass(<<m, dt>>, listing)
StartSsv2 ==
    /\ Entire(order)
    /\ \E tag \in {"torch"} \cup VideoDtypes : RunPass(<<Ssv2, tag>>, QueryOrder)

SaveRows ==
    /\ videoRun.stage = "run"
    /\ outputs' = [outputs EXCEPT ![videoRun.out] = videoRun.rows]
    /\ videoRun' = [videoRun EXCEPT !.stage = "timings"]
    /\ UNCHANGED <<frames, frameIndex, order, listing, timings, videoArtifact, videoUsed, asked>>
SaveStats ==
    /\ videoRun.stage = "timings"
    /\ timings' = [timings EXCEPT ![videoRun.out] = Len(videoRun.rows)]
    /\ videoRun' = NoVideoRun
    /\ UNCHANGED <<frames, frameIndex, order, listing, outputs, videoArtifact, videoUsed, asked>>

-----------------------------------------------------------------------------
(* report                                                                    *)

RunTags == {"torch"} \cup VideoDtypes
HasRun(m) == {t \in RunTags : Exists(outputs[<<m, t>>])}

(* The gallery and the queries index every row the list has; a model's rows  *)
(* are then compared with its PyTorch ones, one to one.                      *)
Scorable(m) ==
    /\ \A t \in HasRun(m) : Entire(outputs[<<m, t>>]) /\ timings[<<m, t>>] # HalfFile
    /\ \A t \in HasRun(m) : Len(outputs[<<m, t>>]) >= Len(order)
    /\ "torch" \in HasRun(m) => \A t \in HasRun(m) : Len(outputs[<<m, t>>]) = Len(outputs[<<m, "torch">>])
(* Without the PyTorch logits the head is left out; with them their JSON has *)
(* to be there and every dtype to have as many rows.                         *)
HeadScorable ==
    "torch" \in HasRun(Ssv2) =>
        /\ Entire(timings[<<Ssv2, "torch">>])
        /\ \A t \in HasRun(Ssv2) : Entire(outputs[<<Ssv2, t>>]) /\ timings[<<Ssv2, t>>] # HalfFile
        /\ \A t \in HasRun(Ssv2) : Len(outputs[<<Ssv2, t>>]) = Len(outputs[<<Ssv2, "torch">>])

ModelRows(m) == {[of |-> order, data |-> outputs[<<m, t>>]] : t \in HasRun(m)}
HeadRows == IF "torch" \in HasRun(Ssv2) THEN {[of |-> QueryOrder, data |-> outputs[<<Ssv2, t>>]] : t \in HasRun(Ssv2)} ELSE {}

(* _predictor_overhead: what both passes of a model have.                    *)
BothRuns == {e \in Encoders : \A t \in TorchTags : Exists(outputs[<<e, t>>]) /\ Exists(timings[<<e, t>>])}
OverheadReads == \A e \in BothRuns, t \in TorchTags : Entire(outputs[<<e, t>>]) /\ Entire(timings[<<e, t>>])
Overhead ==
    {[m |-> m, n |-> IF Len(outputs[<<m, "torch">>]) < Len(outputs[<<m, "torchpred">>])
                     THEN Len(outputs[<<m, "torch">>]) ELSE Len(outputs[<<m, "torchpred">>])] :
        m \in BothRuns}

(* _decode_s: the index, else what the artifact to be overwritten says.      *)
TimedBy == IF Exists(frameIndex) THEN frameIndex ELSE videoArtifact
DecodeTimed == IF Exists(TimedBy) THEN TimedBy.timed ELSE 0

(* The figures first, out of files all of which have to open; then the file, *)
(* over the last one.                                                        *)
ReportVideo ==
    /\ Entire(order)
    /\ \A m \in Encoders : Scorable(m)
    /\ HeadScorable
    /\ OverheadReads
    /\ TimedBy # HalfFile
    /\ StartStage([stage |-> "report",
                   figures |-> [order |-> order, timed |-> DecodeTimed, overhead |-> Overhead,
                                rows |-> UNION {ModelRows(m) : m \in Encoders}, head |-> HeadRows]])
    /\ UNCHANGED <<VideoFiles, asked>>
WriteVideo ==
    /\ videoRun.stage = "report"
    /\ videoArtifact' = videoRun.figures
    /\ videoRun' = NoVideoRun
    /\ UNCHANGED <<frames, frameIndex, order, listing, outputs, timings, videoUsed, asked>>

-----------------------------------------------------------------------------
(* A stage killed: between its writes, or inside one, which leaves its file  *)
(* cut short.  Only a frame tensor is renamed into place.  Of clips.txt the  *)
(* first lines may be left, and they are a list.                             *)

CutFrameIndex == videoRun.stage = "frames" /\ videoRun.todo \subseteq frames /\ frameIndex' = HalfFile
CutOrder == videoRun.stage = "lists" /\ order' = HalfFile
CutListing ==
    /\ videoRun.stage = "listing"
    /\ listing' \in {HalfFile} \cup {SubSeq(videoRun.clips, 1, n) : n \in 0..Len(videoRun.clips)}
CutRows == videoRun.stage = "run" /\ outputs' = [outputs EXCEPT ![videoRun.out] = HalfFile]
CutStats == videoRun.stage = "timings" /\ timings' = [timings EXCEPT ![videoRun.out] = HalfFile]
CutArtifact == videoRun.stage = "report" /\ videoArtifact' = HalfFile

KillVideo ==
    /\ videoRun # NoVideoRun
    /\ videoRun' = NoVideoRun
    /\ \/ UNCHANGED VideoFiles
       \/ CutFrameIndex /\ UNCHANGED <<frames, order, listing, outputs, timings, videoArtifact>>
       \/ CutOrder /\ UNCHANGED <<frames, frameIndex, listing, outputs, timings, videoArtifact>>
       \/ CutListing /\ UNCHANGED <<frames, frameIndex, order, outputs, timings, videoArtifact>>
       \/ CutRows /\ UNCHANGED <<frames, frameIndex, order, listing, timings, videoArtifact>>
       \/ CutStats /\ UNCHANGED <<frames, frameIndex, order, listing, outputs, videoArtifact>>
       \/ CutArtifact /\ UNCHANGED <<frames, frameIndex, order, listing, outputs, timings>>
    /\ UNCHANGED <<videoUsed, asked>>

VideoNext ==
    \/ StartDecode \/ DecodeClip \/ IndexFrames \/ DropFrames
    \/ StartOrder \/ WriteOrder \/ WriteListing
    \/ StartReference \/ StartEmbed \/ StartSsv2 \/ SaveRows \/ SaveStats
    \/ ReportVideo \/ WriteVideo \/ KillVideo

VideoSpec == VideoInit /\ [][VideoNext]_videoVars

-----------------------------------------------------------------------------
(* Nothing but its length ties a list of features to the list of clips it is  *)
(* scored with: the lists of two --splits are told apart where one starts     *)
(* with the other.                                                            *)
Alike ==
    \A s, t \in asked : IsPrefix(ListClips(s), ListClips(t)) \/ IsPrefix(ListClips(t), ListClips(s))

(* Every row of the artifact is, clip for clip, of one of the lists frames    *)
(* were decoded for.  As long as these start with one another, it is the list *)
(* the row is scored with: every clip gets the feature computed from it, in   *)
(* every backend, and the logits that are compared are of the same clips.  No *)
(* control run, no run over an older list, no list cut short and no pass that *)
(* was killed stands in for another (stage_report).                           *)
ScoresTheListedClips ==
    Entire(videoArtifact) =>
        /\ \A r \in videoArtifact.rows :
              Len(r.of) <= Len(r.data) /\ \E s \in asked : IsPrefix(r.data, ListClips(s))
        /\ Alike =>
              /\ \A r \in videoArtifact.rows : IsPrefix(r.of, r.data)
              /\ \A r, q \in videoArtifact.head : r.data = q.data
=============================================================================
