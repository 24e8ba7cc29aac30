------------------------------ MODULE Ssv2Sweep ------------------------------
(* scripts/bench_accuracy_ssv2.py: a sweep over the validation clips, one    *)
(* stage at a time, each a process that reads the files of the stages before *)
(* it and writes its own.  A stage may be killed between two of its writes   *)
(* or inside one, and any stage may be run again, in any order, also after   *)
(* the frame cache was deleted.  Only the frame tensors are renamed into     *)
(* place: every other file is written over and a kill leaves it Half.        *)
(*                                                                           *)
(* A frame tensor is named by its clip; a logits file is the sequence of the *)
(* clips its rows were computed from, so that a report that scores it shows  *)
(* which clip each row was taken for.                                        *)
EXTENDS Naturals, Sequences, FiniteSets, Functions, SortedLists

CONSTANTS NClips,     \* entries of validation.json, numbered in its order
          Scope,      \* SCOPES: name of a scope -> its step
          ListFiles,  \* the files `lists` writes, in order: clips.json, scopes
          Tags,       \* the torch and cpp runs: [eng, dev, dtype, scope]
          Limits,     \* values of frames' --limit, NClips for none
          MaxStages,  \* bound on the stages started
          Missing,    \* no such file
          Half        \* a file whose writer was killed: reading it raises

Clips == 1..NClips
FrameRecords == [id : Clips, got : {"cached", "error", "decoded"}, whole : BOOLEAN]

ASSUME Ssv2Assumption ==
    /\ NClips \in Nat /\ DOMAIN Scope \subseteq STRING /\ "full" \in DOMAIN Scope
    /\ \A s \in DOMAIN Scope : Scope[s] \in Nat \ {0}
    /\ Scope["full"] = 1
    /\ ListFiles \in Seq({"clips.json"} \cup DOMAIN Scope) /\ Len(ListFiles) > 0
    /\ Head(ListFiles) = "clips.json"
    /\ Limits \subseteq 1..NClips
    /\ \A lost \in {Missing, Half} :
          lost \notin Seq(Nat) /\ lost \notin [recs : SUBSET FrameRecords, wall : BOOLEAN]
    /\ Missing # Half
    /\ Tags \subseteq [eng : {"torch", "cpp"}, dev : STRING, dtype : STRING, scope : DOMAIN Scope]

VARIABLES cached,    \* clips with a frame tensor under frames-val/
          index,     \* frames-val/index.json
          clips,     \* clips.json: the clips in order
          lists,     \* <scope>.txt: the clips it lists
          logits,    \* <tag>-logits.npy
          meta,      \* <tag>.json: Missing, Half, "raw" (jepa-embed's), "stamped"
          accuracy,  \* tests/results/accuracy-ssv2.json
          proc,      \* the stage that runs
          used,      \* stages started
          past       \* what happened to the frame cache, which no file tells:
                     \*   seen     the clips an index ever listed
                     \*   forgot   an index was written without one of them
                     \*   untimed  the cache has tensors of a pass that was
                     \*            killed before it wrote its index

ssv2Results == <<logits, meta, accuracy>>
ssv2Vars == <<cached, index, clips, lists, logits, meta, accuracy, proc, used, past>>
Intact(file) == file # Missing /\ file # Half

NoStage == [stage |-> "idle"]
NoIndex == [recs |-> {}, wall |-> FALSE]
NoFacts == [decoded |-> 0, wall |-> FALSE, whole |-> FALSE]

Ssv2Init ==
    /\ cached = {} /\ index = Missing /\ clips = Missing
    /\ lists = [s \in DOMAIN Scope |-> Missing]
    /\ logits = [t \in Tags |-> Missing]
    /\ meta = [t \in Tags |-> Missing]
    /\ accuracy = Missing
    /\ proc = NoStage /\ used = 0
    /\ past = [seen |-> {}, forgot |-> FALSE, untimed |-> FALSE]

Start(p) ==
    /\ proc = NoStage /\ used < MaxStages
    /\ proc' = p
    /\ used' = used + 1

-----------------------------------------------------------------------------
(* frames: decode every clip once, then write the index of all of them.      *)

(* `prev` of a job: the record the previous index has for the clip carries   *)
(* the sampled frame indices, if it ever had them.                           *)
PrevWhole(prev, c) == \E r \in prev.recs : r.id = c /\ r.whole

StartFrames ==
    \E n \in Limits :
        /\ index # Half
        /\ Start([stage |-> "frames", recs |-> {}, todo |-> 1..n,
                  prev |-> IF index = Missing THEN NoIndex ELSE index])
        /\ UNCHANGED <<cached, index, clips, lists, ssv2Results, past>>

Record(c, got, whole) == [id |-> c, got |-> got, whole |-> whole]
Done(r) ==
    proc' = [proc EXCEPT !.todo = @ \ {r.id}, !.recs = @ \cup {r}]

(* _decode_one: a warm cache answers with what the previous index knew; a    *)
(* clip that will not decode is reported, not fatal; the tensor is renamed   *)
(* into place, so a killed run leaves a whole file or none.                  *)
DecodeOne ==
    /\ proc.stage = "frames"
    /\ \E c \in proc.todo :
         \/ /\ c \in cached
            /\ Done(Record(c, "cached", PrevWhole(proc.prev, c)))
            /\ UNCHANGED cached
         \/ /\ c \notin cached
            /\ Done(Record(c, "error", FALSE))
            /\ UNCHANGED cached
         \/ /\ c \notin cached
            /\ Done(Record(c, "decoded", TRUE))
            /\ cached' = cached \cup {c}
    /\ UNCHANGED <<index, clips, lists, ssv2Results, used, past>>

(* The decode wall time is measured by a pass that decoded something, and    *)
(* kept from the previous index by one that did not.                         *)
Have(ix) == {r.id : r \in {q \in ix.recs : q.got # "error"}}
Decoded == \E r \in proc.recs : r.got = "decoded"
WriteIndex ==
    /\ proc.stage = "frames" /\ proc.todo = {}
    /\ index' = [recs |-> proc.recs, wall |-> proc.prev.wall \/ Decoded]
    /\ past' = [past EXCEPT !.seen = @ \cup Have(proc), !.forgot = @ \/ ~(past.seen \subseteq Have(proc))]
    /\ proc' = NoStage
    /\ UNCHANGED <<cached, clips, lists, ssv2Results, used>>

(* The cache is a hundred gigabytes; it and its index are deleted after the  *)
(* sweep, or when a killed pass left half an index.                          *)
DropCache ==
    /\ proc = NoStage /\ (cached # {} \/ index # Missing)
    /\ cached' = {} /\ index' = Missing
    /\ past' = [past EXCEPT !.untimed = FALSE]
    /\ UNCHANGED <<clips, lists, ssv2Results, proc, used>>
-----------------------------------------------------------------------------
(* lists: freeze the clip order and the subsets, clips.json first.           *)

Rows(ix) == InOrder(Have(ix))
Every(seq, step) == [k \in 1..((Len(seq) + step - 1) \div step) |-> seq[(k - 1) * step + 1]]
Sliced(seq, s) == Every(seq, Scope[s])

StartLists ==
    /\ Intact(index)
    /\ Start([stage |-> "lists", rows |-> Rows(index), left |-> ListFiles])
    /\ UNCHANGED <<cached, index, clips, lists, ssv2Results, past>>

WriteLists ==
    /\ proc.stage = "lists"
    /\ LET f == Head(proc.left) IN
         IF f = "clips.json"
         THEN clips' = proc.rows /\ UNCHANGED lists
         ELSE lists' = [lists EXCEPT ![f] = Sliced(proc.rows, f)] /\ UNCHANGED clips
    /\ proc' = IF Len(proc.left) = 1 THEN NoStage ELSE [proc EXCEPT !.left = Tail(@)]
    /\ UNCHANGED <<cached, index, ssv2Results, used, past>>

-----------------------------------------------------------------------------
(* torch and cpp: logits, one row per clip of the scope, then the JSON.  The *)
(* torch stage takes its clips from clips.json, jepa-embed from <scope>.txt; *)
(* neither runs on no clips at all.                                          *)

RunOver(t, rows) ==
    /\ Intact(clips) /\ rows # <<>> /\ Range(rows) \subseteq cached
    /\ Start([stage |-> t.eng, tag |-> t, rows |-> rows])
    /\ UNCHANGED <<cached, index, clips, lists, ssv2Results, past>>
StartTorch == \E t \in Tags : t.eng = "torch" /\ RunOver(t, Sliced(clips, t.scope))
StartCpp ==
    \E t \in Tags : t.eng = "cpp" /\ Intact(lists[t.scope]) /\ RunOver(t, lists[t.scope])

(* jepa-embed writes a JSON of its own, which the cpp stage then stamps.     *)
SaveLogits ==
    /\ proc.stage \in {"torch", "cpp"}
    /\ logits' = [logits EXCEPT ![proc.tag] = proc.rows]
    /\ proc' = [stage |-> IF proc.stage = "cpp" THEN "json" ELSE "stamp", tag |-> proc.tag]
    /\ UNCHANGED <<cached, index, clips, lists, meta, accuracy, used, past>>

StampMeta ==
    /\ proc.stage \in {"json", "stamp"}
    /\ meta' = [meta EXCEPT ![proc.tag] = IF proc.stage = "json" THEN "raw" ELSE "stamped"]
    /\ proc' = IF proc.stage = "json" THEN [proc EXCEPT !.stage = "stamp"] ELSE NoStage
    /\ UNCHANGED <<cached, index, clips, lists, logits, accuracy, used, past>>

-----------------------------------------------------------------------------
(* report: score every logits file against the clips of its scope.           *)

Ran(eng, dev, scope) ==
    {t \in Tags : t.eng = eng /\ t.dev = dev /\ t.scope = scope /\ logits[t] # Missing}
FullRefs == Ran("torch", "cuda", "full")

\* Mutant: a file of any length is scored.
Scored_AnyLength == {t \in Tags : logits[t] # Missing}
(* _run_rows: a file of another length than its scope is skipped.            *)
Scored == {t \in Tags : logits[t] # Missing /\ Len(logits[t]) = Len(Sliced(clips, t.scope))}
MeasuredRows == {[of |-> t.scope, data |-> logits[t], as |-> Sliced(clips, t.scope)] : t \in Scored}

(* _derived_rows: the full runs scored again on each subset that was run.    *)
DerivedRows ==
    {[of |-> "full", data |-> Sliced(logits[t], s), as |-> Sliced(clips, s)] :
        t \in {u \in Scored : u.scope = "full"},
        s \in {u.scope : u \in Scored} \ {"full"}}

(* The reference logits of the clips a row is scored on.                     *)
ReferenceRows == {[of |-> "full", data |-> logits[t], as |-> clips] : t \in FullRefs}

(* The comparisons index one run by the rows of another, and read the JSON.  *)
AnchorsFit ==
    \A r \in Ran("torch", "cpu", "sub100") : \A t \in Ran("cpp", "cpu", "sub10") :
        /\ Len(logits[r]) = Len(Sliced(clips, "sub100"))
        /\ Len(logits[t]) >= Len(Sliced(clips, "sub10"))
BackendsFit ==
    \A s \in DOMAIN Scope : \A t \in Ran("cpp", "cpu", s) :
        /\ meta[t] # Missing
        /\ \A g \in Ran("cpp", "cuda", "full") :
             /\ meta[t] = "stamped"
             /\ Len(logits[g]) >= Len(clips) /\ Len(logits[t]) = Len(Sliced(clips, s))

(* _manifest: complete if every clip listed has its record and its tensor.   *)
Manifest(ix) == \A i \in 1..Len(clips) : clips[i] \in cached /\ PrevWhole(ix, clips[i])

\* Mutant: nothing is carried forward.
FrameFacts_LiveOnly ==
    LET ix == IF index = Missing THEN NoIndex ELSE index
    IN  [decoded |-> Cardinality(Have(ix)), wall |-> ix.wall, whole |-> Manifest(ix)]
(* _frame_facts: what the live index still shows wins, the rest is carried   *)
(* forward from the artifact about to be overwritten.                        *)
FrameFacts ==
    LET ix == IF index = Missing THEN NoIndex ELSE index
    IN  IF Have(ix) # {}
        THEN [decoded |-> Cardinality(Have(ix)), wall |-> ix.wall, whole |-> Manifest(ix)]
        ELSE IF accuracy # Missing THEN accuracy.facts ELSE NoFacts

(* The artifact to be overwritten is read first, with every file scored.     *)
StartReport ==
    /\ Intact(clips) /\ index # Half /\ accuracy # Half
    /\ \A t \in Tags : logits[t] # Half /\ meta[t] # Half
    /\ \A t \in FullRefs : Len(logits[t]) = Len(clips)
    /\ AnchorsFit /\ BackendsFit
    /\ Start([stage |-> "report",
              art |-> [rows |-> MeasuredRows \cup DerivedRows \cup ReferenceRows, facts |-> FrameFacts]])
    /\ UNCHANGED <<cached, index, clips, lists, ssv2Results, past>>
WriteReport ==
    /\ proc.stage = "report"
    /\ accuracy' = proc.art
    /\ proc' = NoStage
    /\ UNCHANGED <<cached, index, clips, lists, logits, meta, used, past>>

-----------------------------------------------------------------------------
(* A stage is killed between two of its steps, and its files stay as they    *)
(* are, or inside a write.  Half a JSON or half a matrix cannot be read; of  *)
(* a list of paths a part can be, unless a path was cut.                     *)
Parts(seq) == {Half} \cup {SubSeq(seq, 1, k) : k \in 0..(Len(seq) - 1)}
CutIndex ==
    /\ proc.stage = "frames" /\ proc.todo = {}
    /\ index' = Half /\ UNCHANGED <<clips, lists, ssv2Results>>
CutList ==
    /\ proc.stage = "lists"
    /\ LET f == Head(proc.left) IN
         IF f = "clips.json" THEN clips' = Half /\ UNCHANGED lists
         ELSE /\ \E part \in Parts(Sliced(proc.rows, f)) : lists' = [lists EXCEPT ![f] = part]
              /\ UNCHANGED clips
    /\ UNCHANGED <<index, ssv2Results>>
CutResult ==
    /\ \/ /\ proc.stage \in {"torch", "cpp"} /\ logits' = [logits EXCEPT ![proc.tag] = Half]
          /\ UNCHANGED <<meta, accuracy>>
       \/ /\ proc.stage \in {"json", "stamp"} /\ meta' = [meta EXCEPT ![proc.tag] = Half]
          /\ UNCHANGED <<logits, accuracy>>
       \/ /\ proc.stage = "report" /\ accuracy' = Half
          /\ UNCHANGED <<logits, meta>>
    /\ UNCHANGED <<index, clips, lists>>

KillStage ==
    /\ proc # NoStage
    /\ CutIndex \/ CutList \/ CutResult \/ UNCHANGED <<index, clips, lists, ssv2Results>>
    /\ proc' = NoStage
    /\ past' = [past EXCEPT !.untimed = @ \/ (proc.stage = "frames" /\ Decoded)]
    /\ UNCHANGED <<cached, used>>

Ssv2Next ==
    \/ StartFrames \/ DecodeOne \/ WriteIndex \/ DropCache
    \/ StartLists \/ WriteLists
    \/ StartTorch \/ StartCpp \/ SaveLogits \/ StampMeta
    \/ StartReport \/ WriteReport \/ KillStage

Ssv2Spec == Ssv2Init /\ [][Ssv2Next]_ssv2Vars

-----------------------------------------------------------------------------
(* Every row scored on the whole split, and what is sliced from it, was       *)
(* computed from the clip whose label it is scored with, whatever was killed, *)
(* cut short, extended, deleted and rebuilt, as long as no index was written  *)
(* without a clip that an earlier one had: then the count the report compares *)
(* is enough (_run_rows).                                                     *)
FullRowsAreTheirClips ==
    Intact(accuracy) /\ ~past.forgot => \A r \in accuracy.rows : r.of = "full" => r.data = r.as

(* A report publishes fewer decoded clips than the one it replaces only when  *)
(* the index it reads has lost some, and replaces a measured decode time by   *)
(* none only over a cache of which a killed pass decoded a part               *)
(* (_frame_facts, stage_frames).                                              *)
NoMeasurementErased ==
    [][Intact(accuracy) /\ Intact(accuracy') =>
          /\ accuracy'.facts.decoded < accuracy.facts.decoded =>
                index # Missing /\ ~(past.seen \subseteq Have(index))
          /\ accuracy.facts.wall /\ ~accuracy'.facts.wall => past.untimed]_accuracy

(* A report keeps the decode time that the report before it published, as the *)
(* comments of stage_frames and _frame_facts say of a pass over a warm cache. *)
DecodeTimeIsKept ==
    [][Intact(accuracy) /\ Intact(accuracy') =>
          (accuracy.facts.wall => accuracy'.facts.wall)]_accuracy
=============================================================================
