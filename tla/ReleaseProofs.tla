---------------------------- MODULE ReleaseProofs ----------------------------
(* From a checkpoint to the hub, for any number of checkpoints, types, files *)
(* and commands. hjepa_batch.py: as long as nobody rewrites a GGUF while a   *)
(* command runs, every file on the hub is one whose verdict PASS was saved.  *)
(* hf_publish.py: a check that nothing disturbs is right, and an upload of   *)
(* everything that nothing disturbs leaves nothing to report. convert.py,    *)
(* for any checkpoint: nothing is dropped, and the engine loads the file.    *)
EXTENDS HjepaBatch, HfPublish, Convert, FiniteSetTheorems, SequenceTheorems, TLAPS

Sums == Contents \cup {Torn, NoFile}
Verdict == [sha : Sums, pass : BOOLEAN]
Entries == [NameSet -> {NoEntry, Error} \cup [kind : {"files"}, files : [DtypeSet -> Verdict]]]
Jsons == Entries \cup {CutJson}
Passed == [n : NameSet, d : DtypeSet, sha : Sums]
Ggufs == [NameSet -> [DtypeSet -> Sums]]

(* The running command: none, a run between or within checkpoints, an upload.*)
Runs == [pc : {"download", "convert", "reference"}, todo : Seq(NameSet) \ {<<>>}, mem : Entries]
Ended == [pc : {"finish"}, todo : Seq(NameSet), mem : Entries]
Verifying == [pc : {"verify"}, todo : Seq(NameSet) \ {<<>>}, mem : Entries,
              left : Seq(DtypeSet), files : [DtypeSet -> Verdict]]
Uploads == [pc : {"card", "files"}, card : SUBSET Passed, only : BOOLEAN,
            files : SUBSET Passed, refs : SUBSET NameSet]

TypeInv ==
    /\ gguf \in Ggufs
    /\ results \in Jsons
    /\ proc \in {Idle} \cup Runs \cup Ended \cup Verifying \cup Uploads
    /\ repo \in [files : Ggufs, card : SUBSET Passed]
    /\ passed \subseteq Passed

(* The JSON holds no PASS that was not saved.                                *)
SavedIsPassed == Passing(results) \subseteq passed

(* While an upload runs, the files it has yet to send are what they were when*)
(* it summed them.                                                           *)
SummedHolds ==
    proc \in Uploads => \A r \in proc.files : r \in passed /\ gguf[r.n][r.d] = r.sha

BatchInv == TypeInv /\ SavedIsPassed /\ SummedHolds /\ PublishedPassed

-----------------------------------------------------------------------------
LEMMA PassingIs ==
  ASSUME NEW e \in Jsons
  PROVE  Passing(e) \in SUBSET Passed
<1> SUFFICES ASSUME NEW r \in Passing(e) PROVE r \in Passed
  OBVIOUS
<1>1. PICK n \in NameSet :
        /\ e[n].kind = "files"
        /\ r \in {[n |-> n, d |-> d, sha |-> e[n].files[d].sha] :
                    d \in {d \in DtypeSet : e[n].files[d].pass}}
  BY DEF Passing
<1>2. PICK d \in DtypeSet : r = [n |-> n, d |-> d, sha |-> e[n].files[d].sha]
  BY <1>1
<1>3. e[n] \in [kind : {"files"}, files : [DtypeSet -> Verdict]]
  <2>1. e # CutJson  BY <1>1 DEF CutJson, CutEntry
  <2> QED  BY <1>1, <2>1 DEF Jsons, Entries, NoEntry, Error
<1>4. e[n].files \in [DtypeSet -> Verdict]  BY <1>3
<1>5. e[n].files[d].sha \in Sums  BY <1>4 DEF Verdict
<1> QED  BY <1>2, <1>5 DEF Passed

LEMMA BatchInvInit ==
  ASSUME BatchInit PROVE BatchInv
<1> USE DEF BatchInit, NoJson
<1>1. NoFiles \in Ggufs  BY DEF NoFiles, Ggufs, Sums
<1>2. results \in Jsons  BY DEF Jsons, Entries
<1>3. TypeInv  BY <1>1, <1>2 DEF TypeInv
<1>4. SavedIsPassed
  <2>1. \A n \in NameSet : results[n].kind # "files"  BY DEF NoEntry
  <2> QED  BY <2>1 DEF SavedIsPassed, Passing
<1>5. SummedHolds  BY DEF SummedHolds, Idle, Uploads
<1>6. PublishedPassed  BY DEF PublishedPassed, NoFiles
<1> QED  BY <1>3, <1>4, <1>5, <1>6 DEF BatchInv

(* Which kind of command a place belongs to.                                 *)
LEMMA EntryKinds ==
  ASSUME TypeInv
  PROVE  /\ proc.pc \in {"download", "convert", "reference"} => proc \in Runs
         /\ proc.pc = "verify" => proc \in Verifying
         /\ proc.pc \in {"card", "files"} => proc \in Uploads
         /\ proc \in Uploads => proc.pc \in {"card", "files"}
BY DEF TypeInv, Idle, Runs, Ended, Verifying, Uploads

LEMMA NextNameIs ==
  ASSUME proc \in Runs \cup Verifying, NEW mem \in Entries
  PROVE  NextName(mem) \in Runs \cup Ended
<1>1. proc.todo \in Seq(NameSet) /\ proc.todo # <<>>  BY DEF Runs, Verifying
<1>2. Tail(proc.todo) \in Seq(NameSet) /\ Len(Tail(proc.todo)) = Len(proc.todo) - 1
  BY <1>1, HeadTailProperties
<1>3. CASE Len(proc.todo) = 1  BY <1>2, <1>3 DEF NextName, Ended
<1>4. CASE Len(proc.todo) # 1
  <2>1. Len(proc.todo) \in Nat  BY <1>1, LenProperties
  <2>2. Len(<<>>) = 0  BY EmptySeq
  <2>3. Tail(proc.todo) # <<>>
    <3>1. Len(Tail(proc.todo)) # 0  BY <1>2, <1>4, <2>1
    <3> QED  BY <3>1, <2>2
  <2> QED  BY <1>2, <1>4, <2>3 DEF NextName, Runs
<1> QED  BY <1>3, <1>4

LEMMA NameIs ==
  ASSUME proc \in Runs \cup Verifying PROVE Name \in NameSet
<1>1. proc.todo \in Seq(NameSet) /\ proc.todo # <<>>  BY DEF Runs, Verifying
<1> QED  BY <1>1, HeadTailProperties DEF Name

LEMMA FirstIs ==
  First \in DtypeSet
<1>1. Dtypes \in Seq(DtypeSet) /\ Dtypes # <<>>  BY BatchAssumption
<1>2. Len(Dtypes) \in Nat \ {0}  BY <1>1, EmptySeq
<1>3. 1 \in 1..Len(Dtypes)  BY <1>2
<1> QED  BY <1>3 DEF First, DtypeSet

(* A checkpoint that failed: the command goes on, outside of any upload.     *)
LEMMA FailedIs ==
  ASSUME proc \in Runs \cup Verifying, Failed
  PROVE  proc' \in Runs \cup Ended
<1>1. proc.mem \in Entries  BY DEF Runs, Verifying
<1>2. [proc.mem EXCEPT ![Name] = Error] \in Entries  BY <1>1, NameIs DEF Entries
<1> QED  BY <1>2, NextNameIs DEF Failed, Goto

LEMMA NothingPasses ==
  /\ NoJson \in Jsons /\ Passing(NoJson) = {}
  /\ CutJson \in Jsons /\ Passing(CutJson) = {}
<1>1. NoJson \in Jsons /\ CutJson \in Jsons  BY DEF Jsons, Entries, NoJson
<1>2. \A n \in NameSet : NoJson[n].kind # "files" /\ CutJson[n].kind # "files"
  BY DEF NoJson, CutJson, NoEntry, CutEntry
<1> QED  BY <1>1, <1>2 DEF Passing

(* A JSON cut or deleted between two checkpoints, outside of any upload.     *)
LEMMA LostJson ==
  ASSUME BatchInv, UNCHANGED <<gguf, passed, repo>>, proc' = Idle,
         results' \in {NoJson, CutJson}
  PROVE  BatchInv'
<1>1. proc' \notin Uploads  BY DEF Idle, Uploads
<1>2. results' \in Jsons /\ Passing(results') = {}  BY NothingPasses
<1>3. TypeInv'  BY <1>2 DEF BatchInv, TypeInv
<1>4. SavedIsPassed'  BY <1>2 DEF SavedIsPassed, Passing
<1>5. PublishedPassed'  BY DEF BatchInv, PublishedPassed
<1>6. SummedHolds'  BY <1>1 DEF SummedHolds
<1> QED  BY <1>3, <1>4, <1>5, <1>6 DEF BatchInv

(* Whatever a step of run does: it does not begin an upload, and leaves the  *)
(* hub alone.                                                                *)
LEMMA RunKeeps ==
  ASSUME BatchInv, gguf' \in Ggufs, UNCHANGED <<results, passed, repo>>,
         proc' \in {Idle} \cup Runs \cup Ended \cup Verifying
  PROVE  BatchInv'
<1>1. proc' \notin Uploads  BY DEF Idle, Runs, Ended, Verifying, Uploads
<1>2. TypeInv'  BY DEF BatchInv, TypeInv
<1>3. SavedIsPassed' /\ PublishedPassed'  BY DEF BatchInv, SavedIsPassed, Passing, PublishedPassed
<1>4. SummedHolds'  BY <1>1 DEF SummedHolds
<1> QED  BY <1>2, <1>3, <1>4 DEF BatchInv

-----------------------------------------------------------------------------
LEMMA RunSteps ==
  ASSUME BatchInv, Run PROVE BatchInv'
<1> USE DEF BatchInv
<1>1. CASE StartRun
  <2>1. PICK i \in 1..Len(Names), j \in 1..Len(Names) :
          /\ i <= j
          /\ \/ proc' = Idle
             \/ /\ results # CutJson
                /\ proc' = [pc |-> "download", todo |-> SubSeq(Names, i, j), mem |-> results]
          /\ UNCHANGED <<local, hub>>
    BY <1>1 DEF StartRun, Start
  <2>2. SubSeq(Names, i, j) \in Seq(NameSet) /\ SubSeq(Names, i, j) # <<>>
    <3>1. Names \in Seq(NameSet)  BY BatchAssumption
    <3>2. Len(Names) \in Nat  BY <3>1, LenProperties
    <3>3. i \in Int /\ j \in Int /\ \A k \in i..j : k \in 1..Len(Names)  BY <3>2
    <3>4. \A k \in i..j : Names[k] \in NameSet  BY <3>1, <3>3, ElementOfSeq
    <3>5. /\ SubSeq(Names, i, j) \in Seq(NameSet)
          /\ Len(SubSeq(Names, i, j)) = IF i <= j THEN j - i + 1 ELSE 0
      BY <3>3, <3>4, SubSeqProperties
    <3>6. Len(SubSeq(Names, i, j)) # 0  BY <3>3, <3>5, <2>1
    <3>7. Len(<<>>) = 0  BY EmptySeq
    <3> QED  BY <3>5, <3>6, <3>7
  <2>3. CASE proc' = Idle  BY <2>1, <2>3, RunKeeps DEF local, hub, TypeInv
  <2>4. CASE proc' # Idle
    <3>1. results \in Entries  BY <2>1, <2>4 DEF TypeInv, Jsons
    <3>2. proc' = [pc |-> "download", todo |-> SubSeq(Names, i, j), mem |-> results]  BY <2>1, <2>4
    <3>3. proc' \in Runs  BY <2>2, <3>1, <3>2 DEF Runs
    <3> QED  BY <2>1, <3>3, RunKeeps DEF local, hub, TypeInv
  <2> QED  BY <2>3, <2>4
<1>2. CASE Download
  <2>1. proc \in Runs /\ UNCHANGED <<local, hub>>
    BY <1>2, EntryKinds DEF Download
  <2>2. proc' \in Runs \cup {Idle}  BY <1>2, <2>1 DEF Download, Goto, At, Runs
  <2> QED  BY <2>1, <2>2, RunKeeps DEF local, hub, TypeInv
<1>3. CASE Convert
  <2>1. proc \in Runs /\ UNCHANGED <<refs, results, passed, hub>>
    BY <1>3, EntryKinds DEF Convert
  <2>2. CASE Failed /\ UNCHANGED gguf
    BY <2>1, <2>2, FailedIs, RunKeeps DEF hub, TypeInv
  <2>3. CASE \E c \in Contents : gguf' = [gguf EXCEPT ![Name][First] = c] /\ Goto(At("reference"))
    <3>1. gguf' \in Ggufs
      <4>1. PICK c \in Contents : gguf' = [gguf EXCEPT ![Name][First] = c]  BY <2>3
      <4> QED  BY <4>1, <2>1, NameIs, FirstIs DEF TypeInv, Ggufs, Sums
    <3>2. proc' \in Runs  BY <2>1, <2>3 DEF Goto, At, Runs
    <3> QED  BY <2>1, <3>1, <3>2, RunKeeps DEF hub
  <2> QED  BY <1>3, <2>2, <2>3 DEF Convert
<1>4. CASE Reference
  <2>1. proc \in Runs /\ UNCHANGED <<gguf, results, passed, hub>>
    BY <1>4, EntryKinds DEF Reference
  <2>2. CASE Failed
    BY <2>1, <2>2, FailedIs, RunKeeps DEF hub, TypeInv
  <2>3. CASE Goto([pc |-> "verify", todo |-> proc.todo, mem |-> proc.mem, left |-> Dtypes,
                   files |-> [d \in DtypeSet |-> [sha |-> NoFile, pass |-> FALSE]]])
    <3>1. proc.todo \in Seq(NameSet) \ {<<>>} /\ proc.mem \in Entries  BY <2>1 DEF Runs
    <3>2. proc' \in Verifying
      BY <2>3, <3>1, BatchAssumption DEF Goto, Verifying, Verdict, Sums
    <3> QED  BY <2>1, <3>2, RunKeeps DEF hub, TypeInv
  <2> QED  BY <1>4, <2>2, <2>3 DEF Reference
<1>5. CASE Verify
  <2>1. /\ proc \in Verifying /\ proc.left # <<>> /\ UNCHANGED <<refs, results, passed, hub>>
    BY <1>5, EntryKinds DEF Verify
  <2>2. Name \in NameSet  BY <2>1, NameIs
  <2> DEFINE d == Head(proc.left)
             src == gguf[Name][First]
  <2>3. d \in DtypeSet /\ Tail(proc.left) \in Seq(DtypeSet)
    BY <2>1, HeadTailProperties DEF Verifying
  <2>4. \A sha \in Sums, ok \in BOOLEAN :
          [proc EXCEPT !.left = Tail(@), !.files[d] = [sha |-> sha, pass |-> ok]] \in Verifying
    BY <2>1, <2>3 DEF Verifying, Verdict
  <2>5. CASE /\ gguf' = [gguf EXCEPT ![Name][d] = src]
             /\ \E ok \in BOOLEAN : /\ ok => src \in Contents
                  /\ Goto([proc EXCEPT !.left = Tail(@), !.files[d] = [sha |-> src, pass |-> ok]])
    <3>1. src \in Sums  BY <2>2, FirstIs DEF TypeInv, Ggufs
    <3>2. gguf' \in Ggufs  BY <2>5, <3>1 DEF TypeInv, Ggufs
    <3>3. proc' \in Verifying  BY <2>4, <2>5, <3>1 DEF Goto
    <3> QED  BY <2>1, <3>2, <3>3, RunKeeps DEF hub
  <2>6. CASE /\ Goto([proc EXCEPT !.left = Tail(@), !.files[d] = [sha |-> NoFile, pass |-> FALSE]])
             /\ UNCHANGED gguf
    <3>1. proc' \in Verifying  BY <2>4, <2>6 DEF Goto, Sums
    <3> QED  BY <2>1, <2>6, <3>1, RunKeeps DEF hub, TypeInv
  <2> QED  BY <1>5, <2>5, <2>6 DEF Verify
<1>6. CASE SaveResults
  <2>1. proc \in Verifying /\ proc.mem \in Entries /\ proc.files \in [DtypeSet -> Verdict]
    BY <1>6, EntryKinds DEF SaveResults, Verifying
  <2> DEFINE mem == [proc.mem EXCEPT ![Name] = [kind |-> "files", files |-> proc.files]]
  <2>2. mem \in Entries /\ mem \in Jsons  BY <2>1 DEF Entries, Jsons
  <2>3. /\ results' = mem /\ passed' = passed \cup Passing(mem) /\ proc' = NextName(mem)
        /\ UNCHANGED <<refs, gguf, hub>>
    BY <1>6 DEF SaveResults, Goto
  <2> HIDE DEF mem
  <2>4. Passing(mem) \in SUBSET Passed  BY <2>2, PassingIs
  <2>5. proc' \in Runs \cup Ended  BY <2>1, <2>2, <2>3, NextNameIs
  <2>6. TypeInv'  BY <2>2, <2>3, <2>4, <2>5 DEF TypeInv, Jsons, hub
  <2>7. SavedIsPassed'  BY <2>3 DEF SavedIsPassed, Passing
  <2>8. SummedHolds'  BY <2>5 DEF SummedHolds, Runs, Ended, Uploads
  <2>9. PublishedPassed'  BY <2>3 DEF PublishedPassed, hub
  <2> QED  BY <2>6, <2>7, <2>8, <2>9
<1>7. CASE FinishRun
  BY <1>7, RunKeeps DEF FinishRun, Goto, local, hub, TypeInv
<1> QED  BY <1>1, <1>2, <1>3, <1>4, <1>5, <1>6, <1>7 DEF Run

LEMMA UploadSteps ==
  ASSUME BatchInv, Upload PROVE BatchInv'
<1> USE DEF BatchInv
<1>1. CASE StartUpload
  <2>1. PICK only \in BOOLEAN :
          \/ proc' = Idle
          \/ /\ \A r \in Passing(results) : gguf[r.n][r.d] = r.sha
             /\ proc' = Uploading(only)
    BY <1>1 DEF StartUpload, Start
  <2>2. UNCHANGED <<local, hub>>  BY <1>1 DEF StartUpload
  <2>3. CASE proc' = Idle  BY <2>2, <2>3, RunKeeps DEF local, hub, TypeInv
  <2>4. CASE /\ \A r \in Passing(results) : gguf[r.n][r.d] = r.sha
             /\ proc' = Uploading(only)
    <3>1. Passing(results) \in SUBSET Passed  BY PassingIs DEF TypeInv
    <3>2. proc' \in Uploads  BY <2>4, <3>1 DEF Uploading, Uploads, Card
    <3>3. proc'.files \subseteq Passing(results)  BY <2>4 DEF Uploading
    <3>4. TypeInv'  BY <2>2, <3>2 DEF TypeInv, local, hub
    <3>5. SavedIsPassed' /\ PublishedPassed'
      BY <2>2 DEF SavedIsPassed, Passing, PublishedPassed, local, hub
    <3>6. SummedHolds'  BY <2>2, <2>4, <3>3 DEF SummedHolds, SavedIsPassed, local
    <3> QED  BY <3>4, <3>5, <3>6
  <2> QED  BY <2>1, <2>3, <2>4
<1>2. CASE UploadCard
  <2>1. proc \in Uploads /\ UNCHANGED <<local, dataset>>
        /\ repo' = [repo EXCEPT !.card = proc.card] /\ proc' = [proc EXCEPT !.pc = "files"]
    BY <1>2, EntryKinds DEF UploadCard, Goto, At
  <2>2. proc' \in Uploads /\ proc'.files = proc.files  BY <2>1 DEF Uploads
  <2>3. repo' \in [files : Ggufs, card : SUBSET Passed] /\ repo'.files = repo.files
    BY <2>1 DEF TypeInv, Uploads
  <2>4. TypeInv'  BY <2>1, <2>2, <2>3 DEF TypeInv, local
  <2>5. SavedIsPassed' /\ PublishedPassed'
    BY <2>1, <2>3 DEF SavedIsPassed, Passing, PublishedPassed, local
  <2>6. SummedHolds'  BY <2>1, <2>2 DEF SummedHolds, local
  <2> QED  BY <2>4, <2>5, <2>6
<1>3. CASE UploadFile
  <2>1. proc \in Uploads /\ UNCHANGED <<local, dataset>>
    BY <1>3, EntryKinds DEF UploadFile
  <2>2. PICK r \in proc.files :
          /\ repo' = [repo EXCEPT !.files[r.n][r.d] = gguf[r.n][r.d]]
          /\ proc' = [proc EXCEPT !.files = @ \ {r}]
    BY <1>3 DEF UploadFile, Goto
  <2>3. r \in Passed /\ r \in passed /\ gguf[r.n][r.d] = r.sha
    BY <2>1 DEF SummedHolds, Uploads
  <2>4. r.n \in NameSet /\ r.d \in DtypeSet /\ r.sha \in Sums /\ r = [n |-> r.n, d |-> r.d, sha |-> r.sha]
    BY <2>3 DEF Passed
  <2>5. repo.files \in Ggufs /\ repo \in [files : Ggufs, card : SUBSET Passed]  BY DEF TypeInv
  <2>6. repo'.files = [repo.files EXCEPT ![r.n][r.d] = r.sha] /\ repo'.card = repo.card
    BY <2>2, <2>3, <2>5
  <2>7. repo'.files \in Ggufs  BY <2>4, <2>5, <2>6 DEF Ggufs
  <2>8. repo' \in [files : Ggufs, card : SUBSET Passed]  BY <2>2, <2>3, <2>4, <2>5, <2>7
  <2>9. proc' \in Uploads /\ proc'.files = proc.files \ {r}  BY <2>1, <2>2 DEF Uploads
  <2>10. TypeInv'  BY <2>1, <2>8, <2>9 DEF TypeInv, local
  <2>11. SavedIsPassed'  BY <2>1 DEF SavedIsPassed, Passing, local
  <2>12. SummedHolds'  BY <2>1, <2>9 DEF SummedHolds, local
  <2>13. PublishedPassed'
    <3> SUFFICES ASSUME NEW n \in NameSet, NEW d \in DtypeSet, repo'.files[n][d] # NoFile
                 PROVE  [n |-> n, d |-> d, sha |-> repo'.files[n][d]] \in passed
      BY <2>1 DEF PublishedPassed, local
    <3>1. CASE n = r.n /\ d = r.d
      <4>1. repo'.files[n][d] = r.sha  BY <3>1, <2>4, <2>5, <2>6 DEF Ggufs
      <4> QED  BY <3>1, <4>1, <2>3, <2>4
    <3>2. CASE ~(n = r.n /\ d = r.d)
      <4>1. repo'.files[n][d] = repo.files[n][d]  BY <3>2, <2>4, <2>5, <2>6 DEF Ggufs
      <4> QED  BY <4>1 DEF PublishedPassed
    <3> QED  BY <3>1, <3>2
  <2> QED  BY <2>10, <2>11, <2>12, <2>13
<1>4. CASE UploadRef
  <2>1. proc \in Uploads /\ UNCHANGED <<local, repo>>
    BY <1>4, EntryKinds DEF UploadRef
  <2>2. PICK n \in proc.refs : proc' = [proc EXCEPT !.refs = @ \ {n}]
    BY <1>4 DEF UploadRef, Goto
  <2>3. proc' \in Uploads /\ proc'.files = proc.files  BY <2>1, <2>2 DEF Uploads
  <2>4. TypeInv'  BY <2>1, <2>3 DEF TypeInv, local
  <2>5. SavedIsPassed' /\ PublishedPassed'
    BY <2>1 DEF SavedIsPassed, Passing, PublishedPassed, local
  <2>6. SummedHolds'  BY <2>1, <2>3 DEF SummedHolds, local
  <2> QED  BY <2>4, <2>5, <2>6
<1>5. CASE FinishUpload
  BY <1>5, RunKeeps DEF FinishUpload, Goto, local, hub, TypeInv
<1> QED  BY <1>1, <1>2, <1>3, <1>4, <1>5 DEF Upload

LEMMA BatchInvNext ==
  ASSUME Undisturbed, BatchInv, [BatchNext]_batchVars PROVE BatchInv'
<1>1. CASE Kill
  <2>1. CASE results' = results
    <3>1. gguf' \in Ggufs
      BY <1>1 DEF Kill, BatchInv, TypeInv, Ggufs, Sums
    <3> QED  BY <1>1, <2>1, <3>1, RunKeeps DEF Kill, Goto, hub
  <2>2. CASE results' = CutJson /\ proc.pc = "verify" /\ proc.left = <<>>
    <3>1. UNCHANGED gguf  BY <1>1, <2>2 DEF Kill
    <3> QED  BY <1>1, <2>2, <3>1, LostJson DEF Kill, Goto, hub
  <2> QED  BY <1>1, <2>1, <2>2 DEF Kill
<1>2. CASE Rewrite
  <2>1. proc = Idle /\ proc' = proc  BY <1>2 DEF Rewrite, Undisturbed
  <2>2. gguf' \in Ggufs  BY <1>2 DEF Rewrite, BatchInv, TypeInv, Ggufs, Sums
  <2> QED  BY <1>2, <2>1, <2>2, RunKeeps DEF Rewrite, hub
<1>3. CASE DropJson
  BY <1>3, LostJson DEF DropJson, hub
<1>4. CASE UNCHANGED batchVars
  BY <1>4 DEF batchVars, BatchInv, TypeInv, SavedIsPassed, SummedHolds, PublishedPassed, Passing
<1> QED  BY <1>1, <1>2, <1>3, <1>4, RunSteps, UploadSteps DEF BatchNext

(* Every file on the hub is one whose verdict PASS was saved, for any number *)
(* of checkpoints, types, contents and commands, killed anywhere             *)
(* (hjepa_batch.py run and upload).                                          *)
THEOREM OnlyPassedIsPublished ==
  ASSUME Undisturbed PROVE BatchSpec => []PublishedPassed
<1>1. BatchInit => BatchInv  BY BatchInvInit
<1>2. BatchInv /\ [BatchNext]_batchVars => BatchInv'  BY BatchInvNext
<1>3. BatchInv => PublishedPassed  BY DEF BatchInv
<1> QED  BY <1>1, <1>2, <1>3, PTL DEF BatchSpec

-----------------------------------------------------------------------------
(* hf_publish.py: what the disk, the hub and a running command can hold.     *)
Stored == Bytes \cup {Absent}
Fields(cmd) ==
    {"cmd", "pc", "ctx", "todo", "at"}
    \cup IF cmd = "upload" THEN {"fixtures", "all"} ELSE {"drift", "cut"}
OnHub(r, S) == r.files \in S /\ r = [files |-> r.files, card |-> r.card]

PublishTypes ==
    /\ weights \in [Models -> [PublishDtypes -> Stored]] /\ localDumps \in [Refs -> Stored]
    /\ DOMAIN repos = Models /\ \A m \in Models : OnHub(repos[m], [PublishDtypes -> Stored])
    /\ OnHub(dumpRepo, [Refs -> Stored])
    /\ quiet \in BOOLEAN
CommandType ==
    /\ DOMAIN command = Fields(command.cmd) /\ command.cmd \in {"upload", "check"}
    /\ command.pc \in {"read", "card", "folder", "ref", "done"}
    /\ DOMAIN command.ctx = {"commit", "shas", "cards", "dataset"}
    /\ command.todo \in SUBSET Models
    /\ command.pc = "folder" => command.at \in command.todo
    /\ command.pc \in {"ref", "done"} => command.todo = {}
    /\ command.cmd = "upload" => command.fixtures \in BOOLEAN /\ command.all \in BOOLEAN
    /\ command.cmd = "check" => command.drift \in BOOLEAN /\ command.cut \in BOOLEAN
    /\ command # NoCommand

(* The context is that of now, and so are the cards made from it.            *)
ContextIsNow ==
    /\ command.ctx.commit = head /\ command.ctx.shas = weights
    /\ \A m \in Models, d \in PublishDtypes : weights[m][d] # Absent
    /\ command.pc # "read" => /\ \A m \in Models : command.ctx.cards[m] = RenderCard(m, Now)
                              /\ command.ctx.dataset = RenderDatasetCard(Now)
DoneAgrees == \A m \in Models \ command.todo : ModelAgrees(m)

(* An upload of everything leaves the models it is through with right.       *)
UploadSoFar ==
    /\ command.fixtures /\ DoneAgrees
    /\ command.pc = "folder" => repos[command.at].card = RenderCard(command.at, Now)
    /\ command.pc \in {"ref", "done"} => dumpRepo.card = RenderDatasetCard(Now)
    /\ command.pc = "done" =>
          \A r \in Refs : localDumps[r] # Absent => dumpRepo.files[r] = localDumps[r]

(* What a check has looked at so far is as it should be.                     *)
LookedRight ==
    /\ DoneAgrees
    /\ command.pc = "folder" => repos[command.at].files = weights[command.at]
    /\ command.pc \in {"ref", "done"} => dumpRepo.files = localDumps
    /\ command.pc = "done" => dumpRepo.card = RenderDatasetCard(Now)
CheckSoFar ==
    /\ command.cut => command.drift
    /\ ~ command.cut => (command.drift <=> ~ LookedRight)

Faithful ==
    /\ ContextIsNow
    /\ command.cmd = "upload" /\ command.all => UploadSoFar
    /\ command.cmd = "check" => CheckSoFar

(* As long as nothing else has changed anything.                             *)
PublishInv ==
    /\ PublishTypes
    /\ command = NoCommand \/ (CommandType /\ (quiet => Faithful))

LEMMA NowStays ==
  ASSUME UNCHANGED onDisk
  PROVE  /\ \A m : RenderCard(m, Now)' = RenderCard(m, Now)
         /\ RenderDatasetCard(Now)' = RenderDatasetCard(Now)
         /\ weights' = weights /\ localDumps' = localDumps /\ head' = head
BY DEF onDisk, RenderCard, RenderDatasetCard, Now, Figures

LEMMA Aligned ==
  ASSUME NEW m \in Models, PublishTypes
  PROVE  ModelAgrees(m) <=> repos[m].files = weights[m] /\ repos[m].card = RenderCard(m, Now)
<1> DEFINE c == RenderCard(m, Now)
<1>1. repos[m] = [files |-> repos[m].files, card |-> repos[m].card]  BY DEF PublishTypes, OnHub
<1>2. ModelAgrees(m) <=> repos[m] = [files |-> weights[m], card |-> c]  BY DEF ModelAgrees
<1> HIDE DEF c
<1>3. repos[m] = [files |-> weights[m], card |-> c] <=> repos[m].files = weights[m] /\ repos[m].card = c
  BY <1>1
<1> QED  BY <1>2, <1>3 DEF c

LEMMA UploadStep ==
  ASSUME PublishInv, UNCHANGED onDisk, quiet' = quiet, command # NoCommand, command.cmd = "upload",
         \/ PublishCard \/ UploadFolder \/ UploadDatasetCard \/ UploadRefs
  PROVE  PublishInv'
<1>1. CommandType /\ PublishTypes /\ (quiet => Faithful)  BY DEF PublishInv
<1>2. /\ \A m : RenderCard(m, Now)' = RenderCard(m, Now)
      /\ RenderDatasetCard(Now)' = RenderDatasetCard(Now)
      /\ weights' = weights /\ localDumps' = localDumps /\ head' = head
  BY NowStays
<1>3. CASE PublishCard
  <2>1. PICK m \in command.todo : /\ repos' = [repos EXCEPT ![m].card = command.ctx.cards[m]]
                                 /\ command' = [command EXCEPT !.pc = "folder", !.at = m]
                                 /\ command.pc = "card" /\ dumpRepo' = dumpRepo
    BY <1>3 DEF PublishCard, Continue, AtStep
  <2>2. m \in Models  BY <1>1 DEF CommandType
  <2>3. CommandType'  BY <1>1, <2>1 DEF CommandType, Fields, NoCommand
  <2>4. /\ repos'[m] = [files |-> repos[m].files, card |-> command.ctx.cards[m]]
        /\ DOMAIN repos' = Models /\ \A n \in Models \ {m} : repos'[n] = repos[n]
    BY <1>1, <2>1, <2>2 DEF PublishTypes, OnHub
  <2>5. PublishTypes'  BY <1>1, <1>2, <2>1, <2>4 DEF PublishTypes, OnHub
  <2>6. command'.todo = command.todo /\ command'.ctx = command.ctx /\ command'.cmd = "upload"
        /\ command'.all = command.all /\ command'.fixtures = command.fixtures
        /\ command'.pc = "folder" /\ command'.at = m
    BY <1>1, <2>1 DEF CommandType, Fields
  <2>7. ASSUME quiet  PROVE Faithful'
    <3>1. ContextIsNow /\ ContextIsNow'  BY <1>1, <1>2, <2>1, <2>6, <2>7 DEF Faithful, ContextIsNow
    <3>2. ASSUME command.all  PROVE UploadSoFar'
      <4>1. command.fixtures /\ DoneAgrees  BY <1>1, <2>7, <3>2 DEF Faithful, UploadSoFar
      <4>2. DoneAgrees'
        <5> SUFFICES ASSUME NEW n \in Models \ command.todo  PROVE ModelAgrees(n)'  BY <2>6 DEF DoneAgrees
        <5>1. repos'[n] = repos[n] /\ ModelAgrees(n)  BY <2>4, <4>1 DEF DoneAgrees
        <5> QED  BY <1>2, <5>1 DEF ModelAgrees
      <4>3. repos'[m].card = RenderCard(m, Now)'
        BY <1>2, <2>1, <2>2, <2>4, <3>1 DEF ContextIsNow
      <4> QED  BY <2>6, <4>1, <4>2, <4>3 DEF UploadSoFar
    <3> QED  BY <2>6, <3>1, <3>2 DEF Faithful
  <2> QED  BY <2>3, <2>5, <2>7 DEF PublishInv
<1>4. CASE UploadFolder
  <2> DEFINE m == command.at
             sent == Sent(repos[m].files, weights[m])
  <2>1. /\ repos' = [repos EXCEPT ![m].files = sent]
        /\ command' = [command EXCEPT !.pc = "card", !.todo = @ \ {m}, !.at = 0]
        /\ command.pc = "folder" /\ dumpRepo' = dumpRepo
    BY <1>4 DEF UploadFolder, Continue, AtStep, NextModel
  <2>2. m \in Models /\ m \in command.todo  BY <1>1, <2>1 DEF CommandType
  <2>3. /\ command'.todo = command.todo \ {m} /\ command'.ctx = command.ctx /\ command'.cmd = "upload"
        /\ command'.all = command.all /\ command'.fixtures = command.fixtures /\ command'.pc = "card"
        /\ DOMAIN command' = DOMAIN command
    BY <1>1, <2>1 DEF CommandType, Fields
  <2>4. CommandType'  BY <1>1, <2>3 DEF CommandType, NoCommand
  <2> HIDE DEF m
  <2>8. sent \in [PublishDtypes -> Stored]  BY <1>1, <2>2 DEF Sent, PublishTypes, OnHub
  <2>9. (\A d \in PublishDtypes : weights[m][d] # Absent) => sent = weights[m]
    BY <1>1, <2>2 DEF Sent, PublishTypes
  <2> HIDE DEF sent
  <2>5. /\ repos'[m] = [files |-> sent, card |-> repos[m].card]
        /\ DOMAIN repos' = Models /\ \A n \in Models \ {m} : repos'[n] = repos[n]
    BY <1>1, <2>1, <2>2 DEF PublishTypes, OnHub
  <2>6. PublishTypes'  BY <1>1, <1>2, <2>1, <2>2, <2>5, <2>8 DEF PublishTypes, OnHub
  <2>7. ASSUME quiet  PROVE Faithful'
    <3>1. ContextIsNow'  BY <1>1, <1>2, <2>1, <2>3, <2>7 DEF Faithful, ContextIsNow
    <3>3. sent = weights[m]  BY <1>1, <2>2, <2>7, <2>9 DEF Faithful, ContextIsNow
    <3>2. ASSUME command.all  PROVE UploadSoFar'
      <4>1. command.fixtures /\ DoneAgrees /\ repos[m].card = RenderCard(m, Now)
        BY <1>1, <2>1, <2>7, <3>2 DEF Faithful, UploadSoFar, m
      <4>2. DoneAgrees'
        <5> SUFFICES ASSUME NEW n \in Models \ (command.todo \ {m})  PROVE ModelAgrees(n)'
          BY <2>3 DEF DoneAgrees
        <5>1. CASE n # m
          <6>1. repos'[n] = repos[n] /\ ModelAgrees(n)  BY <2>5, <4>1, <5>1 DEF DoneAgrees
          <6> QED  BY <1>2, <6>1 DEF ModelAgrees
        <5>2. CASE n = m
          <6>1. repos'[n] = [files |-> weights'[n], card |-> RenderCard(n, Now)']  BY <1>2, <2>5, <3>3, <4>1, <5>2
          <6> QED  BY <6>1 DEF ModelAgrees
        <5> QED  BY <5>1, <5>2
      <4> QED  BY <2>3, <4>1, <4>2 DEF UploadSoFar
    <3> QED  BY <2>3, <3>1, <3>2 DEF Faithful
  <2> QED  BY <2>4, <2>6, <2>7 DEF PublishInv
<1>5. CASE UploadDatasetCard
  <2>1. /\ dumpRepo' = [dumpRepo EXCEPT !.card = command.ctx.dataset]
        /\ command' = [command EXCEPT !.pc = "ref"]
        /\ command.pc = "card" /\ command.todo = {} /\ repos' = repos
    BY <1>5 DEF UploadDatasetCard, Continue, AtStep, ModelsDone, To
  <2>2. /\ command'.todo = command.todo /\ command'.ctx = command.ctx /\ command'.cmd = "upload"
        /\ command'.all = command.all /\ command'.fixtures = command.fixtures /\ command'.pc = "ref"
        /\ DOMAIN command' = DOMAIN command
    BY <1>1, <2>1 DEF CommandType, Fields
  <2>3. CommandType'  BY <1>1, <2>1, <2>2 DEF CommandType, NoCommand
  <2>4. dumpRepo' = [files |-> dumpRepo.files, card |-> command.ctx.dataset]
    BY <1>1, <2>1 DEF PublishTypes, OnHub
  <2>5. PublishTypes'  BY <1>1, <1>2, <2>1, <2>4 DEF PublishTypes, OnHub
  <2>6. ASSUME quiet  PROVE Faithful'
    <3>1. ContextIsNow /\ ContextIsNow'  BY <1>1, <1>2, <2>1, <2>2, <2>6 DEF Faithful, ContextIsNow
    <3>2. ASSUME command.all  PROVE UploadSoFar'
      <4>1. command.fixtures /\ DoneAgrees  BY <1>1, <2>6, <3>2 DEF Faithful, UploadSoFar
      <4>2. DoneAgrees'  BY <1>2, <2>1, <2>2, <4>1 DEF DoneAgrees, ModelAgrees
      <4>3. dumpRepo'.card = RenderDatasetCard(Now)'  BY <1>2, <2>1, <2>4, <3>1 DEF ContextIsNow
      <4> QED  BY <2>2, <4>1, <4>2, <4>3 DEF UploadSoFar
    <3> QED  BY <2>2, <3>1, <3>2 DEF Faithful
  <2> QED  BY <2>3, <2>5, <2>6 DEF PublishInv
<1>6. CASE UploadRefs
  <2> DEFINE sent == Sent(dumpRepo.files, localDumps)
  <2>1. /\ dumpRepo' = [dumpRepo EXCEPT !.files = sent]
        /\ command' = [command EXCEPT !.pc = "done"]
        /\ command.pc = "ref" /\ repos' = repos
    BY <1>6 DEF UploadRefs, Continue, AtStep, To
  <2>2. /\ command'.todo = command.todo /\ command'.ctx = command.ctx /\ command'.cmd = "upload"
        /\ command'.all = command.all /\ command'.fixtures = command.fixtures /\ command'.pc = "done"
        /\ DOMAIN command' = DOMAIN command
    BY <1>1, <2>1 DEF CommandType, Fields
  <2>3. CommandType'  BY <1>1, <2>1, <2>2 DEF CommandType, NoCommand
  <2>4. dumpRepo' = [files |-> sent, card |-> dumpRepo.card]
    BY <1>1, <2>1 DEF PublishTypes, OnHub
  <2>5. sent \in [Refs -> Stored]  BY <1>1 DEF PublishTypes, OnHub, Sent
  <2>6. \A r \in Refs : localDumps[r] # Absent => dumpRepo'.files[r] = localDumps[r]
    BY <1>1, <2>4 DEF Sent, PublishTypes
  <2> HIDE DEF sent
  <2>7. PublishTypes'  BY <1>1, <1>2, <2>1, <2>4, <2>5 DEF PublishTypes, OnHub
  <2>8. ASSUME quiet  PROVE Faithful'
    <3>1. ContextIsNow'  BY <1>1, <1>2, <2>1, <2>2, <2>8 DEF Faithful, ContextIsNow
    <3>2. ASSUME command.all  PROVE UploadSoFar'
      <4>1. command.fixtures /\ DoneAgrees /\ dumpRepo.card = RenderDatasetCard(Now)
        BY <1>1, <2>1, <2>8, <3>2 DEF Faithful, UploadSoFar
      <4>2. DoneAgrees'  BY <1>2, <2>1, <2>2, <4>1 DEF DoneAgrees, ModelAgrees
      <4>3. dumpRepo'.card = RenderDatasetCard(Now)'  BY <1>2, <2>4, <4>1
      <4> QED  BY <1>2, <2>2, <2>6, <4>1, <4>2, <4>3 DEF UploadSoFar
    <3> QED  BY <2>2, <3>1, <3>2 DEF Faithful
  <2> QED  BY <2>3, <2>7, <2>8 DEF PublishInv
<1> QED  BY <1>3, <1>4, <1>5, <1>6

(* A step of a check looks at one thing more, or fails to.                   *)
LEMMA CheckStep ==
  ASSUME PublishInv, UNCHANGED onDisk, UNCHANGED published, quiet' = quiet,
         command # NoCommand, command.cmd = "check",
         \/ CheckFiles \/ CheckCard \/ CheckRefs \/ CheckDatasetCard
  PROVE  PublishInv'
<1>1. CommandType /\ PublishTypes /\ (quiet => Faithful)  BY DEF PublishInv
<1>2. /\ \A m : RenderCard(m, Now)' = RenderCard(m, Now)
      /\ RenderDatasetCard(Now)' = RenderDatasetCard(Now)
      /\ weights' = weights /\ localDumps' = localDumps /\ head' = head
      /\ repos' = repos /\ dumpRepo' = dumpRepo
  BY NowStays DEF published
<1>3. PublishTypes'  BY <1>1, <1>2 DEF PublishTypes, OnHub
<1>4. \A m : ModelAgrees(m)' <=> ModelAgrees(m)  BY <1>2 DEF ModelAgrees
<1>5. quiet => ContextIsNow /\ CheckSoFar  BY <1>1 DEF Faithful
<1> DEFINE Kept == /\ DOMAIN command' = DOMAIN command
                   /\ command'.ctx = command.ctx /\ command'.cmd = "check" /\ command'.pc # "read"
                   /\ command.pc # "read"
           Cut == command'.drift = TRUE /\ command'.cut = TRUE
           Saw(found) == command'.cut = command.cut /\ command'.drift = IF found THEN TRUE ELSE command.drift
<1>6. ASSUME CommandType', Kept, quiet => CheckSoFar'  PROVE PublishInv'
  <2>1. quiet => ContextIsNow'  BY <1>2, <1>5, <1>6 DEF ContextIsNow
  <2> QED  BY <1>3, <1>6, <2>1 DEF PublishInv, Faithful
<1>7. ASSUME Cut  PROVE CheckSoFar'  BY <1>7 DEF CheckSoFar
<1>8. ASSUME NEW found \in BOOLEAN, Saw(found), quiet, LookedRight' <=> (LookedRight /\ ~ found)
      PROVE  CheckSoFar'
  BY <1>1, <1>5, <1>8 DEF CheckSoFar, CommandType
<1>10. ASSUME Kept, command'.drift \in BOOLEAN, command'.cut \in BOOLEAN, command'.todo \in SUBSET Models,
              command'.pc \in {"card", "folder", "ref", "done"},
              command'.pc = "folder" => command'.at \in command'.todo,
              command'.pc \in {"ref", "done"} => command'.todo = {}
       PROVE  CommandType'
  <2>1. DOMAIN command' = Fields(command'.cmd)  BY <1>1, <1>10 DEF CommandType
  <2>2. DOMAIN command'.ctx = {"commit", "shas", "cards", "dataset"}  BY <1>1, <1>10 DEF CommandType
  <2>3. command' # NoCommand  BY <1>10 DEF NoCommand
  <2> QED  BY <1>10, <2>1, <2>2, <2>3 DEF CommandType
<1>11. Cut => command'.drift \in BOOLEAN /\ command'.cut \in BOOLEAN  OBVIOUS
<1>12. ASSUME NEW found \in BOOLEAN, Saw(found)
       PROVE  command'.drift \in BOOLEAN /\ command'.cut \in BOOLEAN
  BY <1>1, <1>12 DEF CommandType
<1>9. CASE CheckFiles
  <2>1. PICK m \in command.todo :
          \/ command' = Unanswered([command EXCEPT !.todo = @ \ {m}])
          \/ command' = Drift(\E d \in PublishDtypes : repos[m].files[d] # command.ctx.shas[m][d],
                              [command EXCEPT !.pc = "folder", !.at = m])
    BY <1>9 DEF CheckFiles, Continue
  <2>2. command.pc = "card"  BY <1>9 DEF CheckFiles, AtStep
  <2>3. m \in Models  BY <1>1 DEF CommandType
  <2>4. CASE command' = Unanswered([command EXCEPT !.todo = @ \ {m}])
    <3>1. /\ Kept /\ Cut /\ command'.pc = "card" /\ command'.todo = command.todo \ {m}
      BY <1>1, <2>2, <2>4 DEF CommandType, Fields, Unanswered
    <3>2. CommandType'
      <4>1. command'.todo \in SUBSET Models  BY <1>1, <3>1 DEF CommandType
      <4>2. command'.drift \in BOOLEAN /\ command'.cut \in BOOLEAN  BY <1>11, <3>1
      <4>3. Kept /\ command'.pc = "card"  BY <3>1
      <4> QED  BY <1>10, <4>1, <4>2, <4>3
    <3> QED  BY <1>6, <1>7, <3>1, <3>2
  <2>5. CASE command' = Drift(\E d \in PublishDtypes : repos[m].files[d] # command.ctx.shas[m][d],
                              [command EXCEPT !.pc = "folder", !.at = m])
    <3> DEFINE found == \E d \in PublishDtypes : repos[m].files[d] # command.ctx.shas[m][d]
    <3>0. found \in BOOLEAN /\ command' = Drift(found, [command EXCEPT !.pc = "folder", !.at = m])  BY <2>5
    <3> HIDE DEF found
    <3>1. /\ Kept /\ Saw(found) /\ command'.pc = "folder" /\ command'.todo = command.todo /\ command'.at = m
      BY <1>1, <2>2, <3>0 DEF CommandType, Fields, Drift
    <3>2. CommandType'  BY <1>1, <1>10, <1>12, <3>1 DEF CommandType
    <3>3. ASSUME quiet  PROVE CheckSoFar'
      <4>1. found <=> repos[m].files # weights[m]
        <5>1. repos[m].files \in [PublishDtypes -> Stored] /\ weights[m] \in [PublishDtypes -> Stored]
          BY <1>1, <2>3 DEF PublishTypes, OnHub
        <5>2. command.ctx.shas = weights  BY <1>5, <3>3 DEF ContextIsNow
        <5> QED  BY <5>1, <5>2 DEF found
      <4>2. LookedRight' <=> (LookedRight /\ repos[m].files = weights[m])
        BY <1>2, <1>4, <2>2, <3>1 DEF LookedRight, DoneAgrees
      <4>3. LookedRight' <=> (LookedRight /\ ~ found)  BY <4>1, <4>2
      <4> QED  BY <1>8, <3>0, <3>1, <3>3, <4>3
    <3> QED  BY <1>6, <3>1, <3>2, <3>3
  <2> QED  BY <2>1, <2>4, <2>5
<1>13. CASE CheckCard
  <2> DEFINE m == command.at
             found == repos[m].card # command.ctx.cards[m]
  <2>1. command.pc = "folder" /\ (command' = Drift(found, NextModel) \/ command' = Unanswered(NextModel))
    BY <1>13 DEF CheckCard, Continue, AtStep
  <2>2. m \in Models /\ m \in command.todo /\ found \in BOOLEAN  BY <1>1, <2>1 DEF CommandType
  <2> HIDE DEF m, found
  <2>3. NextModel = [command EXCEPT !.pc = "card", !.todo = @ \ {m}, !.at = 0]  BY DEF NextModel, m
  <2>4. /\ Kept /\ command'.pc = "card" /\ command'.todo = command.todo \ {m}
        /\ command' = Drift(found, NextModel) => Saw(found)
        /\ command' = Unanswered(NextModel) => Cut
    BY <1>1, <2>1, <2>3 DEF CommandType, Fields, Drift, Unanswered
  <2>5. CommandType'
    <3>1. command'.todo \in SUBSET Models  BY <1>1, <2>4 DEF CommandType
    <3>2. command'.drift \in BOOLEAN /\ command'.cut \in BOOLEAN  BY <1>11, <1>12, <2>1, <2>2, <2>4
    <3>3. Kept /\ command'.pc = "card"  BY <2>4
    <3> QED  BY <1>10, <3>1, <3>2, <3>3
  <2>6. CASE command' = Unanswered(NextModel)  BY <1>6, <1>7, <2>4, <2>5, <2>6
  <2>7. CASE command' = Drift(found, NextModel)
    <3>1. ASSUME quiet  PROVE CheckSoFar'
      <4>1. found <=> repos[m].card # RenderCard(m, Now)
        BY <1>5, <2>1, <2>2, <3>1 DEF ContextIsNow, found
      <4>2. ModelAgrees(m) <=> repos[m].files = weights[m] /\ ~ found  BY <1>1, <2>2, <4>1, Aligned
      <4>3. LookedRight <=> DoneAgrees /\ repos[m].files = weights[m]  BY <2>1 DEF LookedRight, m
      <4>4. LookedRight' <=> DoneAgrees'  BY <2>4 DEF LookedRight
      <4>5. DoneAgrees' <=> DoneAgrees /\ ModelAgrees(m)  BY <1>4, <2>2, <2>4 DEF DoneAgrees
      <4>6. LookedRight' <=> (LookedRight /\ ~ found)  BY <4>2, <4>3, <4>4, <4>5
      <4> QED  BY <1>8, <2>2, <2>4, <2>7, <3>1, <4>6
    <3> QED  BY <1>6, <2>4, <2>5, <3>1
  <2> QED  BY <2>1, <2>6, <2>7
<1>14. ASSUME NEW pc \in {"ref", "done"}, command.pc # "folder", command.pc # "read", command.todo = {},
              NEW found \in BOOLEAN, command' = Drift(found, To(pc)) \/ command' = Unanswered(To(pc)),
              quiet /\ command'.pc = pc /\ command'.todo = {} => (LookedRight' <=> (LookedRight /\ ~ found))
       PROVE  PublishInv'
  <2>1. /\ Kept /\ command'.pc = pc /\ command'.todo = {}
        /\ command' = Drift(found, To(pc)) => Saw(found)
        /\ command' = Unanswered(To(pc)) => Cut
    BY <1>1, <1>14 DEF CommandType, Fields, Drift, Unanswered, To
  <2>2. CommandType'
    <3>1. command'.drift \in BOOLEAN /\ command'.cut \in BOOLEAN  BY <1>11, <1>12, <1>14, <2>1
    <3> QED  BY <1>10, <1>14, <2>1, <3>1
  <2>3. quiet => CheckSoFar'
    <3>1. CASE command' = Unanswered(To(pc))  BY <1>7, <2>1, <3>1
    <3>2. CASE command' = Drift(found, To(pc))  BY <1>8, <1>14, <2>1, <3>2
    <3> QED  BY <1>14, <3>1, <3>2
  <2> QED  BY <1>6, <2>1, <2>2, <2>3
<1>15. CASE CheckRefs
  <2> DEFINE found == dumpRepo.files # localDumps
  <2>1. /\ command.pc = "card" /\ command.todo = {} /\ found \in BOOLEAN
        /\ command' = Drift(found, To("ref")) \/ command' = Unanswered(To("ref"))
    BY <1>15 DEF CheckRefs, Continue, AtStep, ModelsDone
  <2>2. ASSUME command'.pc = "ref", command'.todo = {}
        PROVE  LookedRight' <=> (LookedRight /\ ~ found)
    <3>1. DoneAgrees' <=> DoneAgrees  BY <1>4, <2>1, <2>2 DEF DoneAgrees
    <3>2. LookedRight <=> DoneAgrees  BY <2>1 DEF LookedRight
    <3>3. LookedRight' <=> DoneAgrees' /\ ~ found  BY <1>2, <2>2 DEF LookedRight
    <3> QED  BY <3>1, <3>2, <3>3
  <2> HIDE DEF found
  <2> QED  BY <1>14, <2>1, <2>2
<1>16. CASE CheckDatasetCard
  <2> DEFINE found == dumpRepo.card # command.ctx.dataset
  <2>1. /\ command.pc = "ref" /\ command.todo = {} /\ found \in BOOLEAN
        /\ command' = Drift(found, To("done")) \/ command' = Unanswered(To("done"))
    BY <1>1, <1>16 DEF CheckDatasetCard, Continue, AtStep, CommandType
  <2>2. ASSUME quiet, command'.pc = "done", command'.todo = {}
        PROVE  LookedRight' <=> (LookedRight /\ ~ found)
    <3>1. DoneAgrees' <=> DoneAgrees  BY <1>4, <2>1, <2>2 DEF DoneAgrees
    <3>2. LookedRight <=> DoneAgrees /\ dumpRepo.files = localDumps  BY <2>1 DEF LookedRight
    <3>3. LookedRight' <=> DoneAgrees' /\ dumpRepo.files = localDumps /\ dumpRepo.card = RenderDatasetCard(Now)
      BY <1>2, <2>2 DEF LookedRight
    <3>4. found <=> dumpRepo.card # RenderDatasetCard(Now)  BY <1>5, <2>1, <2>2 DEF ContextIsNow
    <3> QED  BY <3>1, <3>2, <3>3, <3>4
  <2> HIDE DEF found
  <2> QED  BY <1>14, <2>1, <2>2
<1> QED  BY <1>9, <1>13, <1>15, <1>16

(* While nothing else changes the tree, the commit or the hub, the context   *)
(* build_context took is that of now, what an upload of everything has sent  *)
(* is what should be there, and a check has found drift exactly where        *)
(* something it has looked at is not.                                        *)
THEOREM PublishInvHolds == PublishSpec => []PublishInv
<1>1. PublishInit => PublishInv
  <2> SUFFICES ASSUME PublishInit  PROVE PublishTypes /\ command = NoCommand  BY DEF PublishInv
  <2> QED  BY DEF PublishInit, PublishTypes, OnHub, Stored, NoCard
<1>2. PublishInv /\ [PublishNext]_publishVars => PublishInv'
  <2> SUFFICES ASSUME PublishInv, [PublishNext]_publishVars  PROVE PublishInv'  OBVIOUS
  <2>0. PublishTypes  BY DEF PublishInv
  <2>1. ASSUME NEW p, BuildContext(p), DOMAIN p = Fields(p.cmd), p.cmd \in {"upload", "check"},
               p.pc = "read", p.ctx = NoContext, p.todo \in SUBSET Models,
               p.cmd = "upload" => p.fixtures \in BOOLEAN /\ p.all \in BOOLEAN,
               p.cmd = "upload" /\ p.all => p.fixtures /\ p.todo = Models,
               p.cmd = "check" => p.drift = FALSE /\ p.cut = FALSE /\ p.todo = Models
        PROVE  PublishInv'
    <3>1. /\ UNCHANGED <<onDisk, published>> /\ command = NoCommand
          /\ \/ command' = NoCommand
             \/ /\ \A m \in Models, d \in PublishDtypes : weights[m][d] # Absent
                /\ command' = [p EXCEPT !.ctx.commit = head, !.ctx.shas = weights]
          /\ quiet' = TRUE
      BY <2>1 DEF BuildContext
    <3>2. PublishTypes'  BY <2>0, <3>1 DEF PublishTypes, OnHub, onDisk, published
    <3>3. CASE command' = NoCommand  BY <3>2, <3>3 DEF PublishInv
    <3>4. CASE /\ \A m \in Models, d \in PublishDtypes : weights[m][d] # Absent
               /\ command' = [p EXCEPT !.ctx.commit = head, !.ctx.shas = weights]
      <4>1. /\ DOMAIN command' = DOMAIN p /\ command'.cmd = p.cmd /\ command'.pc = "read"
            /\ command'.todo = p.todo
            /\ command'.ctx = [commit |-> head, shas |-> weights, cards |-> 0, dataset |-> 0]
        <5> DEFINE x == [commit |-> head, shas |-> weights, cards |-> 0, dataset |-> 0]
        <5>1. {"cmd", "pc", "ctx", "todo"} \subseteq DOMAIN p  BY <2>1 DEF Fields
        <5>2. [[p.ctx EXCEPT !.commit = head] EXCEPT !.shas = weights] = x
          <6>1. [p.ctx EXCEPT !.commit = head] = [commit |-> head, shas |-> 0, cards |-> 0, dataset |-> 0]
            <7>1. p.ctx = NoContext  BY <2>1
            <7> QED  BY <7>1 DEF NoContext
          <6>2. [[commit |-> head, shas |-> 0, cards |-> 0, dataset |-> 0] EXCEPT !.shas = weights] = x
            OBVIOUS
          <6> QED  BY <6>1, <6>2
        <5>3. command' = [p EXCEPT !.ctx = x]
          BY <3>4, <5>1, <5>2
        <5> HIDE DEF x
        <5>4. command'.ctx = x /\ DOMAIN command' = DOMAIN p /\ command'.cmd = p.cmd
              /\ command'.pc = p.pc /\ command'.todo = p.todo
          BY <5>1, <5>3
        <5> QED  BY <2>1, <5>4 DEF x
      <4>2. p.cmd = "upload" => command'.fixtures = p.fixtures /\ command'.all = p.all
        BY <2>1, <3>4 DEF Fields
      <4>3. p.cmd = "check" => command'.drift = FALSE /\ command'.cut = FALSE
        BY <2>1, <3>4 DEF Fields
      <4>4. CommandType'
        <5>1. DOMAIN command'.ctx = {"commit", "shas", "cards", "dataset"}  BY <4>1
        <5>2. command' # NoCommand  BY <4>1 DEF NoCommand
        <5>3. command'.cmd = "upload" => command'.fixtures \in BOOLEAN /\ command'.all \in BOOLEAN
          BY <2>1, <4>1, <4>2
        <5>4. command'.cmd = "check" => command'.drift \in BOOLEAN /\ command'.cut \in BOOLEAN
          BY <4>1, <4>3
        <5>5. command'.todo \in SUBSET Models /\ command'.cmd \in {"upload", "check"}
              /\ DOMAIN command' = Fields(command'.cmd) /\ command'.pc = "read"
          BY <2>1, <4>1
        <5> QED  BY <5>1, <5>2, <5>3, <5>4, <5>5 DEF CommandType
      <4>5. ContextIsNow'
        <5>1. command'.ctx.commit = head /\ command'.ctx.shas = weights  BY <4>1
        <5>2. weights' = weights /\ head' = head  BY <3>1 DEF onDisk
        <5> QED  BY <3>4, <4>1, <5>1, <5>2 DEF ContextIsNow
      <4>6. ASSUME p.cmd = "upload", command'.all  PROVE UploadSoFar'
        <5>1. command'.fixtures /\ command'.todo = Models  BY <2>1, <4>1, <4>2, <4>6
        <5> QED  BY <4>1, <5>1 DEF UploadSoFar, DoneAgrees
      <4>7. ASSUME p.cmd = "check"  PROVE CheckSoFar'
        <5>1. command'.todo = Models /\ ~ command'.drift /\ ~ command'.cut  BY <2>1, <4>1, <4>3, <4>7
        <5>2. LookedRight'  BY <4>1, <5>1 DEF LookedRight, DoneAgrees
        <5> QED  BY <5>1, <5>2 DEF CheckSoFar
      <4> QED  BY <3>2, <4>1, <4>4, <4>5, <4>6, <4>7 DEF PublishInv, Faithful
    <3> QED  BY <3>1, <3>3, <3>4
  <2>2. CASE StartPublish
    <3>1. PICK names \in SUBSET Models, fixtures \in BOOLEAN :
            LET models == IF names = {} THEN Models ELSE names
                dumps == fixtures \/ names = {}
            IN BuildContext([cmd |-> "upload", pc |-> "read", ctx |-> NoContext, todo |-> models, at |-> 0,
                             fixtures |-> dumps, all |-> models = Models /\ dumps])
      BY <2>2 DEF StartPublish
    <3> DEFINE models == IF names = {} THEN Models ELSE names
               dumps == fixtures \/ names = {}
               whole == models = Models /\ dumps
    <3>2. models \in SUBSET Models /\ dumps \in BOOLEAN /\ whole \in BOOLEAN /\ (whole => dumps /\ models = Models)
      OBVIOUS
    <3>3. BuildContext([cmd |-> "upload", pc |-> "read", ctx |-> NoContext, todo |-> models, at |-> 0,
                        fixtures |-> dumps, all |-> whole])
      BY <3>1
    <3> HIDE DEF models, dumps, whole
    <3> DEFINE p == [cmd |-> "upload", pc |-> "read", ctx |-> NoContext, todo |-> models, at |-> 0,
                     fixtures |-> dumps, all |-> whole]
    <3>4. /\ DOMAIN p = Fields(p.cmd) /\ p.cmd = "upload" /\ p.pc = "read" /\ p.ctx = NoContext
          /\ p.todo = models
      BY DEF Fields
    <3>5. p.fixtures \in BOOLEAN /\ p.all \in BOOLEAN /\ (p.all => p.fixtures /\ p.todo = Models)  BY <3>2
    <3>6. BuildContext(p)  BY <3>3
    <3> HIDE DEF p
    <3> QED  BY <2>1, <3>2, <3>4, <3>5, <3>6
  <2>3. CASE StartCheck
    <3> DEFINE p == [cmd |-> "check", pc |-> "read", ctx |-> NoContext, todo |-> Models, at |-> 0,
                     drift |-> FALSE, cut |-> FALSE]
    <3>1. BuildContext(p)  BY <2>3 DEF StartCheck
    <3>2. /\ DOMAIN p = Fields(p.cmd) /\ p.cmd = "check" /\ p.pc = "read" /\ p.ctx = NoContext
          /\ p.todo = Models /\ p.drift = FALSE /\ p.cut = FALSE
      BY DEF Fields
    <3> HIDE DEF p
    <3>3. Models \in SUBSET Models  OBVIOUS
    <3> QED  BY <2>1, <3>1, <3>2, <3>3
  <2>4. CASE WriteCards
    <3> DEFINE ctx == [commit |-> command.ctx.commit, shas |-> command.ctx.shas, artifacts |-> tree]
               cards == [m \in Models |-> RenderCard(m, ctx)]
               listed == RenderDatasetCard(ctx)
    <3>1. /\ command.pc = "read" /\ quiet' = quiet /\ UNCHANGED <<onDisk, published>>
          /\ command' = [command EXCEPT !.pc = "card", !.ctx.cards = cards, !.ctx.dataset = listed]
      BY <2>4 DEF WriteCards, Continue, ReadArtifacts
    <3>2. command # NoCommand  BY <3>1 DEF NoCommand
    <3>3. CommandType /\ (quiet => Faithful)  BY <3>2 DEF PublishInv
    <3> HIDE DEF cards, listed
    <3>4. /\ DOMAIN command' = DOMAIN command /\ command'.cmd = command.cmd /\ command'.pc = "card"
          /\ command'.todo = command.todo /\ DOMAIN command'.ctx = DOMAIN command.ctx
          /\ command'.ctx.commit = command.ctx.commit /\ command'.ctx.shas = command.ctx.shas
          /\ command'.ctx.cards = cards /\ command'.ctx.dataset = listed
      BY <3>1, <3>3 DEF CommandType, Fields
    <3>5. command.cmd = "upload" => command'.fixtures = command.fixtures /\ command'.all = command.all
      BY <3>1, <3>3 DEF CommandType, Fields
    <3>6. command.cmd = "check" => command'.drift = command.drift /\ command'.cut = command.cut
      BY <3>1, <3>3 DEF CommandType, Fields
    <3>7. CommandType'
      <4>1. command' # NoCommand  BY <3>4 DEF NoCommand
      <4>2. command'.cmd = "upload" => command'.fixtures \in BOOLEAN /\ command'.all \in BOOLEAN
        BY <3>3, <3>4, <3>5 DEF CommandType
      <4>3. command'.cmd = "check" => command'.drift \in BOOLEAN /\ command'.cut \in BOOLEAN
        BY <3>3, <3>4, <3>6 DEF CommandType
      <4> QED  BY <3>3, <3>4, <4>1, <4>2, <4>3 DEF CommandType
    <3>8. PublishTypes'  BY <2>0, <3>1 DEF PublishTypes, OnHub, onDisk, published
    <3>9. /\ \A m : RenderCard(m, Now)' = RenderCard(m, Now)
          /\ RenderDatasetCard(Now)' = RenderDatasetCard(Now)
          /\ weights' = weights /\ localDumps' = localDumps /\ head' = head
      BY <3>1, NowStays
    <3>10. \A m : ModelAgrees(m)' <=> ModelAgrees(m)  BY <3>1, <3>9 DEF ModelAgrees, published
    <3>11. DoneAgrees' <=> DoneAgrees  BY <3>4, <3>10 DEF DoneAgrees
    <3>12. ASSUME quiet  PROVE Faithful'
      <4>1. ctx = Now  BY <3>3, <3>12 DEF Faithful, ContextIsNow, Now
      <4>2. listed = RenderDatasetCard(Now)  BY <4>1 DEF listed
      <4>3. \A m \in Models : cards[m] = RenderCard(m, Now)
        <5> HIDE DEF ctx
        <5> QED  BY <4>1 DEF cards
      <4>4. ContextIsNow'  BY <3>3, <3>4, <3>9, <3>12, <4>2, <4>3 DEF Faithful, ContextIsNow
      <4>5. ASSUME command.cmd = "upload", command'.all  PROVE UploadSoFar'
        <5>1. UploadSoFar  BY <3>3, <3>5, <3>12, <4>5 DEF Faithful
        <5> QED  BY <3>4, <3>5, <3>11, <4>5, <5>1 DEF UploadSoFar
      <4>6. ASSUME command.cmd = "check"  PROVE CheckSoFar'
        <5>1. CheckSoFar  BY <3>3, <3>12, <4>6 DEF Faithful
        <5>2. LookedRight' <=> LookedRight  BY <3>1, <3>4, <3>11 DEF LookedRight
        <5> QED  BY <3>6, <4>6, <5>1, <5>2 DEF CheckSoFar
      <4> QED  BY <3>4, <4>4, <4>5, <4>6 DEF Faithful
    <3> QED  BY <3>1, <3>7, <3>8, <3>12 DEF PublishInv
  <2>5. CASE PublishCard \/ UploadFolder \/ UploadDatasetCard \/ UploadRefs
    <3>1. UNCHANGED onDisk /\ quiet' = quiet /\ command.cmd = "upload" /\ command.pc # "idle"
      BY <2>5 DEF PublishCard, UploadFolder, UploadDatasetCard, UploadRefs, Continue, AtStep
    <3> QED  BY <2>5, <3>1, UploadStep DEF NoCommand
  <2>6. CASE CheckFiles \/ CheckCard \/ CheckRefs \/ CheckDatasetCard
    <3>1. /\ UNCHANGED onDisk /\ UNCHANGED published /\ quiet' = quiet
          /\ command.cmd = "check" /\ command.pc # "idle"
      BY <2>6 DEF CheckFiles, CheckCard, CheckRefs, CheckDatasetCard, Continue, AtStep
    <3> QED  BY <2>6, <3>1, CheckStep DEF NoCommand
  <2>7. CASE FinishPublish \/ FinishCheck \/ Abort
    <3>1. command' = NoCommand /\ quiet' = quiet /\ UNCHANGED <<onDisk, published>>
      BY <2>7 DEF FinishPublish, FinishCheck, Abort, Continue
    <3> QED  BY <2>0, <3>1 DEF PublishInv, PublishTypes, OnHub, onDisk, published
  <2>8. CASE Reconvert \/ Redump \/ Remeasure \/ Commit \/ BatchUpload
    <3>1. command' = command /\ quiet' = FALSE
      BY <2>8 DEF Reconvert, Redump, Remeasure, Commit, BatchUpload, Change
    <3>2. PublishTypes'
      <4>1. CASE Reconvert
        <5>1. PICK m \in Models, d \in PublishDtypes, c \in Stored : weights' = [weights EXCEPT ![m][d] = c]
          BY <4>1 DEF Reconvert, Change, Stored
        <5>2. weights' \in [Models -> [PublishDtypes -> Stored]]  BY <2>0, <5>1 DEF PublishTypes
        <5>3. UNCHANGED <<localDumps, repos, dumpRepo>>  BY <4>1 DEF Reconvert, Change, published
        <5> QED  BY <2>0, <3>1, <5>2, <5>3 DEF PublishTypes, OnHub
      <4>2. CASE Redump
        <5>1. PICK r \in Refs, c \in Stored : localDumps' = [localDumps EXCEPT ![r] = c]
          BY <4>2 DEF Redump, Change, Stored
        <5>2. UNCHANGED <<weights, repos, dumpRepo>>  BY <4>2 DEF Redump, Change, published
        <5> QED  BY <2>0, <3>1, <5>1, <5>2 DEF PublishTypes, OnHub
      <4>3. CASE Remeasure \/ Commit
        <5>1. UNCHANGED <<weights, localDumps, repos, dumpRepo>>
          BY <4>3 DEF Remeasure, Commit, Change, published
        <5> QED  BY <2>0, <3>1, <5>1 DEF PublishTypes, OnHub
      <4>4. CASE BatchUpload
        <5>1. PICK r \in Refs : dumpRepo' = [dumpRepo EXCEPT !.files[r] = localDumps[r]]
          BY <4>4 DEF BatchUpload, Change
        <5>2. dumpRepo' = [files |-> [dumpRepo.files EXCEPT ![r] = localDumps[r]], card |-> dumpRepo.card]
          BY <2>0, <5>1 DEF PublishTypes, OnHub
        <5>3. UNCHANGED <<weights, localDumps, repos>>  BY <4>4 DEF BatchUpload, Change, onDisk
        <5>4. [dumpRepo.files EXCEPT ![r] = localDumps[r]] \in [Refs -> Stored]
          BY <2>0 DEF PublishTypes, OnHub
        <5> QED  BY <2>0, <3>1, <5>2, <5>3, <5>4 DEF PublishTypes, OnHub
      <4> QED  BY <2>8, <4>1, <4>2, <4>3, <4>4
    <3>3. CommandType' <=> CommandType  BY <3>1 DEF CommandType
    <3> QED  BY <3>1, <3>2, <3>3 DEF PublishInv
  <2>9. CASE UNCHANGED publishVars
    <3>1. UNCHANGED onDisk /\ command' = command /\ quiet' = quiet /\ repos' = repos /\ dumpRepo' = dumpRepo
      BY <2>9 DEF publishVars, onDisk
    <3>2. /\ \A m : RenderCard(m, Now)' = RenderCard(m, Now)
          /\ RenderDatasetCard(Now)' = RenderDatasetCard(Now)
          /\ weights' = weights /\ localDumps' = localDumps /\ head' = head
      BY <3>1, NowStays
    <3>3. PublishTypes' /\ (CommandType' <=> CommandType)
      BY <2>0, <3>1, <3>2 DEF PublishTypes, OnHub, CommandType
    <3>4. DoneAgrees' <=> DoneAgrees  BY <3>1, <3>2 DEF DoneAgrees, ModelAgrees
    <3>5. ContextIsNow' <=> ContextIsNow  BY <3>1, <3>2 DEF ContextIsNow
    <3>6. (UploadSoFar' <=> UploadSoFar) /\ (LookedRight' <=> LookedRight)
      BY <3>1, <3>2, <3>4 DEF UploadSoFar, LookedRight
    <3>7. Faithful' <=> Faithful  BY <3>1, <3>5, <3>6 DEF Faithful, CheckSoFar
    <3> QED  BY <3>1, <3>3, <3>7 DEF PublishInv
  <2> QED  BY <2>2, <2>3, <2>4, <2>5, <2>6, <2>7, <2>8, <2>9 DEF PublishNext
<1> QED  BY <1>1, <1>2, PTL DEF PublishSpec

(* A check during which nothing changed says "no drift" only when the hub    *)
(* agrees with the files and cards of now, and drift only when it does not   *)
(* or could not be asked.                                                    *)
THEOREM ChecksAreRight == PublishSpec => CheckIsRight
<1> DEFINE Right ==
             FinishCheck /\ quiet =>
               LET agrees == DatasetAgrees /\ \A m \in Models : ModelAgrees(m) IN
               (~command.drift => agrees) /\ (command.drift => ~agrees \/ command.cut)
<1>1. PublishInv /\ [PublishNext]_publishVars => [Right]_publishVars
  <2> SUFFICES ASSUME PublishInv, FinishCheck, quiet
               PROVE  LET agrees == DatasetAgrees /\ \A m \in Models : ModelAgrees(m) IN
                      (~command.drift => agrees) /\ (command.drift => ~agrees \/ command.cut)
    OBVIOUS
  <2>1. command.pc = "done" /\ command.cmd = "check"  BY DEF FinishCheck, AtStep
  <2>2. CommandType /\ PublishTypes /\ CheckSoFar  BY <2>1 DEF PublishInv, NoCommand, Faithful
  <2>3. command.todo = {}  BY <2>1, <2>2 DEF CommandType
  <2>4. DatasetAgrees <=> dumpRepo.files = localDumps /\ dumpRepo.card = RenderDatasetCard(Now)
    <3> DEFINE c == RenderDatasetCard(Now)
    <3>1. dumpRepo = [files |-> dumpRepo.files, card |-> dumpRepo.card]  BY <2>2 DEF PublishTypes, OnHub
    <3>2. DatasetAgrees <=> dumpRepo = [files |-> localDumps, card |-> c]  BY DEF DatasetAgrees
    <3> HIDE DEF c
    <3>3. dumpRepo = [files |-> localDumps, card |-> c] <=> dumpRepo.files = localDumps /\ dumpRepo.card = c
      BY <3>1
    <3> QED  BY <3>2, <3>3 DEF c
  <2>5. LookedRight <=> DatasetAgrees /\ \A m \in Models : ModelAgrees(m)
    BY <2>1, <2>3, <2>4 DEF LookedRight, DoneAgrees
  <2>6. (~ command.drift => LookedRight) /\ (command.drift => ~ LookedRight \/ command.cut)
    BY <2>2 DEF CheckSoFar
  <2> QED  BY <2>5, <2>6
<1>2. CheckIsRight <=> [][Right]_publishVars  BY DEF CheckIsRight
<1> HIDE DEF Right
<1> QED  BY <1>1, <1>2, PublishInvHolds, PTL DEF PublishSpec

(* An upload of everything during which nothing changed leaves every model   *)
(* repository, the dataset card and every local dump as they are here,       *)
(* whatever an interrupted upload had left on the hub.                       *)
THEOREM UploadsSettle == PublishSpec => UploadSettles
<1> DEFINE Settled ==
             FinishPublish /\ quiet /\ command.all =>
               /\ \A m \in Models : ModelAgrees(m)
               /\ dumpRepo.card = RenderDatasetCard(Now)
               /\ \A r \in Refs : localDumps[r] # Absent => dumpRepo.files[r] = localDumps[r]
<1>1. PublishInv /\ [PublishNext]_publishVars => [Settled]_publishVars
  <2> SUFFICES ASSUME PublishInv, FinishPublish, quiet, command.all
               PROVE  /\ \A m \in Models : ModelAgrees(m)
                      /\ dumpRepo.card = RenderDatasetCard(Now)
                      /\ \A r \in Refs : localDumps[r] # Absent => dumpRepo.files[r] = localDumps[r]
    OBVIOUS
  <2>1. command.cmd = "upload" /\ (command.pc = "done" \/ (command.pc = "card" /\ ~ command.fixtures))
    BY DEF FinishPublish, AtStep
  <2>2. CommandType /\ UploadSoFar  BY <2>1 DEF PublishInv, NoCommand, Faithful
  <2>3. command.pc = "done" /\ command.todo = {}  BY <2>1, <2>2 DEF UploadSoFar, CommandType
  <2> QED  BY <2>2, <2>3 DEF UploadSoFar, DoneAgrees
<1>2. UploadSettles <=> [][Settled]_publishVars  BY DEF UploadSettles
<1> HIDE DEF Settled
<1> QED  BY <1>1, <1>2, PublishInvHolds, PTL DEF PublishSpec

-----------------------------------------------------------------------------
(* Sequences of three and four names.                                        *)
LEMMA AppendedThree == ASSUME NEW a, NEW b, NEW c, NEW d PROVE Append(<<a, b, c>>, d) = <<a, b, c, d>>
<1> DEFINE S == {a, b, c, d}
           s == <<a, b, c>>
           t == <<a, b, c, d>>
<1>1. s \in Seq(S) /\ d \in S /\ t \in Seq(S)  OBVIOUS
<1>2. Len(s) = 3 /\ Len(t) = 4 /\ t[4] = d /\ \A i \in 1..3 : t[i] = s[i]  OBVIOUS
<1> HIDE DEF S, s, t
<1> DEFINE u == Append(s, d)
<1>3. /\ u \in Seq(S) /\ Len(u) = Len(s) + 1 /\ u[Len(s) + 1] = d
      /\ \A i \in 1..Len(s) : u[i] = s[i]
  BY <1>1, AppendProperties
<1> HIDE DEF u
<1>4. \A i \in 1..4 : u[i] = t[i]
  <2> TAKE i \in 1..4
  <2>1. i = 4 \/ i \in 1..3  OBVIOUS
  <2> QED  BY <1>2, <1>3, <2>1
<1>5. \A v \in Seq(S) : Len(v) = Len(t) /\ (\A i \in 1..Len(t) : v[i] = t[i]) => v = t
  BY <1>1, SeqEqual
<1>6. u = t  BY <1>2, <1>3, <1>4, <1>5
<1> QED  BY <1>6 DEF s, t, u

LEMMA AppendedFour == ASSUME NEW a, NEW b, NEW c, NEW d, NEW e PROVE Append(<<a, b, c, d>>, e) = <<a, b, c, d, e>>
<1> DEFINE S == {a, b, c, d, e}
           s == <<a, b, c, d>>
           t == <<a, b, c, d, e>>
<1>1. s \in Seq(S) /\ e \in S /\ t \in Seq(S)  OBVIOUS
<1>2. Len(s) = 4 /\ Len(t) = 5 /\ t[5] = e /\ \A i \in 1..4 : t[i] = s[i]  OBVIOUS
<1> HIDE DEF S, s, t
<1> DEFINE u == Append(s, e)
<1>3. /\ u \in Seq(S) /\ Len(u) = Len(s) + 1 /\ u[Len(s) + 1] = e
      /\ \A i \in 1..Len(s) : u[i] = s[i]
  BY <1>1, AppendProperties
<1> HIDE DEF u
<1>4. \A i \in 1..5 : u[i] = t[i]
  <2> TAKE i \in 1..5
  <2>1. i = 5 \/ i \in 1..4  OBVIOUS
  <2> QED  BY <1>2, <1>3, <2>1
<1>5. \A v \in Seq(S) : Len(v) = Len(t) /\ (\A i \in 1..Len(t) : v[i] = t[i]) => v = t
  BY <1>1, SeqEqual
<1>6. u = t  BY <1>2, <1>3, <1>4, <1>5
<1> QED  BY <1>6 DEF s, t, u

LEMMA ConcatThree == ASSUME NEW a, NEW b, NEW c, NEW d PROVE <<a, b, c>> \o <<d>> = <<a, b, c, d>>
<1> DEFINE S == {a, b, c, d}
           s == <<a, b, c>>
<1>1. s \in Seq(S) /\ d \in S  OBVIOUS
<1> HIDE DEF S, s
<1>2. s \o <<d>> = Append(s, d)  BY <1>1, AppendIsConcat
<1>3. s \o <<d>> = Append(<<a, b, c>>, d)  BY <1>2 DEF s
<1> QED  BY <1>3, AppendedThree DEF s

(* A finite set of naturals has a greatest: HighestLayer is defined.         *)
LEMMA GreatestNatural ==
  ASSUME NEW T \in SUBSET Nat, IsFiniteSet(T), T # {}
  PROVE  \E m \in T : \A x \in T : x <= m
<1> DEFINE F == FiniteSubsetsOf(T)
           R == StrictSubsetOrdering(T)
           Above(x) == {y \in T : y > x}
           U == {Above(x) : x \in T}
<1>1. IsWellFoundedOn(R, F)  BY FS_StrictSubsetOrderingWellFounded
<1>2. U \subseteq F  BY FS_Subset DEF FiniteSubsetsOf
<1>3. U # {}  OBVIOUS
<1> HIDE DEF F, R, U
<1>4. PICK u \in U : \A v \in U : ~(<<v, u>> \in R)  BY <1>1, <1>2, <1>3, WFMin
<1>5. PICK m \in T : u = Above(m)  BY <1>4 DEF U
<1>6. ASSUME NEW x \in T, x > m  PROVE FALSE
  <2>1. Above(x) \subseteq Above(m) /\ x \in Above(m) /\ x \notin Above(x)
    <3>1. \A y \in T : y > x => y > m
      <4> TAKE y \in T
      <4>1. x \in Nat /\ y \in Nat /\ m \in Nat  OBVIOUS
      <4> QED  BY <1>6, <4>1
    <3>2. ~(x > x)
      <4>1. x \in Nat  OBVIOUS
      <4> QED  BY <4>1
    <3> QED  BY <1>6, <3>1, <3>2
  <2>2. Above(x) \in U /\ Above(x) \in SUBSET T /\ Above(m) \in SUBSET T  BY DEF U
  <2> HIDE DEF Above
  <2>3. <<Above(x), Above(m)>> \in R  BY <2>1, <2>2 DEF R, StrictSubsetOrdering
  <2> QED  BY <1>4, <1>5, <2>2, <2>3
<1>7. \A x \in T : x <= m
  <2> TAKE x \in T
  <2>1. x \in Nat /\ m \in Nat  OBVIOUS
  <2> QED  BY <1>6, <2>1
<1> QED  BY <1>7

(* Layers are counted up to the first that is missing: of a finite           *)
(* checkpoint, LayerCount is defined.                                        *)
LEMMA LayersCounted ==
  ASSUME NEW ckpt, IsFiniteSet(ckpt), NEW s, NEW role, NEW p
  PROVE  LET n == LayerCount(ckpt, s, role, p)
         IN  /\ n \in Nat
             /\ \A i \in 1..n : <<s, i, role, p>> \in ckpt
             /\ <<s, n + 1, role, p>> \notin ckpt
<1> DEFINE N == Cardinality(ckpt)
           T == {n \in 0..N : \A i \in 1..n : <<s, i, role, p>> \in ckpt}
           Counted(n) == /\ \A i \in 1..n : <<s, i, role, p>> \in ckpt
                         /\ <<s, n + 1, role, p>> \notin ckpt
<1>1. N \in Nat  BY FS_CardinalityType
<1>2. T \in SUBSET (0..N) /\ T \in SUBSET Nat  BY <1>1
<1>3. 0 \in T  BY <1>1
<1>4. IsFiniteSet(T)
  <2>1. IsFiniteSet(0..N)  BY <1>1, FS_Interval
  <2> HIDE DEF T
  <2> QED  BY <1>2, <2>1, FS_Subset
<1>5. PICK m \in T : \A x \in T : x <= m
  <2> HIDE DEF T
  <2> QED  BY <1>2, <1>3, <1>4, GreatestNatural
<1>6. m \in 0..N /\ \A i \in 1..m : <<s, i, role, p>> \in ckpt  BY <1>5
<1>7. <<s, m + 1, role, p>> \notin ckpt
  <2> SUFFICES ASSUME <<s, m + 1, role, p>> \in ckpt  PROVE FALSE  OBVIOUS
  <2>1. \A i \in 1..(m + 1) : <<s, i, role, p>> \in ckpt
    <3> TAKE i \in 1..(m + 1)
    <3>1. i \in 1..m \/ i = m + 1  BY <1>1, <1>6
    <3> QED  BY <1>6, <3>1
  <2>2. m + 1 \notin T  BY <1>1, <1>2, <1>5
  <2>3. m = N  BY <1>1, <1>6, <2>1, <2>2
  <2> DEFINE f == [i \in 1..(m + 1) |-> <<s, i, role, p>>]
  <2>4. f \in Injection(1..(m + 1), ckpt)  BY <2>1 DEF Injection, IsInjective
  <2> HIDE DEF f
  <2>5. Cardinality(1..(m + 1)) <= N  BY <2>4, FS_Injection
  <2>6. Cardinality(1..(m + 1)) = m + 1
    <3>1. m + 1 \in Int /\ 1 \in Int /\ ~ (1 > m + 1) /\ (m + 1) - 1 + 1 = m + 1  BY <1>1, <1>6
    <3> QED  BY <3>1, FS_Interval
  <2> QED  BY <1>1, <2>3, <2>5, <2>6
<1>8. \E n \in 0..N : Counted(n)  BY <1>6, <1>7
<1>9. LayerCount(ckpt, s, role, p) = CHOOSE n \in 0..N : Counted(n)  BY DEF LayerCount
<1> HIDE DEF Counted
<1>10. LayerCount(ckpt, s, role, p) \in 0..N /\ Counted(LayerCount(ckpt, s, role, p))  BY <1>8, <1>9
<1> QED  BY <1>1, <1>10 DEF Counted

-----------------------------------------------------------------------------
(* The kind of a row is a function of the name it writes: a "weight" outside *)
(* the norms is a matrix, all the rest is plain. So two rows of one name     *)
(* agree on it, and the F16 list of a file holds no plain tensor.            *)
NormRoles ==
    {"ln1", "ln2", "norm", "ln", "ln_kv", "proj_ln", "proprio_ln", "in_norm", "out_norm", "head_ln"}
PlainName(t) == t[Len(t)] # "weight" \/ t[3] \in NormRoles
Kinded(rs) == \A r \in rs : (r.kind = "plain") <=> PlainName(r.to)
Both(t) == {Append(t, "weight"), Append(t, "bias")}
Triple(t) == \E a, b, c : t = <<a, b, c>>
Quad(t) == \E a, b, c, d : t = <<a, b, c, d>>
Params == {"weight", "bias"}
Matrix == {"quant", "matrix"}

(* What each primitive of TensorRows writes, and that it is kinded.          *)
LEMMA TripleNames ==
  ASSUME NEW t, Triple(t) \/ Quad(t)
  PROVE  /\ PlainName(Append(t, "bias")) /\ PlainName(Append(t, ""))
         /\ PlainName(Append(t, "weight")) <=> (t[3] \in NormRoles)
<1>1. CASE Triple(t)
  <2>1. PICK a, b, c : t = <<a, b, c>>  BY <1>1 DEF Triple
  <2>2. \A x : Append(t, x) = <<a, b, c, x>>  BY <2>1, AppendedThree
  <2> QED  BY <2>1, <2>2 DEF PlainName
<1>2. CASE Quad(t)
  <2>1. PICK a, b, c, d : t = <<a, b, c, d>>  BY <1>2 DEF Quad
  <2>2. \A x : Append(t, x) = <<a, b, c, d, x>>  BY <2>1, AppendedFour
  <2> QED  BY <2>1, <2>2 DEF PlainName
<1> QED  BY <1>1, <1>2

LEMMA CopyWrites ==
  ASSUME NEW f, NEW t, NEW k
  PROVE  Targets(Copy(f, t, k)) = {t} /\ (((k = "plain") <=> PlainName(t)) => Kinded(Copy(f, t, k)))
BY DEF Targets, Copy, Row, Kinded

LEMMA LinearWrites ==
  ASSUME NEW f, NEW t, Triple(t) \/ Quad(t), NEW k, (k = "plain") <=> (t[3] \in NormRoles)
  PROVE  Targets(Linear(f, t, k)) = Both(t) /\ Kinded(Linear(f, t, k)) /\ Kinded(Weight(f, t, k))
         /\ Targets(Weight(f, t, k)) = {Append(t, "weight")}
<1> DEFINE w == Copy(Append(f, "weight"), Append(t, "weight"), k)
           b == Copy(Append(f, "bias"), Append(t, "bias"), "plain")
<1>1. Targets(w) = {Append(t, "weight")} /\ Kinded(w)
  <2>1. (k = "plain") <=> PlainName(Append(t, "weight"))  BY TripleNames
  <2> QED  BY <2>1, CopyWrites
<1>2. Targets(b) = {Append(t, "bias")} /\ Kinded(b)
  <2>1. PlainName(Append(t, "bias"))  BY TripleNames
  <2> QED  BY <2>1, CopyWrites
<1>3. Linear(f, t, k) = w \cup b /\ Weight(f, t, k) = w  BY DEF Linear, Weight, Bias
<1> HIDE DEF w, b
<1> QED  BY <1>1, <1>2, <1>3 DEF Targets, Kinded, Both

LEMMA NormWrites ==
  ASSUME NEW f, NEW t, Triple(t), t[3] \in NormRoles
  PROVE  Targets(Norm(f, t)) = Both(t) /\ Kinded(Norm(f, t))
BY LinearWrites DEF Norm

LEMMA PairWrites ==
  ASSUME NEW t, Triple(t) \/ Quad(t), t[3] \notin NormRoles, NEW k \in Matrix, NEW rs,
         \A r \in rs : \E p \in Params :
            r.to = Append(t, p) /\ r.kind = IF p = "weight" THEN k ELSE "plain",
         \A p \in Params : \E r \in rs : r.to = Append(t, p)
  PROVE  Targets(rs) = Both(t) /\ Kinded(rs)
<1>1. PlainName(Append(t, "bias")) /\ ~ PlainName(Append(t, "weight"))  BY TripleNames
<1>2. Kinded(rs)
  <2> SUFFICES ASSUME NEW r \in rs PROVE (r.kind = "plain") <=> PlainName(r.to)  BY DEF Kinded
  <2>1. PICK p \in Params : r.to = Append(t, p) /\ r.kind = IF p = "weight" THEN k ELSE "plain"
    OBVIOUS
  <2> QED  BY <1>1, <2>1 DEF Params, Matrix
<1>3. Targets(rs) = {Append(t, p) : p \in Params}  BY DEF Targets
<1> QED  BY <1>2, <1>3 DEF Both, Params

LEMMA FusedWrites ==
  ASSUME NEW fs, NEW t, Triple(t), t[3] \notin NormRoles
  PROVE  Targets(Fused(fs, t)) = Both(t) /\ Kinded(Fused(fs, t))
<1> DEFINE from(p) == {Append(f, p) : f \in fs}
           new(p) == Row(from(p), Append(t, p), IF p = "weight" THEN "quant" ELSE "plain")
<1>1. Fused(fs, t) = {new(p) : p \in Params}  BY DEF Fused, Params
<1> HIDE DEF from
<1>2. \A p : new(p).to = Append(t, p) /\ new(p).kind = IF p = "weight" THEN "quant" ELSE "plain"
  BY DEF Row
<1> HIDE DEF new
<1>3. /\ \A r \in Fused(fs, t) : \E p \in Params :
            r.to = Append(t, p) /\ r.kind = IF p = "weight" THEN "quant" ELSE "plain"
      /\ \A p \in Params : \E r \in Fused(fs, t) : r.to = Append(t, p)
  BY <1>1, <1>2
<1>4. "quant" \in Matrix  BY DEF Matrix
<1> QED  BY <1>3, <1>4, PairWrites

LEMMA FoldedWrites ==
  ASSUME NEW f, NEW g, NEW t, Triple(t) \/ Quad(t), t[3] \notin NormRoles
  PROVE  Targets(Folded(f, g, t)) = Both(t) /\ Kinded(Folded(f, g, t))
<1> DEFINE from(p) == {Append(f, "weight"), Append(f, "bias")} \cup {Append(g, x) : x \in BatchNorm}
           new(p) == Row(from(p), Append(t, p), IF p = "weight" THEN "quant" ELSE "plain")
<1>1. Folded(f, g, t) = {new(p) : p \in Params}  BY DEF Folded, Params
<1> HIDE DEF from
<1>2. \A p : new(p).to = Append(t, p) /\ new(p).kind = IF p = "weight" THEN "quant" ELSE "plain"
  BY DEF Row
<1> HIDE DEF new
<1>3. /\ \A r \in Folded(f, g, t) : \E p \in Params :
            r.to = Append(t, p) /\ r.kind = IF p = "weight" THEN "quant" ELSE "plain"
      /\ \A p \in Params : \E r \in Folded(f, g, t) : r.to = Append(t, p)
  BY <1>1, <1>2
<1>4. "quant" \in Matrix  BY DEF Matrix
<1> QED  BY <1>3, <1>4, PairWrites

LEMMA PairedWrites ==
  ASSUME NEW f, NEW g, NEW t, Triple(t) \/ Quad(t), t[3] \notin NormRoles
  PROVE  Targets(Paired(f, g, t)) = Both(t) /\ Kinded(Paired(f, g, t))
<1> DEFINE from(p) == {Append(h, x) : h \in {f, g}, x \in {"weight", "bias"}}
           new(p) == Row(from(p), Append(t, p), IF p = "weight" THEN "matrix" ELSE "plain")
<1>1. Paired(f, g, t) = {new(p) : p \in Params}  BY DEF Paired, Params
<1> HIDE DEF from
<1>2. \A p : new(p).to = Append(t, p) /\ new(p).kind = IF p = "weight" THEN "matrix" ELSE "plain"
  BY DEF Row
<1> HIDE DEF new
<1>3. /\ \A r \in Paired(f, g, t) : \E p \in Params :
            r.to = Append(t, p) /\ r.kind = IF p = "weight" THEN "matrix" ELSE "plain"
      /\ \A p \in Params : \E r \in Paired(f, g, t) : r.to = Append(t, p)
  BY <1>1, <1>2
<1>4. "matrix" \in Matrix  BY DEF Matrix
<1> QED  BY <1>3, <1>4, PairWrites

LEMMA UnionWrites ==
  ASSUME NEW A, NEW B
  PROVE  /\ Targets(A \cup B) = Targets(A) \cup Targets(B)
         /\ Kinded(A \cup B) <=> Kinded(A) /\ Kinded(B)
         /\ A \subseteq B => Targets(A) \subseteq Targets(B) /\ Sources(A) \subseteq Sources(B)
         /\ A \subseteq B /\ Kinded(B) => Kinded(A)
BY DEF Targets, Kinded, Sources

(* The blocks of a layer range write what BlockComplete asks for.            *)
LayerRoles == {"ln1", "ln2", "qkv", "out", "up", "down"}

LEMMA BlockWrites ==
  ASSUME NEW f, NEW s, NEW i, NEW apart \in BOOLEAN
  PROVE  /\ Kinded(Block(f, s, i, apart))
         /\ \A r \in LayerRoles : Both(<<s, i, r>>) \subseteq Targets(Block(f, s, i, apart))
<1> DEFINE from(r) == <<f, i, r>>
           to(r) == <<s, i, r>>
           attn == IF apart THEN Fused({from("q"), from("k"), from("v")}, to("qkv"))
                            ELSE Linear(from("qkv"), to("qkv"), "quant")
           n1 == Norm(from("ln1"), to("ln1"))
           n2 == Norm(from("ln2"), to("ln2"))
           o == Linear(from("out"), to("out"), "quant")
           u == Linear(from("up"), to("up"), "quant")
           d == Linear(from("down"), to("down"), "quant")
<1>1. \A r : Triple(to(r)) /\ to(r)[3] = r  BY DEF Triple
<1>2. /\ {"qkv", "out", "up", "down"} \cap NormRoles = {}
      /\ {"ln1", "ln2"} \subseteq NormRoles  BY DEF NormRoles
<1>3. Block(f, s, i, apart) = n1 \cup n2 \cup attn \cup o \cup u \cup d  BY DEF Block
<1> HIDE DEF from, to
<1>4. Targets(n1) = Both(to("ln1")) /\ Kinded(n1)  BY <1>1, <1>2, NormWrites
<1>5. Targets(n2) = Both(to("ln2")) /\ Kinded(n2)  BY <1>1, <1>2, NormWrites
<1>6. Targets(attn) = Both(to("qkv")) /\ Kinded(attn)
  <2>1. CASE apart  BY <2>1, <1>1, <1>2, FusedWrites
  <2>2. CASE ~ apart
    <3>1. to("qkv")[3] \notin NormRoles  BY <1>1, <1>2
    <3> QED  BY <2>2, <3>1, <1>1, LinearWrites
  <2> QED  BY <2>1, <2>2
<1>7. Targets(o) = Both(to("out")) /\ Kinded(o)
  <2>1. to("out")[3] \notin NormRoles  BY <1>1, <1>2
  <2> QED  BY <2>1, <1>1, LinearWrites
<1>8. Targets(u) = Both(to("up")) /\ Kinded(u)
  <2>1. to("up")[3] \notin NormRoles  BY <1>1, <1>2
  <2> QED  BY <2>1, <1>1, LinearWrites
<1>9. Targets(d) = Both(to("down")) /\ Kinded(d)
  <2>1. to("down")[3] \notin NormRoles  BY <1>1, <1>2
  <2> QED  BY <2>1, <1>1, LinearWrites
<1> HIDE DEF n1, n2, attn, o, u, d
<1>10. Kinded(Block(f, s, i, apart))  BY <1>3, <1>4, <1>5, <1>6, <1>7, <1>8, <1>9 DEF Kinded
<1>11. \A r \in LayerRoles : Both(to(r)) \subseteq Targets(Block(f, s, i, apart))
  <2>1. {n1, n2, attn, o, u, d} \subseteq SUBSET Block(f, s, i, apart)  BY <1>3
  <2>2. \A x \in {n1, n2, attn, o, u, d} : Targets(x) \subseteq Targets(Block(f, s, i, apart))
    BY <2>1 DEF Targets
  <2> QED  BY <2>2, <1>4, <1>5, <1>6, <1>7, <1>8, <1>9 DEF LayerRoles
<1> QED  BY <1>10, <1>11 DEF to

LEMMA BlocksWrite ==
  ASSUME NEW f, NEW s, NEW n, NEW apart \in BOOLEAN
  PROVE  /\ Kinded(Blocks(f, s, n, apart))
         /\ \A rs : Blocks(f, s, n, apart) \subseteq rs =>
               \A i \in 1..n : Weights(s, i, LayerRoles) \subseteq Targets(rs)
<1>1. Kinded(Blocks(f, s, n, apart))  BY BlockWrites DEF Blocks, Kinded
<1>2. ASSUME NEW rs, Blocks(f, s, n, apart) \subseteq rs, NEW i \in 1..n, NEW r \in LayerRoles
      PROVE  <<s, i, r, "weight">> \in Targets(rs)
  <2>1. Append(<<s, i, r>>, "weight") \in Targets(Block(f, s, i, apart))  BY BlockWrites DEF Both
  <2>2. Block(f, s, i, apart) \subseteq rs  BY <1>2 DEF Blocks
  <2>3. <<s, i, r, "weight">> \in Targets(Block(f, s, i, apart))  BY <2>1, AppendedThree
  <2> QED  BY <2>2, <2>3 DEF Targets
<1> QED  BY <1>1, <1>2 DEF Weights

(* The tensors outside the layers.                                           *)
LEMMA TokenWrites ==
  ASSUME NEW f, NEW a, NEW b, NEW c
  PROVE  Targets(Copy(f, <<a, b, c, "">>, "plain")) = {<<a, b, c, "">>}
         /\ Kinded(Copy(f, <<a, b, c, "">>, "plain"))
<1>1. PlainName(<<a, b, c, "">>)  BY DEF PlainName
<1> QED  BY <1>1, CopyWrites

LEMMA MatrixWrites ==
  ASSUME NEW f, NEW a, NEW b, NEW c, c \notin NormRoles, NEW k \in Matrix
  PROVE  /\ Kinded(Linear(f, <<a, b, c>>, k)) /\ Kinded(Weight(f, <<a, b, c>>, k))
         /\ <<a, b, c, "weight">> \in Targets(Linear(f, <<a, b, c>>, k))
         /\ <<a, b, c, "weight">> \in Targets(Weight(f, <<a, b, c>>, k))
<1>1. Triple(<<a, b, c>>) /\ ((k = "plain") <=> (<<a, b, c>>[3] \in NormRoles))
  BY DEF Triple, Matrix
<1>2. <<a, b, c, "weight">> = Append(<<a, b, c>>, "weight")  BY AppendedThree
<1>3. /\ Targets(Linear(f, <<a, b, c>>, k)) = Both(<<a, b, c>>) /\ Kinded(Linear(f, <<a, b, c>>, k))
      /\ Targets(Weight(f, <<a, b, c>>, k)) = {Append(<<a, b, c>>, "weight")}
      /\ Kinded(Weight(f, <<a, b, c>>, k))
  BY <1>1, LinearWrites
<1> QED  BY <1>2, <1>3 DEF Both

LEMMA NormOfWrites ==
  ASSUME NEW f, NEW a, NEW b, NEW c, c \in NormRoles
  PROVE  /\ Kinded(Norm(f, <<a, b, c>>))
         /\ <<a, b, c, "weight">> \in Targets(Norm(f, <<a, b, c>>))
<1>1. Triple(<<a, b, c>>) /\ <<a, b, c>>[3] \in NormRoles  BY DEF Triple
<1>2. <<a, b, c, "weight">> = Append(<<a, b, c>>, "weight")  BY AppendedThree
<1> QED  BY <1>1, <1>2, NormWrites DEF Both

LEMMA TrunkWrites ==
  /\ Kinded(PatchEmbed) /\ <<"enc", 0, "patch", "weight">> \in Targets(PatchEmbed)
  /\ Kinded(ClsToken) /\ <<"enc", 0, "cls", "">> \in Targets(ClsToken)
  /\ Kinded(PosEmbed)
  /\ Kinded(Norm(G("norm"), G("norm"))) /\ Kinded(Norm(P("norm"), P("norm")))
  /\ <<"pred", 0, "norm", "weight">> \in Targets(Norm(P("norm"), P("norm")))
<1>1. PatchEmbed = Linear(G("patch"), G("patch"), "matrix")  BY DEF PatchEmbed, Linear
<1>2. "patch" \notin NormRoles /\ "norm" \in NormRoles /\ "matrix" \in Matrix  BY DEF NormRoles, Matrix
<1>3. /\ ClsToken = Copy(<<"enc", 0, "cls", "">>, <<"enc", 0, "cls", "">>, "plain")
      /\ PosEmbed = Copy(<<"enc", 0, "pos", "">>, <<"enc", 0, "pos", "">>, "plain")
  BY ConcatThree DEF ClsToken, PosEmbed, G
<1>4. Kinded(PatchEmbed) /\ <<"enc", 0, "patch", "weight">> \in Targets(PatchEmbed)
  BY <1>1, <1>2, MatrixWrites DEF G
<1>5. Kinded(ClsToken) /\ <<"enc", 0, "cls", "">> \in Targets(ClsToken) /\ Kinded(PosEmbed)
  BY <1>3, TokenWrites
<1>6. /\ Kinded(Norm(G("norm"), G("norm"))) /\ Kinded(Norm(P("norm"), P("norm")))
      /\ <<"pred", 0, "norm", "weight">> \in Targets(Norm(P("norm"), P("norm")))
  BY <1>2, NormOfWrites DEF G, P
<1> QED  BY <1>4, <1>5, <1>6

-----------------------------------------------------------------------------
(* The loader's conditions but the one on types, family by family: what the  *)
(* metadata make the graphs dereference is among the rows written.           *)
NetworkLoads(file) == EncoderLoads(file) /\ PredictorLoads(file) /\ HeadLoads(file) /\ LevelsLoad(file)

LEMMA AtLeastOne == \A n \in Nat \ {0} : n >= 1  OBVIOUS

LEMMA EncoderOnly ==
  ASSUME NEW file, file.keys.layers \in Nat \ {0}, file.tensors = Targets(file.rows),
         PatchEmbed \subseteq file.rows,
         \A i \in 1..file.keys.layers : Weights("enc", i, LayerRoles) \subseteq file.tensors,
         file.keys.cls => ClsToken \subseteq file.rows,
         file.keys.registers => <<"enc", 0, "reg", "">> \in file.tensors
  PROVE  EncoderLoads(file)
<1>1. file.keys.layers >= 1  BY AtLeastOne
<1>2. Has(file, Weights("enc", 0, {"patch"}))
  <2>1. <<"enc", 0, "patch", "weight">> \in Targets(file.rows)  BY TrunkWrites DEF Targets
  <2> QED  BY <2>1 DEF Has, Weights
<1>3. \A i \in 1..file.keys.layers : BlockComplete(file, "enc", i)
  BY DEF BlockComplete, Has, LayerRoles, Weights
<1>4. file.keys.cls => Has(file, {<<"enc", 0, "cls", "">>})
  <2>1. ClsToken \subseteq file.rows => <<"enc", 0, "cls", "">> \in Targets(file.rows)
    BY TrunkWrites DEF Targets
  <2> QED  BY <2>1 DEF Has
<1> QED  BY <1>1, <1>2, <1>3, <1>4 DEF EncoderLoads, Has

LEMMA NothingElse ==
  ASSUME NEW file, file.keys.pred = "none", file.keys.pool = 0, file.keys.levels = <<>>
  PROVE  PredictorLoads(file) /\ HeadLoads(file) /\ LevelsLoad(file)
<1>1. ~ (file.keys.pool > 0) /\ DOMAIN file.keys.levels = {}  OBVIOUS
<1> QED  BY <1>1 DEF PredictorLoads, HeadLoads, LevelsLoad

LEMMA IjepaLoads ==
  ASSUME NEW c \in ConfigRecords, NEW ckpt, NEW file, file.rows = IjepaRows(c, ckpt),
         file.tensors = Targets(file.rows), file.keys = IjepaKeys(c, ckpt)
  PROVE  NetworkLoads(file) /\ Kinded(file.rows)
<1>1. /\ file.keys.layers = c.layers /\ ~ file.keys.cls /\ ~ file.keys.registers
      /\ file.keys.pred = "none" /\ file.keys.pool = 0 /\ file.keys.levels = <<>>
  BY DEF IjepaKeys, NoKeys
<1>2. c.layers \in Nat \ {0}  BY DEF ConfigRecords
<1>3. PatchEmbed \subseteq file.rows /\ Blocks("enc", "enc", c.layers, TRUE) \subseteq file.rows
  BY DEF IjepaRows
<1>4. \A i \in 1..c.layers : Weights("enc", i, LayerRoles) \subseteq Targets(file.rows)
  BY <1>3, BlocksWrite
<1>5. Kinded(file.rows)
  <2>1. Kinded(Blocks("enc", "enc", c.layers, TRUE))  BY BlocksWrite
  <2> QED  BY <2>1, TrunkWrites DEF IjepaRows, Kinded
<1>6. EncoderLoads(file)  BY <1>1, <1>2, <1>3, <1>4, EncoderOnly
<1> QED  BY <1>1, <1>5, <1>6, NothingElse DEF NetworkLoads

LEMMA LevjepaLoads ==
  ASSUME NEW c \in ConfigRecords, NEW ckpt, NEW file, file.rows = LevjepaRows(c, ckpt),
         file.tensors = Targets(file.rows), file.keys = LevjepaKeys(c, ckpt)
  PROVE  NetworkLoads(file) /\ Kinded(file.rows)
<1>1. /\ file.keys.layers = c.layers /\ file.keys.cls /\ ~ file.keys.registers
      /\ file.keys.pred = "none" /\ file.keys.pool = 0 /\ file.keys.levels = <<>>
  BY DEF LevjepaKeys, NoKeys
<1>2. c.layers \in Nat \ {0}  BY DEF ConfigRecords
<1>3. /\ PatchEmbed \subseteq file.rows /\ Blocks("enc", "enc", c.layers, FALSE) \subseteq file.rows
      /\ ClsToken \subseteq file.rows
  BY DEF LevjepaRows, VideoVit
<1>4. \A i \in 1..c.layers : Weights("enc", i, LayerRoles) \subseteq Targets(file.rows)
  BY <1>3, BlocksWrite
<1>5. Kinded(file.rows)
  <2>1. Kinded(Blocks("enc", "enc", c.layers, FALSE))  BY BlocksWrite
  <2> QED  BY <2>1, TrunkWrites DEF LevjepaRows, VideoVit, Kinded
<1>6. EncoderLoads(file)  BY <1>1, <1>2, <1>3, <1>4, EncoderOnly
<1> QED  BY <1>1, <1>5, <1>6, NothingElse DEF NetworkLoads

(* DINOv2 and friends: biases and registers as the checkpoint has them.      *)
LEMMA HfvitBlockWrites ==
  ASSUME NEW i, NEW ckpt
  PROVE  /\ Kinded(HfvitBlock(i, ckpt))
         /\ Weights("enc", i, LayerRoles) \subseteq Targets(HfvitBlock(i, ckpt))
<1> DEFINE all == Block("enc", "enc", i, FALSE)
           optional == {r \in all : r.to[4] = "bias" /\ r.to[3] \notin {"ln1", "ln2"}}
<1>1. HfvitBlock(i, ckpt) = (all \ optional) \cup Present(optional, ckpt)  BY DEF HfvitBlock
<1>2. Kinded(all) /\ \A r \in LayerRoles : Both(<<"enc", i, r>>) \subseteq Targets(all)
  BY BlockWrites
<1>3. HfvitBlock(i, ckpt) \subseteq all  BY <1>1 DEF Present
<1>4. Kinded(HfvitBlock(i, ckpt))  BY <1>2, <1>3 DEF Kinded
<1>5. ASSUME NEW r \in LayerRoles  PROVE <<"enc", i, r, "weight">> \in Targets(HfvitBlock(i, ckpt))
  <2>1. <<"enc", i, r, "weight">> \in Targets(all)  BY <1>2, AppendedThree DEF Both
  <2>2. PICK x \in all : x.to = <<"enc", i, r, "weight">>  BY <2>1 DEF Targets
  <2>3. x.to[4] # "bias"  BY <2>2
  <2>4. x \in HfvitBlock(i, ckpt)  BY <1>1, <2>3
  <2> QED  BY <2>2, <2>4 DEF Targets
<1> QED  BY <1>4, <1>5 DEF Weights

LEMMA HfvitLoads ==
  ASSUME NEW c \in ConfigRecords, NEW ckpt, NEW file, file.rows = HfvitRows(c, ckpt),
         file.tensors = Targets(file.rows), file.keys = HfvitKeys(c, ckpt), ~ HfvitRefuses(c, ckpt)
  PROVE  NetworkLoads(file) /\ Kinded(file.rows)
<1> DEFINE reg == Copy(<<"enc", 0, "reg", "">>, <<"enc", 0, "reg", "">>, "plain")
           blocks == UNION {HfvitBlock(i, ckpt) : i \in 1..c.layers}
           scales == IF c.scale THEN LayerScales(c.layers) ELSE {}
           optional == Present(reg, ckpt)
<1>1. /\ file.keys.layers = c.layers /\ file.keys.cls /\ (file.keys.registers <=> c.registers)
      /\ file.keys.pred = "none" /\ file.keys.pool = 0 /\ file.keys.levels = <<>>
  BY DEF HfvitKeys, NoKeys, ConfigRecords
<1>2. c.layers \in Nat \ {0}  BY DEF ConfigRecords
<1>3. G("reg") \o <<"">> = <<"enc", 0, "reg", "">>  BY ConcatThree DEF G
<1>4. /\ {PatchEmbed, ClsToken, PosEmbed, Norm(G("norm"), G("norm")), optional, blocks, scales}
           \subseteq SUBSET file.rows
      /\ file.rows = PatchEmbed \cup ClsToken \cup PosEmbed \cup Norm(G("norm"), G("norm"))
                     \cup optional \cup blocks \cup scales
  <2>1. Present(Copy(G("reg") \o <<"">>, G("reg") \o <<"">>, "plain"), ckpt) = optional  BY <1>3
  <2>2. file.rows = PatchEmbed \cup ClsToken \cup PosEmbed \cup Norm(G("norm"), G("norm"))
                    \cup optional \cup blocks \cup scales
    BY <2>1 DEF HfvitRows
  <2> HIDE DEF optional, blocks, scales
  <2> QED  BY <2>2
<1>5. \A i \in 1..c.layers : Weights("enc", i, LayerRoles) \subseteq Targets(file.rows)
  <2> TAKE i \in 1..c.layers
  <2>1. HfvitBlock(i, ckpt) \subseteq blocks  OBVIOUS
  <2> HIDE DEF optional, blocks, scales
  <2>2. HfvitBlock(i, ckpt) \subseteq file.rows  BY <1>4, <2>1
  <2> QED  BY <2>2, HfvitBlockWrites DEF Targets
<1>6. c.registers => <<"enc", 0, "reg", "">> \in file.tensors
  <2> HAVE c.registers
  <2>1. <<"enc", 0, "reg", "">> \in ckpt  BY <1>3 DEF HfvitRefuses
  <2>2. PICK r \in reg : r.from = {<<"enc", 0, "reg", "">>} /\ r.to = <<"enc", 0, "reg", "">>
    BY DEF Copy, Row
  <2>3. r \in optional  BY <2>1, <2>2 DEF Present
  <2> HIDE DEF reg, optional, blocks, scales
  <2>4. r \in file.rows  BY <1>4, <2>3
  <2> QED  BY <2>2, <2>4 DEF Targets
<1>7. Kinded(file.rows)
  <2>1. Kinded(blocks)  BY HfvitBlockWrites DEF Kinded
  <2>2. Kinded(optional)  BY TokenWrites DEF Present, Kinded
  <2>3. Kinded(scales)
    <3>1. \A i, s : Kinded(Copy(LayerScale(i, s), LayerScale(i, s), "plain"))
      BY TokenWrites DEF LayerScale
    <3> QED  BY <3>1 DEF Kinded, LayerScales
  <2> HIDE DEF optional, blocks, scales
  <2> QED  BY <1>4, <2>1, <2>2, <2>3, TrunkWrites DEF Kinded
<1> HIDE DEF reg, optional, blocks, scales
<1>8. PatchEmbed \subseteq file.rows /\ ClsToken \subseteq file.rows  BY <1>4
<1>9. EncoderLoads(file)  BY <1>1, <1>2, <1>5, <1>6, <1>8, EncoderOnly
<1> QED  BY <1>1, <1>7, <1>9, NothingElse DEF NetworkLoads

(* LeWorldModel: an encoder, a conditional predictor, folded BatchNorms.     *)
LEMMA QuadWrites ==
  ASSUME NEW f, NEW a, NEW b, NEW c, NEW d, c \notin NormRoles, NEW k \in Matrix
  PROVE  /\ Kinded(Linear(f, <<a, b, c, d>>, k))
         /\ <<a, b, c, d, "weight">> \in Targets(Linear(f, <<a, b, c, d>>, k))
         /\ \A g, h : /\ Kinded(Folded(g, h, <<a, b, c, d>>)) /\ Kinded(Paired(g, h, <<a, b, c, d>>))
                      /\ <<a, b, c, d, "weight">> \in Targets(Folded(g, h, <<a, b, c, d>>))
                      /\ <<a, b, c, d, "weight">> \in Targets(Paired(g, h, <<a, b, c, d>>))
<1> DEFINE t == <<a, b, c, d>>
<1>1. Quad(t) /\ t[3] \notin NormRoles /\ ((k = "plain") <=> (t[3] \in NormRoles))  BY DEF Quad, Matrix
<1>2. <<a, b, c, d, "weight">> = Append(t, "weight")  BY AppendedFour
<1> HIDE DEF t
<1>3. Targets(Linear(f, t, k)) = Both(t) /\ Kinded(Linear(f, t, k))  BY <1>1, LinearWrites
<1>4. \A g, h : Targets(Folded(g, h, t)) = Both(t) /\ Kinded(Folded(g, h, t))  BY <1>1, FoldedWrites
<1>5. \A g, h : Targets(Paired(g, h, t)) = Both(t) /\ Kinded(Paired(g, h, t))  BY <1>1, PairedWrites
<1>6. <<a, b, c, d, "weight">> \in Both(t)  BY <1>2 DEF Both
<1> QED  BY <1>3, <1>4, <1>5, <1>6 DEF t

LEMMA FoldMlpWrites ==
  ASSUME NEW f, NEW a, NEW b, NEW c, c \notin NormRoles
  PROVE  /\ Kinded(FoldMlp(f, <<a, b, c>>))
         /\ \A n \in {"0", "2"} : <<a, b, c, n, "weight">> \in Targets(FoldMlp(f, <<a, b, c>>))
<1> DEFINE x == Folded(<<f, 0, "net0">>, <<f, 0, "net1">>, <<a, b, c, "0">>)
           y == Linear(<<f, 0, "net3">>, <<a, b, c, "2">>, "quant")
<1>1. FoldMlp(f, <<a, b, c>>) = x \cup y  BY AppendedThree DEF FoldMlp
<1>2. "quant" \in Matrix  BY DEF Matrix
<1>3. Kinded(x) /\ <<a, b, c, "0", "weight">> \in Targets(x)  BY <1>2, QuadWrites
<1>4. Kinded(y) /\ <<a, b, c, "2", "weight">> \in Targets(y)  BY <1>2, QuadWrites
<1> HIDE DEF x, y
<1> QED  BY <1>1, <1>3, <1>4 DEF Kinded, Targets

LEMMA LewmBlockWrites ==
  ASSUME NEW i
  PROVE  Kinded(LewmBlock(i)) /\ Weights("pred", i, LayerRoles \cup {"adaln"}) \subseteq Targets(LewmBlock(i))
<1> DEFINE a == Linear(<<"pred", i, "adaln">>, <<"pred", i, "adaln">>, "matrix")
           w == Weight(<<"pred", i, "qkv">>, <<"pred", i, "qkv">>, "quant")
           all == Block("pred", "pred", i, FALSE)
           rest == {r \in all : r.to[3] # "qkv"}
<1>1. LewmBlock(i) = a \cup w \cup rest  BY DEF LewmBlock
<1>2. {"adaln", "qkv"} \cap NormRoles = {} /\ {"quant", "matrix"} \subseteq Matrix  BY DEF NormRoles, Matrix
<1>3. Kinded(a) /\ <<"pred", i, "adaln", "weight">> \in Targets(a)
  <2>1. "adaln" \notin NormRoles /\ "matrix" \in Matrix  BY <1>2
  <2> QED  BY <2>1, MatrixWrites
<1>4. Kinded(w) /\ <<"pred", i, "qkv", "weight">> \in Targets(w)
  <2>1. "qkv" \notin NormRoles /\ "quant" \in Matrix  BY <1>2
  <2> QED  BY <2>1, MatrixWrites
<1>5. Kinded(all) /\ \A r \in LayerRoles : Both(<<"pred", i, r>>) \subseteq Targets(all)  BY BlockWrites
<1>6. Kinded(rest)  BY <1>5 DEF Kinded
<1>7. ASSUME NEW r \in LayerRoles \ {"qkv"}  PROVE <<"pred", i, r, "weight">> \in Targets(rest)
  <2>1. <<"pred", i, r, "weight">> \in Targets(all)  BY <1>5, AppendedThree DEF Both
  <2>2. PICK x \in all : x.to = <<"pred", i, r, "weight">>  BY <2>1 DEF Targets
  <2>3. x.to[3] # "qkv"  BY <2>2
  <2>4. x \in rest  BY <2>3
  <2> QED  BY <2>2, <2>4 DEF Targets
<1> HIDE DEF a, w, all, rest
<1>8. Kinded(LewmBlock(i))  BY <1>1, <1>3, <1>4, <1>6 DEF Kinded
<1>9. ASSUME NEW r \in LayerRoles \cup {"adaln"}  PROVE <<"pred", i, r, "weight">> \in Targets(LewmBlock(i))
  <2>1. Targets(a) \cup Targets(w) \cup Targets(rest) \subseteq Targets(LewmBlock(i))  BY <1>1 DEF Targets
  <2> QED  BY <2>1, <1>3, <1>4, <1>7
<1> QED  BY <1>8, <1>9 DEF Weights

LEMMA HfVitWrites ==
  ASSUME NEW n
  PROVE  /\ Kinded(HfVitRows(n)) /\ PatchEmbed \subseteq HfVitRows(n) /\ ClsToken \subseteq HfVitRows(n)
         /\ Blocks("enc", "enc", n, TRUE) \subseteq HfVitRows(n)
<1>1. Kinded(Blocks("enc", "enc", n, TRUE))  BY BlocksWrite
<1>2. Kinded(HfVitRows(n))  BY <1>1, TrunkWrites DEF HfVitRows, Kinded
<1>3. /\ PatchEmbed \subseteq HfVitRows(n) /\ ClsToken \subseteq HfVitRows(n)
      /\ Blocks("enc", "enc", n, TRUE) \subseteq HfVitRows(n)
  BY DEF HfVitRows
<1> QED  BY <1>2, <1>3

LEMMA LewmLoads ==
  ASSUME NEW c \in ConfigRecords, NEW ckpt, NEW file, file.rows = LewmRows(c, ckpt),
         file.tensors = Targets(file.rows), file.keys = LewmKeys(c, ckpt)
  PROVE  NetworkLoads(file) /\ Kinded(file.rows)
<1> DEFINE mlp == FoldMlp("projector", <<"enc", 0, "proj">>)
           back == FoldMlp("pred_proj", <<"pred", 0, "proj">>)
           pos == Copy(P("pos") \o <<"">>, P("pos") \o <<"">>, "plain")
           blocks == UNION {LewmBlock(i) : i \in 1..c.predLayers}
           act0 == Paired(<<"action", 0, "conv">>, <<"action", 0, "embed0">>, <<"pred", 0, "action_embed", "0">>)
           act2 == Linear(<<"action", 0, "embed2">>, <<"pred", 0, "action_embed", "2">>, "matrix")
           vit == HfVitRows(c.layers)
           norm == Norm(P("norm"), P("norm"))
<1>1. /\ file.keys.layers = c.layers /\ file.keys.cls /\ ~ file.keys.registers
      /\ file.keys.pred = "lewm" /\ file.keys.predLayers = c.predLayers
      /\ file.keys.pool = 0 /\ file.keys.levels = <<>>
  BY DEF LewmKeys, NoKeys
<1>2. c.layers \in Nat \ {0} /\ c.predLayers \in Nat \ {0}  BY DEF ConfigRecords
<1>3. file.rows = vit \cup mlp \cup back \cup pos \cup blocks \cup norm \cup act0 \cup act2  BY DEF LewmRows
<1>4. {"proj", "action_embed"} \cap NormRoles = {} /\ "matrix" \in Matrix  BY DEF NormRoles, Matrix
<1>5. /\ Kinded(mlp) /\ Kinded(back)
      /\ \A n \in {"0", "2"} : <<"pred", 0, "proj", n, "weight">> \in Targets(back)
  <2>1. "proj" \notin NormRoles  BY <1>4
  <2> QED  BY <2>1, FoldMlpWrites
<1>6. /\ Kinded(act0) /\ <<"pred", 0, "action_embed", "0", "weight">> \in Targets(act0)
      /\ Kinded(act2) /\ <<"pred", 0, "action_embed", "2", "weight">> \in Targets(act2)
  <2>1. "action_embed" \notin NormRoles  BY <1>4
  <2> QED  BY <1>4, <2>1, QuadWrites
<1>7. Kinded(pos)
  <2>1. pos = Copy(<<"pred", 0, "pos", "">>, <<"pred", 0, "pos", "">>, "plain")  BY ConcatThree DEF P
  <2> QED  BY <2>1, TokenWrites
<1>8. Kinded(blocks)  BY LewmBlockWrites DEF Kinded
<1>9. \A i \in 1..c.predLayers : LewmBlock(i) \subseteq blocks  OBVIOUS
<1>10. Kinded(vit) /\ Kinded(norm) /\ <<"pred", 0, "norm", "weight">> \in Targets(norm)
  BY HfVitWrites, TrunkWrites
<1>11. PatchEmbed \subseteq vit /\ ClsToken \subseteq vit /\ Blocks("enc", "enc", c.layers, TRUE) \subseteq vit
  BY HfVitWrites
<1> HIDE DEF mlp, back, pos, blocks, act0, act2, vit, norm
<1>12. Kinded(file.rows)  BY <1>3, <1>5, <1>6, <1>7, <1>8, <1>10 DEF Kinded
<1>13. /\ Targets(back) \cup Targets(act0) \cup Targets(act2) \cup Targets(norm) \subseteq file.tensors
       /\ Targets(blocks) \subseteq file.tensors
  BY <1>3 DEF Targets
<1>14. \A i \in 1..c.predLayers : Weights("pred", i, LayerRoles \cup {"adaln"}) \subseteq file.tensors
  <2> TAKE i \in 1..c.predLayers
  <2>1. Targets(LewmBlock(i)) \subseteq Targets(blocks)  BY <1>9 DEF Targets
  <2> QED  BY <1>13, <2>1, LewmBlockWrites
<1>15. EncoderLoads(file)
  <2>1. PatchEmbed \subseteq file.rows /\ ClsToken \subseteq file.rows
        /\ Blocks("enc", "enc", c.layers, TRUE) \subseteq file.rows
    BY <1>3, <1>11
  <2>2. \A i \in 1..c.layers : Weights("enc", i, LayerRoles) \subseteq Targets(file.rows)
    BY <2>1, BlocksWrite
  <2> QED  BY <1>1, <1>2, <2>1, <2>2, EncoderOnly
<1>16. PredictorLoads(file)
  <2>1. Has(file, PredictorNeeds(file))
    <3>1. PredictorNeeds(file) =
            Weights("pred", 0, {"norm"})
            \cup {<<"pred", 0, r, n, "weight">> : r \in {"action_embed", "proj"}, n \in {"0", "2"}}
      BY <1>1 DEF PredictorNeeds
    <3> QED  BY <3>1, <1>5, <1>6, <1>10, <1>13 DEF Has, Weights
  <2>2. c.predLayers >= 1  BY <1>2, AtLeastOne
  <2>3. \A i \in 1..c.predLayers :
          BlockComplete(file, "pred", i) /\ Has(file, Weights("pred", i, {"adaln"}))
    BY <1>14 DEF BlockComplete, Has, LayerRoles, Weights
  <2> QED  BY <1>1, <2>1, <2>2, <2>3 DEF PredictorLoads
<1>17. HeadLoads(file) /\ LevelsLoad(file)
  <2>1. ~ (file.keys.pool > 0) /\ DOMAIN file.keys.levels = {}  BY <1>1
  <2> QED  BY <1>1, <2>1 DEF HeadLoads, LevelsLoad
<1> QED  BY <1>12, <1>15, <1>16, <1>17 DEF NetworkLoads

(* V-JEPA 2: a video encoder, a masked predictor, a pooler or none.          *)
LEMMA MaskedTailWrites ==
  /\ Kinded(MaskedTail)
  /\ Weights("pred", 0, {"norm", "proj"}) \subseteq Targets(MaskedTail)
<1> DEFINE norm == Norm(P("norm"), P("norm"))
           proj == Linear(P("proj"), P("proj"), "quant")
<1>1. MaskedTail = norm \cup proj  BY DEF MaskedTail
<1>2. Kinded(norm) /\ <<"pred", 0, "norm", "weight">> \in Targets(norm)  BY TrunkWrites
<1>3. Kinded(proj) /\ <<"pred", 0, "proj", "weight">> \in Targets(proj)
  <2>1. "proj" \notin NormRoles /\ "quant" \in Matrix  BY DEF NormRoles, Matrix
  <2> QED  BY <2>1, MatrixWrites DEF P
<1> HIDE DEF norm, proj
<1> QED  BY <1>1, <1>2, <1>3 DEF Kinded, Targets, Weights

LEMMA VideoVitWrites ==
  ASSUME NEW n, NEW apart \in BOOLEAN
  PROVE  /\ Kinded(VideoVit(n, apart)) /\ PatchEmbed \subseteq VideoVit(n, apart)
         /\ Blocks("enc", "enc", n, apart) \subseteq VideoVit(n, apart)
<1>1. Kinded(Blocks("enc", "enc", n, apart))  BY BlocksWrite
<1>2. Kinded(VideoVit(n, apart))  BY <1>1, TrunkWrites DEF VideoVit, Kinded
<1>3. /\ PatchEmbed \subseteq VideoVit(n, apart)
      /\ Blocks("enc", "enc", n, apart) \subseteq VideoVit(n, apart)
  BY DEF VideoVit
<1> QED  BY <1>2, <1>3

XattnNeeds == {"ln_kv", "q", "k", "v", "ln2", "up", "down"}

LEMMA HeadRowsWrite ==
  ASSUME NEW n
  PROVE  /\ Kinded(HeadRows(n)) /\ Blocks("pool", "head", n, TRUE) \subseteq HeadRows(n)
         /\ <<"head", 0, "query", "">> \in Targets(HeadRows(n))
         /\ <<"head", 0, "cls", "weight">> \in Targets(HeadRows(n))
         /\ Weights("xattn", 0, XattnNeeds) \subseteq Targets(HeadRows(n))
<1> DEFINE query == Single("head", "query", "plain")
           blocks == Blocks("pool", "head", n, TRUE)
           kv == Norm(<<"xattn", 0, "ln_kv">>, <<"xattn", 0, "ln_kv">>)
           ln2 == Norm(<<"xattn", 0, "ln2">>, <<"xattn", 0, "ln2">>)
           lin(r) == Linear(<<"xattn", 0, r>>, <<"xattn", 0, r>>, "quant")
           lins == UNION {lin(r) : r \in XattnLinears}
           cls == Linear(<<"head", 0, "cls">>, <<"head", 0, "cls">>, "quant")
<1>1. HeadRows(n) = query \cup blocks \cup kv \cup ln2 \cup lins \cup cls  BY DEF HeadRows
<1>2. /\ XattnLinears \cap NormRoles = {} /\ "cls" \notin NormRoles /\ {"ln_kv", "ln2"} \subseteq NormRoles
      /\ "quant" \in Matrix
  BY DEF XattnLinears, NormRoles, Matrix
<1>3. Kinded(query) /\ <<"head", 0, "query", "">> \in Targets(query)  BY TokenWrites DEF Single
<1>4. Kinded(blocks)  BY BlocksWrite
<1>5. Kinded(kv) /\ <<"xattn", 0, "ln_kv", "weight">> \in Targets(kv)
  <2>1. "ln_kv" \in NormRoles  BY <1>2
  <2> QED  BY <2>1, NormOfWrites
<1>6. Kinded(ln2) /\ <<"xattn", 0, "ln2", "weight">> \in Targets(ln2)
  <2>1. "ln2" \in NormRoles  BY <1>2
  <2> QED  BY <2>1, NormOfWrites
<1>7. \A r \in XattnLinears : Kinded(lin(r)) /\ <<"xattn", 0, r, "weight">> \in Targets(lin(r))
  <2> TAKE r \in XattnLinears
  <2>1. r \notin NormRoles  BY <1>2
  <2> QED  BY <1>2, <2>1, MatrixWrites
<1>8. Kinded(cls) /\ <<"head", 0, "cls", "weight">> \in Targets(cls)  BY <1>2, MatrixWrites
<1> HIDE DEF query, blocks, kv, ln2, lin, cls
<1>9. Kinded(lins) /\ \A r \in XattnLinears : <<"xattn", 0, r, "weight">> \in Targets(lins)
  BY <1>7 DEF Kinded, Targets
<1> HIDE DEF lins
<1>10. Kinded(HeadRows(n))  BY <1>1, <1>3, <1>4, <1>5, <1>6, <1>8, <1>9 DEF Kinded
<1>11. Targets(query) \cup Targets(kv) \cup Targets(ln2) \cup Targets(lins) \cup Targets(cls)
          \subseteq Targets(HeadRows(n))
  BY <1>1 DEF Targets
<1>12. ASSUME NEW r \in XattnNeeds  PROVE <<"xattn", 0, r, "weight">> \in Targets(HeadRows(n))
  <2>1. r \in XattnLinears \cup {"ln_kv", "ln2"}  BY DEF XattnNeeds, XattnLinears
  <2> QED  BY <2>1, <1>5, <1>6, <1>9, <1>11
<1>13. blocks \subseteq HeadRows(n)  BY <1>1
<1> QED  BY <1>3, <1>8, <1>10, <1>11, <1>12, <1>13 DEF blocks, Weights

(* A predictor of masked tokens, and the action-conditioned one.             *)

LEMMA PredictorBlocksLoad ==
  ASSUME NEW file, file.keys.pred \in {"masked", "ac"}, file.keys.predLayers \in Nat \ {0},
         Has(file, PredictorNeeds(file)),
         \A i \in 1..file.keys.predLayers : Weights("pred", i, LayerRoles) \subseteq file.tensors
  PROVE  PredictorLoads(file)
<1>1. file.keys.predLayers >= 1  BY AtLeastOne
<1>2. \A i \in 1..file.keys.predLayers : BlockComplete(file, "pred", i)
  BY DEF BlockComplete, Has, LayerRoles, Weights
<1>3. file.keys.pred # "lewm"  OBVIOUS
<1> QED  BY <1>1, <1>2, <1>3 DEF PredictorLoads

LEMMA Vjepa2Loads ==
  ASSUME NEW c \in ConfigRecords, NEW ckpt, NEW file, file.rows = Vjepa2Rows(c, ckpt),
         file.tensors = Targets(file.rows), file.keys = Vjepa2Keys(c, ckpt)
  PROVE  NetworkLoads(file) /\ Kinded(file.rows)
<1> DEFINE vit == VideoVit(c.layers, TRUE)
           embed == Linear(P("embed"), P("embed"), "quant")
           mask == Single("pred", "mask", "plain")
           blocks == Blocks("pred", "pred", c.predLayers, TRUE)
           hd == IF c.head THEN HeadRows(c.pool) ELSE {}
<1>1. /\ file.keys.layers = c.layers /\ ~ file.keys.cls /\ ~ file.keys.registers
      /\ file.keys.pred = "masked" /\ file.keys.predLayers = c.predLayers /\ ~ file.keys.modality
      /\ file.keys.pool = (IF c.head THEN c.pool ELSE 0) /\ file.keys.levels = <<>>
  BY DEF Vjepa2Keys, NoKeys
<1>2. c.layers \in Nat \ {0} /\ c.predLayers \in Nat \ {0} /\ c.head \in BOOLEAN  BY DEF ConfigRecords
<1>3. file.rows = vit \cup embed \cup mask \cup blocks \cup MaskedTail \cup hd  BY DEF Vjepa2Rows
<1>4. Kinded(embed) /\ <<"pred", 0, "embed", "weight">> \in Targets(embed)
  <2>1. "embed" \notin NormRoles /\ "quant" \in Matrix  BY DEF NormRoles, Matrix
  <2> QED  BY <2>1, MatrixWrites DEF P
<1>5. Kinded(mask) /\ <<"pred", 0, "mask", "">> \in Targets(mask)  BY TokenWrites DEF Single
<1>6. Kinded(blocks)  BY BlocksWrite
<1>7. Kinded(vit)  BY VideoVitWrites
<1>8. Kinded(hd)  BY HeadRowsWrite DEF Kinded
<1>9. c.head => HeadRows(c.pool) = hd  OBVIOUS
<1>10. PatchEmbed \subseteq vit /\ Blocks("enc", "enc", c.layers, TRUE) \subseteq vit  BY VideoVitWrites
<1> HIDE DEF vit, embed, mask, hd
<1>11. Kinded(file.rows)
  <2> HIDE DEF blocks
  <2> QED  BY <1>3, <1>4, <1>5, <1>6, <1>7, <1>8, MaskedTailWrites DEF Kinded
<1>12. /\ Targets(embed) \cup Targets(mask) \cup Targets(MaskedTail) \cup Targets(hd) \subseteq file.tensors
       /\ blocks \subseteq file.rows /\ hd \subseteq file.rows /\ vit \subseteq file.rows
  <2> HIDE DEF blocks
  <2> QED  BY <1>3 DEF Targets
<1>13. EncoderLoads(file)
  <2>1. PatchEmbed \subseteq file.rows /\ Blocks("enc", "enc", c.layers, TRUE) \subseteq file.rows
    BY <1>10, <1>12
  <2>2. \A i \in 1..c.layers : Weights("enc", i, LayerRoles) \subseteq Targets(file.rows)
    BY <2>1, BlocksWrite
  <2> QED  BY <1>1, <1>2, <2>1, <2>2, EncoderOnly
<1>14. PredictorLoads(file)
  <2>1. <<"pred", 0, "embed", "weight">> \in file.tensors  BY <1>4, <1>12
  <2>2. PredictorNeeds(file) = {<<"pred", 0, "mask", "">>} \cup Weights("pred", 0, {"norm", "proj"})
    BY <1>1, <2>1 DEF PredictorNeeds
  <2>3. Has(file, PredictorNeeds(file))  BY <1>5, <1>12, <2>2, MaskedTailWrites DEF Has
  <2>4. \A i \in 1..c.predLayers : Weights("pred", i, LayerRoles) \subseteq Targets(file.rows)
    BY <1>12, BlocksWrite
  <2> QED  BY <1>1, <1>2, <2>3, <2>4, PredictorBlocksLoad
<1>15. HeadLoads(file)
  <2> SUFFICES ASSUME file.keys.pool > 0
               PROVE  /\ Has(file, {<<"head", 0, "query", "">>, <<"head", 0, "cls", "weight">>}
                              \cup Weights("xattn", 0, XattnNeeds))
                      /\ \A i \in 1..file.keys.pool : BlockComplete(file, "head", i)
    BY DEF HeadLoads, XattnNeeds
  <2>1. c.head
    <3>1. ~ (0 > 0)  OBVIOUS
    <3> QED  BY <1>1, <3>1
  <2>2. file.keys.pool = c.pool /\ HeadRows(c.pool) \subseteq file.rows  BY <1>1, <1>9, <1>12, <2>1
  <2>3. Has(file, {<<"head", 0, "query", "">>, <<"head", 0, "cls", "weight">>}
                  \cup Weights("xattn", 0, XattnNeeds))
    <3>1. Targets(HeadRows(c.pool)) \subseteq file.tensors  BY <2>2 DEF Targets
    <3> QED  BY <3>1, HeadRowsWrite DEF Has
  <2>4. \A i \in 1..c.pool : Weights("head", i, LayerRoles) \subseteq Targets(file.rows)
    <3>1. Blocks("pool", "head", c.pool, TRUE) \subseteq file.rows  BY <2>2, HeadRowsWrite
    <3> QED  BY <3>1, BlocksWrite
  <2>5. \A i \in 1..c.pool : BlockComplete(file, "head", i)
    BY <2>4 DEF BlockComplete, Has, LayerRoles, Weights
  <2> QED  BY <2>2, <2>3, <2>5
<1>16. LevelsLoad(file)
  <2>1. DOMAIN file.keys.levels = {}  BY <1>1
  <2> QED  BY <1>1, <2>1 DEF LevelsLoad
<1> QED  BY <1>11, <1>13, <1>14, <1>15, <1>16 DEF NetworkLoads

(* V-JEPA 2.1 and 2-AC take their depths from the checkpoint.                *)
LEMMA HighestIsNatural ==
  ASSUME NEW ckpt, Numbered(ckpt), NEW s \in {"enc", "pred", "norms", "masks"}
  PROVE  HighestLayer(ckpt, s) \in Nat
<1> DEFINE U == {u \in ckpt : u[1] = s}
           f == [t \in U |-> t[2]]
           I == {t[2] : t \in U}
           layers == I \cup {0}
<1>1. U \in SUBSET ckpt /\ IsFiniteSet(U)  BY FS_Subset DEF Numbered
<1>2. f \in Surjection(U, I)  BY DEF Surjection
<1>3. IsFiniteSet(I)
  <2> HIDE DEF f, I, U
  <2> QED  BY <1>1, <1>2, FS_Surjection
<1>4. I \in SUBSET Nat  BY DEF Numbered
<1>5. IsFiniteSet(layers)
  <2>1. IsFiniteSet({0})  BY FS_Singleton
  <2> HIDE DEF I
  <2> QED  BY <1>3, <2>1, FS_Union
<1>6. HighestLayer(ckpt, s) = CHOOSE n \in layers : \A m \in layers : m <= n  BY DEF HighestLayer
<1>7. layers \in SUBSET Nat /\ layers # {}  BY <1>4
<1> HIDE DEF layers
<1>8. \E n \in layers : \A m \in layers : m <= n  BY <1>5, <1>7, GreatestNatural
<1> QED  BY <1>6, <1>7, <1>8

LEMMA NormRowsKinded == ASSUME NEW n PROVE Kinded(NormRows(n))
<1>1. "ln" \in NormRoles  BY DEF NormRoles
<1>2. \A f, a, b : Kinded(Norm(f, <<a, b, "ln">>))  BY <1>1, NormOfWrites
<1>3. \A f : Kinded(Norm(f, G("norm")))
  <2>1. "norm" \in NormRoles  BY DEF NormRoles
  <2> QED  BY <2>1, NormOfWrites DEF G
<1> DEFINE first == UNION {Norm(<<"norms", k, "ln">>, <<"hier", k, "ln">>) : k \in 1..n}
           last == IF n > 0 THEN Norm(<<"norms", n, "ln">>, G("norm")) ELSE {}
<1>4. NormRows(n) = first \cup last  BY DEF NormRows
<1>5. Kinded(first)  BY <1>2 DEF Kinded
<1>6. Kinded(last)  BY <1>3 DEF Kinded
<1> HIDE DEF first, last
<1> QED  BY <1>4, <1>5, <1>6 DEF Kinded

LEMMA ModalityWrites ==
  ASSUME NEW s
  PROVE  Kinded(Modality(s)) /\ <<s, 0, "video_mod", "">> \in Targets(Modality(s))
<1> DEFINE a == Single(s, "img_mod", "plain")
           b == Single(s, "video_mod", "plain")
<1>1. Modality(s) = a \cup b  BY DEF Modality
<1>2. Kinded(a)  BY TokenWrites DEF Single
<1>3. Kinded(b) /\ <<s, 0, "video_mod", "">> \in Targets(b)  BY TokenWrites DEF Single
<1> HIDE DEF a, b
<1> QED  BY <1>1, <1>2, <1>3 DEF Kinded, Targets

LEMMA Vjepa21EmbedWrites ==
  ASSUME NEW ckpt
  PROVE  /\ Kinded(Vjepa21Embed(ckpt))
         /\ \/ <<"pred", 0, "embed", "weight">> \in Targets(Vjepa21Embed(ckpt))
            \/ Weights("pred", 0, {"embed0", "embed2"}) \subseteq Targets(Vjepa21Embed(ckpt))
<1> DEFINE roles == IF <<"pred", 0, "embed0", "weight">> \in ckpt THEN {"embed0", "embed2"} ELSE {"embed"}
           lin(r) == Linear(P(r), P(r), "quant")
<1>1. Vjepa21Embed(ckpt) = UNION {lin(r) : r \in roles}  BY DEF Vjepa21Embed
<1>2. \A r \in {"embed", "embed0", "embed2"} :
        Kinded(lin(r)) /\ <<"pred", 0, r, "weight">> \in Targets(lin(r))
  <2> TAKE r \in {"embed", "embed0", "embed2"}
  <2>1. r \notin NormRoles /\ "quant" \in Matrix  BY DEF NormRoles, Matrix
  <2> QED  BY <2>1, MatrixWrites DEF P
<1>3. roles = {"embed0", "embed2"} \/ roles = {"embed"}  OBVIOUS
<1> HIDE DEF roles, lin
<1>4. \A r \in roles : Kinded(lin(r)) /\ <<"pred", 0, r, "weight">> \in Targets(lin(r))  BY <1>2, <1>3
<1>5. Kinded(Vjepa21Embed(ckpt)) /\ \A r \in roles : <<"pred", 0, r, "weight">> \in Targets(Vjepa21Embed(ckpt))
  BY <1>1, <1>4 DEF Kinded, Targets
<1> QED  BY <1>3, <1>5 DEF Weights

LEMMA MaskRowWrites ==
  ASSUME NEW f
  PROVE  LET rs == {Row(f, <<"pred", 0, "mask", "">>, "plain")} IN
         Kinded(rs) /\ <<"pred", 0, "mask", "">> \in Targets(rs)
<1> DEFINE t == <<"pred", 0, "mask", "">>
           r == Row(f, t, "plain")
<1>1. PlainName(t)  BY DEF PlainName
<1> HIDE DEF t
<1>2. r.to = t /\ r.kind = "plain"  BY DEF Row
<1> HIDE DEF r
<1>3. Kinded({r}) /\ t \in Targets({r})  BY <1>1, <1>2 DEF Kinded, Targets
<1> QED  BY <1>3 DEF r, t

LEMMA Vjepa21Loads ==
  ASSUME NEW c, NEW ckpt, NEW file, file.rows = Vjepa21Rows(c, ckpt), Numbered(ckpt),
         file.tensors = Targets(file.rows), file.keys = Vjepa21Keys(c, ckpt), ~ Vjepa21Refuses(c, ckpt)
  PROVE  NetworkLoads(file) /\ Kinded(file.rows)
<1> DEFINE depth == Vjepa21Depth(ckpt)
           predLayers == HighestLayer(ckpt, "pred")
           patchImg == WhenHas(<<"enc", 0, "patch_img", "weight">>, ckpt,
                               Linear(G("patch_img"), G("patch_img"), "matrix"))
           encMod == WhenHas(<<"enc", 0, "img_mod", "">>, ckpt, Modality("enc"))
           enc == Blocks("enc", "enc", depth, FALSE)
           norms == NormRows(HighestLayer(ckpt, "norms"))
           embed == Vjepa21Embed(ckpt)
           tokens == {<<"masks", i, "token", "">> : i \in 1..HighestLayer(ckpt, "masks")}
           mask == {Row(tokens, <<"pred", 0, "mask", "">>, "plain")}
           predMod == WhenHas(<<"pred", 0, "img_mod", "">>, ckpt, Modality("pred"))
           pred == Blocks("pred", "pred", predLayers, FALSE)
           context == WhenHas(<<"pred", 0, "proj_context", "weight">>, ckpt,
                              Linear(P("proj_context"), P("proj_context"), "quant"))
<1>1. /\ file.keys.layers = depth /\ ~ file.keys.cls /\ ~ file.keys.registers
      /\ file.keys.pred = "masked" /\ file.keys.predLayers = predLayers
      /\ file.keys.pool = 0 /\ file.keys.levels = <<>>
  BY DEF Vjepa21Keys, NoKeys
<1>17. file.keys.modality = (<<"pred", 0, "img_mod", "">> \in ckpt)  BY DEF Vjepa21Keys, NoKeys
<1>2. depth \in Nat \ {0} /\ predLayers \in Nat \ {0}
  <2>1. DOMAIN HierLayers = 1..2  BY DEF HierLayers
  <2>2. depth \in DOMAIN HierLayers /\ predLayers # 0  BY DEF Vjepa21Refuses
  <2>3. predLayers \in Nat  BY HighestIsNatural
  <2> HIDE DEF depth
  <2> QED  BY <2>1, <2>2, <2>3
<1>3. file.rows = PatchEmbed \cup patchImg \cup encMod \cup enc \cup norms \cup embed \cup mask
                  \cup predMod \cup pred \cup MaskedTail \cup context
  BY DEF Vjepa21Rows
<1>4. "quant" \in Matrix /\ "matrix" \in Matrix /\ {"patch_img", "proj_context"} \cap NormRoles = {}
  BY DEF Matrix, NormRoles
<1>5. Kinded(patchImg)
  <2>1. Kinded(Linear(G("patch_img"), G("patch_img"), "matrix"))
    <3>1. "patch_img" \notin NormRoles  BY <1>4
    <3> QED  BY <1>4, <3>1, MatrixWrites DEF G
  <2> QED  BY <2>1 DEF WhenHas, Kinded
<1>6. Kinded(context)
  <2>1. Kinded(Linear(P("proj_context"), P("proj_context"), "quant"))
    <3>1. "proj_context" \notin NormRoles  BY <1>4
    <3> QED  BY <1>4, <3>1, MatrixWrites DEF P
  <2> QED  BY <2>1 DEF WhenHas, Kinded
<1>7. Kinded(encMod) /\ Kinded(predMod)  BY ModalityWrites DEF WhenHas, Kinded
<1>8. Kinded(enc) /\ Kinded(pred)  BY BlocksWrite
<1>9. Kinded(norms) /\ Kinded(embed)  BY NormRowsKinded, Vjepa21EmbedWrites
<1>10. Kinded(mask) /\ <<"pred", 0, "mask", "">> \in Targets(mask)
  <2>1. \A f : /\ Kinded({Row(f, <<"pred", 0, "mask", "">>, "plain")})
               /\ <<"pred", 0, "mask", "">> \in Targets({Row(f, <<"pred", 0, "mask", "">>, "plain")})
    BY MaskRowWrites
  <2> HIDE DEF tokens
  <2> QED  BY <2>1
<1>11. <<"pred", 0, "img_mod", "">> \in ckpt => predMod = Modality("pred")  BY DEF WhenHas
<1> HIDE DEF patchImg, encMod, norms, embed, mask, predMod, context
<1>12. Kinded(file.rows)
  <2> HIDE DEF enc, pred
  <2> QED  BY <1>3, <1>5, <1>6, <1>7, <1>8, <1>9, <1>10, TrunkWrites, MaskedTailWrites DEF Kinded
<1>13. /\ Targets(embed) \cup Targets(mask) \cup Targets(MaskedTail) \cup Targets(predMod) \subseteq file.tensors
       /\ PatchEmbed \subseteq file.rows /\ enc \subseteq file.rows /\ pred \subseteq file.rows
  <2> HIDE DEF enc, pred
  <2> QED  BY <1>3 DEF Targets
<1>14. EncoderLoads(file)
  <2>1. \A i \in 1..depth : Weights("enc", i, LayerRoles) \subseteq Targets(file.rows)
    BY <1>13, BlocksWrite
  <2> HIDE DEF depth
  <2> QED  BY <1>1, <1>2, <1>13, <2>1, EncoderOnly
<1>15. PredictorLoads(file)
  <2>1. {<<"pred", 0, "mask", "">>} \cup Weights("pred", 0, {"norm", "proj"}) \subseteq file.tensors
    BY <1>10, <1>13, MaskedTailWrites
  <2>2. <<"pred", 0, "embed", "weight">> \in file.tensors
        \/ Weights("pred", 0, {"embed0", "embed2"}) \subseteq file.tensors
    BY <1>13, Vjepa21EmbedWrites DEF embed
  <2>3. file.keys.modality => <<"pred", 0, "video_mod", "">> \in file.tensors
    BY <1>17, <1>11, <1>13, ModalityWrites
  <2>4. PredictorNeeds(file) =
          {<<"pred", 0, "mask", "">>} \cup Weights("pred", 0, {"norm", "proj"})
          \cup (IF <<"pred", 0, "embed", "weight">> \in file.tensors THEN {}
                ELSE Weights("pred", 0, {"embed0", "embed2"}))
          \cup (IF file.keys.modality THEN {<<"pred", 0, "video_mod", "">>} ELSE {})
    BY <1>1 DEF PredictorNeeds
  <2>5. Has(file, PredictorNeeds(file))  BY <2>1, <2>2, <2>3, <2>4 DEF Has
  <2>6. \A i \in 1..predLayers : Weights("pred", i, LayerRoles) \subseteq Targets(file.rows)
    BY <1>13, BlocksWrite
  <2> HIDE DEF predLayers
  <2> QED  BY <1>1, <1>2, <2>5, <2>6, PredictorBlocksLoad
<1>16. HeadLoads(file) /\ LevelsLoad(file)
  <2>1. ~ (0 > 0)  OBVIOUS
  <2>2. DOMAIN file.keys.levels = {}  BY <1>1
  <2> QED  BY <1>1, <2>1, <2>2 DEF HeadLoads, LevelsLoad
<1> QED  BY <1>12, <1>14, <1>15, <1>16 DEF NetworkLoads

LEMMA AcLoads ==
  ASSUME NEW c, NEW ckpt, NEW file, file.rows = AcRows(c, ckpt), Numbered(ckpt),
         file.tensors = Targets(file.rows), file.keys = AcKeys(c, ckpt), ~ AcRefuses(c, ckpt)
  PROVE  NetworkLoads(file) /\ Kinded(file.rows)
<1> DEFINE depth == HighestLayer(ckpt, "enc")
           predLayers == HighestLayer(ckpt, "pred")
           vit == VideoVit(depth, FALSE)
           lin(r) == Linear(P(r), P(r), "matrix")
           embeds == UNION {lin(r) : r \in {"embed", "action", "state"}}
           pred == Blocks("pred", "pred", predLayers, FALSE)
<1>1. /\ file.keys.layers = depth /\ ~ file.keys.cls /\ ~ file.keys.registers
      /\ file.keys.pred = "ac" /\ file.keys.predLayers = predLayers
      /\ file.keys.pool = 0 /\ file.keys.levels = <<>>
  BY DEF AcKeys, NoKeys
<1>2. depth \in Nat \ {0} /\ predLayers \in Nat \ {0}
  <2>1. depth # 0 /\ predLayers # 0  BY DEF AcRefuses
  <2> QED  BY <2>1, HighestIsNatural
<1>3. file.rows = vit \cup embeds \cup pred \cup MaskedTail  BY DEF AcRows
<1>4. \A r \in {"embed", "action", "state"} :
        Kinded(lin(r)) /\ <<"pred", 0, r, "weight">> \in Targets(lin(r))
  <2> TAKE r \in {"embed", "action", "state"}
  <2>1. r \notin NormRoles /\ "matrix" \in Matrix  BY DEF NormRoles, Matrix
  <2> QED  BY <2>1, MatrixWrites DEF P
<1> HIDE DEF lin
<1>5. Kinded(embeds) /\ Weights("pred", 0, {"embed", "action", "state"}) \subseteq Targets(embeds)
  BY <1>4 DEF Kinded, Targets, Weights
<1>6. Kinded(vit) /\ PatchEmbed \subseteq vit /\ Blocks("enc", "enc", depth, FALSE) \subseteq vit
  BY VideoVitWrites
<1>7. Kinded(pred)  BY BlocksWrite
<1> HIDE DEF vit, embeds
<1>8. Kinded(file.rows)
  <2> HIDE DEF pred
  <2> QED  BY <1>3, <1>5, <1>6, <1>7, MaskedTailWrites DEF Kinded
<1>9. /\ Targets(embeds) \cup Targets(MaskedTail) \subseteq file.tensors
      /\ vit \subseteq file.rows /\ pred \subseteq file.rows
  <2> HIDE DEF pred
  <2> QED  BY <1>3 DEF Targets
<1>10. EncoderLoads(file)
  <2>1. PatchEmbed \subseteq file.rows /\ Blocks("enc", "enc", depth, FALSE) \subseteq file.rows
    BY <1>6, <1>9
  <2>2. \A i \in 1..depth : Weights("enc", i, LayerRoles) \subseteq Targets(file.rows)
    BY <2>1, BlocksWrite
  <2> HIDE DEF depth
  <2> QED  BY <1>1, <1>2, <2>1, <2>2, EncoderOnly
<1>11. PredictorLoads(file)
  <2>1. PredictorNeeds(file) = Weights("pred", 0, {"embed", "action", "state", "norm", "proj"})
    BY <1>1 DEF PredictorNeeds
  <2>2. Has(file, PredictorNeeds(file))
    BY <1>5, <1>9, <2>1, MaskedTailWrites DEF Has, Weights
  <2>3. \A i \in 1..predLayers : Weights("pred", i, LayerRoles) \subseteq Targets(file.rows)
    BY <1>9, BlocksWrite
  <2> HIDE DEF predLayers
  <2> QED  BY <1>1, <1>2, <2>2, <2>3, PredictorBlocksLoad
<1>12. HeadLoads(file) /\ LevelsLoad(file)
  <2>1. ~ (0 > 0)  OBVIOUS
  <2>2. DOMAIN file.keys.levels = {}  BY <1>1
  <2> QED  BY <1>1, <2>1, <2>2 DEF HeadLoads, LevelsLoad
<1> QED  BY <1>8, <1>10, <1>11, <1>12 DEF NetworkLoads

(* The tensors of a level.                                                   *)

-----------------------------------------------------------------------------
(* H-JEPA: the parts of a level, then the needs of the bottom level and of   *)
(* the upper ones, then any sequence of levels.                              *)
LEMMA SameWrites ==
  ASSUME NEW k, NEW part, NEW role, role \notin NormRoles, NEW kind \in Matrix
  PROVE  /\ Kinded(Same(k, part, role, kind))
         /\ <<Level[k], part, role, "weight">> \in Targets(Same(k, part, role, kind))
BY MatrixWrites DEF Same, Lv

LEMMA LevelNormWrites ==
  ASSUME NEW k, NEW part, NEW role, role \in NormRoles
  PROVE  /\ Kinded(NormOf(k, part, role))
         /\ <<Level[k], part, role, "weight">> \in Targets(NormOf(k, part, role))
BY NormOfWrites DEF NormOf, Lv

LEMMA ParamWrites ==
  ASSUME NEW k, NEW part, NEW role
  PROVE  Kinded(Param(k, part, role)) /\ <<Level[k], part, role, "">> \in Targets(Param(k, part, role))
BY TokenWrites DEF Param

LEMMA LevelPairWrites ==
  ASSUME NEW f, NEW g, NEW k, NEW part, NEW role, role \notin NormRoles
  PROVE  /\ Kinded(Folded(f, g, Lv(k, part, role)))
         /\ <<Level[k], part, role, "weight">> \in Targets(Folded(f, g, Lv(k, part, role)))
         /\ Kinded(Paired(f, g, Lv(k, part, role)))
         /\ <<Level[k], part, role, "weight">> \in Targets(Paired(f, g, Lv(k, part, role)))
<1> DEFINE t == Lv(k, part, role)
<1>1. Triple(t) /\ t[3] \notin NormRoles  BY DEF Triple, Lv
<1>2. <<Level[k], part, role, "weight">> = Append(t, "weight")  BY AppendedThree DEF Lv
<1> HIDE DEF t
<1>3. Targets(Folded(f, g, t)) = Both(t) /\ Kinded(Folded(f, g, t))  BY <1>1, FoldedWrites
<1>4. Targets(Paired(f, g, t)) = Both(t) /\ Kinded(Paired(f, g, t))  BY <1>1, PairedWrites
<1> QED  BY <1>2, <1>3, <1>4 DEF t, Both

Wrote(rs, s, part, roles) == Weights(s, part, roles) \subseteq Targets(rs)

LEMMA WroteMore ==
  ASSUME NEW A, NEW B, A \subseteq B, NEW s, NEW part, NEW roles, Wrote(A, s, part, roles)
  PROVE  Wrote(B, s, part, roles)
BY DEF Wrote, Targets

LEMMA MatricesWrite ==
  ASSUME NEW k, NEW part, NEW roles, roles \cap NormRoles = {}, NEW kind \in Matrix
  PROVE  /\ Kinded(UNION {Same(k, part, r, kind) : r \in roles})
         /\ Wrote(UNION {Same(k, part, r, kind) : r \in roles}, Level[k], part, roles)
<1>1. \A r \in roles : /\ Kinded(Same(k, part, r, kind))
                       /\ <<Level[k], part, r, "weight">> \in Targets(Same(k, part, r, kind))
  <2> TAKE r \in roles
  <2>1. r \notin NormRoles  OBVIOUS
  <2> QED  BY <2>1, SameWrites
<1> QED  BY <1>1 DEF Kinded, Wrote, Weights, Targets

LEMMA ProjectorWrites ==
  ASSUME NEW kind \in {"identity", "layernorm", "mlp"}, NEW k, NEW part
  PROVE  /\ Kinded(Projector(kind, k, part))
         /\ kind = "layernorm" => Wrote(Projector(kind, k, part), Level[k], part, {"proj_ln"})
         /\ kind = "mlp" => Wrote(Projector(kind, k, part), Level[k], part, {"proj0", "proj2"})
<1>1. "proj_ln" \in NormRoles /\ "proj0" \notin NormRoles /\ "proj2" \notin NormRoles /\ "quant" \in Matrix
  BY DEF NormRoles, Matrix
<1>2. CASE kind = "identity"
  <2>1. Projector(kind, k, part) = {}  BY <1>2 DEF Projector
  <2> QED  BY <1>2, <2>1 DEF Kinded
<1>3. CASE kind = "layernorm"
  <2>1. Projector(kind, k, part) = NormOf(k, part, "proj_ln")  BY <1>3 DEF Projector
  <2>2. /\ Kinded(NormOf(k, part, "proj_ln"))
        /\ <<Level[k], part, "proj_ln", "weight">> \in Targets(NormOf(k, part, "proj_ln"))
    BY <1>1, LevelNormWrites
  <2>3. kind # "mlp"  BY <1>3
  <2> QED  BY <2>1, <2>2, <2>3 DEF Wrote, Weights
<1>4. CASE kind = "mlp"
  <2> DEFINE x == Folded(Lv(k, part, "proj_net0"), Lv(k, part, "proj_net1"), Lv(k, part, "proj0"))
             y == Linear(Lv(k, part, "proj_net3"), Lv(k, part, "proj2"), "quant")
  <2>1. Projector(kind, k, part) = x \cup y  BY <1>4 DEF Projector
  <2>2. Kinded(x) /\ <<Level[k], part, "proj0", "weight">> \in Targets(x)  BY <1>1, LevelPairWrites
  <2>3. Kinded(y) /\ <<Level[k], part, "proj2", "weight">> \in Targets(y)  BY <1>1, MatrixWrites DEF Lv
  <2> HIDE DEF x, y
  <2> QED  BY <1>4, <2>1, <2>2, <2>3 DEF Kinded, Wrote, Weights, Targets
<1> QED  BY <1>2, <1>3, <1>4

LEMMA RolesApart ==
  /\ {"proprio0", "proprio2", "fc1", "fc2", "step", "head0", "head2", "0", "2", "adaln", "qkv", "out",
      "up", "down", "act_embed0", "act_embed2", "in_proj", "cond_proj", "out_proj"} \cap NormRoles = {}
  /\ {"proprio_ln", "in_norm", "out_norm", "head_ln", "norm", "ln1", "ln2"} \subseteq NormRoles
  /\ "quant" \in Matrix /\ "matrix" \in Matrix
BY DEF NormRoles, Matrix

LEMMA Level1EncoderWrites ==
  ASSUME NEW lv \in LevelChoices
  PROVE  /\ Kinded(Level1Encoder(lv))
         /\ lv.proj = "mlp" => Wrote(Level1Encoder(lv), Level[1], "enc", {"proj0", "proj2"})
         /\ lv.proj = "layernorm" => Wrote(Level1Encoder(lv), Level[1], "enc", {"proj_ln"})
         /\ lv.enc = "fusion" => Wrote(Level1Encoder(lv), Level[1], "enc", {"proprio0", "proprio_ln", "proprio2"})
<1> DEFINE p == Projector(lv.proj, 1, "enc")
           a == Same(1, "enc", "proprio0", "matrix")
           b == NormOf(1, "enc", "proprio_ln")
           d == Same(1, "enc", "proprio2", "matrix")
           f == a \cup b \cup d
<1>1. lv.proj \in {"identity", "layernorm", "mlp"}  BY DEF LevelChoices
<1>2. Level1Encoder(lv) = p \cup (IF lv.enc = "fusion" THEN f ELSE {})  BY DEF Level1Encoder
<1>3. /\ Kinded(a) /\ <<Level[1], "enc", "proprio0", "weight">> \in Targets(a)
      /\ Kinded(d) /\ <<Level[1], "enc", "proprio2", "weight">> \in Targets(d)
  BY RolesApart, SameWrites
<1>4. Kinded(b) /\ <<Level[1], "enc", "proprio_ln", "weight">> \in Targets(b)
  BY RolesApart, LevelNormWrites
<1>5. /\ Kinded(p)
      /\ lv.proj = "layernorm" => Wrote(p, Level[1], "enc", {"proj_ln"})
      /\ lv.proj = "mlp" => Wrote(p, Level[1], "enc", {"proj0", "proj2"})
  BY <1>1, ProjectorWrites
<1> HIDE DEF p, a, b, d
<1>6. Kinded(f) /\ Wrote(f, Level[1], "enc", {"proprio0", "proprio_ln", "proprio2"})
  BY <1>3, <1>4 DEF Kinded, Wrote, Weights, Targets
<1> HIDE DEF f
<1>7. Kinded(Level1Encoder(lv))  BY <1>2, <1>5, <1>6 DEF Kinded
<1>8. p \subseteq Level1Encoder(lv) /\ (lv.enc = "fusion" => f \subseteq Level1Encoder(lv))  BY <1>2
<1> QED  BY <1>5, <1>6, <1>7, <1>8, WroteMore

LEMMA UpperEncoderWrites ==
  ASSUME NEW lv \in LevelChoices, NEW k
  PROVE  /\ Kinded(UpperEncoder(lv, k))
         /\ lv.enc # "identity" => Wrote(UpperEncoder(lv, k), Level[k], "enc", {"in_norm", "fc1", "fc2"})
<1> DEFINE a == NormOf(k, "enc", "in_norm")
           b == Same(k, "enc", "fc1", "quant")
           d == Same(k, "enc", "fc2", "quant")
           n == NormOf(k, "enc", "out_norm")
           last == IF lv.enc = "mlp_norm" THEN n ELSE {}
<1>1. UpperEncoder(lv, k) = IF lv.enc = "identity" THEN {} ELSE a \cup b \cup d \cup last
  BY DEF UpperEncoder
<1>2. /\ Kinded(b) /\ <<Level[k], "enc", "fc1", "weight">> \in Targets(b)
      /\ Kinded(d) /\ <<Level[k], "enc", "fc2", "weight">> \in Targets(d)
  BY RolesApart, SameWrites
<1>3. Kinded(a) /\ <<Level[k], "enc", "in_norm", "weight">> \in Targets(a) /\ Kinded(n)
  BY RolesApart, LevelNormWrites
<1> HIDE DEF a, b, d, n
<1>4. Kinded(last)  BY <1>3 DEF Kinded
<1> HIDE DEF last
<1>5. CASE lv.enc = "identity"
  <2>1. UpperEncoder(lv, k) = {}  BY <1>1, <1>5
  <2> QED  BY <1>5, <2>1 DEF Kinded
<1>6. CASE lv.enc # "identity"
  <2>1. UpperEncoder(lv, k) = a \cup b \cup d \cup last  BY <1>1, <1>6
  <2> QED  BY <1>2, <1>3, <1>4, <2>1 DEF Kinded, Wrote, Weights, Targets
<1> QED  BY <1>5, <1>6

LEMMA ActionBlockWrites ==
  ASSUME NEW k
  PROVE  Kinded(ActionBlock(k)) /\ Wrote(ActionBlock(k), Level[k], "act_blk", LayerRoles)
<1> DEFINE norms == UNION {NormOf(k, "act_blk", r) : r \in {"ln1", "ln2"}}
           roles == {"qkv", "out", "up", "down"}
           mats == UNION {Same(k, "act_blk", r, "matrix") : r \in roles}
<1>1. ActionBlock(k) = norms \cup mats  BY DEF ActionBlock
<1>2. \A r \in {"ln1", "ln2"} : /\ Kinded(NormOf(k, "act_blk", r))
                                /\ <<Level[k], "act_blk", r, "weight">> \in Targets(NormOf(k, "act_blk", r))
  <2> TAKE r \in {"ln1", "ln2"}
  <2>1. r \in NormRoles  BY RolesApart
  <2> QED  BY <2>1, LevelNormWrites
<1>3. Kinded(norms) /\ \A r \in {"ln1", "ln2"} : <<Level[k], "act_blk", r, "weight">> \in Targets(norms)
  BY <1>2 DEF Kinded, Targets
<1>4. Kinded(mats) /\ Wrote(mats, Level[k], "act_blk", roles)
  <2>1. roles \cap NormRoles = {} /\ "matrix" \in Matrix  BY RolesApart
  <2> HIDE DEF roles
  <2> QED  BY <2>1, MatricesWrite
<1> HIDE DEF norms, mats
<1>5. Kinded(ActionBlock(k))  BY <1>1, <1>3, <1>4 DEF Kinded
<1>6. ASSUME NEW r \in LayerRoles  PROVE <<Level[k], "act_blk", r, "weight">> \in Targets(ActionBlock(k))
  <2>1. Targets(norms) \cup Targets(mats) \subseteq Targets(ActionBlock(k))  BY <1>1 DEF Targets
  <2> QED  BY <2>1, <1>3, <1>4 DEF LayerRoles, Wrote, Weights
<1> QED  BY <1>5, <1>6 DEF Wrote, Weights

SeqRoles == {"step", "head0", "head_ln", "head2", "out_norm"}

LEMMA ActionEncoderWrites ==
  ASSUME NEW lv \in LevelChoices, NEW k
  PROVE  /\ Kinded(ActionEncoder(lv, k))
         /\ lv.acts = "seq" =>
              /\ Wrote(ActionEncoder(lv, k), Level[k], "act_enc", SeqRoles)
              /\ <<Level[k], "act_enc", "pos", "">> \in Targets(ActionEncoder(lv, k))
              /\ Wrote(ActionEncoder(lv, k), Level[k], "act_blk", LayerRoles)
         /\ lv.acts # "seq" => Wrote(ActionEncoder(lv, k), Level[k], "act_enc", {"fc1", "fc2"})
<1>1. CASE lv.acts = "seq"
  <2> DEFINE a == Same(k, "act_enc", "step", "matrix")
             p == Param(k, "act_enc", "pos")
             b == ActionBlock(k)
             h0 == Same(k, "act_enc", "head0", "matrix")
             n == NormOf(k, "act_enc", "head_ln")
             h2 == Same(k, "act_enc", "head2", "matrix")
             o == NormOf(k, "act_enc", "out_norm")
  <2>1. ActionEncoder(lv, k) = a \cup p \cup b \cup h0 \cup n \cup h2 \cup o  BY <1>1 DEF ActionEncoder
  <2>2. /\ Kinded(a) /\ <<Level[k], "act_enc", "step", "weight">> \in Targets(a)
        /\ Kinded(h0) /\ <<Level[k], "act_enc", "head0", "weight">> \in Targets(h0)
        /\ Kinded(h2) /\ <<Level[k], "act_enc", "head2", "weight">> \in Targets(h2)
    BY RolesApart, SameWrites
  <2>3. /\ Kinded(n) /\ <<Level[k], "act_enc", "head_ln", "weight">> \in Targets(n)
        /\ Kinded(o) /\ <<Level[k], "act_enc", "out_norm", "weight">> \in Targets(o)
    BY RolesApart, LevelNormWrites
  <2>4. Kinded(p) /\ <<Level[k], "act_enc", "pos", "">> \in Targets(p)  BY ParamWrites
  <2>5. Kinded(b) /\ Wrote(b, Level[k], "act_blk", LayerRoles)  BY ActionBlockWrites
  <2> HIDE DEF a, p, b, h0, n, h2, o
  <2>6. Kinded(ActionEncoder(lv, k))  BY <2>1, <2>2, <2>3, <2>4, <2>5 DEF Kinded
  <2>7. /\ Targets(a) \cup Targets(p) \cup Targets(h0) \cup Targets(n) \cup Targets(h2) \cup Targets(o)
             \subseteq Targets(ActionEncoder(lv, k))
        /\ b \subseteq ActionEncoder(lv, k)
    BY <2>1 DEF Targets
  <2>8. ASSUME NEW r \in SeqRoles  PROVE <<Level[k], "act_enc", r, "weight">> \in Targets(ActionEncoder(lv, k))
    BY <2>2, <2>3, <2>7 DEF SeqRoles
  <2>9. Wrote(ActionEncoder(lv, k), Level[k], "act_enc", SeqRoles)  BY <2>8 DEF Wrote, Weights
  <2>10. Wrote(ActionEncoder(lv, k), Level[k], "act_blk", LayerRoles)  BY <2>5, <2>7, WroteMore
  <2>11. <<Level[k], "act_enc", "pos", "">> \in Targets(ActionEncoder(lv, k))  BY <2>4, <2>7
  <2> QED  BY <1>1, <2>6, <2>9, <2>10, <2>11
<1>2. CASE lv.acts # "seq"
  <2> DEFINE a == Same(k, "act_enc", "fc1", "matrix")
             b == Same(k, "act_enc", "fc2", "matrix")
             n == NormOf(k, "act_enc", "out_norm")
             last == IF lv.acts = "mlp_norm" THEN n ELSE {}
  <2>1. ActionEncoder(lv, k) = a \cup b \cup last  BY <1>2 DEF ActionEncoder
  <2>2. /\ Kinded(a) /\ <<Level[k], "act_enc", "fc1", "weight">> \in Targets(a)
        /\ Kinded(b) /\ <<Level[k], "act_enc", "fc2", "weight">> \in Targets(b)
    BY RolesApart, SameWrites
  <2>3. Kinded(n)  BY RolesApart, LevelNormWrites
  <2> HIDE DEF a, b, n
  <2>4. Kinded(last)  BY <2>3 DEF Kinded
  <2> HIDE DEF last
  <2>5. Kinded(ActionEncoder(lv, k))  BY <2>1, <2>2, <2>4 DEF Kinded
  <2>6. Wrote(ActionEncoder(lv, k), Level[k], "act_enc", {"fc1", "fc2"})
    BY <2>1, <2>2 DEF Wrote, Weights, Targets
  <2> QED  BY <1>2, <2>5, <2>6
<1> QED  BY <1>1, <1>2

LEMMA EmbedderWrites ==
  ASSUME NEW lv \in LevelChoices, NEW k
  PROVE  /\ Kinded(Embedder(lv, k))
         /\ lv.embed # "identity" => Wrote(Embedder(lv, k), Level[k], "act_embed", {"2"})
<1> DEFINE a == Same(k, "act_embed", "0", "matrix")
           b == Same(k, "act_embed", "2", "matrix")
           p == Paired(Lv(k, "act_embed", "conv"), Lv(k, "act_embed", "0"), Lv(k, "act_embed", "0"))
<1>1. lv.embed \in {"identity", "embedder", "conv"}  BY DEF LevelChoices
<1>2. /\ lv.embed = "identity" => Embedder(lv, k) = {}
      /\ lv.embed = "embedder" => Embedder(lv, k) = a \cup b
      /\ lv.embed = "conv" => Embedder(lv, k) = p \cup b
  BY DEF Embedder
<1>3. Kinded(a) /\ Kinded(b) /\ <<Level[k], "act_embed", "2", "weight">> \in Targets(b)
  BY RolesApart, SameWrites
<1>4. Kinded(p)  BY RolesApart, LevelPairWrites
<1> HIDE DEF a, b, p
<1>5. CASE Embedder(lv, k) = {} /\ lv.embed = "identity"  BY <1>5 DEF Kinded
<1>6. CASE \E x \in {a, p} : Embedder(lv, k) = x \cup b
  <2>1. PICK x \in {a, p} : Embedder(lv, k) = x \cup b  BY <1>6
  <2>2. Kinded(x)  BY <1>3, <1>4
  <2> QED  BY <1>3, <2>1, <2>2 DEF Kinded, Wrote, Weights, Targets
<1> QED  BY <1>1, <1>2, <1>5, <1>6

BlockMatrices == {"adaln", "qkv", "out", "up", "down"}

LEMMA PredictorBlockWrites ==
  ASSUME NEW lv \in LevelChoices, NEW k
  PROVE  /\ Kinded(PredictorBlock(lv, k))
         /\ Wrote(PredictorBlock(lv, k), Level[k], "pred_blk", BlockMatrices)
         /\ ~ lv.bare => Wrote(PredictorBlock(lv, k), Level[k], "pred_blk", {"ln1", "ln2"})
<1> DEFINE a == Same(k, "pred_blk", "adaln", "matrix")
           w == Weight(Lv(k, "pred_blk", "qkv"), Lv(k, "pred_blk", "qkv"), "quant")
           roles == {"out", "up", "down"}
           mats == UNION {Same(k, "pred_blk", r, "quant") : r \in roles}
           n1 == NormOf(k, "pred_blk", "ln1")
           n2 == NormOf(k, "pred_blk", "ln2")
           norms == IF lv.bare THEN {} ELSE n1 \cup n2
<1>1. PredictorBlock(lv, k) = a \cup w \cup mats \cup norms  BY DEF PredictorBlock
<1>2. Kinded(a) /\ <<Level[k], "pred_blk", "adaln", "weight">> \in Targets(a)  BY RolesApart, SameWrites
<1>3. Kinded(w) /\ <<Level[k], "pred_blk", "qkv", "weight">> \in Targets(w)
  <2>1. "qkv" \notin NormRoles  BY RolesApart
  <2> QED  BY <2>1, RolesApart, MatrixWrites DEF Lv
<1>4. Kinded(mats) /\ Wrote(mats, Level[k], "pred_blk", roles)
  <2>1. roles \cap NormRoles = {} /\ "quant" \in Matrix  BY RolesApart
  <2> HIDE DEF roles
  <2> QED  BY <2>1, MatricesWrite
<1>5. /\ Kinded(n1) /\ <<Level[k], "pred_blk", "ln1", "weight">> \in Targets(n1)
      /\ Kinded(n2) /\ <<Level[k], "pred_blk", "ln2", "weight">> \in Targets(n2)
  BY RolesApart, LevelNormWrites
<1> HIDE DEF a, w, mats, n1, n2
<1>6. Kinded(norms)  BY <1>5 DEF Kinded
<1>7. ~ lv.bare => Wrote(norms, Level[k], "pred_blk", {"ln1", "ln2"})
  BY <1>5 DEF Wrote, Weights, Targets
<1> HIDE DEF norms
<1>8. Kinded(PredictorBlock(lv, k))  BY <1>1, <1>2, <1>3, <1>4, <1>6 DEF Kinded
<1>9. ~ lv.bare => Wrote(PredictorBlock(lv, k), Level[k], "pred_blk", {"ln1", "ln2"})
  <2>1. norms \subseteq PredictorBlock(lv, k)  BY <1>1
  <2> QED  BY <1>7, <2>1, WroteMore
<1>10. ASSUME NEW r \in BlockMatrices
       PROVE  <<Level[k], "pred_blk", r, "weight">> \in Targets(PredictorBlock(lv, k))
  <2>1. Targets(a) \cup Targets(w) \cup Targets(mats) \subseteq Targets(PredictorBlock(lv, k))
    BY <1>1 DEF Targets
  <2> QED  BY <2>1, <1>2, <1>3, <1>4 DEF BlockMatrices, Wrote, Weights
<1> QED  BY <1>8, <1>9, <1>10 DEF Wrote, Weights

LEMMA PredictorWrites ==
  ASSUME NEW lv \in LevelChoices, NEW k
  PROVE  /\ Kinded(Predictor(lv, k)) /\ PredictorBlock(lv, k) \subseteq Predictor(lv, k)
         /\ <<Level[k], "pred", "pos", "">> \in Targets(Predictor(lv, k))
         /\ Wrote(Predictor(lv, k), Level[k], "pred", {"norm"})
         /\ Wrote(Predictor(lv, k), Level[k], "pred", lv.ports)
         /\ lv.bare => Wrote(Predictor(lv, k), Level[k], "pred", {"act_embed0", "act_embed2"})
         /\ ~ lv.bare /\ lv.tail = "mlp" => Wrote(Predictor(lv, k), Level[k], "pred", {"proj0", "proj2"})
<1> DEFINE p == Param(k, "pred", "pos")
           n == NormOf(k, "pred", "norm")
           b == PredictorBlock(lv, k)
           ports == UNION {Same(k, "pred", r, "quant") : r \in lv.ports}
           e0 == Same(k, "pred", "act_embed0", "matrix")
           e2 == Same(k, "pred", "act_embed2", "matrix")
           tail == Projector(lv.tail, k, "pred")
           last == IF lv.bare THEN e0 \cup e2 ELSE tail
<1>1. Predictor(lv, k) = p \cup n \cup b \cup ports \cup last  BY DEF Predictor
<1>2. Kinded(p) /\ <<Level[k], "pred", "pos", "">> \in Targets(p)  BY ParamWrites
<1>3. Kinded(n) /\ <<Level[k], "pred", "norm", "weight">> \in Targets(n)  BY RolesApart, LevelNormWrites
<1>4. Kinded(b)  BY PredictorBlockWrites
<1>5. Kinded(ports) /\ Wrote(ports, Level[k], "pred", lv.ports)
  <2>1. lv.ports \cap NormRoles = {} /\ "quant" \in Matrix  BY RolesApart DEF LevelChoices, Ports
  <2> QED  BY <2>1, MatricesWrite
<1>6. /\ Kinded(e0) /\ <<Level[k], "pred", "act_embed0", "weight">> \in Targets(e0)
      /\ Kinded(e2) /\ <<Level[k], "pred", "act_embed2", "weight">> \in Targets(e2)
  BY RolesApart, SameWrites
<1>7. Kinded(tail) /\ (lv.tail = "mlp" => Wrote(tail, Level[k], "pred", {"proj0", "proj2"}))
  <2>1. lv.tail \in {"identity", "layernorm", "mlp"}  BY DEF LevelChoices
  <2> QED  BY <2>1, ProjectorWrites
<1> HIDE DEF p, n, ports, e0, e2, tail
<1>8. Kinded(last)  BY <1>6, <1>7 DEF Kinded
<1>9. /\ lv.bare => Wrote(last, Level[k], "pred", {"act_embed0", "act_embed2"})
      /\ ~ lv.bare /\ lv.tail = "mlp" => Wrote(last, Level[k], "pred", {"proj0", "proj2"})
  <2>1. CASE lv.bare
    <3>1. last = e0 \cup e2  BY <2>1
    <3> HIDE DEF last
    <3> QED  BY <2>1, <3>1, <1>6 DEF Wrote, Weights, Targets
  <2>2. CASE ~ lv.bare
    <3>1. last = tail  BY <2>2
    <3> QED  BY <2>2, <3>1, <1>7
  <2> QED  BY <2>1, <2>2
<1> HIDE DEF b, last
<1>10. Kinded(Predictor(lv, k))  BY <1>1, <1>2, <1>3, <1>4, <1>5, <1>8 DEF Kinded
<1>11. /\ last \subseteq Predictor(lv, k) /\ ports \subseteq Predictor(lv, k) /\ b \subseteq Predictor(lv, k)
       /\ Targets(p) \cup Targets(n) \subseteq Targets(Predictor(lv, k))
  BY <1>1 DEF Targets
<1>12. Wrote(Predictor(lv, k), Level[k], "pred", {"norm"})  BY <1>3, <1>11 DEF Wrote, Weights
<1>13. Wrote(Predictor(lv, k), Level[k], "pred", lv.ports)  BY <1>5, <1>11, WroteMore
<1>14. /\ lv.bare => Wrote(Predictor(lv, k), Level[k], "pred", {"act_embed0", "act_embed2"})
       /\ ~ lv.bare /\ lv.tail = "mlp" => Wrote(Predictor(lv, k), Level[k], "pred", {"proj0", "proj2"})
  BY <1>9, <1>11, WroteMore
<1> QED  BY <1>2, <1>10, <1>11, <1>12, <1>13, <1>14 DEF b

(* What a level is asked for, in the order LevelNeeds names it.              *)
BottomNeeds(lv) ==
    (CASE lv.proj = "mlp" -> Need(1, "enc", {"proj0", "proj2"})
       [] lv.proj = "layernorm" -> Need(1, "enc", {"proj_ln"})
       [] lv.proj = "identity" -> {})
    \cup IF lv.enc = "fusion" THEN Need(1, "enc", {"proprio0", "proprio_ln", "proprio2"}) ELSE {}
UpperNeeds(lv, k) ==
    (IF lv.enc = "identity" THEN {} ELSE Need(k, "enc", {"in_norm", "fc1", "fc2"}))
    \cup IF lv.acts = "seq"
         THEN Need(k, "act_enc", {"step", "head0", "head_ln", "head2", "out_norm"})
              \cup {<<Level[k], "act_enc", "pos", "">>}
              \cup Need(k, "act_blk", {"ln1", "ln2", "qkv", "out", "up", "down"})
         ELSE Need(k, "act_enc", {"fc1", "fc2"})
PredictionNeeds(lv, k) ==
    IF lv.bare THEN Need(k, "pred", {"act_embed0", "act_embed2"}) ELSE Need(k, "pred_blk", {"ln1", "ln2"})

LEMMA LevelNeedsAre ==
  ASSUME NEW lv, NEW k
  PROVE  LevelNeeds(lv, k) =
           (IF k = 1 THEN BottomNeeds(lv) ELSE UpperNeeds(lv, k))
           \cup {<<Level[k], "pred", "pos", "">>} \cup Need(k, "pred", {"norm"})
           \cup PredictionNeeds(lv, k) \cup Need(k, "pred_blk", BlockMatrices)
<1>1. CASE k = 1  BY <1>1 DEF LevelNeeds, BottomNeeds, PredictionNeeds, BlockMatrices
<1>2. CASE k # 1  BY <1>2 DEF LevelNeeds, UpperNeeds, PredictionNeeds, BlockMatrices
<1> QED  BY <1>1, <1>2

LEMMA BottomNeedsMet ==
  ASSUME NEW lv \in LevelChoices
  PROVE  BottomNeeds(lv) \subseteq Targets(Level1Encoder(lv))
<1>1. lv.proj \in {"identity", "layernorm", "mlp"}  BY DEF LevelChoices
<1> DEFINE p == CASE lv.proj = "mlp" -> Need(1, "enc", {"proj0", "proj2"})
                  [] lv.proj = "layernorm" -> Need(1, "enc", {"proj_ln"})
                  [] lv.proj = "identity" -> {}
           e == IF lv.enc = "fusion" THEN Need(1, "enc", {"proprio0", "proprio_ln", "proprio2"}) ELSE {}
<1>2. BottomNeeds(lv) = p \cup e  BY DEF BottomNeeds
<1>3. p \subseteq Targets(Level1Encoder(lv))
  <2>1. CASE lv.proj = "mlp"
    <3>1. p = Need(1, "enc", {"proj0", "proj2"})  BY <2>1
    <3> QED  BY <2>1, <3>1, Level1EncoderWrites DEF Wrote, Need
  <2>2. CASE lv.proj = "layernorm"
    <3>1. p = Need(1, "enc", {"proj_ln"})  BY <2>2
    <3> QED  BY <2>2, <3>1, Level1EncoderWrites DEF Wrote, Need
  <2>3. CASE lv.proj = "identity"  BY <2>3
  <2> QED  BY <1>1, <2>1, <2>2, <2>3
<1>4. e \subseteq Targets(Level1Encoder(lv))
  <2>1. CASE lv.enc = "fusion"  BY <2>1, Level1EncoderWrites DEF Wrote, Need
  <2>2. CASE lv.enc # "fusion"  BY <2>2
  <2> QED  BY <2>1, <2>2
<1> HIDE DEF p, e
<1> QED  BY <1>2, <1>3, <1>4

LEMMA UpperNeedsMet ==
  ASSUME NEW lv \in LevelChoices, NEW k
  PROVE  UpperNeeds(lv, k) \subseteq Targets(UpperEncoder(lv, k) \cup ActionEncoder(lv, k))
<1> DEFINE e == IF lv.enc = "identity" THEN {} ELSE Need(k, "enc", {"in_norm", "fc1", "fc2"})
           s == Need(k, "act_enc", {"step", "head0", "head_ln", "head2", "out_norm"})
                \cup {<<Level[k], "act_enc", "pos", "">>}
                \cup Need(k, "act_blk", {"ln1", "ln2", "qkv", "out", "up", "down"})
           a == IF lv.acts = "seq" THEN s ELSE Need(k, "act_enc", {"fc1", "fc2"})
<1>1. UpperNeeds(lv, k) = e \cup a  BY DEF UpperNeeds
<1>2. e \subseteq Targets(UpperEncoder(lv, k))
  <2>1. CASE lv.enc = "identity"  BY <2>1
  <2>2. CASE lv.enc # "identity"  BY <2>2, UpperEncoderWrites DEF Wrote, Need
  <2> QED  BY <2>1, <2>2
<1>3. a \subseteq Targets(ActionEncoder(lv, k))
  <2>1. CASE lv.acts = "seq"
    <3>1. a = s  BY <2>1
    <3>2. s \subseteq Targets(ActionEncoder(lv, k))
      BY <2>1, ActionEncoderWrites DEF Wrote, Need, SeqRoles, LayerRoles
    <3> QED  BY <3>1, <3>2
  <2>2. CASE lv.acts # "seq"
    <3>1. a = Need(k, "act_enc", {"fc1", "fc2"})  BY <2>2
    <3> QED  BY <2>2, <3>1, ActionEncoderWrites DEF Wrote, Need
  <2> QED  BY <2>1, <2>2
<1> HIDE DEF e, a
<1> QED  BY <1>1, <1>2, <1>3 DEF Targets

LEMMA LevelRowsLoad ==
  ASSUME NEW lv \in LevelChoices, NEW k, WidthsAgree(lv), NEW file,
         file.tensors = Targets(file.rows), LevelRows(lv, k) \subseteq file.rows
  PROVE  LevelLoads(file, lv, k) /\ Kinded(LevelRows(lv, k))
<1> DEFINE enc == IF k = 1 THEN Level1Encoder(lv) ELSE UpperEncoder(lv, k) \cup ActionEncoder(lv, k)
           embed == Embedder(lv, k)
           pred == Predictor(lv, k)
           param == Param(k, "act_queue", "queue")
           queue == IF lv.queue = "full" THEN param ELSE {}
           needs == IF k = 1 THEN BottomNeeds(lv) ELSE UpperNeeds(lv, k)
<1>1. LevelRows(lv, k) = enc \cup embed \cup pred \cup queue  BY DEF LevelRows
<1>2. Kinded(enc) /\ needs \subseteq Targets(enc)
  <2>1. CASE k = 1  BY <2>1, Level1EncoderWrites, BottomNeedsMet
  <2>2. CASE k # 1
    <3>1. Kinded(UpperEncoder(lv, k) \cup ActionEncoder(lv, k))
      BY UpperEncoderWrites, ActionEncoderWrites DEF Kinded
    <3> QED  BY <2>2, <3>1, UpperNeedsMet
  <2> QED  BY <2>1, <2>2
<1>3. Kinded(embed) /\ (lv.embed # "identity" => Wrote(embed, Level[k], "act_embed", {"2"}))
  BY EmbedderWrites
<1>4. /\ Kinded(pred) /\ PredictorBlock(lv, k) \subseteq pred
      /\ <<Level[k], "pred", "pos", "">> \in Targets(pred)
      /\ Wrote(pred, Level[k], "pred", {"norm"}) /\ Wrote(pred, Level[k], "pred", lv.ports)
      /\ lv.bare => Wrote(pred, Level[k], "pred", {"act_embed0", "act_embed2"})
      /\ ~ lv.bare /\ lv.tail = "mlp" => Wrote(pred, Level[k], "pred", {"proj0", "proj2"})
  BY PredictorWrites
<1>5. Kinded(param)  BY ParamWrites
<1> HIDE DEF param
<1>6. Kinded(queue)  BY <1>5 DEF Kinded
<1>7. /\ Wrote(pred, Level[k], "pred_blk", BlockMatrices)
      /\ ~ lv.bare => Wrote(pred, Level[k], "pred_blk", {"ln1", "ln2"})
  BY <1>4, PredictorBlockWrites, WroteMore
<1>8. PredictionNeeds(lv, k) \subseteq Targets(pred)
  <2>1. CASE lv.bare  BY <2>1, <1>4 DEF PredictionNeeds, Wrote, Need
  <2>2. CASE ~ lv.bare  BY <2>2, <1>7 DEF PredictionNeeds, Wrote, Need
  <2> QED  BY <2>1, <2>2
<1>9. LevelNeeds(lv, k) = needs \cup {<<Level[k], "pred", "pos", "">>} \cup Need(k, "pred", {"norm"})
                          \cup PredictionNeeds(lv, k) \cup Need(k, "pred_blk", BlockMatrices)
  BY LevelNeedsAre
<1> HIDE DEF enc, embed, pred, queue, needs
<1>10. Kinded(LevelRows(lv, k))  BY <1>1, <1>2, <1>3, <1>4, <1>6 DEF Kinded
<1>11. Targets(enc) \cup Targets(embed) \cup Targets(pred) \subseteq file.tensors
  <2>1. enc \subseteq file.rows /\ embed \subseteq file.rows /\ pred \subseteq file.rows  BY <1>1
  <2> QED  BY <2>1 DEF Targets
<1>12. Has(file, LevelNeeds(lv, k))
  <2>1. Need(k, "pred", {"norm"}) \cup Need(k, "pred_blk", BlockMatrices) \subseteq Targets(pred)
    BY <1>4, <1>7 DEF Wrote, Need
  <2> QED  BY <1>2, <1>4, <1>8, <1>9, <1>11, <2>1 DEF Has
<1>13. lv.embed # "identity" => Has(file, Need(k, "act_embed", {"2"}))
  BY <1>3, <1>11 DEF Has, Wrote, Need
<1>14. lv.narrow => /\ Has(file, Need(k, "pred", {"in_proj", "cond_proj"}))
                    /\ \/ Has(file, Need(k, "pred", {"out_proj"}))
                       \/ Has(file, Need(k, "pred", {"proj0", "proj2"}))
  <2> HAVE lv.narrow
  <2>1. {"in_proj", "cond_proj"} \subseteq lv.ports /\ ("out_proj" \in lv.ports \/ (~ lv.bare /\ lv.tail = "mlp"))
    BY DEF WidthsAgree
  <2>2. \A r \in lv.ports : <<Level[k], "pred", r, "weight">> \in file.tensors
    BY <1>4, <1>11 DEF Wrote, Weights
  <2>3. Has(file, Need(k, "pred", {"in_proj", "cond_proj"}))  BY <2>1, <2>2 DEF Has, Need, Weights
  <2>4. CASE "out_proj" \in lv.ports
    <3>1. Has(file, Need(k, "pred", {"out_proj"}))  BY <2>2, <2>4 DEF Has, Need, Weights
    <3> QED  BY <2>3, <3>1
  <2>5. CASE ~ lv.bare /\ lv.tail = "mlp"
    <3>1. Has(file, Need(k, "pred", {"proj0", "proj2"}))  BY <1>4, <1>11, <2>5 DEF Has, Need, Wrote
    <3> QED  BY <2>3, <3>1
  <2> QED  BY <2>1, <2>4, <2>5
<1> QED  BY <1>10, <1>12, <1>13, <1>14 DEF LevelLoads

(* A converter that finds no layer takes nothing from one: the rows of the   *)
(* levels, and those of a ViT without layers, come from elsewhere.           *)
Aloof(x) == x[1] # "enc" \/ x[2] = 0
NoLayerTaken(rs) == \A r \in rs : \A x \in r.from : Aloof(x)

LEMMA AloofNames ==
  ASSUME NEW a, NEW b, NEW c, a # "enc" \/ b = 0
  PROVE  \A d : Aloof(Append(<<a, b, c>>, d)) /\ Aloof(<<a, b, c, d>>)
<1> TAKE d
<1>1. Append(<<a, b, c>>, d) = <<a, b, c, d>>  BY AppendedThree
<1>2. <<a, b, c, d>>[1] = a /\ <<a, b, c, d>>[2] = b  OBVIOUS
<1>3. Aloof(<<a, b, c, d>>)  BY <1>2 DEF Aloof
<1> QED  BY <1>1, <1>3

LEMMA AloofRow ==
  ASSUME NEW S, \A x \in S : Aloof(x), NEW to, NEW kind
  PROVE  NoLayerTaken({Row(S, to, kind)})
<1>1. Row(S, to, kind).from = S  BY DEF Row
<1> QED  BY <1>1 DEF NoLayerTaken

LEMMA AloofRows ==
  ASSUME NEW a, NEW b, NEW c, a # "enc" \/ b = 0, NEW to, NEW kind
  PROVE  /\ NoLayerTaken(Weight(<<a, b, c>>, to, kind)) /\ NoLayerTaken(Linear(<<a, b, c>>, to, kind))
         /\ NoLayerTaken(Norm(<<a, b, c>>, to))
         /\ \A d : NoLayerTaken(Copy(<<a, b, c, d>>, to, kind))
<1> DEFINE t == <<a, b, c>>
<1>1. \A d : Aloof(Append(t, d)) /\ Aloof(<<a, b, c, d>>)  BY AloofNames
<1>2. \A x, y, z : Aloof(x) => NoLayerTaken(Copy(x, y, z))
  <2> TAKE x, y, z
  <2> HAVE Aloof(x)
  <2>1. \A w \in {x} : Aloof(w)  OBVIOUS
  <2> QED  BY <2>1, AloofRow DEF Copy
<1> HIDE DEF t
<1>3. NoLayerTaken(Weight(t, to, kind)) /\ NoLayerTaken(Bias(t, to)) /\ NoLayerTaken(Weight(t, to, "plain"))
  BY <1>1, <1>2 DEF Weight, Bias
<1>4. NoLayerTaken(Linear(t, to, kind)) /\ NoLayerTaken(Norm(t, to))
  BY <1>3 DEF Linear, Norm, NoLayerTaken
<1>5. \A d : NoLayerTaken(Copy(<<a, b, c, d>>, to, kind))  BY <1>1, <1>2
<1> QED  BY <1>3, <1>4, <1>5 DEF t

LEMMA LevelPartsAloof ==
  ASSUME NEW k, Level[k] # "enc", NEW part
  PROVE  /\ \A role, kind : NoLayerTaken(Same(k, part, role, kind))
         /\ \A role : NoLayerTaken(NormOf(k, part, role)) /\ NoLayerTaken(Param(k, part, role))
         /\ \A role, to, kind : /\ NoLayerTaken(Weight(Lv(k, part, role), to, kind))
                                /\ NoLayerTaken(Linear(Lv(k, part, role), to, kind))
         /\ \A f, g, to : /\ NoLayerTaken(Folded(Lv(k, part, f), Lv(k, part, g), to))
                          /\ NoLayerTaken(Paired(Lv(k, part, f), Lv(k, part, g), to))
<1>1. \A role : Lv(k, part, role) = <<Level[k], part, role>>  BY DEF Lv
<1>2. \A role, to, kind : /\ NoLayerTaken(Weight(Lv(k, part, role), to, kind))
                          /\ NoLayerTaken(Linear(Lv(k, part, role), to, kind))
                          /\ NoLayerTaken(Norm(Lv(k, part, role), to))
  BY <1>1, AloofRows
<1>3. \A role : NoLayerTaken(Param(k, part, role))
  <2>1. \A role, d, to, kind : NoLayerTaken(Copy(<<Level[k], part, role, d>>, to, kind))  BY AloofRows
  <2> QED  BY <2>1, Zenon DEF Param
<1>4. ASSUME NEW f, NEW g, NEW to
      PROVE  /\ NoLayerTaken(Folded(Lv(k, part, f), Lv(k, part, g), to))
             /\ NoLayerTaken(Paired(Lv(k, part, f), Lv(k, part, g), to))
  <2> DEFINE x == Lv(k, part, f)
             y == Lv(k, part, g)
             S == {Append(x, "weight"), Append(x, "bias")} \cup {Append(y, p) : p \in BatchNorm}
             T == {Append(z, p) : z \in {x, y}, p \in {"weight", "bias"}}
  <2>1. \A d : Aloof(Append(x, d)) /\ Aloof(Append(y, d))  BY <1>1, AloofNames
  <2> HIDE DEF x, y
  <2>2. (\A w \in S : Aloof(w)) /\ (\A w \in T : Aloof(w))
    <3>1. ASSUME NEW w \in S  PROVE Aloof(w)
      <4>1. \E z \in {x, y} : \E d : w = Append(z, d)  OBVIOUS
      <4> QED  BY <2>1, <4>1
    <3>2. ASSUME NEW w \in T  PROVE Aloof(w)
      <4>1. \E z \in {x, y}, d \in Params : w = Append(z, d)  BY DEF Params
      <4> QED  BY <2>1, <4>1
    <3> HIDE DEF S, T
    <3> QED  BY <3>1, <3>2
  <2>3. \A kind, p : NoLayerTaken({Row(S, p, kind)}) /\ NoLayerTaken({Row(T, p, kind)})
    <3> HIDE DEF S, T
    <3> QED  BY <2>2, AloofRow
  <2>4. Folded(x, y, to) = {Row(S, Append(to, p), IF p = "weight" THEN "quant" ELSE "plain") : p \in {"weight", "bias"}}
    BY DEF Folded
  <2>5. Paired(x, y, to) = {Row(T, Append(to, p), IF p = "weight" THEN "matrix" ELSE "plain") : p \in {"weight", "bias"}}
    BY DEF Paired
  <2> HIDE DEF S, T
  <2>6. NoLayerTaken(Folded(x, y, to)) /\ NoLayerTaken(Paired(x, y, to))
    BY <2>3, <2>4, <2>5, Zenon DEF NoLayerTaken
  <2> QED  BY <2>6 DEF x, y
<1> QED  BY <1>2, <1>3, <1>4 DEF Same, NormOf

LEMMA LevelRowsAloof ==
  ASSUME NEW lv \in LevelChoices, NEW k, Level[k] # "enc"
  PROVE  NoLayerTaken(LevelRows(lv, k))
<1>1. \A kind \in {"identity", "layernorm", "mlp"} : \A part : NoLayerTaken(Projector(kind, k, part))
  <2> TAKE kind \in {"identity", "layernorm", "mlp"}
  <2> TAKE part
  <2>1. CASE kind = "identity"  BY <2>1 DEF Projector, NoLayerTaken
  <2>2. CASE kind = "layernorm"
    <3>1. Projector(kind, k, part) = NormOf(k, part, "proj_ln")  BY <2>2 DEF Projector
    <3> QED  BY <3>1, LevelPartsAloof
  <2>3. CASE kind = "mlp"
    <3> DEFINE x == Folded(Lv(k, part, "proj_net0"), Lv(k, part, "proj_net1"), Lv(k, part, "proj0"))
               y == Linear(Lv(k, part, "proj_net3"), Lv(k, part, "proj2"), "quant")
    <3>1. Projector(kind, k, part) = x \cup y  BY <2>3 DEF Projector
    <3>2. NoLayerTaken(x) /\ NoLayerTaken(y)  BY LevelPartsAloof
    <3> HIDE DEF x, y
    <3> QED  BY <3>1, <3>2 DEF NoLayerTaken
  <2> QED  BY <2>1, <2>2, <2>3
<1>2. /\ lv.proj \in {"identity", "layernorm", "mlp"} /\ lv.tail \in {"identity", "layernorm", "mlp"}
      /\ lv.embed \in {"identity", "embedder", "conv"}
  BY DEF LevelChoices
<1>3. NoLayerTaken({})  BY DEF NoLayerTaken
<1>4. /\ \A part, role, kind : NoLayerTaken(Same(k, part, role, kind))
      /\ \A part, role : NoLayerTaken(NormOf(k, part, role)) /\ NoLayerTaken(Param(k, part, role))
  BY LevelPartsAloof
<1>5. k = 1 => NoLayerTaken(Level1Encoder(lv))
  <2> DEFINE a == Projector(lv.proj, 1, "enc")
             b == Same(1, "enc", "proprio0", "matrix")
             n == NormOf(1, "enc", "proprio_ln")
             d == Same(1, "enc", "proprio2", "matrix")
             e == IF lv.enc = "fusion" THEN b \cup n \cup d ELSE {}
  <2> SUFFICES ASSUME k = 1  PROVE NoLayerTaken(a \cup e)  BY DEF Level1Encoder
  <2>1. NoLayerTaken(a) /\ NoLayerTaken(b) /\ NoLayerTaken(n) /\ NoLayerTaken(d)  BY <1>1, <1>2, <1>4
  <2> HIDE DEF a, b, n, d
  <2> QED  BY <2>1 DEF NoLayerTaken
<1>6. NoLayerTaken(UpperEncoder(lv, k))
  <2> DEFINE a == NormOf(k, "enc", "in_norm")
             b == Same(k, "enc", "fc1", "quant")
             d == Same(k, "enc", "fc2", "quant")
             n == NormOf(k, "enc", "out_norm")
  <2>1. \/ UpperEncoder(lv, k) = {}
        \/ UpperEncoder(lv, k) = a \cup b \cup d \cup (IF lv.enc = "mlp_norm" THEN n ELSE {})
    BY DEF UpperEncoder
  <2>2. NoLayerTaken(a) /\ NoLayerTaken(b) /\ NoLayerTaken(n) /\ NoLayerTaken(d)  BY <1>4
  <2> HIDE DEF a, b, n, d
  <2> QED  BY <2>1, <2>2 DEF NoLayerTaken
<1>7. NoLayerTaken(ActionBlock(k))
  <2> DEFINE a == UNION {NormOf(k, "act_blk", r) : r \in {"ln1", "ln2"}}
             b == UNION {Same(k, "act_blk", r, "matrix") : r \in {"qkv", "out", "up", "down"}}
  <2>1. NoLayerTaken(a)  BY <1>4, Zenon DEF NoLayerTaken
  <2>2. NoLayerTaken(b)  BY <1>4, Zenon DEF NoLayerTaken
  <2>3. ActionBlock(k) = a \cup b  BY DEF ActionBlock
  <2> HIDE DEF a, b
  <2> QED  BY <2>1, <2>2, <2>3 DEF NoLayerTaken
<1>8. NoLayerTaken(ActionEncoder(lv, k))
  <2> DEFINE a == Same(k, "act_enc", "step", "matrix")
             p == Param(k, "act_enc", "pos")
             b == ActionBlock(k)
             h0 == Same(k, "act_enc", "head0", "matrix")
             n == NormOf(k, "act_enc", "head_ln")
             h2 == Same(k, "act_enc", "head2", "matrix")
             o == NormOf(k, "act_enc", "out_norm")
             f1 == Same(k, "act_enc", "fc1", "matrix")
             f2 == Same(k, "act_enc", "fc2", "matrix")
  <2>1. ActionEncoder(lv, k) = IF lv.acts = "seq" THEN a \cup p \cup b \cup h0 \cup n \cup h2 \cup o
                               ELSE f1 \cup f2 \cup IF lv.acts = "mlp_norm" THEN o ELSE {}
    BY DEF ActionEncoder
  <2>2. /\ NoLayerTaken(a) /\ NoLayerTaken(p) /\ NoLayerTaken(h0) /\ NoLayerTaken(n) /\ NoLayerTaken(h2)
        /\ NoLayerTaken(o) /\ NoLayerTaken(f1) /\ NoLayerTaken(f2)
    BY <1>4
  <2>3. NoLayerTaken(b)  BY <1>7
  <2> HIDE DEF a, p, b, h0, n, h2, o, f1, f2
  <2> QED  BY <2>1, <2>2, <2>3 DEF NoLayerTaken
<1>9. NoLayerTaken(Embedder(lv, k))
  <2> DEFINE a == Same(k, "act_embed", "0", "matrix")
             b == Same(k, "act_embed", "2", "matrix")
             p == Paired(Lv(k, "act_embed", "conv"), Lv(k, "act_embed", "0"), Lv(k, "act_embed", "0"))
  <2>1. Embedder(lv, k) \in {{}, a \cup b, p \cup b}  BY <1>2 DEF Embedder
  <2>2. NoLayerTaken(a) /\ NoLayerTaken(b)  BY <1>4
  <2>3. NoLayerTaken(p)  BY LevelPartsAloof
  <2> HIDE DEF a, b, p
  <2> QED  BY <2>1, <2>2, <2>3 DEF NoLayerTaken
<1>10. NoLayerTaken(PredictorBlock(lv, k))
  <2> DEFINE a == Same(k, "pred_blk", "adaln", "matrix")
             w == Weight(Lv(k, "pred_blk", "qkv"), Lv(k, "pred_blk", "qkv"), "quant")
             mats == UNION {Same(k, "pred_blk", r, "quant") : r \in {"out", "up", "down"}}
             n1 == NormOf(k, "pred_blk", "ln1")
             n2 == NormOf(k, "pred_blk", "ln2")
  <2>1. PredictorBlock(lv, k) = a \cup w \cup mats \cup (IF lv.bare THEN {} ELSE n1 \cup n2)
    BY DEF PredictorBlock
  <2>2. NoLayerTaken(a) /\ NoLayerTaken(n1) /\ NoLayerTaken(n2)  BY <1>4
  <2>3. NoLayerTaken(mats)  BY <1>4, Zenon DEF NoLayerTaken
  <2>4. NoLayerTaken(w)  BY LevelPartsAloof
  <2> HIDE DEF a, w, mats, n1, n2
  <2> QED  BY <2>1, <2>2, <2>3, <2>4 DEF NoLayerTaken
<1>11. NoLayerTaken(Predictor(lv, k))
  <2> DEFINE p == Param(k, "pred", "pos")
             n == NormOf(k, "pred", "norm")
             b == PredictorBlock(lv, k)
             ports == UNION {Same(k, "pred", r, "quant") : r \in lv.ports}
             e0 == Same(k, "pred", "act_embed0", "matrix")
             e2 == Same(k, "pred", "act_embed2", "matrix")
             tail == Projector(lv.tail, k, "pred")
  <2>1. Predictor(lv, k) = p \cup n \cup b \cup ports \cup IF lv.bare THEN e0 \cup e2 ELSE tail
    BY DEF Predictor
  <2>2. NoLayerTaken(p) /\ NoLayerTaken(n) /\ NoLayerTaken(e0) /\ NoLayerTaken(e2)  BY <1>4
  <2>3. NoLayerTaken(ports)
    <3>1. \A x \in ports : \E role : x \in Same(k, "pred", role, "quant")  OBVIOUS
    <3> HIDE DEF ports
    <3> QED  BY <1>4, <3>1, Zenon DEF NoLayerTaken
  <2>4. NoLayerTaken(b) /\ NoLayerTaken(tail)  BY <1>1, <1>2, <1>10
  <2> HIDE DEF p, n, b, ports, e0, e2, tail
  <2> QED  BY <2>1, <2>2, <2>3, <2>4 DEF NoLayerTaken
<1>12. LevelRows(lv, k) =
         (IF k = 1 THEN Level1Encoder(lv) ELSE UpperEncoder(lv, k) \cup ActionEncoder(lv, k))
         \cup Embedder(lv, k) \cup Predictor(lv, k)
         \cup IF lv.queue = "full" THEN Param(k, "act_queue", "queue") ELSE {}
  BY DEF LevelRows
<1>13. NoLayerTaken(Param(k, "act_queue", "queue"))  BY <1>4
<1> QED  BY <1>5, <1>6, <1>8, <1>9, <1>11, <1>12, <1>13 DEF NoLayerTaken

(* An H-JEPA checkpoint whose ViT has no first norm: the converter counts no *)
(* layer, looks at the first one's MLP all the same, and leaves that over.   *)
LEMMA NoLayerLeavesTheFirst ==
  ASSUME NEW c \in ConfigRecords, NEW ckpt, HjepaDepth(ckpt) = 0, ~ HjepaRefuses(c, ckpt)
  PROVE  <<"enc", 1, "up", "weight">> \in ckpt \ (Sources(HjepaRows(c, ckpt)) \cup HjepaDrops(c) \cup HjepaTolerates)
<1> DEFINE up == <<"enc", 1, "up", "weight">>
           levels == UNION {LevelRows(c.levels[k], k) : k \in DOMAIN c.levels}
<1>1. up \in ckpt  BY DEF HjepaRefuses
<1>2. ~ Aloof(up)  BY DEF Aloof
<1>3. c.levels \in Seq(LevelChoices) /\ Len(c.levels) <= 4  BY DEF ConfigRecords, Level
<1>4. ASSUME NEW k \in DOMAIN c.levels  PROVE Level[k] # "enc" /\ c.levels[k] \in LevelChoices
  <2>1. k \in 1..4  BY <1>3
  <2> QED  BY <1>3, <2>1 DEF Level
<1>5. NoLayerTaken(levels)
  <2>1. \A k \in DOMAIN c.levels : NoLayerTaken(LevelRows(c.levels[k], k))  BY <1>4, LevelRowsAloof
  <2> QED  BY <2>1, Zenon DEF NoLayerTaken
<1>6. NoLayerTaken(HfVitRows(0))
  <2> DEFINE w == Weight(G("patch"), G("patch"), "matrix")
             b == Bias(G("patch"), G("patch"))
             n == Norm(G("norm"), G("norm"))
  <2>1. Blocks("enc", "enc", 0, TRUE) = {}  BY DEF Blocks
  <2>2. HfVitRows(0) = w \cup b \cup ClsToken \cup PosEmbed \cup n  BY <2>1 DEF HfVitRows, PatchEmbed
  <2>3. NoLayerTaken(w) /\ NoLayerTaken(n)  BY AloofRows DEF G
  <2>4. NoLayerTaken(b)
    <3>1. NoLayerTaken(Linear(G("patch"), G("patch"), "matrix"))  BY AloofRows DEF G
    <3> QED  BY <3>1 DEF Linear, NoLayerTaken
  <2>5. NoLayerTaken(ClsToken) /\ NoLayerTaken(PosEmbed)
    <3>1. \A d, to, kind : NoLayerTaken(Copy(<<"enc", 0, "cls", d>>, to, kind))
                          /\ NoLayerTaken(Copy(<<"enc", 0, "pos", d>>, to, kind))
      BY AloofRows
    <3>2. ASSUME NEW d  PROVE G("cls") \o <<d>> = <<"enc", 0, "cls", d>> /\ G("pos") \o <<d>> = <<"enc", 0, "pos", d>>
      BY ConcatThree DEF G
    <3> QED  BY <3>1, <3>2, Zenon DEF ClsToken, PosEmbed
  <2> HIDE DEF w, b, n
  <2> QED  BY <2>2, <2>3, <2>4, <2>5 DEF NoLayerTaken
<1>7. HjepaRows(c, ckpt) = HfVitRows(0) \cup levels  BY DEF HjepaRows
<1> HIDE DEF levels
<1>8. up \notin Sources(HjepaRows(c, ckpt))
  <2> HIDE DEF up
  <2> QED  BY <1>2, <1>5, <1>6, <1>7 DEF Sources, NoLayerTaken
<1>9. up \notin HjepaTolerates  BY DEF HjepaTolerates
<1>10. up \notin HfVitDrops
  <2>1. ASSUME NEW d  PROVE G("mask_token") \o <<d>> = <<"enc", 0, "mask_token", d>>  BY ConcatThree DEF G
  <2>2. \A d : <<"enc", 0, "mask_token", d>> # up  OBVIOUS
  <2> HIDE DEF up
  <2> QED  BY <2>1, <2>2, Zenon DEF HfVitDrops
<1>11. ASSUME NEW k \in DOMAIN c.levels  PROVE up \notin LevelDrops(c.levels[k], k)
  <2>1. \A x, y, z : <<Level[k], x, y, z>> # up  BY <1>4
  <2> HIDE DEF up
  <2>2. \A kind, part : up \notin ProjectorDrops(kind, k, part)  BY <2>1, Zenon DEF ProjectorDrops
  <2> QED  BY <2>1, <2>2, Zenon DEF LevelDrops
<1> HIDE DEF up
<1> QED  BY <1>1, <1>8, <1>9, <1>10, <1>11 DEF HjepaDrops, up

LEMMA HjepaLoads ==
  ASSUME NEW c \in ConfigRecords, NEW ckpt, NEW file, file.rows = HjepaRows(c, ckpt),
         file.tensors = Targets(file.rows), file.keys = HjepaKeys(c, ckpt), ~ HjepaRefuses(c, ckpt),
         HjepaDepth(ckpt) \in Nat \ {0}
  PROVE  NetworkLoads(file) /\ Kinded(file.rows)
<1> DEFINE depth == HjepaDepth(ckpt)
           vit == HfVitRows(depth)
           levels == UNION {LevelRows(c.levels[k], k) : k \in DOMAIN c.levels}
<1>1. /\ file.keys.layers = depth /\ file.keys.cls /\ ~ file.keys.registers
      /\ file.keys.pred = "none" /\ file.keys.pool = 0 /\ file.keys.levels = c.levels
  BY DEF HjepaKeys, NoKeys
<1>2. depth \in Nat \ {0} /\ c.levels \in Seq(LevelChoices)  BY DEF ConfigRecords
<1>3. file.rows = vit \cup levels  BY DEF HjepaRows
<1> HIDE DEF depth
<1>4. Kinded(vit) /\ PatchEmbed \subseteq vit /\ ClsToken \subseteq vit
      /\ Blocks("enc", "enc", depth, TRUE) \subseteq vit
  BY HfVitWrites
<1>5. ASSUME NEW k \in DOMAIN c.levels
      PROVE  LevelLoads(file, c.levels[k], k) /\ Kinded(LevelRows(c.levels[k], k))
  <2>1. c.levels[k] \in LevelChoices  BY <1>2
  <2>2. WidthsAgree(c.levels[k])  BY DEF HjepaRefuses
  <2>3. LevelRows(c.levels[k], k) \subseteq levels  OBVIOUS
  <2> HIDE DEF vit, levels
  <2>4. LevelRows(c.levels[k], k) \subseteq file.rows  BY <1>3, <2>3
  <2> QED  BY <2>1, <2>2, <2>4, LevelRowsLoad
<1>6. Kinded(levels)  BY <1>5 DEF Kinded
<1> HIDE DEF vit, levels
<1>7. Kinded(file.rows)  BY <1>3, <1>4, <1>6 DEF Kinded
<1>8. EncoderLoads(file)
  <2>1. PatchEmbed \subseteq file.rows /\ ClsToken \subseteq file.rows
        /\ Blocks("enc", "enc", depth, TRUE) \subseteq file.rows
    BY <1>3, <1>4
  <2>2. \A i \in 1..depth : Weights("enc", i, LayerRoles) \subseteq Targets(file.rows)
    BY <2>1, BlocksWrite
  <2> QED  BY <1>1, <1>2, <2>1, <2>2, EncoderOnly
<1>9. PredictorLoads(file) /\ HeadLoads(file)
  <2>1. ~ (0 > 0)  OBVIOUS
  <2> QED  BY <1>1, <2>1 DEF PredictorLoads, HeadLoads
<1>10. LevelsLoad(file)  BY <1>1, <1>5 DEF LevelsLoad
<1> QED  BY <1>7, <1>8, <1>9, <1>10 DEF NetworkLoads

-----------------------------------------------------------------------------
(* V-JEPA 2-AC has no list of unused tensors: its converter compares two     *)
(* counts. The names its rows take are as many as the counts ask for, and    *)
(* are in the checkpoint; so they are all of it.                             *)
ParamsOf(s, I, R) == {<<s, i, r, p>> : i \in I, r \in R, p \in Params}

LEMMA NamesCounted ==
  ASSUME NEW s, NEW I, NEW R, IsFiniteSet(I), IsFiniteSet(R)
  PROVE  /\ IsFiniteSet(ParamsOf(s, I, R))
         /\ Cardinality(ParamsOf(s, I, R)) = Cardinality(I) * (Cardinality(R) * 2)
<1> DEFINE RP == R \X Params
           D == I \X RP
           N == ParamsOf(s, I, R)
           f == [x \in D |-> <<s, x[1], x[2][1], x[2][2]>>]
<1>1. IsFiniteSet(Params) /\ Cardinality(Params) = 2
  <2>1. IsFiniteSet({"weight"}) /\ Cardinality({"weight"}) = 1  BY FS_Singleton
  <2>2. "bias" \notin {"weight"}  OBVIOUS
  <2>3. IsFiniteSet({"weight"} \cup {"bias"}) /\ Cardinality({"weight"} \cup {"bias"}) = 2
    BY <2>1, <2>2, FS_AddElement
  <2> QED  BY <2>3 DEF Params
<1>2. IsFiniteSet(RP) /\ Cardinality(RP) = Cardinality(R) * 2  BY <1>1, FS_Product
<1>3. IsFiniteSet(D) /\ Cardinality(D) = Cardinality(I) * (Cardinality(R) * 2)  BY <1>2, FS_Product
<1>4. f \in [D -> N]  BY DEF ParamsOf
<1>5. \A t \in N : \E x \in D : f[x] = t
  <2> TAKE t \in N
  <2>1. PICK i \in I, r \in R, p \in Params : t = <<s, i, r, p>>  BY DEF ParamsOf
  <2>2. <<i, <<r, p>>>> \in D /\ f[<<i, <<r, p>>>>] = t  BY <2>1
  <2> QED  BY <2>2
<1>6. \A x, y \in D : f[x] = f[y] => x = y
  <2> TAKE x \in D
  <2> TAKE y \in D
  <2>1. PICK i \in I, q \in RP : x = <<i, q>>  OBVIOUS
  <2>2. PICK r \in R, p \in Params : q = <<r, p>>  BY <2>1
  <2>3. PICK j \in I, u \in RP : y = <<j, u>>  OBVIOUS
  <2>4. PICK v \in R, w \in Params : u = <<v, w>>  BY <2>3
  <2>5. f[x] = <<s, i, r, p>> /\ f[y] = <<s, j, v, w>>  BY <2>1, <2>2, <2>3, <2>4
  <2> QED  BY <2>1, <2>2, <2>3, <2>4, <2>5
<1> HIDE DEF f, D, N
<1>7. f \in Bijection(D, N)
  BY <1>4, <1>5, <1>6 DEF Bijection, Injection, Surjection, IsInjective
<1>8. ExistsBijection(D, N)  BY <1>7 DEF ExistsBijection
<1>9. IsFiniteSet(N) /\ Cardinality(N) = Cardinality(D)  BY <1>3, <1>8, FS_Bijection
<1> QED  BY <1>3, <1>9 DEF N
(* A block of the checkpoint whose q, k and v are one matrix is all used.    *)

LEMMA LinearTakes ==
  ASSUME NEW a, NEW b, NEW c, NEW t, NEW k, NEW rs, Linear(<<a, b, c>>, t, k) \subseteq rs, NEW p \in Params
  PROVE  <<a, b, c, p>> \in Sources(rs)
<1> DEFINE f == <<a, b, c>>
           w == Row({Append(f, "weight")}, Append(t, "weight"), k)
           v == Row({Append(f, "bias")}, Append(t, "bias"), "plain")
<1>1. w \in Linear(f, t, k) /\ v \in Linear(f, t, k)  BY DEF Linear, Weight, Bias, Copy
<1>2. w.from = {Append(f, "weight")} /\ v.from = {Append(f, "bias")}  BY DEF Row
<1>3. Append(f, p) = <<a, b, c, p>>  BY AppendedThree
<1> HIDE DEF f, w, v
<1>4. w \in rs /\ v \in rs  BY <1>1 DEF f
<1>5. Append(f, "weight") \in Sources(rs) /\ Append(f, "bias") \in Sources(rs)  BY <1>2, <1>4 DEF Sources
<1> QED  BY <1>3, <1>5 DEF Params

LEMMA BlocksTake ==
  ASSUME NEW s, NEW t, NEW n, NEW rs, Blocks(s, t, n, FALSE) \subseteq rs
  PROVE  ParamsOf(s, 1..n, LayerRoles) \subseteq Sources(rs)
<1> SUFFICES ASSUME NEW i \in 1..n, NEW r \in LayerRoles, NEW p \in Params
             PROVE  <<s, i, r, p>> \in Sources(rs)
  BY DEF ParamsOf
<1>1. Block(s, t, i, FALSE) \subseteq rs  BY DEF Blocks
<1>2. /\ Linear(<<s, i, "ln1">>, <<t, i, "ln1">>, "plain") \subseteq Block(s, t, i, FALSE)
      /\ Linear(<<s, i, "ln2">>, <<t, i, "ln2">>, "plain") \subseteq Block(s, t, i, FALSE)
      /\ Linear(<<s, i, "qkv">>, <<t, i, "qkv">>, "quant") \subseteq Block(s, t, i, FALSE)
      /\ Linear(<<s, i, "out">>, <<t, i, "out">>, "quant") \subseteq Block(s, t, i, FALSE)
      /\ Linear(<<s, i, "up">>, <<t, i, "up">>, "quant") \subseteq Block(s, t, i, FALSE)
      /\ Linear(<<s, i, "down">>, <<t, i, "down">>, "quant") \subseteq Block(s, t, i, FALSE)
  BY DEF Block, Norm
<1>3. \E u, k : Linear(<<s, i, r>>, u, k) \subseteq rs  BY <1>1, <1>2 DEF LayerRoles
<1> QED  BY <1>3, LinearTakes

AcHeads == {"embed", "action", "state", "norm", "proj"}

LEMMA AcTakes ==
  ASSUME NEW c, NEW ckpt
  PROVE  /\ ParamsOf("enc", 1..HighestLayer(ckpt, "enc"), LayerRoles) \subseteq Sources(AcRows(c, ckpt))
         /\ ParamsOf("enc", {0}, {"patch", "norm"}) \subseteq Sources(AcRows(c, ckpt))
         /\ ParamsOf("pred", 1..HighestLayer(ckpt, "pred"), LayerRoles) \subseteq Sources(AcRows(c, ckpt))
         /\ ParamsOf("pred", {0}, AcHeads) \subseteq Sources(AcRows(c, ckpt))
<1> DEFINE rs == AcRows(c, ckpt)
           enc == Blocks("enc", "enc", HighestLayer(ckpt, "enc"), FALSE)
           pred == Blocks("pred", "pred", HighestLayer(ckpt, "pred"), FALSE)
           embeds == UNION {Linear(P(r), P(r), "matrix") : r \in {"embed", "action", "state"}}
<1>1. rs = (PatchEmbed \cup enc \cup Norm(G("norm"), G("norm"))) \cup embeds \cup pred
           \cup (Norm(P("norm"), P("norm")) \cup Linear(P("proj"), P("proj"), "quant"))
  BY DEF AcRows, VideoVit, MaskedTail
<1>2. \A r \in {"embed", "action", "state"} : Linear(P(r), P(r), "matrix") \subseteq embeds  OBVIOUS
<1> HIDE DEF rs, enc, pred, embeds
<1>3. enc \subseteq rs /\ pred \subseteq rs  BY <1>1
<1>4. /\ Linear(<<"enc", 0, "patch">>, G("patch"), "matrix") \subseteq rs
      /\ Linear(<<"enc", 0, "norm">>, G("norm"), "plain") \subseteq rs
  BY <1>1 DEF PatchEmbed, Linear, Norm, G
<1>5. /\ \A r \in {"embed", "action", "state"} : Linear(<<"pred", 0, r>>, P(r), "matrix") \subseteq rs
      /\ Linear(<<"pred", 0, "norm">>, P("norm"), "plain") \subseteq rs
      /\ Linear(<<"pred", 0, "proj">>, P("proj"), "quant") \subseteq rs
  BY <1>1, <1>2 DEF Norm, P
<1>6. \A r \in {"patch", "norm"} : \E t, k : Linear(<<"enc", 0, r>>, t, k) \subseteq rs  BY <1>4
<1>7. \A r \in AcHeads : \E t, k : Linear(<<"pred", 0, r>>, t, k) \subseteq rs  BY <1>5 DEF AcHeads
<1>8. \A r \in {"patch", "norm"}, p \in Params : <<"enc", 0, r, p>> \in Sources(rs)  BY <1>6, LinearTakes
<1>9. \A r \in AcHeads, p \in Params : <<"pred", 0, r, p>> \in Sources(rs)  BY <1>7, LinearTakes
<1>10. /\ ParamsOf("enc", 1..HighestLayer(ckpt, "enc"), LayerRoles) \subseteq Sources(rs)
       /\ ParamsOf("pred", 1..HighestLayer(ckpt, "pred"), LayerRoles) \subseteq Sources(rs)
  BY <1>3, BlocksTake DEF enc, pred
<1>11. /\ ParamsOf("enc", {0}, {"patch", "norm"}) \subseteq Sources(rs)
       /\ ParamsOf("pred", {0}, AcHeads) \subseteq Sources(rs)
  BY <1>8, <1>9 DEF ParamsOf
<1> QED  BY <1>10, <1>11 DEF rs

LEMMA RolesCounted ==
  /\ IsFiniteSet(LayerRoles) /\ Cardinality(LayerRoles) = 6
  /\ IsFiniteSet({"patch", "norm"}) /\ Cardinality({"patch", "norm"}) = 2
  /\ IsFiniteSet(AcHeads) /\ Cardinality(AcHeads) = 5
<1>1. \A x : IsFiniteSet({x}) /\ Cardinality({x}) = 1  BY FS_Singleton
<1>2. \A x, y : x # y => IsFiniteSet({x, y}) /\ Cardinality({x, y}) = 2
  <2> TAKE x, y
  <2> HAVE x # y
  <2> DEFINE S == {x}
  <2>1. IsFiniteSet(S) /\ Cardinality(S) = 1 /\ y \notin S  BY <1>1
  <2>2. {x, y} = S \cup {y}  OBVIOUS
  <2> HIDE DEF S
  <2>3. IsFiniteSet(S \cup {y}) /\ Cardinality(S \cup {y}) = 2  BY <2>1, FS_AddElement
  <2> QED  BY <2>2, <2>3
<1> DEFINE A == {"ln1", "ln2"}
           B == A \cup {"qkv"}
           C == B \cup {"out"}
           D == C \cup {"up"}
<1>3. IsFiniteSet(A) /\ Cardinality(A) = 2 /\ "qkv" \notin A  BY <1>2
<1>4. IsFiniteSet(B) /\ Cardinality(B) = 3
  <2> HIDE DEF A
  <2> QED  BY <1>3, FS_AddElement
<1>5. "out" \notin B /\ "up" \notin C /\ "down" \notin D /\ LayerRoles = D \cup {"down"}  BY DEF LayerRoles
<1>6. IsFiniteSet(C) /\ Cardinality(C) = 4
  <2> HIDE DEF B
  <2> QED  BY <1>4, <1>5, FS_AddElement
<1>7. IsFiniteSet(D) /\ Cardinality(D) = 5
  <2> HIDE DEF C
  <2> QED  BY <1>5, <1>6, FS_AddElement
<1>8. IsFiniteSet(LayerRoles) /\ Cardinality(LayerRoles) = 6
  <2> HIDE DEF D
  <2> QED  BY <1>5, <1>7, FS_AddElement
<1> DEFINE E == {"embed", "action"}
           F == E \cup {"state"}
           H == F \cup {"norm"}
<1>9. IsFiniteSet(E) /\ Cardinality(E) = 2 /\ "state" \notin E  BY <1>2
<1>10. IsFiniteSet(F) /\ Cardinality(F) = 3
  <2> HIDE DEF E
  <2> QED  BY <1>9, FS_AddElement
<1>11. "norm" \notin F /\ "proj" \notin H /\ AcHeads = H \cup {"proj"}  BY DEF AcHeads
<1>12. IsFiniteSet(H) /\ Cardinality(H) = 4
  <2> HIDE DEF F
  <2> QED  BY <1>10, <1>11, FS_AddElement
<1>13. IsFiniteSet(AcHeads) /\ Cardinality(AcHeads) = 5
  <2> HIDE DEF H
  <2> QED  BY <1>11, <1>12, FS_AddElement
<1> QED  BY <1>2, <1>8, <1>13

(* The layers of one side and what stands outside them.                      *)

LEMMA SideCounted ==
  ASSUME NEW s, NEW n \in Nat, NEW R, IsFiniteSet(R)
  PROVE  LET N == ParamsOf(s, 1..n, LayerRoles) \cup ParamsOf(s, {0}, R) IN
         IsFiniteSet(N) /\ Cardinality(N) = 12 * n + 2 * Cardinality(R)
<1> DEFINE A == ParamsOf(s, 1..n, LayerRoles)
           B == ParamsOf(s, {0}, R)
<1>1. IsFiniteSet(1..n) /\ Cardinality(1..n) = n  BY FS_Interval
<1>2. IsFiniteSet({0}) /\ Cardinality({0}) = 1  BY FS_Singleton
<1>3. Cardinality(R) \in Nat  BY FS_CardinalityType
<1>4. IsFiniteSet(A) /\ Cardinality(A) = n * (6 * 2)  BY <1>1, RolesCounted, NamesCounted
<1>5. IsFiniteSet(B) /\ Cardinality(B) = 1 * (Cardinality(R) * 2)  BY <1>2, NamesCounted
<1>6. A \cap B = {}
  <2>1. \A t \in A : t[2] \in 1..n  BY DEF ParamsOf
  <2>2. \A t \in B : t[2] = 0  BY DEF ParamsOf
  <2>3. 0 \notin 1..n  OBVIOUS
  <2> HIDE DEF A, B
  <2> QED  BY <2>1, <2>2, <2>3
<1>7. Cardinality({}) = 0  BY FS_EmptySet
<1> HIDE DEF A, B
<1>8. IsFiniteSet(A \cup B) /\ Cardinality(A \cup B) = Cardinality(A) + Cardinality(B) - 0
  BY <1>4, <1>5, <1>6, <1>7, FS_Union
<1>9. Cardinality(A \cup B) = 12 * n + 2 * Cardinality(R)  BY <1>3, <1>4, <1>5, <1>8
<1> QED  BY <1>8, <1>9 DEF A, B

LEMMA AcIsWhole ==
  ASSUME NEW c, NEW ckpt, Numbered(ckpt), ~ AcRefuses(c, ckpt),
         Sources(AcRows(c, ckpt)) \subseteq ckpt, Skipped(ckpt) \subseteq AcTolerates
  PROVE  ckpt \subseteq Sources(AcRows(c, ckpt)) \cup AcTolerates
<1> DEFINE n == HighestLayer(ckpt, "enc")
           m == HighestLayer(ckpt, "pred")
           enc == ParamsOf("enc", 1..n, LayerRoles) \cup ParamsOf("enc", {0}, {"patch", "norm"})
           pred == ParamsOf("pred", 1..m, LayerRoles) \cup ParamsOf("pred", {0}, AcHeads)
           encSide == Side(ckpt, "enc")
           predSide == ckpt \ (Side(ckpt, "enc") \cup Skipped(ckpt))
<1>1. n \in Nat /\ m \in Nat  BY HighestIsNatural
<1>2. Cardinality(encSide) = 2 + 12 * n + 2 /\ Cardinality(predSide) = 6 + 12 * m + 2 + 2
  BY DEF AcRefuses, AcMiscounts
<1>3. IsFiniteSet(encSide) /\ IsFiniteSet(predSide)
  <2>1. encSide \in SUBSET ckpt /\ predSide \in SUBSET ckpt  BY DEF Side
  <2> HIDE DEF encSide, predSide
  <2> QED  BY <2>1, FS_Subset DEF Numbered
<1>4. enc \subseteq Sources(AcRows(c, ckpt)) /\ pred \subseteq Sources(AcRows(c, ckpt))  BY AcTakes
<1>5. (\A t \in enc : t[1] = "enc") /\ (\A t \in pred : t[1] = "pred")  BY DEF ParamsOf
<1>6. enc \subseteq encSide /\ pred \subseteq predSide
  <2> HIDE DEF enc, pred
  <2> QED  BY <1>4, <1>5 DEF Side, Skipped
<1>7. Cardinality(enc) = 12 * n + 4
  <2>1. Cardinality(enc) = 12 * n + 2 * 2  BY <1>1, RolesCounted, SideCounted
  <2> QED  BY <1>1, <2>1
<1>8. Cardinality(pred) = 12 * m + 10
  <2>1. Cardinality(pred) = 12 * m + 2 * 5  BY <1>1, RolesCounted, SideCounted
  <2> QED  BY <1>1, <2>1
<1> HIDE DEF n, m, enc, pred, encSide, predSide
<1>9. encSide = enc
  <2>1. Cardinality(encSide) = Cardinality(enc)  BY <1>1, <1>2, <1>7
  <2> QED  BY <1>3, <1>6, <2>1, FS_Subset
<1>10. predSide = pred
  <2>1. Cardinality(predSide) = Cardinality(pred)  BY <1>1, <1>2, <1>8
  <2> QED  BY <1>3, <1>6, <2>1, FS_Subset
<1>11. ckpt \subseteq encSide \cup predSide \cup Skipped(ckpt)  BY DEF encSide, predSide
<1> QED  BY <1>4, <1>9, <1>10, <1>11

-----------------------------------------------------------------------------
(* No plain tensor is stored as F16, whichever rule the writer follows.      *)
LEMMA PlainStaysF32 ==
  ASSUME NEW j, Kinded(rows)
  PROVE  PlainIsF32(File(j))
<1>1. \A x : x \in F16(j) => \E r \in rows : r.kind \in {"quant", "matrix"} /\ r.to = x
  <2>1. \A x : x \in LocalF16(rows) => \E r \in rows : r.kind \in {"quant", "matrix"} /\ r.to = x
    BY DEF LocalF16
  <2>2. \A x : x \in VideoF16(rows) => \E r \in rows : r.kind \in {"quant", "matrix"} /\ r.to = x
    BY DEF VideoF16
  <2> QED  BY <2>1, <2>2 DEF F16
<1>2. \A r \in rows : r.kind = "plain" => r.to \notin F16(j)
  <2> TAKE r \in rows
  <2> HAVE r.kind = "plain"
  <2>1. ASSUME r.to \in F16(j)  PROVE FALSE
    <3>1. PICK x \in rows : x.kind \in {"quant", "matrix"} /\ x.to = r.to  BY <1>1, <2>1
    <3>2. PlainName(r.to) /\ ~ PlainName(x.to)  BY <3>1 DEF Kinded
    <3> QED  BY <3>1, <3>2
  <2> QED  BY <2>1
<1> QED  BY <1>2 DEF PlainIsF32, File

(* The file a converter makes, and that the networks of any family load.     *)
MadeOf(f, c, ckpt, file) ==
    file.rows = Rows(f, c, ckpt) /\ file.tensors = Targets(file.rows) /\ file.keys = Keys(f, c, ckpt)

LEMMA ImageFamiliesLoad ==
  ASSUME NEW f \in {"ijepa", "hfvit", "lewm", "hjepa"}, NEW c \in ConfigRecords, NEW ckpt,
         ~ Refuses(f, c, ckpt), NEW file, MadeOf(f, c, ckpt, file),
         f = "hjepa" => HjepaDepth(ckpt) \in Nat \ {0}
  PROVE  NetworkLoads(file) /\ Kinded(file.rows)
<1>1. CASE f = "ijepa"
  <2>1. Rows(f, c, ckpt) = IjepaRows(c, ckpt) /\ Keys(f, c, ckpt) = IjepaKeys(c, ckpt)  BY <1>1 DEF Rows, Keys
  <2> QED  BY <2>1, IjepaLoads DEF MadeOf
<1>2. CASE f = "hfvit"
  <2>1. Rows(f, c, ckpt) = HfvitRows(c, ckpt) /\ Keys(f, c, ckpt) = HfvitKeys(c, ckpt)  BY <1>2 DEF Rows, Keys
  <2>2. ~ HfvitRefuses(c, ckpt)  BY <1>2 DEF Refuses
  <2> QED  BY <2>1, <2>2, HfvitLoads DEF MadeOf
<1>3. CASE f = "lewm"
  <2>1. Rows(f, c, ckpt) = LewmRows(c, ckpt) /\ Keys(f, c, ckpt) = LewmKeys(c, ckpt)  BY <1>3 DEF Rows, Keys
  <2> QED  BY <2>1, LewmLoads DEF MadeOf
<1>4. CASE f = "hjepa"
  <2>1. Rows(f, c, ckpt) = HjepaRows(c, ckpt) /\ Keys(f, c, ckpt) = HjepaKeys(c, ckpt)  BY <1>4 DEF Rows, Keys
  <2>2. ~ HjepaRefuses(c, ckpt)  BY <1>4 DEF Refuses
  <2> QED  BY <1>4, <2>1, <2>2, HjepaLoads DEF MadeOf
<1> QED  BY <1>1, <1>2, <1>3, <1>4

LEMMA VideoFamiliesLoad ==
  ASSUME NEW f \in {"vjepa2", "vjepa2_1", "vjepa2_ac", "levjepa"}, NEW c \in ConfigRecords, NEW ckpt,
         Numbered(ckpt), ~ Refuses(f, c, ckpt), NEW file, MadeOf(f, c, ckpt, file)
  PROVE  NetworkLoads(file) /\ Kinded(file.rows)
<1>1. CASE f = "vjepa2"
  <2>1. Rows(f, c, ckpt) = Vjepa2Rows(c, ckpt) /\ Keys(f, c, ckpt) = Vjepa2Keys(c, ckpt)  BY <1>1 DEF Rows, Keys
  <2> QED  BY <2>1, Vjepa2Loads DEF MadeOf
<1>2. CASE f = "vjepa2_1"
  <2>1. Rows(f, c, ckpt) = Vjepa21Rows(c, ckpt) /\ Keys(f, c, ckpt) = Vjepa21Keys(c, ckpt)  BY <1>2 DEF Rows, Keys
  <2>2. ~ Vjepa21Refuses(c, ckpt)  BY <1>2 DEF Refuses
  <2> QED  BY <2>1, <2>2, Vjepa21Loads DEF MadeOf
<1>3. CASE f = "vjepa2_ac"
  <2>1. Rows(f, c, ckpt) = AcRows(c, ckpt) /\ Keys(f, c, ckpt) = AcKeys(c, ckpt)  BY <1>3 DEF Rows, Keys
  <2>2. ~ AcRefuses(c, ckpt)  BY <1>3 DEF Refuses
  <2> QED  BY <2>1, <2>2, AcLoads DEF MadeOf
<1>4. CASE f = "levjepa"
  <2>1. Rows(f, c, ckpt) = LevjepaRows(c, ckpt) /\ Keys(f, c, ckpt) = LevjepaKeys(c, ckpt)  BY <1>4 DEF Rows, Keys
  <2> QED  BY <2>1, LevjepaLoads DEF MadeOf
<1> QED  BY <1>1, <1>2, <1>3, <1>4

(* What has been checked by each step of a conversion.                       *)
JobGiven ==
    /\ job.family \in Families /\ job.config \in Configs(job.family)
    /\ job.ckpt \in Checkpoints(job.family, job.config)
RowsTaken ==
    /\ rows = Rows(job.family, job.config, job.ckpt)
    /\ Sources(rows) \subseteq job.ckpt
    /\ ~ Unmapped(job)
ConvertInv ==
    /\ JobGiven
    /\ step \in {"read", "checked", "opened", "done"} => ~ Refuses(job.family, job.config, job.ckpt)
    /\ step \in {"checked", "opened", "done"} => RowsTaken
    /\ out = "new" => step = "done"

(* A conversion reaches the output only past its refusals and with all of its *)
(* rows taken from the checkpoint (main of convert.py, step by step).         *)
THEOREM ConvertInvHolds == ConvertSpec => []ConvertInv
<1>1. ConvertInit => ConvertInv
  <2> SUFFICES ASSUME ConvertInit  PROVE ConvertInv  OBVIOUS
  <2>1. PICK f \in Families, ftype \in Ftypes :
          \E allow \in (IF f \in LocalFamilies THEN BOOLEAN ELSE {FALSE}),
             c \in Configs(f) : \E ckpt \in Checkpoints(f, c) :
             job = [family |-> f, config |-> c, ckpt |-> ckpt, ftype |-> ftype, allow |-> allow]
    BY DEF ConvertInit
  <2>2. JobGiven  BY <2>1 DEF JobGiven
  <2> QED  BY <2>2 DEF ConvertInit, ConvertInv
<1>2. ConvertInv /\ [ConvertNext]_convertVars => ConvertInv'
  <2> SUFFICES ASSUME ConvertInv, [ConvertNext]_convertVars  PROVE ConvertInv'  OBVIOUS
  <2>1. CASE ReadCheckpoint
    <3>1. job' = job /\ rows' = rows /\ out' = out /\ out # "new"
          /\ step' = IF Refuses(job.family, job.config, job.ckpt) THEN "refused" ELSE "read"
      BY <2>1 DEF ReadCheckpoint, ConvertInv
    <3> QED  BY <3>1 DEF ConvertInv, JobGiven
  <2>2. CASE AddTensors
    <3>1. step = "read" /\ job' = job /\ out' = out /\ out # "new"  BY <2>2 DEF AddTensors, ConvertInv
    <3>2. CASE Sources(Rows(job.family, job.config, job.ckpt)) \subseteq job.ckpt
      <4>1. rows' = Rows(job.family, job.config, job.ckpt)
            /\ step' = IF Unmapped(job) THEN "refused" ELSE "checked"
        BY <2>2, <3>2 DEF AddTensors
      <4>2. Unmapped(job)' <=> Unmapped(job)
        BY <3>1 DEF Unmapped, LocalUnmapped, VideoUnmapped, Unused
      <4>3. step' = "checked" => RowsTaken'  BY <3>1, <3>2, <4>1, <4>2 DEF RowsTaken
      <4> QED  BY <3>1, <4>1, <4>3 DEF ConvertInv, JobGiven
    <3>3. CASE ~ (Sources(Rows(job.family, job.config, job.ckpt)) \subseteq job.ckpt)
      <4>1. step' = "refused"  BY <2>2, <3>3 DEF AddTensors
      <4> QED  BY <3>1, <4>1 DEF ConvertInv, JobGiven
    <3> QED  BY <3>2, <3>3
  <2>3. CASE WriteHeader
    <3>1. step = "checked" /\ step' = "opened" /\ out' = "torn" /\ job' = job /\ rows' = rows
      BY <2>3 DEF WriteHeader
    <3>2. RowsTaken' <=> RowsTaken
      BY <3>1 DEF RowsTaken, Unmapped, LocalUnmapped, VideoUnmapped, Unused
    <3> QED  BY <3>1, <3>2 DEF ConvertInv, JobGiven
  <2>4. CASE WriteTensors
    <3>1. step = "opened" /\ step' = "done" /\ out' = "new" /\ job' = job /\ rows' = rows
      BY <2>4 DEF WriteTensors
    <3>2. RowsTaken' <=> RowsTaken
      BY <3>1 DEF RowsTaken, Unmapped, LocalUnmapped, VideoUnmapped, Unused
    <3> QED  BY <3>1, <3>2 DEF ConvertInv, JobGiven
  <2>5. CASE KillConvert
    <3>1. step' = "killed" /\ out' = out /\ out # "new" /\ job' = job
      BY <2>5 DEF KillConvert, ConvertInv
    <3> QED  BY <3>1 DEF ConvertInv, JobGiven
  <2>6. CASE UNCHANGED convertVars
    <3>1. step' = step /\ out' = out /\ job' = job /\ rows' = rows  BY <2>6 DEF convertVars
    <3>2. RowsTaken' <=> RowsTaken
      BY <3>1 DEF RowsTaken, Unmapped, LocalUnmapped, VideoUnmapped, Unused
    <3> QED  BY <3>1, <3>2 DEF ConvertInv, JobGiven
  <2> QED  BY <2>1, <2>2, <2>3, <2>4, <2>5, <2>6 DEF ConvertNext
<1> QED  BY <1>1, <1>2, PTL DEF ConvertSpec

LEMMA GivenJobs ==
  ASSUME JobGiven
  PROVE  /\ job.family \in AllFamilies /\ job.config \in ConfigRecords /\ Numbered(job.ckpt)
         /\ job.family = "vjepa2_ac" => Skipped(job.ckpt) \subseteq AcTolerates
  BY ConvertAssumption DEF JobGiven

(* For any checkpoint a converter may meet: a complete file leaves out no    *)
(* tensor but those named for it, unless --allow-unmapped said so            *)
(* (check_unmapped, the counts of convert_vjepa2_ac).                        *)
THEOREM NothingIsDropped == ConvertSpec => []NothingDropped
<1>1. ConvertInv => NothingDropped
  <2> SUFFICES ASSUME ConvertInv, out = "new", ~ (job.allow /\ job.family \in LocalFamilies)
               PROVE  job.ckpt \subseteq
                        Sources(rows) \cup Tolerates(job.family) \cup Drops(job.family, job.config)
    BY DEF NothingDropped
  <2>1. step = "done" /\ RowsTaken /\ JobGiven /\ ~ Refuses(job.family, job.config, job.ckpt)
    BY DEF ConvertInv
  <2>2. CASE job.family = "vjepa2_ac"
    <3>1. rows = AcRows(job.config, job.ckpt) /\ Sources(rows) \subseteq job.ckpt
      BY <2>1, <2>2 DEF RowsTaken, Rows
    <3>2. ~ AcRefuses(job.config, job.ckpt)  BY <2>1, <2>2 DEF Refuses
    <3>3. Numbered(job.ckpt) /\ Skipped(job.ckpt) \subseteq AcTolerates  BY <2>1, <2>2, GivenJobs
    <3>4. Tolerates(job.family) = AcTolerates  BY <2>2 DEF Tolerates
    <3>5. job.ckpt \subseteq Sources(rows) \cup AcTolerates
      BY <3>1, <3>2, <3>3, AcIsWhole
    <3> QED  BY <3>4, <3>5
  <2>3. CASE job.family # "vjepa2_ac" /\ job.family \notin LocalFamilies
    <3>1. Unused(job) = {}  BY <2>1, <2>3 DEF RowsTaken, Unmapped, VideoUnmapped
    <3> QED  BY <2>1, <3>1 DEF Unused, RowsTaken
  <2>4. CASE job.family \in LocalFamilies
    <3>1. Unused(job) \subseteq Tolerates(job.family)  BY <2>1, <2>4 DEF RowsTaken, Unmapped, LocalUnmapped
    <3> QED  BY <2>1, <3>1 DEF Unused, RowsTaken
  <2> QED  BY <2>2, <2>3, <2>4
<1> QED  BY <1>1, ConvertInvHolds, PTL

(* An H-JEPA file has a layer in its ViT, or --allow-unmapped let all of     *)
(* them pass.                                                                *)
LEMMA HjepaFindsALayer ==
  ASSUME JobGiven, job.family = "hjepa", RowsTaken, ~ Refuses(job.family, job.config, job.ckpt),
         ~ NoLayerFound(job)
  PROVE  HjepaDepth(job.ckpt) \in Nat \ {0}
<1> DEFINE depth == HjepaDepth(job.ckpt)
<1>1. job.config \in ConfigRecords /\ IsFiniteSet(job.ckpt)  BY GivenJobs DEF Numbered
<1>2. depth \in Nat /\ <<"enc", depth + 1, "ln1", "weight">> \notin job.ckpt
  BY <1>1, LayersCounted DEF HjepaDepth
<1>3. ASSUME depth = 0  PROVE FALSE
  <2>1. <<"enc", 1, "ln1", "weight">> \notin job.ckpt
    <3> HIDE DEF depth
    <3>1. depth + 1 = 1  BY <1>3
    <3> QED  BY <1>2, <3>1
  <2>2. ~ job.allow  BY <2>1 DEF NoLayerFound
  <2>3. ~ HjepaRefuses(job.config, job.ckpt)  BY DEF Refuses
  <2>4. <<"enc", 1, "up", "weight">> \in
          job.ckpt \ (Sources(HjepaRows(job.config, job.ckpt)) \cup HjepaDrops(job.config) \cup HjepaTolerates)
    BY <1>1, <1>3, <2>3, NoLayerLeavesTheFirst
  <2>5. /\ Rows(job.family, job.config, job.ckpt) = HjepaRows(job.config, job.ckpt)
        /\ Drops(job.family, job.config) = HjepaDrops(job.config)
        /\ Tolerates(job.family) = HjepaTolerates /\ job.family \in LocalFamilies
    BY DEF Rows, Drops, Tolerates, LocalFamilies
  <2>6. Unused(job) \subseteq Tolerates(job.family)
    BY <2>2, <2>5 DEF RowsTaken, Unmapped, LocalUnmapped
  <2> QED  BY <2>4, <2>5, <2>6 DEF Unused
<1> QED  BY <1>2, <1>3

(* For every family, configuration and checkpoint, complete or not: a file a *)
(* converter finishes has every tensor the engine dereferences for its       *)
(* metadata, and no norm, bias or token in F16. Only --allow-unmapped and an *)
(* H-JEPA ViT whose first norm is missing make a file without layers.        *)
THEOREM WrittenFilesAlwaysLoad == ConvertSpec => []WrittenFilesLoad
<1>1. ConvertInv => WrittenFilesLoad
  <2> SUFFICES ASSUME ConvertInv, out = "new", ~ NoLayerFound(job)  PROVE Loads(File(job))
    BY DEF WrittenFilesLoad
  <2>1. RowsTaken /\ JobGiven /\ ~ Refuses(job.family, job.config, job.ckpt)  BY DEF ConvertInv
  <2>2. MadeOf(job.family, job.config, job.ckpt, File(job)) /\ File(job).rows = rows
    BY <2>1 DEF MadeOf, File, RowsTaken
  <2>3. job.family \in AllFamilies /\ job.config \in ConfigRecords /\ Numbered(job.ckpt)
    BY <2>1, GivenJobs
  <2>4. NetworkLoads(File(job)) /\ Kinded(rows)
    <3>1. CASE job.family \in LocalFamilies
      <4>1. job.family = "hjepa" => HjepaDepth(job.ckpt) \in Nat \ {0}  BY <2>1, HjepaFindsALayer
      <4> QED  BY <2>1, <2>2, <2>3, <3>1, <4>1, ImageFamiliesLoad DEF LocalFamilies
    <3>2. CASE job.family \notin LocalFamilies
      <4>1. job.family \in {"vjepa2", "vjepa2_1", "vjepa2_ac", "levjepa"}
        BY <2>3, <3>2 DEF AllFamilies
      <4> QED  BY <2>1, <2>2, <2>3, <4>1, VideoFamiliesLoad
    <3> QED  BY <3>1, <3>2
  <2>5. PlainIsF32(File(job))  BY <2>4, PlainStaysF32
  <2> QED  BY <2>4, <2>5 DEF NetworkLoads, Loads
<1> QED  BY <1>1, ConvertInvHolds, PTL
=============================================================================
