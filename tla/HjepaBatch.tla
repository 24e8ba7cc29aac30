----------------------------- MODULE HjepaBatch -----------------------------
(* scripts/hjepa_batch.py: `run` converts, dumps the reference, quantizes    *)
(* and verifies every selected checkpoint and records the verdicts in        *)
(* hjepa-parity.json; `upload` publishes what the JSON says has passed.      *)
(*                                                                           *)
(* The bytes of a file are a member of Contents, so equal contents are equal *)
(* SHA-256 sums; a converter of another commit may write other bytes.        *)
EXTENDS Naturals, Sequences, FiniteSets

CONSTANTS Names,      \* the released checkpoints, in the order they are run
          Dtypes,     \* DTYPES, in order, the first one converted to
          Contents,   \* what a GGUF may hold
          Whole,      \* a directory of dumps with all its tensors
          Torn,       \* a file or a directory whose writer was stopped
          NoFile,
          MaxCommands,\* bound on the commands started
          Rewrites    \* "idle": others rewrite GGUFs only while no command of
                      \* this script runs; "any": at any time

VARIABLES refs,      \* tests/fixtures/ref: the dumps, by name
          dataset,   \* ref/ in the fixtures dataset on the hub
          gguf,      \* models/gguf
          results,   \* the entries of hjepa-parity.json
          repo,      \* h-jepa-GGUF on the hub: [files, card]
          proc,      \* the running command
          passed,    \* history: the verdicts PASS that were saved
          commands   \* commands started

batchVars == <<refs, dataset, gguf, results, repo, proc, passed, commands>>
local == <<refs, gguf, results, passed>>
hub == <<dataset, repo>>

NameSet == {Names[i] : i \in 1..Len(Names)}
DtypeSet == {Dtypes[i] : i \in 1..Len(Dtypes)}
First == Dtypes[1]
Idle == [pc |-> "idle"]
NoEntry == [kind |-> "none"]
CutEntry == [kind |-> "cut"]
Error == [kind |-> "error"]
NoFiles == [n \in NameSet |-> [d \in DtypeSet |-> NoFile]]
NoRefs == [n \in NameSet |-> NoFile]
NoJson == [n \in NameSet |-> NoEntry]
CutJson == [n \in NameSet |-> CutEntry]

ASSUME BatchAssumption == Names \in Seq(NameSet) /\ Dtypes \in Seq(DtypeSet) /\ Dtypes # <<>>
Undisturbed == Rewrites = "idle"

BatchInit ==
    /\ refs = NoRefs /\ dataset = NoRefs /\ gguf = NoFiles
    /\ results = NoJson
    /\ repo = [files |-> NoFiles, card |-> {}]
    /\ proc = Idle /\ passed = {} /\ commands = 0

Start(p) == proc = Idle /\ commands < MaxCommands /\ commands' = commands + 1 /\ proc' = p
Goto(p) == proc' = p /\ UNCHANGED commands
At(pc) == [proc EXCEPT !.pc = pc]

-----------------------------------------------------------------------------
(* run                                                                       *)

(* --runs and --seeds select checkpoints; their order is list_runs's. A JSON *)
(* whose writer was killed ends the command: json.loads raises.              *)
StartRun ==
    \E i \in 1..Len(Names), j \in 1..Len(Names) :
        /\ i <= j
        /\ IF results = CutJson THEN Start(Idle)
           ELSE Start([pc |-> "download", todo |-> SubSeq(Names, i, j), mem |-> results])
        /\ UNCHANGED <<local, hub>>

Name == Head(proc.todo)

(* The next checkpoint, or the end of the command.                           *)
NextName(mem) ==
    [pc |-> IF Len(proc.todo) = 1 THEN "finish" ELSE "download",
     todo |-> Tail(proc.todo), mem |-> mem]
Failed == Goto(NextName([proc.mem EXCEPT ![Name] = Error]))

(* A checkpoint of the right size is not fetched again; a download that      *)
(* fails raises SystemExit, and the verdicts in memory go with it.           *)
Download ==
    /\ proc.pc = "download"
    /\ Goto(At("convert")) \/ Goto(Idle)
    /\ UNCHANGED <<local, hub>>

(* convert.py writes the file at the end; a conversion that fails leaves it. *)
Convert ==
    /\ proc.pc = "convert"
    /\ \/ \E c \in Contents :
            gguf' = [gguf EXCEPT ![Name][First] = c] /\ Goto(At("reference"))
       \/ Failed /\ UNCHANGED gguf
    /\ UNCHANGED <<refs, results, passed, hub>>

(* hjepa_reference.py writes the tensors, then the manifest: one that fails  *)
(* may have replaced some of the tensors of an earlier dump.                 *)
Reference ==
    /\ proc.pc = "reference"
    /\ \/ /\ refs' = [refs EXCEPT ![Name] = Whole]
          /\ Goto([pc |-> "verify", todo |-> proc.todo, mem |-> proc.mem, left |-> Dtypes,
                   files |-> [d \in DtypeSet |-> [sha |-> NoFile, pass |-> FALSE]]])
       \/ Failed /\ refs' \in {refs, [refs EXCEPT ![Name] = IF @ = NoFile THEN @ ELSE Torn]}
    /\ UNCHANGED <<gguf, results, passed, hub>>

(* jepa-quantize from the f32 file, the sum of the file it wrote, the verdict*)
(* of test-predictor; a quantization that fails is an entry without a file.  *)
Verify ==
    /\ proc.pc = "verify" /\ proc.left # <<>>
    /\ LET d == Head(proc.left)
           src == gguf[Name][First]
           Verdict(sha, ok) == Goto([proc EXCEPT !.left = Tail(@),
                                                 !.files[d] = [sha |-> sha, pass |-> ok]])
       IN \/ /\ gguf' = [gguf EXCEPT ![Name][d] = src]
             /\ \E ok \in BOOLEAN : (ok => src \in Contents) /\ Verdict(src, ok)
          \/ d # First /\ Verdict(NoFile, FALSE) /\ UNCHANGED gguf
    /\ UNCHANGED <<refs, results, passed, hub>>

(* The JSON is written after every checkpoint that was verified.             *)
Passing(entries) ==
    UNION {{[n |-> n, d |-> d, sha |-> entries[n].files[d].sha] :
               d \in {d \in DtypeSet : entries[n].files[d].pass}} :
           n \in {n \in NameSet : entries[n].kind = "files"}}
SaveResults ==
    /\ proc.pc = "verify" /\ proc.left = <<>>
    /\ LET mem == [proc.mem EXCEPT ![Name] = [kind |-> "files", files |-> proc.files]] IN
         /\ results' = mem
         /\ passed' = passed \cup Passing(mem)
         /\ Goto(NextName(mem))
    /\ UNCHANGED <<refs, gguf, hub>>

(* "wrote RESULTS: n runs, k with a failure"                                 *)
FinishRun ==
    /\ proc.pc = "finish"
    /\ Goto(Idle)
    /\ UNCHANGED <<local, hub>>

-----------------------------------------------------------------------------
(* upload                                                                    *)

(* card: a row for every file that has passed, with its numbers.             *)
Card(entries) == Passing(entries)

Uploading(fixturesOnly) ==
    [pc |-> "card", card |-> Card(results), only |-> fixturesOnly,
     files |-> IF fixturesOnly THEN {} ELSE Passing(results),
     refs |-> {n \in NameSet : results[n] # NoEntry}]

\* Mutant: a file is what it was when it was verified.
StartUpload_NoSum ==
    \E fixturesOnly \in BOOLEAN : Start(Uploading(fixturesOnly)) /\ UNCHANGED <<local, hub>>

(* The card and the list of files are made from the JSON, every file summed; *)
(* a JSON that is not there or cannot be read, and a file that is not what   *)
(* was verified, stop the command.                                           *)
StartUpload ==
    \E fixturesOnly \in BOOLEAN :
        /\ IF results \in {NoJson, CutJson} \/ \E r \in Passing(results) : gguf[r.n][r.d] # r.sha
           THEN Start(Idle) ELSE Start(Uploading(fixturesOnly))
        /\ UNCHANGED <<local, hub>>

UploadCard ==
    /\ proc.pc = "card"
    /\ repo' = [repo EXCEPT !.card = proc.card]
    /\ Goto(At("files"))
    /\ UNCHANGED <<local, dataset>>

(* upload_file reads the file now.                                           *)
UploadFile ==
    /\ proc.pc = "files"
    /\ \E r \in proc.files :
         /\ repo' = [repo EXCEPT !.files[r.n][r.d] = gguf[r.n][r.d]]
         /\ Goto([proc EXCEPT !.files = @ \ {r}])
    /\ UNCHANGED <<local, dataset>>

(* The directories of dumps that have a manifest.                            *)
UploadRef ==
    /\ proc.pc = "files" /\ proc.files = {}
    /\ \E n \in proc.refs :
         /\ dataset' = IF refs[n] = NoFile THEN dataset ELSE [dataset EXCEPT ![n] = refs[n]]
         /\ Goto([proc EXCEPT !.refs = @ \ {n}])
    /\ UNCHANGED <<local, repo>>

FinishUpload ==
    /\ proc.pc = "files" /\ proc.files = {} /\ proc.refs = {}
    /\ Goto(Idle)
    /\ UNCHANGED <<local, hub>>

-----------------------------------------------------------------------------
(* The command is interrupted, or the hub refuses a call: what was being     *)
(* written is torn, the JSON too, which write_text replaces in place.        *)
Kill ==
    /\ proc # Idle
    /\ gguf' \in {gguf} \cup
         (IF proc.pc = "convert" THEN {[gguf EXCEPT ![Name][First] = Torn]} ELSE {}) \cup
         (IF proc.pc = "verify" /\ proc.left # <<>> /\ Head(proc.left) # First
          THEN {[gguf EXCEPT ![Name][Head(proc.left)] = Torn]} ELSE {})
    /\ results' \in {results} \cup
         (IF proc.pc = "verify" /\ proc.left = <<>> THEN {CutJson} ELSE {})
    /\ Goto(Idle)
    /\ UNCHANGED <<refs, passed, hub>>

(* Somebody deletes the JSON nothing can read.                               *)
DropJson ==
    /\ proc = Idle /\ results = CutJson
    /\ results' = NoJson
    /\ UNCHANGED <<refs, gguf, passed, hub, proc, commands>>

(* Somebody converts or quantizes by hand.                                   *)
Rewrite ==
    /\ proc = Idle \/ Rewrites = "any"
    /\ commands < MaxCommands
    /\ \E n \in NameSet, d \in DtypeSet, c \in Contents :
         gguf[n][d] # c /\ gguf' = [gguf EXCEPT ![n][d] = c]
    /\ commands' = commands + 1
    /\ UNCHANGED <<refs, results, passed, hub, proc>>

Run == StartRun \/ Download \/ Convert \/ Reference \/ Verify \/ SaveResults \/ FinishRun
Upload == StartUpload \/ UploadCard \/ UploadFile \/ UploadRef \/ FinishUpload
BatchNext == Run \/ Upload \/ Kill \/ DropJson \/ Rewrite
BatchSpec == BatchInit /\ [][BatchNext]_batchVars

-----------------------------------------------------------------------------
(* Every file on the hub is one that has a saved verdict PASS for its name,  *)
(* its type and its bytes, whatever was killed, converted again or published *)
(* in between: "A file is only ever published with a PASS in that JSON next  *)
(* to its sha256". (With Rewrites = "any" it is false: the files are summed  *)
(* before the card is uploaded and read again afterwards.)                   *)
PublishedPassed ==
    \A n \in NameSet, d \in DtypeSet :
        repo.files[n][d] # NoFile => [n |-> n, d |-> d, sha |-> repo.files[n][d]] \in passed

(* The failures a finished run says it wrote are in the JSON it names.       *)
FailuresAreSaved ==
    [][FinishRun => \A n \in NameSet : proc.mem[n] = Error => results[n] = Error]_batchVars
=============================================================================
