------------------------------ MODULE HfPublish -----------------------------
(* scripts/hf_publish.py: `upload` pushes the GGUFs, the fixtures and the    *)
(* cards generated from the working tree, `check` compares the hub with the  *)
(* local files and the cards it would generate now.                          *)
(*                                                                           *)
(* The bytes of a file are a member of Bytes. An artifact the cards quote    *)
(* (docs/parity.md, docs/quantization.md, a JSON of tests/results) is a      *)
(* version number: `tree` what the working tree holds, `head` what the last  *)
(* commit that touched one holds, which stands for its hash.                 *)
EXTENDS Naturals, FiniteSets

CONSTANTS Models,     \* MODELS
          PublishDtypes, \* DTYPES of hf_publish.py
          Artifacts,  \* what the cards quote
          Quotes,     \* Quotes[m]: the artifacts with figures of model m
          Refs,       \* the files under tests/fixtures/ref
          Bytes, Absent,
          MaxEvents   \* bound on the commands started and on the local changes

VARIABLES weights,    \* models/gguf
          localDumps, \* tests/fixtures/ref
          tree,       \* the artifacts in the working tree
          head,       \* the artifacts in the last commit that touched one
          repos,      \* the model repositories: [files, card]
          dumpRepo,   \* the fixtures dataset: [files, card]
          command,    \* the running command
          quiet,      \* history: nothing else has changed anything since it began
          events      \* commands and changes so far

publishVars == <<weights, localDumps, tree, head, repos, dumpRepo, command, quiet, events>>
onDisk == <<weights, localDumps, tree, head>>
published == <<repos, dumpRepo>>
NoCommand == [pc |-> "idle"]
NoCard == [commit |-> 0]

PublishInit ==
    /\ \E c \in Bytes :
          weights = [m \in Models |-> [d \in PublishDtypes |-> c]] /\ localDumps = [r \in Refs |-> c]
    /\ tree = [a \in Artifacts |-> 1] /\ head = tree
    /\ repos = [m \in Models |-> [files |-> [d \in PublishDtypes |-> Absent], card |-> NoCard]]
    /\ dumpRepo = [files |-> [r \in Refs |-> Absent], card |-> NoCard]
    /\ command = NoCommand /\ quiet = TRUE /\ events = 0

Continue(p) == command' = p /\ UNCHANGED <<quiet, events>>

-----------------------------------------------------------------------------
(* What a card says: the sums in its table and its checksum block, the       *)
(* commit it names and the figures of the artifacts; the dataset's lists the *)
(* directories with their sizes.                                             *)

(* The parity table, the k-NN and SSv2 tables and the speed line.            *)
Figures(m, artifacts) == [a \in Quotes[m] |-> artifacts[a]]

RenderCard(m, ctx) ==
    [shas |-> ctx.shas[m], commit |-> ctx.commit, figures |-> Figures(m, ctx.artifacts)]
RenderDatasetCard(ctx) ==
    [dirs |-> {r \in Refs : localDumps[r] # Absent}, commit |-> ctx.commit]

(* build_context takes the commit and the sums, then reads the artifacts.    *)
(* Every GGUF must be there, whichever models are asked for.                 *)
BuildContext(p) ==
    /\ command = NoCommand /\ events < MaxEvents
    /\ command' = IF \E m \in Models, d \in PublishDtypes : weights[m][d] = Absent THEN NoCommand
                  ELSE [p EXCEPT !.ctx.commit = head, !.ctx.shas = weights]
    /\ events' = events + 1 /\ quiet' = TRUE
    /\ UNCHANGED <<onDisk, published>>

NoContext == [commit |-> 0, shas |-> 0, cards |-> 0, dataset |-> 0]

(* Without names every model and the fixtures; --fixtures adds the fixtures. *)
StartPublish ==
    \E names \in SUBSET Models, fixtures \in BOOLEAN :
        LET models == IF names = {} THEN Models ELSE names
            dumps == fixtures \/ names = {}
        IN BuildContext([cmd |-> "upload", pc |-> "read", ctx |-> NoContext, todo |-> models, at |-> 0,
                         fixtures |-> dumps, all |-> models = Models /\ dumps])
StartCheck ==
    BuildContext([cmd |-> "check", pc |-> "read", ctx |-> NoContext, todo |-> Models, at |-> 0,
                  drift |-> FALSE, cut |-> FALSE])

(* Parity, quantization and the result JSONs are read from the working tree, *)
(* committed or not; a version stands for the rows found in it.              *)
ReadArtifacts == tree

WriteCards ==
    /\ command.pc = "read"
    /\ LET ctx == [commit |-> command.ctx.commit, shas |-> command.ctx.shas, artifacts |-> ReadArtifacts] IN
       Continue([command EXCEPT !.pc = "card",
                                !.ctx.cards = [m \in Models |-> RenderCard(m, ctx)],
                                !.ctx.dataset = RenderDatasetCard(ctx)])
    /\ UNCHANGED <<onDisk, published>>

AtStep(cmd, pc) == command.pc = pc /\ command.cmd = cmd
ModelsDone == command.pc = "card" /\ command.todo = {}
To(pc) == [command EXCEPT !.pc = pc]
NextModel == [command EXCEPT !.pc = "card", !.todo = @ \ {command.at}, !.at = 0]

-----------------------------------------------------------------------------
(* upload: of every model the card, then the files, read when they are sent; *)
(* then the dataset's card and ref/. upload_folder sends the local files and *)
(* removes none from the hub.                                                *)
Sent(there, here) == [f \in DOMAIN here |-> IF here[f] = Absent THEN there[f] ELSE here[f]]

PublishCard ==
    /\ AtStep("upload", "card")
    /\ \E m \in command.todo :
         /\ repos' = [repos EXCEPT ![m].card = command.ctx.cards[m]]
         /\ Continue([command EXCEPT !.pc = "folder", !.at = m])
    /\ UNCHANGED <<onDisk, dumpRepo>>

\* Mutant: a file that is on the hub is not sent again.
UploadFolder_SkipsPresent ==
    /\ AtStep("upload", "folder")
    /\ repos' = [repos EXCEPT ![command.at].files =
                     [d \in PublishDtypes |-> IF @[d] = Absent THEN weights[command.at][d] ELSE @[d]]]
    /\ Continue(NextModel)
    /\ UNCHANGED <<onDisk, dumpRepo>>

UploadFolder ==
    /\ AtStep("upload", "folder")
    /\ repos' = [repos EXCEPT ![command.at].files = Sent(@, weights[command.at])]
    /\ Continue(NextModel)
    /\ UNCHANGED <<onDisk, dumpRepo>>

UploadDatasetCard ==
    /\ AtStep("upload", "card") /\ ModelsDone /\ command.fixtures
    /\ dumpRepo' = [dumpRepo EXCEPT !.card = command.ctx.dataset]
    /\ Continue(To("ref"))
    /\ UNCHANGED <<onDisk, repos>>

UploadRefs ==
    /\ AtStep("upload", "ref")
    /\ dumpRepo' = [dumpRepo EXCEPT !.files = Sent(@, localDumps)]
    /\ Continue(To("done"))
    /\ UNCHANGED <<onDisk, repos>>

FinishPublish ==
    /\ AtStep("upload", "done") \/ (AtStep("upload", "card") /\ ModelsDone /\ ~command.fixtures)
    /\ Continue(NoCommand)
    /\ UNCHANGED <<onDisk, published>>

-----------------------------------------------------------------------------
(* check                                                                     *)

Drift(found, next) == [next EXCEPT !.drift = IF found THEN TRUE ELSE @]
Unanswered(next) == [next EXCEPT !.drift = TRUE, !.cut = TRUE]

(* The published sums against those taken at the start. A repository that    *)
(* cannot be listed is drift, and its card is not looked at.                 *)
CheckFiles ==
    /\ AtStep("check", "card")
    /\ \E m \in command.todo :
         LET listed == Drift(\E d \in PublishDtypes : repos[m].files[d] # command.ctx.shas[m][d],
                             [command EXCEPT !.pc = "folder", !.at = m])
             unlisted == Unanswered([command EXCEPT !.todo = @ \ {m}])
         IN Continue(unlisted) \/ (repos[m].card # NoCard /\ Continue(listed))
    /\ UNCHANGED <<onDisk, published>>

(* An answer other than 200 is a card that is not published.                 *)
CheckCard ==
    /\ AtStep("check", "folder")
    /\ \/ Continue(Drift(repos[command.at].card # command.ctx.cards[command.at], NextModel))
       \/ Continue(Unanswered(NextModel))
    /\ UNCHANGED <<onDisk, published>>

\* Mutant: only the published files are compared.
CheckRefs_PublishedOnly ==
    /\ AtStep("check", "card") /\ ModelsDone
    /\ Continue(Drift(\E r \in Refs : dumpRepo.files[r] \notin {Absent, localDumps[r]}, To("ref")))
    /\ UNCHANGED <<onDisk, published>>

(* Every published file against the local one, and every local one against   *)
(* the list; a list that fails is drift.                                     *)
CheckRefs ==
    /\ AtStep("check", "card") /\ ModelsDone
    /\ \/ Continue(Drift(dumpRepo.files # localDumps, To("ref")))
       \/ Continue(Unanswered(To("ref")))
    /\ UNCHANGED <<onDisk, published>>

CheckDatasetCard ==
    /\ AtStep("check", "ref")
    /\ \/ Continue(Drift(dumpRepo.card # command.ctx.dataset, To("done")))
       \/ Continue(Unanswered(To("done")))
    /\ UNCHANGED <<onDisk, published>>

FinishCheck ==
    /\ AtStep("check", "done")
    /\ Continue(NoCommand)
    /\ UNCHANGED <<onDisk, published>>

-----------------------------------------------------------------------------
(* A command is interrupted, or a call to the hub raises.                    *)
Abort ==
    /\ command # NoCommand
    /\ Continue(NoCommand)
    /\ UNCHANGED <<onDisk, published>>

Change(A) == A /\ events < MaxEvents /\ events' = events + 1 /\ quiet' = FALSE /\ UNCHANGED command

(* Others convert a GGUF or remove it, dump or remove a reference, measure   *)
(* again, commit; hjepa_batch.py uploads a directory of dumps.               *)
Reconvert == Change(
    /\ \E m \in Models, d \in PublishDtypes, c \in Bytes \cup {Absent} :
         weights' = [weights EXCEPT ![m][d] = c]
    /\ UNCHANGED <<localDumps, tree, head, published>>)
Redump == Change(
    /\ \E r \in Refs, c \in Bytes \cup {Absent} : localDumps' = [localDumps EXCEPT ![r] = c]
    /\ UNCHANGED <<weights, tree, head, published>>)
Remeasure == Change(
    /\ \E a \in Artifacts : tree' = [tree EXCEPT ![a] = @ + 1]
    /\ UNCHANGED <<weights, localDumps, head, published>>)
Commit == Change(tree # head /\ head' = tree /\ UNCHANGED <<weights, localDumps, tree, published>>)
BatchUpload == Change(
    /\ \E r \in {r \in Refs : localDumps[r] # Absent} : dumpRepo' = [dumpRepo EXCEPT !.files[r] = localDumps[r]]
    /\ UNCHANGED <<onDisk, repos>>)

PublishNext ==
    \/ StartPublish \/ StartCheck \/ WriteCards
    \/ PublishCard \/ UploadFolder \/ UploadDatasetCard \/ UploadRefs \/ FinishPublish
    \/ CheckFiles \/ CheckCard \/ CheckRefs \/ CheckDatasetCard \/ FinishCheck
    \/ Abort \/ Reconvert \/ Redump \/ Remeasure \/ Commit \/ BatchUpload

PublishSpec == PublishInit /\ [][PublishNext]_publishVars

-----------------------------------------------------------------------------
(* What the hub should hold now.                                             *)
Now == [shas |-> weights, commit |-> head, artifacts |-> tree]
ModelAgrees(m) == repos[m] = [files |-> weights[m], card |-> RenderCard(m, Now)]
DatasetAgrees == dumpRepo = [files |-> localDumps, card |-> RenderDatasetCard(Now)]

(* A check during which nothing changed says "no drift" only when every file *)
(* and every card on the hub is the local one, and reports drift only when   *)
(* one is not or the hub could not be listed.                                *)
CheckIsRight ==
    [][FinishCheck /\ quiet =>
         LET agrees == DatasetAgrees /\ \A m \in Models : ModelAgrees(m) IN
         (~command.drift => agrees) /\ (command.drift => ~agrees \/ command.cut)]_publishVars

(* An upload of everything during which nothing changed leaves nothing to    *)
(* report but the published dumps that are no longer local, whatever an      *)
(* earlier upload that was interrupted had left there.                       *)
UploadSettles ==
    [][FinishPublish /\ quiet /\ command.all =>
         /\ \A m \in Models : ModelAgrees(m)
         /\ dumpRepo.card = RenderDatasetCard(Now)
         /\ \A r \in Refs : localDumps[r] # Absent => dumpRepo.files[r] = localDumps[r]]_publishVars
=============================================================================
