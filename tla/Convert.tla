------------------------------- MODULE Convert -------------------------------
(* scripts/convert.py: one conversion of a checkpoint into a GGUF file that  *)
(* may already exist, up to a kill at any step, and what the engine's loader *)
(* then says of the file.                                                    *)
EXTENDS Converters

CONSTANTS
    Families,             \* the families to convert
    Configs(_),           \* of a family: what its config.json, or its module tree, may say
    Checkpoints(_, _),    \* of a family and a config: the sets of tensors to try
    Ftypes                \* --ftype: "f32", "f16"

(* What a config.json or a module tree may say (LevelChoices), and how the   *)
(* frameworks number the layers; an H-JEPA checkpoint has a level at least,  *)
(* and the extrinsics encoder of V-JEPA 2-AC, which is left out, is one      *)
(* Linear.                                                                   *)
ConfigRecords ==
    [layers : Nat \ {0}, registers : BOOLEAN, scale : BOOLEAN, predLayers : Nat \ {0},
     head : BOOLEAN, pool : Nat, levels : {s \in Seq(LevelChoices) : Len(s) <= Len(Level)}]
Numbered(ckpt) ==
    /\ IsFiniteSet(ckpt)
    /\ \A t \in ckpt : t[1] \in {"enc", "pred", "norms", "masks"} => t[2] \in Nat
ASSUME ConvertAssumption ==
    /\ Families \subseteq AllFamilies
    /\ \A f \in Families : \A c \in Configs(f) :
          /\ c \in ConfigRecords /\ (f = "hjepa" => c.levels # <<>>)
          /\ \A ckpt \in Checkpoints(f, c) :
                Numbered(ckpt) /\ (f = "vjepa2_ac" => Skipped(ckpt) \subseteq AcTolerates)

VARIABLES
    job,            \* the conversion: [family, config, ckpt, ftype, allow], allow = --allow-unmapped
    step,           \* "start", "read", "checked", "opened", "done", "refused", "killed"
    rows,           \* what the converter has added to its writer
    out             \* the output path: "old", "torn" or "new"

convertVars == <<job, step, rows, out>>

(* What is left over: check_unmapped of the local families tolerates some of *)
(* it, or all with --allow-unmapped; the external ones refuse any of it, and *)
(* V-JEPA 2-AC has counted its tensors already.                              *)
Unused(j) ==
    j.ckpt \ (Sources(Rows(j.family, j.config, j.ckpt)) \cup Drops(j.family, j.config))
LocalUnmapped(j) == ~ j.allow /\ ~ (Unused(j) \subseteq Tolerates(j.family))
VideoUnmapped(j) == j.family # "vjepa2_ac" /\ Unused(j) # {}
\* Mutant: the check of the local families tolerates whatever the encoder's scope holds.
Unmapped_Lax(j) ==
    IF j.family \in LocalFamilies THEN ~ j.allow /\ \E t \in Unused(j) \ Tolerates(j.family) : t[1] # "enc"
    ELSE VideoUnmapped(j)
Unmapped(j) == IF j.family \in LocalFamilies THEN LocalUnmapped(j) ELSE VideoUnmapped(j)

(* JepaWriter stores the quantizable matrices as F16, the writers of the     *)
(* video families every matrix.                                              *)
LocalF16(rs) == {r.to : r \in {x \in rs : x.kind = "quant"}}
VideoF16(rs) == {r.to : r \in {x \in rs : x.kind \in {"quant", "matrix"}}}
F16(j) ==
    CASE j.ftype # "f16" -> {}
      [] j.family \in LocalFamilies -> LocalF16(rows)
      [] OTHER -> VideoF16(rows)
File(j) ==
    [rows |-> rows, tensors |-> Targets(rows), f16 |-> F16(j), keys |-> Keys(j.family, j.config, j.ckpt)]

ConvertInit ==
    /\ \E f \in Families, ftype \in Ftypes :
          \E allow \in (IF f \in LocalFamilies THEN BOOLEAN ELSE {FALSE}),
             c \in Configs(f) : \E ckpt \in Checkpoints(f, c) :
             job = [family |-> f, config |-> c, ckpt |-> ckpt, ftype |-> ftype, allow |-> allow]
    /\ step = "start"
    /\ rows = {}
    /\ out = "old"                  \* an earlier conversion's file

(* Config and checkpoint are read, and their counts compared.                *)
ReadCheckpoint ==
    /\ step = "start"
    /\ step' = IF Refuses(job.family, job.config, job.ckpt) THEN "refused" ELSE "read"
    /\ UNCHANGED <<job, rows, out>>

(* Every row is taken from the checkpoint and handed to the writer, which    *)
(* keeps it in memory; one that is not there is a KeyError.                  *)
AddTensors ==
    /\ step = "read"
    /\ LET all == Rows(job.family, job.config, job.ckpt) IN
       IF Sources(all) \subseteq job.ckpt
       THEN rows' = all /\ step' = IF Unmapped(job) THEN "refused" ELSE "checked"
       ELSE UNCHANGED rows /\ step' = "refused"
    /\ UNCHANGED <<job, out>>

(* JepaWriter.write and close(): the output is opened, the header and the    *)
(* metadata go out first, the tensors after them.                            *)
WriteHeader ==
    /\ step = "checked"
    /\ step' = "opened"
    /\ out' = "torn"
    /\ UNCHANGED <<job, rows>>

WriteTensors ==
    /\ step = "opened"
    /\ step' = "done"
    /\ out' = "new"
    /\ UNCHANGED <<job, rows>>

KillConvert ==
    /\ step \in {"start", "read", "checked", "opened"}
    /\ step' = "killed"
    /\ UNCHANGED <<job, rows, out>>

ConvertNext == ReadCheckpoint \/ AddTensors \/ WriteHeader \/ WriteTensors \/ KillConvert
ConvertSpec == ConvertInit /\ [][ConvertNext]_convertVars

-----------------------------------------------------------------------------
(* What SourceTensors promises: a conversion that was not told to allow it   *)
(* leaves no tensor of the checkpoint out of the file but those named for it *)
(* (loss heads, poolers, counters, the iBOT token).                          *)
NothingDropped ==
    out = "new" /\ ~ (job.allow /\ job.family \in LocalFamilies) =>
        job.ckpt \subseteq
            Sources(rows) \cup Tolerates(job.family) \cup Drops(job.family, job.config)

(* Whatever a converter accepts, the engine loads: every tensor its graphs   *)
(* dereference for the file's metadata is there, in a type they take. But    *)
(* for an H-JEPA checkpoint without the norm of its ViT's first layer: with  *)
(* --allow-unmapped, every layer then passes for an unmapped tensor.         *)
NoLayerFound(j) == j.family = "hjepa" /\ j.allow /\ <<"enc", 1, "ln1", "weight">> \notin j.ckpt
WrittenFilesLoad == out = "new" => Loads(File(job)) \/ NoLayerFound(job)
=============================================================================
