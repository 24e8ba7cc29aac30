------------------------------- MODULE GgufLoad ------------------------------
(* What the engine's loader asks of a GGUF file (src/src/jepa-gguf.cpp and,  *)
(* for the levels of H-JEPA, src/src/hjepa.cpp): the tensors its graph        *)
(* builders dereference, decided by the file's metadata. A file is a record   *)
(* of its tensors, those stored as F16, and its keys; shapes are left out.    *)
EXTENDS HjepaCheckpoints, VideoCheckpoints

Has(file, names) == names \subseteq file.tensors
Weights(s, i, roles) == {<<s, i, r, "weight">> : r \in roles}

BlockComplete(file, s, i) == Has(file, Weights(s, i, {"ln1", "ln2", "out", "up", "down", "qkv"}))

EncoderLoads(file) ==
    LET k == file.keys IN
    /\ k.layers >= 1
    /\ Has(file, Weights("enc", 0, {"patch"}))
    /\ \A i \in 1..k.layers : BlockComplete(file, "enc", i)
    /\ k.cls => Has(file, {<<"enc", 0, "cls", "">>})
    /\ k.registers => Has(file, {<<"enc", 0, "reg", "">>})

PredictorNeeds(file) ==
    CASE file.keys.pred = "none" -> {}
      [] file.keys.pred = "masked" ->
            {<<"pred", 0, "mask", "">>} \cup Weights("pred", 0, {"norm", "proj"})
            \cup (IF <<"pred", 0, "embed", "weight">> \in file.tensors THEN {}
                  ELSE Weights("pred", 0, {"embed0", "embed2"}))
            \cup (IF file.keys.modality THEN {<<"pred", 0, "video_mod", "">>} ELSE {})
      [] file.keys.pred = "ac" -> Weights("pred", 0, {"embed", "action", "state", "norm", "proj"})
      [] file.keys.pred = "lewm" ->
            Weights("pred", 0, {"norm"})
            \cup {<<"pred", 0, r, n, "weight">> : r \in {"action_embed", "proj"}, n \in {"0", "2"}}
PredictorLoads(file) ==
    file.keys.pred # "none" =>
        /\ Has(file, PredictorNeeds(file))
        /\ file.keys.predLayers >= 1
        /\ \A i \in 1..file.keys.predLayers :
              /\ BlockComplete(file, "pred", i)
              /\ file.keys.pred = "lewm" => Has(file, Weights("pred", i, {"adaln"}))

HeadLoads(file) ==
    file.keys.pool > 0 =>
        /\ Has(file, {<<"head", 0, "query", "">>, <<"head", 0, "cls", "weight">>}
                     \cup Weights("xattn", 0, {"ln_kv", "q", "k", "v", "ln2", "up", "down"}))
        /\ \A i \in 1..file.keys.pool : BlockComplete(file, "head", i)

(* jepa_hjepa_bind, level by level.                                          *)
Need(k, part, roles) == Weights(Level[k], part, roles)
LevelNeeds(lv, k) ==
    (IF k = 1
     THEN (CASE lv.proj = "mlp" -> Need(1, "enc", {"proj0", "proj2"})
             [] lv.proj = "layernorm" -> Need(1, "enc", {"proj_ln"})
             [] lv.proj = "identity" -> {})
          \cup IF lv.enc = "fusion" THEN Need(1, "enc", {"proprio0", "proprio_ln", "proprio2"}) ELSE {}
     ELSE (IF lv.enc = "identity" THEN {} ELSE Need(k, "enc", {"in_norm", "fc1", "fc2"}))
          \cup IF lv.acts = "seq"
               THEN Need(k, "act_enc", {"step", "head0", "head_ln", "head2", "out_norm"})
                    \cup {<<Level[k], "act_enc", "pos", "">>}
                    \cup Need(k, "act_blk", {"ln1", "ln2", "qkv", "out", "up", "down"})
               ELSE Need(k, "act_enc", {"fc1", "fc2"}))
    \cup {<<Level[k], "pred", "pos", "">>} \cup Need(k, "pred", {"norm"})
    \cup (IF lv.bare THEN Need(k, "pred", {"act_embed0", "act_embed2"})
                     ELSE Need(k, "pred_blk", {"ln1", "ln2"}))
    \cup Need(k, "pred_blk", {"adaln", "qkv", "out", "up", "down"})
LevelLoads(file, lv, k) ==
    /\ Has(file, LevelNeeds(lv, k))
    /\ lv.embed # "identity" => Has(file, Need(k, "act_embed", {"2"}))
    /\ lv.narrow => /\ Has(file, Need(k, "pred", {"in_proj", "cond_proj"}))
                    /\ \/ Has(file, Need(k, "pred", {"out_proj"}))
                       \/ Has(file, Need(k, "pred", {"proj0", "proj2"}))
LevelsLoad(file) ==
    /\ file.keys.levels # <<>> => file.keys.cls
    /\ \A k \in DOMAIN file.keys.levels : LevelLoads(file, file.keys.levels[k], k)

(* Tokens, tables, norms and biases are added to F32 activations.            *)
PlainIsF32(file) == \A r \in file.rows : r.kind = "plain" => r.to \notin file.f16

Loads(file) ==
    EncoderLoads(file) /\ PredictorLoads(file) /\ HeadLoads(file) /\ LevelsLoad(file) /\ PlainIsF32(file)
=============================================================================
