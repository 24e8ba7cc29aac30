-------------------------- MODULE HjepaCheckpoints --------------------------
(* The converter of the hierarchical family (scripts/jepa_convert/hjepa.py). *)
(* A checkpoint is a pickled module tree: each level chose an encoder, an    *)
(* action encoder, an action embedding and a predictor, and the converter    *)
(* asks the tree which. A level's choices are a record:                      *)
(*   enc     level 1 "vit" | "fusion"; above "mlp" | "mlp_norm" | "identity" *)
(*   proj    level 1: its projector "identity" | "layernorm" | "mlp"         *)
(*   acts    above level 1: "seq" | "mlp" | "mlp_norm"                       *)
(*   embed   "identity" | "embedder" | "conv"                                *)
(*   bare    the predictor embeds the action itself and has no projector     *)
(*   ports   its transformer's projections: a subset of Ports                *)
(*   tail    the projector after it, of an ARPredictor                       *)
(*   narrow  its transformer is not as wide as the state                     *)
(*   queue   "none" | "empty" | "full", latent actions kept from training    *)
EXTENDS ImageCheckpoints

Ports == {"in_proj", "cond_proj", "out_proj"}
LevelChoices ==
    [enc : {"vit", "fusion", "mlp", "mlp_norm", "identity"}, proj : {"identity", "layernorm", "mlp"},
     acts : {"seq", "mlp", "mlp_norm"}, embed : {"identity", "embedder", "conv"}, bare : BOOLEAN,
     ports : SUBSET Ports, tail : {"identity", "layernorm", "mlp"}, narrow : BOOLEAN,
     queue : {"none", "empty", "full"}]
Level == <<"lvl1", "lvl2", "lvl3", "lvl4">>     \* the released hierarchies have 1 to 4
Lv(k, part, role) == <<Level[k], part, role>>
Same(k, part, role, kind) == Linear(Lv(k, part, role), Lv(k, part, role), kind)
NormOf(k, part, role) == Norm(Lv(k, part, role), Lv(k, part, role))
Param(k, part, role) == Copy(<<Level[k], part, role, "">>, <<Level[k], part, role, "">>, "plain")

(* build_projector: nothing, a LayerNorm, or an MLP with its BatchNorm.      *)
Projector(kind, k, part) ==
    CASE kind = "identity" -> {}
      [] kind = "layernorm" -> NormOf(k, part, "proj_ln")
      [] kind = "mlp" -> Folded(Lv(k, part, "proj_net0"), Lv(k, part, "proj_net1"), Lv(k, part, "proj0"))
                         \cup Linear(Lv(k, part, "proj_net3"), Lv(k, part, "proj2"), "quant")
ProjectorDrops(kind, k, part) == IF kind = "mlp" THEN {<<Level[k], part, "proj_net1", "num_batches_tracked">>} ELSE {}

Level1Encoder(lv) ==
    Projector(lv.proj, 1, "enc")
    \cup IF lv.enc = "fusion"
         THEN Same(1, "enc", "proprio0", "matrix") \cup NormOf(1, "enc", "proprio_ln")
              \cup Same(1, "enc", "proprio2", "matrix")
         ELSE {}
UpperEncoder(lv, k) ==
    IF lv.enc = "identity" THEN {}
    ELSE NormOf(k, "enc", "in_norm") \cup Same(k, "enc", "fc1", "quant") \cup Same(k, "enc", "fc2", "quant")
         \cup IF lv.enc = "mlp_norm" THEN NormOf(k, "enc", "out_norm") ELSE {}

(* The pooling of the actions below: a transformer over a CLS row, or an MLP *)
ActionBlock(k) ==
    (UNION {NormOf(k, "act_blk", r) : r \in {"ln1", "ln2"}})
    \cup UNION {Same(k, "act_blk", r, "matrix") : r \in {"qkv", "out", "up", "down"}}
ActionEncoder(lv, k) ==
    IF lv.acts = "seq"
    THEN Same(k, "act_enc", "step", "matrix") \cup Param(k, "act_enc", "pos") \cup ActionBlock(k)
         \cup Same(k, "act_enc", "head0", "matrix") \cup NormOf(k, "act_enc", "head_ln")
         \cup Same(k, "act_enc", "head2", "matrix") \cup NormOf(k, "act_enc", "out_norm")
    ELSE Same(k, "act_enc", "fc1", "matrix") \cup Same(k, "act_enc", "fc2", "matrix")
         \cup IF lv.acts = "mlp_norm" THEN NormOf(k, "act_enc", "out_norm") ELSE {}
Embedder(lv, k) ==
    CASE lv.embed = "identity" -> {}
      [] lv.embed = "embedder" -> Same(k, "act_embed", "0", "matrix") \cup Same(k, "act_embed", "2", "matrix")
      [] lv.embed = "conv" -> Paired(Lv(k, "act_embed", "conv"), Lv(k, "act_embed", "0"), Lv(k, "act_embed", "0"))
                              \cup Same(k, "act_embed", "2", "matrix")

PredictorBlock(lv, k) ==
    Same(k, "pred_blk", "adaln", "matrix") \cup Weight(Lv(k, "pred_blk", "qkv"), Lv(k, "pred_blk", "qkv"), "quant")
    \cup (UNION {Same(k, "pred_blk", r, "quant") : r \in {"out", "up", "down"}})
    \cup IF lv.bare THEN {} ELSE NormOf(k, "pred_blk", "ln1") \cup NormOf(k, "pred_blk", "ln2")
Predictor(lv, k) ==
    Param(k, "pred", "pos") \cup NormOf(k, "pred", "norm") \cup PredictorBlock(lv, k)
    \cup (UNION {Same(k, "pred", r, "quant") : r \in lv.ports})
    \cup IF lv.bare THEN Same(k, "pred", "act_embed0", "matrix") \cup Same(k, "pred", "act_embed2", "matrix")
         ELSE Projector(lv.tail, k, "pred")

(* A transformer of another width than the state needs all its projections   *)
(* (an MLP projector brings the width back just as well).                    *)
WidthsAgree(lv) ==
    lv.narrow => /\ {"in_proj", "cond_proj"} \subseteq lv.ports
                 /\ "out_proj" \in lv.ports \/ (~ lv.bare /\ lv.tail = "mlp")

LevelRows(lv, k) ==
    (IF k = 1 THEN Level1Encoder(lv) ELSE UpperEncoder(lv, k) \cup ActionEncoder(lv, k))
    \cup Embedder(lv, k) \cup Predictor(lv, k)
    \cup IF lv.queue = "full" THEN Param(k, "act_queue", "queue") ELSE {}
LevelDrops(lv, k) ==
    ProjectorDrops(IF k = 1 THEN lv.proj ELSE "identity", k, "enc")
    \cup ProjectorDrops(IF lv.bare THEN "identity" ELSE lv.tail, k, "pred")
    \cup IF lv.queue = "empty" THEN {<<Level[k], "act_queue", "queue", "">>} ELSE {}

(* _vit counts the layers of the ViT in the checkpoint, and no config says   *)
(* how many there should be; it looks at the first layer's MLP for its width.*)
HjepaDepth(ckpt) == LayerCount(ckpt, "enc", "ln1", "weight")
HjepaRows(c, ckpt) ==
    HfVitRows(HjepaDepth(ckpt)) \cup UNION {LevelRows(c.levels[k], k) : k \in DOMAIN c.levels}
HjepaRefuses(c, ckpt) ==
    \/ <<"enc", 1, "up", "weight">> \notin ckpt
    \/ \E k \in DOMAIN c.levels : ~ WidthsAgree(c.levels[k])
    \/ c.levels[1].embed = "identity" /\ ~ c.levels[1].bare    \* reads the width off the bare predictor
    \/ \E k \in DOMAIN c.levels : <<Level[k], "pred_blk", "qkv", "bias">> \in ckpt
HjepaDrops(c) == HfVitDrops \cup UNION {LevelDrops(c.levels[k], k) : k \in DOMAIN c.levels}
HjepaTolerates == {<<"lvl1", "idm_loss_fn", "fc", "weight">>, <<"lvl1", "decoder_level", "fc", "weight">>}
HjepaKeys(c, ckpt) == [NoKeys EXCEPT !.layers = HjepaDepth(ckpt), !.cls = TRUE, !.levels = c.levels]
=============================================================================
