-------------------------- MODULE VideoCheckpoints --------------------------
(* The converters of the video families: V-JEPA 2, V-JEPA 2.1, V-JEPA 2-AC   *)
(* and LeVJEPA (scripts/jepa_convert/vjepa2.py, vjepa2_1.py, vjepa2_ac.py,   *)
(* levjepa.py). They stand apart from common.py: no --allow-unmapped, and a  *)
(* storage rule of their own. Shapes read off a tensor count as uses of it.  *)
EXTENDS ImageCheckpoints

VideoVit(n, apart) == PatchEmbed \cup Blocks("enc", "enc", n, apart) \cup Norm(G("norm"), G("norm"))
MaskedTail ==
    Norm(P("norm"), P("norm")) \cup Linear(P("proj"), P("proj"), "quant")
Single(s, role, kind) == Copy(<<s, 0, role, "">>, <<s, 0, role, "">>, kind)

(* ---- V-JEPA 2: config and architecture say what there is; a classifier    *)
(* adds the attentive pooler.                                                *)
XattnLinears == {"q", "k", "v", "up", "down"}
HeadRows(n) ==
    Single("head", "query", "plain") \cup Blocks("pool", "head", n, TRUE)
    \cup Norm(<<"xattn", 0, "ln_kv">>, <<"xattn", 0, "ln_kv">>) \cup Norm(<<"xattn", 0, "ln2">>, <<"xattn", 0, "ln2">>)
    \cup (UNION {Linear(<<"xattn", 0, r>>, <<"xattn", 0, r>>, "quant") : r \in XattnLinears})
    \cup Linear(<<"head", 0, "cls">>, <<"head", 0, "cls">>, "quant")
Vjepa2Rows(c, ckpt) ==
    VideoVit(c.layers, TRUE)
    \cup Linear(P("embed"), P("embed"), "quant") \cup Single("pred", "mask", "plain")
    \cup Blocks("pred", "pred", c.predLayers, TRUE) \cup MaskedTail
    \cup IF c.head THEN HeadRows(c.pool) ELSE {}
Vjepa2Keys(c, ckpt) ==
    [NoKeys EXCEPT !.layers = c.layers, !.pred = "masked", !.predLayers = c.predLayers,
                   !.pool = IF c.head THEN c.pool ELSE 0]

(* ---- V-JEPA 2.1: everything is read off the checkpoint. The depth decides *)
(* which intermediate norms there have to be (ENC_HIER_LAYERS); the image    *)
(* tokenizer, the modality vectors, the two-layer embedding and the context  *)
(* projection are there when their first tensor is.                          *)
HierLayers == <<2, 2>>            \* depth -> how many norms: the table has as many for each
NormRows(n) ==
    (UNION {Norm(<<"norms", k, "ln">>, <<"hier", k, "ln">>) : k \in 1..n})
    \cup (IF n > 0 THEN Norm(<<"norms", n, "ln">>, G("norm")) ELSE {})
Modality(s) == Single(s, "img_mod", "plain") \cup Single(s, "video_mod", "plain")
WhenHas(t, ckpt, rows) == IF t \in ckpt THEN rows ELSE {}
Vjepa21Depth(ckpt) == HighestLayer(ckpt, "enc")
Vjepa21Embed(ckpt) ==
    UNION {Linear(P(r), P(r), "quant") :
        r \in IF <<"pred", 0, "embed0", "weight">> \in ckpt THEN {"embed0", "embed2"} ELSE {"embed"}}
MaskTokens(ckpt) == {t \in ckpt : t[1] = "masks"}
Vjepa21Rows(c, ckpt) ==
    PatchEmbed
    \cup WhenHas(<<"enc", 0, "patch_img", "weight">>, ckpt, Linear(G("patch_img"), G("patch_img"), "matrix"))
    \cup WhenHas(<<"enc", 0, "img_mod", "">>, ckpt, Modality("enc"))
    \cup Blocks("enc", "enc", Vjepa21Depth(ckpt), FALSE) \cup NormRows(HighestLayer(ckpt, "norms"))
    \cup Vjepa21Embed(ckpt)
    \cup {Row({<<"masks", i, "token", "">> : i \in 1..HighestLayer(ckpt, "masks")}, <<"pred", 0, "mask", "">>, "plain")}
    \cup WhenHas(<<"pred", 0, "img_mod", "">>, ckpt, Modality("pred"))
    \cup Blocks("pred", "pred", HighestLayer(ckpt, "pred"), FALSE) \cup MaskedTail
    \cup WhenHas(<<"pred", 0, "proj_context", "weight">>, ckpt, Linear(P("proj_context"), P("proj_context"), "quant"))
Vjepa21Refuses(c, ckpt) ==
    \/ Vjepa21Depth(ckpt) \notin DOMAIN HierLayers
    \/ HighestLayer(ckpt, "norms") # HierLayers[Vjepa21Depth(ckpt)]
    \/ HighestLayer(ckpt, "masks") = 0
    \/ HighestLayer(ckpt, "pred") = 0
Vjepa21Keys(c, ckpt) ==
    [NoKeys EXCEPT !.layers = Vjepa21Depth(ckpt), !.hier = HierLayers[Vjepa21Depth(ckpt)],
                   !.pred = "masked", !.predLayers = HighestLayer(ckpt, "pred"),
                   !.modality = <<"pred", 0, "img_mod", "">> \in ckpt]

(* ---- V-JEPA 2-AC: two state dicts, checked by how many tensors they hold. *)
(* The extrinsics encoder is left out on purpose.                            *)
AcRows(c, ckpt) ==
    VideoVit(HighestLayer(ckpt, "enc"), FALSE)
    \cup (UNION {Linear(P(r), P(r), "matrix") : r \in {"embed", "action", "state"}})
    \cup Blocks("pred", "pred", HighestLayer(ckpt, "pred"), FALSE) \cup MaskedTail
Skipped(ckpt) == {t \in ckpt : t[1] = "extrinsics"}
Side(ckpt, s) == {t \in ckpt : t[1] = s}
AcMiscounts(ckpt) ==
    \/ Cardinality(ckpt \ (Side(ckpt, "enc") \cup Skipped(ckpt))) # 6 + 12 * HighestLayer(ckpt, "pred") + 2 + 2
    \/ Cardinality(Side(ckpt, "enc")) # 2 + 12 * HighestLayer(ckpt, "enc") + 2
AcRefuses(c, ckpt) ==
    \/ HighestLayer(ckpt, "enc") = 0
    \/ HighestLayer(ckpt, "pred") = 0
    \/ AcMiscounts(ckpt)
AcTolerates == {<<"extrinsics", 0, "fc", "weight">>, <<"extrinsics", 0, "fc", "bias">>}
AcKeys(c, ckpt) ==
    [NoKeys EXCEPT !.layers = HighestLayer(ckpt, "enc"), !.pred = "ac", !.predLayers = HighestLayer(ckpt, "pred")]

(* ---- LeVJEPA: a V-JEPA encoder with a CLS token and no predictor.         *)
LevjepaRows(c, ckpt) == VideoVit(c.layers, FALSE) \cup ClsToken
LevjepaKeys(c, ckpt) == [NoKeys EXCEPT !.layers = c.layers, !.cls = TRUE]
=============================================================================
