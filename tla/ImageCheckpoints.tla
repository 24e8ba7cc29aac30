-------------------------- MODULE ImageCheckpoints --------------------------
(* The converters of the image families: I-JEPA, the LeJEPA ViT and LeWM     *)
(* (scripts/jepa_convert/ijepa.py, hfvit.py, lewm.py). Of each: the rows it  *)
(* makes of a checkpoint, the checks it refuses on, the tensors it marks     *)
(* without using them, those its unmapped check tolerates, and the metadata  *)
(* it writes that decide what the loader asks for.                           *)
EXTENDS TensorRows

G(role) == <<"enc", 0, role>>     \* a tensor of the encoder outside its layers
P(role) == <<"pred", 0, role>>

NoKeys == [layers |-> 0, cls |-> FALSE, registers |-> FALSE, hier |-> 0,
           pred |-> "none", predLayers |-> 0, modality |-> FALSE, pool |-> 0, levels |-> <<>>]

PatchEmbed == Weight(G("patch"), G("patch"), "matrix") \cup Bias(G("patch"), G("patch"))
ClsToken == Copy(G("cls") \o <<"">>, G("cls") \o <<"">>, "plain")
PosEmbed == Copy(G("pos") \o <<"">>, G("pos") \o <<"">>, "plain")

(* ---- I-JEPA: no CLS token, a position table stored verbatim.              *)
IjepaRows(c, ckpt) ==
    PatchEmbed \cup PosEmbed \cup Blocks("enc", "enc", c.layers, TRUE) \cup Norm(G("norm"), G("norm"))
IjepaRefuses(c, ckpt) == LayerCount(ckpt, "enc", "q", "weight") # c.layers
IjepaTolerates == {<<"pooler", 0, "dense", "weight">>, <<"classifier", 0, "fc", "weight">>}
IjepaKeys(c, ckpt) == [NoKeys EXCEPT !.layers = c.layers]

(* ---- LeJEPA ViT: optional biases, registers and layer scales.             *)
LayerScale(i, s) == <<"enc", i, s, "">>
LayerScales(n) ==
    UNION {Copy(LayerScale(i, s), LayerScale(i, s), "plain") : i \in 1..n, s \in {"ls1", "ls2"}}
HfvitBlock(i, ckpt) ==
    LET all == Block("enc", "enc", i, FALSE)
        optional == {r \in all : r.to[4] = "bias" /\ r.to[3] \notin {"ln1", "ln2"}}
    IN  (all \ optional) \cup Present(optional, ckpt)
HfvitRows(c, ckpt) ==
    PatchEmbed \cup ClsToken \cup PosEmbed \cup Norm(G("norm"), G("norm"))
    \cup Present(Copy(G("reg") \o <<"">>, G("reg") \o <<"">>, "plain"), ckpt)
    \cup (UNION {HfvitBlock(i, ckpt) : i \in 1..c.layers})
    \cup IF c.scale THEN LayerScales(c.layers) ELSE {}
\* Mutant: the registers of the config are not compared with the checkpoint.
HfvitRefuses_NoRegisters(c, ckpt) == LayerCount(ckpt, "enc", "ln1", "weight") # c.layers
HfvitRefuses(c, ckpt) ==
    \/ LayerCount(ckpt, "enc", "ln1", "weight") # c.layers
    \/ (G("reg") \o <<"">> \in ckpt) # c.registers
    \/ \E i \in 1..c.layers, s \in {"ls1", "ls2"} : (LayerScale(i, s) \in ckpt) # c.scale
HfvitTolerates ==
    {<<"cva_module_proj", 0, "fc", "weight">>, <<"head", 0, "fc", "weight">>,
     <<"projection_head", 0, "fc", "weight">>, <<"mask_token", 0, "", "">>}
HfvitKeys(c, ckpt) ==
    [NoKeys EXCEPT !.layers = c.layers, !.cls = TRUE, !.registers = c.registers]

(* ---- the Hugging Face ViT of LeWM and H-JEPA (map_hf_vit).                *)
HfVitRows(n) ==
    PatchEmbed \cup ClsToken \cup PosEmbed \cup Blocks("enc", "enc", n, TRUE) \cup Norm(G("norm"), G("norm"))
HfVitDrops == {G("mask_token") \o <<"">>}

(* ---- LeWM: that ViT, two projectors with BatchNorm folded in, the adaLN   *)
(* predictor and the action embedder.                                        *)
FoldMlp(from, to) ==
    Folded(<<from, 0, "net0">>, <<from, 0, "net1">>, Append(to, "0"))
    \cup Linear(<<from, 0, "net3">>, Append(to, "2"), "quant")
BatchesTracked(from) == <<from, 0, "net1", "num_batches_tracked">>
LewmBlock(i) ==
    LET p(r) == <<"pred", i, r>>
    IN  Linear(p("adaln"), p("adaln"), "matrix") \cup Weight(p("qkv"), p("qkv"), "quant")
        \cup {r \in Block("pred", "pred", i, FALSE) : r.to[3] # "qkv"}
LewmRows(c, ckpt) ==
    HfVitRows(c.layers)
    \cup FoldMlp("projector", <<"enc", 0, "proj">>) \cup FoldMlp("pred_proj", <<"pred", 0, "proj">>)
    \cup Copy(P("pos") \o <<"">>, P("pos") \o <<"">>, "plain")
    \cup (UNION {LewmBlock(i) : i \in 1..c.predLayers}) \cup Norm(P("norm"), P("norm"))
    \cup Paired(<<"action", 0, "conv">>, <<"action", 0, "embed0">>, <<"pred", 0, "action_embed", "0">>)
    \cup Linear(<<"action", 0, "embed2">>, <<"pred", 0, "action_embed", "2">>, "matrix")
LewmRefuses(c, ckpt) ==
    \/ LayerCount(ckpt, "enc", "ln1", "weight") # c.layers
    \/ LayerCount(ckpt, "pred", "qkv", "weight") # c.predLayers
    \/ \E i \in 1..c.predLayers : <<"pred", i, "qkv", "bias">> \in ckpt
LewmDrops == HfVitDrops \cup {BatchesTracked("projector"), BatchesTracked("pred_proj")}
LewmTolerates == {<<"value_function", 0, "fc", "weight">>, <<"pooler", 0, "dense", "weight">>}
LewmKeys(c, ckpt) ==
    [NoKeys EXCEPT !.layers = c.layers, !.cls = TRUE, !.pred = "lewm", !.predLayers = c.predLayers]
=============================================================================
