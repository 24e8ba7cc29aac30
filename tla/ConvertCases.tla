---------------------------- MODULE ConvertCases ----------------------------
(* The conversions tried: for each family its configurations, each with a    *)
(* complete checkpoint of it, a complete one less a tensor, and one with a   *)
(* tensor more (an unknown one, one of another layer, a tolerated one).      *)
EXTENDS Converters

Config == [layers |-> 1, registers |-> FALSE, scale |-> FALSE, predLayers |-> 1,
           head |-> FALSE, pool |-> 1, levels |-> <<>>]
Lvl == [enc |-> "mlp", proj |-> "mlp", acts |-> "seq", embed |-> "embedder", bare |-> FALSE,
        ports |-> {}, tail |-> "mlp", narrow |-> FALSE, queue |-> "none"]
Bottoms ==
    {[Lvl EXCEPT !.enc = e, !.proj = p, !.embed = a, !.bare = b, !.tail = t, !.queue = q] :
        e \in {"vit", "fusion"}, p \in {"identity", "layernorm", "mlp"}, a \in {"identity", "conv"},
        b \in BOOLEAN, t \in {"mlp"}, q \in {"none", "empty"}}
Tops ==
    {[Lvl EXCEPT !.enc = e, !.acts = a, !.bare = b, !.ports = p, !.tail = t, !.narrow = n, !.queue = "full"] :
        e \in {"identity", "mlp_norm"}, a \in {"seq", "mlp_norm"}, b \in BOOLEAN,
        p \in {{}, {"in_proj", "cond_proj"}, Ports}, t \in {"identity", "layernorm", "mlp"}, n \in BOOLEAN}
Plain == [Lvl EXCEPT !.enc = "vit"]

MCConfigs(f) ==
    CASE f = "hfvit" -> {[Config EXCEPT !.layers = n, !.registers = r, !.scale = s] :
                            n \in {1, 2}, r \in BOOLEAN, s \in BOOLEAN}
      [] f \in {"ijepa", "levjepa"} -> {[Config EXCEPT !.layers = n] : n \in {1, 2}}
      [] f \in {"lewm", "vjepa2_1", "vjepa2_ac"} ->
            {[Config EXCEPT !.layers = n, !.predLayers = p] : n \in {1, 2}, p \in {1, 2}}
      [] f = "vjepa2" -> {[Config EXCEPT !.layers = 1, !.predLayers = p, !.head = h] : p \in {1, 2}, h \in BOOLEAN}
      [] f = "hjepa" -> {[Config EXCEPT !.levels = <<b>>] : b \in Bottoms}
                        \cup {[Config EXCEPT !.levels = <<Plain, t>>] : t \in Tops}

(* The first tensors by which a checkpoint says which optional parts it has. *)
Options(f, c) ==
    CASE f = "hfvit" -> {{<<"enc", i, r, "bias">> : i \in 1..c.layers, r \in roles}
                          \cup (IF c.registers THEN {<<"enc", 0, "reg", "">>} ELSE {}) :
                             roles \in {{}, {"qkv", "out", "up", "down"}}}
      [] f = "vjepa2_1" -> {{<<"enc", c.layers, "ln1", "weight">>, <<"pred", c.predLayers, "ln1", "weight">>,
                             <<"norms", 2, "ln", "weight">>, <<"masks", 2, "token", "">>} \cup o :
                             o \in (SUBSET {<<"enc", 0, "patch_img", "weight">>, <<"enc", 0, "img_mod", "">>,
                                           <<"pred", 0, "img_mod", "">>, <<"pred", 0, "embed0", "weight">>})
                                   \cup {{<<"pred", 0, "proj_context", "weight">>}}}
      [] f = "hjepa" -> {{<<"enc", i, "ln1", "weight">> : i \in 1..n} :
                            n \in 1..(IF Len(c.levels) = 1 THEN 2 ELSE 1)}
      [] f = "vjepa2_ac" -> {{<<"enc", c.layers, "ln1", "weight">>, <<"pred", c.predLayers, "ln1", "weight">>}}
      [] OTHER -> {{}}
Strays(f, c) ==
    Tolerates(f) \cup Drops(f, c)
    \cup {<<"enc", 0, "unknown", "weight">>, <<"pred", 0, "unknown", "">>, <<"enc", 0, "reg", "">>,
          <<"enc", c.layers + 1, "ln1", "weight">>, <<"pred", c.predLayers + 1, "qkv", "weight">>,
          <<"pred", 1, "qkv", "bias">>, <<"lvl1", "pred_blk", "qkv", "bias">>}
AtMostOne(S) == {{}} \cup {{x} : x \in S}
OneLessOneMore(whole, strays) == {(whole \ l) \cup e : l \in AtMostOne(whole), e \in AtMostOne(strays)}
OneLessOrMore(whole, strays) == {whole \ l : l \in AtMostOne(whole)} \cup {whole \cup e : e \in AtMostOne(strays)}
MCCheckpoints(f, c) ==
    UNION {LET whole == Sources(Rows(f, c, o)) IN
           IF f = "vjepa2_ac" THEN OneLessOneMore(whole, Strays(f, c)) ELSE OneLessOrMore(whole, Strays(f, c)) :
              o \in Options(f, c)}
MCFamilies == {"ijepa", "hfvit", "lewm", "hjepa", "vjepa2", "vjepa2_1", "vjepa2_ac", "levjepa"}
=============================================================================
