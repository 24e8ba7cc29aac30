----------------------------- MODULE TensorRows -----------------------------
(* What a converter does to a checkpoint, as a set of rows: the source       *)
(* tensors a row takes, the tensor of the GGUF file it makes of them, and    *)
(* how that tensor may be stored. A tensor is named by its module, its layer *)
(* (0 outside the layers), its role there and its parameter. The names the   *)
(* frameworks gave the roles are left out, and so are values and shapes:     *)
(* every tensor is taken to have the shape its role asks for.                *)
EXTENDS Integers, Sequences, FiniteSets

(* How the dtype rules of the writers see a tensor: a matrix on the list of  *)
(* quantizable roles, another matrix whose name ends in ".weight", the rest. *)
Kinds == {"quant", "matrix", "plain"}

Row(from, to, kind) == [from |-> from, to |-> to, kind |-> kind]
Copy(from, to, kind) == {Row({from}, to, kind)}
Weight(from, to, kind) == Copy(Append(from, "weight"), Append(to, "weight"), kind)
Bias(from, to) == Copy(Append(from, "bias"), Append(to, "bias"), "plain")

(* add_linear and add_norm: a weight by the dtype rule and an F32 bias.      *)
Linear(from, to, kind) == Weight(from, to, kind) \cup Bias(from, to)
Norm(from, to) == Linear(from, to, "plain")

(* fuse_qkv: the rows of q, k and v under one name, for weights and biases.  *)
Fused(froms, to) ==
    {Row({Append(f, p) : f \in froms}, Append(to, p), IF p = "weight" THEN "quant" ELSE "plain") :
        p \in {"weight", "bias"}}

(* fold_batchnorm: Linear, then BatchNorm, becomes one Linear.               *)
BatchNorm == {"weight", "bias", "running_mean", "running_var"}
Folded(lin, bn, to) ==
    {Row({Append(lin, "weight"), Append(lin, "bias")} \cup {Append(bn, x) : x \in BatchNorm},
         Append(to, p), IF p = "weight" THEN "quant" ELSE "plain") : p \in {"weight", "bias"}}

(* fold_linear_pair: two Linears with nothing in between become one.         *)
Paired(first, second, to) ==
    {Row({Append(f, x) : f \in {first, second}, x \in {"weight", "bias"}},
         Append(to, p), IF p = "weight" THEN "matrix" ELSE "plain") : p \in {"weight", "bias"}}

(* A pre-LN transformer block, its q, k and v apart or already one matrix.   *)
Block(from, to, i, apart) ==
    LET f(r) == <<from, i, r>>
        t(r) == <<to, i, r>>
    IN  Norm(f("ln1"), t("ln1")) \cup Norm(f("ln2"), t("ln2"))
        \cup (IF apart THEN Fused({f("q"), f("k"), f("v")}, t("qkv"))
                       ELSE Linear(f("qkv"), t("qkv"), "quant"))
        \cup Linear(f("out"), t("out"), "quant")
        \cup Linear(f("up"), t("up"), "quant") \cup Linear(f("down"), t("down"), "quant")
Blocks(from, to, n, apart) == UNION {Block(from, to, i, apart) : i \in 1..n}

(* The rows whose source the checkpoint has: take_opt.                       *)
Present(rows, ckpt) == {r \in rows : r.from \subseteq ckpt}
Sources(rows) == UNION {r.from : r \in rows}
Targets(rows) == {r.to : r \in rows}

(* SourceTensors.layer_count: consecutive layers from the first that have    *)
(* the role; StateDict.count: one more than the highest layer there is.      *)
LayerCount(ckpt, from, role, param) ==
    CHOOSE n \in 0..Cardinality(ckpt) :
        /\ \A i \in 1..n : <<from, i, role, param>> \in ckpt
        /\ <<from, n + 1, role, param>> \notin ckpt
HighestLayer(ckpt, from) ==
    LET layers == {t[2] : t \in {u \in ckpt : u[1] = from}} \cup {0}
    IN  CHOOSE n \in layers : \A m \in layers : m <= n
=============================================================================
