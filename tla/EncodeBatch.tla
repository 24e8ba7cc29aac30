------------------------------- MODULE EncodeBatch -------------------------------
(***************************************************************************)
(* A worker encodes a batch of tasks (run_encode_batch in                  *)
(* tools/jepa-server.cpp, jepa_encode in src/jepa.cpp): the pixels of the  *)
(* tasks become one input, the library cuts the input into graphs that fit *)
(* its limits, the output rows are cut up again and given to the tasks.    *)
(* Several workers do this at a time, each with a context of its own.      *)
(*                                                                         *)
(* A plane of pixels is <<i, c, f>>: channel c of frame f of task i.  A    *)
(* row of the output is <<planes, k, prec>>: the k-th token the encoder    *)
(* makes of these planes in a graph built with that accumulation.          *)
(***************************************************************************)
EXTENDS Integers, Sequences

CONSTANTS
    Contexts,             \* jepa_contexts, one for each worker thread
    Chans, Tokens,        \* channels of the input, tokens the encoder makes of an item
    DefaultCap,           \* JEPA_DEFAULT_MAX_BATCH
    Caps,                 \* what max_batch is set to, 0 for the default
    Budgets,              \* memory limits, in the unit of Costs
    Costs,                \* what one item takes of it
    MaxTasks, MaxFrames   \* bounds: tasks in a batch, frames of a task

ASSUME EncodeAssumption ==
    /\ Contexts # {}
    /\ Chans \in Nat \ {0} /\ Tokens \in Nat \ {0} /\ DefaultCap \in Nat \ {0}
    /\ Caps \subseteq Nat /\ Budgets \subseteq Nat \ {0} /\ Costs \subseteq Nat \ {0}
    /\ MaxTasks \in Nat \ {0} /\ MaxFrames \in Nat \ {0}

VARIABLES
    family,     \* of the model: "image" or "video"
    budget,     \* max_graph_bytes, from the environment of the process
    prec, cap,  \* of each context: prec_f32 and max_batch, set before it is used (a server
                \* gives all its contexts the same, another program need not)
    last,       \* of each context: last_batch
    flag,       \* of each thread: jepa_mul_mat_prec_f32
    pc,
    job,        \* the input each worker encodes
    bmax, base, \* locals of jepa_encode_image
    graph,      \* the items in the graph being built
    data, mem,  \* out->data, and the outputs of this call allocated and not freed
    rows,       \* what out->data points to
    result      \* what became of each task, with the reason of a failed encode

vars == <<family, budget, prec, cap, last, flag, pc, job, bmax, base, graph, data, mem, rows, result>>
settings == <<family, budget, prec, cap>>

Jobs == [tasks : 1..MaxTasks, frames : 1..MaxFrames, cost : Costs, prec : BOOLEAN, cap : Nat \ {0}]
NoJob == [tasks |-> 0, frames |-> 1, cost |-> 0, prec |-> FALSE, cap |-> 1]

Init ==
    /\ family \in {"image", "video"} /\ budget \in Budgets
    /\ prec \in [Contexts -> BOOLEAN] /\ cap \in [Contexts -> Caps]
    /\ last = [x \in Contexts |-> 1] /\ flag = [x \in Contexts |-> FALSE]
    /\ pc = [x \in Contexts |-> "idle"] /\ job = [x \in Contexts |-> NoJob]
    /\ bmax = [x \in Contexts |-> 1] /\ base = [x \in Contexts |-> 0]
    /\ graph = [x \in Contexts |-> <<>>]
    /\ data = [x \in Contexts |-> "null"] /\ mem = [x \in Contexts |-> 0]
    /\ rows = [x \in Contexts |-> <<>>]
    /\ result = [x \in Contexts |-> <<>>]

\* Items of the input: every frame for itself, or whole clips.
Items(j) == IF family = "image" THEN j.tasks * j.frames ELSE j.tasks
OutRows(j) == Items(j) * Tokens

\* The input: plane p of the tasks' pixels, one task after the other, each [C, T, H, W].
Plane(j, p) ==
    LET own == Chans * j.frames
    IN  <<(p \div own) + 1, ((p % own) \div j.frames) + 1, (p % j.frames) + 1>>

\* The planes of item number `item': the (batch, frame) slice gathered over the
\* channels, or the clip as it lies in the input.
Slice(j, item) ==
    LET b == item \div j.frames
        t == item % j.frames
    IN  [c \in 1..Chans |-> Plane(j, (b * Chans + c - 1) * j.frames + t)]
Clip(j, item) ==
    LET floats == Chans * j.frames
    IN  [q \in 1..floats |-> Plane(j, item * floats + q - 1)]
Item(j, item) == IF family = "image" THEN Slice(j, item) ELSE Clip(j, item)

-----------------------------------------------------------------------------
\* jepa_context_max_batch
EffectiveCap(x) == IF cap[x] > 0 THEN cap[x] ELSE DefaultCap
Smaller(a, b) == IF a < b THEN a ELSE b

\* The worker joins the tasks' pixels and calls jepa_encode.  The first number of
\* items for a graph is the cap, or all of them.
Encode(x) ==
    /\ pc[x] = "idle"
    /\ \E nb \in 1..MaxTasks, T \in 1..MaxFrames, cost \in Costs :
         LET j == [tasks |-> nb, frames |-> T, cost |-> cost, prec |-> prec[x], cap |-> EffectiveCap(x)]
         IN  /\ job' = [job EXCEPT ![x] = j]
             /\ bmax' = [bmax EXCEPT ![x] =
                           IF family = "image" THEN Smaller(EffectiveCap(x), Items(j)) ELSE 1]
    /\ pc' = [pc EXCEPT ![x] = "size"]
    /\ base' = [base EXCEPT ![x] = 0]
    /\ data' = [data EXCEPT ![x] = "null"] /\ mem' = [mem EXCEPT ![x] = 0]
    /\ result' = [result EXCEPT ![x] = <<>>]
    /\ UNCHANGED <<settings, last, flag, graph, rows>>

\* Of a task: its error, or its rows.
Outcome(err, own) == [err |-> err, rows |-> own]

\* What free(out->data) does; freeing NULL is allowed.
Freed(x) == mem' = [mem EXCEPT ![x] = IF data[x] = "null" THEN @ ELSE @ - 1]

\* Mutant: the pointer is left as it was.
Fail_LeavesPointer(x, why) ==
    /\ mem' = [mem EXCEPT ![x] = IF data[x] = "null" THEN @ ELSE @ - 2]
    /\ data' = [data EXCEPT ![x] = "null"] /\ rows' = [rows EXCEPT ![x] = <<>>]
    /\ result' = [result EXCEPT ![x] = [i \in 1..job[x].tasks |-> Outcome(why, <<>>)]]
    /\ pc' = [pc EXCEPT ![x] = "idle"]

\* A failed encode frees the output and resets the pointer; the worker, which frees
\* it again, notes the error in every task.
Fail(x, why) ==
    /\ Freed(x) /\ data' = [data EXCEPT ![x] = "null"] /\ rows' = [rows EXCEPT ![x] = <<>>]
    /\ result' = [result EXCEPT ![x] = [i \in 1..job[x].tasks |-> Outcome(why, <<>>)]]
    /\ pc' = [pc EXCEPT ![x] = "idle"]

OverBudget(x, n) == n * job[x].cost > budget

\* jepa_encode refuses the shape of the input.
BadShape(x) ==
    /\ pc[x] = "size" /\ Fail(x, "shape")
    /\ UNCHANGED <<settings, last, flag, job, bmax, base, graph>>

\* Mutant: the items are halved once and for all.
Shrink_Once(x) ==
    /\ pc[x] = "size" /\ bmax[x] > 1 /\ OverBudget(x, bmax[x])
    /\ bmax' = [bmax EXCEPT ![x] = @ \div 2]
    /\ pc' = [pc EXCEPT ![x] = "malloc"]
    /\ UNCHANGED <<settings, last, flag, job, base, graph, data, mem, rows, result>>

\* One turn of the loop that halves the items of a graph over the limit.
Shrink(x) ==
    /\ pc[x] = "size" /\ bmax[x] > 1 /\ OverBudget(x, bmax[x])
    /\ bmax' = [bmax EXCEPT ![x] = @ \div 2]
    /\ UNCHANGED <<settings, last, flag, pc, job, base, graph, data, mem, rows, result>>

\* An item, or a clip, that does not fit alone is refused.
TooLarge(x) ==
    /\ pc[x] = "size" /\ bmax[x] = 1 /\ OverBudget(x, 1)
    /\ Fail(x, "memory")
    /\ UNCHANGED <<settings, last, flag, job, bmax, base, graph>>

Fits(x) ==
    /\ pc[x] = "size" /\ ~OverBudget(x, bmax[x])
    /\ pc' = [pc EXCEPT ![x] = "malloc"]
    /\ UNCHANGED <<settings, last, flag, job, bmax, base, graph, data, mem, rows, result>>

\* The output for all items, not initialised; the allocation may fail.
Malloc(x) ==
    /\ pc[x] = "malloc"
    /\ \/ Fail(x, "malloc")
       \/ /\ data' = [data EXCEPT ![x] = "live"] /\ mem' = [mem EXCEPT ![x] = @ + 1]
          /\ rows' = [rows EXCEPT ![x] = [r \in 1..OutRows(job[x]) |-> <<>>]]
          /\ pc' = [pc EXCEPT ![x] = "begin"] /\ UNCHANGED result
    /\ UNCHANGED <<settings, last, flag, job, bmax, base, graph>>

\* Mutant: the accumulation is one setting for all threads.
Begin_OneFlag(x) ==
    /\ pc[x] = "begin" /\ base[x] < Items(job[x])
    /\ flag' = [y \in Contexts |-> prec[x]]
    /\ graph' = [graph EXCEPT ![x] =
         [i \in 1..Smaller(bmax[x], Items(job[x]) - base[x]) |-> Item(job[x], base[x] + i - 1)]]
    /\ pc' = [pc EXCEPT ![x] = "graph"]
    /\ UNCHANGED <<settings, last, job, bmax, base, data, mem, rows, result>>

\* The items of the next graph are gathered; jepa_graph_begin.
Begin(x) ==
    /\ pc[x] = "begin" /\ base[x] < Items(job[x])
    /\ flag' = [flag EXCEPT ![x] = prec[x]]
    /\ graph' = [graph EXCEPT ![x] =
         [i \in 1..Smaller(bmax[x], Items(job[x]) - base[x]) |-> Item(job[x], base[x] + i - 1)]]
    /\ pc' = [pc EXCEPT ![x] = "graph"]
    /\ UNCHANGED <<settings, last, job, bmax, base, data, mem, rows, result>>

\* Row r of a graph's output.
Row(x, r) == <<graph[x][((r - 1) \div Tokens) + 1], ((r - 1) % Tokens) + 1, flag[x]>>

\* Building the graph, its validation, its allocation or its run fails.
GraphFails(x) ==
    /\ pc[x] = "graph" /\ Fail(x, "graph")
    /\ UNCHANGED <<settings, last, flag, job, bmax, base, graph>>

\* The graph is built, allocated and run, and its rows are copied to their place.
Compute(x) ==
    /\ pc[x] = "graph"
    /\ rows' = [rows EXCEPT ![x] =
                  [r \in DOMAIN @ |->
                     IF r - base[x] * Tokens \in 1..(Len(graph[x]) * Tokens)
                     THEN Row(x, r - base[x] * Tokens) ELSE @[r]]]
    /\ base' = [base EXCEPT ![x] = @ + bmax[x]]
    /\ pc' = [pc EXCEPT ![x] = "begin"]
    /\ UNCHANGED <<settings, last, flag, job, bmax, graph, data, mem, result>>

\* All graphs ran.  The worker gives every task its share of the rows, unless its
\* pooling or its head fails, and frees the output.
Finish(x) ==
    LET share == OutRows(job[x]) \div job[x].tasks
    IN  /\ pc[x] = "begin" /\ base[x] >= Items(job[x])
        /\ last' = [last EXCEPT ![x] = bmax[x]]
        /\ \E failed \in SUBSET (1..job[x].tasks) :
             result' = [result EXCEPT ![x] =
               [i \in 1..job[x].tasks |->
                  IF i \in failed THEN Outcome("pooling", <<>>)
                  ELSE Outcome("", SubSeq(rows[x], (i - 1) * share + 1, i * share))]]
        /\ Freed(x) /\ data' = [data EXCEPT ![x] = "null"] /\ rows' = [rows EXCEPT ![x] = <<>>]
        /\ pc' = [pc EXCEPT ![x] = "idle"]
        /\ UNCHANGED <<settings, flag, job, bmax, base, graph>>

\* An exception leaves the encode: the locals are gone with their frames, the pointer
\* to the output among them, and worker_main notes the error in every task that has none.
Caught(x, failed) ==
    /\ result' = [result EXCEPT ![x] =
         [i \in 1..job[x].tasks |-> Outcome(IF i \in failed THEN "pooling" ELSE "exception", <<>>)]]
    /\ data' = [data EXCEPT ![x] = "null"] /\ rows' = [rows EXCEPT ![x] = <<>>]
    /\ bmax' = [bmax EXCEPT ![x] = 1] /\ base' = [base EXCEPT ![x] = 0]
    /\ graph' = [graph EXCEPT ![x] = <<>>] /\ pc' = [pc EXCEPT ![x] = "idle"]
    /\ UNCHANGED <<settings, flag, job, mem>>

\* A vector for the input, for a graph or for its tables cannot be allocated.
Throw(x) ==
    /\ pc[x] # "idle" /\ (pc[x] = "begin" => base[x] < Items(job[x]))
    /\ Caught(x, {}) /\ UNCHANGED last

\* The rows of a task cannot be allocated; tasks before it may have failed in their pooling.
ThrowInFinish(x) ==
    /\ pc[x] = "begin" /\ base[x] >= Items(job[x])
    /\ last' = [last EXCEPT ![x] = bmax[x]]
    /\ \E failed \in SUBSET (1..(job[x].tasks - 1)) : Caught(x, failed)

Next ==
    \E x \in Contexts :
        \/ Encode(x) \/ BadShape(x)
        \/ Shrink(x) \/ TooLarge(x) \/ Fits(x) \/ Malloc(x)
        \/ Begin(x) \/ GraphFails(x) \/ Compute(x) \/ Finish(x)
        \/ Throw(x) \/ ThrowInFinish(x)

Spec == Init /\ [][Next]_vars

-----------------------------------------------------------------------------
\* The types of the variables.
TypeOK ==
    /\ family \in {"image", "video"} /\ budget \in Budgets
    /\ prec \in [Contexts -> BOOLEAN] /\ flag \in [Contexts -> BOOLEAN]
    /\ cap \in [Contexts -> Caps]
    /\ last \in [Contexts -> Nat \ {0}] /\ bmax \in [Contexts -> Nat \ {0}]
    /\ base \in [Contexts -> Nat]
    /\ pc \in [Contexts -> {"idle", "size", "malloc", "begin", "graph"}]
    /\ job \in [Contexts -> Jobs \cup {NoJob}]
    /\ data \in [Contexts -> {"null", "live"}] /\ mem \in [Contexts -> Int]
    /\ \A x \in Contexts : pc[x] # "idle" => job[x] \in Jobs

(***************************************************************************)
(* However a batch is cut into graphs and whatever other workers do, every *)
(* task ends with an error or with the rows of its own pixels, all of them *)
(* and in order, computed with the accumulation its context was set to.    *)
(***************************************************************************)
OwnRows(j, i) ==
    LET clip == IF family = "image" THEN j.frames ELSE 1
    IN  [r \in 1..(clip * Tokens) |->
           <<IF family = "image"
             THEN [c \in 1..Chans |-> <<i, c, ((r - 1) \div Tokens) + 1>>]
             ELSE [q \in 1..(Chans * j.frames) |-> <<i, ((q - 1) \div j.frames) + 1, ((q - 1) % j.frames) + 1>>],
             ((r - 1) % Tokens) + 1, j.prec>>]
TasksGetTheirRows ==
    \A x \in Contexts : pc[x] = "idle" =>
        /\ DOMAIN result[x] = 1..job[x].tasks
        /\ \A i \in DOMAIN result[x] :
             result[x][i].err = "" => result[x][i].rows = OwnRows(job[x], i)

(***************************************************************************)
(* Every graph keeps to the cap and to the memory limit, without being     *)
(* less than half as large as the limits allow, and a call is refused for  *)
(* memory only if a single item is over the limit.                         *)
(***************************************************************************)
GraphsFit ==
    \A x \in Contexts :
        /\ pc[x] = "graph" =>
             /\ Len(graph[x]) <= job[x].cap /\ ~OverBudget(x, Len(graph[x]))
             /\ family = "image" =>
                  \/ bmax[x] = Smaller(job[x].cap, Items(job[x]))
                  \/ OverBudget(x, 2 * bmax[x] + 1)
        /\ pc[x] = "idle" /\ (\E i \in DOMAIN result[x] : result[x][i].err = "memory") => job[x].cost > budget

(***************************************************************************)
(* While an encode runs its output is allocated exactly while its pointer  *)
(* is live; when the worker is done the pointer is reset, the output was   *)
(* not freed twice, and it is left allocated only if an exception left the *)
(* encode (worker_main catches it, and nobody frees the output then).      *)
(***************************************************************************)
BuffersBalanced ==
    \A x \in Contexts :
        /\ pc[x] # "idle" => mem[x] = IF data[x] = "live" THEN 1 ELSE 0
        /\ pc[x] = "idle" =>
             /\ data[x] = "null" /\ mem[x] \in {0, 1}
             /\ mem[x] = 1 => \E i \in DOMAIN result[x] : result[x][i].err = "exception"

\* include/jepa.h:541: after an encode of images, last_batch is the per-graph cap,
\* or less when the memory limit shrank it.
LastBatchIsTheCap ==
    \A x \in Contexts :
        pc[x] = "idle" /\ family = "image" /\ result[x] # <<>>
          /\ (\A i \in DOMAIN result[x] : result[x][i].err \in {"", "pooling"}) =>
            last[x] = job[x].cap \/ OverBudget(x, job[x].cap)
=============================================================================
