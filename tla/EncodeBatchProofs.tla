---------------------------- MODULE EncodeBatchProofs ----------------------------
(***************************************************************************)
(* Proofs about EncodeBatch for any number of contexts, any caps, memory   *)
(* limits and batches: the types, the size of the graphs, and the life of  *)
(* the output buffer.                                                      *)
(***************************************************************************)
EXTENDS EncodeBatch, SequenceTheorems, TLAPS

\* Every variable of the workers is a function on the contexts.
Arrays ==
    /\ graph = [x \in Contexts |-> graph[x]]
    /\ rows = [x \in Contexts |-> rows[x]]
    /\ result = [x \in Contexts |-> result[x]]

\* The output exists exactly while its rows are computed, and stays behind only
\* where an exception ended the encode.
Thrown(x) == \E i \in DOMAIN result[x] : result[x][i].err = "exception"
Buffer(x) ==
    /\ data[x] = IF pc[x] \in {"begin", "graph"} THEN "live" ELSE "null"
    /\ pc[x] # "idle" => mem[x] = IF pc[x] \in {"begin", "graph"} THEN 1 ELSE 0
    /\ pc[x] = "idle" => mem[x] = 0 \/ (mem[x] = 1 /\ Thrown(x))

\* The number of items for a graph came down from the cap, or from all items, by
\* halving numbers that were over the limit.
Sized(x) ==
    /\ pc[x] # "idle" =>
         /\ bmax[x] <= job[x].cap
         /\ family = "image" =>
              \/ bmax[x] = Smaller(job[x].cap, Items(job[x]))
              \/ OverBudget(x, 2 * bmax[x] + 1)
    /\ pc[x] \in {"malloc", "begin", "graph"} => ~OverBudget(x, bmax[x])
    /\ pc[x] = "graph" => Len(graph[x]) \in 0..bmax[x]

\* An encode was refused for memory only for an item over the limit.
Refused(x) ==
    pc[x] = "idle" =>
        \A i \in DOMAIN result[x] : result[x][i].err = "memory" => job[x].cost > budget

Inv ==
    /\ TypeOK /\ Arrays
    /\ \A x \in Contexts : Buffer(x) /\ Sized(x) /\ Refused(x)

-----------------------------------------------------------------------------
\* Arithmetic the sizes rest on.
LEMMA Monotone ==
  ASSUME NEW a \in Nat, NEW b \in Nat, NEW c \in Nat, a <= b
  PROVE  a * c \in Nat /\ b * c \in Nat /\ a * c <= b * c
OBVIOUS

LEMMA Positive == ASSUME NEW a \in Nat \ {0}, NEW b \in Nat \ {0} PROVE a * b \in Nat \ {0}
OBVIOUS

LEMMA Half ==
  ASSUME NEW n \in Nat, n > 1
  PROVE  n \div 2 \in Nat \ {0} /\ n \div 2 < n /\ n <= 2 * (n \div 2) + 1
OBVIOUS

LEMMA InvInit == Init => Inv
<1> SUFFICES ASSUME Init PROVE Inv  OBVIOUS
<1>1. TypeOK  BY EncodeAssumption DEF Init, TypeOK, NoJob
<1>2. Arrays  BY DEF Init, Arrays
<1>3. ASSUME NEW x \in Contexts PROVE Buffer(x) /\ Sized(x) /\ Refused(x)
  <2>1. pc[x] = "idle" /\ data[x] = "null" /\ mem[x] = 0 /\ result[x] = <<>>  BY DEF Init
  <2>2. Buffer(x) /\ Sized(x)  BY <2>1 DEF Buffer, Sized
  <2>3. DOMAIN result[x] = {}  BY <2>1
  <2> QED  BY <2>2, <2>3 DEF Refused
<1> QED  BY <1>1, <1>2, <1>3 DEF Inv

\* A step of one worker leaves the others alone.
LEMMA Untouched ==
  ASSUME NEW y \in Contexts, Buffer(y), Sized(y), Refused(y), UNCHANGED <<family, budget>>,
         pc'[y] = pc[y], data'[y] = data[y], mem'[y] = mem[y], bmax'[y] = bmax[y],
         job'[y] = job[y], graph'[y] = graph[y], result'[y] = result[y]
  PROVE  Buffer(y)' /\ Sized(y)' /\ Refused(y)'
<1>1. Items(job[y])' = Items(job[y])  BY DEF Items
<1>2. \A n : OverBudget(y, n)' = OverBudget(y, n)  BY DEF OverBudget
<1>3. Sized(y)'  BY <1>1, <1>2 DEF Sized, Smaller
<1>4. Buffer(y)'  BY DEF Buffer, Thrown
<1>5. Refused(y)'  BY DEF Refused
<1> QED  BY <1>3, <1>4, <1>5

\* What a failed encode leaves behind.
LEMMA AfterFail ==
  ASSUME Inv, NEW x \in Contexts, pc[x] # "idle", NEW why, Fail(x, why),
         why = "memory" => job[x].cost > budget,
         UNCHANGED <<settings, last, flag, job, bmax, base, graph>>
  PROVE  Inv'
<1> USE DEF settings
<1>1. TypeOK'  BY DEF Inv, TypeOK, Fail, Freed
<1>2. Arrays'  BY DEF Inv, Arrays, Fail
<1>3. ASSUME NEW y \in Contexts PROVE Buffer(y)' /\ Sized(y)' /\ Refused(y)'
  <2>1. CASE y # x
    <3>1. pc'[y] = pc[y] /\ data'[y] = data[y] /\ mem'[y] = mem[y] /\ result'[y] = result[y]
      BY <2>1 DEF Inv, TypeOK, Arrays, Fail, Freed
    <3> QED  BY <3>1, Untouched DEF Inv
  <2>2. CASE y = x
    <3>1. pc'[x] = "idle" /\ data'[x] = "null"  BY DEF Inv, TypeOK, Fail
    <3>2. mem'[x] = 0  BY DEF Inv, TypeOK, Buffer, Fail, Freed
    <3>3. \A i \in DOMAIN result'[x] : result'[x][i].err = why
      BY DEF Inv, Arrays, Fail, Outcome
    <3> QED  BY <2>2, <3>1, <3>2, <3>3 DEF Buffer, Sized, Refused
  <2> QED  BY <2>1, <2>2
<1> QED  BY <1>1, <1>2, <1>3 DEF Inv

LEMMA InvEncode == ASSUME Inv, NEW x \in Contexts, Encode(x) PROVE Inv'
<1> USE DEF settings
<1>1. EffectiveCap(x) \in Nat \ {0}
  <2>1. cap[x] \in Nat  BY EncodeAssumption DEF Inv, TypeOK
  <2> QED  BY <2>1, EncodeAssumption DEF EffectiveCap
<1>2. PICK nb \in 1..MaxTasks, T \in 1..MaxFrames, cost \in Costs :
        LET j == [tasks |-> nb, frames |-> T, cost |-> cost, prec |-> prec[x], cap |-> EffectiveCap(x)]
        IN  /\ job' = [job EXCEPT ![x] = j]
            /\ bmax' = [bmax EXCEPT ![x] =
                          IF family = "image" THEN Smaller(EffectiveCap(x), Items(j)) ELSE 1]
  BY DEF Encode
<1> DEFINE j == [tasks |-> nb, frames |-> T, cost |-> cost, prec |-> prec[x], cap |-> EffectiveCap(x)]
<1> HIDE DEF j
<1>3. /\ job' = [job EXCEPT ![x] = j]
      /\ bmax' = [bmax EXCEPT ![x] =
                    IF family = "image" THEN Smaller(EffectiveCap(x), Items(j)) ELSE 1]
  BY <1>2 DEF j
<1>4. j \in Jobs /\ j.cap = EffectiveCap(x) /\ j.tasks \in Nat \ {0} /\ j.frames \in Nat \ {0}
  BY <1>1, EncodeAssumption DEF j, Jobs, Inv, TypeOK
<1>5. Items(j) \in Nat \ {0}
  <2>1. j.tasks * j.frames \in Nat \ {0}  BY <1>4, Positive
  <2> QED  BY <1>4, <2>1 DEF Items
<1>6. bmax'[x] \in Nat \ {0} /\ bmax'[x] <= j.cap
  BY <1>1, <1>3, <1>4, <1>5 DEF Inv, TypeOK, Smaller
<1>7. pc' = [pc EXCEPT ![x] = "size"] /\ base' = [base EXCEPT ![x] = 0]
      /\ data' = [data EXCEPT ![x] = "null"] /\ result' = [result EXCEPT ![x] = <<>>]
      /\ mem' = [mem EXCEPT ![x] = 0]
      /\ UNCHANGED <<family, budget, prec, cap, last, flag, graph, rows>>
  BY DEF Encode
<1>8. TypeOK'
  <2>1. job' \in [Contexts -> Jobs \cup {NoJob}] /\ bmax' \in [Contexts -> Nat \ {0}]
    BY <1>3, <1>4, <1>6 DEF Inv, TypeOK
  <2>2. \A y \in Contexts : pc'[y] # "idle" => job'[y] \in Jobs
    BY <1>3, <1>4, <1>7 DEF Inv, TypeOK
  <2>3. base' \in [Contexts -> Nat] /\ mem' \in [Contexts -> Int]  BY <1>7 DEF Inv, TypeOK
  <2>4. /\ pc' \in [Contexts -> {"idle", "size", "malloc", "begin", "graph"}]
        /\ data' \in [Contexts -> {"null", "live"}]
    BY <1>7 DEF Inv, TypeOK
  <2> QED  BY <1>7, <2>1, <2>2, <2>3, <2>4 DEF Inv, TypeOK
<1>9. Arrays'  BY <1>7 DEF Inv, Arrays
<1>10. ASSUME NEW y \in Contexts PROVE Buffer(y)' /\ Sized(y)' /\ Refused(y)'
  <2>1. CASE y # x
    <3>1. /\ pc'[y] = pc[y] /\ data'[y] = data[y] /\ mem'[y] = mem[y] /\ result'[y] = result[y]
          /\ bmax'[y] = bmax[y] /\ job'[y] = job[y] /\ graph'[y] = graph[y]
      BY <1>3, <1>7, <2>1 DEF Inv, TypeOK, Arrays
    <3> QED  BY <1>7, <3>1, Untouched DEF Inv
  <2>2. CASE y = x
    <3>2. pc'[x] = "size" /\ data'[x] = "null" /\ mem'[x] = 0  BY <1>7 DEF Inv, TypeOK
    <3>3. job'[x] = j  BY <1>3 DEF Inv, TypeOK
    <3>4. family = "image" => bmax'[x] = Smaller(job'[x].cap, Items(job'[x]))
      BY <1>3, <1>4, <3>3 DEF Inv, TypeOK
    <3>5. Items(job[x])' = Items(job'[x])  BY <1>7 DEF Items
    <3>6. Sized(x)'  BY <1>6, <1>7, <3>2, <3>3, <3>4, <3>5 DEF Sized, Smaller
    <3> QED  BY <2>2, <3>2, <3>6 DEF Buffer, Refused
  <2> QED  BY <2>1, <2>2
<1> QED  BY <1>8, <1>9, <1>10 DEF Inv

LEMMA InvBadShape == ASSUME Inv, NEW x \in Contexts, BadShape(x) PROVE Inv'
<1>1. pc[x] # "idle" /\ Fail(x, "shape") /\ UNCHANGED <<settings, last, flag, job, bmax, base, graph>>
  BY DEF BadShape
<1> QED  BY <1>1, AfterFail

LEMMA InvGraphFails == ASSUME Inv, NEW x \in Contexts, GraphFails(x) PROVE Inv'
<1>1. pc[x] # "idle" /\ Fail(x, "graph") /\ UNCHANGED <<settings, last, flag, job, bmax, base, graph>>
  BY DEF GraphFails
<1> QED  BY <1>1, AfterFail

LEMMA InvTooLarge == ASSUME Inv, NEW x \in Contexts, TooLarge(x) PROVE Inv'
<1>1. pc[x] # "idle" /\ Fail(x, "memory") /\ UNCHANGED <<settings, last, flag, job, bmax, base, graph>>
  BY DEF TooLarge
<1>2. job[x].cost > budget
  <2>1. job[x] \in Jobs  BY DEF TooLarge, Inv, TypeOK
  <2>2. job[x].cost \in Nat  BY <2>1, EncodeAssumption DEF Jobs
  <2> QED  BY <2>2 DEF TooLarge, OverBudget
<1> QED  BY <1>1, <1>2, AfterFail

\* The steps that move a worker on without ending its encode.
LEMMA InvMoves ==
  ASSUME Inv, NEW x \in Contexts, TypeOK', Arrays',
         UNCHANGED <<settings, job>>,
         \A y \in Contexts \ {x} :
            /\ pc'[y] = pc[y] /\ data'[y] = data[y] /\ mem'[y] = mem[y] /\ bmax'[y] = bmax[y]
            /\ graph'[y] = graph[y] /\ result'[y] = result[y],
         pc'[x] # "idle", Buffer(x)', Sized(x)'
  PROVE  Inv'
<1> USE DEF settings
<1>1. ASSUME NEW y \in Contexts PROVE Buffer(y)' /\ Sized(y)' /\ Refused(y)'
  <2>1. CASE y # x
    <3>1. job'[y] = job[y]  OBVIOUS
    <3> QED  BY <2>1, <3>1, Untouched DEF Inv
  <2>2. CASE y = x  BY <2>2 DEF Refused
  <2> QED  BY <2>1, <2>2
<1> QED  BY <1>1 DEF Inv

LEMMA InvShrink == ASSUME Inv, NEW x \in Contexts, Shrink(x) PROVE Inv'
<1> USE DEF settings
<1> DEFINE half == bmax[x] \div 2
<1>1. /\ pc[x] = "size" /\ bmax[x] > 1 /\ OverBudget(x, bmax[x])
      /\ bmax' = [bmax EXCEPT ![x] = half]
      /\ UNCHANGED <<family, budget, prec, cap, last, flag, pc, job, base, graph, data, mem, rows, result>>
  BY DEF Shrink
<1>2. bmax[x] \in Nat  BY DEF Inv, TypeOK
<1>3. half \in Nat \ {0} /\ half < bmax[x] /\ bmax[x] <= 2 * half + 1
  BY <1>1, <1>2, Half
<1>4. job[x] \in Jobs  BY <1>1 DEF Inv, TypeOK
<1>5. job[x].cost \in Nat /\ job[x].cap \in Nat  BY <1>4, EncodeAssumption DEF Jobs
<1> HIDE DEF half
<1>6. TypeOK'  BY <1>1, <1>3 DEF Inv, TypeOK
<1>7. Arrays'  BY <1>1 DEF Inv, Arrays
<1>8. bmax'[x] = half  BY <1>1 DEF Inv, TypeOK
<1>9. Buffer(x)'  BY <1>1 DEF Inv, Buffer
<1>10. OverBudget(x, 2 * bmax[x] + 1)'
  <2>1. bmax[x] * job[x].cost \in Nat /\ (2 * half + 1) * job[x].cost \in Nat
        /\ bmax[x] * job[x].cost <= (2 * half + 1) * job[x].cost
    BY <1>2, <1>3, <1>5, Monotone
  <2>2. bmax[x] * job[x].cost > budget  BY <1>1 DEF OverBudget
  <2>3. budget \in Nat  BY EncodeAssumption DEF Inv, TypeOK
  <2>4. (2 * half + 1) * job[x].cost > budget  BY <2>1, <2>2, <2>3
  <2> QED  BY <1>1, <1>8, <2>4 DEF OverBudget
<1>11. Sized(x)'
  <2>1. bmax[x] <= job[x].cap  BY <1>1 DEF Inv, Sized
  <2>2. half <= job[x].cap  BY <1>2, <1>3, <1>5, <2>1
  <2> QED  BY <1>1, <1>8, <1>10, <2>2 DEF Sized
<1>12. \A y \in Contexts \ {x} : bmax'[y] = bmax[y]  BY <1>1 DEF Inv, TypeOK
<1> QED  BY <1>1, <1>6, <1>7, <1>9, <1>11, <1>12, InvMoves

LEMMA InvFits == ASSUME Inv, NEW x \in Contexts, Fits(x) PROVE Inv'
<1> USE DEF settings
<1>1. /\ pc[x] = "size" /\ ~OverBudget(x, bmax[x]) /\ pc' = [pc EXCEPT ![x] = "malloc"]
      /\ UNCHANGED <<family, budget, prec, cap, last, flag, job, bmax, base, graph, data, mem, rows, result>>
  BY DEF Fits
<1>2. TypeOK'  BY <1>1 DEF Inv, TypeOK
<1>3. Arrays'  BY <1>1 DEF Inv, Arrays
<1>4. pc'[x] = "malloc" /\ \A y \in Contexts \ {x} : pc'[y] = pc[y]  BY <1>1 DEF Inv, TypeOK
<1>5. Buffer(x)'  BY <1>1, <1>4 DEF Inv, Buffer
<1>6. Sized(x)'
  <2>1. Items(job[x])' = Items(job[x])  BY <1>1 DEF Items
  <2>2. \A n : OverBudget(x, n)' = OverBudget(x, n)  BY <1>1 DEF OverBudget
  <2> QED  BY <1>1, <1>4, <2>1, <2>2 DEF Inv, Sized, Smaller
<1> QED  BY <1>1, <1>2, <1>3, <1>4, <1>5, <1>6, InvMoves

LEMMA InvMalloc == ASSUME Inv, NEW x \in Contexts, Malloc(x) PROVE Inv'
<1> USE DEF settings
<1>1. CASE Fail(x, "malloc")
  <2>1. pc[x] # "idle" /\ UNCHANGED <<settings, last, flag, job, bmax, base, graph>>  BY DEF Malloc
  <2> QED  BY <1>1, <2>1, AfterFail
<1>2. CASE /\ data' = [data EXCEPT ![x] = "live"] /\ mem' = [mem EXCEPT ![x] = @ + 1]
           /\ rows' = [rows EXCEPT ![x] = [r \in 1..OutRows(job[x]) |-> <<>>]]
           /\ pc' = [pc EXCEPT ![x] = "begin"] /\ UNCHANGED result
  <2>1. pc[x] = "malloc" /\ UNCHANGED <<family, budget, prec, cap, last, flag, job, bmax, base, graph>>
    BY DEF Malloc
  <2>2. TypeOK'  BY <1>2, <2>1 DEF Inv, TypeOK
  <2>3. Arrays'  BY <1>2, <2>1 DEF Inv, Arrays
  <2>4. pc'[x] = "begin" /\ \A y \in Contexts \ {x} : pc'[y] = pc[y] /\ data'[y] = data[y] /\ mem'[y] = mem[y]
    BY <1>2 DEF Inv, TypeOK
  <2>5. Buffer(x)'
    <3>1. mem[x] = 0  BY <2>1 DEF Inv, Buffer
    <3>2. mem'[x] = 1 /\ data'[x] = "live"  BY <1>2, <3>1 DEF Inv, TypeOK
    <3> QED  BY <2>4, <3>2 DEF Buffer
  <2>6. Sized(x)'
    <3>1. Items(job[x])' = Items(job[x])  BY <2>1 DEF Items
    <3>2. \A n : OverBudget(x, n)' = OverBudget(x, n)  BY <2>1 DEF OverBudget
    <3> QED  BY <2>1, <2>4, <3>1, <3>2 DEF Inv, Sized, Smaller
  <2> QED  BY <1>2, <2>1, <2>2, <2>3, <2>4, <2>5, <2>6, InvMoves
<1> QED  BY <1>1, <1>2 DEF Malloc

LEMMA InvBegin == ASSUME Inv, NEW x \in Contexts, Begin(x) PROVE Inv'
<1> USE DEF settings
<1> DEFINE n == Smaller(bmax[x], Items(job[x]) - base[x])
           g == [i \in 1..n |-> Item(job[x], base[x] + i - 1)]
<1>1. /\ pc[x] = "begin" /\ base[x] < Items(job[x])
      /\ flag' = [flag EXCEPT ![x] = prec[x]] /\ graph' = [graph EXCEPT ![x] = g]
      /\ pc' = [pc EXCEPT ![x] = "graph"]
      /\ UNCHANGED <<family, budget, prec, cap, last, job, bmax, base, data, mem, rows, result>>
  BY DEF Begin
<1>2. Items(job[x]) \in Nat
  <2>1. job[x] \in Jobs  BY <1>1 DEF Inv, TypeOK
  <2>2. job[x].tasks \in Nat \ {0} /\ job[x].frames \in Nat \ {0}  BY <2>1, EncodeAssumption DEF Jobs
  <2>3. job[x].tasks * job[x].frames \in Nat \ {0}  BY <2>2, Positive
  <2> QED  BY <2>2, <2>3 DEF Items
<1>3. n \in 0..bmax[x]  BY <1>1, <1>2 DEF Inv, TypeOK, Smaller
<1>4. Len(g) = n
  <2>1. n \in Nat  BY <1>3 DEF Inv, TypeOK
  <2> HIDE DEF n
  <2> QED  BY <2>1
<1> HIDE DEF n, g
<1>5. TypeOK'  BY <1>1 DEF Inv, TypeOK
<1>6. graph'[x] = g /\ \A y \in Contexts \ {x} : graph'[y] = graph[y]
  BY <1>1 DEF Inv, Arrays
<1>7. Arrays'  BY <1>1 DEF Inv, Arrays
<1>8. pc'[x] = "graph" /\ \A y \in Contexts \ {x} : pc'[y] = pc[y]  BY <1>1 DEF Inv, TypeOK
<1>9. Buffer(x)'  BY <1>1, <1>8 DEF Inv, Buffer
<1>10. Sized(x)'
  <2>1. Items(job[x])' = Items(job[x])  BY <1>1 DEF Items
  <2>2. \A k : OverBudget(x, k)' = OverBudget(x, k)  BY <1>1 DEF OverBudget
  <2>3. Len(graph'[x]) \in 0..bmax[x]  BY <1>3, <1>4, <1>6
  <2> QED  BY <1>1, <1>8, <2>1, <2>2, <2>3 DEF Inv, Sized, Smaller
<1> QED  BY <1>1, <1>5, <1>6, <1>7, <1>8, <1>9, <1>10, InvMoves

LEMMA InvCompute == ASSUME Inv, NEW x \in Contexts, Compute(x) PROVE Inv'
<1> USE DEF settings
<1>1. /\ pc[x] = "graph"
      /\ base' = [base EXCEPT ![x] = @ + bmax[x]] /\ pc' = [pc EXCEPT ![x] = "begin"]
      /\ UNCHANGED <<family, budget, prec, cap, last, flag, job, bmax, graph, data, mem, result>>
  BY DEF Compute
<1>2. base'[x] = base[x] + bmax[x]  BY <1>1 DEF Inv, TypeOK
<1>3. base' \in [Contexts -> Nat]
  <2>1. base[x] + bmax[x] \in Nat  BY DEF Inv, TypeOK
  <2> QED  BY <1>1, <2>1 DEF Inv, TypeOK
<1>4. TypeOK'  BY <1>1, <1>3 DEF Inv, TypeOK
<1>5. Arrays'
  <2>1. rows' = [y \in Contexts |-> rows'[y]]  BY DEF Inv, Arrays, Compute
  <2> QED  BY <1>1, <2>1 DEF Inv, Arrays
<1>6. pc'[x] = "begin" /\ \A y \in Contexts \ {x} : pc'[y] = pc[y]  BY <1>1 DEF Inv, TypeOK
<1>7. Buffer(x)'  BY <1>1, <1>6 DEF Inv, Buffer
<1>8. Sized(x)'
  <2>1. Items(job[x])' = Items(job[x])  BY <1>1 DEF Items
  <2>2. \A k : OverBudget(x, k)' = OverBudget(x, k)  BY <1>1 DEF OverBudget
  <2> QED  BY <1>1, <1>6, <2>1, <2>2 DEF Inv, Sized, Smaller
<1> QED  BY <1>1, <1>4, <1>5, <1>6, <1>7, <1>8, InvMoves

LEMMA InvFinish == ASSUME Inv, NEW x \in Contexts, Finish(x) PROVE Inv'
<1> USE DEF settings
<1> DEFINE share == OutRows(job[x]) \div job[x].tasks
           Parts(failed) == [i \in 1..job[x].tasks |->
              IF i \in failed THEN Outcome("pooling", <<>>)
              ELSE Outcome("", SubSeq(rows[x], (i - 1) * share + 1, i * share))]
<1>1. /\ pc[x] = "begin"
      /\ last' = [last EXCEPT ![x] = bmax[x]]
      /\ \E failed \in SUBSET (1..job[x].tasks) : result' = [result EXCEPT ![x] = Parts(failed)]
      /\ Freed(x) /\ data' = [data EXCEPT ![x] = "null"] /\ rows' = [rows EXCEPT ![x] = <<>>]
      /\ pc' = [pc EXCEPT ![x] = "idle"]
      /\ UNCHANGED <<family, budget, prec, cap, flag, job, bmax, base, graph>>
  BY DEF Finish
<1>2. PICK failed : result' = [result EXCEPT ![x] = Parts(failed)]  BY <1>1
<1>3. \A i \in DOMAIN Parts(failed) : Parts(failed)[i].err # "memory"  BY DEF Outcome
<1> HIDE DEF Parts
<1>4. result'[x] = Parts(failed) /\ \A y \in Contexts \ {x} : result'[y] = result[y]
  BY <1>2 DEF Inv, Arrays
<1>5. TypeOK'
  <2>1. last' \in [Contexts -> Nat \ {0}]  BY <1>1 DEF Inv, TypeOK
  <2>2. mem' \in [Contexts -> Int]  BY <1>1 DEF Inv, TypeOK, Freed
  <2> QED  BY <1>1, <2>1, <2>2 DEF Inv, TypeOK
<1>6. Arrays'  BY <1>1, <1>2 DEF Inv, Arrays
<1>7. pc'[x] = "idle" /\ data'[x] = "null"  BY <1>1 DEF Inv, TypeOK
<1>8. mem'[x] = 0
  <2>1. data[x] = "live" /\ mem[x] = 1  BY <1>1 DEF Inv, Buffer
  <2> QED  BY <1>1, <2>1 DEF Inv, TypeOK, Freed
<1>9. ASSUME NEW y \in Contexts PROVE Buffer(y)' /\ Sized(y)' /\ Refused(y)'
  <2>1. CASE y # x
    <3>1. /\ pc'[y] = pc[y] /\ data'[y] = data[y] /\ mem'[y] = mem[y]
          /\ bmax'[y] = bmax[y] /\ job'[y] = job[y] /\ graph'[y] = graph[y]
      BY <1>1, <2>1 DEF Inv, TypeOK, Freed
    <3> QED  BY <1>1, <1>4, <2>1, <3>1, Untouched DEF Inv
  <2>2. CASE y = x  BY <1>3, <1>4, <1>7, <1>8, <2>2 DEF Buffer, Sized, Refused
  <2> QED  BY <2>1, <2>2
<1> QED  BY <1>5, <1>6, <1>9 DEF Inv

\* After an exception the output may have stayed behind, and the result says so.
LEMMA InvCaught ==
  ASSUME Inv, NEW x \in Contexts, pc[x] # "idle", NEW failed \in SUBSET (1..(job[x].tasks - 1)),
         Caught(x, failed), last' \in [Contexts -> Nat \ {0}]
  PROVE  Inv'
<1> USE DEF settings
<1> DEFINE Noted == [i \in 1..job[x].tasks |->
                       Outcome(IF i \in failed THEN "pooling" ELSE "exception", <<>>)]
<1>1. /\ result' = [result EXCEPT ![x] = Noted]
      /\ data' = [data EXCEPT ![x] = "null"] /\ rows' = [rows EXCEPT ![x] = <<>>]
      /\ bmax' = [bmax EXCEPT ![x] = 1] /\ base' = [base EXCEPT ![x] = 0]
      /\ graph' = [graph EXCEPT ![x] = <<>>] /\ pc' = [pc EXCEPT ![x] = "idle"]
      /\ UNCHANGED <<family, budget, prec, cap, flag, job, mem>>
  BY DEF Caught
<1>2. \A i \in DOMAIN Noted : Noted[i].err # "memory"  BY DEF Outcome
<1>3. \E i \in DOMAIN Noted : Noted[i].err = "exception"
  <2>1. job[x] \in Jobs  BY DEF Inv, TypeOK
  <2>2. job[x].tasks \in Nat \ {0}  BY <2>1, EncodeAssumption DEF Jobs
  <2>3. job[x].tasks \in 1..job[x].tasks /\ job[x].tasks \notin failed  BY <2>2
  <2>4. Noted[job[x].tasks] = Outcome("exception", <<>>)  BY <2>3
  <2>5. Noted[job[x].tasks].err = "exception"  BY <2>4 DEF Outcome
  <2> QED  BY <2>3, <2>5
<1> HIDE DEF Noted
<1>4. result'[x] = Noted /\ \A y \in Contexts \ {x} : result'[y] = result[y]
  BY <1>1 DEF Inv, Arrays
<1>5. TypeOK'
  <2>1. /\ last' \in [Contexts -> Nat \ {0}] /\ bmax' \in [Contexts -> Nat \ {0}]
        /\ base' \in [Contexts -> Nat]
    BY <1>1 DEF Inv, TypeOK
  <2> QED  BY <1>1, <2>1 DEF Inv, TypeOK
<1>6. Arrays'  BY <1>1 DEF Inv, Arrays
<1>7. pc'[x] = "idle" /\ data'[x] = "null" /\ mem'[x] = mem[x]  BY <1>1 DEF Inv, TypeOK
<1>8. mem[x] \in {0, 1}  BY DEF Inv, Buffer
<1>9. Thrown(x)'  BY <1>3, <1>4 DEF Thrown
<1>10. ASSUME NEW y \in Contexts PROVE Buffer(y)' /\ Sized(y)' /\ Refused(y)'
  <2>1. CASE y # x
    <3>1. /\ pc'[y] = pc[y] /\ data'[y] = data[y] /\ mem'[y] = mem[y]
          /\ bmax'[y] = bmax[y] /\ job'[y] = job[y] /\ graph'[y] = graph[y]
      BY <1>1, <2>1 DEF Inv, TypeOK, Arrays
    <3> QED  BY <1>1, <1>4, <2>1, <3>1, Untouched DEF Inv
  <2>2. CASE y = x
    <3>1. Buffer(x)'  BY <1>7, <1>8, <1>9 DEF Buffer
    <3>2. Sized(x)'  BY <1>7 DEF Sized
    <3>3. Refused(x)'  BY <1>2, <1>4 DEF Refused
    <3> QED  BY <2>2, <3>1, <3>2, <3>3
  <2> QED  BY <2>1, <2>2
<1> QED  BY <1>5, <1>6, <1>10 DEF Inv

LEMMA InvThrow == ASSUME Inv, NEW x \in Contexts, Throw(x) PROVE Inv'
<1>1. pc[x] # "idle" /\ Caught(x, {}) /\ last' = last  BY DEF Throw
<1>2. last' \in [Contexts -> Nat \ {0}]  BY <1>1 DEF Inv, TypeOK
<1>3. {} \in SUBSET (1..(job[x].tasks - 1))  OBVIOUS
<1> QED  BY <1>1, <1>2, <1>3, InvCaught

LEMMA InvThrowInFinish == ASSUME Inv, NEW x \in Contexts, ThrowInFinish(x) PROVE Inv'
<1>1. pc[x] # "idle" /\ last' = [last EXCEPT ![x] = bmax[x]]  BY DEF ThrowInFinish
<1>2. PICK failed \in SUBSET (1..(job[x].tasks - 1)) : Caught(x, failed)  BY DEF ThrowInFinish
<1>3. last' \in [Contexts -> Nat \ {0}]  BY <1>1 DEF Inv, TypeOK
<1> QED  BY <1>1, <1>2, <1>3, InvCaught

LEMMA InvStutter == ASSUME Inv, UNCHANGED vars PROVE Inv'
<1>1. TypeOK'  BY DEF Inv, TypeOK, vars
<1>2. Arrays'  BY DEF Inv, Arrays, vars
<1>3. ASSUME NEW y \in Contexts PROVE Buffer(y)' /\ Sized(y)' /\ Refused(y)'
  BY Untouched DEF Inv, vars
<1> QED  BY <1>1, <1>2, <1>3 DEF Inv

LEMMA InvStep == Inv /\ [Next]_vars => Inv'
<1> SUFFICES ASSUME Inv, [Next]_vars PROVE Inv'  OBVIOUS
<1>1. CASE UNCHANGED vars  BY <1>1, InvStutter
<1>2. ASSUME NEW x \in Contexts,
             \/ Encode(x) \/ BadShape(x) \/ Shrink(x) \/ TooLarge(x) \/ Fits(x) \/ Malloc(x)
             \/ Begin(x) \/ GraphFails(x) \/ Compute(x) \/ Finish(x)
             \/ Throw(x) \/ ThrowInFinish(x)
      PROVE  Inv'
  BY <1>2, InvEncode, InvBadShape, InvShrink, InvTooLarge, InvFits, InvMalloc, InvBegin,
     InvGraphFails, InvCompute, InvFinish, InvThrow, InvThrowInFinish
<1> QED  BY <1>1, <1>2 DEF Next

THEOREM Invariance == Spec => []Inv
<1>1. Init => Inv  BY InvInit
<1>2. Inv /\ [Next]_vars => Inv'  BY InvStep
<1> QED  BY <1>1, <1>2, PTL DEF Spec

-----------------------------------------------------------------------------
\* Whatever the caps, limits and batches, the variables keep their types: a graph
\* never has room for no item.
THEOREM EncodeTypes == Spec => []TypeOK
<1>1. Inv => TypeOK  BY DEF Inv
<1> QED  BY <1>1, Invariance, PTL

\* The output of an encode is never freed twice and its pointer never survives it, and
\* only an exception that worker_main catches leaves the output behind: every return
\* of jepa_encode, with an error or without, ends with the output freed.
THEOREM OutputsFreedOnce == Spec => []BuffersBalanced
<1>1. ASSUME Inv PROVE BuffersBalanced
  <2> SUFFICES ASSUME NEW x \in Contexts
               PROVE  /\ pc[x] # "idle" => mem[x] = IF data[x] = "live" THEN 1 ELSE 0
                      /\ pc[x] = "idle" =>
                           /\ data[x] = "null" /\ mem[x] \in {0, 1}
                           /\ mem[x] = 1 => Thrown(x)
    BY DEF BuffersBalanced, Thrown
  <2>1. Buffer(x) /\ pc[x] \in {"idle", "size", "malloc", "begin", "graph"}
    BY <1>1 DEF Inv, TypeOK
  <2> QED  BY <2>1 DEF Buffer
<1> QED  BY <1>1, Invariance, PTL

\* Every graph is within the cap and the memory limit and not needlessly small, and
\* only an item over the limit is refused.
THEOREM GraphsKeepLimits == Spec => []GraphsFit
<1>1. ASSUME Inv PROVE GraphsFit
  <2> SUFFICES ASSUME NEW x \in Contexts
               PROVE  /\ pc[x] = "graph" =>
                           /\ Len(graph[x]) <= job[x].cap /\ ~OverBudget(x, Len(graph[x]))
                           /\ family = "image" =>
                                \/ bmax[x] = Smaller(job[x].cap, Items(job[x]))
                                \/ OverBudget(x, 2 * bmax[x] + 1)
                      /\ pc[x] = "idle" /\ (\E i \in DOMAIN result[x] : result[x][i].err = "memory")
                           => job[x].cost > budget
    BY DEF GraphsFit
  <2>1. Sized(x) /\ Refused(x)  BY <1>1 DEF Inv
  <2>2. CASE pc[x] = "graph"
    <3>1. job[x] \in Jobs /\ bmax[x] \in Nat /\ budget \in Nat
      BY <1>1, <2>2, EncodeAssumption DEF Inv, TypeOK
    <3>2. job[x].cost \in Nat /\ job[x].cap \in Nat  BY <3>1, EncodeAssumption DEF Jobs
    <3>3. bmax[x] <= job[x].cap /\ Len(graph[x]) \in 0..bmax[x] /\ ~OverBudget(x, bmax[x])
      BY <2>1, <2>2 DEF Sized
    <3>4. /\ Len(graph[x]) * job[x].cost \in Nat /\ bmax[x] * job[x].cost \in Nat
          /\ Len(graph[x]) * job[x].cost <= bmax[x] * job[x].cost
      BY <3>1, <3>2, <3>3, Monotone
    <3>5. ~OverBudget(x, Len(graph[x]))  BY <3>1, <3>3, <3>4 DEF OverBudget
    <3>6. Len(graph[x]) <= job[x].cap  BY <3>1, <3>2, <3>3
    <3> QED  BY <2>1, <2>2, <3>5, <3>6 DEF Sized
  <2>3. CASE pc[x] # "graph"  BY <2>1, <2>3 DEF Refused
  <2> QED  BY <2>2, <2>3
<1> QED  BY <1>1, Invariance, PTL

-----------------------------------------------------------------------------
(***************************************************************************)
(* The rows.  Row r of the output of an encode is token (r - 1) % Tokens of *)
(* item (r - 1) \div Tokens; the graphs fill the rows from the front.       *)
(***************************************************************************)
RowOf(j, r) == <<Item(j, (r - 1) \div Tokens), ((r - 1) % Tokens) + 1, j.prec>>

Served(x) ==
    /\ DOMAIN result[x] = 1..job[x].tasks
    /\ \A i \in DOMAIN result[x] : result[x][i].err = "" => result[x][i].rows = OwnRows(job[x], i)

\* Up to base the rows are there, and the graph being run is of the items after it.
Copied(x) ==
    /\ pc[x] = "idle" => Served(x)
    /\ pc[x] # "idle" => job[x].prec = prec[x]
    /\ pc[x] \in {"size", "malloc"} => base[x] = 0
    /\ pc[x] \in {"begin", "graph"} =>
         /\ rows[x] = [r \in 1..OutRows(job[x]) |-> rows[x][r]]
         /\ \A r \in 1..OutRows(job[x]) : r <= base[x] * Tokens => rows[x][r] = RowOf(job[x], r)
    /\ pc[x] = "graph" =>
         /\ base[x] < Items(job[x]) /\ flag[x] = prec[x]
         /\ Len(graph[x]) = Smaller(bmax[x], Items(job[x]) - base[x])
         /\ \A i \in 1..Len(graph[x]) : graph[x][i] = Item(job[x], base[x] + i - 1)

\* Division with a remainder, and what it makes of an offset by whole multiples.
LEMMA Division ==
  ASSUME NEW a \in Nat, NEW d \in Nat, d > 0
  PROVE  a \div d \in Nat /\ a % d \in 0..(d - 1) /\ a = d * (a \div d) + (a % d)
OBVIOUS

LEMMA DivisionIsUnique ==
  ASSUME NEW d \in Nat, d > 0, NEW q1 \in Int, NEW r1 \in 0..(d - 1),
         NEW q2 \in Int, NEW r2 \in 0..(d - 1), d * q1 + r1 = d * q2 + r2
  PROVE  q1 = q2 /\ r1 = r2
<1>1. ASSUME NEW u \in Int, NEW v \in Int, NEW r \in 0..(d - 1), NEW s \in 0..(d - 1), u < v
      PROVE  d * u + r < d * v + s
  <2>1. u + 1 <= v  BY <1>1
  <2>2. d * (u + 1) <= d * v  BY <2>1
  <2>3. d * (u + 1) = d * u + d  BY <1>1
  <2> QED  BY <2>2, <2>3, <1>1
<1>2. ~(q1 < q2) /\ ~(q2 < q1)  BY <1>1
<1> QED  BY <1>2

LEMMA DivisionShifts ==
  ASSUME NEW a \in Nat, NEW b \in Nat, NEW d \in Nat, d > 0
  PROVE  (a * d + b) \div d = a + (b \div d) /\ (a * d + b) % d = b % d
<1> DEFINE c == a * d + b
<1>1. c \in Nat  OBVIOUS
<1>2. /\ c \div d \in Nat /\ c % d \in 0..(d - 1) /\ c = d * (c \div d) + (c % d)
      /\ b \div d \in Nat /\ b % d \in 0..(d - 1) /\ b = d * (b \div d) + (b % d)
  BY <1>1, Division
<1>3. c = d * (a + (b \div d)) + (b % d)
  <2>1. d * (a + (b \div d)) = d * a + d * (b \div d)  BY <1>2
  <2>2. d * a = a * d  OBVIOUS
  <2> QED  BY <1>2, <2>1, <2>2
<1>4. a + (b \div d) \in Int /\ c \div d \in Int  BY <1>2
<1> HIDE DEF c
<1>5. c \div d = a + (b \div d) /\ c % d = b % d
  BY <1>2, <1>3, <1>4, DivisionIsUnique
<1> QED  BY <1>5 DEF c

LEMMA SmallDivision ==
  ASSUME NEW d \in Nat, NEW b \in 0..(d - 1) PROVE b \div d = 0 /\ b % d = b
OBVIOUS

LEMMA DivisionBound ==
  ASSUME NEW b \in Nat, NEW d \in Nat, d > 0, NEW m \in Nat, b < m * d
  PROVE  b \div d \in Nat /\ b \div d < m
OBVIOUS

LEMMA ExactDivision ==
  ASSUME NEW a \in Nat, a > 0, NEW b \in Nat PROVE (a * b) \div a = b
OBVIOUS

\* The plane at an offset into the pixels of one task.
LEMMA PlaneIs ==
  ASSUME NEW j \in Jobs, NEW b \in Nat, NEW c \in 0..(Chans - 1), NEW t \in 0..(j.frames - 1)
  PROVE  Plane(j, b * (Chans * j.frames) + (c * j.frames + t)) = <<b + 1, c + 1, t + 1>>
<1>1. Chans \in Nat /\ Chans > 0 /\ j.frames \in Nat /\ j.frames > 0
  BY EncodeAssumption DEF Jobs
<1> DEFINE F == j.frames
           own == Chans * F
           o == c * F + t
<1>2. own \in Nat /\ own > 0  BY <1>1
<1>3. o \in 0..(own - 1)
  <2>1. (c + 1) * F <= Chans * F  BY <1>1
  <2>2. (c + 1) * F = c * F + F  BY <1>1
  <2>3. c * F \in Nat  BY <1>1
  <2> QED  BY <1>1, <2>1, <2>2, <2>3
<1>4. o \div F = c /\ o % F = t
  <2>1. t \div F = 0 /\ t % F = t  BY <1>1, SmallDivision
  <2>2. c \in Nat /\ t \in Nat  BY <1>1
  <2>3. (c * F + t) \div F = c + (t \div F) /\ (c * F + t) % F = t % F
    <3> HIDE DEF F
    <3> QED  BY <2>2, <1>1, DivisionShifts DEF F
  <2> QED  BY <2>1, <2>2, <2>3
<1>5. (b * own + o) % F = t
  <2>1. b * own + o = ((b * Chans) + c) * F + t  BY <1>1
  <2>2. (b * Chans) + c \in Nat  BY <1>1
  <2>3. (((b * Chans) + c) * F + t) % F = t % F  BY <1>1, <2>2, DivisionShifts
  <2> QED  BY <1>1, <2>1, <2>3, SmallDivision
<1> HIDE DEF o, own
<1>6. (b * own + o) \div own = b /\ (b * own + o) % own = o
  BY <1>2, <1>3, DivisionShifts, SmallDivision
<1>7. Plane(j, b * own + o) = <<b + 1, c + 1, t + 1>>
  BY <1>4, <1>5, <1>6 DEF Plane, own
<1> QED  BY <1>7 DEF o, own

\* An item is an item of one task: the slice of one of its frames, or its clip.
LEMMA SliceIs ==
  ASSUME NEW j \in Jobs, NEW b \in Nat, NEW t \in 0..(j.frames - 1)
  PROVE  Slice(j, b * j.frames + t) = [c \in 1..Chans |-> <<b + 1, c, t + 1>>]
<1>1. Chans \in Nat /\ Chans > 0 /\ j.frames \in Nat /\ j.frames > 0
  BY EncodeAssumption DEF Jobs
<1> DEFINE F == j.frames
           item == b * F + t
<1>2. item \div F = b /\ item % F = t
  <2>1. t \div F = 0 /\ t % F = t  BY <1>1, SmallDivision
  <2>2. t \in Nat  BY <1>1
  <2>3. (b * F + t) \div F = b + (t \div F) /\ (b * F + t) % F = t % F
    BY <2>2, <1>1, DivisionShifts
  <2> QED  BY <2>1, <2>3
<1>3. \A c \in 1..Chans : Plane(j, (b * Chans + c - 1) * F + t) = <<b + 1, c, t + 1>>
  <2> TAKE c \in 1..Chans
  <2>1. c - 1 \in 0..(Chans - 1)  BY <1>1
  <2>2. (b * Chans + c - 1) * F + t = b * (Chans * F) + ((c - 1) * F + t)  BY <1>1
  <2>3. Plane(j, b * (Chans * F) + ((c - 1) * F + t)) = <<b + 1, (c - 1) + 1, t + 1>>
    BY <2>1, PlaneIs
  <2> QED  BY <2>1, <2>2, <2>3, <1>1
<1> HIDE DEF item
<1>4. Slice(j, item) = [c \in 1..Chans |-> Plane(j, (b * Chans + c - 1) * F + t)]
  BY <1>2 DEF Slice
<1> QED  BY <1>3, <1>4 DEF item

LEMMA ClipIs ==
  ASSUME NEW j \in Jobs, NEW b \in Nat
  PROVE  Clip(j, b) = [q \in 1..(Chans * j.frames) |->
                          <<b + 1, ((q - 1) \div j.frames) + 1, ((q - 1) % j.frames) + 1>>]
<1>1. Chans \in Nat /\ Chans > 0 /\ j.frames \in Nat /\ j.frames > 0
  BY EncodeAssumption DEF Jobs
<1> DEFINE F == j.frames
<1>2. \A q \in 1..(Chans * F) :
        Plane(j, b * (Chans * F) + q - 1) = <<b + 1, ((q - 1) \div F) + 1, ((q - 1) % F) + 1>>
  <2> TAKE q \in 1..(Chans * F)
  <2> DEFINE c == (q - 1) \div F
             t == (q - 1) % F
  <2>1. q - 1 \in Nat /\ q - 1 < Chans * F  BY <1>1
  <2>2. c \in Nat /\ t \in 0..(F - 1) /\ q - 1 = F * c + t  BY <2>1, <1>1, Division
  <2>3. c < Chans  BY <2>1, <1>1, DivisionBound
  <2>4. c \in 0..(Chans - 1)  BY <2>2, <2>3, <1>1
  <2> HIDE DEF c, t
  <2>5. b * (Chans * F) + q - 1 = b * (Chans * F) + (c * F + t)
    <3>1. F * c = c * F  BY <1>1, <2>2
    <3>2. b * (Chans * F) \in Nat  BY <1>1
    <3> QED  BY <2>1, <2>2, <3>1, <3>2
  <2>6. Plane(j, b * (Chans * F) + (c * F + t)) = <<b + 1, c + 1, t + 1>>
    BY <2>2, <2>4, PlaneIs
  <2> QED  BY <2>5, <2>6 DEF c, t
<1> QED  BY <1>2 DEF Clip

LEMMA RowAt ==
  ASSUME NEW j, NEW r \in Nat, NEW item \in Nat, NEW k \in Nat,
         (r - 1) \div Tokens = item, (r - 1) % Tokens = k
  PROVE  RowOf(j, r) = <<Item(j, item), k + 1, j.prec>>
BY DEF RowOf

\* What a task is given: its share of the output, which is the rows of its own pixels.
LEMMA ShareIsOwn ==
  ASSUME NEW j \in Jobs, NEW s, NEW i \in 1..j.tasks, family \in {"image", "video"},
         \A r \in 1..OutRows(j) : s[r] = RowOf(j, r)
  PROVE  LET share == OutRows(j) \div j.tasks
         IN  SubSeq(s, (i - 1) * share + 1, i * share) = OwnRows(j, i)
<1>1. /\ Tokens \in Nat /\ Tokens > 0 /\ j.frames \in Nat /\ j.frames > 0
      /\ j.tasks \in Nat /\ j.tasks > 0
  BY EncodeAssumption DEF Jobs
<1> DEFINE clip == IF family = "image" THEN j.frames ELSE 1
           T == Tokens
           n == clip * T
           lo == (i - 1) * n
<1>2. clip \in Nat /\ clip > 0 /\ Items(j) = j.tasks * clip  BY <1>1 DEF Items
<1> HIDE DEF clip
<1>3. n \in Nat /\ n > 0 /\ OutRows(j) = j.tasks * n
  <2>1. (j.tasks * clip) * T = j.tasks * (clip * T)  BY <1>1, <1>2
  <2> QED  BY <1>1, <1>2, <2>1 DEF OutRows
<1>4. OutRows(j) \div j.tasks = n  BY <1>1, <1>3, ExactDivision
<1>5. lo \in Nat /\ i * n = lo + n /\ lo + n <= OutRows(j)
  <2>1. i \in Nat /\ i - 1 \in Nat /\ i <= j.tasks  BY <1>1
  <2>2. i * n <= j.tasks * n  BY <2>1, <1>1, <1>3
  <2>3. i * n = (i - 1) * n + n  BY <2>1, <1>3
  <2>4. lo \in Nat  BY <2>1, <1>3
  <2> QED  BY <2>2, <2>3, <2>4, <1>3
<1>6. ASSUME NEW r \in 1..n PROVE s[lo + r] = OwnRows(j, i)[r]
  <2> DEFINE t == (r - 1) \div T
             k == (r - 1) % T
             b == i - 1
  <2>1. r - 1 \in Nat /\ r - 1 < clip * T  BY <1>3 DEF n
  <2>2. t \in 0..(clip - 1)
    <3>1. t \in Nat /\ t < clip  BY <2>1, <1>1, <1>2, DivisionBound
    <3> QED  BY <3>1, <1>2
  <2>3. b \in Nat /\ b + 1 = i  BY <1>1
  <2>4. (lo + r - 1) \div T = b * clip + t /\ (lo + r - 1) % T = k
    <3>1. lo + r - 1 = (b * clip) * T + (r - 1)
      <4>1. b * (clip * T) = (b * clip) * T  BY <2>3, <1>1, <1>2
      <4> QED  BY <4>1, <1>5, <2>1
    <3>2. b * clip \in Nat  BY <2>3, <1>2
    <3>3. /\ ((b * clip) * T + (r - 1)) \div T = b * clip + ((r - 1) \div T)
          /\ ((b * clip) * T + (r - 1)) % T = (r - 1) % T
      BY <2>1, <3>2, <1>1, DivisionShifts
    <3> QED  BY <3>1, <3>3
  <2>5. s[lo + r] = RowOf(j, lo + r)
    <3>1. lo + r \in 1..OutRows(j)
      <4>1. OutRows(j) \in Int  BY <1>1, <1>3
      <4> QED  BY <4>1, <1>3, <1>5
    <3> QED  BY <3>1
  <2> HIDE DEF lo
  <2>6. RowOf(j, lo + r) = <<Item(j, b * clip + t), k + 1, j.prec>>
    <3>1. lo + r \in Nat /\ b * clip + t \in Nat /\ k \in Nat
      BY <1>1, <1>2, <1>5, <2>2, <2>3, Division
    <3> HIDE DEF t, k, b
    <3>2. (lo + r) - 1 = lo + r - 1  BY <1>5
    <3> QED  BY <2>4, <3>1, <3>2, RowAt
  <2>7. OwnRows(j, i)[r] =
          <<IF family = "image"
            THEN [c \in 1..Chans |-> <<i, c, t + 1>>]
            ELSE [q \in 1..(Chans * j.frames) |->
                     <<i, ((q - 1) \div j.frames) + 1, ((q - 1) % j.frames) + 1>>],
            k + 1, j.prec>>
    BY <1>1 DEF OwnRows, clip, n
  <2> HIDE DEF t, k, b
  <2>8. CASE family = "image"
    <3>1. Slice(j, b * j.frames + t) = [c \in 1..Chans |-> <<b + 1, c, t + 1>>]
      BY <2>2, <2>3, <2>8, SliceIs DEF clip
    <3>2. Item(j, b * clip + t) = Slice(j, b * j.frames + t)  BY <2>8 DEF Item, clip
    <3> QED  BY <2>3, <2>5, <2>6, <2>7, <2>8, <3>1, <3>2
  <2>9. CASE family # "image"
    <3>1. b * clip + t = b  BY <2>2, <2>3, <2>9 DEF clip
    <3>2. Item(j, b * clip + t) = Clip(j, b)  BY <2>9, <3>1 DEF Item
    <3> QED  BY <2>3, <2>5, <2>6, <2>7, <2>9, <3>2, ClipIs
  <2> QED  BY <2>8, <2>9
<1>7. SubSeq(s, lo + 1, lo + n) = OwnRows(j, i)
  <2> DEFINE S == {s[k] : k \in (lo + 1)..(lo + n)}
             u == SubSeq(s, lo + 1, lo + n)
  <2> HIDE DEF lo, n
  <2>1. lo + 1 \in Int /\ lo + n \in Int /\ lo + 1 <= lo + n  BY <1>3, <1>5
  <2>2. /\ u \in Seq(S) /\ Len(u) = (lo + n) - (lo + 1) + 1
        /\ \A r \in 1..((lo + n) - (lo + 1) + 1) : u[r] = s[lo + 1 + r - 1]
    BY <2>1, SubSeqProperties
  <2>3. (lo + n) - (lo + 1) + 1 = n /\ \A r \in 1..n : lo + 1 + r - 1 = lo + r
    BY <1>3, <1>5
  <2>4. Len(u) = n /\ \A r \in 1..n : u[r] = s[lo + r]  BY <2>2, <2>3
  <2>5. u = [r \in 1..n |-> s[lo + r]]  BY <2>2, <2>4, LenProperties
  <2>6. OwnRows(j, i) = [r \in 1..n |-> OwnRows(j, i)[r]]  BY DEF OwnRows, n, clip
  <2>7. \A r \in 1..n : s[lo + r] = OwnRows(j, i)[r]  BY <1>6
  <2> QED  BY <2>5, <2>6, <2>7
<1>8. (i - 1) * n + 1 = lo + 1 /\ i * n = lo + n  BY <1>5
<1> HIDE DEF lo, n
<1> QED  BY <1>4, <1>7, <1>8

-----------------------------------------------------------------------------
AllCopied == \A x \in Contexts : Copied(x)

LEMMA CopiedInit == Init => AllCopied
<1> SUFFICES ASSUME Init, NEW x \in Contexts PROVE Copied(x)  BY DEF AllCopied
<1>1. pc[x] = "idle" /\ result[x] = <<>> /\ job[x] = NoJob  BY DEF Init
<1>2. DOMAIN result[x] = {} /\ 1..job[x].tasks = {}  BY <1>1 DEF NoJob
<1> QED  BY <1>1, <1>2 DEF Copied, Served

\* What a row of a worker's input is depends on its job and on the family alone.
LEMMA SameRows ==
  ASSUME NEW y \in Contexts, family' = family, job'[y] = job[y]
  PROVE  /\ Items(job[y])' = Items(job[y]) /\ OutRows(job[y])' = OutRows(job[y])
         /\ \A r \in Nat : RowOf(job[y], r)' = RowOf(job[y], r)
         /\ \A i \in Nat : Item(job[y], i)' = Item(job[y], i)
         /\ \A i \in Nat : OwnRows(job[y], i)' = OwnRows(job[y], i)
<1>1. Items(job[y])' = Items(job[y]) /\ OutRows(job[y])' = OutRows(job[y])
  BY DEF Items, OutRows
<1>2. \A i \in Nat : Item(job[y], i)' = Item(job[y], i)
  BY DEF Item
<1>3. \A r \in Nat : RowOf(job[y], r)' = RowOf(job[y], r)
  BY DEF RowOf, Item
<1>4. \A i \in Nat : OwnRows(job[y], i)' = OwnRows(job[y], i)
  BY DEF OwnRows
<1> QED  BY <1>1, <1>2, <1>3, <1>4

LEMMA CopiedUntouched ==
  ASSUME NEW y \in Contexts, Copied(y), UNCHANGED <<family, prec>>,
         pc'[y] = pc[y], job'[y] = job[y], bmax'[y] = bmax[y], base'[y] = base[y],
         graph'[y] = graph[y], rows'[y] = rows[y], result'[y] = result[y], flag'[y] = flag[y]
  PROVE  Copied(y)'
<1>1. ASSUME pc'[y] = "idle" PROVE Served(y)'
  <2>1. /\ DOMAIN result[y] = 1..job[y].tasks
        /\ \A i \in DOMAIN result[y] : result[y][i].err = "" => result[y][i].rows = OwnRows(job[y], i)
    BY <1>1 DEF Copied, Served
  <2>2. ASSUME NEW i \in DOMAIN result[y], result[y][i].err = ""
        PROVE  result[y][i].rows = OwnRows(job[y], i)'
    <3>1. result[y][i].rows = OwnRows(job[y], i)  BY <2>1, <2>2
    <3>2. OwnRows(job[y], i)' = OwnRows(job[y], i)  BY DEF OwnRows
    <3> QED  BY <3>1, <3>2
  <2> QED  BY <2>1, <2>2 DEF Served
<1>2. pc'[y] # "idle" => job'[y].prec = prec'[y]
  BY DEF Copied
<1>3. pc'[y] \in {"size", "malloc"} => base'[y] = 0
  BY DEF Copied
<1>4. ASSUME pc'[y] \in {"begin", "graph"}
      PROVE  /\ rows'[y] = [r \in 1..OutRows(job[y])' |-> rows'[y][r]]
             /\ \A r \in 1..OutRows(job[y])' : r <= base'[y] * Tokens => rows'[y][r] = RowOf(job[y], r)'
  <2>1. OutRows(job[y])' = OutRows(job[y])  BY DEF OutRows, Items
  <2>2. /\ rows[y] = [r \in 1..OutRows(job[y]) |-> rows[y][r]]
        /\ \A r \in 1..OutRows(job[y]) : r <= base[y] * Tokens => rows[y][r] = RowOf(job[y], r)
    BY <1>4 DEF Copied
  <2>3. ASSUME NEW r \in 1..OutRows(job[y]), r <= base[y] * Tokens
        PROVE  rows[y][r] = RowOf(job[y], r)'
    <3>1. rows[y][r] = RowOf(job[y], r)  BY <2>2, <2>3
    <3>2. RowOf(job[y], r)' = RowOf(job[y], r)  BY DEF RowOf, Item
    <3> QED  BY <3>1, <3>2
  <2> QED  BY <2>1, <2>2, <2>3
<1>5. ASSUME pc'[y] = "graph"
      PROVE  /\ base'[y] < Items(job[y])' /\ flag'[y] = prec'[y]
             /\ Len(graph'[y]) = Smaller(bmax'[y], Items(job[y])' - base'[y])
             /\ \A i \in 1..Len(graph'[y]) : graph'[y][i] = Item(job[y], base[y] + i - 1)'
  <2>1. Items(job[y])' = Items(job[y])  BY DEF Items
  <2>2. /\ base[y] < Items(job[y]) /\ flag[y] = prec[y]
        /\ Len(graph[y]) = Smaller(bmax[y], Items(job[y]) - base[y])
        /\ \A i \in 1..Len(graph[y]) : graph[y][i] = Item(job[y], base[y] + i - 1)
    BY <1>5 DEF Copied
  <2>3. ASSUME NEW i \in 1..Len(graph[y])
        PROVE  graph[y][i] = Item(job[y], base[y] + i - 1)'
    <3>1. graph[y][i] = Item(job[y], base[y] + i - 1)  BY <2>2
    <3>2. Item(job[y], base[y] + i - 1)' = Item(job[y], base[y] + i - 1)  BY DEF Item
    <3> QED  BY <3>1, <3>2
  <2> QED  BY <2>1, <2>2, <2>3
<1> QED  BY <1>1, <1>2, <1>3, <1>4, <1>5 DEF Copied, Smaller

\* It is enough to look at the worker that acts.
LEMMA CopiedRest ==
  ASSUME AllCopied, NEW x \in Contexts, Copied(x)', UNCHANGED <<family, prec>>,
         \A y \in Contexts : y # x =>
            /\ pc'[y] = pc[y] /\ job'[y] = job[y] /\ bmax'[y] = bmax[y] /\ base'[y] = base[y]
            /\ graph'[y] = graph[y] /\ rows'[y] = rows[y] /\ result'[y] = result[y]
            /\ flag'[y] = flag[y]
  PROVE  AllCopied'
<1>1. ASSUME NEW y \in Contexts, y # x PROVE Copied(y)'
  BY <1>1, CopiedUntouched DEF AllCopied
<1> QED  BY <1>1 DEF AllCopied

\* A failed encode gives every task an error.
LEMMA CopiedFail ==
  ASSUME Inv, AllCopied, NEW x \in Contexts, NEW why, why # "", Fail(x, why),
         UNCHANGED <<settings, last, flag, job, bmax, base, graph>>
  PROVE  AllCopied'
<1> USE DEF settings
<1>1. pc'[x] = "idle" /\ result'[x] = [i \in 1..job[x].tasks |-> Outcome(why, <<>>)]
  BY DEF Inv, TypeOK, Arrays, Fail
<1>2. DOMAIN result'[x] = 1..job'[x].tasks /\ \A i \in DOMAIN result'[x] : result'[x][i].err # ""
  <2>1. job' = job  OBVIOUS
  <2>2. Outcome(why, <<>>).err # ""  BY DEF Outcome
  <2> QED  BY <1>1, <2>1, <2>2
<1>3. Copied(x)'  BY <1>1, <1>2 DEF Copied, Served
<1>4. \A y \in Contexts : y # x =>
        pc'[y] = pc[y] /\ rows'[y] = rows[y] /\ result'[y] = result[y]
  BY DEF Inv, TypeOK, Arrays, Fail
<1> QED  BY <1>3, <1>4, CopiedRest

LEMMA CopiedEncode == ASSUME Inv, AllCopied, NEW x \in Contexts, Encode(x) PROVE AllCopied'
<1> USE DEF settings
<1>1. PICK nb \in 1..MaxTasks, T \in 1..MaxFrames, cost \in Costs :
        LET j == [tasks |-> nb, frames |-> T, cost |-> cost, prec |-> prec[x], cap |-> EffectiveCap(x)]
        IN  /\ job' = [job EXCEPT ![x] = j]
            /\ bmax' = [bmax EXCEPT ![x] =
                          IF family = "image" THEN Smaller(EffectiveCap(x), Items(j)) ELSE 1]
  BY DEF Encode
<1>2. job'[x].prec = prec[x] /\ \A y \in Contexts : y # x => job'[y] = job[y] /\ bmax'[y] = bmax[y]
  BY <1>1 DEF Inv, TypeOK
<1>3. pc'[x] = "size" /\ base'[x] = 0 /\ UNCHANGED <<family, prec>>
  BY DEF Encode, Inv, TypeOK
<1>4. Copied(x)'  BY <1>2, <1>3 DEF Copied
<1>5. \A y \in Contexts : y # x =>
        /\ pc'[y] = pc[y] /\ base'[y] = base[y] /\ result'[y] = result[y]
        /\ graph'[y] = graph[y] /\ rows'[y] = rows[y] /\ flag'[y] = flag[y]
  BY DEF Encode, Inv, TypeOK, Arrays
<1> QED  BY <1>2, <1>3, <1>4, <1>5, CopiedRest

LEMMA CopiedShrink == ASSUME Inv, AllCopied, NEW x \in Contexts, Shrink(x) PROVE AllCopied'
<1> USE DEF settings
<1>1. pc[x] = "size" /\ UNCHANGED <<family, prec, pc, job, base, graph, rows, result, flag>>
  BY DEF Shrink
<1>2. Copied(x)  BY DEF AllCopied
<1>3. Copied(x)'  BY <1>1, <1>2 DEF Copied
<1>4. \A y \in Contexts : y # x => bmax'[y] = bmax[y]  BY DEF Shrink, Inv, TypeOK
<1> QED  BY <1>1, <1>3, <1>4, CopiedRest

LEMMA CopiedFits == ASSUME Inv, AllCopied, NEW x \in Contexts, Fits(x) PROVE AllCopied'
<1> USE DEF settings
<1>1. /\ pc[x] = "size" /\ pc'[x] = "malloc"
      /\ UNCHANGED <<family, prec, job, bmax, base, graph, rows, result, flag>>
  BY DEF Fits, Inv, TypeOK
<1>2. Copied(x)  BY DEF AllCopied
<1>3. Copied(x)'  BY <1>1, <1>2 DEF Copied
<1>4. \A y \in Contexts : y # x => pc'[y] = pc[y]  BY DEF Fits, Inv, TypeOK
<1> QED  BY <1>1, <1>3, <1>4, CopiedRest

\* The output is not initialised, and no row of it counts yet.
LEMMA CopiedMalloc == ASSUME Inv, AllCopied, NEW x \in Contexts, Malloc(x) PROVE AllCopied'
<1> USE DEF settings
<1>1. UNCHANGED <<settings, last, flag, job, bmax, base, graph>> /\ pc[x] = "malloc"
  BY DEF Malloc
<1>2. CASE Fail(x, "malloc")  BY <1>1, <1>2, CopiedFail
<1>3. CASE /\ rows' = [rows EXCEPT ![x] = [r \in 1..OutRows(job[x]) |-> <<>>]]
           /\ pc' = [pc EXCEPT ![x] = "begin"] /\ UNCHANGED result
  <2>1. pc'[x] = "begin" /\ rows'[x] = [r \in 1..OutRows(job[x]) |-> <<>>]
    BY <1>3 DEF Inv, TypeOK, Arrays
  <2>2. base[x] = 0 /\ job[x].prec = prec[x]  BY <1>1 DEF AllCopied, Copied
  <2>3. OutRows(job[x])' = OutRows(job[x])  BY <1>1 DEF OutRows, Items
  <2>4. ASSUME NEW r \in 1..OutRows(job[x]) PROVE ~(r <= base'[x] * Tokens)
    BY <1>1, <2>2, EncodeAssumption
  <2>5. rows'[x] = [r \in 1..OutRows(job[x]) |-> rows'[x][r]]  BY <2>1
  <2>6. Copied(x)'  BY <1>1, <2>1, <2>2, <2>3, <2>4, <2>5 DEF Copied
  <2>7. \A y \in Contexts : y # x =>
          pc'[y] = pc[y] /\ rows'[y] = rows[y] /\ result'[y] = result[y]
    BY <1>3 DEF Inv, TypeOK, Arrays
  <2> QED  BY <1>1, <2>6, <2>7, CopiedRest
<1> QED  BY <1>2, <1>3 DEF Malloc

LEMMA CopiedBegin == ASSUME Inv, AllCopied, NEW x \in Contexts, Begin(x) PROVE AllCopied'
<1> USE DEF settings
<1> DEFINE n == Smaller(bmax[x], Items(job[x]) - base[x])
<1>1. /\ pc[x] = "begin" /\ base[x] < Items(job[x])
      /\ pc'[x] = "graph" /\ flag'[x] = prec[x]
      /\ graph'[x] = [i \in 1..n |-> Item(job[x], base[x] + i - 1)]
      /\ UNCHANGED <<family, prec, job, bmax, base, rows, result>>
  BY DEF Begin, Inv, TypeOK, Arrays
<1>2. n \in Nat
  <2>1. job[x] \in Jobs /\ bmax[x] \in Nat /\ base[x] \in Nat  BY <1>1 DEF Inv, TypeOK
  <2>2. job[x].tasks \in Nat /\ job[x].frames \in Nat  BY <2>1, EncodeAssumption DEF Jobs
  <2>3. Items(job[x]) \in Nat  BY <2>2 DEF Items
  <2> QED  BY <1>1, <2>1, <2>3 DEF Smaller
<1>3. Len(graph'[x]) = n  BY <1>1, <1>2, LenProperties
<1>4. /\ OutRows(job[x])' = OutRows(job[x]) /\ Items(job[x])' = Items(job[x])
      /\ \A r \in Nat : RowOf(job[x], r)' = RowOf(job[x], r)
      /\ \A i \in Nat : Item(job[x], i)' = Item(job[x], i)
  BY <1>1, SameRows
<1>5. /\ job[x].prec = prec[x]
      /\ rows[x] = [r \in 1..OutRows(job[x]) |-> rows[x][r]]
      /\ \A r \in 1..OutRows(job[x]) : r <= base[x] * Tokens => rows[x][r] = RowOf(job[x], r)
  BY <1>1 DEF AllCopied, Copied
<1>6. ASSUME NEW r \in 1..OutRows(job[x])', r <= base'[x] * Tokens
      PROVE  rows'[x][r] = RowOf(job[x], r)'
  <2>1. RowOf(job[x], r)' = RowOf(job[x], r)  BY <1>1 DEF RowOf, Item
  <2> QED  BY <1>1, <1>4, <1>5, <1>6, <2>1
<1>7. ASSUME NEW i \in 1..Len(graph'[x])
      PROVE  graph'[x][i] = Item(job[x], base[x] + i - 1)'
  <2>1. graph'[x][i] = Item(job[x], base[x] + i - 1)  BY <1>1, <1>2, <1>3
  <2>2. Item(job[x], base[x] + i - 1)' = Item(job[x], base[x] + i - 1)  BY <1>1 DEF Item
  <2> QED  BY <2>1, <2>2
<1>8. Len(graph'[x]) = Smaller(bmax[x], Items(job[x]) - base[x])'
  BY <1>1, <1>3, <1>4 DEF Smaller
<1>9. rows'[x] = [r \in 1..OutRows(job[x])' |-> rows'[x][r]]  BY <1>1, <1>4, <1>5
<1> HIDE DEF n
<1>10. Copied(x)'
  BY <1>1, <1>4, <1>5, <1>6, <1>7, <1>8, <1>9 DEF Copied
<1>11. \A y \in Contexts : y # x =>
         pc'[y] = pc[y] /\ graph'[y] = graph[y] /\ flag'[y] = flag[y]
  BY DEF Begin, Inv, TypeOK, Arrays
<1> QED  BY <1>1, <1>10, <1>11, CopiedRest

\* A graph's rows are the rows of the output that follow those already there.
LEMMA CopiedCompute == ASSUME Inv, AllCopied, NEW x \in Contexts, Compute(x) PROVE AllCopied'
<1> USE DEF settings
<1> DEFINE j == job[x]
           g == graph[x]
           b == base[x]
           T == Tokens
           n == OutRows(j)
<1>1. /\ pc[x] = "graph" /\ pc'[x] = "begin" /\ base'[x] = b + bmax[x]
      /\ UNCHANGED <<family, prec, job, bmax, graph, result, flag>>
  BY DEF Compute, Inv, TypeOK
<1>2. /\ rows[x] = [r \in 1..n |-> rows[x][r]]
      /\ \A r \in 1..n : r <= b * T => rows[x][r] = RowOf(j, r)
      /\ j.prec = prec[x] /\ b < Items(j) /\ flag[x] = prec[x]
      /\ Len(g) = Smaller(bmax[x], Items(j) - b)
      /\ \A i \in 1..Len(g) : g[i] = Item(j, b + i - 1)
  BY <1>1 DEF AllCopied, Copied
<1>3. rows'[x] = [r \in 1..n |-> IF r - b * T \in 1..(Len(g) * T)
                                 THEN Row(x, r - b * T) ELSE rows[x][r]]
  <2>1. DOMAIN rows[x] = 1..n  BY <1>2
  <2>2. rows' = [rows EXCEPT ![x] =
                  [r \in DOMAIN rows[x] |->
                     IF r - b * T \in 1..(Len(g) * T) THEN Row(x, r - b * T) ELSE rows[x][r]]]
    BY DEF Compute
  <2>3. rows'[x] = [r \in DOMAIN rows[x] |->
                     IF r - b * T \in 1..(Len(g) * T) THEN Row(x, r - b * T) ELSE rows[x][r]]
    BY <2>2 DEF Inv, Arrays
  <2> QED  BY <2>1, <2>3
<1>4. j \in Jobs /\ bmax[x] \in Nat /\ b \in Nat /\ Len(g) \in Nat /\ T \in Nat /\ T > 0
  <2>1. Len(g) \in 0..bmax[x] /\ bmax[x] \in Nat  BY <1>1 DEF Inv, TypeOK, Sized
  <2> QED  BY <1>1, <2>1, EncodeAssumption DEF Inv, TypeOK
<1>5. Items(j) \in Nat /\ n = Items(j) * T
  <2>1. j.tasks \in Nat /\ j.frames \in Nat  BY <1>4, EncodeAssumption DEF Jobs
  <2> QED  BY <2>1 DEF Items, OutRows
<1> HIDE DEF j, g, b, T, n
<1>6. ASSUME NEW r \in 1..n, r <= (b + bmax[x]) * T PROVE rows'[x][r] = RowOf(j, r)
  <2>1. n \in Nat /\ b * T \in Nat /\ r \in Nat  BY <1>4, <1>5
  <2>2. CASE r <= b * T
    <3>1. r - b * T \notin 1..(Len(g) * T)  BY <2>1, <2>2
    <3> QED  BY <1>2, <1>3, <2>2, <3>1
  <2>3. CASE r > b * T
    <3> DEFINE q == r - b * T
               k == (q - 1) \div T
               m == (q - 1) % T
    <3>1. q \in Nat /\ q >= 1 /\ q - 1 \in Nat /\ r - 1 = b * T + (q - 1)  BY <2>1, <2>3
    <3>2. q <= Len(g) * T
      <4>1. (b + bmax[x]) * T = b * T + bmax[x] * T  BY <1>4
      <4>2. (Items(j) - b) * T = Items(j) * T - b * T  BY <1>4, <1>5
      <4>3. bmax[x] * T \in Nat  BY <1>4
      <4>4. q <= bmax[x] * T  BY <1>6, <2>1, <4>1, <4>3
      <4>5. q <= (Items(j) - b) * T  BY <1>5, <2>1, <4>2
      <4> QED  BY <1>2, <4>4, <4>5 DEF Smaller
    <3>3. rows'[x][r] = Row(x, q)
      <4>1. Len(g) * T \in Nat  BY <1>4
      <4>2. q \in 1..(Len(g) * T)  BY <3>1, <3>2, <4>1
      <4> QED  BY <1>3, <4>2
    <3> HIDE DEF q
    <3>4. k \in Nat /\ k < Len(g)
      <4>1. q - 1 < Len(g) * T
        <5>1. Len(g) * T \in Nat  BY <1>4
        <5> QED  BY <3>1, <3>2, <5>1
      <4> QED  BY <1>4, <3>1, <4>1, DivisionBound
    <3>5. m \in Nat  BY <1>4, <3>1, Division
    <3>6. (r - 1) \div T = b + k /\ (r - 1) % T = m
      BY <1>4, <3>1, DivisionShifts
    <3>7. Row(x, q) = <<g[k + 1], m + 1, j.prec>>  BY <1>2 DEF Row, g, T
    <3> HIDE DEF k, m
    <3>8. g[k + 1] = Item(j, b + k)
      <4>1. k + 1 \in 1..Len(g) /\ b + (k + 1) - 1 = b + k  BY <1>4, <3>4
      <4>2. g[k + 1] = Item(j, b + (k + 1) - 1)  BY <1>2, <4>1
      <4> QED  BY <4>1, <4>2
    <3>9. RowOf(j, r) = <<Item(j, b + k), m + 1, j.prec>>
      <4>1. b + k \in Nat  BY <1>4, <3>4
      <4> QED  BY <2>1, <3>5, <3>6, <4>1, RowAt DEF T
    <3> QED  BY <3>3, <3>7, <3>8, <3>9
  <2> QED  BY <2>1, <2>2, <2>3
<1>7. ASSUME NEW r \in 1..OutRows(job[x])', r <= base'[x] * Tokens
      PROVE  rows'[x][r] = RowOf(job[x], r)'
  <2>1. RowOf(job[x], r)' = RowOf(job[x], r)  BY <1>1 DEF RowOf, Item
  <2>2. OutRows(job[x])' = OutRows(job[x])  BY <1>1, SameRows
  <2>3. r \in 1..n /\ r <= (b + bmax[x]) * T  BY <1>1, <1>7, <2>2 DEF n, T, j
  <2> QED  BY <1>6, <2>1, <2>3 DEF j
<1>8. rows'[x] = [r \in 1..OutRows(job[x])' |-> rows'[x][r]]
  <2>1. OutRows(job[x])' = OutRows(job[x])  BY <1>1, SameRows
  <2> QED  BY <1>3, <2>1 DEF n, j
<1>9. Copied(x)'
  <2>1. job[x].prec = prec[x]  BY <1>2 DEF j
  <2> QED  BY <1>1, <1>7, <1>8, <2>1 DEF Copied
<1>10. \A y \in Contexts : y # x =>
         pc'[y] = pc[y] /\ base'[y] = base[y] /\ rows'[y] = rows[y]
  BY DEF Compute, Inv, TypeOK, Arrays
<1> QED  BY <1>1, <1>9, <1>10, CopiedRest

\* When base has passed the last item every row is there.
LEMMA CopiedFinish == ASSUME Inv, AllCopied, NEW x \in Contexts, Finish(x) PROVE AllCopied'
<1> USE DEF settings
<1> DEFINE j == job[x]
           share == OutRows(j) \div j.tasks
<1>1. /\ pc[x] = "begin" /\ base[x] >= Items(j) /\ pc'[x] = "idle"
      /\ UNCHANGED <<family, prec, job, bmax, base, graph, flag>>
  BY DEF Finish, Inv, TypeOK
<1>2. PICK failed \in SUBSET (1..j.tasks) :
        result' = [result EXCEPT ![x] =
          [i \in 1..j.tasks |->
             IF i \in failed THEN Outcome("pooling", <<>>)
             ELSE Outcome("", SubSeq(rows[x], (i - 1) * share + 1, i * share))]]
  BY DEF Finish
<1>3. result'[x] = [i \in 1..j.tasks |->
             IF i \in failed THEN Outcome("pooling", <<>>)
             ELSE Outcome("", SubSeq(rows[x], (i - 1) * share + 1, i * share))]
  BY <1>2 DEF Inv, Arrays
<1>4. j \in Jobs /\ base[x] \in Nat /\ family \in {"image", "video"} /\ Tokens \in Nat
  BY <1>1, EncodeAssumption DEF Inv, TypeOK
<1>5. Items(j) \in Nat /\ OutRows(j) = Items(j) * Tokens
  <2>1. j.tasks \in Nat /\ j.frames \in Nat  BY <1>4, EncodeAssumption DEF Jobs
  <2> QED  BY <2>1 DEF Items, OutRows
<1>6. \A r \in 1..OutRows(j) : rows[x][r] = RowOf(j, r)
  <2> TAKE r \in 1..OutRows(j)
  <2>1. Items(j) * Tokens <= base[x] * Tokens  BY <1>1, <1>4, <1>5, Monotone
  <2>2. r <= base[x] * Tokens  BY <1>4, <1>5, <2>1
  <2> QED  BY <1>1, <2>2 DEF AllCopied, Copied
<1> HIDE DEF j, share
<1>7. ASSUME NEW i \in 1..j.tasks, result'[x][i].err = ""
      PROVE  result'[x][i].rows = OwnRows(job[x], i)'
  <2> DEFINE own == SubSeq(rows[x], (i - 1) * share + 1, i * share)
  <2>0. result'[x][i] = IF i \in failed THEN Outcome("pooling", <<>>) ELSE Outcome("", own)
    BY <1>3
  <2> HIDE DEF own
  <2>1. i \notin failed
    <3>1. ASSUME i \in failed PROVE result'[x][i] = Outcome("pooling", <<>>)
      BY <2>0, <3>1, Zenon
    <3>2. Outcome("pooling", <<>>).err = "pooling"  BY DEF Outcome
    <3>3. "pooling" # ""  BY Zenon
    <3> QED  BY <1>7, <3>1, <3>2, <3>3, Zenon
  <2>2. result'[x][i].rows = own
    <3> DEFINE none == ""
    <3>1. result'[x][i] = Outcome(none, own)  BY <2>0, <2>1, Zenon
    <3> HIDE DEF none
    <3>2. Outcome(none, own).rows = own  BY DEF Outcome
    <3> QED  BY <3>1, <3>2, Zenon
  <2>3. SubSeq(rows[x], (i - 1) * share + 1, i * share) = OwnRows(j, i)
    BY <1>4, <1>6, ShareIsOwn DEF share
  <2>4. OwnRows(job[x], i)' = OwnRows(job[x], i)  BY <1>1 DEF OwnRows
  <2> QED  BY <2>2, <2>3, <2>4 DEF j, own
<1>8. DOMAIN result'[x] = 1..job'[x].tasks
  BY <1>1, <1>3 DEF j
<1>9. Copied(x)'  BY <1>1, <1>7, <1>8 DEF Copied, Served, j
<1>10. \A y \in Contexts : y # x =>
         pc'[y] = pc[y] /\ result'[y] = result[y] /\ rows'[y] = rows[y]
  BY <1>2 DEF Finish, Inv, TypeOK, Arrays
<1> QED  BY <1>1, <1>9, <1>10, CopiedRest

\* After an exception every task has an error.
LEMMA CopiedCaught ==
  ASSUME Inv, AllCopied, NEW x \in Contexts, NEW failed, Caught(x, failed)
  PROVE  AllCopied'
<1> USE DEF settings
<1> DEFINE Why(i) == IF i \in failed THEN "pooling" ELSE "exception"
<1>1. /\ pc'[x] = "idle" /\ result'[x] = [i \in 1..job[x].tasks |-> Outcome(Why(i), <<>>)]
      /\ UNCHANGED <<family, prec, job, flag>>
  BY DEF Inv, TypeOK, Arrays, Caught
<1>2. \A i : Why(i) # ""  OBVIOUS
<1> HIDE DEF Why
<1>3. DOMAIN result'[x] = 1..job'[x].tasks /\ \A i \in DOMAIN result'[x] : result'[x][i].err # ""
  <2> DEFINE Said(i) == Outcome(Why(i), <<>>)
  <2>1. \A i : Said(i).err # ""  BY <1>2 DEF Outcome
  <2> HIDE DEF Said
  <2>2. result'[x] = [i \in 1..job[x].tasks |-> Said(i)]  BY <1>1 DEF Said
  <2>3. DOMAIN result'[x] = 1..job[x].tasks /\ \A i \in 1..job[x].tasks : result'[x][i] = Said(i)
    BY <2>2, Zenon
  <2>4. job'[x].tasks = job[x].tasks  BY <1>1
  <2>5. \A i \in 1..job[x].tasks : result'[x][i].err # ""  BY <2>1, <2>3, Zenon
  <2> QED  BY <2>3, <2>4, <2>5, Zenon
<1>4. Copied(x)'  BY <1>1, <1>3 DEF Copied, Served
<1>5. \A y \in Contexts : y # x =>
        /\ pc'[y] = pc[y] /\ bmax'[y] = bmax[y] /\ base'[y] = base[y]
        /\ graph'[y] = graph[y] /\ rows'[y] = rows[y] /\ result'[y] = result[y]
  BY DEF Inv, TypeOK, Arrays, Caught
<1> QED  BY <1>1, <1>4, <1>5, CopiedRest

LEMMA CopiedNext == Inv /\ AllCopied /\ [Next]_vars => AllCopied'
<1> USE DEF settings
<1> SUFFICES ASSUME Inv, AllCopied, [Next]_vars PROVE AllCopied'
  OBVIOUS
<1>1. CASE UNCHANGED vars
  <2>1. UNCHANGED <<family, prec, flag, pc, job, bmax, base, graph, rows, result>>
    BY <1>1 DEF vars
  <2>2. ASSUME NEW y \in Contexts PROVE Copied(y)'
    BY <2>1, CopiedUntouched DEF AllCopied
  <2> QED  BY <2>2 DEF AllCopied
<1>2. CASE Next
  <2>1. PICK x \in Contexts :
          \/ Encode(x) \/ BadShape(x)
          \/ Shrink(x) \/ TooLarge(x) \/ Fits(x) \/ Malloc(x)
          \/ Begin(x) \/ GraphFails(x) \/ Compute(x) \/ Finish(x)
          \/ Throw(x) \/ ThrowInFinish(x)
    BY <1>2 DEF Next
  <2>2. CASE Encode(x)  BY <2>2, CopiedEncode
  <2>3. CASE BadShape(x)  BY <2>3, CopiedFail DEF BadShape
  <2>4. CASE Shrink(x)  BY <2>4, CopiedShrink
  <2>5. CASE TooLarge(x)  BY <2>5, CopiedFail DEF TooLarge
  <2>6. CASE Fits(x)  BY <2>6, CopiedFits
  <2>7. CASE Malloc(x)  BY <2>7, CopiedMalloc
  <2>8. CASE Begin(x)  BY <2>8, CopiedBegin
  <2>9. CASE GraphFails(x)  BY <2>9, CopiedFail DEF GraphFails
  <2>10. CASE Compute(x)  BY <2>10, CopiedCompute
  <2>11. CASE Finish(x)  BY <2>11, CopiedFinish
  <2>12. CASE Throw(x)  BY <2>12, CopiedCaught DEF Throw
  <2>13. CASE ThrowInFinish(x)  BY <2>13, CopiedCaught DEF ThrowInFinish
  <2> QED
    BY <2>1, <2>2, <2>3, <2>4, <2>5, <2>6, <2>7, <2>8, <2>9, <2>10, <2>11, <2>12, <2>13
<1> QED  BY <1>1, <1>2

\* However a batch is cut into graphs, whichever of its allocations, graphs and
\* poolings fail or throw and whatever other workers do, a task ends with an error or with all
\* the rows of its own pixels in their order (run_encode_batch, jepa_encode_image).
THEOREM TasksGetOwnRows == Spec => []TasksGetTheirRows
<1>1. AllCopied => TasksGetTheirRows  BY DEF AllCopied, Copied, Served, TasksGetTheirRows
<1>2. Init => Inv /\ AllCopied  BY InvInit, CopiedInit
<1>3. Inv /\ AllCopied /\ [Next]_vars => Inv' /\ AllCopied'  BY InvStep, CopiedNext
<1> QED  BY <1>1, <1>2, <1>3, PTL DEF Spec
=============================================================================
