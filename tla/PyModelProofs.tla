----------------------------- MODULE PyModelProofs -----------------------------
(***************************************************************************)
(* Safety of PyModel for any number of threads, methods and calls: the     *)
(* lock is held exactly by the frames that use the library or close it, so *)
(* that graphs run on live handles; and the error buffer a failed call     *)
(* quotes holds only its own messages and those of its callbacks' calls.   *)
(***************************************************************************)
EXTENDS PyModel, SequenceTheorems, TLAPS

Kinds == {"model", "context", "frame", "graph", "plan"}
Closing == {"close", "close context", "close model"}
Places == {"next", "fetched", "reading", "failed", "inside", "callback"} \cup Closing
Frame == [id : Nat, at : Places, left : Seq(Kinds), broken : BOOLEAN]

\* The places at which a frame holds the lock.
Holding == {"inside", "callback", "close context", "close model"}

(***************************************************************************)
(* The invariant, in parts.                                                *)
(***************************************************************************)
TypeInv ==
    /\ model \in {"none", "live", "freed", "twice"} /\ ctx \in {"none", "live", "freed", "twice"}
    /\ pyModel \in BOOLEAN /\ pyCtx \in BOOLEAN
    /\ phase \in {"new", "loaded", "ready", "failed"}
    /\ stack \in [Threads -> Seq(Frame)]
    /\ log \in [Threads -> SUBSET Nat]
    /\ holder \in Threads \cup {NoThread} /\ depth \in Nat
    /\ begun \in [Threads -> Nat]

\* All calls of a thread but the innermost are in a callback, close is none of the
\* callbacks' calls, and the calls are numbered in the order they were made.
Stacks ==
    \A t \in Threads : \A i \in 1..Len(stack[t]) :
        /\ i < Len(stack[t]) => stack[t][i].at = "callback"
        /\ stack[t][i].at \in Closing => i = 1
        /\ stack[t][i].at \notin Closing => stack[t][i].left # <<>>
        /\ stack[t][i].id <= begun[t]
        /\ \A j \in 1..Len(stack[t]) : i < j => stack[t][i].id < stack[t][j].id

\* How often a thread's calls hold the lock: each call around the innermost does.
Depth(t) ==
    IF stack[t] = <<>> THEN 0
    ELSE IF Top(t).at \in Holding THEN Len(stack[t]) ELSE Len(stack[t]) - 1

\* The lock counts the frames that hold it, and only its owner has any.
LockCounts ==
    /\ holder = NoThread => depth = 0
    /\ \A t \in Threads : IF holder = t THEN depth = Depth(t) /\ depth > 0 ELSE Depth(t) = 0

InLibrary(t) == \E i \in 1..Len(stack[t]) : stack[t][i].at \in {"inside", "callback"}
Closers(at) == \E t \in Threads : At(t, at)

\* What becomes of the handles between the steps of __init__ and close.
HandlesFit ==
    /\ phase # "ready" => \A t \in Threads : stack[t] = <<>>
    /\ phase = "new" => model = "none" /\ ctx = "none" /\ ~pyModel /\ ~pyCtx
    /\ phase = "loaded" => model = "live" /\ ctx = "none" /\ pyModel /\ ~pyCtx
    /\ phase = "failed" => model \in {"none", "freed"} /\ ctx = "none" /\ ~pyModel /\ ~pyCtx
    /\ phase = "ready" =>
         IF Closers("close model") THEN ~pyCtx /\ ctx = "freed" /\ model = "freed"
         ELSE /\ pyCtx = pyModel
              /\ model = IF pyModel THEN "live" ELSE "freed"
              /\ ctx = IF pyModel /\ ~Closers("close context") THEN "live" ELSE "freed"
    /\ \A t \in Threads : InLibrary(t) => pyModel /\ pyCtx

\* The calls whose buffer was emptied and not quoted yet.
Claims(f) ==
    \/ f.at \in {"inside", "callback", "failed"}
    \/ f.at = "reading" /\ Head(f.left) \in Reporting
LogsAreOwn ==
    \A t \in Threads : \A i \in 1..Len(stack[t]) :
        /\ Claims(stack[t][i]) => \A id \in log[t] : id >= stack[t][i].id
        /\ stack[t][i].at = "failed" => stack[t][i].id \in log[t]

PyInv == TypeInv /\ Stacks /\ LockCounts /\ HandlesFit /\ LogsAreOwn

-----------------------------------------------------------------------------
(***************************************************************************)
(* Stacks.                                                                 *)
(***************************************************************************)
LEMMA FrontLast ==
  ASSUME NEW S, NEW s \in Seq(S), s # <<>>
  PROVE  /\ Len(s) \in Nat /\ Len(s) >= 1
         /\ Front(s) \in Seq(S) /\ Len(Front(s)) = Len(s) - 1
         /\ \A i \in 1..(Len(s) - 1) : Front(s)[i] = s[i]
         /\ Last(s) = s[Len(s)] /\ Last(s) \in S
<1>1. Len(s) \in Nat /\ Len(s) >= 1
  <2>1. Len(s) \in Nat \ {0}  BY EmptySeq
  <2> QED  BY <2>1
<1>2. \A i \in 1..Len(s) : s[i] \in S  BY ElementOfSeq
<1> DEFINE n == Len(s) - 1
           p == SubSeq(s, 1, n)
<1>3. Front(s) = p  BY DEF Front
<1>4. n \in Nat /\ \A i \in 1..n : s[i] \in S  BY <1>1, <1>2
<1>5. /\ p \in Seq(S)
      /\ Len(p) = IF 1 <= n THEN n - 1 + 1 ELSE 0
      /\ \A i \in 1..(n - 1 + 1) : p[i] = s[1 + i - 1]
  <2> HIDE DEF n
  <2> QED  BY <1>4, SubSeqProperties
<1> HIDE DEF n, p
<1>6. \A i \in 1..n : Front(s)[i] = s[i]
  <2> TAKE i \in 1..n
  <2>1. i \in 1..(n - 1 + 1) /\ 1 + i - 1 = i  BY <1>4
  <2> QED  BY <1>3, <1>5, <2>1
<1>7. Len(Front(s)) = n  BY <1>3, <1>4, <1>5
<1>8. Last(s) = s[Len(s)]  BY DEF Last
<1> QED  BY <1>1, <1>2, <1>3, <1>5, <1>6, <1>7, <1>8 DEF n

\* The innermost call changes.
LEMMA TopChanges ==
  ASSUME NEW S, NEW s \in Seq(S), s # <<>>, NEW f \in S
  PROVE  LET u == Append(Front(s), f) IN
           /\ u \in Seq(S) /\ u # <<>> /\ Len(u) = Len(s)
           /\ \A i \in 1..Len(s) : u[i] = IF i = Len(s) THEN f ELSE s[i]
           /\ Last(u) = f
<1> DEFINE u == Append(Front(s), f)
<1>1. /\ Len(s) \in Nat /\ Len(s) >= 1 /\ Front(s) \in Seq(S) /\ Len(Front(s)) = Len(s) - 1
      /\ \A i \in 1..(Len(s) - 1) : Front(s)[i] = s[i]
  BY FrontLast
<1>2. /\ u \in Seq(S) /\ u # <<>> /\ Len(u) = (Len(s) - 1) + 1
      /\ \A i \in 1..(Len(s) - 1) : u[i] = Front(s)[i]
      /\ u[(Len(s) - 1) + 1] = f
  BY <1>1, AppendProperties
<1>3. Len(u) = Len(s) /\ u[Len(s)] = f  BY <1>1, <1>2
<1>4. \A i \in 1..Len(s) : u[i] = IF i = Len(s) THEN f ELSE s[i]
  <2> TAKE i \in 1..Len(s)
  <2>1. CASE i = Len(s)  BY <2>1, <1>3
  <2>2. CASE i # Len(s)
    <3>1. i \in 1..(Len(s) - 1)  BY <2>2, <1>1
    <3> QED  BY <3>1, <2>2, <1>1, <1>2
  <2> QED  BY <2>1, <2>2
<1>5. Last(u) = f  BY <1>3 DEF Last
<1> QED  BY <1>2, <1>3, <1>4, <1>5

-----------------------------------------------------------------------------
(***************************************************************************)
(* What a step of a thread does to its stack, its buffer and the lock.     *)
(***************************************************************************)
Turns(t, f) ==
    /\ stack[t] # <<>> /\ stack' = [stack EXCEPT ![t] = Append(Front(@), f)]
    /\ f.id = Top(t).id
    /\ f.at \in Closing => Top(t).at \in Closing
    /\ f.at \notin Closing => f.left # <<>>
    /\ UNCHANGED begun
Pops(t) ==
    /\ stack[t] # <<>> /\ stack' = [stack EXCEPT ![t] = Front(@)]
    /\ UNCHANGED begun
Pushes(t, f) ==
    /\ stack[t] = <<>> \/ (Top(t).at = "callback" /\ f.at \notin Closing)
    /\ stack' = [stack EXCEPT ![t] = Append(@, f)]
    /\ begun' = [begun EXCEPT ![t] = @ + 1] /\ f.id = begun[t] + 1
    /\ f.at \in {"next", "close"}
    /\ f.at \notin Closing => f.left # <<>>

\* The lock follows the call: taken when it begins to hold it, released when it stops.
LockMoves(t, was, is) ==
    \/ (was <=> is) /\ UNCHANGED <<holder, depth>>
    \/ ~was /\ is /\ Lock(t)
    \/ was /\ ~is /\ Unlock

Effect(t) ==
    \/ \E f \in Frame :
          /\ Turns(t, f)
          /\ \/ Reset(t) /\ f.at # "failed"
             \/ UNCHANGED log /\ f.at # "failed" /\ (Claims(f) => Claims(Top(t)))
             \/ Claims(Top(t)) /\ Report(t)
          /\ LockMoves(t, Top(t).at \in Holding, f.at \in Holding)
    \/ /\ Pops(t)
       /\ UNCHANGED log \/ Report(t)
       /\ LockMoves(t, Top(t).at \in Holding, FALSE)
    \/ \E f \in Frame : Pushes(t, f) /\ UNCHANGED <<log, holder, depth>>

LEMMA TopOf ==
  ASSUME TypeInv, Stacks, NEW t \in Threads, stack[t] # <<>>
  PROVE  /\ Len(stack[t]) \in Nat /\ Len(stack[t]) >= 1 /\ Top(t) = stack[t][Len(stack[t])] /\ Top(t) \in Frame
         /\ Top(t).at \in Closing => Len(stack[t]) = 1
         /\ Top(t).at \notin Closing => Top(t).left # <<>>
<1>1. stack[t] \in Seq(Frame)  BY DEF TypeInv
<1>2. /\ Len(stack[t]) \in Nat /\ Len(stack[t]) >= 1 /\ Last(stack[t]) = stack[t][Len(stack[t])]
      /\ Last(stack[t]) \in Frame
  BY <1>1, FrontLast
<1>3. Len(stack[t]) \in 1..Len(stack[t])  BY <1>2
<1> QED  BY <1>2, <1>3 DEF Top, Stacks

\* The other threads' stacks, buffers and counts stay.
LEMMA OthersStay ==
  ASSUME TypeInv, NEW t \in Threads, Effect(t)
  PROVE  \A u \in Threads \ {t} :
           stack'[u] = stack[u] /\ log'[u] = log[u] /\ begun'[u] = begun[u]
BY DEF TypeInv, Effect, Turns, Pops, Pushes, Reset, Report

\* A step of a thread keeps the types and the order of its calls.
LEMMA StackTurn ==
  ASSUME TypeInv, Stacks, NEW t \in Threads, NEW f \in Frame, Turns(t, f)
  PROVE  /\ stack' \in [Threads -> Seq(Frame)]
         /\ stack'[t] # <<>> /\ Len(stack'[t]) = Len(stack[t]) /\ Last(stack'[t]) = f
         /\ \A i \in 1..Len(stack[t]) :
              stack'[t][i] = IF i = Len(stack[t]) THEN f ELSE stack[t][i]
         /\ Stacks'
<1>1. stack[t] \in Seq(Frame) /\ stack[t] # <<>> /\ stack \in [Threads -> Seq(Frame)]
  BY DEF TypeInv, Turns
<1>2. /\ stack'[t] = Append(Front(stack[t]), f)
      /\ \A u \in Threads \ {t} : stack'[u] = stack[u]
  BY <1>1 DEF Turns
<1>3. /\ stack'[t] \in Seq(Frame) /\ stack'[t] # <<>> /\ Len(stack'[t]) = Len(stack[t])
      /\ \A i \in 1..Len(stack[t]) : stack'[t][i] = IF i = Len(stack[t]) THEN f ELSE stack[t][i]
      /\ Last(stack'[t]) = f
  BY <1>1, <1>2, TopChanges
<1>4. stack' \in [Threads -> Seq(Frame)]  BY <1>1, <1>2, <1>3 DEF Turns
<1>5. /\ Len(stack[t]) \in Nat /\ Len(stack[t]) >= 1 /\ Top(t) = stack[t][Len(stack[t])]
      /\ Top(t).at \in Closing => Len(stack[t]) = 1
  BY <1>1, TopOf
<1>6. Stacks'
  <2> SUFFICES ASSUME NEW u \in Threads, NEW i \in 1..Len(stack'[u])
               PROVE  /\ i < Len(stack'[u]) => stack'[u][i].at = "callback"
                      /\ stack'[u][i].at \in Closing => i = 1
                      /\ stack'[u][i].at \notin Closing => stack'[u][i].left # <<>>
                      /\ stack'[u][i].id <= begun'[u]
                      /\ \A k \in 1..Len(stack'[u]) : i < k => stack'[u][i].id < stack'[u][k].id
    BY DEF Stacks
  <2>0. begun' = begun  BY DEF Turns
  <2>1. CASE u # t  BY <2>1, <1>2, <2>0 DEF Stacks
  <2>2. CASE u = t
    <3>1. i \in 1..Len(stack[t]) /\ f.id = stack[t][Len(stack[t])].id  BY <2>2, <1>3, <1>5 DEF Turns
    <3>2. stack'[t][i].id = stack[t][i].id  BY <3>1, <1>3
    <3>3. \A k \in 1..Len(stack[t]) : stack'[t][k].id = stack[t][k].id  BY <3>1, <1>3
    <3>4. /\ stack[t][i].id <= begun[t]
          /\ \A k \in 1..Len(stack[t]) : i < k => stack[t][i].id < stack[t][k].id
          /\ i < Len(stack[t]) => stack[t][i].at = "callback"
          /\ stack[t][i].at \in Closing => i = 1
          /\ stack[t][i].at \notin Closing => stack[t][i].left # <<>>
      BY <3>1 DEF Stacks
    <3>5. CASE i = Len(stack[t])
      BY <3>5, <2>2, <2>0, <1>3, <1>5, <3>1, <3>2, <3>3, <3>4 DEF Turns
    <3>6. CASE i # Len(stack[t])
      <4>1. stack'[t][i] = stack[t][i]  BY <3>6, <3>1, <1>3
      <4> QED  BY <4>1, <2>2, <2>0, <1>3, <3>1, <3>3, <3>4
    <3> QED  BY <3>5, <3>6
  <2> QED  BY <2>1, <2>2
<1> QED  BY <1>3, <1>4, <1>6

LEMMA StackPop ==
  ASSUME TypeInv, Stacks, NEW t \in Threads, Pops(t)
  PROVE  /\ stack' \in [Threads -> Seq(Frame)]
         /\ Len(stack'[t]) = Len(stack[t]) - 1
         /\ \A i \in 1..Len(stack'[t]) : stack'[t][i] = stack[t][i] /\ stack'[t][i].at = "callback"
         /\ Stacks'
<1>1. stack[t] \in Seq(Frame) /\ stack[t] # <<>> /\ stack \in [Threads -> Seq(Frame)]
  BY DEF TypeInv, Pops
<1>2. stack'[t] = Front(stack[t]) /\ \A u \in Threads \ {t} : stack'[u] = stack[u]
  BY <1>1 DEF Pops
<1>3. /\ Len(stack[t]) \in Nat /\ Len(stack[t]) >= 1
      /\ stack'[t] \in Seq(Frame) /\ Len(stack'[t]) = Len(stack[t]) - 1
      /\ \A i \in 1..(Len(stack[t]) - 1) : stack'[t][i] = stack[t][i]
  <2>1. /\ Len(stack[t]) \in Nat /\ Len(stack[t]) >= 1
        /\ Front(stack[t]) \in Seq(Frame) /\ Len(Front(stack[t])) = Len(stack[t]) - 1
        /\ \A i \in 1..(Len(stack[t]) - 1) : Front(stack[t])[i] = stack[t][i]
    BY <1>1, FrontLast
  <2> QED  BY <1>2, <2>1
<1>4. stack' \in [Threads -> Seq(Frame)]  BY <1>1, <1>2, <1>3 DEF Pops
<1>5. \A i \in 1..Len(stack'[t]) :
        /\ i \in 1..Len(stack[t]) /\ i < Len(stack[t])
        /\ stack'[t][i] = stack[t][i] /\ stack'[t][i].at = "callback"
  <2> TAKE i \in 1..Len(stack'[t])
  <2>1. i \in 1..(Len(stack[t]) - 1) /\ i \in 1..Len(stack[t]) /\ i < Len(stack[t])  BY <1>3
  <2> QED  BY <2>1, <1>3 DEF Stacks
<1>6. Stacks'
  <2> SUFFICES ASSUME NEW u \in Threads, NEW i \in 1..Len(stack'[u])
               PROVE  /\ i < Len(stack'[u]) => stack'[u][i].at = "callback"
                      /\ stack'[u][i].at \in Closing => i = 1
                      /\ stack'[u][i].at \notin Closing => stack'[u][i].left # <<>>
                      /\ stack'[u][i].id <= begun'[u]
                      /\ \A k \in 1..Len(stack'[u]) : i < k => stack'[u][i].id < stack'[u][k].id
    BY DEF Stacks
  <2>0. begun' = begun  BY DEF Pops
  <2>1. CASE u # t  BY <2>1, <1>2, <2>0 DEF Stacks
  <2>2. CASE u = t  BY <2>2, <2>0, <1>5 DEF Stacks
  <2> QED  BY <2>1, <2>2
<1> QED  BY <1>3, <1>4, <1>5, <1>6

LEMMA StackPush ==
  ASSUME TypeInv, Stacks, NEW t \in Threads, NEW f \in Frame, Pushes(t, f)
  PROVE  /\ stack' \in [Threads -> Seq(Frame)] /\ begun' \in [Threads -> Nat]
         /\ stack'[t] # <<>> /\ Len(stack'[t]) = Len(stack[t]) + 1 /\ Last(stack'[t]) = f
         /\ stack'[t][Len(stack[t]) + 1] = f
         /\ \A i \in 1..Len(stack[t]) : stack'[t][i] = stack[t][i]
         /\ Stacks'
<1>1. /\ stack[t] \in Seq(Frame) /\ stack \in [Threads -> Seq(Frame)] /\ begun[t] \in Nat
      /\ begun \in [Threads -> Nat]
  BY DEF TypeInv
<1>2. /\ stack'[t] = Append(stack[t], f)
      /\ \A u \in Threads \ {t} : stack'[u] = stack[u] /\ begun'[u] = begun[u]
      /\ begun'[t] = begun[t] + 1
  BY <1>1 DEF Pushes
<1> DEFINE n == Len(stack[t])
<1>3. /\ n \in Nat
      /\ stack'[t] \in Seq(Frame) /\ stack'[t] # <<>> /\ Len(stack'[t]) = n + 1
      /\ \A i \in 1..n : stack'[t][i] = stack[t][i]
      /\ stack'[t][n + 1] = f
  <2>1. n \in Nat  BY <1>1, LenProperties
  <2> QED  BY <1>1, <1>2, <2>1, AppendProperties
<1>4. stack' \in [Threads -> Seq(Frame)] /\ begun' \in [Threads -> Nat]
  BY <1>1, <1>2, <1>3 DEF Pushes
<1>5. Last(stack'[t]) = f  BY <1>3 DEF Last
<1>6. \A i \in 1..n : stack[t][i].at = "callback"
  <2> SUFFICES ASSUME NEW i \in 1..n PROVE stack[t][i].at = "callback"
    OBVIOUS
  <2>1. stack[t] # <<>>  BY <1>1, EmptySeq
  <2>2. Top(t).at = "callback" /\ Top(t) = stack[t][n]  BY <2>1, TopOf DEF Pushes
  <2>3. i < n \/ i = n  BY <1>3
  <2> QED  BY <2>2, <2>3 DEF Stacks
<1>7. f.at \in Closing => n = 0
  <2>1. Len(<<>>) = 0  BY EmptySeq
  <2> QED  BY <2>1 DEF Pushes
<1>8. \A i \in 1..n : /\ stack[t][i].id \in Nat /\ stack[t][i].id <= begun[t]
                      /\ stack[t][i].at \in Closing => i = 1
                      /\ stack[t][i].at \notin Closing => stack[t][i].left # <<>>
                      /\ \A k \in 1..n : i < k => stack[t][i].id < stack[t][k].id
  <2>1. \A i \in 1..n : stack[t][i] \in Frame  BY <1>1, ElementOfSeq
  <2> QED  BY <2>1 DEF Stacks, Frame
<1>9. Stacks'
  <2> SUFFICES ASSUME NEW u \in Threads, NEW i \in 1..Len(stack'[u])
               PROVE  /\ i < Len(stack'[u]) => stack'[u][i].at = "callback"
                      /\ stack'[u][i].at \in Closing => i = 1
                      /\ stack'[u][i].at \notin Closing => stack'[u][i].left # <<>>
                      /\ stack'[u][i].id <= begun'[u]
                      /\ \A k \in 1..Len(stack'[u]) : i < k => stack'[u][i].id < stack'[u][k].id
    BY DEF Stacks
  <2>1. CASE u # t  BY <2>1, <1>2 DEF Stacks
  <2>2. CASE u = t
    <3> HIDE DEF n
    <3>0. Len(stack'[u]) = n + 1 /\ i \in 1..(n + 1) /\ f.id = begun[t] + 1
          /\ (f.at \notin Closing => f.left # <<>>)
      BY <2>2, <1>3 DEF Pushes
    <3>1. CASE i = n + 1
      BY <3>1, <3>0, <2>2, <1>1, <1>2, <1>3, <1>7
    <3>2. CASE i # n + 1
      <4>1. i \in 1..n /\ stack'[u][i] = stack[t][i]  BY <3>2, <3>0, <2>2, <1>3
      <4>2. \A k \in 1..(n + 1) : i < k => stack[t][i].id < stack'[u][k].id
        <5> TAKE k \in 1..(n + 1)
        <5>1. CASE k = n + 1  BY <5>1, <4>1, <3>0, <2>2, <1>1, <1>3, <1>8
        <5>2. CASE k # n + 1
          <6>1. k \in 1..n /\ stack'[u][k] = stack[t][k]  BY <5>2, <2>2, <1>3
          <6> QED  BY <6>1, <4>1, <1>8
        <5> QED  BY <5>1, <5>2
      <4>3. stack[t][i].id <= begun'[u]  BY <4>1, <1>8, <1>1, <1>2, <2>2
      <4> QED  BY <4>1, <4>2, <4>3, <3>0, <1>6, <1>8
    <3> QED  BY <3>1, <3>2
  <2> QED  BY <2>1, <2>2
<1> QED  BY <1>3, <1>4, <1>5, <1>9

-----------------------------------------------------------------------------
(***************************************************************************)
(* The lock counts the calls that hold it.                                 *)
(***************************************************************************)
LEMMA DepthType ==
  ASSUME TypeInv, Stacks, NEW t \in Threads
  PROVE  /\ Depth(t) \in Nat
         /\ stack[t] # <<>> => Len(stack[t]) - 1 <= Depth(t)
<1>1. CASE stack[t] = <<>>  BY <1>1 DEF Depth
<1>2. CASE stack[t] # <<>>
  <2>1. Len(stack[t]) \in Nat /\ Len(stack[t]) >= 1  BY <1>2, TopOf
  <2> QED  BY <1>2, <2>1 DEF Depth
<1> QED  BY <1>1, <1>2

LEMMA DepthMoves ==
  ASSUME TypeInv, Stacks, NEW t \in Threads, Effect(t)
  PROVE  \/ Depth(t)' = Depth(t) /\ UNCHANGED <<holder, depth>>
         \/ Depth(t)' = Depth(t) + 1 /\ Lock(t)
         \/ Depth(t)' = Depth(t) - 1 /\ Depth(t) > 0 /\ Unlock
<1>1. ASSUME NEW f \in Frame, Turns(t, f), LockMoves(t, Top(t).at \in Holding, f.at \in Holding)
      PROVE  \/ Depth(t)' = Depth(t) /\ UNCHANGED <<holder, depth>>
             \/ Depth(t)' = Depth(t) + 1 /\ Lock(t)
             \/ Depth(t)' = Depth(t) - 1 /\ Depth(t) > 0 /\ Unlock
  <2>1. /\ stack'[t] # <<>> /\ Len(stack'[t]) = Len(stack[t]) /\ Last(stack'[t]) = f
        /\ stack[t] # <<>>
    BY <1>1, StackTurn DEF Turns
  <2>2. Len(stack[t]) \in Nat /\ Len(stack[t]) >= 1  BY <2>1, TopOf
  <2>3. Depth(t)' = IF f.at \in Holding THEN Len(stack[t]) ELSE Len(stack[t]) - 1
    BY <2>1 DEF Depth, Top
  <2>4. Depth(t) = IF Top(t).at \in Holding THEN Len(stack[t]) ELSE Len(stack[t]) - 1
    BY <2>1 DEF Depth
  <2>5. CASE Top(t).at \in Holding /\ f.at \in Holding
    BY <2>2, <2>3, <2>4, <2>5, <1>1 DEF LockMoves
  <2>6. CASE Top(t).at \in Holding /\ f.at \notin Holding
    BY <2>2, <2>3, <2>4, <2>6, <1>1 DEF LockMoves
  <2>7. CASE Top(t).at \notin Holding /\ f.at \in Holding
    BY <2>2, <2>3, <2>4, <2>7, <1>1 DEF LockMoves
  <2>8. CASE Top(t).at \notin Holding /\ f.at \notin Holding
    BY <2>2, <2>3, <2>4, <2>8, <1>1 DEF LockMoves
  <2> QED  BY <2>5, <2>6, <2>7, <2>8
<1>2. ASSUME Pops(t), LockMoves(t, Top(t).at \in Holding, FALSE)
      PROVE  \/ Depth(t)' = Depth(t) /\ UNCHANGED <<holder, depth>>
             \/ Depth(t)' = Depth(t) - 1 /\ Depth(t) > 0 /\ Unlock
  <2>1. /\ Len(stack'[t]) = Len(stack[t]) - 1 /\ stack' \in [Threads -> Seq(Frame)]
        /\ \A i \in 1..Len(stack'[t]) : stack'[t][i].at = "callback"
        /\ stack[t] # <<>>
    BY <1>2, StackPop DEF Pops
  <2>2. Len(stack[t]) \in Nat /\ Len(stack[t]) >= 1  BY <2>1, TopOf
  <2>3. Depth(t)' = Len(stack[t]) - 1
    <3>1. CASE stack'[t] = <<>>
      <4>1. Len(stack'[t]) = 0  BY <3>1, EmptySeq
      <4> QED  BY <3>1, <4>1, <2>1 DEF Depth
    <3>2. CASE stack'[t] # <<>>
      <4>1. stack'[t] \in Seq(Frame)  BY <2>1
      <4>2. /\ Len(stack'[t]) \in Nat /\ Len(stack'[t]) >= 1
            /\ Last(stack'[t]) = stack'[t][Len(stack'[t])]
        BY <4>1, <3>2, FrontLast
      <4>3. Last(stack'[t]).at = "callback"  BY <4>2, <2>1
      <4> QED  BY <3>2, <4>3, <2>1 DEF Depth, Top, Holding
    <3> QED  BY <3>1, <3>2
  <2>4. Depth(t) = IF Top(t).at \in Holding THEN Len(stack[t]) ELSE Len(stack[t]) - 1
    BY <2>1 DEF Depth
  <2> QED  BY <2>2, <2>3, <2>4, <1>2 DEF LockMoves
<1>3. ASSUME NEW f \in Frame, Pushes(t, f)
      PROVE  Depth(t)' = Depth(t)
  <2>1. /\ stack'[t] # <<>> /\ Len(stack'[t]) = Len(stack[t]) + 1 /\ Last(stack'[t]) = f
    BY <1>3, StackPush
  <2>2. f.at \notin Holding  BY <1>3 DEF Pushes, Holding
  <2>3. Len(stack[t]) \in Nat  BY LenProperties DEF TypeInv
  <2>4. Depth(t)' = Len(stack[t])  BY <2>1, <2>2, <2>3 DEF Depth, Top
  <2>5. Depth(t) = Len(stack[t])
    <3>1. Len(<<>>) = 0  BY EmptySeq
    <3> QED  BY <3>1, <1>3 DEF Depth, Pushes, Holding
  <2> QED  BY <2>4, <2>5
<1> QED  BY <1>1, <1>2, <1>3 DEF Effect

LEMMA LockCountsNext ==
  ASSUME NoThread \notin Threads, TypeInv, Stacks, LockCounts, NEW t \in Threads, Effect(t)
  PROVE  LockCounts' /\ holder' \in Threads \cup {NoThread} /\ depth' \in Nat
<1>1. \A u \in Threads \ {t} : Depth(u)' = Depth(u)  BY OthersStay DEF Depth, Top
<1>2. \A u \in Threads : Depth(u) \in Nat  BY DepthType
<1>3. depth \in Nat /\ holder \in Threads \cup {NoThread}  BY DEF TypeInv
<1> QED  BY <1>1, <1>2, <1>3, DepthMoves DEF LockCounts, Lock, Available, Unlock

-----------------------------------------------------------------------------
(***************************************************************************)
(* The error buffers.                                                      *)
(***************************************************************************)
LEMMA LogsNext ==
  ASSUME TypeInv, Stacks, LogsAreOwn, NEW t \in Threads, Effect(t)
  PROVE  LogsAreOwn' /\ log' \in [Threads -> SUBSET Nat]
<1>1. /\ log \in [Threads -> SUBSET Nat] /\ begun \in [Threads -> Nat]
      /\ \A u \in Threads : stack[u] \in Seq(Frame)
  BY DEF TypeInv
<1>2. \A u \in Threads : \A i \in 1..Len(stack[u]) : stack[u][i] \in Frame /\ stack[u][i].id \in Nat
  <2>1. \A u \in Threads : \A i \in 1..Len(stack[u]) : stack[u][i] \in Frame
    BY <1>1, ElementOfSeq
  <2>2. \A f \in Frame : f.id \in Nat  BY DEF Frame
  <2> QED  BY <2>1, <2>2
<1>3. stack[t] # <<>> => Top(t).id \in Nat  BY TopOf DEF Frame
<1>4. log' \in [Threads -> SUBSET Nat]
  BY <1>1, <1>3 DEF Effect, Turns, Pops, Reset, Report
\* Whatever becomes of a call that is on the stack before and after the step:
<1>5. stack[t] # <<>> => \A i \in 1..Len(stack[t]) :
        /\ i # Len(stack[t]) => stack[t][i].at = "callback" /\ stack[t][i].id < Top(t).id
        /\ i = Len(stack[t]) => stack[t][i] = Top(t)
  <2> SUFFICES ASSUME stack[t] # <<>>, NEW i \in 1..Len(stack[t])
               PROVE  /\ i # Len(stack[t]) => stack[t][i].at = "callback" /\ stack[t][i].id < Top(t).id
                      /\ i = Len(stack[t]) => stack[t][i] = Top(t)
    OBVIOUS
  <2>1. Len(stack[t]) \in Nat /\ Len(stack[t]) >= 1 /\ Top(t) = stack[t][Len(stack[t])]
    BY TopOf
  <2>2. Len(stack[t]) \in 1..Len(stack[t])  BY <2>1
  <2> QED  BY <2>1, <2>2 DEF Stacks
<1> DEFINE Own(frame, ids) == /\ Claims(frame) => \A id \in ids : id >= frame.id
                              /\ frame.at = "failed" => frame.id \in ids
<1>6. \A u \in Threads : \A i \in 1..Len(stack[u]) : Own(stack[u][i], log[u])
  BY DEF LogsAreOwn
<1>7. ASSUME NEW f \in Frame, Turns(t, f),
             \/ Reset(t) /\ f.at # "failed"
             \/ UNCHANGED log /\ f.at # "failed" /\ (Claims(f) => Claims(Top(t)))
             \/ Claims(Top(t)) /\ Report(t)
      PROVE  \A i \in 1..Len(stack'[t]) : Own(stack'[t][i], log'[t])
  <2> TAKE i \in 1..Len(stack'[t])
  <2>1. /\ i \in 1..Len(stack[t]) /\ stack[t] # <<>> /\ f.id = Top(t).id
        /\ stack'[t][i] = IF i = Len(stack[t]) THEN f ELSE stack[t][i]
    BY <1>7, StackTurn DEF Turns
  <2>2. \/ log'[t] = {} /\ f.at # "failed"
        \/ log'[t] = log[t] /\ f.at # "failed" /\ (Claims(f) => Claims(Top(t)))
        \/ Claims(Top(t)) /\ log'[t] = log[t] \cup {Top(t).id}
    <3>1. CASE Reset(t) /\ f.at # "failed"  BY <3>1, <1>1 DEF Reset
    <3>2. CASE UNCHANGED log /\ f.at # "failed" /\ (Claims(f) => Claims(Top(t)))  BY <3>2
    <3>3. CASE Claims(Top(t)) /\ Report(t)
      <4>1. log'[t] = log[t] \cup {Top(t).id}  BY <3>3, <1>1 DEF Report
      <4> QED  BY <3>3, <4>1
    <3> QED  BY <3>1, <3>2, <3>3, <1>7
  <2>3. Own(stack[t][i], log[t])  BY <2>1, <1>6
  <2>4. CASE i = Len(stack[t])
    <3>1. stack'[t][i] = f /\ stack[t][i] = Top(t)  BY <2>1, <2>4, <1>5
    <3> QED  BY <3>1, <2>1, <2>2, <2>3, <1>3
  <2>5. CASE i # Len(stack[t])
    <3>1. /\ stack'[t][i] = stack[t][i] /\ stack[t][i].at = "callback"
          /\ stack[t][i].id < Top(t).id
      BY <2>1, <2>5, <1>5
    <3>2. \A id \in log'[t] : id \in log[t] \/ id = Top(t).id  BY <2>2
    <3>3. Claims(stack[t][i])  BY <3>1 DEF Claims
    <3>4. \A id \in log'[t] : id >= stack[t][i].id  BY <3>1, <3>2, <3>3, <2>3, <2>1, <1>2, <1>3
    <3> QED  BY <3>1, <3>4
  <2> QED  BY <2>4, <2>5
<1>8. ASSUME Pops(t), UNCHANGED log \/ Report(t)
      PROVE  \A i \in 1..Len(stack'[t]) : Own(stack'[t][i], log'[t])
  <2> TAKE i \in 1..Len(stack'[t])
  <2>1. /\ stack'[t][i] = stack[t][i] /\ stack[t][i].at = "callback" /\ stack[t] # <<>>
        /\ Len(stack'[t]) = Len(stack[t]) - 1
    <3>1. /\ \A k \in 1..Len(stack'[t]) : stack'[t][k] = stack[t][k] /\ stack'[t][k].at = "callback"
          /\ Len(stack'[t]) = Len(stack[t]) - 1
      BY <1>8, StackPop
    <3>2. stack[t] # <<>>  BY <1>8 DEF Pops
    <3>3. stack'[t][i] = stack[t][i] /\ stack'[t][i].at = "callback"  BY <3>1
    <3> QED  BY <3>1, <3>2, <3>3
  <2>2. Len(stack[t]) \in Nat  BY <1>1, LenProperties
  <2>3. i \in 1..Len(stack[t]) /\ i # Len(stack[t])  BY <2>1, <2>2
  <2>4. \A id \in log'[t] : id \in log[t] \/ id = Top(t).id  BY <1>8, <1>1 DEF Report
  <2>5. Claims(stack[t][i]) /\ Own(stack[t][i], log[t])  BY <2>1, <2>3, <1>6 DEF Claims
  <2>6. \A id \in log'[t] : id >= stack[t][i].id  BY <2>1, <2>3, <2>4, <2>5, <1>2, <1>3, <1>5
  <2> QED  BY <2>1, <2>6
<1>9. ASSUME NEW f \in Frame, Pushes(t, f), UNCHANGED log
      PROVE  \A i \in 1..Len(stack'[t]) : Own(stack'[t][i], log'[t])
  <2> TAKE i \in 1..Len(stack'[t])
  <2>1. /\ Len(stack'[t]) = Len(stack[t]) + 1 /\ stack'[t][Len(stack[t]) + 1] = f
        /\ \A k \in 1..Len(stack[t]) : stack'[t][k] = stack[t][k]
    BY <1>9, StackPush
  <2>2. Len(stack[t]) \in Nat  BY <1>1, LenProperties
  <2>3. CASE i = Len(stack[t]) + 1  BY <2>1, <2>3, <1>9 DEF Pushes, Claims
  <2>4. CASE i # Len(stack[t]) + 1
    <3>1. i \in 1..Len(stack[t])  BY <2>4, <2>1, <2>2
    <3> QED  BY <3>1, <2>1, <1>6, <1>9
  <2> QED  BY <2>3, <2>4
<1>10. \A i \in 1..Len(stack'[t]) : Own(stack'[t][i], log'[t])
  BY <1>7, <1>8, <1>9 DEF Effect
<1>11. \A u \in Threads : \A i \in 1..Len(stack'[u]) : Own(stack'[u][i], log'[u])
  BY <1>6, <1>10, OthersStay
<1>12. LogsAreOwn'  BY <1>11 DEF LogsAreOwn, Claims
<1> QED  BY <1>4, <1>12

\* All of the invariant but the handles.
LEMMA EffectKeeps ==
  ASSUME TypeInv, Stacks, LockCounts, LogsAreOwn, NEW t \in Threads, Effect(t)
  PROVE  /\ stack' \in [Threads -> Seq(Frame)] /\ log' \in [Threads -> SUBSET Nat]
         /\ holder' \in Threads \cup {NoThread} /\ depth' \in Nat /\ begun' \in [Threads -> Nat]
         /\ Stacks' /\ LockCounts' /\ LogsAreOwn'
<1>1. LockCounts' /\ holder' \in Threads \cup {NoThread} /\ depth' \in Nat
  BY LockCountsNext, PyAssumption
<1>2. LogsAreOwn' /\ log' \in [Threads -> SUBSET Nat]  BY LogsNext
<1>3. Stacks' /\ stack' \in [Threads -> Seq(Frame)] /\ begun' \in [Threads -> Nat]
  <2>1. ASSUME NEW f \in Frame, Turns(t, f)
        PROVE  Stacks' /\ stack' \in [Threads -> Seq(Frame)] /\ begun' \in [Threads -> Nat]
    BY <2>1, StackTurn DEF TypeInv, Turns
  <2>2. ASSUME Pops(t)
        PROVE  Stacks' /\ stack' \in [Threads -> Seq(Frame)] /\ begun' \in [Threads -> Nat]
    BY <2>2, StackPop DEF TypeInv, Pops
  <2>3. ASSUME NEW f \in Frame, Pushes(t, f)
        PROVE  Stacks' /\ stack' \in [Threads -> Seq(Frame)] /\ begun' \in [Threads -> Nat]
    BY <2>3, StackPush
  <2> QED  BY <2>1, <2>2, <2>3 DEF Effect
<1> QED  BY <1>1, <1>2, <1>3

-----------------------------------------------------------------------------
(***************************************************************************)
(* Every step of a thread has such an effect.                              *)
(***************************************************************************)

\* Every method has sections of the known kinds, and at least one.
LEMMA SectionKinds ==
  ASSUME NEW m \in DOMAIN Sections
  PROVE  Sections[m] \in Seq(Kinds) /\ Sections[m] # <<>>
<1> DEFINE Fits(s) == s \in Seq(Kinds) /\ s # <<>>
<1>1. ASSUME NEW s, NEW u, Fits(s), Fits(u) PROVE Fits(s \o u)
  <2>1. s \o u \in Seq(Kinds)  BY <1>1, ConcatProperties
  <2>2. s \o u # <<>>  BY <1>1, ConcatEqualIffEmpty
  <2> QED  BY <2>1, <2>2
<1>2. /\ Fits(<<"model">>) /\ Fits(<<"context">>) /\ Fits(<<"graph">>) /\ Fits(<<"frame">>)
      /\ Fits(<<"model", "frame">>) /\ Fits(<<"graph", "graph">>) /\ Fits(<<"model", "model">>)
      /\ Fits(<<"graph", "model">>) /\ Fits(<<"graph", "model", "graph">>)
      /\ Fits(<<"model", "model", "plan">>)
  BY DEF Kinds
<1> HIDE DEF Fits
<1>3. Fits(introspection) /\ Fits(settings) /\ Fits(token_grid) /\ Fits(preprocess)
      /\ Fits(pool) /\ Fits(predict) /\ Fits(lewm) /\ Fits(hjepa_reads) /\ Fits(hjepa_call)
      /\ Fits(hjepa_horizons) /\ Fits(hjepa_plan_cost) /\ Fits(hjepa_solve) /\ Fits(hjepa_plan)
  BY <1>2 DEF introspection, settings, token_grid, preprocess, pool, predict, lewm, hjepa_reads,
              hjepa_call, hjepa_horizons, hjepa_plan_cost, hjepa_solve, hjepa_plan
<1>4. Fits(encode)  BY <1>1, <1>2, <1>3 DEF encode
<1>5. Fits(classify)
  <2>1. Fits(<<"model">> \o preprocess)  BY <1>1, <1>2, <1>3
  <2> QED  BY <2>1, <1>1, <1>2 DEF classify
<1>6. Fits(hjepa_embed)  BY <1>1, <1>2, <1>3 DEF hjepa_embed
<1>7. Fits(hjepa_states)
  <2>1. Fits(preprocess \o <<"graph", "model">>)  BY <1>1, <1>2, <1>3
  <2>2. Fits((preprocess \o <<"graph", "model">>) \o hjepa_embed)  BY <1>1, <1>6, <2>1
  <2>3. Fits(((preprocess \o <<"graph", "model">>) \o hjepa_embed) \o <<"model">>)
    BY <1>1, <1>2, <2>2
  <2> QED  BY <1>1, <1>3, <2>3 DEF hjepa_states
<1>8. Fits(Sections[m])
  <2> USE DEF Sections
  <2>1. m \in {"introspection", "settings", "token_grid", "preprocess", "encode", "pool", "classify",
               "predict", "lewm", "hjepa_reads", "hjepa_call", "hjepa_embed", "hjepa_states",
               "hjepa_horizons", "hjepa_plan_cost", "hjepa_solve", "hjepa_plan"}
    OBVIOUS
  <2> QED  BY <2>1, <1>3, <1>4, <1>5, <1>6, <1>7
<1> QED  BY <1>8 DEF Fits

LEMMA FrameUpdates ==
  ASSUME NEW f \in Frame
  PROVE  /\ \A at \in Places : LET g == [f EXCEPT !.at = at] IN
              g \in Frame /\ g.at = at /\ g.id = f.id /\ g.left = f.left
         /\ \A broken \in BOOLEAN : LET g == [f EXCEPT !.at = "inside", !.broken = broken] IN
              g \in Frame /\ g.at = "inside" /\ g.id = f.id /\ g.left = f.left
BY DEF Frame, Places

\* A call that goes on at another place.
LEMMA TurnIs ==
  ASSUME TypeInv, Stacks, NEW t \in Threads, stack[t] # <<>>, NEW at \in Places, Turn(t, at),
         UNCHANGED begun, at \in Closing <=> Top(t).at \in Closing
  PROVE  \E f \in Frame : Turns(t, f) /\ f.at = at /\ f.left = Top(t).left
<1> DEFINE f == [Top(t) EXCEPT !.at = at]
<1>1. Top(t) \in Frame /\ (Top(t).at \notin Closing => Top(t).left # <<>>)  BY TopOf
<1>2. f \in Frame /\ f.at = at /\ f.id = Top(t).id /\ f.left = Top(t).left
  BY <1>1, FrameUpdates
<1>3. stack' = [stack EXCEPT ![t] = Append(Front(@), f)]  BY DEF Turn, Becomes
<1> HIDE DEF f
<1> QED  BY <1>1, <1>2, <1>3 DEF Turns

\* A section that is over.
LEMMA ProceedIs ==
  ASSUME TypeInv, Stacks, NEW t \in Threads, stack[t] # <<>>, Proceed(t), UNCHANGED begun,
         Top(t).at \notin Closing
  PROVE  Pops(t) \/ \E f \in Frame : Turns(t, f) /\ f.at = "next"
<1> DEFINE f == [Top(t) EXCEPT !.at = "next", !.left = Tail(Top(t).left)]
<1>1. Top(t) \in Frame /\ Top(t).left # <<>> /\ Top(t).left \in Seq(Kinds)
  BY TopOf DEF Frame
<1>2. Tail(Top(t).left) \in Seq(Kinds) /\ Len(Tail(Top(t).left)) = Len(Top(t).left) - 1
  BY <1>1, HeadTailProperties
<1>3. f \in Frame /\ f.at = "next" /\ f.id = Top(t).id /\ f.left = Tail(Top(t).left)
  <2>1. ASSUME NEW top \in Frame, NEW left \in Seq(Kinds)
        PROVE  LET g == [top EXCEPT !.at = "next", !.left = left] IN
                 g \in Frame /\ g.at = "next" /\ g.id = top.id /\ g.left = left
    BY <2>1 DEF Frame, Places
  <2> QED  BY <1>1, <1>2, <2>1
<1>4. CASE Len(Top(t).left) = 1  BY <1>4 DEF Proceed, Pop, Pops
<1>5. CASE Len(Top(t).left) # 1
  <2>1. Len(Top(t).left) \in Nat /\ Len(Top(t).left) >= 1  BY <1>1, FrontLast
  <2>2. Len(<<>>) = 0  BY EmptySeq
  <2>3. Tail(Top(t).left) # <<>>
    <3>1. Len(Tail(Top(t).left)) # 0  BY <2>1, <1>2, <1>5
    <3> QED  BY <3>1, <2>2
  <2>4. stack' = [stack EXCEPT ![t] = Append(Front(@), f)]
    BY <1>5 DEF Proceed, Becomes
  <2> HIDE DEF f
  <2>5. Turns(t, f)  BY <2>3, <2>4, <1>3 DEF Turns, Closing
  <2> QED  BY <2>5, <1>3
<1> QED  BY <1>4, <1>5

\* Where the thread is afterwards, seen from close: not closing, before or after, and
\* in the library only if it was or the handles are there.
Quiet(t) ==
    /\ \A at \in {"close context", "close model"} : ~At(t, at) /\ ~At(t, at)'
    /\ InLibrary(t)' => InLibrary(t) \/ (pyModel /\ pyCtx)

LEMMA QuietTurn ==
  ASSUME TypeInv, Stacks, NEW t \in Threads, NEW f \in Frame, Turns(t, f),
         Top(t).at \notin Closing,
         f.at \in {"inside", "callback"} =>
            Top(t).at \in {"inside", "callback"} \/ (pyModel /\ pyCtx)
  PROVE  Quiet(t)
<1>1. /\ stack'[t] # <<>> /\ Len(stack'[t]) = Len(stack[t]) /\ Last(stack'[t]) = f
      /\ \A i \in 1..Len(stack[t]) : stack'[t][i] = IF i = Len(stack[t]) THEN f ELSE stack[t][i]
  BY StackTurn
<1>2. Len(stack[t]) \in Nat /\ Len(stack[t]) >= 1 /\ Top(t) = stack[t][Len(stack[t])]
  BY TopOf DEF Turns
<1>3. \A at \in {"close context", "close model"} : ~At(t, at) /\ ~At(t, at)'
  BY <1>1 DEF Turns, At, Top, Closing
<1>4. ASSUME InLibrary(t)' PROVE InLibrary(t) \/ (pyModel /\ pyCtx)
  <2>1. PICK i \in 1..Len(stack[t]) : stack'[t][i].at \in {"inside", "callback"}
    BY <1>1, <1>4 DEF InLibrary
  <2>2. CASE i = Len(stack[t])
    <3>1. f.at \in {"inside", "callback"}  BY <2>1, <2>2, <1>1
    <3>2. Len(stack[t]) \in 1..Len(stack[t])  BY <1>2
    <3> QED  BY <3>1, <3>2, <1>2 DEF InLibrary
  <2>3. CASE i # Len(stack[t])  BY <2>1, <2>3, <1>1 DEF InLibrary
  <2> QED  BY <2>2, <2>3
<1> QED  BY <1>3, <1>4 DEF Quiet

\* After a return the thread is in a callback or in nothing.
LEMMA PopPlaces ==
  ASSUME TypeInv, Stacks, NEW t \in Threads, Pops(t)
  PROVE  /\ \A at \in {"close context", "close model"} : ~At(t, at)'
         /\ InLibrary(t)' => InLibrary(t)
<1>1. /\ Len(stack'[t]) = Len(stack[t]) - 1 /\ stack' \in [Threads -> Seq(Frame)]
      /\ \A i \in 1..Len(stack'[t]) : stack'[t][i] = stack[t][i] /\ stack'[t][i].at = "callback"
  BY StackPop
<1>2. Len(stack[t]) \in Nat /\ Len(stack[t]) >= 1  BY TopOf DEF Pops
<1>3. stack'[t] # <<>> => Last(stack'[t]).at = "callback"
  <2>1. stack'[t] \in Seq(Frame)  BY <1>1
  <2>2. stack'[t] # <<>> => /\ Len(stack'[t]) \in Nat /\ Len(stack'[t]) >= 1
                           /\ Last(stack'[t]) = stack'[t][Len(stack'[t])]
    BY <2>1, FrontLast
  <2> QED  BY <2>2, <1>1
<1>4. ASSUME InLibrary(t)' PROVE InLibrary(t)
  <2>1. PICK i \in 1..Len(stack'[t]) : stack'[t][i].at \in {"inside", "callback"}
    BY <1>4 DEF InLibrary
  <2>2. i \in 1..Len(stack[t]) /\ stack'[t][i] = stack[t][i]  BY <2>1, <1>1, <1>2
  <2> QED  BY <2>1, <2>2 DEF InLibrary
<1> QED  BY <1>3, <1>4 DEF At, Top

LEMMA QuietPush ==
  ASSUME TypeInv, Stacks, NEW t \in Threads, NEW f \in Frame, Pushes(t, f)
  PROVE  Quiet(t)
<1>1. /\ stack'[t] # <<>> /\ Len(stack'[t]) = Len(stack[t]) + 1 /\ Last(stack'[t]) = f
      /\ stack'[t][Len(stack[t]) + 1] = f
      /\ \A i \in 1..Len(stack[t]) : stack'[t][i] = stack[t][i]
  BY StackPush
<1>2. Len(stack[t]) \in Nat  BY LenProperties DEF TypeInv
<1>3. \A at \in {"close context", "close model"} : ~At(t, at) /\ ~At(t, at)'
  BY <1>1 DEF Pushes, At, Top
<1>4. ASSUME InLibrary(t)' PROVE InLibrary(t)
  <2>1. PICK i \in 1..Len(stack'[t]) : stack'[t][i].at \in {"inside", "callback"}
    BY <1>4 DEF InLibrary
  <2>2. i # Len(stack[t]) + 1  BY <2>1, <1>1 DEF Pushes
  <2>3. i \in 1..Len(stack[t]) /\ stack'[t][i] = stack[t][i]  BY <2>1, <2>2, <1>1, <1>2
  <2> QED  BY <2>1, <2>3 DEF InLibrary
<1> QED  BY <1>3, <1>4 DEF Quiet

Ordinary(t) == Effect(t) /\ Quiet(t) /\ UNCHANGED <<handles, phase>>

LEMMA OrdinaryStart ==
  ASSUME TypeInv, Stacks, NEW t \in Threads, Call(t) \/ Close(t)
  PROVE  Ordinary(t)
<1> DEFINE frame(at, left) == [id |-> begun[t] + 1, at |-> at, left |-> left, broken |-> FALSE]
<1>1. \A at \in Places, left \in Seq(Kinds) :
        /\ frame(at, left) \in Frame /\ frame(at, left).id = begun[t] + 1
        /\ frame(at, left).at = at /\ frame(at, left).left = left
  BY DEF Frame, TypeInv
<1>2. \E at \in Places, left \in Seq(Kinds) :
        Pushes(t, frame(at, left)) /\ UNCHANGED <<handles, phase, log, holder, depth>>
  <2>1. CASE Call(t)
    <3>1. PICK m \in Methods : /\ Starts(t, m) /\ Push(t, "next", Sections[m])
                               /\ UNCHANGED <<handles, phase, log, holder, depth>>
      BY <2>1 DEF Call
    <3>2. Sections[m] \in Seq(Kinds) /\ Sections[m] # <<>>  BY SectionKinds, PyAssumption
    <3>3. "next" \in Places  BY DEF Places
    <3>4. Pushes(t, frame("next", Sections[m]))
      BY <3>1, <3>2, <3>3, <1>1 DEF Pushes, Starts, Push, At, Closing
    <3> QED  BY <3>1, <3>2, <3>3, <3>4
  <2>2. CASE Close(t)
    <3>1. Starts(t, "close") /\ Push(t, "close", <<>>) /\ UNCHANGED <<handles, phase, log, holder, depth>>
      BY <2>2 DEF Close
    <3>2. stack[t] = <<>>  BY <3>1, PyAssumption DEF Starts
    <3>3. "close" \in Places /\ <<>> \in Seq(Kinds)  BY EmptySeq DEF Places, Closing
    <3>4. Pushes(t, frame("close", <<>>))
      BY <3>1, <3>2, <3>3, <1>1 DEF Pushes, Starts, Push, Closing
    <3> QED  BY <3>1, <3>3, <3>4
  <2> QED  BY <2>1, <2>2
<1> HIDE DEF frame
<1>3. PICK f \in Frame : Pushes(t, f) /\ UNCHANGED <<handles, phase, log, holder, depth>>
  BY <1>1, <1>2
<1> QED  BY <1>3, QuietPush DEF Ordinary, Effect

\* The steps that neither begin nor close.
LEMMA OrdinaryTurn ==
  ASSUME TypeInv, Stacks, NEW t \in Threads, NEW f \in Frame, Turns(t, f),
         Top(t).at \notin Closing,
         f.at \in {"inside", "callback"} =>
            Top(t).at \in {"inside", "callback"} \/ (pyModel /\ pyCtx),
         \/ Reset(t) /\ f.at # "failed"
         \/ UNCHANGED log /\ f.at # "failed" /\ (Claims(f) => Claims(Top(t)))
         \/ Claims(Top(t)) /\ Report(t),
         LockMoves(t, Top(t).at \in Holding, f.at \in Holding),
         UNCHANGED <<handles, phase>>
  PROVE  Ordinary(t)
BY QuietTurn DEF Ordinary, Effect

LEMMA OrdinaryPop ==
  ASSUME TypeInv, Stacks, NEW t \in Threads, Pops(t), Top(t).at \notin Closing,
         UNCHANGED log \/ Report(t),
         LockMoves(t, Top(t).at \in Holding, FALSE),
         UNCHANGED <<handles, phase>>
  PROVE  Ordinary(t)
<1>1. Quiet(t)
  BY PopPlaces DEF Quiet, At, Closing, Pops
<1> QED  BY <1>1 DEF Ordinary, Effect

LEMMA OrdinaryRead ==
  ASSUME TypeInv, Stacks, NEW t \in Threads, Fetch(t) \/ Read(t) \/ ReadReturns(t) \/ Raise(t)
  PROVE  Ordinary(t)
<1> USE DEF Places, Closing
<1>0. stack[t] # <<>> /\ UNCHANGED begun
  BY DEF Fetch, Read, ReadReturns, Raise, At
<1>1. CASE Fetch(t)
  <2>1. Top(t).at = "next" /\ UNCHANGED <<handles, phase, log, holder, depth>>
    BY <1>1 DEF Fetch, At
  <2>2. CASE Turn(t, "fetched")
    <3>1. PICK f \in Frame : Turns(t, f) /\ f.at = "fetched"  BY <1>0, <2>1, <2>2, TurnIs
    <3>2. LockMoves(t, Top(t).at \in Holding, f.at \in Holding)
      BY <2>1, <3>1 DEF LockMoves, Holding
    <3>3. ~Claims(f)  BY <3>1 DEF Claims
    <3> QED  BY <2>1, <3>1, <3>2, <3>3, OrdinaryTurn
  <2>3. CASE Pop(t)
    <3>1. LockMoves(t, Top(t).at \in Holding, FALSE)  BY <2>1 DEF LockMoves, Holding
    <3>2. Pops(t)  BY <1>0, <2>3 DEF Pop, Pops
    <3> QED  BY <2>1, <3>1, <3>2, OrdinaryPop
  <2> QED  BY <1>1, <2>2, <2>3 DEF Fetch
<1>2. CASE Read(t)
  <2>1. /\ Top(t).at = "fetched" /\ Turn(t, "reading") /\ UNCHANGED <<handles, phase, holder, depth>>
        /\ IF Section(t) \in Reporting THEN Reset(t) ELSE UNCHANGED log
    BY <1>2 DEF Read, At
  <2>2. PICK f \in Frame : Turns(t, f) /\ f.at = "reading" /\ f.left = Top(t).left
    BY <1>0, <2>1, TurnIs
  <2>3. LockMoves(t, Top(t).at \in Holding, f.at \in Holding)
    BY <2>1, <2>2 DEF LockMoves, Holding
  <2>4. Reset(t) \/ (UNCHANGED log /\ ~Claims(f))
    BY <2>1, <2>2 DEF Claims, Section
  <2> QED  BY <2>1, <2>2, <2>3, <2>4, OrdinaryTurn
<1>3. CASE ReadReturns(t)
  <2>1. Top(t).at = "reading" /\ UNCHANGED <<handles, phase, holder, depth>>
    BY <1>3 DEF ReadReturns, At
  <2>2. CASE Proceed(t) /\ UNCHANGED log
    <3>1. CASE Pops(t)
      <4>1. LockMoves(t, Top(t).at \in Holding, FALSE)  BY <2>1 DEF LockMoves, Holding
      <4> QED  BY <2>1, <2>2, <3>1, <4>1, OrdinaryPop
    <3>2. ASSUME NEW f \in Frame, Turns(t, f), f.at = "next" PROVE Ordinary(t)
      <4>1. LockMoves(t, Top(t).at \in Holding, f.at \in Holding)
        BY <2>1, <3>2 DEF LockMoves, Holding
      <4>2. ~Claims(f)  BY <3>2 DEF Claims
      <4> QED  BY <2>1, <2>2, <3>2, <4>1, <4>2, OrdinaryTurn
    <3> QED  BY <1>0, <2>1, <2>2, <3>1, <3>2, ProceedIs
  <2>3. CASE Section(t) \in Reporting /\ Report(t) /\ Turn(t, "failed")
    <3>1. PICK f \in Frame : Turns(t, f) /\ f.at = "failed"  BY <1>0, <2>1, <2>3, TurnIs
    <3>2. LockMoves(t, Top(t).at \in Holding, f.at \in Holding)
      BY <2>1, <3>1 DEF LockMoves, Holding
    <3>3. Claims(Top(t))  BY <2>1, <2>3 DEF Claims, Section
    <3> QED  BY <2>1, <2>3, <3>1, <3>2, <3>3, OrdinaryTurn
  <2> QED  BY <1>3, <2>2, <2>3 DEF ReadReturns
<1>4. CASE Raise(t)
  <2>1. Top(t).at = "failed" /\ UNCHANGED <<handles, phase, log, holder, depth>> /\ Pops(t)
    BY <1>0, <1>4 DEF Raise, At, Pop, Pops
  <2>2. LockMoves(t, Top(t).at \in Holding, FALSE)  BY <2>1 DEF LockMoves, Holding
  <2> QED  BY <2>1, <2>2, OrdinaryPop
<1> QED  BY <1>1, <1>2, <1>3, <1>4

LEMMA OrdinaryGraph ==
  ASSUME TypeInv, Stacks, NEW t \in Threads,
         Enter(t) \/ CallBack(t) \/ BackFromCallback(t) \/ Leave(t)
  PROVE  Ordinary(t)
<1> USE DEF Places, Closing
<1>0. stack[t] # <<>> /\ UNCHANGED <<begun, handles, phase>>
  BY DEF Enter, CallBack, BackFromCallback, Leave, At
<1>1. CASE Enter(t)
  <2>1. Top(t).at = "next"  BY <1>1 DEF Enter, At
  <2>2. CASE pyModel /\ pyCtx /\ Lock(t) /\ Turn(t, "inside") /\ Reset(t)
    <3>1. PICK f \in Frame : Turns(t, f) /\ f.at = "inside"  BY <1>0, <2>1, <2>2, TurnIs
    <3>2. LockMoves(t, Top(t).at \in Holding, f.at \in Holding)
      BY <2>1, <2>2, <3>1 DEF LockMoves, Holding
    <3> QED  BY <1>0, <2>1, <2>2, <3>1, <3>2, OrdinaryTurn
  <2>3. CASE Pop(t) /\ UNCHANGED <<log, holder, depth>>
    <3>1. LockMoves(t, Top(t).at \in Holding, FALSE)  BY <2>1, <2>3 DEF LockMoves, Holding
    <3>2. Pops(t)  BY <1>0, <2>3 DEF Pop, Pops
    <3> QED  BY <1>0, <2>1, <2>3, <3>1, <3>2, OrdinaryPop
  <2> QED  BY <1>1, <2>2, <2>3 DEF Enter
<1>2. CASE CallBack(t)
  <2>1. Top(t).at = "inside" /\ Turn(t, "callback") /\ UNCHANGED <<log, holder, depth>>
    BY <1>2 DEF CallBack, At
  <2>2. PICK f \in Frame : Turns(t, f) /\ f.at = "callback"  BY <1>0, <2>1, TurnIs
  <2>3. LockMoves(t, Top(t).at \in Holding, f.at \in Holding)
    BY <2>1, <2>2 DEF LockMoves, Holding
  <2>4. Claims(Top(t))  BY <2>1 DEF Claims
  <2> QED  BY <1>0, <2>1, <2>2, <2>3, <2>4, OrdinaryTurn
<1>3. CASE BackFromCallback(t)
  <2>1. Top(t).at = "callback" /\ UNCHANGED <<log, holder, depth>>
    BY <1>3 DEF BackFromCallback, At
  <2>2. PICK raised \in BOOLEAN : Becomes(t, [Top(t) EXCEPT !.at = "inside", !.broken = raised])
    BY <1>3 DEF BackFromCallback
  <2> DEFINE f == [Top(t) EXCEPT !.at = "inside", !.broken = raised]
  <2>3. Top(t) \in Frame /\ Top(t).left # <<>>  BY <1>0, <2>1, TopOf
  <2>4. f \in Frame /\ f.at = "inside" /\ f.id = Top(t).id /\ f.left = Top(t).left
    BY <2>3, FrameUpdates
  <2>5. stack' = [stack EXCEPT ![t] = Append(Front(@), f)]  BY <2>2 DEF Becomes
  <2> HIDE DEF f
  <2>6. Turns(t, f)  BY <1>0, <2>3, <2>4, <2>5 DEF Turns
  <2>7. LockMoves(t, Top(t).at \in Holding, f.at \in Holding)
    BY <2>1, <2>4 DEF LockMoves, Holding
  <2>8. Claims(Top(t))  BY <2>1 DEF Claims
  <2> QED  BY <1>0, <2>1, <2>4, <2>6, <2>7, <2>8, OrdinaryTurn
<1>4. CASE Leave(t)
  <2>1. Top(t).at = "inside" /\ Unlock  BY <1>4 DEF Leave, At
  <2>2. ASSUME Pop(t), UNCHANGED log \/ Report(t) PROVE Ordinary(t)
    <3>1. LockMoves(t, Top(t).at \in Holding, FALSE)  BY <2>1 DEF LockMoves, Holding
    <3>2. Pops(t)  BY <1>0, <2>2 DEF Pop, Pops
    <3> QED  BY <1>0, <2>1, <2>2, <3>1, <3>2, OrdinaryPop
  <2>3. ASSUME Proceed(t), UNCHANGED log PROVE Ordinary(t)
    <3>1. CASE Pops(t)
      <4>1. LockMoves(t, Top(t).at \in Holding, FALSE)  BY <2>1 DEF LockMoves, Holding
      <4> QED  BY <1>0, <2>1, <2>3, <3>1, <4>1, OrdinaryPop
    <3>2. ASSUME NEW f \in Frame, Turns(t, f), f.at = "next" PROVE Ordinary(t)
      <4>1. LockMoves(t, Top(t).at \in Holding, f.at \in Holding)
        BY <2>1, <3>2 DEF LockMoves, Holding
      <4>2. ~Claims(f)  BY <3>2 DEF Claims
      <4> QED  BY <1>0, <2>1, <2>3, <3>2, <4>1, <4>2, OrdinaryTurn
    <3> QED  BY <1>0, <2>1, <2>3, <3>1, <3>2, ProceedIs
  <2>4. ASSUME Turn(t, "failed"), Report(t) PROVE Ordinary(t)
    <3>1. PICK f \in Frame : Turns(t, f) /\ f.at = "failed"  BY <1>0, <2>1, <2>4, TurnIs
    <3>2. LockMoves(t, Top(t).at \in Holding, f.at \in Holding)
      BY <2>1, <3>1 DEF LockMoves, Holding
    <3>3. Claims(Top(t))  BY <2>1 DEF Claims
    <3> QED  BY <1>0, <2>1, <2>4, <3>1, <3>2, <3>3, OrdinaryTurn
  <2> QED  BY <1>4, <2>2, <2>3, <2>4 DEF Leave
<1> QED  BY <1>1, <1>2, <1>3, <1>4

-----------------------------------------------------------------------------
(***************************************************************************)
(* Closing.                                                                *)
(***************************************************************************)

\* A thread that holds no lock is in no library call and not closing.
LEMMA DepthZero ==
  ASSUME TypeInv, Stacks, NEW t \in Threads, Depth(t) = 0
  PROVE  ~InLibrary(t) /\ \A at \in {"close context", "close model"} : ~At(t, at)
<1>1. CASE stack[t] = <<>>
  <2>1. Len(stack[t]) = 0  BY <1>1, EmptySeq
  <2> QED  BY <1>1, <2>1 DEF InLibrary, At
<1>2. CASE stack[t] # <<>>
  <2>1. Len(stack[t]) \in Nat /\ Len(stack[t]) >= 1 /\ Top(t) = stack[t][Len(stack[t])]
    BY <1>2, TopOf
  <2>2. Top(t).at \notin Holding /\ Len(stack[t]) = 1  BY <1>2, <2>1 DEF Depth
  <2>3. \A i \in 1..Len(stack[t]) : stack[t][i] = Top(t)
    <3>1. \A i \in 1..Len(stack[t]) : i = Len(stack[t])  BY <2>2
    <3> QED  BY <3>1, <2>1
  <2>4. ~InLibrary(t)  BY <2>2, <2>3 DEF InLibrary, Holding
  <2> QED  BY <2>2, <2>4 DEF At, Holding
<1> QED  BY <1>1, <1>2

\* Whoever closes is outside of every call, and if it has the lock, alone.
LEMMA Alone ==
  ASSUME TypeInv, Stacks, LockCounts, NEW t \in Threads, stack[t] # <<>>, Top(t).at \in Closing,
         Lock(t) \/ Top(t).at # "close"
  PROVE  /\ Len(stack[t]) = 1 /\ ~InLibrary(t)
         /\ \A u \in Threads \ {t} :
              ~InLibrary(u) /\ \A at \in {"close context", "close model"} : ~At(u, at)
<1>1. Len(stack[t]) = 1 /\ Top(t) = stack[t][Len(stack[t])]  BY TopOf
<1>2. ~InLibrary(t)
  <2>1. \A i \in 1..Len(stack[t]) : i = Len(stack[t])  BY <1>1
  <2>2. \A i \in 1..Len(stack[t]) : stack[t][i] = Top(t)  BY <2>1, <1>1
  <2> QED  BY <2>2 DEF InLibrary, Closing
<1>3. \A u \in Threads \ {t} : Depth(u) = 0
  <2>1. CASE Top(t).at = "close"
    <3>1. Depth(t) = 0  BY <1>1, <2>1 DEF Depth, Holding
    <3>2. holder # t  BY <3>1 DEF LockCounts
    <3>3. holder = NoThread  BY <3>2, <2>1 DEF Lock, Available
    <3> QED  BY <3>2, <3>3 DEF LockCounts, TypeInv
  <2>2. CASE Top(t).at # "close"
    <3>1. Depth(t) = 1  BY <1>1, <2>2 DEF Depth, Holding, Closing
    <3>2. holder = t  BY <3>1 DEF LockCounts
    <3> QED  BY <3>2 DEF LockCounts
  <2> QED  BY <2>1, <2>2
<1> QED  BY <1>1, <1>2, <1>3, DepthZero

\* The steps of close move its call on and nothing else.
LEMMA ClosingEffect ==
  ASSUME TypeInv, Stacks, NEW t \in Threads, CloseContext(t) \/ CloseModel(t) \/ Closed(t)
  PROVE  /\ Effect(t) /\ stack[t] # <<>>
         /\ CloseContext(t) => At(t, "close context")'
         /\ CloseModel(t) => At(t, "close model")'
         /\ ~Closed(t) => Len(stack'[t]) = Len(stack[t]) /\ stack'[t] # <<>>
         /\ Closed(t) => \A at \in {"close context", "close model"} : ~At(t, at)'
         /\ ~InLibrary(t) => ~InLibrary(t)'
<1>0. stack[t] # <<>> /\ UNCHANGED begun  BY DEF CloseContext, CloseModel, Closed, At
<1>1. ASSUME NEW f \in Frame, Turns(t, f), f.at \in Closing
      PROVE  /\ stack'[t] # <<>> /\ Top(t)' = f /\ Len(stack'[t]) = Len(stack[t])
             /\ ~InLibrary(t) => ~InLibrary(t)'
  <2>1. /\ stack'[t] # <<>> /\ Len(stack'[t]) = Len(stack[t]) /\ Last(stack'[t]) = f
        /\ \A i \in 1..Len(stack[t]) : stack'[t][i] = IF i = Len(stack[t]) THEN f ELSE stack[t][i]
    BY <1>1, StackTurn
  <2>2. ~InLibrary(t) => ~InLibrary(t)'
    <3> SUFFICES ASSUME InLibrary(t)' PROVE InLibrary(t)
      OBVIOUS
    <3>1. PICK i \in 1..Len(stack[t]) : stack'[t][i].at \in {"inside", "callback"}
      BY <2>1 DEF InLibrary
    <3>2. i # Len(stack[t])  BY <3>1, <2>1, <1>1 DEF Closing
    <3> QED  BY <3>1, <3>2, <2>1 DEF InLibrary
  <2> QED  BY <2>1, <2>2 DEF Top
<1>2. CASE CloseContext(t)
  <2>1. /\ Top(t).at = "close" /\ Lock(t) /\ Turn(t, "close context") /\ UNCHANGED log
    BY <1>2 DEF CloseContext, At
  <2>2. PICK f \in Frame : Turns(t, f) /\ f.at = "close context"
    BY <1>0, <2>1, TurnIs DEF Places, Closing
  <2>3. LockMoves(t, Top(t).at \in Holding, f.at \in Holding)
    BY <2>1, <2>2 DEF LockMoves, Holding
  <2>4. ~Claims(f)  BY <2>2 DEF Claims
  <2>5. Effect(t)  BY <2>1, <2>2, <2>3, <2>4 DEF Effect
  <2>6. ~CloseModel(t) /\ ~Closed(t)  BY <2>1 DEF CloseModel, Closed, At
  <2> QED  BY <1>0, <1>1, <2>2, <2>5, <2>6 DEF At, Closing
<1>3. CASE CloseModel(t)
  <2>1. Top(t).at = "close context" /\ Turn(t, "close model") /\ UNCHANGED <<log, holder, depth>>
    BY <1>3 DEF CloseModel, At
  <2>2. PICK f \in Frame : Turns(t, f) /\ f.at = "close model"
    BY <1>0, <2>1, TurnIs DEF Places, Closing
  <2>3. LockMoves(t, Top(t).at \in Holding, f.at \in Holding)
    BY <2>1, <2>2 DEF LockMoves, Holding
  <2>4. ~Claims(f)  BY <2>2 DEF Claims
  <2>5. Effect(t)  BY <2>1, <2>2, <2>3, <2>4 DEF Effect
  <2>6. ~CloseContext(t) /\ ~Closed(t)  BY <2>1 DEF CloseContext, Closed, At
  <2> QED  BY <1>0, <1>1, <2>2, <2>5, <2>6 DEF At, Closing
<1>4. CASE Closed(t)
  <2>1. Top(t).at = "close model" /\ Unlock /\ Pops(t) /\ UNCHANGED log
    BY <1>0, <1>4 DEF Closed, At, Pop, Pops
  <2>2. LockMoves(t, Top(t).at \in Holding, FALSE)  BY <2>1 DEF LockMoves, Holding
  <2>3. Effect(t)  BY <2>1, <2>2 DEF Effect
  <2>4. ~CloseContext(t) /\ ~CloseModel(t)  BY <2>1 DEF CloseContext, CloseModel, At
  <2> QED  BY <1>0, <1>4, <2>1, <2>3, <2>4, PopPlaces
<1> QED  BY <1>2, <1>3, <1>4

\* In a step of a thread nothing moves at the others.
LEMMA OthersPlaces ==
  ASSUME TypeInv, NEW t \in Threads, Effect(t)
  PROVE  \A u \in Threads \ {t} :
           /\ InLibrary(u)' <=> InLibrary(u)
           /\ \A at \in {"close context", "close model"} : At(u, at)' <=> At(u, at)
BY OthersStay DEF InLibrary, At, Top

LEMMA HandlesOrdinary ==
  ASSUME PyInv, NEW t \in Threads, Ordinary(t), phase = "ready"
  PROVE  HandlesFit'
<1> USE DEF PyInv
<1>1. /\ Effect(t) /\ Quiet(t) /\ phase' = "ready"
      /\ UNCHANGED <<model, ctx, pyModel, pyCtx>>
  BY DEF Ordinary, handles
<1>2. \A u \in Threads \ {t} :
        /\ InLibrary(u)' <=> InLibrary(u)
        /\ \A at \in {"close context", "close model"} : At(u, at)' <=> At(u, at)
  BY <1>1, OthersPlaces
<1>3. \A u \in Threads : \A at \in {"close context", "close model"} : At(u, at)' <=> At(u, at)
  BY <1>1, <1>2 DEF Quiet
<1>4. /\ Closers("close context")' <=> Closers("close context")
      /\ Closers("close model")' <=> Closers("close model")
  BY <1>3 DEF Closers
<1>5. \A u \in Threads : InLibrary(u)' => pyModel /\ pyCtx
  BY <1>1, <1>2 DEF Quiet, HandlesFit
<1> QED  BY <1>1, <1>4, <1>5 DEF HandlesFit

LEMMA HandlesClose ==
  ASSUME PyInv, NEW t \in Threads, CloseContext(t) \/ CloseModel(t) \/ Closed(t)
  PROVE  HandlesFit' /\ model' \in {"none", "live", "freed", "twice"}
         /\ ctx' \in {"none", "live", "freed", "twice"}
         /\ pyModel' \in BOOLEAN /\ pyCtx' \in BOOLEAN /\ phase' = phase
<1> USE DEF PyInv
<1>1. /\ Effect(t) /\ stack[t] # <<>>
      /\ CloseContext(t) => At(t, "close context")'
      /\ CloseModel(t) => At(t, "close model")'
      /\ Closed(t) => \A at \in {"close context", "close model"} : ~At(t, at)'
      /\ ~InLibrary(t) => ~InLibrary(t)'
  BY ClosingEffect
<1>2. Top(t).at \in Closing /\ (Lock(t) \/ Top(t).at # "close")
  BY DEF CloseContext, CloseModel, Closed, At, Closing
<1>3. /\ ~InLibrary(t)
      /\ \A u \in Threads \ {t} :
           ~InLibrary(u) /\ \A at \in {"close context", "close model"} : ~At(u, at)
  BY <1>1, <1>2, Alone
<1>4. \A u \in Threads : ~InLibrary(u)'  BY <1>1, <1>3, OthersPlaces
<1>5. \A u \in Threads \ {t} : \A at \in {"close context", "close model"} : ~At(u, at)'
  BY <1>1, <1>3, OthersPlaces
<1>6. phase = "ready"  BY <1>1 DEF HandlesFit
<1>7. CASE CloseContext(t)
  <2>1. /\ Top(t).at = "close" /\ ctx' = (IF pyCtx THEN Freed(ctx) ELSE ctx)
        /\ UNCHANGED <<model, pyModel, pyCtx, phase>>
    BY <1>7 DEF CloseContext, At
  <2>2. ~Closers("close model") /\ ~Closers("close context")
    BY <1>3, <2>1 DEF Closers, At
  <2>3. Closers("close context")' /\ ~Closers("close model")'
    BY <1>1, <1>5, <1>7 DEF Closers, At
  <2>4. ctx' = "freed"  BY <1>6, <2>1, <2>2 DEF HandlesFit, Freed, TypeInv
  <2> QED  BY <1>4, <1>6, <2>1, <2>2, <2>3, <2>4 DEF HandlesFit, TypeInv
<1>8. CASE CloseModel(t)
  <2>1. /\ Top(t).at = "close context" /\ pyCtx' = FALSE
        /\ model' = (IF pyModel THEN Freed(model) ELSE model)
        /\ UNCHANGED <<ctx, pyModel, phase>>
    BY <1>8 DEF CloseModel, At
  <2>2. ~Closers("close model") /\ Closers("close context")
    BY <1>1, <1>3, <2>1 DEF Closers, At
  <2>3. Closers("close model")'  BY <1>1, <1>8 DEF Closers
  <2>4. model' = "freed" /\ ctx = "freed"
    BY <1>6, <2>1, <2>2 DEF HandlesFit, Freed, TypeInv
  <2> QED  BY <1>4, <1>6, <2>1, <2>3, <2>4 DEF HandlesFit, TypeInv
<1>9. CASE Closed(t)
  <2>1. Top(t).at = "close model" /\ pyModel' = FALSE /\ UNCHANGED <<model, ctx, pyCtx, phase>>
    BY <1>9 DEF Closed, At
  <2>2. Closers("close model")  BY <1>1, <2>1 DEF Closers, At
  <2>3. ~Closers("close model")' /\ ~Closers("close context")'
    BY <1>1, <1>5, <1>9 DEF Closers
  <2>4. ~pyCtx /\ model = "freed" /\ ctx = "freed"  BY <1>6, <2>2 DEF HandlesFit
  <2> QED  BY <1>4, <1>6, <2>1, <2>3, <2>4 DEF HandlesFit, TypeInv
<1> QED  BY <1>7, <1>8, <1>9

-----------------------------------------------------------------------------
(***************************************************************************)
(* The invariant.                                                          *)
(***************************************************************************)
LEMMA PyInvInit ==
  ASSUME PyInit
  PROVE  PyInv
<1> USE DEF PyInit
<1>1. \A t \in Threads : stack[t] = <<>> /\ Len(stack[t]) = 0  BY EmptySeq
<1>2. TypeInv  BY EmptySeq DEF TypeInv
<1>3. Stacks /\ LogsAreOwn  BY <1>1 DEF Stacks, LogsAreOwn
<1>4. LockCounts  BY <1>1, PyAssumption DEF LockCounts, Depth
<1>5. HandlesFit  BY <1>1 DEF HandlesFit, InLibrary
<1> QED  BY <1>2, <1>3, <1>4, <1>5 DEF PyInv

LEMMA PyInvNext ==
  ASSUME PyInv, [PyNext]_pyVars
  PROVE  PyInv'
<1> USE DEF PyInv
<1>1. CASE Load \/ MakeContext
  <2>1. UNCHANGED <<stack, log, holder, depth, begun>>  BY <1>1 DEF Load, MakeContext
  <2>2. Stacks' /\ LockCounts' /\ LogsAreOwn'
    BY <2>1 DEF Stacks, LockCounts, LogsAreOwn, Depth, Top, Claims
  <2>3. \A t \in Threads : stack[t] = <<>> /\ Len(stack[t]) = 0
    BY <1>1, EmptySeq DEF Load, MakeContext, HandlesFit
  <2>4. \A t \in Threads : stack'[t] = <<>> /\ Len(stack'[t]) = 0  BY <2>1, <2>3
  <2>5. TypeInv'  BY <1>1, <2>1 DEF TypeInv, Load, MakeContext, handles, Freed
  <2>6. HandlesFit'
    <3>1. \A t \in Threads : ~InLibrary(t)'  BY <2>4 DEF InLibrary
    <3>2. \A at : ~Closers(at)'  BY <2>4 DEF Closers, At
    <3>3. \/ /\ phase' = "failed" /\ model' \in {"none", "freed"} /\ ctx' = "none"
             /\ ~pyModel' /\ ~pyCtx'
          \/ phase' = "loaded" /\ model' = "live" /\ ctx' = "none" /\ pyModel' /\ ~pyCtx'
          \/ phase' = "ready" /\ model' = "live" /\ ctx' = "live" /\ pyModel' /\ pyCtx'
      <4>1. CASE Load  BY <4>1 DEF Load, HandlesFit, handles
      <4>2. CASE MakeContext  BY <4>2 DEF MakeContext, HandlesFit, Freed
      <4> QED  BY <1>1, <4>1, <4>2
    <3>4. phase' = "ready" => pyCtx' = pyModel'  BY <3>3, <2>5 DEF TypeInv
    <3> QED  BY <2>4, <3>1, <3>2, <3>3, <3>4 DEF HandlesFit
  <2> QED  BY <2>2, <2>5, <2>6
<1>2. ASSUME NEW t \in Threads, Call(t) \/ Close(t) \/ CallBack(t) \/ Step(t)
      PROVE  PyInv'
  <2>1. CASE Call(t) \/ Close(t)
    <3>1. Ordinary(t)  BY <2>1, OrdinaryStart
    <3>2. phase = "ready"  BY <2>1 DEF Call, Close, Starts
    <3>3. HandlesFit'  BY <3>1, <3>2, HandlesOrdinary
    <3> QED  BY <3>1, <3>3, EffectKeeps DEF Ordinary, handles, TypeInv
  <2>2. CASE \/ Fetch(t) \/ Read(t) \/ ReadReturns(t) \/ Raise(t)
             \/ Enter(t) \/ CallBack(t) \/ BackFromCallback(t) \/ Leave(t)
    <3>1. Ordinary(t)  BY <2>2, OrdinaryRead, OrdinaryGraph
    <3>2. stack[t] # <<>>
      BY <2>2 DEF Fetch, Read, ReadReturns, Raise, Enter, CallBack, BackFromCallback, Leave, At
    <3>3. phase = "ready"  BY <3>2 DEF HandlesFit
    <3>4. HandlesFit'  BY <3>1, <3>3, HandlesOrdinary
    <3> QED  BY <3>1, <3>4, EffectKeeps DEF Ordinary, handles, TypeInv
  <2>3. CASE CloseContext(t) \/ CloseModel(t) \/ Closed(t)
    <3>1. Effect(t)  BY <2>3, ClosingEffect
    <3> QED  BY <2>3, <3>1, HandlesClose, EffectKeeps DEF TypeInv
  <2> QED  BY <1>2, <2>1, <2>2, <2>3 DEF Step
<1>3. CASE UNCHANGED pyVars
  <2>1. UNCHANGED <<model, ctx, pyModel, pyCtx, phase, stack, log, holder, depth, begun>>
    BY <1>3 DEF pyVars, handles
  <2>2. TypeInv'  BY <2>1 DEF TypeInv
  <2>3. Stacks' /\ LockCounts' /\ LogsAreOwn'
    BY <2>1 DEF Stacks, LockCounts, LogsAreOwn, Depth, Top, Claims
  <2>4. HandlesFit'  BY <2>1 DEF HandlesFit, InLibrary, Closers, At, Top
  <2> QED  BY <2>2, <2>3, <2>4
<1> QED  BY <1>1, <1>2, <1>3 DEF PyNext

\* The invariant of the Python Model: types, the shape of the stacks, the lock's
\* count, what the handles are between the steps of close, and whose the logs are.
THEOREM PyInvHolds ==
  PySpec => []PyInv
<1>1. PyInit => PyInv  BY PyInvInit
<1>2. PyInv /\ [PyNext]_pyVars => PyInv'  BY PyInvNext
<1> QED  BY <1>1, <1>2, PTL DEF PySpec

\* Whoever runs a graph owns the lock and both handles are live, callbacks
\* included, for any number of threads and depth of nesting; nothing is freed
\* twice, nor the model before the context (Model.encode, close, model.py).
THEOREM GraphsRunOnLiveHandles ==
  PySpec => []GraphsOnLiveHandles
<1>1. ASSUME PyInv PROVE GraphsOnLiveHandles
  <2> USE <1>1 DEF PyInv
  <2>1. ASSUME NEW t \in Threads, NEW i \in DOMAIN stack[t],
               stack[t][i].at \in {"inside", "callback"}
        PROVE  holder = t /\ model = "live" /\ ctx = "live"
    <3>1. i \in 1..Len(stack[t]) /\ stack[t] # <<>>
      <4>1. stack[t] \in Seq(Frame)  BY DEF TypeInv
      <4>2. DOMAIN stack[t] = 1..Len(stack[t])  BY <4>1, LenProperties
      <4>3. Len(<<>>) = 0  BY EmptySeq
      <4>4. stack[t] # <<>>
        <5> SUFFICES ASSUME stack[t] = <<>> PROVE FALSE  OBVIOUS
        <5> QED  BY <2>1, <4>2, <4>3
      <4> QED  BY <2>1, <4>2, <4>4
    <3>2. InLibrary(t)  BY <2>1, <3>1 DEF InLibrary
    <3>3. phase = "ready" /\ pyModel /\ pyCtx  BY <3>1, <3>2 DEF HandlesFit
    <3>4. holder = t  BY <3>2, DepthZero DEF LockCounts
    <3>5. ASSUME NEW at \in {"close context", "close model"}, Closers(at) PROVE FALSE
      <4>1. PICK u \in Threads : At(u, at)  BY <3>5 DEF Closers
      <4>2. stack[u] # <<>> /\ Top(u).at \in Closing /\ Top(u).at # "close"
        BY <4>1 DEF At, Closing
      <4>3. ~InLibrary(u) /\ \A v \in Threads \ {u} : ~InLibrary(v)  BY <4>2, Alone
      <4> QED  BY <4>3, <3>2
    <3> QED  BY <3>3, <3>4, <3>5 DEF HandlesFit
  <2>2. /\ model # "twice" /\ ctx # "twice"
        /\ model = "freed" => ctx # "live"
    BY DEF HandlesFit, TypeInv
  <2> QED  BY <2>1, <2>2 DEF GraphsOnLiveHandles
<1> QED  BY <1>1, PyInvHolds, PTL

\* What a failed call quotes has its own message and nothing older: the buffer is
\* emptied before the call and belongs to the thread (jepa_error_reset,
\* jepa_error_text; model.py).
THEOREM MessagesAreOwn ==
  PySpec => []MessagesAreOfTheCall
<1>1. ASSUME PyInv PROVE MessagesAreOfTheCall
  <2> SUFFICES ASSUME NEW t \in Threads, At(t, "failed")
               PROVE  Top(t).id \in log[t] /\ \A id \in log[t] : id >= Top(t).id
    BY DEF MessagesAreOfTheCall
  <2>1. stack[t] # <<>> /\ Top(t).at = "failed"  BY DEF At
  <2>2. Len(stack[t]) \in Nat /\ Len(stack[t]) >= 1 /\ Top(t) = stack[t][Len(stack[t])]
    BY <1>1, <2>1, TopOf DEF PyInv
  <2>3. Len(stack[t]) \in 1..Len(stack[t])  BY <2>2
  <2> QED  BY <1>1, <2>1, <2>2, <2>3 DEF PyInv, LogsAreOwn, Claims
<1> QED  BY <1>1, PyInvHolds, PTL
=============================================================================
