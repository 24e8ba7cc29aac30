------------------------------- MODULE AcProofs -------------------------------
(***************************************************************************)
(* Proofs about the planning calls of V-JEPA 2-AC.  For every number of    *)
(* slots, and however long a handle is used, a context is the sliding      *)
(* window SlidingWindow describes; and for any number of candidates,       *)
(* observed frames and steps every predictor call of a rollout sees the    *)
(* right history and the rows of the output are the candidates' own.       *)
(***************************************************************************)
EXTENDS AcContext, AcRollout, TLAPS

(***************************************************************************)
(* The inductive invariant.  WindowIsRecent alone is not inductive: that a *)
(* shifted slot holds the right frame needs the arrays to be as long as    *)
(* the capacity, which TypeOK adds, and the first frame not to lie before  *)
(* the planner's first observation.                                        *)
(***************************************************************************)
Closed == owner = None => n = 0 /\ cap = 0 /\ view = 0
Started == owner # None =>
    /\ n <= now /\ since <= now
    /\ IF Slots > 0 THEN cap = Slots ELSE cap >= n
Inv == TypeOK /\ Closed /\ Started /\ WindowIsRecent

LEMMA InvInit == Init => Inv
  BY WindowAssumption
     DEF WindowAssumption, Init, Inv, TypeOK, Closed, Started, WindowIsRecent

LEMMA InvNew ==
  ASSUME Inv, NEW ctx \in Contexts, New(ctx) PROVE Inv'
<1>1. CASE Refuse
  BY <1>1 DEF Refuse, slots, Inv, TypeOK, Closed, Started, WindowIsRecent, Known
<1>2. ASSUME NEW k \in 1..MaxTime, NEW known \in BOOLEAN,
             k <= Capacity(k),
             owner' = ctx, cap' = Capacity(k), n' = k, view' = k,
             slab' = [i \in 1..Capacity(k) |-> IF i <= k THEN i ELSE 0],
             poses' = [i \in 1..Capacity(k) |-> IF i <= k THEN i ELSE 0],
             acts' = [i \in 1..Capacity(k) |-> IF known /\ i < k THEN i ELSE 0],
             now' = k, since' = IF known THEN 1 ELSE k, rc' = 0
      PROVE Inv'
  <2>1. Capacity(k) \in Nat /\ k \in Nat /\ k <= MaxTime /\ k >= 1 /\ MaxTime \in Nat
    BY WindowAssumption DEF WindowAssumption, Capacity
  <2>2. TypeOK'
    BY <1>2, <2>1, WindowAssumption DEF WindowAssumption, TypeOK
  <2>3. WindowIsRecent'
    BY <1>2, <2>1 DEF WindowIsRecent, Known
  <2>4. Closed' /\ Started'
    BY <1>2, <2>1, WindowAssumption DEF WindowAssumption, Closed, Started, Capacity
  <2> QED  BY <2>2, <2>3, <2>4 DEF Inv
<1> QED  BY <1>1, <1>2 DEF New

LEMMA InvUpdate == ASSUME Inv, Update PROVE Inv'
<1>1. CASE Refuse
  BY <1>1 DEF Refuse, slots, Inv, TypeOK, Closed, Started, WindowIsRecent, Known
<1>2. CASE ~(n >= cap)
  <2>1. n \in Nat /\ cap \in Nat /\ now \in Nat /\ MaxTime \in Nat /\ n < cap /\ n >= 1
        /\ now < MaxTime /\ n <= now
    BY <1>2, WindowAssumption DEF WindowAssumption, Update, Inv, TypeOK, Started
  <2>2. /\ slab' = [slab EXCEPT ![n + 1] = now + 1]
        /\ acts' = [acts EXCEPT ![n] = now]
        /\ poses' = [poses EXCEPT ![n + 1] = now + 1]
        /\ n' = n + 1 /\ view' = n + 1 /\ now' = now + 1 /\ rc' = 0
        /\ owner' = owner /\ cap' = cap /\ since' = since
    BY <1>2 DEF Update
  <2> HIDE DEF Update
  <2>a. /\ slab \in [1..cap -> Nat] /\ poses \in [1..cap -> Nat] /\ acts \in [1..cap -> Nat]
        /\ owner \in Contexts /\ since \in 1..MaxTime /\ since <= now
        /\ \A i \in 1..n : slab[i] = now - n + i /\ poses[i] = now - n + i
        /\ \A i \in 1..(n - 1) : acts[i] = Known(now - n + i)
        /\ IF Slots > 0 THEN cap = Slots ELSE cap >= n
    BY DEF Update, Inv, TypeOK, Started, WindowIsRecent
  <2>b. /\ slab' \in [1..cap -> Nat] /\ slab'[n + 1] = now + 1
        /\ \A i \in 1..n : slab'[i] = slab[i]
    BY <2>1, <2>2, <2>a
  <2>c. /\ poses' \in [1..cap -> Nat] /\ poses'[n + 1] = now + 1
        /\ \A i \in 1..n : poses'[i] = poses[i]
    BY <2>1, <2>2, <2>a
  <2>d. /\ acts' \in [1..cap -> Nat] /\ acts'[n] = now
        /\ \A i \in 1..(n - 1) : acts'[i] = acts[i]
    BY <2>1, <2>2, <2>a
  <2>3. TypeOK'
    BY <2>1, <2>2, <2>a, <2>b, <2>c, <2>d DEF TypeOK
  <2>4. WindowIsRecent'
    <3>1. view' = n'  BY <2>2
    <3>2. ASSUME NEW i \in 1..(n + 1)
          PROVE slab'[i] = now + 1 - (n + 1) + i /\ poses'[i] = now + 1 - (n + 1) + i
      <4>1. CASE i = n + 1  BY <4>1, <2>1, <2>b, <2>c
      <4>2. CASE i \in 1..n  BY <4>2, <2>1, <2>a, <2>b, <2>c
      <4> QED  BY <4>1, <4>2, <2>1
    <3>3. ASSUME NEW i \in 1..n PROVE acts'[i] = Known(now + 1 - (n + 1) + i)
      BY <2>1, <2>a, <2>d DEF Known
    <3> QED  BY <2>1, <2>2, <3>1, <3>2, <3>3 DEF WindowIsRecent, Known
  <2>5. Closed' /\ Started'
    BY <2>1, <2>2, <2>a, WindowAssumption DEF WindowAssumption, Closed, Started
  <2> QED  BY <2>3, <2>4, <2>5 DEF Inv
<1> QED  BY <1>1, <1>2 DEF Update

\* What moving k entries of an array down by drop leaves in it.
LEMMA ShiftedArray ==
  ASSUME cap \in Nat, NEW a \in [1..cap -> Nat], NEW drop \in Nat, NEW k \in Nat,
         k + drop <= cap
  PROVE  /\ Shifted(a, drop, k) \in [1..cap -> Nat]
         /\ \A i \in 1..k : Shifted(a, drop, k)[i] = a[i + drop]
<1>1. ASSUME NEW i \in 1..cap PROVE (IF i <= k THEN a[i + drop] ELSE a[i]) \in Nat
  <2>1. CASE i <= k
    <3>1. i + drop \in 1..cap  BY <2>1
    <3> QED  BY <2>1, <3>1
  <2>2. CASE ~(i <= k)  BY <2>2
  <2> QED  BY <2>1, <2>2
<1>2. \A i \in 1..k : i \in 1..cap  OBVIOUS
<1> QED  BY <1>1, <1>2 DEF Shifted

LEMMA InvTrim == ASSUME Inv, Trim PROVE Inv'
<1>1. CASE rc' = -1 /\ UNCHANGED <<owner, cap, n, slots, view, now, since, cond>>
  BY <1>1 DEF slots, Inv, TypeOK, Closed, Started, WindowIsRecent, Known
<1>2. CASE rc' = 0 /\ UNCHANGED <<owner, cap, n, slots, view, now, since, cond>>
  BY <1>2 DEF slots, Inv, TypeOK, Closed, Started, WindowIsRecent, Known
<1>3. ASSUME NEW k \in 1..MaxTime, k < n,
             slab' = Shifted(slab, n - k, k),
             acts' = Shifted(acts, n - k, k - 1),
             poses' = Shifted(poses, n - k, k),
             n' = k, view' = k, rc' = 0,
             UNCHANGED <<owner, cap, now, since, cond>>
      PROVE Inv'
  <2>1. /\ n \in Nat /\ cap \in Nat /\ n <= cap /\ now \in Nat
        /\ k \in Nat /\ k >= 1 /\ owner # None
        /\ slab \in [1..cap -> Nat] /\ poses \in [1..cap -> Nat] /\ acts \in [1..cap -> Nat]
        /\ n - k \in Nat /\ k - 1 \in 0..k /\ k \in 0..k
        /\ \A i \in 1..n : slab[i] = now - n + i /\ poses[i] = now - n + i
        /\ \A i \in 1..(n - 1) : acts[i] = Known(now - n + i)
    BY <1>3, WindowAssumption DEF WindowAssumption, Inv, TypeOK, WindowIsRecent, Trim
  <2>2. /\ k + (n - k) <= cap /\ (k - 1) + (n - k) <= cap /\ k - 1 \in Nat
        /\ k \in 1..cap /\ k \in 0..cap
        /\ owner' = owner /\ cap' = cap /\ now' = now /\ since' = since
    BY <1>3, <2>1
  <2>3. /\ slab' \in [1..cap -> Nat] /\ \A i \in 1..k : slab'[i] = slab[i + (n - k)]
        /\ poses' \in [1..cap -> Nat] /\ \A i \in 1..k : poses'[i] = poses[i + (n - k)]
        /\ acts' \in [1..cap -> Nat] /\ \A i \in 1..(k - 1) : acts'[i] = acts[i + (n - k)]
    <3>1. /\ Shifted(slab, n - k, k) \in [1..cap -> Nat]
          /\ \A i \in 1..k : Shifted(slab, n - k, k)[i] = slab[i + (n - k)]
      BY <2>1, <2>2, ShiftedArray
    <3>2. /\ Shifted(poses, n - k, k) \in [1..cap -> Nat]
          /\ \A i \in 1..k : Shifted(poses, n - k, k)[i] = poses[i + (n - k)]
      BY <2>1, <2>2, ShiftedArray
    <3>3. /\ Shifted(acts, n - k, k - 1) \in [1..cap -> Nat]
          /\ \A i \in 1..(k - 1) : Shifted(acts, n - k, k - 1)[i] = acts[i + (n - k)]
      BY <2>1, <2>2, ShiftedArray
    <3> QED  BY <1>3, <3>1, <3>2, <3>3
  <2>4. TypeOK'
    <3>1. /\ owner \in Contexts \cup {None} /\ now \in 0..MaxTime /\ since \in 1..MaxTime
      BY DEF Inv, TypeOK
    <3>2. n' = k /\ view' = k /\ rc' = 0 /\ k > 0  BY <1>3, <2>1
    <3> QED  BY <2>1, <2>2, <2>3, <3>1, <3>2 DEF TypeOK
  <2>5. WindowIsRecent'
    <3>1. ASSUME NEW i \in 1..k
          PROVE slab'[i] = now - k + i /\ poses'[i] = now - k + i
      <4>1. i + (n - k) \in 1..n /\ now - n + (i + (n - k)) = now - k + i
        BY <1>3, <2>1
      <4> QED  BY <4>1, <2>1, <2>3
    <3>2. ASSUME NEW i \in 1..(k - 1) PROVE acts'[i] = Known(now - k + i)
      <4>1. i + (n - k) \in 1..(n - 1) /\ now - n + (i + (n - k)) = now - k + i
        BY <1>3, <2>1
      <4> QED  BY <4>1, <2>1, <2>3
    <3> QED  BY <1>3, <3>1, <3>2 DEF WindowIsRecent, Known
  <2>6. Closed' /\ Started'
    BY <1>3, <2>1 DEF Inv, Closed, Started
  <2> QED  BY <2>4, <2>5, <2>6 DEF Inv
<1>4. MaxTime \in Nat /\ n \in Nat
  BY WindowAssumption DEF WindowAssumption, Inv, TypeOK
<1> QED  BY <1>1, <1>2, <1>3, <1>4 DEF Trim, Refuse

LEMMA InvRollout == ASSUME Inv, NEW ctx \in Contexts, Rollout(ctx) PROVE Inv'
  BY DEF Rollout, Refuse, slots, Inv, TypeOK, Closed, Started, WindowIsRecent, Known

LEMMA InvFree == ASSUME Inv, Free PROVE Inv'
  BY WindowAssumption
     DEF WindowAssumption, Free, Inv, TypeOK, Closed, Started, WindowIsRecent

LEMMA InvStep == Inv /\ [Next]_vars => Inv'
<1>1. ASSUME Inv, UNCHANGED vars PROVE Inv'
  BY <1>1 DEF vars, slots, Inv, TypeOK, Closed, Started, WindowIsRecent, Known
<1> QED  BY <1>1, InvNew, InvUpdate, InvTrim, InvRollout, InvFree DEF Next

\* Every reachable state satisfies the inductive invariant.
THEOREM WindowInvariance == Spec => []Inv
  BY InvInit, InvStep, PTL DEF Spec

\* The handle never holds more frames than it has slots, and no call writes
\* outside its arrays.
THEOREM WindowTypes == Spec => []TypeOK
  BY WindowInvariance, PTL DEF Inv

\* Slot i holds the i-th of the last n frames, its pose and the action taken at
\* it, after any sequence of new, update, trim, rollout and free.
THEOREM WindowHolds == Spec => []WindowIsRecent
  BY WindowInvariance, PTL DEF Inv

LEMMA RolloutStep == ASSUME Inv, [Next]_vars PROVE cond' # cond /\ owner' # None => Recent(cond')
<1> SUFFICES ASSUME cond' # cond, owner' # None PROVE Recent(cond')  OBVIOUS
<1>1. PICK ctx \in Contexts : Rollout(ctx)
  BY DEF Next, vars, New, Refuse, Update, Trim, Free
<1>2. /\ cond' = [latents |-> SubSeq(slab, 1, view), poses |-> SubSeq(poses, 1, n),
                  acts |-> SubSeq(acts, 1, n - 1)]
      /\ now' = now /\ since' = since /\ owner # None
  BY <1>1 DEF Rollout, Refuse
<1>3. view = n /\ n \in Nat /\ cap \in Nat /\ n <= cap /\ n >= 1 /\ now \in Nat
  BY <1>2 DEF Inv, TypeOK, WindowIsRecent
<1>4. ASSUME NEW a \in [1..cap -> Nat], NEW e \in 0..n
      PROVE /\ Len(SubSeq(a, 1, e)) = e
            /\ DOMAIN SubSeq(a, 1, e) = 1..e
            /\ \A i \in 1..e : SubSeq(a, 1, e)[i] = a[i]
  BY <1>3
<1>5. /\ slab \in [1..cap -> Nat] /\ poses \in [1..cap -> Nat] /\ acts \in [1..cap -> Nat]
      /\ n - 1 \in 0..n /\ n \in 0..n
  BY <1>3 DEF Inv, TypeOK
<1>6. /\ \A i \in 1..n : slab[i] = now - n + i /\ poses[i] = now - n + i
      /\ \A i \in 1..(n - 1) : acts[i] = Known(now - n + i)
  BY <1>2 DEF Inv, WindowIsRecent
<1>7. /\ Len(cond'.latents) = n /\ Len(cond'.poses) = n /\ Len(cond'.acts) = n - 1
      /\ DOMAIN cond'.latents = 1..n /\ DOMAIN cond'.acts = 1..(n - 1)
      /\ \A i \in 1..n : cond'.latents[i] = slab[i] /\ cond'.poses[i] = poses[i]
      /\ \A i \in 1..(n - 1) : cond'.acts[i] = acts[i]
  BY <1>2, <1>3, <1>4, <1>5
<1>8. ASSUME NEW i \in 1..(n - 1) PROVE cond'.acts[i] = Known(cond'.latents[i])
  <2>1. i \in 1..n  BY <1>3
  <2> QED  BY <2>1, <1>6, <1>7
<1> QED  BY <1>3, <1>6, <1>7, <1>8 DEF Recent

\* Every accepted rollout is conditioned on consecutive frames up to the newest.
THEOREM RolloutsReadTheWindow == Spec => RolloutReadsWindow
<1>1. Inv /\ [Next]_vars => [cond' # cond /\ owner' # None => Recent(cond')]_vars
  BY RolloutStep
<1> QED  BY <1>1, WindowInvariance, PTL DEF Spec, RolloutReadsWindow

-----------------------------------------------------------------------------
(* The handle implements the sliding window.                                *)

\* The window the handle's arrays stand for.
Frames == [i \in 1..n |-> [latent |-> slab[i], pose |-> poses[i]]]
Moves == [i \in 1..(n - 1) |-> acts[i]]

\* In a state of the invariant they are sequences with known entries.
LEMMA WindowContents ==
  ASSUME Inv, owner # None
  PROVE  /\ n \in Nat /\ n >= 1 /\ now \in Nat /\ n <= now
         /\ Frames = [i \in 1..n |-> Window!Frame(now - n + i)]
         /\ Moves = [i \in 1..(n - 1) |-> Known(now - n + i)]
  BY DEF Inv, TypeOK, Started, WindowIsRecent, Frames, Moves, Window!Frame

LEMMA WindowStart == Init => Window!WindowInit
  BY DEF Init, Window!WindowInit

LEMMA StepNew ==
  ASSUME Inv, NEW ctx \in Contexts, New(ctx), ~Refuse PROVE Window!Open
<1>1. PICK k \in 1..MaxTime, known \in BOOLEAN :
        /\ k <= Capacity(k) /\ n' = k /\ cap' = Capacity(k)
        /\ slab' = [i \in 1..Capacity(k) |-> IF i <= k THEN i ELSE 0]
        /\ poses' = [i \in 1..Capacity(k) |-> IF i <= k THEN i ELSE 0]
        /\ acts' = [i \in 1..Capacity(k) |-> IF known /\ i < k THEN i ELSE 0]
  BY DEF New
<1>2. Frames = <<>>
  BY DEF Inv, Closed, New, Frames
<1>3. k \in Nat /\ k >= 1 /\ Capacity(k) \in Nat
  BY WindowAssumption DEF WindowAssumption, Capacity
<1>4. Frames' = [i \in 1..k |-> Window!Frame(i)]
  BY <1>1, <1>3 DEF Frames, Window!Frame
<1>5. Moves' = [i \in 1..(k - 1) |-> IF known THEN i ELSE 0]
  BY <1>1, <1>3 DEF Moves
<1>6. IF Slots > 0 THEN k <= Slots /\ cap' = Slots ELSE cap' = k
  BY <1>1, WindowAssumption DEF WindowAssumption, Capacity
<1> QED  BY <1>2, <1>4, <1>5, <1>6 DEF Window!Open, Frames, Moves

LEMMA StepFree == ASSUME Inv, Free PROVE Window!Discard
<1>1. Frames # <<>>
  BY WindowContents DEF Free, Frames
<1>2. Frames' = <<>> /\ Moves' = <<>> /\ cap' = 0
  BY DEF Free, Frames, Moves
<1> QED  BY <1>1, <1>2 DEF Window!Discard, Frames, Moves

LEMMA StepUpdate == ASSUME Inv, Update, ~(n >= cap) PROVE Window!Observe
<1>1. Inv' /\ owner' # None
  BY InvUpdate DEF Update
<1>2. /\ n \in Nat /\ n >= 1 /\ now \in Nat /\ n <= now /\ n' = n + 1 /\ now' = now + 1
      /\ cap' = cap /\ since' = since /\ n < cap /\ since <= now
  BY WindowContents DEF Update, Inv, TypeOK, Started
<1>3. Frames = [i \in 1..n |-> Window!Frame(now - n + i)]
  BY WindowContents DEF Update
<1>4. Moves = [i \in 1..(n - 1) |-> Known(now - n + i)]
  BY WindowContents DEF Update
<1>5. Frames' = [i \in 1..(n + 1) |-> Window!Frame(now - n + i)]
  BY <1>1, <1>2 DEF Inv, WindowIsRecent, Frames, Window!Frame
<1>6. Moves' = [i \in 1..n |-> Known(now - n + i)]
  BY <1>1, <1>2 DEF Inv, WindowIsRecent, Moves, Known
<1>7. Frames # <<>> /\ Len(Frames) = n /\ Frames[Len(Frames)].latent = now
  BY <1>2, <1>3 DEF Window!Frame
<1>8. Frames' = Append(Frames, Window!Frame(now + 1))
  BY <1>2, <1>3, <1>5
<1>9. Moves' = Append(Moves, now)
  BY <1>2, <1>4, <1>6 DEF Known
<1> QED  BY <1>2, <1>7, <1>8, <1>9 DEF Window!Observe, Frames, Moves

LEMMA StepTrim ==
  ASSUME Inv, Trim, n' # n PROVE Window!Forget
<1>1. Inv' /\ owner' # None
  BY InvTrim DEF Trim, Refuse
<1>2. PICK k \in 1..MaxTime : k < n /\ n' = k /\ UNCHANGED <<owner, cap, now, since>>
  BY WindowAssumption DEF WindowAssumption, Trim, Refuse, Inv, TypeOK
<1>3. /\ n \in Nat /\ n >= 1 /\ now \in Nat /\ n <= now /\ k \in Nat /\ k >= 1
  BY WindowContents, WindowAssumption DEF WindowAssumption, Trim
<1>4. Frames = [i \in 1..n |-> Window!Frame(now - n + i)]
  BY WindowContents DEF Trim
<1>5. Moves = [i \in 1..(n - 1) |-> Known(now - n + i)]
  BY WindowContents DEF Trim
<1>6. Frames' = [i \in 1..k |-> Window!Frame(now - k + i)]
  BY <1>1, <1>2, <1>3 DEF Inv, WindowIsRecent, Frames, Window!Frame
<1>7. Moves' = [i \in 1..(k - 1) |-> Known(now - k + i)]
  BY <1>1, <1>2, <1>3 DEF Inv, WindowIsRecent, Moves, Known
<1>8. Len(Frames) = n /\ Frames # <<>> /\ k \in 1..(n - 1)
  BY <1>2, <1>3, <1>4
<1>9. Frames' = SubSeq(Frames, n - k + 1, n)
  BY <1>2, <1>3, <1>4, <1>6
<1>10. Moves' = SubSeq(Moves, n - k + 1, n - 1)
  BY <1>2, <1>3, <1>5, <1>7
<1> QED  BY <1>2, <1>8, <1>9, <1>10 DEF Window!Forget, Frames, Moves

LEMMA StepOther ==
  ASSUME UNCHANGED <<cap, n, slab, poses, acts>> PROVE UNCHANGED Window!windowVars
  BY DEF Window!windowVars

\* Every use of the handle is a use of a sliding window: the calls of the code
\* are the window's operations, or change nothing in it.
THEOREM HandleIsAWindow == Spec => ImplementsWindow
<1>1. Inv /\ [Next]_vars => [Window!WindowNext]_(Window!windowVars)
  <2> SUFFICES ASSUME Inv, [Next]_vars PROVE [Window!WindowNext]_(Window!windowVars)
    OBVIOUS
  <2>1. ASSUME NEW ctx \in Contexts, New(ctx) PROVE [Window!WindowNext]_(Window!windowVars)
    <3>1. CASE Refuse  BY <3>1, StepOther DEF Refuse, slots
    <3>2. CASE ~Refuse  BY <2>1, <3>2, StepNew DEF Window!WindowNext
    <3> QED  BY <3>1, <3>2
  <2>2. CASE Update
    <3>1. CASE n >= cap  BY <2>2, <3>1, StepOther DEF Update, Refuse, slots
    <3>2. CASE ~(n >= cap)  BY <2>2, <3>2, StepUpdate DEF Window!WindowNext
    <3> QED  BY <3>1, <3>2
  <2>3. CASE Trim
    <3>1. CASE n' # n  BY <2>3, <3>1, StepTrim DEF Window!WindowNext
    <3>2. CASE n' = n
      <4>1. n \in Nat /\ MaxTime \in Nat
        BY WindowAssumption DEF WindowAssumption, Inv, TypeOK
      <4> QED  BY <2>3, <3>2, <4>1, StepOther DEF Trim, Refuse, slots
    <3> QED  BY <3>1, <3>2
  <2>4. ASSUME NEW ctx \in Contexts, Rollout(ctx) PROVE [Window!WindowNext]_(Window!windowVars)
    BY <2>4, StepOther DEF Rollout, Refuse, slots
  <2>5. CASE Free  BY <2>5, StepFree DEF Window!WindowNext
  <2>6. CASE UNCHANGED vars  BY <2>6, StepOther DEF vars, slots
  <2> QED  BY <2>1, <2>2, <2>3, <2>4, <2>5, <2>6 DEF Next
<1> QED  BY <1>1, WindowStart, WindowInvariance, PTL DEF Spec, ImplementsWindow, Window!WindowSpec

-----------------------------------------------------------------------------
(***************************************************************************)
(* The rollout.                                                            *)
(***************************************************************************)
\* What the check before the first step establishes, and how far the loop is.
Accepted ==
    /\ nCand > 0 /\ nSeed > 0 /\ horizon > 0
    /\ PredictorSlots > 0 => nSeq <= PredictorSlots
    /\ DOMAIN tail = 0..(nCand * nTailMax - 1)
    /\ DOMAIN out = 0..(nCand * horizon - 1)

Control ==
    /\ nCand \in Nat /\ nSeed \in Nat /\ horizon \in Nat
    /\ hist \in BOOLEAN /\ given \in BOOLEAN
    /\ stage \in {"check", "fill", "done", "failed"}
    /\ step \in Nat /\ j \in Nat
    /\ stage = "check" => step = 0 /\ j = 0 /\ inputs = NoCall
    /\ stage \in {"fill", "done"} => Accepted
    /\ stage = "fill" => step < horizon /\ j <= T
    /\ stage = "done" => step = horizon

\* The conditioning arrays of a candidate are right up to frame j, and its observed
\* poses are never overwritten.
Filled(c) ==
    /\ act[c] = [i \in 0..(nSeq - 1) |-> act[c][i]]
    /\ st[c] = [i \in 0..(nSeq - 1) |-> st[c][i]]
    /\ \A i \in 0..(nSeed - 1) : st[c][i] = SeedPose(i)
    /\ \A i \in 0..(j - 1) : RightAction(c, i, act[c][i]) /\ RightPose(c, i, st[c], act[c])

\* The frames predicted so far lie in the tail and in the output.
Kept(c) ==
    \A s \in 0..(step - 1) :
        /\ stage = "fill" => tail[c * nTailMax + s] = PredictedFrame(c, s)
        /\ out[c * horizon + s] = PredictedFrame(c, s)

RolloutInv ==
    /\ Control /\ ConditioningIsRight
    /\ \A c \in Cands :
         /\ stage = "fill" => Filled(c)
         /\ stage \in {"fill", "done"} => Kept(c)

-----------------------------------------------------------------------------
\* Rows of w slots laid out one after the other do not overlap.
LEMMA SlotInside ==
  ASSUME NEW m \in Nat, NEW w \in Nat, NEW c \in 0..(m - 1), NEW s \in 0..(w - 1)
  PROVE  c * w + s \in 0..(m * w - 1)
<1>1. c \in Nat /\ s \in Nat /\ c + 1 <= m /\ s < w  OBVIOUS
<1>2. (c + 1) * w <= m * w  BY <1>1
<1>3. (c + 1) * w = c * w + w  BY <1>1
<1>4. c * w \in Nat /\ m * w \in Nat  BY <1>1
<1> QED  BY <1>1, <1>2, <1>3, <1>4

LEMMA SlotsDiffer ==
  ASSUME NEW w \in Nat, NEW c \in Nat, NEW d \in Nat, NEW s \in 0..(w - 1), NEW t \in 0..(w - 1),
         c * w + s = d * w + t
  PROVE  c = d /\ s = t
<1>1. ASSUME NEW u \in Nat, NEW v \in Nat, NEW q \in 0..(w - 1), NEW r \in 0..(w - 1), u < v
      PROVE  u * w + q < v * w + r
  <2>1. u + 1 <= v  BY <1>1
  <2>2. (u + 1) * w <= v * w  BY <2>1
  <2>3. (u + 1) * w = u * w + w  OBVIOUS
  <2>4. u * w \in Nat /\ v * w \in Nat  OBVIOUS
  <2> QED  BY <2>2, <2>3, <2>4
<1>2. ~(c < d) /\ ~(d < c)
  <2>1. c * w + s \in Nat /\ d * w + t \in Nat  OBVIOUS
  <2> QED  BY <1>1, <2>1
<1>3. c = d  BY <1>2
<1>4. c * w \in Nat  OBVIOUS
<1> QED  BY <1>3, <1>4

LEMMA RolloutStarts == RolloutInit => RolloutInv
<1> SUFFICES ASSUME RolloutInit PROVE RolloutInv  OBVIOUS
<1>1. Control  BY DEF RolloutInit, Control
<1>2. ConditioningIsRight  BY DEF RolloutInit, ConditioningIsRight
<1> QED  BY <1>1, <1>2 DEF RolloutInit, RolloutInv

\* Between two predictor calls the last one stays as it was.
LEMMA ConditioningStays ==
  ASSUME ConditioningIsRight, UNCHANGED <<args, inputs>>
  PROVE  ConditioningIsRight'
<1>1. /\ nCand' = nCand /\ nSeed' = nSeed /\ horizon' = horizon /\ hist' = hist /\ given' = given
      /\ inputs' = inputs
  BY DEF args
<1> QED
  BY <1>1 DEF ConditioningIsRight, RightLatent, RightAction, RightPose, Cands

LEMMA RolloutFails ==
  ASSUME RolloutInv, RefuseRollout \/ PredictFails
  PROVE  RolloutInv'
<1>1. UNCHANGED <<args, step, j, act, st, tail, out, inputs>> /\ stage' = "failed"
  BY DEF RefuseRollout, PredictFails
<1>2. Control'  BY <1>1 DEF RolloutInv, Control, args
<1>3. ConditioningIsRight'  BY <1>1, ConditioningStays DEF RolloutInv
<1> QED  BY <1>1, <1>2, <1>3 DEF RolloutInv

LEMMA RolloutStays ==
  ASSUME RolloutInv, UNCHANGED rolloutVars
  PROVE  RolloutInv'
<1>1. /\ nCand' = nCand /\ nSeed' = nSeed /\ horizon' = horizon /\ hist' = hist /\ given' = given
      /\ stage' = stage /\ step' = step /\ j' = j /\ act' = act /\ st' = st /\ tail' = tail
      /\ out' = out /\ inputs' = inputs
  BY DEF rolloutVars, args
<1>2. ConditioningIsRight'  BY <1>1, ConditioningStays DEF RolloutInv, args
<1>3. Control'  BY <1>1 DEF RolloutInv, Control, Accepted, nSeq, nTailMax, T
<1>4. ASSUME NEW c \in Cands PROVE /\ stage' = "fill" => Filled(c)'
                                   /\ stage' \in {"fill", "done"} => Kept(c)'
  <2>1. (stage = "fill" => Filled(c)) /\ (stage \in {"fill", "done"} => Kept(c))  BY DEF RolloutInv
  <2>2. Filled(c) => Filled(c)'  BY <1>1 DEF Filled, nSeq, RightAction, RightPose
  <2>3. Kept(c) => Kept(c)'  BY <1>1 DEF Kept, nTailMax
  <2> QED  BY <1>1, <2>1, <2>2, <2>3
<1>5. Cands' = Cands  BY <1>1 DEF Cands
<1> QED  BY <1>2, <1>3, <1>4, <1>5 DEF RolloutInv

LEMMA RolloutAccept == ASSUME RolloutInv, Accept PROVE RolloutInv'
<1>1. /\ nCand' = nCand /\ nSeed' = nSeed /\ horizon' = horizon /\ hist' = hist /\ given' = given
      /\ step' = step /\ j' = j /\ inputs' = inputs /\ stage' = "fill"
      /\ nCand > 0 /\ nSeed > 0 /\ horizon > 0 /\ (PredictorSlots > 0 => nSeq <= PredictorSlots)
  BY DEF Accept, args
<1>2. /\ act' = [c \in Cands |-> [i \in 0..(nSeq - 1) |-> Unset]]
      /\ st' = [c \in Cands |-> [i \in 0..(nSeq - 1) |-> IF i < nSeed THEN SeedPose(i) ELSE Unset]]
      /\ DOMAIN tail' = 0..(nCand * nTailMax - 1)
      /\ DOMAIN out' = 0..(nCand * horizon - 1)
  BY DEF Accept
<1>3. step = 0 /\ j = 0 /\ nCand \in Nat /\ nSeed \in Nat /\ horizon \in Nat
  BY DEF Accept, RolloutInv, Control
<1>4. Control'
  <2>1. Accepted'  BY <1>1, <1>2 DEF Accepted, nSeq, nTailMax
  <2> QED  BY <1>1, <1>3, <2>1 DEF RolloutInv, Control, T
<1>5. ConditioningIsRight'  BY <1>1, ConditioningStays DEF RolloutInv, args
<1>6. ASSUME NEW c \in Cands PROVE Filled(c)' /\ Kept(c)'
  <2>1. nSeq' = nSeq /\ nSeq \in Nat /\ nSeed <= nSeq  BY <1>1, <1>3 DEF nSeq
  <2>2. /\ act'[c] = [i \in 0..(nSeq - 1) |-> Unset]
        /\ st'[c] = [i \in 0..(nSeq - 1) |-> IF i < nSeed THEN SeedPose(i) ELSE Unset]
    BY <1>2
  <2>3. \A i \in 0..(nSeed - 1) : st'[c][i] = SeedPose(i)  BY <1>3, <2>1, <2>2
  <2>4. 0..(j' - 1) = {} /\ 0..(step' - 1) = {}  BY <1>1, <1>3
  <2>5. /\ act'[c] = [i \in 0..(nSeq' - 1) |-> act'[c][i]]
        /\ st'[c] = [i \in 0..(nSeq' - 1) |-> st'[c][i]]
    BY <2>1, <2>2
  <2> QED  BY <1>1, <2>3, <2>4, <2>5 DEF Filled, Kept
<1>7. Cands' = Cands  BY <1>1 DEF Cands
<1> QED  BY <1>4, <1>5, <1>6, <1>7 DEF RolloutInv

\* What Fill writes at frame j is right there, and leaves the frames before it.
LEMMA RolloutFill == ASSUME RolloutInv, Fill PROVE RolloutInv'
<1>1. /\ nCand' = nCand /\ nSeed' = nSeed /\ horizon' = horizon /\ hist' = hist /\ given' = given
      /\ step' = step /\ j' = j + 1 /\ inputs' = inputs /\ stage' = stage /\ tail' = tail /\ out' = out
      /\ stage = "fill" /\ j < T
  BY DEF Fill, args
<1>2. /\ act' = [c \in Cands |-> [act[c] EXCEPT ![j] = ActionAt(c, j)]]
      /\ st' = [c \in Cands |-> [st[c] EXCEPT ![j] = PoseAt(c, j)]]
  BY DEF Fill
<1>3. /\ nCand \in Nat /\ nSeed \in Nat /\ horizon \in Nat /\ step \in Nat /\ j \in Nat
      /\ nSeed > 0 /\ step < horizon /\ Accepted
  BY <1>1 DEF RolloutInv, Control, Accepted
<1>4. j < nSeq /\ nSeq \in Nat /\ nSeq' = nSeq /\ nTailMax' = nTailMax /\ T' = T
  BY <1>1, <1>3 DEF T, nSeq, nTailMax
<1>5. Control'
  <2>1. Accepted'  BY <1>1, <1>3, <1>4 DEF Accepted
  <2>2. j + 1 <= T  BY <1>1, <1>3 DEF T
  <2> QED  BY <1>1, <1>3, <1>4, <2>1, <2>2 DEF RolloutInv, Control
<1>6. ConditioningIsRight'  BY <1>1, ConditioningStays DEF RolloutInv, args
<1>7. ASSUME NEW c \in Cands PROVE Filled(c)'
  <2>1. /\ act[c] = [i \in 0..(nSeq - 1) |-> act[c][i]]
        /\ st[c] = [i \in 0..(nSeq - 1) |-> st[c][i]]
        /\ \A i \in 0..(nSeed - 1) : st[c][i] = SeedPose(i)
        /\ \A i \in 0..(j - 1) : RightAction(c, i, act[c][i]) /\ RightPose(c, i, st[c], act[c])
    BY <1>1 DEF RolloutInv, Filled
  <2>2. act'[c] = [act[c] EXCEPT ![j] = ActionAt(c, j)] /\ st'[c] = [st[c] EXCEPT ![j] = PoseAt(c, j)]
    BY <1>2
  <2>3. DOMAIN act[c] = 0..(nSeq - 1) /\ DOMAIN st[c] = 0..(nSeq - 1)  BY <2>1
  <2>4. /\ act'[c] = [i \in 0..(nSeq - 1) |-> act'[c][i]]
        /\ st'[c] = [i \in 0..(nSeq - 1) |-> st'[c][i]]
    BY <2>2, <2>3
  <2>5. act'[c][j] = ActionAt(c, j) /\ st'[c][j] = PoseAt(c, j)  BY <1>3, <1>4, <2>2, <2>3
  <2>6. ASSUME NEW i \in 0..(nSeq - 1), i # j
        PROVE  act'[c][i] = act[c][i] /\ st'[c][i] = st[c][i]
    BY <2>2, <2>3, <2>6
  <2>7. \A i \in 0..(nSeed - 1) : st'[c][i] = SeedPose(i)
    <3> TAKE i \in 0..(nSeed - 1)
    <3>1. i \in 0..(nSeq - 1)  BY <1>3 DEF nSeq
    <3>2. i < nSeed  BY <1>3
    <3>3. PoseAt(c, i) = st[c][i]  BY <3>2 DEF PoseAt
    <3>4. st'[c][i] = st[c][i]  BY <2>5, <2>6, <3>1, <3>3
    <3> QED  BY <2>1, <3>4
  <2>8. ASSUME NEW i \in 0..(j' - 1) PROVE RightAction(c, i, act'[c][i])
    <3>1. CASE i = j
      <4>1. j - (nSeed - 1) <= step  BY <1>1, <1>3 DEF T
      <4> QED  BY <1>3, <2>5, <3>1, <4>1 DEF RightAction, ActionAt
    <3>2. CASE i # j
      <4>1. i \in 0..(j - 1) /\ i \in 0..(nSeq - 1)  BY <1>1, <1>3, <1>4, <2>8, <3>2
      <4> QED  BY <2>1, <2>6, <3>2, <4>1
    <3> QED  BY <3>1, <3>2
  <2>9. ASSUME NEW i \in 0..(j' - 1) PROVE RightPose(c, i, st'[c], act'[c])
    <3>0. i \in Nat /\ i <= j /\ i \in 0..(nSeq - 1)  BY <1>1, <1>3, <1>4, <2>9
    <3>1. CASE i < nSeed
      <4>1. i \in 0..(nSeed - 1)  BY <1>3, <3>0, <3>1
      <4> QED  BY <2>7, <3>1, <4>1 DEF RightPose
    <3>2. CASE ~(i < nSeed)
      <4>1. i - 1 \in 0..(nSeq - 1) /\ i - 1 # j  BY <1>3, <1>4, <3>0, <3>2
      <4>2. act'[c][i - 1] = act[c][i - 1] /\ st'[c][i - 1] = st[c][i - 1]  BY <2>6, <4>1
      <4>3. CASE i = j
        BY <2>5, <3>2, <4>2, <4>3 DEF RightPose, PoseAt
      <4>4. CASE i # j
        <5>1. i \in 0..(j - 1)  BY <1>3, <3>0, <4>4
        <5>2. RightPose(c, i, st[c], act[c]) /\ st'[c][i] = st[c][i]  BY <2>1, <2>6, <3>0, <4>4, <5>1
        <5> QED  BY <3>2, <4>2, <5>2 DEF RightPose
      <4> QED  BY <4>3, <4>4
    <3> QED  BY <3>1, <3>2
  <2>10. /\ \A i \in 0..(j' - 1) : RightAction(c, i, act[c][i])'
         /\ \A i \in 0..(j' - 1) : RightPose(c, i, st[c], act[c])'
    BY <1>1, <2>8, <2>9 DEF RightAction, RightPose
  <2> QED  BY <1>1, <1>4, <2>4, <2>7, <2>10 DEF Filled
<1>8. ASSUME NEW c \in Cands PROVE Kept(c)'
  <2>1. Kept(c)  BY <1>1 DEF RolloutInv
  <2> QED  BY <1>1, <1>4, <2>1 DEF Kept
<1>9. Cands' = Cands  BY <1>1 DEF Cands
<1> QED  BY <1>5, <1>6, <1>7, <1>8, <1>9 DEF RolloutInv

\* The call sees each candidate's own rows of the tail, whichever way they are passed,
\* and its prediction goes where no other row is.
LEMMA RolloutPredict == ASSUME RolloutInv, Predict PROVE RolloutInv'
<1>1. /\ nCand' = nCand /\ nSeed' = nSeed /\ horizon' = horizon /\ hist' = hist /\ given' = given
      /\ step' = step + 1 /\ j' = 0 /\ act' = act /\ st' = st
      /\ stage = "fill" /\ j = T
      /\ inputs' = CallNow
      /\ stage' = IF LastStep THEN "done" ELSE "fill"
  BY DEF Predict, args
<1>2. /\ nCand \in Nat /\ nSeed \in Nat /\ horizon \in Nat /\ step \in Nat /\ j \in Nat
      /\ nCand > 0 /\ nSeed > 0 /\ step < horizon /\ Accepted
  BY <1>1 DEF RolloutInv, Control, Accepted
<1>3. /\ nTailMax \in Nat /\ step <= nTailMax /\ nTailMax' = nTailMax /\ nSeq' = nSeq
      /\ T \in Nat /\ T <= nSeq /\ T' = T + 1
  BY <1>1, <1>2 DEF T, nSeq, nTailMax
<1>4. /\ out' = [x \in DOMAIN out |->
                   IF \E c \in Cands : x = OutRow(c)
                   THEN PredictedFrame(CHOOSE c \in Cands : x = OutRow(c), step) ELSE out[x]]
      /\ tail' = [x \in DOMAIN tail |->
                    IF step < nTailMax /\ \E c \in Cands : x = c * nTailMax + step
                    THEN PredictedFrame(CHOOSE c \in Cands : x = c * nTailMax + step, step) ELSE tail[x]]
  BY DEF Predict
<1>5. DOMAIN tail = 0..(nCand * nTailMax - 1) /\ DOMAIN out = 0..(nCand * horizon - 1)
  BY <1>2 DEF Accepted
<1>6. Control'
  <2>1. Accepted'  BY <1>1, <1>2, <1>3, <1>4, <1>5 DEF Accepted
  <2>2. stage' = "fill" => step + 1 < horizon  BY <1>1, <1>2 DEF LastStep
  <2>3. stage' = "done" => step + 1 = horizon  BY <1>1 DEF LastStep
  <2>4. stage' \in {"fill", "done"}  BY <1>1
  <2> QED  BY <1>1, <1>2, <1>3, <2>1, <2>2, <2>3, <2>4 DEF RolloutInv, Control
<1>7. Cands' = Cands /\ Cands \subseteq Nat /\ Cands = 0..(nCand - 1)
  BY <1>1 DEF Cands
<1>8. ASSUME NEW c \in Cands, NEW s \in 0..step
      PROVE  /\ stage' = "fill" => tail'[c * nTailMax + s] = PredictedFrame(c, s)
             /\ out'[c * horizon + s] = PredictedFrame(c, s)
  <2>1. \A r \in 0..(step - 1) : /\ tail[c * nTailMax + r] = PredictedFrame(c, r)
                                 /\ out[c * horizon + r] = PredictedFrame(c, r)
    BY <1>1 DEF RolloutInv, Kept
  <2>2. c \in Nat /\ s \in Nat /\ step \in Nat /\ horizon \in Nat /\ s \in 0..(horizon - 1)
    BY <1>2, <1>7, <1>8
  <2>3. out'[c * horizon + s] = PredictedFrame(c, s)
    <3>1. c * horizon + s \in DOMAIN out  BY <1>2, <1>5, <1>7, <2>2, SlotInside
    <3>2. \A d \in Cands : c * horizon + s = OutRow(d) => d = c /\ s = step
      <4> TAKE d \in Cands
      <4>1. d \in Nat /\ step \in 0..(horizon - 1)  BY <1>2, <1>7
      <4> QED  BY <2>2, <4>1, SlotsDiffer DEF OutRow
    <3>3. CASE s = step
      <4>1. c * horizon + s = OutRow(c)  BY <3>3 DEF OutRow
      <4>2. c = CHOOSE d \in Cands : c * horizon + s = OutRow(d)  BY <3>2, <4>1
      <4>3. out'[c * horizon + s] =
              PredictedFrame(CHOOSE d \in Cands : c * horizon + s = OutRow(d), step)
        BY <1>4, <3>1, <4>1
      <4> QED  BY <3>3, <4>2, <4>3
    <3>4. CASE s # step
      <4>1. out'[c * horizon + s] = out[c * horizon + s]  BY <1>4, <3>1, <3>2, <3>4
      <4>2. s \in 0..(step - 1)  BY <1>8, <2>2, <3>4
      <4> QED  BY <2>1, <4>1, <4>2
    <3> QED  BY <3>3, <3>4
  <2>4. ASSUME stage' = "fill" PROVE tail'[c * nTailMax + s] = PredictedFrame(c, s)
    <3>0. step < nTailMax /\ s \in 0..(nTailMax - 1) /\ step \in 0..(nTailMax - 1)
      BY <1>1, <1>2, <1>3, <2>2, <2>4 DEF LastStep, nTailMax
    <3>1. c * nTailMax + s \in DOMAIN tail  BY <1>2, <1>3, <1>5, <1>7, <3>0, SlotInside
    <3>2. \A d \in Cands : c * nTailMax + s = d * nTailMax + step => d = c /\ s = step
      <4> TAKE d \in Cands
      <4>1. d \in Nat  BY <1>7
      <4> QED  BY <1>3, <2>2, <3>0, <4>1, SlotsDiffer
    <3>3. CASE s = step
      <4>1. c * nTailMax + s = c * nTailMax + step  BY <3>3
      <4>2. c = CHOOSE d \in Cands : c * nTailMax + s = d * nTailMax + step  BY <3>2, <4>1
      <4>3. tail'[c * nTailMax + s] =
              PredictedFrame(CHOOSE d \in Cands : c * nTailMax + s = d * nTailMax + step, step)
        BY <1>4, <3>0, <3>1, <4>1
      <4> QED  BY <3>3, <4>2, <4>3
    <3>4. CASE s # step
      <4>1. tail'[c * nTailMax + s] = tail[c * nTailMax + s]  BY <1>4, <3>1, <3>2, <3>4
      <4>2. s \in 0..(step - 1)  BY <1>8, <2>2, <3>4
      <4> QED  BY <2>1, <4>1, <4>2
    <3> QED  BY <3>3, <3>4
  <2> QED  BY <2>3, <2>4
<1>9. ASSUME NEW c \in Cands PROVE Kept(c)'
  <2>1. 0..(step' - 1) = 0..step  BY <1>1, <1>2
  <2> QED  BY <1>1, <1>3, <1>8, <2>1 DEF Kept, PredictedFrame
<1>10. ASSUME NEW c \in Cands PROVE Filled(c)'
  <2>1. Filled(c)  BY <1>1 DEF RolloutInv
  <2>2. 0..(j' - 1) = {}  BY <1>1
  <2> QED  BY <1>1, <1>3, <2>1, <2>2 DEF Filled
<1>11. ASSUME NEW c \in Cands, NEW i \in 0..(T - 1)
       PROVE  /\ RightLatent(c, i, CallNow.latents[c][i])
              /\ RightAction(c, i, CallNow.actions[c][i])
              /\ RightPose(c, i, CallNow.poses[c], CallNow.actions[c])
  <2>1. /\ CallNow.latents[c][i] = IF i < nSeed THEN SeedFrame(i) ELSE TailRow(c, i - nSeed)
        /\ CallNow.actions[c] = [k \in 0..(T - 1) |-> act[c][k]]
        /\ CallNow.poses[c] = [k \in 0..(T - 1) |-> st[c][k]]
    BY DEF CallNow
  <2>2. Filled(c) /\ Kept(c)  BY <1>1 DEF RolloutInv
  <2>3. RightAction(c, i, act[c][i]) /\ RightPose(c, i, st[c], act[c])
    BY <1>1, <2>2 DEF Filled
  <2>4. RightLatent(c, i, CallNow.latents[c][i])
    <3>1. ASSUME ~(i < nSeed) PROVE TailRow(c, i - nSeed) = PredictedFrame(c, i - nSeed)
      <4>1. i - nSeed \in 0..(step - 1)  BY <1>2, <3>1 DEF T
      <4>2. tail[c * nTailMax + (i - nSeed)] = PredictedFrame(c, i - nSeed)
        BY <1>1, <2>2, <4>1 DEF Kept
      <4> QED  BY <4>2 DEF TailRow
    <3> QED  BY <2>1, <3>1 DEF RightLatent
  <2>5. RightAction(c, i, CallNow.actions[c][i])  BY <2>1, <2>3
  <2>6. RightPose(c, i, CallNow.poses[c], CallNow.actions[c])
    <3>1. i \in Int /\ (~(i < nSeed) => i - 1 \in 0..(T - 1))  BY <1>2, <1>3
    <3>2. /\ CallNow.poses[c][i] = st[c][i]
          /\ ~(i < nSeed) => /\ CallNow.poses[c][i - 1] = st[c][i - 1]
                             /\ CallNow.actions[c][i - 1] = act[c][i - 1]
      BY <2>1, <3>1
    <3>3. st[c][i] = IF i < nSeed THEN SeedPose(i)
                     ELSE IF given THEN GivenPose(c, i - nSeed)
                     ELSE NextPose(st[c][i - 1], act[c][i - 1])
      BY <2>3 DEF RightPose
    <3> QED  BY <3>2, <3>3 DEF RightPose
  <2> QED  BY <2>4, <2>5, <2>6
<1>12. ConditioningIsRight'
  <2>1. inputs'.frames = T  BY <1>1 DEF CallNow
  <2> QED
    BY <1>1, <1>7, <1>11, <2>1 DEF ConditioningIsRight, RightLatent, RightAction, RightPose
<1> QED  BY <1>1, <1>6, <1>7, <1>9, <1>10, <1>12 DEF RolloutInv

LEMMA RolloutKeeps == RolloutInv /\ [RolloutNext]_rolloutVars => RolloutInv'
<1> SUFFICES ASSUME RolloutInv, [RolloutNext]_rolloutVars PROVE RolloutInv'
  OBVIOUS
<1>1. CASE RefuseRollout \/ PredictFails  BY <1>1, RolloutFails
<1>2. CASE Accept  BY <1>2, RolloutAccept
<1>3. CASE Fill  BY <1>3, RolloutFill
<1>4. CASE Predict  BY <1>4, RolloutPredict
<1>5. CASE Returned \/ UNCHANGED rolloutVars  BY <1>5, RolloutStays DEF Returned
<1> QED  BY <1>1, <1>2, <1>3, <1>4, <1>5 DEF RolloutNext

\* In every rollout, whatever its candidates, observed frames and steps, each predictor
\* call sees the right history of every candidate, no accepted call runs out of frame
\* slots, and the output rows are the candidates' own (ac_rollout).
THEOREM RolloutHolds ==
  RolloutSpec => []RolloutIsRight
<1>1. RolloutInv => RolloutIsRight
  <2> SUFFICES ASSUME RolloutInv PROVE RolloutIsRight  OBVIOUS
  <2>1. ConditioningIsRight  BY DEF RolloutInv
  <2>2. RowsAreTheCandidates
    <3> SUFFICES ASSUME stage = "done", NEW c \in Cands, NEW s \in 0..(horizon - 1)
                 PROVE  out[c * horizon + s] = PredictedFrame(c, s)
      BY DEF RowsAreTheCandidates
    <3>1. step = horizon /\ Kept(c)  BY DEF RolloutInv, Control
    <3> QED  BY <3>1 DEF Kept
  <2>3. SlotsSuffice
    <3> SUFFICES ASSUME stage = "fill", PredictorSlots > 0 PROVE T <= PredictorSlots  BY DEF SlotsSuffice
    <3>1. /\ nSeed \in Nat /\ horizon \in Nat /\ step \in Nat /\ step < horizon
          /\ nSeq <= PredictorSlots
      BY DEF RolloutInv, Control, Accepted
    <3> QED  BY <3>1, RolloutAssumption DEF T, nSeq
  <2> QED  BY <2>1, <2>2, <2>3 DEF RolloutIsRight
<1> QED  BY <1>1, RolloutStarts, RolloutKeeps, PTL DEF RolloutSpec
=============================================================================
