------------------------------- MODULE AcContext -------------------------------
(***************************************************************************)
(* The cached planning context of V-JEPA 2-AC (src/vjepa2_ac.cpp): a slab  *)
(* of frame slots on the device, the poses and actions beside it, and one  *)
(* view over the used part, all re-used in place by a receding-horizon     *)
(* planner: new, then update, trim and rollout in any order, then free.    *)
(*                                                                         *)
(* Frame k is the k-th the planner observed; its latents, its pose and the *)
(* action taken at it are all represented by k.  0 is what a slot holds    *)
(* before anything was written to it.                                      *)
(***************************************************************************)
EXTENDS Integers, Sequences

CONSTANTS
    Contexts,  \* jepa_contexts
    Slots,     \* jepa.pred.n_frames, 0 when the file declares none
    MaxTime,   \* bound: frames observed over the life of a handle
    MaxHorizon,\* bound: steps of a rollout
    None

ASSUME WindowAssumption ==
    /\ Contexts # {} /\ None \notin Contexts
    /\ Slots \in Nat /\ MaxTime \in Nat \ {0} /\ MaxHorizon \in Nat \ {0}

VARIABLES
    owner,    \* the context the handle was built for, None without a handle
    cap, n,   \* h->cap and h->n_frames
    slab,     \* the frame whose latents each slot holds
    poses,    \* h->states
    acts,     \* h->actions: acts[i] leads from the frame in slot i to the next
    view,     \* frames the view over the slab covers
    now,      \* the frame observed last
    since,    \* the caller gave every action from this frame on
    cond,     \* the conditioning the last rollout read
    rc        \* what the last call returned

slots == <<slab, poses, acts>>
vars == <<owner, cap, n, slots, view, now, since, cond, rc>>

NoCond == [latents |-> <<>>, poses |-> <<>>, acts |-> <<>>]

Init ==
    /\ owner = None /\ cap = 0 /\ n = 0 /\ view = 0
    /\ slab = <<>> /\ poses = <<>> /\ acts = <<>>
    /\ now = 0 /\ since = 1
    /\ cond = NoCond /\ rc = 0

Refuse == rc' = -1 /\ UNCHANGED <<owner, cap, n, slots, view, now, since, cond>>

(* jepa_ac_context_new.  More frames than slots are refused, and the slab    *)
(* may be over the memory limit or fail to allocate.                         *)
Capacity(k) == IF Slots > 0 THEN Slots ELSE k

New(ctx) ==
    /\ owner = None
    /\ \E k \in 1..MaxTime, known \in BOOLEAN :
         \/ Refuse
         \/ /\ k <= Capacity(k)
            /\ owner' = ctx /\ cap' = Capacity(k) /\ n' = k /\ view' = k
            /\ slab' = [i \in 1..Capacity(k) |-> IF i <= k THEN i ELSE 0]
            /\ poses' = [i \in 1..Capacity(k) |-> IF i <= k THEN i ELSE 0]
            /\ acts' = [i \in 1..Capacity(k) |-> IF known /\ i < k THEN i ELSE 0]
            /\ now' = k /\ since' = IF known THEN 1 ELSE k
            /\ rc' = 0 /\ UNCHANGED cond

\* Mutant: the action is stored beside the new frame, not the one it left.
Update_ActionAtNew ==
    /\ owner # None /\ now < MaxTime
    /\ IF n >= cap THEN Refuse
       ELSE /\ slab' = [slab EXCEPT ![n + 1] = now + 1]
            /\ acts' = [acts EXCEPT ![n + 1] = now]
            /\ poses' = [poses EXCEPT ![n + 1] = now + 1]
            /\ n' = n + 1 /\ view' = n + 1
            /\ now' = now + 1
            /\ rc' = 0 /\ UNCHANGED <<owner, cap, since, cond>>

\* jepa_ac_context_update with the next frame and the action that led to it.  A
\* refused frame is not in the handle: the caller trims and gives it again.
Update ==
    /\ owner # None /\ now < MaxTime
    /\ IF n >= cap THEN Refuse
       ELSE /\ slab' = [slab EXCEPT ![n + 1] = now + 1]
            /\ acts' = [acts EXCEPT ![n] = now]
            /\ poses' = [poses EXCEPT ![n + 1] = now + 1]
            /\ n' = n + 1 /\ view' = n + 1
            /\ now' = now + 1
            /\ rc' = 0 /\ UNCHANGED <<owner, cap, since, cond>>

\* The first k entries of an array become those from drop on; the rest stays.
Shifted(a, drop, k) == [i \in 1..cap |-> IF i <= k THEN a[i + drop] ELSE a[i]]

\* Mutant: the view keeps the extents it had.
Trim_NoReview ==
    /\ owner # None
    /\ \E k \in 0..MaxTime :
         IF k = 0 THEN Refuse
         ELSE IF k >= n THEN rc' = 0 /\ UNCHANGED <<owner, cap, n, slots, view, now, since, cond>>
         ELSE /\ slab' = Shifted(slab, n - k, k)
              /\ acts' = Shifted(acts, n - k, k - 1)
              /\ poses' = Shifted(poses, n - k, k)
              /\ n' = k
              /\ rc' = 0 /\ UNCHANGED <<owner, cap, view, now, since, cond>>

\* Mutant: the poses stay where they were.
Trim_KeepsPoses ==
    /\ owner # None
    /\ \E k \in 0..MaxTime :
         IF k = 0 THEN Refuse
         ELSE IF k >= n THEN rc' = 0 /\ UNCHANGED <<owner, cap, n, slots, view, now, since, cond>>
         ELSE /\ slab' = Shifted(slab, n - k, k)
              /\ acts' = Shifted(acts, n - k, k - 1)
              /\ n' = k /\ view' = k
              /\ rc' = 0 /\ UNCHANGED <<owner, cap, poses, now, since, cond>>

\* jepa_ac_context_trim: the last k frames move to the front.
Trim ==
    /\ owner # None
    /\ \E k \in 0..MaxTime :
         IF k = 0 THEN Refuse
         ELSE IF k >= n THEN rc' = 0 /\ UNCHANGED <<owner, cap, n, slots, view, now, since, cond>>
         ELSE /\ slab' = Shifted(slab, n - k, k)
              /\ acts' = Shifted(acts, n - k, k - 1)
              /\ poses' = Shifted(poses, n - k, k)
              /\ n' = k /\ view' = k
              /\ rc' = 0 /\ UNCHANGED <<owner, cap, now, since, cond>>

\* jepa_ac_rollout_cached: the handle belongs to one context, and the last step
\* must not condition on more frames than the predictor has slots.  The graph
\* reads the latents through the view, poses and actions by n_frames.
Rollout(ctx) ==
    /\ owner # None
    /\ \E h \in 1..MaxHorizon :
         IF ctx # owner \/ (Slots > 0 /\ n + h - 1 > Slots) THEN Refuse
         ELSE /\ cond' = [latents |-> SubSeq(slab, 1, view),
                          poses |-> SubSeq(poses, 1, n),
                          acts |-> SubSeq(acts, 1, n - 1)]
              /\ rc' = 0 /\ UNCHANGED <<owner, cap, n, slots, view, now, since>>

Free ==
    /\ owner # None
    /\ owner' = None /\ cap' = 0 /\ n' = 0 /\ view' = 0
    /\ slab' = <<>> /\ poses' = <<>> /\ acts' = <<>>
    /\ now' = 0 /\ since' = 1 /\ cond' = NoCond
    /\ UNCHANGED rc

Next ==
    \/ \E ctx \in Contexts : New(ctx) \/ Rollout(ctx)
    \/ Update \/ Trim \/ Free

Spec == Init /\ [][Next]_vars

-----------------------------------------------------------------------------
\* The types of the variables, and the slab's size: the handle never holds more
\* frames than it has slots.
TypeOK ==
    /\ owner \in Contexts \cup {None}
    /\ cap \in Nat /\ n \in 0..cap /\ view \in 0..cap
    /\ slab \in [1..cap -> Nat] /\ poses \in [1..cap -> Nat] /\ acts \in [1..cap -> Nat]
    /\ now \in 0..MaxTime /\ since \in 1..MaxTime
    /\ rc \in {0, -1}
    /\ owner # None => n > 0

(***************************************************************************)
(* However often the slots were shifted and re-used, slot i holds the i-th *)
(* of the last n frames with the pose at that frame, the action in slot i  *)
(* is the one taken there, and the view covers exactly those frames.       *)
(***************************************************************************)
Known(k) == IF k >= since THEN k ELSE 0
WindowIsRecent ==
    owner # None =>
        /\ view = n
        /\ \A i \in 1..n : slab[i] = now - n + i /\ poses[i] = now - n + i
        /\ \A i \in 1..(n - 1) : acts[i] = Known(now - n + i)

(***************************************************************************)
(* A rollout is conditioned on a run of consecutive frames that ends with  *)
(* the one observed last, with as many poses and the actions between them: *)
(* nothing stale, unwritten or shifted against the rest is ever read.      *)
(***************************************************************************)
Recent(c) ==
    /\ Len(c.latents) = Len(c.poses) /\ Len(c.acts) = Len(c.poses) - 1
    /\ \A i \in DOMAIN c.latents :
         c.latents[i] = now - Len(c.latents) + i /\ c.poses[i] = c.latents[i]
    /\ \A i \in DOMAIN c.acts : c.acts[i] = Known(c.latents[i])
RolloutReadsWindow ==
    [][cond' # cond /\ owner' # None => Recent(cond')]_vars

\* The handle is a sliding window over the planner's observations.
Window == INSTANCE SlidingWindow WITH
    frames <- [i \in 1..n |-> [latent |-> slab[i], pose |-> poses[i]]],
    moves <- [i \in 1..(n - 1) |-> acts[i]],
    room <- cap

ImplementsWindow == Window!WindowSpec
=============================================================================
