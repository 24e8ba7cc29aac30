----------------------------- MODULE SlidingWindow -----------------------------
(***************************************************************************)
(* What a cached planning context promises (include/jepa.h): it is the     *)
(* last few observed frames, oldest first, each with the pose at it, and   *)
(* the actions between them.                                               *)
(***************************************************************************)
EXTENDS Integers, Sequences

CONSTANTS Slots, MaxTime

VARIABLES
    frames,  \* the frames in the window, <<>> when there is no handle
    moves,   \* the action from each frame to the next, 0 where it is unknown
    room     \* the most frames the window can hold

windowVars == <<frames, moves, room>>

Frame(k) == [latent |-> k, pose |-> k]

WindowInit == frames = <<>> /\ moves = <<>> /\ room = 0

\* A window is as large as the predictor's frame slots, or as the first frames
\* when the model does not say.
Open ==
    /\ frames = <<>>
    /\ \E k \in 1..MaxTime, known \in BOOLEAN :
         /\ IF Slots > 0 THEN k <= Slots /\ room' = Slots ELSE room' = k
         /\ frames' = [i \in 1..k |-> Frame(i)]
         /\ moves' = [i \in 1..(k - 1) |-> IF known THEN i ELSE 0]

\* The next frame arrives with the action that led to it.
Observe ==
    /\ frames # <<>>
    /\ Len(frames) < room
    /\ LET k == frames[Len(frames)].latent IN
         /\ frames' = Append(frames, Frame(k + 1))
         /\ moves' = Append(moves, k)
    /\ UNCHANGED room

\* All but the last k frames are forgotten.
Forget ==
    /\ frames # <<>>
    /\ \E k \in 1..(Len(frames) - 1) :
         /\ frames' = SubSeq(frames, Len(frames) - k + 1, Len(frames))
         /\ moves' = SubSeq(moves, Len(frames) - k + 1, Len(frames) - 1)
    /\ UNCHANGED room

Discard == frames # <<>> /\ frames' = <<>> /\ moves' = <<>> /\ room' = 0

WindowNext == Open \/ Observe \/ Forget \/ Discard

WindowSpec == WindowInit /\ [][WindowNext]_windowVars
=============================================================================
