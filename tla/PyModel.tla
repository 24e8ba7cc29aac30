--------------------------------- MODULE PyModel --------------------------------
(***************************************************************************)
(* The Python class Model (python/src/jepa_cpp/model.py): one jepa_model   *)
(* and one jepa_context, shared by the threads that call its methods.      *)
(* ctypes releases the interpreter lock around every library call, so      *)
(* other threads run between any two steps below.                          *)
(*                                                                         *)
(* A method is a sequence of sections.  "model" and "frame" ones read      *)
(* self._mp and call the library with it, "context" ones self._handle(),   *)
(* without the lock; "graph" ones hold the re-entrant lock, and so do      *)
(* "plan" ones, which run the caller's randn inside.  Every library call   *)
(* of a frame, graph or plan section is preceded by jepa_error_reset and,  *)
(* when it fails, quoted by jepa_error_text, a buffer of the thread.       *)
(*                                                                         *)
(* A thread's stack holds its calls, the innermost last: a randn callback  *)
(* may call the same Model again.                                          *)
(***************************************************************************)
EXTENDS Integers, Sequences, SequencesExt

CONSTANTS
    Threads,
    Methods,       \* the methods called: a subset of DOMAIN Sections
    InCallback,    \* those and "close" that callbacks call
    MaxCalls,      \* bound: calls a thread makes, those of its callbacks included
    MaxNested,     \* bound: calls on a stack
    NoThread

-----------------------------------------------------------------------------
\* What each method does, in order.  A batch pools or classifies item by item; one
\* item stands for them.
introspection == <<"model">>
settings      == <<"context">>
token_grid    == <<"model">>
preprocess    == <<"model", "frame">>
encode        == preprocess \o <<"graph", "graph">>
pool          == <<"graph">>
classify      == <<"model">> \o preprocess \o <<"graph", "model", "graph">>
predict       == <<"graph">>
lewm          == <<"graph">>
hjepa_reads   == <<"model", "model">>
hjepa_call    == <<"graph">>
hjepa_embed   == <<"model">> \o hjepa_call
hjepa_states  == preprocess \o <<"graph", "model">> \o hjepa_embed \o <<"model">> \o hjepa_call
hjepa_horizons  == <<"frame">>
hjepa_plan_cost == <<"graph">>
hjepa_solve   == <<"model", "model", "plan">>
hjepa_plan    == <<"model", "model", "plan">>

Sections ==
    [introspection |-> introspection, settings |-> settings, token_grid |-> token_grid,
     preprocess |-> preprocess, encode |-> encode, pool |-> pool, classify |-> classify,
     predict |-> predict, lewm |-> lewm, hjepa_reads |-> hjepa_reads, hjepa_call |-> hjepa_call,
     hjepa_embed |-> hjepa_embed, hjepa_states |-> hjepa_states, hjepa_horizons |-> hjepa_horizons,
     hjepa_plan_cost |-> hjepa_plan_cost, hjepa_solve |-> hjepa_solve, hjepa_plan |-> hjepa_plan]

Locked == {"graph", "plan"}
Reporting == {"frame"} \cup Locked     \* sections whose library call is reset before, quoted after

\* NoThread holds the lock when it is free, and a callback must not call close.
ASSUME PyAssumption ==
    /\ NoThread \notin Threads
    /\ Methods \subseteq DOMAIN Sections
    /\ "close" \notin InCallback

VARIABLES
    model, ctx,     \* the library's objects: none, live, freed, or freed twice
    pyModel, pyCtx, \* self._model and self._ctx are not None
    phase,          \* of __init__: new, loaded, ready; failed when it raised
    stack,          \* the calls each thread is in: [id, at, left, broken]
    log,            \* the thread's error buffer: the calls whose lines are in it
    holder, depth,  \* of self._lock
    begun           \* calls made

handles == <<model, ctx, pyModel, pyCtx>>
pyVars == <<handles, phase, stack, log, holder, depth, begun>>

PyInit ==
    /\ model = "none" /\ ctx = "none"
    /\ pyModel = FALSE /\ pyCtx = FALSE
    /\ phase = "new"
    /\ stack = [t \in Threads |-> <<>>]
    /\ log = [t \in Threads |-> {}]
    /\ holder = NoThread /\ depth = 0
    /\ begun = [t \in Threads |-> 0]

\* What jepa_model_free and jepa_context_free leave of an object.
Freed(object) == IF object = "live" THEN "freed" ELSE "twice"

-----------------------------------------------------------------------------
\* __init__ loads the file, then builds a context; a failure raises.
Load ==
    /\ phase = "new"
    /\ \/ phase' = "failed" /\ UNCHANGED handles
       \/ phase' = "loaded" /\ model' = "live" /\ pyModel' = TRUE /\ UNCHANGED <<ctx, pyCtx>>
    /\ UNCHANGED <<stack, log, holder, depth, begun>>

MakeContext ==
    /\ phase = "loaded"
    /\ \/ /\ phase' = "failed" /\ model' = Freed(model) /\ pyModel' = FALSE
          /\ UNCHANGED <<ctx, pyCtx>>
       \/ /\ phase' = "ready" /\ ctx' = "live" /\ pyCtx' = TRUE
          /\ UNCHANGED <<model, pyModel>>
    /\ UNCHANGED <<stack, log, holder, depth, begun>>

-----------------------------------------------------------------------------
Top(t) == Last(stack[t])
At(t, at) == stack[t] # <<>> /\ Top(t).at = at
Section(t) == Head(Top(t).left)
Becomes(t, frame) == stack' = [stack EXCEPT ![t] = Append(Front(@), frame)]
Turn(t, at) == Becomes(t, [Top(t) EXCEPT !.at = at])
Pop(t) == stack' = [stack EXCEPT ![t] = Front(@)]
\* The section is over: on to the next one of the method, or back to the caller.
Proceed(t) ==
    IF Len(Top(t).left) = 1 THEN Pop(t)
    ELSE Becomes(t, [Top(t) EXCEPT !.at = "next", !.left = Tail(@)])

\* Mutant: the buffer is not emptied first.
Reset_Keeps(t) == UNCHANGED log
Reset(t) == log' = [log EXCEPT ![t] = {}]
\* jepa_log appends to the thread's buffer.
Report(t) == log' = [log EXCEPT ![t] = @ \cup {Top(t).id}]

\* A call starts in a thread's own code or in a callback of the planner.
Starts(t, method) ==
    /\ phase = "ready" /\ begun[t] < MaxCalls
    /\ \/ stack[t] = <<>>
       \/ At(t, "callback") /\ method \in InCallback /\ Len(stack[t]) < MaxNested
    /\ begun' = [begun EXCEPT ![t] = @ + 1]
Push(t, at, left) ==
    stack' = [stack EXCEPT ![t] = Append(@, [id |-> begun[t] + 1, at |-> at, left |-> left,
                                             broken |-> FALSE])]

Call(t) ==
    \E m \in Methods : Starts(t, m) /\ Push(t, "next", Sections[m])
                       /\ UNCHANGED <<handles, phase, log, holder, depth>>

-----------------------------------------------------------------------------
\* The unlocked sections: the handle is read, then the library called with it.  A
\* closed Model raises and calls nothing.
Handle(section) == pyModel /\ (section = "context" => pyCtx)
Fetch(t) ==
    /\ At(t, "next") /\ Section(t) \notin Locked
    /\ IF Handle(Section(t)) THEN Turn(t, "fetched") ELSE Pop(t)
    /\ UNCHANGED <<handles, phase, log, holder, depth, begun>>
Read(t) ==
    /\ At(t, "fetched") /\ Turn(t, "reading")
    /\ IF Section(t) \in Reporting THEN Reset(t) ELSE UNCHANGED log
    /\ UNCHANGED <<handles, phase, holder, depth, begun>>
ReadReturns(t) ==
    /\ At(t, "reading")
    /\ \/ Proceed(t) /\ UNCHANGED log
       \/ Section(t) \in Reporting /\ Report(t) /\ Turn(t, "failed")
    /\ UNCHANGED <<handles, phase, holder, depth, begun>>
\* The exception quotes the buffer and ends the call.
Raise(t) == At(t, "failed") /\ Pop(t) /\ UNCHANGED <<handles, phase, log, holder, depth, begun>>

-----------------------------------------------------------------------------
\* Mutant: a lock that does not know its owner.
Available_NotReentrant(t) == holder = NoThread

\* threading.RLock
Available(t) == holder \in {NoThread, t}
Lock(t) == Available(t) /\ holder' = t /\ depth' = depth + 1
Unlock ==
    /\ depth' = depth - 1
    /\ holder' = IF depth = 1 THEN NoThread ELSE holder

\* A closed Model raises as soon as the lock is held.
Enter(t) ==
    /\ At(t, "next") /\ Section(t) \in Locked
    /\ IF pyModel /\ pyCtx THEN Lock(t) /\ Turn(t, "inside") /\ Reset(t)
       ELSE Available(t) /\ Pop(t) /\ UNCHANGED <<log, holder, depth>>
    /\ UNCHANGED <<handles, phase, begun>>

\* The planner draws its noise with the caller's randn, which is not called again
\* once it raised.
CallBack(t) ==
    /\ At(t, "inside") /\ Section(t) = "plan" /\ ~Top(t).broken
    /\ Turn(t, "callback")
    /\ UNCHANGED <<handles, phase, log, holder, depth, begun>>
BackFromCallback(t) ==
    /\ At(t, "callback")
    /\ \E raised \in BOOLEAN : Becomes(t, [Top(t) EXCEPT !.at = "inside", !.broken = raised])
    /\ UNCHANGED <<handles, phase, log, holder, depth, begun>>

\* The library call returned or failed; its output was copied.  What a callback
\* raised comes out first.
Leave(t) ==
    /\ At(t, "inside")
    /\ Unlock
    /\ \/ /\ IF Top(t).broken THEN Pop(t) ELSE Proceed(t)
          /\ UNCHANGED log
       \/ /\ IF Top(t).broken THEN Pop(t) ELSE Turn(t, "failed")
          /\ Report(t)
    /\ UNCHANGED <<handles, phase, begun>>

-----------------------------------------------------------------------------
Close(t) == Starts(t, "close") /\ Push(t, "close", <<>>) /\ UNCHANGED <<handles, phase, log, holder, depth>>

\* Mutant: close does not wait for the calls in progress.
CloseContext_NoLock(t) ==
    /\ At(t, "close")
    /\ ctx' = IF pyCtx THEN Freed(ctx) ELSE ctx
    /\ Turn(t, "close context")
    /\ holder' = t /\ depth' = depth + 1
    /\ UNCHANGED <<model, pyModel, pyCtx, phase, log, begun>>

\* The context goes first: it was built from the model.
CloseContext(t) ==
    /\ At(t, "close")
    /\ Lock(t)
    /\ ctx' = IF pyCtx THEN Freed(ctx) ELSE ctx
    /\ Turn(t, "close context")
    /\ UNCHANGED <<model, pyModel, pyCtx, phase, log, begun>>
CloseModel(t) ==
    /\ At(t, "close context")
    /\ pyCtx' = FALSE
    /\ model' = IF pyModel THEN Freed(model) ELSE model
    /\ Turn(t, "close model")
    /\ UNCHANGED <<ctx, pyModel, phase, log, holder, depth, begun>>
Closed(t) ==
    /\ At(t, "close model")
    /\ pyModel' = FALSE
    /\ Unlock /\ Pop(t)
    /\ UNCHANGED <<model, ctx, pyCtx, phase, log, begun>>

-----------------------------------------------------------------------------
Step(t) ==
    \/ Fetch(t) \/ Read(t) \/ ReadReturns(t) \/ Raise(t)
    \/ Enter(t) \/ BackFromCallback(t) \/ Leave(t)
    \/ CloseContext(t) \/ CloseModel(t) \/ Closed(t)

PyNext ==
    \/ Load \/ MakeContext
    \/ \E t \in Threads : Call(t) \/ Close(t) \/ CallBack(t) \/ Step(t)

\* A thread that can go on does, and a planner draws noise only finitely often.
\* Nothing is assumed of the lock: calls are bounded, so it becomes free for good.
PyFairness == \A t \in Threads : WF_pyVars(Step(t)) /\ SF_pyVars(Leave(t))

PySpec == PyInit /\ [][PyNext]_pyVars /\ PyFairness

-----------------------------------------------------------------------------
(***************************************************************************)
(* Sections that run graphs are serialised, and never see a freed handle:  *)
(* whoever is in one, its callbacks included, owns the lock, and both      *)
(* objects live until it has returned.  Each object is freed at most once, *)
(* the context first.  A callback must not call close.                     *)
(***************************************************************************)
GraphsOnLiveHandles ==
    /\ \A t \in Threads : \A i \in DOMAIN stack[t] :
          stack[t][i].at \in {"inside", "callback"} => holder = t /\ model = "live" /\ ctx = "live"
    /\ model # "twice" /\ ctx # "twice"
    /\ model = "freed" => ctx # "live"

\* What a failed call quotes has its own reason in it, and nothing of an earlier
\* call: at most what the calls of its own callbacks left.
MessagesAreOfTheCall ==
    \A t \in Threads : At(t, "failed") =>
        Top(t).id \in log[t] /\ \A id \in log[t] : id >= Top(t).id

\* Every call returns: callbacks that use the Model again, close and calls on a
\* closed Model never wait for one another for ever.
EveryCallReturns == \A t \in Threads : stack[t] # <<>> ~> stack[t] = <<>>

\* include/jepa.h:620: jepa_model_free must not overlap with any use of the model.
FreeOverlapsNoUse == \A t \in Threads : At(t, "reading") => model = "live"
=============================================================================
