------------------------------ MODULE ServeEngine ------------------------------
(***************************************************************************)
(* The request engine of jepa-server (tools/jepa-server.cpp): HTTP handler *)
(* threads turn a request into a Job of one or more Tasks and queue them;  *)
(* one dispatcher thread forms batches from the queue; a pool of workers   *)
(* runs a batch each; the main thread drains and joins everything.         *)
(*                                                                         *)
(* One action is one critical section, or one step outside any lock.  The  *)
(* scheduling order of the queue is kept as a relation (ahead), so that    *)
(* the queue, a batch and the idle workers are sets.                       *)
(***************************************************************************)
EXTENDS Integers, FiniteSets

CONSTANTS
    Clients,    \* connections, each served by an HTTP thread, one request at a time
    Workers,    \* worker threads (--workers), each with a jepa_context of its own
    Shapes,     \* the clip shapes T x h x w an encode task may have
    Rollout,    \* the form of a rollout task, which is grouped with nothing
    MaxItems,   \* most items in one request (--max-items)
    MaxBatch,   \* eff_max_batch, the most tasks in one batch
    MaxWait,    \* TRUE when --max-wait-ms > 0
    MaxLate,    \* requests httplib still serves after the listening socket closed
    None        \* no worker, no form

ASSUME EngineAssumption ==
    /\ Clients # {} /\ Workers # {} /\ Shapes # {}
    /\ IsFiniteSet(Clients) /\ IsFiniteSet(Workers)
    /\ Rollout \notin Shapes
    /\ None \notin Workers /\ None \notin Shapes /\ None # Rollout
    /\ MaxItems \in Nat \ {0} /\ MaxBatch \in Nat \ {0} /\ MaxLate \in Nat
    /\ MaxWait \in BOOLEAN

Forms == Shapes \cup {Rollout}

(***************************************************************************)
(* Item i of the request client c is making is the task <<c, i>>: a Task   *)
(* lives in its Job, and a handler thread has one Job at a time.           *)
(***************************************************************************)
Tasks == Clients \X (1..MaxItems)
Owner(t) == t[1]
TasksOf(c) == {c} \X (1..MaxItems)

VARIABLES
    \* the handler threads and their jobs
    pc,         \* where each handler is
    job,        \* job.tasks, {} when the handler has no Job
    form,       \* kind and shape of each task
    pending,    \* job.pending
    res,        \* what running the task left in it: "none", "done" or "error"
    reply,      \* the answer to the client's last request
    \* Engine, under Engine::mu
    q, ahead,   \* the queued tasks, and for each of them those before it
    idle,       \* the workers waiting for a batch
    queueDepth, \* g_metrics.queue_depth
    stopping,
    \* the dispatcher
    dpc,
    dbatch,     \* the batch it holds
    dwk,        \* the worker it took for that batch
    \* the workers, under Worker::m but for cur
    wpc, given, hasWork, stop,
    cur,        \* the tasks of the running batch not finished yet
    \* the main thread
    mpc, mwk,
    late,       \* requests received after the listening socket closed
    liveCtx,    \* the workers whose context is allocated
    liveModel

handlerVars == <<pc, job, form, pending, res, reply>>
queueVars == <<q, ahead, queueDepth>>
dispVars == <<dpc, dbatch, dwk>>
workerVars == <<wpc, given, hasWork, stop, cur>>
mainVars == <<mpc, mwk, late, stopping, liveCtx, liveModel>>
vars == <<handlerVars, queueVars, idle, dispVars, workerVars, mainVars>>

Init ==
    /\ pc = [c \in Clients |-> "idle"]
    /\ job = [c \in Clients |-> {}]
    /\ form = [t \in Tasks |-> None]
    /\ pending = [c \in Clients |-> 0]
    /\ res = [t \in Tasks |-> "none"]
    /\ reply = [c \in Clients |-> "none"]
    /\ q = {} /\ ahead = [t \in Tasks |-> {}]
    /\ idle = Workers /\ queueDepth = 0 /\ stopping = FALSE
    /\ dpc = "top" /\ dbatch = {} /\ dwk = None
    /\ wpc = [w \in Workers |-> "top"]
    /\ given = [w \in Workers |-> {}]
    /\ hasWork = [w \in Workers |-> FALSE]
    /\ stop = [w \in Workers |-> FALSE]
    /\ cur = [w \in Workers |-> {}]
    /\ mpc = "listening" /\ mwk = None /\ late = 0
    /\ liveCtx = Workers /\ liveModel = TRUE

-----------------------------------------------------------------------------
(* Condition variables.  A sleeper that is notified evaluates its predicate *)
(* again before it does anything else.                                      *)

\* cv_work.notify_all(): the dispatcher is the only thread that waits on it.
WokenDispatcher == CASE dpc = "asleep" -> "top"
                     [] dpc = "company" -> "woken"
                     [] OTHER -> dpc

\* Worker::cv, on which only that worker waits.
WokenWorker(w) == IF wpc[w] = "asleep" THEN "top" ELSE wpc[w]

-----------------------------------------------------------------------------
(* Handler threads.                                                         *)

\* httplib hands a request to a handler thread.  After stop() closed the
\* listening socket, connections already accepted are still served.
HandlerReceive(c) ==
    /\ pc[c] = "idle"
    /\ \/ mpc = "listening" /\ UNCHANGED late
       \/ mpc = "draining" /\ late < MaxLate /\ late' = late + 1
    /\ pc' = [pc EXCEPT ![c] = "parsing"]
    /\ reply' = [reply EXCEPT ![c] = "none"]
    /\ UNCHANGED <<job, form, pending, res, queueVars, idle, dispVars, workerVars,
                   mpc, mwk, stopping, liveCtx, liveModel>>

\* A body that does not parse, an item that does not preprocess, or an
\* allocation that fails: the handler throws before anything is queued.
HandlerRefuse(c) ==
    /\ pc[c] = "parsing"
    /\ pc' = [pc EXCEPT ![c] = "idle"]
    /\ reply' = [reply EXCEPT ![c] = "refused"]
    /\ UNCHANGED <<job, form, pending, res, queueVars, idle, dispVars, workerVars, mainVars>>

\* A rollout request is one task.
RolloutRequests(c) == [{<<c, 1>>} -> {Rollout}]

\* An embedding or classify request is one encode task per item, each with the
\* shape its own frames have.
EncodeRequests(c) == UNION {[({c} \X (1..n)) -> Shapes] : n \in 1..MaxItems}

Requests(c) == RolloutRequests(c) \cup EncodeRequests(c)

\* Mutant: job.pending is left at 0 when the tasks are queued.
HandlerSubmit_ForgetsPending(c) ==
    /\ pc[c] = "parsing"
    /\ \E forms \in Requests(c) :
         LET new == DOMAIN forms IN
         /\ job' = [job EXCEPT ![c] = new]
         /\ form' = [t \in Tasks |-> IF t \in new THEN forms[t] ELSE form[t]]
         /\ q' = q \cup new
         /\ ahead' = [t \in Tasks |->
                        IF t \in new THEN q \cup {u \in new : u[2] < t[2]} ELSE ahead[t]]
         /\ queueDepth' = Cardinality(q \cup new)
    /\ pc' = [pc EXCEPT ![c] = "notify"]
    /\ UNCHANGED <<pending, res, reply, idle, dispVars, workerVars, mainVars>>

\* The Job is filled, its tasks appended to the queue in item order, and the
\* gauge set, under Engine::mu.
HandlerSubmit(c) ==
    /\ pc[c] = "parsing"
    /\ \E forms \in Requests(c) :
         LET new == DOMAIN forms IN
         /\ job' = [job EXCEPT ![c] = new]
         /\ form' = [t \in Tasks |-> IF t \in new THEN forms[t] ELSE form[t]]
         /\ pending' = [pending EXCEPT ![c] = Cardinality(new)]
         /\ q' = q \cup new
         /\ ahead' = [t \in Tasks |->
                        IF t \in new THEN q \cup {u \in new : u[2] < t[2]} ELSE ahead[t]]
         /\ queueDepth' = Cardinality(q \cup new)
    /\ pc' = [pc EXCEPT ![c] = "notify"]
    /\ UNCHANGED <<res, reply, idle, dispVars, workerVars, mainVars>>

\* The cv_work.notify_all() of Engine::submit, after Engine::mu is released.
HandlerNotify(c) ==
    /\ pc[c] = "notify"
    /\ pc' = [pc EXCEPT ![c] = "check"]
    /\ dpc' = WokenDispatcher
    /\ UNCHANGED <<job, form, pending, res, reply, queueVars, idle, dbatch, dwk,
                   workerVars, mainVars>>

\* Mutant: Job::wait takes any wakeup for the end of the job.
HandlerCheck_NoPredicate(c) ==
    /\ pc[c] = "check"
    /\ pc' = [pc EXCEPT ![c] = "reply"]
    /\ UNCHANGED <<job, form, pending, res, reply, queueVars, idle, dispVars, workerVars, mainVars>>

\* Job::wait evaluates its predicate under Job::m.
HandlerCheck(c) ==
    /\ pc[c] = "check"
    /\ pc' = [pc EXCEPT ![c] = IF pending[c] = 0 THEN "reply" ELSE "asleep"]
    /\ UNCHANGED <<job, form, pending, res, reply, queueVars, idle, dispVars, workerVars, mainVars>>

\* Mutant: only the first item's error is looked at.
HandlerReply_FirstErrorOnly(c) ==
    /\ pc[c] = "reply"
    /\ reply' = [reply EXCEPT ![c] = IF res[<<c, 1>>] = "error" THEN "failed" ELSE "ok"]
    /\ pc' = [pc EXCEPT ![c] = "idle"]
    /\ job' = [job EXCEPT ![c] = {}]
    /\ form' = [t \in Tasks |-> IF Owner(t) = c THEN None ELSE form[t]]
    /\ res' = [t \in Tasks |-> IF Owner(t) = c THEN "none" ELSE res[t]]
    /\ UNCHANGED <<pending, queueVars, idle, dispVars, workerVars, mainVars>>

\* A task with an error makes the whole request a 500.  The Job and its Tasks
\* are destroyed as the handler returns.
HandlerReply(c) ==
    /\ pc[c] = "reply"
    /\ reply' = [reply EXCEPT ![c] = IF \E t \in job[c] : res[t] = "error" THEN "failed" ELSE "ok"]
    /\ pc' = [pc EXCEPT ![c] = "idle"]
    /\ job' = [job EXCEPT ![c] = {}]
    /\ form' = [t \in Tasks |-> IF Owner(t) = c THEN None ELSE form[t]]
    /\ res' = [t \in Tasks |-> IF Owner(t) = c THEN "none" ELSE res[t]]
    /\ UNCHANGED <<pending, queueVars, idle, dispVars, workerVars, mainVars>>

-----------------------------------------------------------------------------
(* The dispatcher.                                                          *)

\* Mutant: tasks of one kind are grouped whatever their shapes.
GroupsWith_AnyShape(t, u) == form[t] # Rollout /\ form[u] # Rollout

GroupsWith(t, u) == form[t] = form[u] /\ form[t] # Rollout

\* A rollout runs alone; every task of a batch has the form of its head.
BatchCap(B) == IF \E t \in B : form[t] = Rollout THEN 1 ELSE MaxBatch

Compatible(B) == {t \in q \ B : \A u \in B : GroupsWith(t, u)}

\* Mutant: the walk may take a later task and leave an earlier one.
TakeCompatible_AnyOrder(B) ==
    LET C == Compatible(B) IN
    {B \cup F : F \in {G \in SUBSET C :
        /\ Cardinality(G) <= BatchCap(B) - Cardinality(B)
        /\ (G # C) => (Cardinality(G) = BatchCap(B) - Cardinality(B))}}

\* take_compatible: the queue is walked from its front and every task that
\* fits is taken until the batch is full.  The set has one member.
TakeCompatible(B) ==
    LET C == Compatible(B) IN
    {B \cup F : F \in {G \in SUBSET C :
        /\ Cardinality(G) <= BatchCap(B) - Cardinality(B)
        /\ (G # C) => (Cardinality(G) = BatchCap(B) - Cardinality(B))
        /\ \A t \in G, u \in C \ G : t \in ahead[u]}}

\* Mutant: only the head is erased from the queue.
Erase_HeadOnly(B) ==
    LET gone == {t \in B : ahead[t] = {}} IN
    /\ q' = q \ gone
    /\ ahead' = [t \in Tasks |-> IF t \in q \ gone THEN ahead[t] \ gone ELSE {}]

\* What is left of the queue once the tasks of B are erased from it.
Erase(B) ==
    /\ q' = q \ B
    /\ ahead' = [t \in Tasks |-> IF t \in q \ B THEN ahead[t] \ B ELSE {}]

\* A partial batch is held open only while nothing else is queued.
HoldOpen(B) ==
    /\ Cardinality(B) < BatchCap(B)
    /\ MaxWait /\ q \ B = {} /\ ~stopping

\* The dispatcher sleeps in cv_work.wait_until with the batch in hand.
Hold(B) ==
    /\ dpc' = "company" /\ dbatch' = B
    /\ UNCHANGED <<queueDepth, idle, dwk>>

\* Mutant: the worker is read from the idle list and left in it.
Close_KeepsIdle(B) ==
    /\ dpc' = "give" /\ dbatch' = B
    /\ queueDepth' = Cardinality(q \ B)
    /\ \E w \in idle : dwk' = w /\ idle' = idle

\* The batch is final: the gauge is set and an idle worker is taken.
Close(B) ==
    /\ dpc' = "give" /\ dbatch' = B
    /\ queueDepth' = Cardinality(q \ B)
    /\ \E w \in idle : dwk' = w /\ idle' = idle \ {w}

DispatcherExit ==
    /\ dpc = "top" /\ stopping
    /\ dpc' = "exited"
    /\ UNCHANGED <<handlerVars, queueVars, idle, dbatch, dwk, workerVars, mainVars>>

DispatcherSleep ==
    /\ dpc = "top" /\ ~stopping
    /\ q = {} \/ idle = {}
    /\ dpc' = "asleep"
    /\ UNCHANGED <<handlerVars, queueVars, idle, dbatch, dwk, workerVars, mainVars>>

\* Mutant: the batch is formed around any queued task.
DispatcherPick_AnyHead ==
    /\ dpc = "top" /\ ~stopping /\ idle # {}
    /\ \E h \in q : \E B \in TakeCompatible({h}) :
         /\ Erase(B)
         /\ IF HoldOpen(B) THEN Hold(B) ELSE Close(B)
    /\ UNCHANGED <<handlerVars, workerVars, mainVars>>

\* The head of the queue and every compatible task behind it.
DispatcherPick ==
    /\ dpc = "top" /\ ~stopping /\ idle # {}
    /\ \E h \in q :
         /\ ahead[h] = {}
         /\ \E B \in TakeCompatible({h}) :
              /\ Erase(B)
              /\ IF HoldOpen(B) THEN Hold(B) ELSE Close(B)
    /\ UNCHANGED <<handlerVars, workerVars, mainVars>>

\* wait_until returned because of a notification: gather, and wait again or go.
DispatcherWoken ==
    /\ dpc = "woken"
    /\ \E B \in TakeCompatible(dbatch) :
         /\ Erase(B)
         /\ IF HoldOpen(B) THEN Hold(B) ELSE Close(B)
    /\ UNCHANGED <<handlerVars, workerVars, mainVars>>

\* Mutant: what arrived with the deadline is not gathered.
DispatcherTimeout_NoGather ==
    /\ dpc \in {"company", "woken"}
    /\ Erase(dbatch) /\ Close(dbatch)
    /\ UNCHANGED <<handlerVars, workerVars, mainVars>>

\* wait_until reports the deadline, whether or not a notification came first.
DispatcherTimeout ==
    /\ dpc \in {"company", "woken"}
    /\ \E B \in TakeCompatible(dbatch) : Erase(B) /\ Close(B)
    /\ UNCHANGED <<handlerVars, workerVars, mainVars>>

\* The batch is moved into the worker's slot, under Worker::m.
DispatcherGive ==
    /\ dpc = "give"
    /\ given' = [given EXCEPT ![dwk] = dbatch]
    /\ hasWork' = [hasWork EXCEPT ![dwk] = TRUE]
    /\ dbatch' = {} /\ dpc' = "wake"
    /\ UNCHANGED <<handlerVars, queueVars, idle, dwk, wpc, stop, cur, mainVars>>

\* wk->cv.notify_one(), after Worker::m is released.
DispatcherWake ==
    /\ dpc = "wake"
    /\ wpc' = [wpc EXCEPT ![dwk] = WokenWorker(dwk)]
    /\ dpc' = "top" /\ dwk' = None
    /\ UNCHANGED <<handlerVars, queueVars, idle, dbatch, given, hasWork, stop, cur, mainVars>>

-----------------------------------------------------------------------------
(* A worker.                                                                *)

WorkerSleep(w) ==
    /\ wpc[w] = "top" /\ ~hasWork[w] /\ ~stop[w]
    /\ wpc' = [wpc EXCEPT ![w] = "asleep"]
    /\ UNCHANGED <<handlerVars, queueVars, idle, dispVars, given, hasWork, stop, cur, mainVars>>

WorkerExit(w) ==
    /\ wpc[w] = "top" /\ stop[w] /\ ~hasWork[w]
    /\ wpc' = [wpc EXCEPT ![w] = "exited"]
    /\ UNCHANGED <<handlerVars, queueVars, idle, dispVars, given, hasWork, stop, cur, mainVars>>

\* batch.swap(wk.batch): the slot gets the worker's empty local vector.
WorkerTake(w) ==
    /\ wpc[w] = "top" /\ hasWork[w]
    /\ cur' = [cur EXCEPT ![w] = given[w]]
    /\ given' = [given EXCEPT ![w] = {}]
    /\ hasWork' = [hasWork EXCEPT ![w] = FALSE]
    /\ wpc' = [wpc EXCEPT ![w] = "run"]
    /\ UNCHANGED <<handlerVars, queueVars, idle, dispVars, stop, mainVars>>

\* Mutant: a failed task is skipped and no error is stored in it.
WorkerRun_NoError(w) ==
    /\ wpc[w] = "run"
    /\ \E failed \in SUBSET cur[w] :
         res' = [t \in Tasks |-> IF t \in cur[w] \ failed THEN "done" ELSE res[t]]
    /\ wpc' = [wpc EXCEPT ![w] = "finish"]
    /\ UNCHANGED <<pc, job, form, pending, reply, queueVars, idle, dispVars,
                   given, hasWork, stop, cur, mainVars>>

\* The batch runs on the worker's context.  A failed encode or an exception
\* marks every task, pooling or the classifier head may fail for some of them.
WorkerRun(w) ==
    /\ wpc[w] = "run"
    /\ \E failed \in SUBSET cur[w] :
         res' = [t \in Tasks |-> IF t \in failed THEN "error"
                                 ELSE IF t \in cur[w] THEN "done" ELSE res[t]]
    /\ wpc' = [wpc EXCEPT ![w] = "finish"]
    /\ UNCHANGED <<pc, job, form, pending, reply, queueVars, idle, dispVars,
                   given, hasWork, stop, cur, mainVars>>

\* Mutant: a task with an error is dropped without finish_one.
WorkerFinishOne_OnlyDone(w) ==
    /\ wpc[w] = "finish"
    /\ \E t \in cur[w] :
         LET c == Owner(t) IN
         /\ cur' = [cur EXCEPT ![w] = @ \ {t}]
         /\ IF res[t] = "error" THEN UNCHANGED <<pending, pc>>
            ELSE /\ pending' = [pending EXCEPT ![c] = @ - 1]
                 /\ pc' = [pc EXCEPT ![c] = IF pending[c] = 1 /\ @ = "asleep" THEN "check" ELSE @]
    /\ UNCHANGED <<job, form, res, reply, queueVars, idle, dispVars, wpc, given,
                   hasWork, stop, mainVars>>

\* Job::finish_one: the last task of a job wakes its handler, all under Job::m.
WorkerFinishOne(w) ==
    /\ wpc[w] = "finish"
    /\ \E t \in cur[w] :
         LET c == Owner(t) IN
         /\ cur' = [cur EXCEPT ![w] = @ \ {t}]
         /\ pending' = [pending EXCEPT ![c] = @ - 1]
         /\ pc' = [pc EXCEPT ![c] = IF pending[c] = 1 /\ @ = "asleep" THEN "check" ELSE @]
    /\ UNCHANGED <<job, form, res, reply, queueVars, idle, dispVars, wpc, given,
                   hasWork, stop, mainVars>>

WorkerRetire(w) ==
    /\ wpc[w] = "finish" /\ cur[w] = {}
    /\ idle' = idle \cup {w}
    /\ wpc' = [wpc EXCEPT ![w] = "notify"]
    /\ UNCHANGED <<handlerVars, queueVars, dispVars, given, hasWork, stop, cur, mainVars>>

\* Mutant: the retiring worker does not notify cv_work.
WorkerNotify_Forgets(w) ==
    /\ wpc[w] = "notify"
    /\ wpc' = [wpc EXCEPT ![w] = "top"]
    /\ UNCHANGED <<handlerVars, queueVars, idle, dispVars, given, hasWork, stop, cur, mainVars>>

\* eng.cv_work.notify_all(), after Engine::mu is released.
WorkerNotify(w) ==
    /\ wpc[w] = "notify"
    /\ wpc' = [wpc EXCEPT ![w] = "top"]
    /\ dpc' = WokenDispatcher
    /\ UNCHANGED <<handlerVars, queueVars, idle, dbatch, dwk, given, hasWork, stop, cur, mainVars>>

-----------------------------------------------------------------------------
(* The main thread, after it started the others.                            *)

\* SIGINT or SIGTERM: server.stop() closes the listening socket.
Signal ==
    /\ mpc = "listening"
    /\ mpc' = "draining"
    /\ UNCHANGED <<handlerVars, queueVars, idle, dispVars, workerVars, mwk, late,
                   stopping, liveCtx, liveModel>>

\* Mutant: stopping is set while handlers still wait for their jobs.
MainStop_NoDrain ==
    /\ mpc = "draining"
    /\ stopping' = TRUE /\ mpc' = "notify"
    /\ UNCHANGED <<handlerVars, queueVars, idle, dispVars, workerVars, mwk, late, liveCtx, liveModel>>

\* listen_after_bind returns once httplib joined its handler threads; then
\* stopping is set under Engine::mu.
MainStop ==
    /\ mpc = "draining" /\ \A c \in Clients : pc[c] = "idle"
    /\ stopping' = TRUE /\ mpc' = "notify"
    /\ UNCHANGED <<handlerVars, queueVars, idle, dispVars, workerVars, mwk, late, liveCtx, liveModel>>

\* Mutant: nothing tells the dispatcher that the engine is stopping.
MainNotify_Forgets ==
    /\ mpc = "notify"
    /\ mpc' = "joinDispatcher"
    /\ UNCHANGED <<handlerVars, queueVars, idle, dispVars, workerVars, mwk, late,
                   stopping, liveCtx, liveModel>>

MainNotify ==
    /\ mpc = "notify"
    /\ dpc' = WokenDispatcher
    /\ mpc' = "joinDispatcher"
    /\ UNCHANGED <<handlerVars, queueVars, idle, dbatch, dwk, workerVars, mwk, late,
                   stopping, liveCtx, liveModel>>

MainJoinDispatcher ==
    /\ mpc = "joinDispatcher" /\ dpc = "exited"
    /\ mpc' = "flag"
    /\ UNCHANGED <<handlerVars, queueVars, idle, dispVars, workerVars, mwk, late,
                   stopping, liveCtx, liveModel>>

MainFlag(w) ==
    /\ mpc = "flag" /\ ~stop[w]
    /\ stop' = [stop EXCEPT ![w] = TRUE]
    /\ mwk' = w /\ mpc' = "wake"
    /\ UNCHANGED <<handlerVars, queueVars, idle, dispVars, wpc, given, hasWork, cur,
                   late, stopping, liveCtx, liveModel>>

MainWake ==
    /\ mpc = "wake"
    /\ wpc' = [wpc EXCEPT ![mwk] = WokenWorker(mwk)]
    /\ mwk' = None
    /\ mpc' = IF \A w \in Workers : stop[w] THEN "join" ELSE "flag"
    /\ UNCHANGED <<handlerVars, queueVars, idle, dispVars, given, hasWork, stop, cur,
                   late, stopping, liveCtx, liveModel>>

\* Mutant: the contexts are freed without joining the workers.
MainJoin_NoJoin(w) ==
    /\ mpc = "join" /\ w \in liveCtx
    /\ liveCtx' = liveCtx \ {w}
    /\ UNCHANGED <<handlerVars, queueVars, idle, dispVars, workerVars, mpc, mwk, late,
                   stopping, liveModel>>

\* A worker is joined, then its context is freed.
MainJoin(w) ==
    /\ mpc = "join" /\ w \in liveCtx /\ wpc[w] = "exited"
    /\ liveCtx' = liveCtx \ {w}
    /\ UNCHANGED <<handlerVars, queueVars, idle, dispVars, workerVars, mpc, mwk, late,
                   stopping, liveModel>>

\* The model goes last, and main returns 0.
MainExit ==
    /\ mpc = "join" /\ liveCtx = {}
    /\ liveModel' = FALSE /\ mpc' = "exited"
    /\ UNCHANGED <<handlerVars, queueVars, idle, dispVars, workerVars, mwk, late,
                   stopping, liveCtx>>

-----------------------------------------------------------------------------
\* A condition variable may wake a sleeper that nobody notified.
SpuriousWakeup ==
    \/ /\ dpc \in {"asleep", "company"}
       /\ dpc' = WokenDispatcher
       /\ UNCHANGED <<handlerVars, queueVars, idle, dbatch, dwk, workerVars, mainVars>>
    \/ \E w \in Workers :
         /\ wpc[w] = "asleep"
         /\ wpc' = [wpc EXCEPT ![w] = "top"]
         /\ UNCHANGED <<handlerVars, queueVars, idle, dispVars, given, hasWork, stop, cur, mainVars>>
    \/ \E c \in Clients :
         /\ pc[c] = "asleep"
         /\ pc' = [pc EXCEPT ![c] = "check"]
         /\ UNCHANGED <<job, form, pending, res, reply, queueVars, idle, dispVars, workerVars, mainVars>>

\* The process is gone.
Terminated == mpc = "exited" /\ UNCHANGED vars

Handler(c) ==
    \/ HandlerRefuse(c) \/ HandlerSubmit(c) \/ HandlerNotify(c)
    \/ HandlerCheck(c) \/ HandlerReply(c)
Dispatcher ==
    \/ DispatcherExit \/ DispatcherSleep \/ DispatcherPick \/ DispatcherWoken
    \/ DispatcherTimeout \/ DispatcherGive \/ DispatcherWake
Worker(w) ==
    \/ WorkerSleep(w) \/ WorkerExit(w) \/ WorkerTake(w) \/ WorkerRun(w)
    \/ WorkerFinishOne(w) \/ WorkerRetire(w) \/ WorkerNotify(w)
Main ==
    \/ MainStop \/ MainNotify \/ MainJoinDispatcher
    \/ \E w \in Workers : MainFlag(w) \/ MainJoin(w)
    \/ MainWake \/ MainExit

Next ==
    \/ \E c \in Clients : HandlerReceive(c) \/ Handler(c)
    \/ Dispatcher
    \/ \E w \in Workers : Worker(w)
    \/ Signal \/ Main
    \/ SpuriousWakeup \/ Terminated

Spec == Init /\ [][Next]_vars

\* Every thread of the process keeps running: a preprocess and a graph end, and
\* the deadline of wait_until passes however often the dispatcher is woken
\* before it.  Clients and the operator owe nothing, and no thread depends on a
\* wakeup nobody sent.
Fairness ==
    /\ \A c \in Clients : WF_vars(Handler(c))
    /\ WF_vars(Dispatcher) /\ WF_vars(DispatcherTimeout)
    /\ \A w \in Workers : WF_vars(Worker(w))
    /\ WF_vars(Main)

FairSpec == Spec /\ Fairness

-----------------------------------------------------------------------------
(* What the engine promises.                                                *)

HandlerStates == {"idle", "parsing", "notify", "check", "asleep", "reply"}
DispatcherStates == {"top", "asleep", "company", "woken", "give", "wake", "exited"}
WorkerStates == {"top", "asleep", "run", "finish", "notify", "exited"}
MainStates == {"listening", "draining", "notify", "joinDispatcher", "flag", "wake", "join", "exited"}

\* A handler that has queued its tasks and not yet been released by Job::wait.
Waiting == {"notify", "check", "asleep"}

\* The types of the variables; job.pending never leaves 0..MaxItems.
TypeOK ==
    /\ pc \in [Clients -> HandlerStates]
    /\ job \in [Clients -> SUBSET Tasks]
    /\ form \in [Tasks -> Forms \cup {None}]
    /\ pending \in [Clients -> 0..MaxItems]
    /\ res \in [Tasks -> {"none", "done", "error"}]
    /\ reply \in [Clients -> {"none", "refused", "failed", "ok"}]
    /\ q \subseteq Tasks /\ ahead \in [Tasks -> SUBSET Tasks]
    /\ idle \subseteq Workers /\ queueDepth \in Nat /\ stopping \in BOOLEAN
    /\ dpc \in DispatcherStates /\ dbatch \subseteq Tasks /\ dwk \in Workers \cup {None}
    /\ wpc \in [Workers -> WorkerStates]
    /\ given \in [Workers -> SUBSET Tasks] /\ cur \in [Workers -> SUBSET Tasks]
    /\ hasWork \in [Workers -> BOOLEAN] /\ stop \in [Workers -> BOOLEAN]
    /\ mpc \in MainStates /\ mwk \in Workers \cup {None} /\ late \in 0..MaxLate
    /\ liveCtx \subseteq Workers /\ liveModel \in BOOLEAN

\* The tasks some part of the engine still points to.
Held == q \cup dbatch \cup UNION {given[w] \cup cur[w] : w \in Workers}
HeldOf(c) == {t \in Held : Owner(t) = c}

(***************************************************************************)
(* The engine holds raw Task pointers into Jobs that live on the handlers' *)
(* stacks.  While any of queue, dispatcher, slot or running batch holds a  *)
(* task, its handler has not been released: no Task is used after it is    *)
(* freed, whatever wakes the handler.                                      *)
(***************************************************************************)
NoDanglingTask ==
    \A t \in Held : t \in job[Owner(t)] /\ pc[Owner(t)] \in Waiting

(***************************************************************************)
(* A task is in one place at a time, so no task is run or finished twice:  *)
(* taking tasks out of the queue, handing a batch over and swapping it out *)
(* of the slot each move them.                                             *)
(***************************************************************************)
OnePlace ==
    /\ q \cap dbatch = {}
    /\ \A w \in Workers :
         /\ (given[w] \cup cur[w]) \cap (q \cup dbatch) = {}
         /\ given[w] \cap cur[w] = {}
         /\ \A v \in Workers \ {w} : (given[w] \cup cur[w]) \cap (given[v] \cup cur[v]) = {}

\* job.pending counts exactly the job's tasks the engine still holds: no task
\* is lost on the way, and none is counted down twice.
PendingCounts ==
    \A c \in Clients : pending[c] = Cardinality(HeldOf(c))

\* A handler released by Job::wait finds a result or an error in every task:
\* it never reads an output the worker has not written.
ReleasedWhenComputed ==
    \A c \in Clients : pc[c] = "reply" => \A t \in job[c] : res[t] # "none"

(***************************************************************************)
(* A batch is something one graph can run: never more than eff_max_batch   *)
(* tasks, all of one shape, and a rollout alone.                           *)
(***************************************************************************)
OneGraph(B) ==
    /\ Cardinality(B) <= MaxBatch
    /\ \A t, u \in B : t = u \/ (form[t] = form[u] /\ form[t] \in Shapes)
BatchesAreGraphs ==
    /\ OneGraph(dbatch)
    /\ \A w \in Workers : OneGraph(given[w]) /\ OneGraph(cur[w])

(***************************************************************************)
(* A worker in the idle list, or taken from it for the batch at hand, has  *)
(* an empty slot and nothing running, so handing it a batch overwrites     *)
(* nothing; and a dispatcher waiting for company still finds an idle       *)
(* worker when it stops waiting.                                           *)
(***************************************************************************)
Busy(w) == hasWork[w] \/ wpc[w] \in {"run", "finish"}
HandoffSafe ==
    /\ \A w \in Workers : w \in idle \/ (dpc = "give" /\ w = dwk)
         => ~Busy(w) /\ given[w] = {} /\ cur[w] = {}
    /\ dpc = "give" => dwk \in Workers \ idle
    /\ dpc \in {"company", "woken"} => idle # {}

(***************************************************************************)
(* No lost wakeup: a thread asleep while what it waits for is true has a   *)
(* notification on the way.  For the dispatcher holding a partial batch    *)
(* this says that work which cannot join the batch does not wait for it.   *)
(***************************************************************************)
WakeupOwed ==
    \/ \E c \in Clients : pc[c] = "notify"
    \/ \E w \in Workers : wpc[w] = "notify"
    \/ mpc = "notify"
NoLostWakeup ==
    /\ dpc = "asleep" /\ (stopping \/ (q # {} /\ idle # {})) => WakeupOwed
    /\ dpc = "company" /\ (stopping \/ q # {}) => WakeupOwed
    /\ \A w \in Workers : wpc[w] = "asleep" =>
         /\ hasWork[w] => (dpc = "wake" /\ dwk = w)
         /\ stop[w] => (mpc = "wake" /\ mwk = w)
    /\ \A c \in Clients : pc[c] = "asleep" => pending[c] > 0

\* Once the engine stops, it holds no task: nothing a client asked for is
\* dropped by the dispatcher's early return or a worker's exit.
NothingStranded == stopping => Held = {}

\* A graph runs only on a context and a model that are still allocated, and no
\* thread outlives the Engine it points into.
RunsOnLiveContext ==
    /\ \A w \in Workers : wpc[w] # "exited" => w \in liveCtx
    /\ liveCtx # {} => liveModel
    /\ ~liveModel => dpc = "exited" /\ \A c \in Clients : pc[c] = "idle"

\* Tasks one graph could run leave the queue in the order they came in.
FirstComeFirstServed ==
    [][\A t, u \in q : t \in ahead[u] /\ GroupsWith(t, u) /\ u \notin q' => t \notin q']_vars

\* A batch goes out with room left only if nothing queued at that moment could
\* have filled it, however its wait for company ended.
BatchIsMaximal ==
    [][dpc # "give" /\ dpc' = "give" =>
         \/ Cardinality(dbatch') = BatchCap(dbatch')
         \/ \A t \in q', u \in dbatch' : ~GroupsWith(t, u)]_vars

\* Every request is answered, whatever other clients keep sending: neither a
\* full pool nor a partial batch waiting for company starves one.
EveryRequestAnswered ==
    \A c \in Clients : pc[c] = "parsing" ~> pc[c] = "idle"

\* After SIGTERM the process answers what it accepted and exits.
ShutsDown == mpc = "draining" ~> mpc = "exited"

(***************************************************************************)
(* The engine implements the contract.  A batch starts, for the contract,  *)
(* when it is handed over, and an item has its outcome when finish_one has *)
(* counted it: what a worker wrote before that no client can see.          *)
(***************************************************************************)
CallNow == [c \in Clients |-> CASE pc[c] = "idle" -> "none"
                                [] pc[c] = "parsing" -> "received"
                                [] OTHER -> "open"]
StatusNow == [t \in Tasks |->
    CASE t \in q \cup dbatch -> "waiting"
      [] \E w \in Workers : t \in given[w] \cup cur[w] -> "running"
      [] t \in job[Owner(t)] /\ t \notin Held -> res[t]
      [] OTHER -> "none"]
OnNow == [w \in Workers |-> given[w] \cup cur[w]]
DoorNow == CASE mpc = "listening" -> "open" [] mpc = "draining" -> "closing"
             [] mpc = "exited" -> "gone" [] OTHER -> "shut"

Contract == INSTANCE ServeContract WITH
    call <- CallNow, outcome <- reply, status <- StatusNow, on <- OnNow, door <- DoorNow

ImplementsContract == Contract!ContractSpec

\* jepa_queue_depth is documented as the tasks waiting for a worker right now.
\* A batch held open for company has no worker yet.
GaugeIsExactAtRest ==
    dpc = "company" /\ ~WakeupOwed => queueDepth = Cardinality(q \cup dbatch)
=============================================================================
