-------------------------- MODULE ServeEngineProofs --------------------------
(***************************************************************************)
(* Safety of ServeEngine for any number of connections, workers and items; *)
(* what it puts in a batch and in which order it serves; and that it       *)
(* implements ServeContract.                                               *)
(***************************************************************************)
EXTENDS ServeEngine, FiniteSetTheorems, TLAPS

(***************************************************************************)
(* The invariant, in parts.  TypeInv is TypeOK but for the bounds of       *)
(* job.pending, which follow from what the counter counts.                 *)
(***************************************************************************)
TypeInv ==
    /\ pc \in [Clients -> HandlerStates]
    /\ job \in [Clients -> SUBSET Tasks]
    /\ form \in [Tasks -> Forms \cup {None}]
    /\ pending \in [Clients -> Int]
    /\ res \in [Tasks -> {"none", "done", "error"}]
    /\ reply \in [Clients -> {"none", "refused", "failed", "ok"}]
    /\ q \subseteq Tasks /\ ahead \in [Tasks -> SUBSET Tasks]
    /\ idle \subseteq Workers /\ queueDepth \in Nat /\ stopping \in BOOLEAN
    /\ dpc \in DispatcherStates /\ dbatch \subseteq Tasks /\ dwk \in Workers \cup {None}
    /\ wpc \in [Workers -> WorkerStates]
    /\ given \in [Workers -> SUBSET Tasks] /\ cur \in [Workers -> SUBSET Tasks]
    /\ hasWork \in [Workers -> BOOLEAN] /\ stop \in [Workers -> BOOLEAN]
    /\ mpc \in MainStates /\ mwk \in Workers \cup {None} /\ late \in 0..MaxLate
    /\ liveCtx \subseteq Workers /\ liveModel \in BOOLEAN

\* The named worker exists wherever the dispatcher or main is about to use it.
NamedWorkers ==
    /\ dpc \in {"give", "wake"} => dwk \in Workers
    /\ mpc = "wake" => mwk \in Workers

\* A handler's Job exists from the moment its tasks are queued until it replies.
Jobs ==
    \A c \in Clients : /\ job[c] \subseteq TasksOf(c)
                       /\ pc[c] \in {"idle", "parsing"} => job[c] = {}

\* A batch is where the state of its carrier says it is.
Carriers ==
    /\ dpc \notin {"company", "woken", "give"} => dbatch = {}
    /\ \A w \in Workers :
         /\ ~hasWork[w] => given[w] = {}
         /\ wpc[w] \notin {"run", "finish"} => cur[w] = {}
         /\ Busy(w) => w \notin idle /\ ~(dpc = "give" /\ w = dwk)
         /\ hasWork[w] => wpc[w] \notin {"run", "finish"}
    /\ dpc = "give" => dwk \notin idle
    /\ dpc \in {"company", "woken"} => idle # {}

LEMMA TasksFinite == IsFiniteSet(Tasks)
<1>1. IsFiniteSet(1..MaxItems)  BY EngineAssumption, FS_Interval DEF EngineAssumption
<1> QED  BY <1>1, EngineAssumption, FS_Product DEF EngineAssumption, Tasks

LEMMA CountType == ASSUME NEW S \in SUBSET Tasks PROVE Cardinality(S) \in Nat
  BY TasksFinite, FS_Subset, FS_CardinalityType

\* The tasks of a new request: items 1..n of its connection, each with a form.
LEMMA RequestTasks ==
  ASSUME NEW c \in Clients, NEW forms \in Requests(c)
  PROVE  /\ DOMAIN forms \subseteq TasksOf(c)
         /\ DOMAIN forms \subseteq Tasks
         /\ \A t \in DOMAIN forms : forms[t] \in Forms
<1>1. CASE forms \in [{<<c, 1>>} -> {Rollout}]
  BY <1>1, EngineAssumption DEF EngineAssumption, Tasks, TasksOf, Forms
<1>2. CASE \E n \in 1..MaxItems : forms \in [({c} \X (1..n)) -> Shapes]
  BY <1>2, EngineAssumption DEF EngineAssumption, Tasks, TasksOf, Forms
<1> QED  BY <1>1, <1>2 DEF Requests, RolloutRequests, EncodeRequests

LEMMA TypeInit == Init => TypeInv /\ NamedWorkers
<1> SUFFICES ASSUME Init PROVE TypeInv /\ NamedWorkers  OBVIOUS
<1> USE DEF Init
<1>1. /\ hasWork \in [Workers -> BOOLEAN] /\ stop \in [Workers -> BOOLEAN]
      /\ stopping \in BOOLEAN /\ liveModel \in BOOLEAN
  OBVIOUS
<1>2. late \in 0..MaxLate  BY EngineAssumption DEF EngineAssumption
<1> QED  BY <1>1, <1>2 DEF TypeInv, NamedWorkers, HandlerStates, DispatcherStates, WorkerStates, MainStates

LEMMA HandlerType ==
  ASSUME TypeInv, NamedWorkers, NEW c \in Clients, HandlerReceive(c) \/ Handler(c)
  PROVE  TypeInv' /\ NamedWorkers'
<1> USE DEF TypeInv, NamedWorkers, HandlerStates, handlerVars, queueVars, dispVars, workerVars, mainVars
<1>1. CASE HandlerReceive(c)  BY <1>1, EngineAssumption DEF EngineAssumption, HandlerReceive
<1>2. CASE HandlerRefuse(c)  BY <1>2 DEF HandlerRefuse
<1>3. CASE HandlerSubmit(c)
  <2>1. PICK forms \in Requests(c) :
          LET new == DOMAIN forms IN
          /\ job' = [job EXCEPT ![c] = new]
          /\ form' = [t \in Tasks |-> IF t \in new THEN forms[t] ELSE form[t]]
          /\ pending' = [pending EXCEPT ![c] = Cardinality(new)]
          /\ q' = q \cup new
          /\ ahead' = [t \in Tasks |->
                         IF t \in new THEN q \cup {u \in new : u[2] < t[2]} ELSE ahead[t]]
          /\ queueDepth' = Cardinality(q \cup new)
    BY <1>3 DEF HandlerSubmit
  <2> DEFINE new == DOMAIN forms
  <2>2. new \subseteq Tasks /\ \A t \in new : forms[t] \in Forms  BY RequestTasks
  <2>3. Cardinality(new) \in Nat /\ Cardinality(q \cup new) \in Nat  BY <2>2, CountType
  <2>4. /\ job' \in [Clients -> SUBSET Tasks] /\ pending' \in [Clients -> Int]
        /\ queueDepth' \in Nat /\ q' \subseteq Tasks
    BY <2>1, <2>2, <2>3
  <2>5. form' \in [Tasks -> Forms \cup {None}]  BY <2>1, <2>2
  <2>6. ahead' \in [Tasks -> SUBSET Tasks]  BY <2>1, <2>2
  <2> QED  BY <1>3, <2>4, <2>5, <2>6 DEF HandlerSubmit
<1>4. CASE HandlerNotify(c)  BY <1>4 DEF HandlerNotify, WokenDispatcher, DispatcherStates
<1>5. CASE HandlerCheck(c)  BY <1>5 DEF HandlerCheck
<1>6. CASE HandlerReply(c)  BY <1>6 DEF HandlerReply
<1> QED  BY <1>1, <1>2, <1>3, <1>4, <1>5, <1>6 DEF Handler

\* take_compatible only adds queued tasks to the batch.
LEMMA TakeAdds ==
  ASSUME NEW B0, NEW B \in TakeCompatible(B0)
  PROVE  B0 \subseteq B /\ B \subseteq B0 \cup q
  BY DEF TakeCompatible, Compatible

\* The step the three forms of gathering share: what they do to the queue, and
\* the two ways they end.
LEMMA GatherType ==
  ASSUME TypeInv, NamedWorkers, NEW B \in SUBSET Tasks, Erase(B), Hold(B) \/ Close(B),
         UNCHANGED <<handlerVars, workerVars, mainVars>>
  PROVE  TypeInv' /\ NamedWorkers'
<1> USE DEF TypeInv, NamedWorkers, handlerVars, workerVars, mainVars
<1>1. q' \subseteq Tasks /\ ahead' \in [Tasks -> SUBSET Tasks]  BY DEF Erase
<1>2. Cardinality(q \ B) \in Nat  BY CountType
<1>3. /\ dpc' \in DispatcherStates /\ dbatch' \subseteq Tasks
      /\ queueDepth' \in Nat /\ idle' \subseteq Workers /\ dwk' \in Workers \cup {None}
      /\ dpc' \in {"give", "wake"} => dwk' \in Workers
  BY <1>2 DEF Hold, Close, DispatcherStates
<1> QED  BY <1>1, <1>3

LEMMA DispatcherType ==
  ASSUME TypeInv, NamedWorkers, Dispatcher
  PROVE  TypeInv' /\ NamedWorkers'
<1>1. CASE DispatcherExit \/ DispatcherSleep
  BY <1>1 DEF DispatcherExit, DispatcherSleep, TypeInv, NamedWorkers, DispatcherStates,
              handlerVars, queueVars, workerVars, mainVars
<1>2. CASE DispatcherPick
  <2>1. PICK h \in q : \E B \in TakeCompatible({h}) :
              /\ Erase(B)
              /\ IF HoldOpen(B) THEN Hold(B) ELSE Close(B)
    BY <1>2 DEF DispatcherPick
  <2>2. PICK B \in TakeCompatible({h}) : Erase(B) /\ (Hold(B) \/ Close(B))
    BY <2>1
  <2>3. B \in SUBSET Tasks  BY TakeAdds DEF TypeInv
  <2> QED  BY <1>2, <2>2, <2>3, GatherType DEF DispatcherPick
<1>3. CASE DispatcherWoken \/ DispatcherTimeout
  <2>1. PICK B \in TakeCompatible(dbatch) : Erase(B) /\ (Hold(B) \/ Close(B))
    BY <1>3 DEF DispatcherWoken, DispatcherTimeout
  <2>2. B \in SUBSET Tasks  BY TakeAdds DEF TypeInv
  <2> QED  BY <1>3, <2>1, <2>2, GatherType DEF DispatcherWoken, DispatcherTimeout
<1>4. CASE DispatcherGive
  BY <1>4 DEF DispatcherGive, TypeInv, NamedWorkers, DispatcherStates,
              handlerVars, queueVars, mainVars
<1>5. CASE DispatcherWake
  BY <1>5 DEF DispatcherWake, TypeInv, NamedWorkers, DispatcherStates, WokenWorker, WorkerStates,
              handlerVars, queueVars, mainVars
<1> QED  BY <1>1, <1>2, <1>3, <1>4, <1>5 DEF Dispatcher

LEMMA WorkerType ==
  ASSUME TypeInv, NamedWorkers, NEW w \in Workers, Worker(w)
  PROVE  TypeInv' /\ NamedWorkers'
<1> USE DEF TypeInv, NamedWorkers, WorkerStates, handlerVars, queueVars, dispVars, mainVars
<1>1. CASE WorkerSleep(w) \/ WorkerExit(w) \/ WorkerRetire(w)
  BY <1>1 DEF WorkerSleep, WorkerExit, WorkerRetire
<1>2. CASE WorkerTake(w)  BY <1>2 DEF WorkerTake
<1>3. CASE WorkerRun(w)  BY <1>3 DEF WorkerRun
<1>4. CASE WorkerFinishOne(w)
  <2>1. PICK t \in cur[w] :
          /\ cur' = [cur EXCEPT ![w] = @ \ {t}]
          /\ pending' = [pending EXCEPT ![Owner(t)] = @ - 1]
          /\ pc' = [pc EXCEPT ![Owner(t)] =
                      IF pending[Owner(t)] = 1 /\ @ = "asleep" THEN "check" ELSE @]
    BY <1>4 DEF WorkerFinishOne
  <2>2. Owner(t) \in Clients  BY DEF Tasks, Owner
  <2> QED  BY <1>4, <2>1, <2>2 DEF WorkerFinishOne, HandlerStates
<1>5. CASE WorkerNotify(w)  BY <1>5 DEF WorkerNotify, WokenDispatcher, DispatcherStates
<1> QED  BY <1>1, <1>2, <1>3, <1>4, <1>5 DEF Worker

LEMMA MainType ==
  ASSUME TypeInv, NamedWorkers, Signal \/ Main
  PROVE  TypeInv' /\ NamedWorkers'
<1> USE DEF TypeInv, NamedWorkers, MainStates, handlerVars, queueVars, dispVars, workerVars
<1>1. CASE Signal \/ MainStop \/ MainJoinDispatcher \/ MainExit
  BY <1>1 DEF Signal, MainStop, MainJoinDispatcher, MainExit
<1>2. CASE MainNotify  BY <1>2 DEF MainNotify, WokenDispatcher, DispatcherStates
<1>3. CASE \E w \in Workers : MainFlag(w)  BY <1>3 DEF MainFlag
<1>4. CASE MainWake  BY <1>4 DEF MainWake, WokenWorker, WorkerStates
<1>5. CASE \E w \in Workers : MainJoin(w)  BY <1>5 DEF MainJoin
<1> QED  BY <1>1, <1>2, <1>3, <1>4, <1>5 DEF Main

LEMMA OtherType ==
  ASSUME TypeInv, NamedWorkers, SpuriousWakeup \/ Terminated \/ UNCHANGED vars
  PROVE  TypeInv' /\ NamedWorkers'
<1> USE DEF TypeInv, NamedWorkers, handlerVars, queueVars, dispVars, workerVars, mainVars
<1>1. CASE SpuriousWakeup
  BY <1>1 DEF SpuriousWakeup, WokenDispatcher, DispatcherStates, WorkerStates, HandlerStates
<1>2. CASE Terminated \/ UNCHANGED vars  BY <1>2 DEF Terminated, vars
<1> QED  BY <1>1, <1>2

-----------------------------------------------------------------------------
(***************************************************************************)
(* Where tasks are.  Carriers says that a batch is only where the state of *)
(* its carrier allows, so that every hand-over moves a batch into an empty *)
(* place; from that, a step either leaves Held alone, or adds the tasks of *)
(* a new Job, or finishes one task.                                        *)
(***************************************************************************)
Shape == TypeInv /\ NamedWorkers /\ Carriers

LEMMA CarriersInit == Init => Carriers
  BY DEF Init, Carriers, Busy

LEMMA CarriersHandler ==
  ASSUME Shape, NEW c \in Clients, HandlerReceive(c) \/ Handler(c)
  PROVE  Carriers'
<1> USE DEF Shape, TypeInv, NamedWorkers, Carriers, Busy, dispVars, workerVars
<1>1. CASE HandlerNotify(c)  BY <1>1 DEF HandlerNotify, WokenDispatcher
<1>2. CASE HandlerReceive(c) \/ HandlerRefuse(c) \/ HandlerSubmit(c) \/ HandlerCheck(c) \/ HandlerReply(c)
  BY <1>2 DEF HandlerReceive, HandlerRefuse, HandlerSubmit, HandlerCheck, HandlerReply
<1> QED  BY <1>1, <1>2 DEF Handler

LEMMA CarriersDispatcher ==
  ASSUME Shape, Dispatcher
  PROVE  Carriers'
<1> USE DEF Shape, TypeInv, NamedWorkers, Carriers, Busy, workerVars
<1>1. CASE DispatcherExit \/ DispatcherSleep
  BY <1>1 DEF DispatcherExit, DispatcherSleep
<1>2. CASE DispatcherPick \/ DispatcherWoken \/ DispatcherTimeout
  <2>1. \E B : Hold(B) \/ Close(B)
    BY <1>2 DEF DispatcherPick, DispatcherWoken, DispatcherTimeout
  <2>2. UNCHANGED workerVars /\ dpc # "give"
    BY <1>2 DEF DispatcherPick, DispatcherWoken, DispatcherTimeout
  <2>3. /\ dpc' \in {"company", "give"}
        /\ dpc' = "give" => dwk' \in idle /\ idle' = idle \ {dwk'}
        /\ dpc' # "give" => idle' = idle
    BY <2>1 DEF Hold, Close
  <2>4. idle # {}
    BY <1>2 DEF DispatcherPick, DispatcherWoken, DispatcherTimeout
  <2> QED  BY <2>2, <2>3, <2>4
<1>3. CASE DispatcherGive  BY <1>3 DEF DispatcherGive
<1>4. CASE DispatcherWake  BY <1>4 DEF DispatcherWake, WokenWorker, WorkerStates
<1> QED  BY <1>1, <1>2, <1>3, <1>4 DEF Dispatcher

LEMMA CarriersWorker ==
  ASSUME Shape, NEW w \in Workers, Worker(w)
  PROVE  Carriers'
<1> USE DEF Shape, TypeInv, NamedWorkers, Carriers, Busy, dispVars
<1>1. CASE WorkerSleep(w) \/ WorkerExit(w)  BY <1>1 DEF WorkerSleep, WorkerExit
<1>2. CASE WorkerTake(w)  BY <1>2 DEF WorkerTake
<1>3. CASE WorkerRun(w)  BY <1>3 DEF WorkerRun
<1>4. CASE WorkerFinishOne(w)  BY <1>4 DEF WorkerFinishOne
<1>5. CASE WorkerRetire(w)  BY <1>5 DEF WorkerRetire
<1>6. CASE WorkerNotify(w)  BY <1>6 DEF WorkerNotify, WokenDispatcher
<1> QED  BY <1>1, <1>2, <1>3, <1>4, <1>5, <1>6 DEF Worker

LEMMA CarriersOther ==
  ASSUME Shape, Signal \/ Main \/ SpuriousWakeup \/ Terminated \/ UNCHANGED vars
  PROVE  Carriers'
<1> USE DEF Shape, TypeInv, NamedWorkers, Carriers, Busy, dispVars, workerVars
<1>1. CASE Signal \/ MainStop \/ MainJoinDispatcher \/ MainExit \/ \E w \in Workers : MainJoin(w)
  BY <1>1 DEF Signal, MainStop, MainJoinDispatcher, MainExit, MainJoin
<1>2. CASE MainNotify  BY <1>2 DEF MainNotify, WokenDispatcher
<1>3. CASE \E w \in Workers : MainFlag(w)  BY <1>3 DEF MainFlag
<1>4. CASE MainWake  BY <1>4 DEF MainWake, WokenWorker, WorkerStates
<1>5. CASE SpuriousWakeup  BY <1>5 DEF SpuriousWakeup, WokenDispatcher
<1>6. CASE Terminated \/ UNCHANGED vars  BY <1>6 DEF Terminated, vars
<1> QED  BY <1>1, <1>2, <1>3, <1>4, <1>5, <1>6 DEF Main

LEMMA InHeld == \A t : t \in Held <=>
    t \in q \/ t \in dbatch \/ \E w \in Workers : t \in given[w] \/ t \in cur[w]
  BY DEF Held

LEMMA InHeldNext == \A t : t \in Held' <=>
    t \in q' \/ t \in dbatch' \/ \E w \in Workers : t \in given'[w] \/ t \in cur'[w]
  BY DEF Held

\* The steps that move no task.
LEMMA HeldFrame == UNCHANGED <<q, dbatch, given, cur>> => Held' = Held /\ (OnePlace => OnePlace')
  BY DEF Held, OnePlace

LEMMA HeldHandler ==
  ASSUME NEW c \in Clients, HandlerReceive(c) \/ Handler(c), ~HandlerSubmit(c)
  PROVE  UNCHANGED <<q, dbatch, given, cur>>
  BY DEF Handler, HandlerReceive, HandlerRefuse, HandlerNotify, HandlerCheck, HandlerReply,
         queueVars, dispVars, workerVars

LEMMA HeldOther ==
  ASSUME Signal \/ Main \/ SpuriousWakeup \/ Terminated \/ UNCHANGED vars
  PROVE  UNCHANGED <<q, dbatch, given, cur>>
<1> USE DEF queueVars, dispVars, workerVars
<1>1. CASE Signal \/ Main
  BY <1>1 DEF Signal, Main, MainStop, MainNotify, MainJoinDispatcher, MainFlag, MainWake, MainJoin, MainExit
<1>2. CASE SpuriousWakeup \/ Terminated \/ UNCHANGED vars
  BY <1>2 DEF SpuriousWakeup, Terminated, vars
<1> QED  BY <1>1, <1>2

\* A dispatcher step moves tasks from the queue to the batch, or the batch to a slot.
LEMMA HeldDispatcher ==
  ASSUME Shape, OnePlace, Dispatcher
  PROVE  Held' = Held /\ OnePlace'
<1> USE DEF Shape, TypeInv, NamedWorkers, Carriers
<1>1. CASE DispatcherExit \/ DispatcherSleep \/ DispatcherWake
  BY <1>1, HeldFrame DEF DispatcherExit, DispatcherSleep, DispatcherWake, queueVars, workerVars
<1>2. CASE DispatcherPick \/ DispatcherWoken \/ DispatcherTimeout
  <2>1. PICK B : /\ dbatch \subseteq B /\ B \subseteq dbatch \cup q
                 /\ q' = q \ B /\ dbatch' = B
    <3>1. CASE DispatcherPick
      <4>1. PICK h \in q : \E B \in TakeCompatible({h}) :
                  /\ Erase(B)
                  /\ IF HoldOpen(B) THEN Hold(B) ELSE Close(B)
        BY <3>1 DEF DispatcherPick
      <4>2. dbatch = {}  BY <3>1 DEF DispatcherPick
      <4> QED  BY <4>1, <4>2, TakeAdds DEF Erase, Hold, Close
    <3>2. CASE DispatcherWoken \/ DispatcherTimeout
      BY <3>2, TakeAdds DEF DispatcherWoken, DispatcherTimeout, Erase, Hold, Close
    <3> QED  BY <1>2, <3>1, <3>2
  <2>2. UNCHANGED <<given, cur>>
    BY <1>2 DEF DispatcherPick, DispatcherWoken, DispatcherTimeout, workerVars
  <2>3. Held' = Held  BY <2>1, <2>2, InHeld, InHeldNext
  <2>4. OnePlace'  BY <2>1, <2>2 DEF OnePlace
  <2> QED  BY <2>3, <2>4
<1>3. CASE DispatcherGive
  <2>1. dwk \in Workers /\ given[dwk] = {} /\ cur[dwk] = {}
    BY <1>3 DEF DispatcherGive, Busy
  <2>2. /\ given' = [given EXCEPT ![dwk] = dbatch] /\ dbatch' = {}
        /\ UNCHANGED <<q, cur>>
    BY <1>3 DEF DispatcherGive, queueVars
  <2>3. Held' = Held  BY <2>1, <2>2, InHeld, InHeldNext
  <2>4. OnePlace'  BY <2>1, <2>2 DEF OnePlace
  <2> QED  BY <2>3, <2>4
<1> QED  BY <1>1, <1>2, <1>3 DEF Dispatcher

\* A worker swaps its batch out of the slot, and drops one finished task at a time.
LEMMA HeldWorker ==
  ASSUME Shape, OnePlace, NEW w \in Workers, Worker(w)
  PROVE  /\ OnePlace'
         /\ ~WorkerFinishOne(w) => Held' = Held
<1> USE DEF Shape, TypeInv, Carriers
<1>1. CASE WorkerSleep(w) \/ WorkerExit(w) \/ WorkerRun(w) \/ WorkerRetire(w) \/ WorkerNotify(w)
  BY <1>1, HeldFrame DEF WorkerSleep, WorkerExit, WorkerRun, WorkerRetire, WorkerNotify,
                         queueVars, dispVars
<1>2. CASE WorkerTake(w)
  <2>1. cur[w] = {}  BY <1>2 DEF WorkerTake
  <2>2. /\ cur' = [cur EXCEPT ![w] = given[w]] /\ given' = [given EXCEPT ![w] = {}]
        /\ UNCHANGED <<q, dbatch>>
    BY <1>2 DEF WorkerTake, queueVars, dispVars
  <2>3. Held' = Held  BY <2>1, <2>2, InHeld, InHeldNext
  <2>4. OnePlace'  BY <2>1, <2>2 DEF OnePlace
  <2> QED  BY <2>3, <2>4
<1>3. CASE WorkerFinishOne(w)
  <2>1. /\ \A v \in Workers : cur'[v] \subseteq cur[v]
        /\ UNCHANGED <<q, dbatch, given>>
    BY <1>3 DEF WorkerFinishOne, queueVars, dispVars
  <2>2. OnePlace'  BY <2>1 DEF OnePlace
  <2> QED  BY <1>3, <2>2
<1> QED  BY <1>1, <1>2, <1>3 DEF Worker

\* Job::finish_one ends exactly one task, which is in no other place.
LEMMA HeldFinish ==
  ASSUME Shape, OnePlace, NEW w \in Workers, WorkerFinishOne(w)
  PROVE  \E t \in Held :
           /\ t \in cur[w] /\ wpc[w] = "finish"
           /\ Held' = Held \ {t}
           /\ pending' = [pending EXCEPT ![Owner(t)] = @ - 1]
           /\ pc' = [pc EXCEPT ![Owner(t)] =
                       IF pending[Owner(t)] = 1 /\ @ = "asleep" THEN "check" ELSE @]
           /\ UNCHANGED <<job, res, wpc>> /\ cur' = [cur EXCEPT ![w] = @ \ {t}]
<1> USE DEF Shape, TypeInv, Carriers
<1>1. PICK t \in cur[w] :
        /\ cur' = [cur EXCEPT ![w] = @ \ {t}]
        /\ pending' = [pending EXCEPT ![Owner(t)] = @ - 1]
        /\ pc' = [pc EXCEPT ![Owner(t)] =
                    IF pending[Owner(t)] = 1 /\ @ = "asleep" THEN "check" ELSE @]
  BY DEF WorkerFinishOne
<1>2. wpc[w] = "finish" /\ UNCHANGED <<q, dbatch, given, job, res, wpc>>
  BY DEF WorkerFinishOne, queueVars, dispVars
<1>3. t \in Held  BY InHeld
<1>4. t \notin given[w]  BY <1>1 DEF OnePlace
<1>5. t \notin q /\ t \notin dbatch /\ \A v \in Workers \ {w} : t \notin given[v] /\ t \notin cur[v]
  BY <1>1 DEF OnePlace
<1>6. Held' = Held \ {t}  BY <1>1, <1>2, <1>4, <1>5, InHeld, InHeldNext
<1> QED  BY <1>1, <1>2, <1>3, <1>6

\* What a submit adds to the queue was nowhere before: its handler had no Job.
LEMMA HeldSubmit ==
  ASSUME Shape, OnePlace, Jobs, NoDanglingTask, NEW c \in Clients, HandlerSubmit(c)
  PROVE  /\ HeldOf(c) = {}
         /\ Held' = Held \cup job'[c]
         /\ job'[c] \subseteq TasksOf(c)
         /\ pending' = [pending EXCEPT ![c] = Cardinality(job'[c])]
         /\ pc' = [pc EXCEPT ![c] = "notify"]
         /\ \A d \in Clients \ {c} : job'[d] = job[d]
         /\ OnePlace'
<1> USE DEF Shape, TypeInv
<1>1. PICK forms \in Requests(c) :
        /\ job' = [job EXCEPT ![c] = DOMAIN forms]
        /\ pending' = [pending EXCEPT ![c] = Cardinality(DOMAIN forms)]
        /\ q' = q \cup DOMAIN forms
  BY DEF HandlerSubmit
<1>2. /\ pc[c] = "parsing" /\ pc' = [pc EXCEPT ![c] = "notify"]
      /\ UNCHANGED <<dbatch, given, cur>>
  BY DEF HandlerSubmit, dispVars, workerVars
<1>3. job'[c] = DOMAIN forms /\ job'[c] \subseteq TasksOf(c)  BY <1>1, RequestTasks
<1>4. HeldOf(c) = {}  BY <1>2 DEF HeldOf, NoDanglingTask, Waiting
<1>5. \A t \in job'[c] : Owner(t) = c  BY <1>3 DEF TasksOf, Owner
<1>6. job'[c] \cap Held = {}  BY <1>4, <1>5 DEF HeldOf
<1>7. Held' = Held \cup job'[c]  BY <1>1, <1>2, <1>3, InHeld, InHeldNext
<1>8. OnePlace'
  <2>1. \A t \in job'[c] : /\ t \notin dbatch
                           /\ \A w \in Workers : t \notin given[w] /\ t \notin cur[w]
    BY <1>6, InHeld
  <2> QED  BY <1>1, <1>2, <1>3, <2>1 DEF OnePlace
<1> QED  BY <1>1, <1>2, <1>3, <1>4, <1>7, <1>8

-----------------------------------------------------------------------------
(***************************************************************************)
(* The invariant: no pointer into a Job outlives the wait of its handler,  *)
(* because job.pending counts what is still pointed to.                    *)
(***************************************************************************)
Inv == Shape /\ OnePlace /\ Jobs /\ NoDanglingTask /\ PendingCounts

LEMMA HeldOwners == TypeInv => Held \subseteq Tasks /\ \A t \in Held : Owner(t) \in Clients
<1> SUFFICES ASSUME TypeInv PROVE Held \subseteq Tasks /\ \A t \in Held : Owner(t) \in Clients
  OBVIOUS
<1>1. Held \subseteq Tasks  BY InHeld DEF TypeInv
<1> QED  BY <1>1 DEF Tasks, Owner

LEMMA InvInit == Init => Inv
<1> SUFFICES ASSUME Init PROVE Inv  OBVIOUS
<1>1. Shape  BY TypeInit, CarriersInit DEF Shape
<1>2. Held = {}  BY InHeld DEF Init
<1>3. OnePlace  BY DEF Init, OnePlace
<1>4. Jobs  BY DEF Init, Jobs
<1>5. NoDanglingTask  BY <1>2 DEF NoDanglingTask
<1>6. PendingCounts
  <2>1. \A c \in Clients : HeldOf(c) = {}  BY <1>2 DEF HeldOf
  <2> QED  BY <2>1, FS_EmptySet DEF Init, PendingCounts
<1> QED  BY <1>1, <1>3, <1>4, <1>5, <1>6 DEF Inv

\* A step that moves no task out of Held and touches no Job keeps the counts.
LEMMA CountFrame ==
  ASSUME PendingCounts, Held' = Held, pending' = pending
  PROVE  PendingCounts'
<1>1. \A c \in Clients : HeldOf(c)' = HeldOf(c)  BY DEF HeldOf
<1> QED  BY <1>1 DEF PendingCounts

\* The steps outside the handlers touch no Job, and of pc only wake sleepers.
LEMMA ThreadFrame ==
  ASSUME Inv,
         \/ Dispatcher
         \/ \E w \in Workers : Worker(w) /\ ~WorkerFinishOne(w)
         \/ Signal \/ Main \/ SpuriousWakeup \/ Terminated \/ UNCHANGED vars
  PROVE  /\ Held' = Held /\ OnePlace'
         /\ UNCHANGED <<job, pending>>
         /\ pc' \in [Clients -> HandlerStates]
         /\ \A c \in Clients : pc'[c] = pc[c] \/ (pc[c] = "asleep" /\ pc'[c] = "check")
<1> USE DEF Inv, handlerVars
<1>0. TypeInv'  BY DispatcherType, WorkerType, MainType, OtherType DEF Shape
<1>1. CASE Dispatcher
  <2>1. UNCHANGED handlerVars
    BY <1>1 DEF Dispatcher, DispatcherExit, DispatcherSleep, DispatcherPick, DispatcherWoken,
                DispatcherTimeout, DispatcherGive, DispatcherWake
  <2> QED  BY <1>0, <1>1, <2>1, HeldDispatcher DEF TypeInv
<1>2. CASE \E w \in Workers : Worker(w) /\ ~WorkerFinishOne(w)
  <2>1. UNCHANGED <<job, pending, pc>>
    BY <1>2 DEF Worker, WorkerSleep, WorkerExit, WorkerTake, WorkerRun, WorkerRetire, WorkerNotify
  <2> QED  BY <1>0, <1>2, <2>1, HeldWorker DEF TypeInv
<1>3. CASE Signal \/ Main \/ Terminated \/ UNCHANGED vars
  <2>1. UNCHANGED handlerVars
    BY <1>3 DEF Signal, Main, MainStop, MainNotify, MainJoinDispatcher, MainFlag, MainWake,
                MainJoin, MainExit, Terminated, vars
  <2> QED  BY <1>0, <1>3, <2>1, HeldOther, HeldFrame DEF TypeInv
<1>4. CASE SpuriousWakeup
  <2>1. /\ UNCHANGED <<job, pending>>
        /\ \A c \in Clients : pc'[c] = pc[c] \/ (pc[c] = "asleep" /\ pc'[c] = "check")
    BY <1>4 DEF SpuriousWakeup, Shape, TypeInv
  <2> QED  BY <1>0, <1>4, <2>1, HeldOther, HeldFrame DEF TypeInv
<1> QED  BY <1>1, <1>2, <1>3, <1>4

LEMMA HeldOfFinite == TypeInv => \A c \in Clients : IsFiniteSet(HeldOf(c))
<1> SUFFICES ASSUME TypeInv, NEW c \in Clients PROVE IsFiniteSet(HeldOf(c))  OBVIOUS
<1>1. HeldOf(c) \in SUBSET Tasks  BY HeldOwners DEF HeldOf
<1> QED  BY <1>1, TasksFinite, FS_Subset

LEMMA InvHandler ==
  ASSUME Inv, NEW c \in Clients, HandlerReceive(c) \/ Handler(c)
  PROVE  Inv'
<1> USE DEF Inv
<1>1. Shape'
  <2>1. (TypeInv /\ NamedWorkers)'  BY HandlerType DEF Shape
  <2> QED  BY <2>1, CarriersHandler DEF Shape
<1>2. CASE HandlerSubmit(c)
  <2>1. /\ HeldOf(c) = {} /\ Held' = Held \cup job'[c] /\ job'[c] \subseteq TasksOf(c)
        /\ pending' = [pending EXCEPT ![c] = Cardinality(job'[c])]
        /\ pc' = [pc EXCEPT ![c] = "notify"]
        /\ \A d \in Clients \ {c} : job'[d] = job[d]
        /\ OnePlace'
    BY <1>2, HeldSubmit
  <2>2. Jobs'  BY <2>1 DEF Jobs, Shape, TypeInv
  <2>3. \A t \in job'[c] : Owner(t) = c  BY <2>1 DEF TasksOf, Owner
  <2>4. \A t \in Held : Owner(t) \in Clients \ {c}
    BY <2>1, HeldOwners DEF HeldOf, Shape
  <2>5. NoDanglingTask'
    <3> SUFFICES ASSUME NEW t \in Held' PROVE t \in job'[Owner(t)] /\ pc'[Owner(t)] \in Waiting
      BY DEF NoDanglingTask, Waiting
    <3>1. CASE t \in job'[c]  BY <2>1, <2>3, <3>1 DEF Waiting, Shape, TypeInv
    <3>2. CASE t \in Held  BY <2>1, <2>4, <3>2 DEF NoDanglingTask, Shape, TypeInv
    <3> QED  BY <2>1, <3>1, <3>2
  <2>6. PendingCounts'
    <3>1. HeldOf(c)' = job'[c]  BY <2>1, <2>3, <2>4 DEF HeldOf
    <3>2. \A d \in Clients \ {c} : HeldOf(d)' = HeldOf(d)  BY <2>1, <2>3 DEF HeldOf
    <3> QED  BY <2>1, <3>1, <3>2 DEF PendingCounts, Shape, TypeInv
  <2> QED  BY <1>1, <2>1, <2>2, <2>5, <2>6
<1>3. CASE ~HandlerSubmit(c)
  <2>1. Held' = Held /\ OnePlace'  BY <1>3, HeldHandler, HeldFrame
  <2>2. pending' = pending
    BY <1>3 DEF Handler, HandlerReceive, HandlerRefuse, HandlerNotify, HandlerCheck, HandlerReply
  <2>3. PendingCounts'  BY <2>1, <2>2, CountFrame
  <2>4. /\ \A d \in Clients \ {c} : pc'[d] = pc[d] /\ job'[d] = job[d]
        /\ \/ pc[c] \in {"idle", "parsing"} /\ pc'[c] \in {"idle", "parsing"} /\ job'[c] = job[c]
           \/ pc[c] = "notify" /\ pc'[c] = "check" /\ job'[c] = job[c]
           \/ pc[c] = "check" /\ pc'[c] = "asleep" /\ job'[c] = job[c]
           \/ pc[c] = "check" /\ pc'[c] = "reply" /\ job'[c] = job[c] /\ pending[c] = 0
           \/ pc[c] = "reply" /\ pc'[c] = "idle" /\ job'[c] = {}
    BY <1>3 DEF Handler, HandlerReceive, HandlerRefuse, HandlerNotify, HandlerCheck, HandlerReply,
                Shape, TypeInv
  <2>5. Jobs'  BY <2>4 DEF Jobs
  <2>6. pc'[c] \notin Waiting => HeldOf(c) = {}
    <3>1. pending[c] = 0 => HeldOf(c) = {}
      BY HeldOfFinite, FS_EmptySet DEF PendingCounts, Shape
    <3>2. pc[c] \notin Waiting => HeldOf(c) = {}  BY DEF NoDanglingTask, HeldOf
    <3> QED  BY <2>4, <3>1, <3>2 DEF Waiting
  <2>7. NoDanglingTask'
    <3> SUFFICES ASSUME NEW t \in Held PROVE t \in job'[Owner(t)] /\ pc'[Owner(t)] \in Waiting
      BY <2>1 DEF NoDanglingTask, Waiting
    <3>1. Owner(t) \in Clients  BY HeldOwners DEF Shape
    <3>2. CASE Owner(t) # c  BY <2>4, <3>1, <3>2 DEF NoDanglingTask
    <3>3. CASE Owner(t) = c
      <4>1. t \in HeldOf(c)  BY <3>3 DEF HeldOf
      <4> QED  BY <2>4, <2>6, <3>3, <4>1 DEF NoDanglingTask, Waiting
    <3> QED  BY <3>2, <3>3
  <2> QED  BY <1>1, <2>1, <2>3, <2>5, <2>7
<1> QED  BY <1>2, <1>3

LEMMA InvFinish ==
  ASSUME Inv, NEW w \in Workers, WorkerFinishOne(w)
  PROVE  Inv'
<1> USE DEF Inv
<1>1. Shape' /\ OnePlace'
  <2>1. Worker(w)  BY DEF Worker
  <2>2. (TypeInv /\ NamedWorkers)'  BY <2>1, WorkerType DEF Shape
  <2> QED  BY <2>1, <2>2, CarriersWorker, HeldWorker DEF Shape
<1>2. PICK t \in Held :
        /\ Held' = Held \ {t}
        /\ pending' = [pending EXCEPT ![Owner(t)] = @ - 1]
        /\ pc' = [pc EXCEPT ![Owner(t)] =
                    IF pending[Owner(t)] = 1 /\ @ = "asleep" THEN "check" ELSE @]
        /\ job' = job
  BY HeldFinish
<1>3. Owner(t) \in Clients  BY HeldOwners DEF Shape
<1>4. \A c \in Clients : pc'[c] = pc[c] \/ (pc[c] = "asleep" /\ pc'[c] = "check")
  BY <1>2, <1>3 DEF Shape, TypeInv
<1>5. Jobs'  BY <1>2, <1>4 DEF Jobs
<1>6. NoDanglingTask'
  BY <1>2, <1>4, HeldOwners DEF NoDanglingTask, Waiting, Shape
<1>7. PendingCounts'
  <2>1. t \in HeldOf(Owner(t)) /\ HeldOf(Owner(t))' = HeldOf(Owner(t)) \ {t}
    BY <1>2 DEF HeldOf
  <2>2. Cardinality(HeldOf(Owner(t)) \ {t}) = Cardinality(HeldOf(Owner(t))) - 1
    BY <1>3, <2>1, HeldOfFinite, FS_RemoveElement DEF Shape
  <2>3. \A d \in Clients \ {Owner(t)} : HeldOf(d)' = HeldOf(d)  BY <1>2 DEF HeldOf
  <2> QED  BY <1>2, <1>3, <2>1, <2>2, <2>3 DEF PendingCounts, Shape, TypeInv
<1> QED  BY <1>1, <1>5, <1>6, <1>7

LEMMA InvThreads ==
  ASSUME Inv,
         \/ Dispatcher
         \/ \E w \in Workers : Worker(w) /\ ~WorkerFinishOne(w)
         \/ Signal \/ Main \/ SpuriousWakeup \/ Terminated \/ UNCHANGED vars
  PROVE  Inv'
<1> USE DEF Inv
<1>1. Shape'
  <2>1. (TypeInv /\ NamedWorkers)'
    BY DispatcherType, WorkerType, MainType, OtherType DEF Shape
  <2>2. Carriers'  BY CarriersDispatcher, CarriersWorker, CarriersOther
  <2> QED  BY <2>1, <2>2 DEF Shape
<1>2. /\ Held' = Held /\ OnePlace' /\ UNCHANGED <<job, pending>>
      /\ \A c \in Clients : pc'[c] = pc[c] \/ (pc[c] = "asleep" /\ pc'[c] = "check")
  BY ThreadFrame
<1>3. Jobs'  BY <1>2 DEF Jobs
<1>4. NoDanglingTask'  BY <1>2, HeldOwners DEF NoDanglingTask, Waiting, Shape
<1>5. PendingCounts'  BY <1>2, CountFrame
<1> QED  BY <1>1, <1>2, <1>3, <1>4, <1>5

LEMMA InvStep == Inv /\ [Next]_vars => Inv'
  BY InvHandler, InvFinish, InvThreads DEF Next

\* The invariant holds in every reachable state.
THEOREM Invariance == Spec => []Inv
<1>1. Inv /\ [Next]_vars => Inv'  BY InvStep
<1> QED  BY InvInit, <1>1, PTL DEF Spec

-----------------------------------------------------------------------------
(* What the invariant gives. *)

\* A connection has at most MaxItems tasks.
LEMMA CountBound ==
  ASSUME NEW c \in Clients
  PROVE  IsFiniteSet(TasksOf(c)) /\ Cardinality(TasksOf(c)) = MaxItems
<1>1. IsFiniteSet({c}) /\ Cardinality({c}) = 1  BY FS_Singleton
<1>2. MaxItems \in Nat \ {0}  BY EngineAssumption DEF EngineAssumption
<1>3. IsFiniteSet(1..MaxItems) /\ Cardinality(1..MaxItems) = MaxItems  BY <1>2, FS_Interval
<1>4. /\ IsFiniteSet({c} \X (1..MaxItems))
      /\ Cardinality({c} \X (1..MaxItems)) = Cardinality({c}) * Cardinality(1..MaxItems)
  BY <1>1, <1>3, FS_Product
<1> QED  BY <1>1, <1>2, <1>3, <1>4 DEF TasksOf

LEMMA InvTypeOK == Inv => TypeOK
<1> SUFFICES ASSUME Inv PROVE TypeOK  OBVIOUS
<1> USE DEF Inv, Shape
<1>1. ASSUME NEW c \in Clients PROVE pending[c] \in 0..MaxItems
  <2>1. HeldOf(c) \subseteq TasksOf(c)  BY DEF HeldOf, NoDanglingTask, Jobs
  <2>2. Cardinality(HeldOf(c)) <= MaxItems  BY <2>1, CountBound, FS_Subset
  <2>3. Cardinality(HeldOf(c)) \in Nat  BY HeldOfFinite, FS_CardinalityType
  <2>4. MaxItems \in Nat  BY EngineAssumption DEF EngineAssumption
  <2> QED  BY <2>2, <2>3, <2>4 DEF PendingCounts
<1>2. pending \in [Clients -> 0..MaxItems]  BY <1>1 DEF TypeInv
<1> QED  BY <1>2 DEF TypeInv, TypeOK

LEMMA InvHandoff == Inv => HandoffSafe
  BY DEF Inv, Shape, TypeInv, NamedWorkers, Carriers, HandoffSafe, Busy

\* Every variable keeps its type; job.pending stays between 0 and the number
\* of items a request may have.
THEOREM TypeCorrectness == Spec => []TypeOK
  BY Invariance, InvTypeOK, PTL

\* No part of the engine points to a Task of a Job that is gone or about to go.
THEOREM NoUseAfterFree == Spec => []NoDanglingTask
<1>1. Inv => NoDanglingTask  BY DEF Inv
<1> QED  BY <1>1, Invariance, PTL

\* A task is in one place, and is so run and finished at most once.
THEOREM OnePlaceAtATime == Spec => []OnePlace
<1>1. Inv => OnePlace  BY DEF Inv
<1> QED  BY <1>1, Invariance, PTL

\* job.pending is the number of the job's tasks the engine still has.
THEOREM PendingIsExact == Spec => []PendingCounts
<1>1. Inv => PendingCounts  BY DEF Inv
<1> QED  BY <1>1, Invariance, PTL

\* No hand-over overwrites a batch, and an idle worker is always there to take one.
THEOREM HandoffOverwritesNothing == Spec => []HandoffSafe
  BY Invariance, InvHandoff, PTL


-----------------------------------------------------------------------------
(***************************************************************************)
(* NoLostWakeup is inductive relative to Inv: every step that makes what a *)
(* sleeper waits for true leaves the thread that took it in a state where  *)
(* it still owes the notification.                                         *)
(***************************************************************************)
LEMMA WakeupInit == Init => NoLostWakeup
  BY DEF Init, NoLostWakeup

LEMMA WakeupHandler ==
  ASSUME Inv, NoLostWakeup, NEW c \in Clients, HandlerReceive(c) \/ Handler(c)
  PROVE  NoLostWakeup'
<1> USE DEF Inv, Shape, TypeInv, NoLostWakeup, WakeupOwed, dispVars, workerVars, mainVars, queueVars
<1>1. CASE HandlerReceive(c) \/ HandlerRefuse(c) \/ HandlerReply(c)
  BY <1>1 DEF HandlerReceive, HandlerRefuse, HandlerReply
<1>2. CASE HandlerSubmit(c)
  <2>1. /\ pc' = [pc EXCEPT ![c] = "notify"] /\ pc[c] = "parsing"
        /\ \A d \in Clients \ {c} : pending'[d] = pending[d]
        /\ UNCHANGED <<idle, dispVars, workerVars, mainVars>>
    BY <1>2 DEF HandlerSubmit
  <2> QED  BY <2>1
<1>3. CASE HandlerNotify(c)
  BY <1>3 DEF HandlerNotify, WokenDispatcher
<1>4. CASE HandlerCheck(c)
  <2>1. pending[c] \in Nat  BY HeldOfFinite, FS_CardinalityType DEF PendingCounts
  <2> QED  BY <1>4, <2>1 DEF HandlerCheck
<1> QED  BY <1>1, <1>2, <1>3, <1>4 DEF Handler

LEMMA WakeupDispatcher ==
  ASSUME Inv, NoLostWakeup, Dispatcher
  PROVE  NoLostWakeup'
<1> USE DEF Inv, Shape, TypeInv, NamedWorkers, NoLostWakeup, WakeupOwed, handlerVars, workerVars, mainVars, queueVars
<1>1. CASE DispatcherExit \/ DispatcherSleep
  BY <1>1 DEF DispatcherExit, DispatcherSleep
<1>2. CASE DispatcherPick \/ DispatcherWoken \/ DispatcherTimeout
  <2>1. UNCHANGED <<handlerVars, workerVars, mainVars>> /\ dpc \notin {"wake", "give"}
    BY <1>2 DEF DispatcherPick, DispatcherWoken, DispatcherTimeout
  <2>2. dpc' = "give" \/ (dpc' = "company" /\ q' = {} /\ ~stopping)
    BY <1>2 DEF DispatcherPick, DispatcherWoken, DispatcherTimeout, Hold, Close, HoldOpen, Erase
  <2> QED  BY <2>1, <2>2
<1>3. CASE DispatcherGive  BY <1>3 DEF DispatcherGive
<1>4. CASE DispatcherWake  BY <1>4 DEF DispatcherWake, WokenWorker
<1> QED  BY <1>1, <1>2, <1>3, <1>4 DEF Dispatcher

LEMMA WakeupWorker ==
  ASSUME Inv, NoLostWakeup, NEW w \in Workers, Worker(w)
  PROVE  NoLostWakeup'
<1> USE DEF Inv, Shape, TypeInv, NoLostWakeup, WakeupOwed, handlerVars, dispVars, mainVars, queueVars
<1>1. CASE WorkerSleep(w) \/ WorkerExit(w)  BY <1>1 DEF WorkerSleep, WorkerExit
<1>2. CASE WorkerTake(w) \/ WorkerRun(w)  BY <1>2 DEF WorkerTake, WorkerRun
<1>3. CASE WorkerFinishOne(w)
  <2>1. PICK t \in Held :
          /\ pending' = [pending EXCEPT ![Owner(t)] = @ - 1]
          /\ pc' = [pc EXCEPT ![Owner(t)] =
                      IF pending[Owner(t)] = 1 /\ @ = "asleep" THEN "check" ELSE @]
    BY <1>3, HeldFinish
  <2>2. Owner(t) \in Clients  BY HeldOwners
  <2>3. UNCHANGED <<idle, dispVars, wpc, hasWork, stop, mainVars, q>>
    BY <1>3 DEF WorkerFinishOne
  <2>4. \A c \in Clients : pc'[c] = "asleep" => pending'[c] > 0  BY <2>1, <2>2
  <2>5. \A c \in Clients : pc[c] = "notify" => pc'[c] = "notify"  BY <2>1, <2>2
  <2> QED  BY <2>3, <2>4, <2>5
<1>4. CASE WorkerRetire(w)  BY <1>4 DEF WorkerRetire
<1>5. CASE WorkerNotify(w)  BY <1>5 DEF WorkerNotify, WokenDispatcher
<1> QED  BY <1>1, <1>2, <1>3, <1>4, <1>5 DEF Worker

LEMMA WakeupOther ==
  ASSUME Inv, NoLostWakeup, Signal \/ Main \/ SpuriousWakeup \/ Terminated \/ UNCHANGED vars
  PROVE  NoLostWakeup'
<1> USE DEF Inv, Shape, TypeInv, NamedWorkers, NoLostWakeup, WakeupOwed, handlerVars, dispVars, workerVars, queueVars
<1>1. CASE Signal \/ MainStop \/ MainJoinDispatcher \/ MainExit \/ \E w \in Workers : MainJoin(w)
  BY <1>1 DEF Signal, MainStop, MainJoinDispatcher, MainExit, MainJoin
<1>2. CASE MainNotify  BY <1>2 DEF MainNotify, WokenDispatcher
<1>3. CASE \E w \in Workers : MainFlag(w)  BY <1>3 DEF MainFlag
<1>4. CASE MainWake  BY <1>4 DEF MainWake, WokenWorker
<1>5. CASE SpuriousWakeup  BY <1>5 DEF SpuriousWakeup, WokenDispatcher, mainVars
<1>6. CASE Terminated \/ UNCHANGED vars  BY <1>6 DEF Terminated, vars, mainVars
<1> QED  BY <1>1, <1>2, <1>3, <1>4, <1>5, <1>6 DEF Main

\* No thread sleeps through what it waits for.
THEOREM WakeupsAreNotLost == Spec => []NoLostWakeup
<1>1. Inv /\ NoLostWakeup /\ [Next]_vars => NoLostWakeup'
  BY WakeupHandler, WakeupDispatcher, WakeupWorker, WakeupOther DEF Next
<1> QED  BY <1>1, WakeupInit, Invariance, PTL DEF Spec

-----------------------------------------------------------------------------
(***************************************************************************)
(* Results.  A task that the engine no longer holds has a result, because  *)
(* a worker counts tasks down only after it ran them.                      *)
(***************************************************************************)
Results ==
    /\ \A c \in Clients : pc[c] \in Waiting \cup {"reply"} =>
         \A t \in job[c] : t \in Held \/ res[t] # "none"
    /\ \A w \in Workers : wpc[w] = "finish" => \A t \in cur[w] : res[t] # "none"

LEMMA ResultsHandler ==
  ASSUME Inv, Results, NEW c \in Clients, HandlerReceive(c) \/ Handler(c)
  PROVE  Results'
<1> USE DEF Inv, Shape, TypeInv, Results
<1>0. UNCHANGED <<wpc, cur>>
  BY DEF Handler, HandlerReceive, HandlerRefuse, HandlerSubmit, HandlerNotify, HandlerCheck,
         HandlerReply, workerVars
<1>1. CASE HandlerSubmit(c)
  <2>1. /\ Held' = Held \cup job'[c] /\ \A d \in Clients \ {c} : job'[d] = job[d]
        /\ pc' = [pc EXCEPT ![c] = "notify"]
    BY <1>1, HeldSubmit
  <2>2. res' = res  BY <1>1 DEF HandlerSubmit
  <2> QED  BY <1>0, <2>1, <2>2
<1>2. CASE HandlerReply(c)
  <2>1. Held' = Held  BY <1>2, HeldHandler, HeldFrame DEF Handler, HandlerReply, HandlerSubmit
  <2>2. /\ pc[c] = "reply" /\ pc' = [pc EXCEPT ![c] = "idle"] /\ job' = [job EXCEPT ![c] = {}]
        /\ \A t \in Tasks : Owner(t) # c => res'[t] = res[t]
    BY <1>2 DEF HandlerReply
  <2>3. \A w \in Workers : \A t \in cur[w] : Owner(t) # c
    BY <2>2, InHeld DEF NoDanglingTask, Waiting
  <2>4. \A d \in Clients \ {c} : \A t \in job[d] : Owner(t) # c /\ t \in Tasks
    BY DEF Jobs, TasksOf, Owner
  <2>5. \A d \in Clients : pc'[d] \in Waiting \cup {"reply"} => d # c /\ pc[d] = pc'[d] /\ job'[d] = job[d]
    BY <2>2 DEF Waiting
  <2> QED  BY <1>0, <2>1, <2>2, <2>3, <2>4, <2>5
<1>3. CASE HandlerReceive(c) \/ HandlerRefuse(c) \/ HandlerNotify(c) \/ HandlerCheck(c)
  <2>1. Held' = Held
    BY <1>3, HeldHandler, HeldFrame
    DEF Handler, HandlerReceive, HandlerRefuse, HandlerNotify, HandlerCheck, HandlerSubmit
  <2>2. /\ UNCHANGED <<job, res>>
        /\ \A d \in Clients : pc'[d] \in Waiting \cup {"reply"} => pc[d] \in Waiting \cup {"reply"}
    BY <1>3 DEF HandlerReceive, HandlerRefuse, HandlerNotify, HandlerCheck, Waiting
  <2> QED  BY <1>0, <2>1, <2>2
<1> QED  BY <1>1, <1>2, <1>3 DEF Handler

LEMMA ResultsWorker ==
  ASSUME Inv, Results, NEW w \in Workers, Worker(w)
  PROVE  Results'
<1> USE DEF Inv, Shape, TypeInv, Results
<1>1. CASE WorkerFinishOne(w)
  <2>1. PICK t \in Held :
          /\ t \in cur[w] /\ wpc[w] = "finish" /\ Held' = Held \ {t}
          /\ UNCHANGED <<job, res, wpc>> /\ cur' = [cur EXCEPT ![w] = @ \ {t}]
    BY <1>1, HeldFinish
  <2>2. \A c \in Clients : pc'[c] \in Waiting \cup {"reply"} => pc[c] \in Waiting \cup {"reply"}
    BY <1>1 DEF WorkerFinishOne, Waiting
  <2> QED  BY <2>1, <2>2
<1>2. CASE WorkerRun(w)
  <2>1. Held' = Held  BY <1>2, HeldWorker DEF WorkerRun, WorkerFinishOne
  <2>2. /\ UNCHANGED <<pc, job, cur>> /\ wpc' = [wpc EXCEPT ![w] = "finish"]
        /\ \A t \in Tasks : /\ t \in cur[w] => res'[t] # "none"
                            /\ res[t] # "none" => res'[t] # "none"
    BY <1>2 DEF WorkerRun
  <2> QED  BY <2>1, <2>2
<1>3. CASE WorkerSleep(w) \/ WorkerExit(w) \/ WorkerTake(w) \/ WorkerRetire(w) \/ WorkerNotify(w)
  <2>1. Held' = Held
    BY <1>3, HeldWorker
    DEF WorkerSleep, WorkerExit, WorkerTake, WorkerRetire, WorkerNotify, WorkerFinishOne
  <2>2. /\ UNCHANGED <<pc, job, res>>
        /\ \A v \in Workers : wpc'[v] = "finish" => wpc[v] = "finish" /\ cur'[v] = cur[v]
    BY <1>3 DEF WorkerSleep, WorkerExit, WorkerTake, WorkerRetire, WorkerNotify, handlerVars
  <2> QED  BY <2>1, <2>2
<1> QED  BY <1>1, <1>2, <1>3 DEF Worker

LEMMA ResultsOther ==
  ASSUME Inv, Results, Dispatcher \/ Signal \/ Main \/ SpuriousWakeup \/ Terminated \/ UNCHANGED vars
  PROVE  Results'
<1> USE DEF Inv, Shape, TypeInv, Results
<1>1. Held' = Held /\ \A c \in Clients : pc'[c] = pc[c] \/ (pc[c] = "asleep" /\ pc'[c] = "check")
  BY ThreadFrame
<1>2. /\ UNCHANGED <<job, res, cur>>
      /\ \A v \in Workers : wpc'[v] = "finish" => wpc[v] = "finish"
  <2>1. CASE Dispatcher
    BY <2>1 DEF Dispatcher, DispatcherExit, DispatcherSleep, DispatcherPick, DispatcherWoken,
                DispatcherTimeout, DispatcherGive, DispatcherWake, WokenWorker, handlerVars, workerVars
  <2>2. CASE Signal \/ Main
    BY <2>2 DEF Signal, Main, MainStop, MainNotify, MainJoinDispatcher, MainFlag, MainWake,
                MainJoin, MainExit, WokenWorker, handlerVars, workerVars
  <2>3. CASE SpuriousWakeup \/ Terminated \/ UNCHANGED vars
    BY <2>3 DEF SpuriousWakeup, Terminated, vars, handlerVars, workerVars
  <2> QED  BY <2>1, <2>2, <2>3
<1> QED  BY <1>1, <1>2 DEF Waiting

LEMMA ResultsHold == Spec => []Results
<1>1. Init => Results  BY DEF Init, Results, Waiting
<1>2. Inv /\ Results /\ [Next]_vars => Results'
  BY ResultsHandler, ResultsWorker, ResultsOther DEF Next
<1> QED  BY <1>1, <1>2, Invariance, PTL DEF Spec

\* A handler that Job::wait released finds every task of its request computed.
THEOREM ResultsBeforeReply == Spec => []ReleasedWhenComputed
<1>1. Inv /\ Results => ReleasedWhenComputed
  BY DEF Inv, Results, ReleasedWhenComputed, NoDanglingTask, Jobs, TasksOf, Owner, Waiting
<1> QED  BY <1>1, ResultsHold, Invariance, PTL

-----------------------------------------------------------------------------
(***************************************************************************)
(* Shutdown.  The phases of main order everything: stopping is set only    *)
(* with every handler idle, the workers are told to stop only after the    *)
(* dispatcher is gone, and memory goes only after its users.               *)
(***************************************************************************)
Phases ==
    /\ stopping => mpc \notin {"listening", "draining"}
    /\ mpc \notin {"listening", "draining"} => \A c \in Clients : pc[c] = "idle"
    /\ mpc \in {"flag", "wake", "join", "exited"} => dpc = "exited"
    /\ \A w \in Workers : w \notin liveCtx => wpc[w] = "exited"
    /\ mpc = "exited" => liveCtx = {}
    /\ ~liveModel => mpc = "exited"

LEMMA PhasesStep ==
  ASSUME Inv, Phases, [Next]_vars
  PROVE  Phases'
<1> USE DEF Inv, Shape, TypeInv, Phases
<1>1. CASE \E c \in Clients : HandlerReceive(c) \/ Handler(c)
  <2>1. PICK c \in Clients : HandlerReceive(c) \/ Handler(c)  BY <1>1
  <2>2. /\ \/ pc[c] # "idle"
           \/ mpc \in {"listening", "draining"}
        /\ UNCHANGED <<mpc, stopping, liveCtx, liveModel, wpc>>
        /\ dpc = "exited" => dpc' = "exited"
    BY <2>1 DEF HandlerReceive, Handler, HandlerRefuse, HandlerSubmit, HandlerNotify, HandlerCheck,
                HandlerReply, WokenDispatcher, mainVars, workerVars, dispVars
  <2> QED  BY <2>2
<1>2. CASE Dispatcher
  <2>1. /\ UNCHANGED <<pc, mpc, stopping, liveCtx, liveModel>> /\ dpc # "exited"
        /\ \A w \in Workers : wpc[w] = "exited" => wpc'[w] = "exited"
    BY <1>2 DEF Dispatcher, DispatcherExit, DispatcherSleep, DispatcherPick, DispatcherWoken,
                DispatcherTimeout, DispatcherGive, DispatcherWake, WokenWorker,
                handlerVars, mainVars, workerVars
  <2> QED  BY <2>1
<1>3. CASE \E w \in Workers : Worker(w)
  <2>1. PICK w \in Workers : Worker(w)  BY <1>3
  <2>2. /\ UNCHANGED <<mpc, stopping, liveCtx, liveModel>>
        /\ \A v \in Workers : wpc[v] = "exited" => wpc'[v] = "exited"
        /\ dpc = "exited" => dpc' = "exited"
    BY <2>1 DEF Worker, WorkerSleep, WorkerExit, WorkerTake, WorkerRun, WorkerFinishOne,
                WorkerRetire, WorkerNotify, WokenDispatcher, mainVars, dispVars
  <2>3. \A c \in Clients : pc[c] = "idle" => pc'[c] = "idle"
    BY <2>1 DEF Worker, WorkerSleep, WorkerExit, WorkerTake, WorkerRun, WorkerFinishOne,
                WorkerRetire, WorkerNotify, handlerVars
  <2> QED  BY <2>2, <2>3
<1>4. CASE Signal \/ Main
  <2> USE DEF handlerVars, dispVars, workerVars
  <2>1. CASE Signal \/ MainStop \/ MainJoinDispatcher
    BY <1>4, <2>1 DEF Signal, MainStop, MainJoinDispatcher
  <2>2. CASE MainNotify  BY <2>2 DEF MainNotify, WokenDispatcher
  <2>3. CASE \E w \in Workers : MainFlag(w) \/ MainJoin(w)  BY <2>3 DEF MainFlag, MainJoin
  <2>4. CASE MainWake  BY <2>4 DEF MainWake, WokenWorker
  <2>5. CASE MainExit  BY <2>5 DEF MainExit
  <2> QED  BY <1>4, <2>1, <2>2, <2>3, <2>4, <2>5 DEF Main
<1>5. CASE SpuriousWakeup \/ Terminated \/ UNCHANGED vars
  BY <1>5 DEF SpuriousWakeup, WokenDispatcher, Terminated, vars, handlerVars, dispVars, workerVars, mainVars
<1> QED  BY <1>1, <1>2, <1>3, <1>4, <1>5 DEF Next

LEMMA PhasesHold == Spec => []Phases
<1>1. Init => Phases  BY DEF Init, Phases
<1>2. Inv /\ Phases /\ [Next]_vars => Phases'  BY PhasesStep
<1> QED  BY <1>1, <1>2, Invariance, PTL DEF Spec

\* The dispatcher's return and the workers' exits drop nothing.
THEOREM StoppingStrandsNothing == Spec => []NothingStranded
<1>1. Inv /\ Phases => NothingStranded
  BY HeldOwners DEF Inv, Shape, Phases, NothingStranded, NoDanglingTask, Waiting
<1> QED  BY <1>1, PhasesHold, Invariance, PTL

\* A context and the model outlive every thread that runs on them.
THEOREM ContextsOutliveRuns == Spec => []RunsOnLiveContext
<1>1. Phases => RunsOnLiveContext  BY DEF Phases, RunsOnLiveContext
<1> QED  BY <1>1, PhasesHold, PTL

-----------------------------------------------------------------------------
(***************************************************************************)
(* Batches.  Every task of a Job has a form; a batch the dispatcher holds  *)
(* is never empty, so its form is that of any task in it; and no step      *)
(* changes the form of a task the engine holds.                            *)
(***************************************************************************)
Batches ==
    /\ \A c \in Clients : \A t \in job[c] : form[t] \in Forms
    /\ dpc \in {"company", "woken", "give"} => dbatch # {}
    /\ BatchesAreGraphs

\* The queue is a sequence: ahead orders it totally, and names only queued tasks.
QueueOrder ==
    /\ \A t \in q : ahead[t] \subseteq q
    /\ \A t, u \in q : t \in ahead[u] => u \notin ahead[t]
    /\ \A t, u \in q : t = u \/ t \in ahead[u] \/ u \in ahead[t]
    /\ \A t, u, v \in q : t \in ahead[u] /\ u \in ahead[v] => t \in ahead[v]

\* One gathering: from a first task at the front of the queue, or from the batch
\* held open, to a batch that is held open or closed.
Gathers(B0, B) ==
    /\ \/ dpc = "top" /\ dbatch = {} /\ \E h \in q : ahead[h] = {} /\ B0 = {h}
       \/ dpc \in {"company", "woken"} /\ B0 = dbatch
    /\ B \in TakeCompatible(B0)
    /\ Erase(B) /\ dbatch' = B /\ dpc' \in {"company", "give"}
    /\ UNCHANGED <<handlerVars, workerVars, mainVars>>

LEMMA GatherSteps ==
  ASSUME Inv, DispatcherPick \/ DispatcherWoken \/ DispatcherTimeout
  PROVE  \E B0, B \in SUBSET Tasks : Gathers(B0, B)
<1> USE DEF Inv, Shape, TypeInv, Carriers
<1>1. CASE DispatcherPick
  <2>1. PICK h \in q : /\ ahead[h] = {}
                       /\ \E B \in TakeCompatible({h}) :
                            /\ Erase(B)
                            /\ IF HoldOpen(B) THEN Hold(B) ELSE Close(B)
    BY <1>1 DEF DispatcherPick
  <2>2. PICK B \in TakeCompatible({h}) : Erase(B) /\ (Hold(B) \/ Close(B))  BY <2>1
  <2>3. B \in SUBSET Tasks /\ {h} \in SUBSET Tasks  BY TakeAdds
  <2>4. Gathers({h}, B)  BY <1>1, <2>1, <2>2 DEF DispatcherPick, Gathers, Hold, Close
  <2> QED  BY <2>3, <2>4
<1>2. CASE DispatcherWoken \/ DispatcherTimeout
  <2>1. PICK B \in TakeCompatible(dbatch) : Erase(B) /\ (Hold(B) \/ Close(B))
    BY <1>2 DEF DispatcherWoken, DispatcherTimeout
  <2>2. B \in SUBSET Tasks  BY TakeAdds
  <2>3. Gathers(dbatch, B)
    BY <1>2, <2>1 DEF DispatcherWoken, DispatcherTimeout, Gathers, Hold, Close
  <2> QED  BY <2>2, <2>3
<1> QED  BY <1>1, <1>2

\* What a gathering takes: some of the compatible tasks up to the cap, all of them
\* if there is room, and always the ones that came first.
LEMMA GatherTakes ==
  ASSUME Inv, Batches, NEW B0 \in SUBSET Tasks, NEW B \in SUBSET Tasks, Gathers(B0, B)
  PROVE  \E F \in SUBSET Compatible(B0) :
           /\ B = B0 \cup F /\ B0 # {} /\ B0 \cap F = {}
           /\ F \cap dbatch = {} /\ F \subseteq q
           /\ OneGraph(B0)
           /\ Cardinality(B) = Cardinality(B0) + Cardinality(F)
           /\ Cardinality(B) <= BatchCap(B0)
           /\ F = Compatible(B0) \/ Cardinality(B) = BatchCap(B0)
           /\ \A x \in F, y \in Compatible(B0) \ F : x \in ahead[y]
<1> USE DEF Inv, Shape, TypeInv, Batches
<1>1. PICK F \in SUBSET Compatible(B0) :
        /\ B = B0 \cup F
        /\ Cardinality(F) <= BatchCap(B0) - Cardinality(B0)
        /\ (F # Compatible(B0)) => (Cardinality(F) = BatchCap(B0) - Cardinality(B0))
        /\ \A x \in F, y \in Compatible(B0) \ F : x \in ahead[y]
  BY DEF Gathers, TakeCompatible
<1>2. F \subseteq q /\ B0 \cap F = {}  BY DEF Compatible
<1>3. B0 # {} /\ F \cap dbatch = {}  BY <1>2 DEF Gathers, OnePlace
<1>4. IsFiniteSet(B0) /\ IsFiniteSet(F)  BY <1>2, TasksFinite, FS_Subset
<1>5. Cardinality(B) = Cardinality(B0) + Cardinality(F)
  <2>1. Cardinality(B0 \cup F) = Cardinality(B0) + Cardinality(F) - Cardinality(B0 \cap F)
    BY <1>4, FS_Union
  <2>2. Cardinality(B0 \cap F) = 0  BY <1>2, FS_EmptySet
  <2>3. Cardinality(B0) \in Nat /\ Cardinality(F) \in Nat  BY <1>4, FS_CardinalityType
  <2> QED  BY <1>1, <2>1, <2>2, <2>3
<1>6. OneGraph(B0)
  <2>1. CASE B0 = dbatch  BY <2>1 DEF BatchesAreGraphs
  <2>2. CASE \E h \in q : B0 = {h}
    BY <2>2, FS_Singleton, EngineAssumption DEF OneGraph, EngineAssumption
  <2> QED  BY <2>1, <2>2 DEF Gathers
<1>7. /\ Cardinality(B0) \in Nat /\ Cardinality(F) \in Nat /\ BatchCap(B0) \in Nat
  BY <1>4, FS_CardinalityType, EngineAssumption DEF BatchCap, EngineAssumption
<1> QED  BY <1>1, <1>2, <1>3, <1>5, <1>6, <1>7

\* The steps that close a batch, or take tasks out of the queue, are gatherings.
LEMMA OnlyGathers ==
  ASSUME Inv, [Next]_vars, ~(q \subseteq q') \/ (dpc # "give" /\ dpc' = "give")
  PROVE  \E B0, B \in SUBSET Tasks : Gathers(B0, B)
<1> USE DEF handlerVars, queueVars, dispVars, workerVars, mainVars
<1>1. ASSUME NEW c \in Clients, HandlerReceive(c) \/ Handler(c)
      PROVE  q \subseteq q' /\ (dpc' = "give" => dpc = "give")
  BY <1>1 DEF HandlerReceive, Handler, HandlerRefuse, HandlerSubmit, HandlerNotify, HandlerCheck,
              HandlerReply, WokenDispatcher
<1>2. CASE DispatcherExit \/ DispatcherSleep \/ DispatcherGive \/ DispatcherWake
  BY <1>2 DEF DispatcherExit, DispatcherSleep, DispatcherGive, DispatcherWake
<1>3. ASSUME NEW w \in Workers, Worker(w)
      PROVE  q \subseteq q' /\ (dpc' = "give" => dpc = "give")
  BY <1>3 DEF Worker, WorkerSleep, WorkerExit, WorkerTake, WorkerRun, WorkerFinishOne,
              WorkerRetire, WorkerNotify, WokenDispatcher
<1>4. CASE Signal \/ Main
  BY <1>4 DEF Signal, Main, MainStop, MainNotify, MainJoinDispatcher, MainFlag, MainWake, MainJoin,
              MainExit, WokenDispatcher
<1>5. CASE SpuriousWakeup \/ Terminated \/ UNCHANGED vars
  BY <1>5 DEF SpuriousWakeup, WokenDispatcher, Terminated, vars
<1> QED  BY <1>1, <1>2, <1>3, <1>4, <1>5, GatherSteps DEF Next, Dispatcher

-----------------------------------------------------------------------------
(* The order of the queue. *)

LEMMA OrderSubmit ==
  ASSUME Inv, QueueOrder, NEW c \in Clients, HandlerSubmit(c)
  PROVE  QueueOrder'
<1> USE DEF Inv, Shape, TypeInv, QueueOrder
<1>1. PICK forms \in Requests(c) :
        LET new == DOMAIN forms IN
        /\ q' = q \cup new
        /\ job' = [job EXCEPT ![c] = new]
        /\ ahead' = [t \in Tasks |->
                       IF t \in new THEN q \cup {u \in new : u[2] < t[2]} ELSE ahead[t]]
  BY DEF HandlerSubmit
<1> DEFINE new == DOMAIN forms
<1> HIDE DEF new
<1>2. new \subseteq TasksOf(c) /\ new \subseteq Tasks  BY RequestTasks DEF new
<1>3. new \cap q = {}
  <2>1. HeldOf(c) = {}  BY HeldSubmit
  <2>2. \A t \in new : Owner(t) = c  BY <1>2 DEF TasksOf, Owner
  <2> QED  BY <2>1, <2>2, InHeld DEF HeldOf
<1>4. q' = q \cup new /\ \A t \in q : ahead'[t] = ahead[t]
  BY <1>1, <1>3 DEF new
<1>5. \A t \in new : ahead'[t] = q \cup {u \in new : u[2] < t[2]}
  BY <1>1, <1>2 DEF new
<1>6. \A t \in new : t[2] \in Int
  BY <1>2, EngineAssumption DEF TasksOf, EngineAssumption
<1>7. \A t, u \in new : t = u \/ t[2] < u[2] \/ u[2] < t[2]
  <2> SUFFICES ASSUME NEW t \in new, NEW u \in new, t[2] = u[2] PROVE t = u
    BY <1>6
  <2>1. t \in {c} \X (1..MaxItems) /\ u \in {c} \X (1..MaxItems)  BY <1>2 DEF TasksOf
  <2> QED  BY <2>1
<1>8. \A t \in q' : ahead'[t] \subseteq q'  BY <1>4, <1>5
<1>9. \A t, u \in q' : t \in ahead'[u] => u \notin ahead'[t]
  BY <1>3, <1>4, <1>5, <1>6
<1>10. \A t, u \in q' : t = u \/ t \in ahead'[u] \/ u \in ahead'[t]
  BY <1>3, <1>4, <1>5, <1>7
<1>11. \A t, u, v \in q' : t \in ahead'[u] /\ u \in ahead'[v] => t \in ahead'[v]
  <2> SUFFICES ASSUME NEW t \in q', NEW u \in q', NEW v \in q', t \in ahead'[u], u \in ahead'[v]
               PROVE  t \in ahead'[v]
    OBVIOUS
  <2>1. CASE v \in q  BY <1>3, <1>4, <2>1
  <2>2. CASE v \in new /\ u \in q  BY <1>3, <1>4, <1>5, <2>2
  <2>3. CASE v \in new /\ u \in new
    BY <1>3, <1>4, <1>5, <1>6, <2>3
  <2> QED  BY <1>4, <2>1, <2>2, <2>3
<1> QED  BY <1>8, <1>9, <1>10, <1>11

LEMMA OrderErase ==
  ASSUME QueueOrder, q \subseteq Tasks, NEW B, Erase(B)
  PROVE  QueueOrder'
<1>1. /\ q' = q \ B
      /\ \A t \in q' : ahead'[t] = ahead[t] \ B
  BY DEF Erase
<1> QED  BY <1>1 DEF QueueOrder

LEMMA OrderStep == Inv /\ QueueOrder /\ [Next]_vars => QueueOrder'
<1> SUFFICES ASSUME Inv, QueueOrder, [Next]_vars PROVE QueueOrder'  OBVIOUS
<1>1. CASE UNCHANGED <<q, ahead>>  BY <1>1 DEF QueueOrder
<1>2. CASE DispatcherPick \/ DispatcherWoken \/ DispatcherTimeout
  BY <1>2, GatherSteps, OrderErase DEF Gathers, Inv, Shape, TypeInv
<1>3. ASSUME NEW c \in Clients, HandlerReceive(c) \/ Handler(c) PROVE HandlerSubmit(c) \/ UNCHANGED queueVars
  BY <1>3 DEF HandlerReceive, Handler, HandlerRefuse, HandlerNotify, HandlerCheck, HandlerReply
<1>4. CASE DispatcherExit \/ DispatcherSleep \/ DispatcherGive \/ DispatcherWake
  BY <1>1, <1>4 DEF DispatcherExit, DispatcherSleep, DispatcherGive, DispatcherWake, queueVars
<1>5. ASSUME NEW w \in Workers, Worker(w) PROVE UNCHANGED queueVars
  BY <1>5 DEF Worker, WorkerSleep, WorkerExit, WorkerTake, WorkerRun, WorkerFinishOne,
              WorkerRetire, WorkerNotify
<1>6. CASE Signal \/ Main
  BY <1>1, <1>6 DEF Signal, Main, MainStop, MainNotify, MainJoinDispatcher, MainFlag, MainWake, MainJoin,
              MainExit, queueVars
<1>7. CASE SpuriousWakeup \/ Terminated \/ UNCHANGED vars
  BY <1>1, <1>7 DEF SpuriousWakeup, Terminated, vars, queueVars
<1> QED  BY <1>1, <1>2, <1>3, <1>4, <1>5, <1>6, <1>7, OrderSubmit DEF Next, Dispatcher, queueVars

LEMMA OrderHolds == Spec => []QueueOrder
<1>1. Init => QueueOrder  BY DEF Init, QueueOrder
<1> QED  BY <1>1, OrderStep, Invariance, PTL DEF Spec

-----------------------------------------------------------------------------
(* What a batch consists of. *)

LEMMA OneGraphPart ==
  ASSUME TypeInv, NEW B \in SUBSET Tasks, NEW D \in SUBSET B, OneGraph(B)
  PROVE  OneGraph(D)
<1>1. IsFiniteSet(B)  BY TasksFinite, FS_Subset
<1>2. Cardinality(D) <= Cardinality(B) /\ Cardinality(D) \in Nat /\ Cardinality(B) \in Nat
  BY <1>1, FS_Subset, FS_CardinalityType
<1> QED  BY <1>2, EngineAssumption DEF OneGraph, EngineAssumption

\* The forms of the tasks the engine holds are those they were queued with.
LEMMA FormsKept ==
  ASSUME Inv, Batches, [Next]_vars
  PROVE  /\ \A t \in Held : form'[t] = form[t]
         /\ (\A c \in Clients : \A t \in job[c] : form[t] \in Forms)'
<1> USE DEF Inv, Shape, TypeInv, Batches
<1>1. ASSUME NEW c \in Clients, HandlerSubmit(c)
      PROVE  /\ \A t \in Held : form'[t] = form[t]
             /\ \A d \in Clients : \A t \in job'[d] : form'[t] \in Forms
  <2>1. PICK forms \in Requests(c) :
          /\ job' = [job EXCEPT ![c] = DOMAIN forms]
          /\ form' = [t \in Tasks |-> IF t \in DOMAIN forms THEN forms[t] ELSE form[t]]
    BY <1>1 DEF HandlerSubmit
  <2>2. /\ DOMAIN forms \subseteq Tasks /\ \A t \in DOMAIN forms : forms[t] \in Forms /\ Owner(t) = c
    BY RequestTasks DEF TasksOf, Owner
  <2>3. HeldOf(c) = {}  BY <1>1, HeldSubmit
  <2>4. \A t \in Held : t \in Tasks /\ t \notin DOMAIN forms
    BY <2>2, <2>3, HeldOwners DEF HeldOf
  <2>5. \A d \in Clients \ {c} : \A t \in job[d] : t \in Tasks /\ t \notin DOMAIN forms
    BY <2>2 DEF Jobs, TasksOf, Owner
  <2> QED  BY <2>1, <2>2, <2>4, <2>5
<1>2. ASSUME NEW c \in Clients, HandlerReply(c)
      PROVE  /\ \A t \in Held : form'[t] = form[t]
             /\ \A d \in Clients : \A t \in job'[d] : form'[t] \in Forms
  <2>1. /\ pc[c] = "reply" /\ job' = [job EXCEPT ![c] = {}]
        /\ \A t \in Tasks : Owner(t) # c => form'[t] = form[t]
    BY <1>2 DEF HandlerReply
  <2>2. \A t \in Held : t \in Tasks /\ Owner(t) # c
    BY <2>1, HeldOwners DEF NoDanglingTask, Waiting
  <2>3. \A d \in Clients \ {c} : \A t \in job[d] : t \in Tasks /\ Owner(t) # c
    BY DEF Jobs, TasksOf, Owner
  <2> QED  BY <2>1, <2>2, <2>3
<1>3. CASE UNCHANGED <<job, form>>  BY <1>3
<1>4. ASSUME NEW c \in Clients, HandlerReceive(c) \/ Handler(c)
      PROVE  HandlerSubmit(c) \/ HandlerReply(c) \/ UNCHANGED <<job, form>>
  BY <1>4 DEF HandlerReceive, Handler, HandlerRefuse, HandlerNotify, HandlerCheck
<1>5. CASE Dispatcher
  BY <1>3, <1>5 DEF Dispatcher, DispatcherExit, DispatcherSleep, DispatcherPick, DispatcherWoken,
              DispatcherTimeout, DispatcherGive, DispatcherWake, handlerVars
<1>6. ASSUME NEW w \in Workers, Worker(w) PROVE UNCHANGED <<job, form>>
  BY <1>6 DEF Worker, WorkerSleep, WorkerExit, WorkerTake, WorkerRun, WorkerFinishOne,
              WorkerRetire, WorkerNotify, handlerVars
<1>7. CASE Signal \/ Main
  BY <1>3, <1>7 DEF Signal, Main, MainStop, MainNotify, MainJoinDispatcher, MainFlag, MainWake, MainJoin,
              MainExit, handlerVars
<1>8. CASE SpuriousWakeup \/ Terminated \/ UNCHANGED vars
  BY <1>3, <1>8 DEF SpuriousWakeup, Terminated, vars, handlerVars
<1> QED  BY <1>1, <1>2, <1>3, <1>4, <1>5, <1>6, <1>7, <1>8 DEF Next

\* A gathering makes a batch one graph can run, of the form of its first task.
LEMMA GatherMakesGraph ==
  ASSUME Inv, Batches, NEW B0 \in SUBSET Tasks, NEW B \in SUBSET Tasks, Gathers(B0, B)
  PROVE  OneGraph(B) /\ B # {} /\ BatchCap(B) = BatchCap(B0)
<1> USE DEF Inv, Shape, TypeInv, Batches
<1>1. PICK F \in SUBSET Compatible(B0) :
        /\ B = B0 \cup F /\ B0 # {} /\ OneGraph(B0) /\ F \subseteq q
        /\ Cardinality(B) <= BatchCap(B0)
        /\ Cardinality(B) = Cardinality(B0) + Cardinality(F)
  BY GatherTakes
<1>2. \A t \in F : \A u \in B0 : form[t] = form[u] /\ form[t] # Rollout
  BY DEF Compatible, GroupsWith
<1>3. \A t \in F : form[t] \in Shapes
  <2>1. \A t \in F : form[t] \in Forms
    BY <1>1, InHeld, HeldOwners DEF NoDanglingTask
  <2> QED  BY <1>1, <1>2, <2>1 DEF Forms
<1>4. \A t, u \in B : t = u \/ (form[t] = form[u] /\ form[t] \in Shapes)
  <2>1. PICK b \in B0 : TRUE  BY <1>1
  <2>2. \A t, u \in B0 : t = u \/ (form[t] = form[u] /\ form[t] \in Shapes)  BY <1>1 DEF OneGraph
  <2>3. \A t \in F, u \in F : form[t] = form[u] /\ form[t] \in Shapes  BY <1>2, <1>3, <2>1
  <2>4. \A t \in F, u \in B0 : form[t] = form[u] /\ form[t] \in Shapes /\ form[u] \in Shapes
    BY <1>2, <1>3
  <2> QED  BY <1>1, <2>2, <2>3, <2>4
<1>5. BatchCap(B) = BatchCap(B0)  BY <1>1, <1>2 DEF BatchCap
<1>6. BatchCap(B0) \in Nat /\ BatchCap(B0) <= MaxBatch /\ MaxBatch \in Nat
  BY EngineAssumption DEF BatchCap, EngineAssumption
<1>7. Cardinality(B) \in Nat  BY CountType
<1> QED  BY <1>1, <1>4, <1>5, <1>6, <1>7 DEF OneGraph

\* OneGraph says the same of a held batch after a step.
LEMMA OneGraphKept ==
  ASSUME Inv, Batches, [Next]_vars, NEW B \in SUBSET Held, OneGraph(B)
  PROVE  OneGraph(B)'
  BY FormsKept DEF OneGraph

LEMMA EmptyGraph == OneGraph({}) /\ OneGraph({})'
<1>1. Cardinality({}) = 0  BY FS_EmptySet
<1> QED  BY <1>1, EngineAssumption DEF OneGraph, EngineAssumption

LEMMA BatchesStep == Inv /\ Batches /\ [Next]_vars => Batches'
<1> SUFFICES ASSUME Inv, Batches, [Next]_vars PROVE Batches'  OBVIOUS
<1> USE DEF Inv, Shape, TypeInv
<1>1. (\A c \in Clients : \A t \in job[c] : form[t] \in Forms)'  BY FormsKept
<1>2. ASSUME NEW B \in SUBSET Held, OneGraph(B) PROVE OneGraph(B)'  BY <1>2, OneGraphKept
<1>3. /\ dbatch \subseteq Held /\ OneGraph(dbatch)
      /\ \A w \in Workers : /\ given[w] \subseteq Held /\ OneGraph(given[w])
                            /\ cur[w] \subseteq Held /\ OneGraph(cur[w])
  BY InHeld DEF Batches, BatchesAreGraphs
<1>4. CASE UNCHANGED <<dbatch, given, cur>> /\ (dpc' \in {"company", "woken", "give"} => dpc \in {"company", "woken", "give"})
  <2>1. OneGraph(dbatch)'  BY <1>2, <1>3, <1>4 DEF OneGraph
  <2>2. ASSUME NEW w \in Workers PROVE OneGraph(given[w])' /\ OneGraph(cur[w])'
    BY <1>2, <1>3, <1>4 DEF OneGraph
  <2>3. BatchesAreGraphs'  BY <2>1, <2>2 DEF BatchesAreGraphs
  <2> QED  BY <1>1, <1>4, <2>3 DEF Batches
<1>5. CASE DispatcherPick \/ DispatcherWoken \/ DispatcherTimeout
  <2>1. PICK B0 \in SUBSET Tasks, B \in SUBSET Tasks : Gathers(B0, B)  BY <1>5, GatherSteps
  <2>2. dbatch' = B /\ UNCHANGED <<given, cur, form>>
    BY <2>1 DEF Gathers, workerVars, handlerVars
  <2>3. OneGraph(B) /\ B # {}  BY <2>1, GatherMakesGraph
  <2>4. OneGraph(dbatch)'  BY <2>2, <2>3 DEF OneGraph
  <2>5. ASSUME NEW w \in Workers PROVE OneGraph(given[w])' /\ OneGraph(cur[w])'
    BY <1>3, <2>2 DEF OneGraph
  <2> QED  BY <1>1, <2>2, <2>3, <2>4, <2>5 DEF Batches, BatchesAreGraphs
<1>6. CASE DispatcherGive
  <2>1. /\ given' = [given EXCEPT ![dwk] = dbatch] /\ dbatch' = {} /\ UNCHANGED <<cur, form>>
        /\ dpc' = "wake"
    BY <1>6 DEF DispatcherGive, handlerVars
  <2>2. ASSUME NEW w \in Workers PROVE OneGraph(given[w])' /\ OneGraph(cur[w])'
    BY <1>3, <2>1 DEF OneGraph
  <2>3. OneGraph(dbatch)'  BY <2>1, EmptyGraph DEF OneGraph
  <2> QED  BY <1>1, <2>1, <2>2, <2>3 DEF Batches, BatchesAreGraphs
<1>7. ASSUME NEW w \in Workers, WorkerTake(w) PROVE Batches'
  <2>1. /\ cur' = [cur EXCEPT ![w] = given[w]] /\ given' = [given EXCEPT ![w] = {}]
        /\ UNCHANGED <<dbatch, dpc, form>>
    BY <1>7 DEF WorkerTake, handlerVars, dispVars
  <2>2. ASSUME NEW v \in Workers PROVE OneGraph(given[v])' /\ OneGraph(cur[v])'
    BY <1>3, <2>1, EmptyGraph DEF OneGraph
  <2>3. OneGraph(dbatch)'  BY <1>3, <2>1 DEF OneGraph
  <2> QED  BY <1>1, <2>1, <2>2, <2>3 DEF Batches, BatchesAreGraphs
<1>8. ASSUME NEW w \in Workers, WorkerFinishOne(w) PROVE Batches'
  <2>1. /\ \A v \in Workers : cur'[v] \subseteq cur[v]
        /\ UNCHANGED <<dbatch, dpc, given, form>>
    BY <1>8 DEF WorkerFinishOne, dispVars
  <2>2. ASSUME NEW v \in Workers PROVE OneGraph(given[v])' /\ OneGraph(cur[v])'
    <3>1. OneGraph(cur'[v])  BY <1>3, <2>1, OneGraphPart
    <3> QED  BY <1>3, <2>1, <3>1 DEF OneGraph
  <2>3. OneGraph(dbatch)'  BY <1>3, <2>1 DEF OneGraph
  <2> QED  BY <1>1, <2>1, <2>2, <2>3 DEF Batches, BatchesAreGraphs
<1>9. ASSUME NEW c \in Clients, HandlerReceive(c) \/ Handler(c) PROVE Batches'
  <2>1. UNCHANGED <<dbatch, given, cur>> /\ (dpc' \in {"company", "woken", "give"} => dpc \in {"company", "woken", "give"})
    BY <1>9 DEF HandlerReceive, Handler, HandlerRefuse, HandlerSubmit, HandlerNotify, HandlerCheck,
                HandlerReply, WokenDispatcher, dispVars, workerVars
  <2> QED  BY <1>4, <2>1
<1>10. CASE DispatcherExit \/ DispatcherSleep \/ DispatcherWake
  BY <1>4, <1>10 DEF DispatcherExit, DispatcherSleep, DispatcherWake, workerVars
<1>11. ASSUME NEW w \in Workers, Worker(w), ~WorkerTake(w), ~WorkerFinishOne(w) PROVE Batches'
  <2>1. UNCHANGED <<dbatch, given, cur>> /\ (dpc' \in {"company", "woken", "give"} => dpc \in {"company", "woken", "give"})
    BY <1>11 DEF Worker, WorkerSleep, WorkerExit, WorkerRun, WorkerRetire, WorkerNotify,
                 WokenDispatcher, dispVars
  <2> QED  BY <1>4, <2>1
<1>12. CASE Signal \/ Main \/ SpuriousWakeup \/ Terminated \/ UNCHANGED vars
  <2>1. UNCHANGED <<dbatch, given, cur>>  BY <1>12, HeldOther
  <2>2. dpc' \in {"company", "woken", "give"} => dpc \in {"company", "woken", "give"}
    <3>1. CASE Signal \/ Main
      BY <3>1 DEF Signal, Main, MainStop, MainNotify, MainJoinDispatcher, MainFlag, MainWake, MainJoin,
                  MainExit, WokenDispatcher, dispVars
    <3>2. CASE SpuriousWakeup \/ Terminated \/ UNCHANGED vars
      BY <3>2 DEF SpuriousWakeup, WokenDispatcher, Terminated, vars, dispVars
    <3> QED  BY <1>12, <3>1, <3>2
  <2> QED  BY <1>4, <2>1, <2>2
<1> QED  BY <1>5, <1>6, <1>7, <1>8, <1>9, <1>10, <1>11, <1>12 DEF Next, Dispatcher

LEMMA BatchesInit == Init => Batches
<1> SUFFICES ASSUME Init PROVE Batches  OBVIOUS
<1>1. /\ dbatch = {} /\ \A w \in Workers : given[w] = {} /\ cur[w] = {}
      /\ dpc = "top" /\ \A c \in Clients : job[c] = {}
  BY DEF Init
<1>2. BatchesAreGraphs  BY <1>1, EmptyGraph DEF BatchesAreGraphs
<1> QED  BY <1>1, <1>2 DEF Batches

LEMMA BatchesHold == Spec => []Batches
  BY BatchesInit, BatchesStep, Invariance, PTL DEF Spec

\* No batch is too long for a graph, mixes shapes, or has company for a rollout.
THEOREM EveryBatchIsAGraph == Spec => []BatchesAreGraphs
<1>1. Batches => BatchesAreGraphs  BY DEF Batches
<1> QED  BY <1>1, BatchesHold, PTL

-----------------------------------------------------------------------------
(* Who is served first, and how full a batch is. *)

LEMMA ServesInOrder ==
  ASSUME Inv, QueueOrder, Batches, [Next]_vars, NEW t \in q, NEW u \in q,
         t \in ahead[u], GroupsWith(t, u), u \notin q'
  PROVE  t \notin q'
<1>1. PICK B0 \in SUBSET Tasks, B \in SUBSET Tasks : Gathers(B0, B)  BY OnlyGathers
<1>2. PICK F \in SUBSET Compatible(B0) :
        /\ B = B0 \cup F /\ B0 # {}
        /\ \A x \in F, y \in Compatible(B0) \ F : x \in ahead[y]
  BY <1>1, GatherTakes
<1>3. q' = q \ B /\ u \in B  BY <1>1 DEF Gathers, Erase
<1>4. u \in F
  <2>1. CASE B0 = dbatch
    <3>1. u \notin B0  BY <2>1 DEF Inv, OnePlace
    <3> QED  BY <1>2, <1>3, <3>1
  <2>2. CASE \E h \in q : ahead[h] = {} /\ B0 = {h}
    <3>1. u \notin B0  BY <2>2
    <3> QED  BY <1>2, <1>3, <3>1
  <2> QED  BY <1>1, <2>1, <2>2 DEF Gathers
<1>5. CASE t \in B0  BY <1>2, <1>3, <1>5
<1>6. CASE t \notin B0
  <2>1. t \in Compatible(B0)  BY <1>4, <1>6 DEF Compatible, GroupsWith
  <2>2. u \notin ahead[t]  BY DEF QueueOrder
  <2>3. t \in F  BY <1>2, <1>4, <2>1, <2>2
  <2> QED  BY <1>2, <1>3, <2>3
<1> QED  BY <1>5, <1>6

\* Of two queued tasks that could share a batch, the later never leaves the queue
\* before the earlier.
THEOREM ServiceIsInOrder == Spec => FirstComeFirstServed
<1>1. Inv /\ QueueOrder /\ Batches /\ [Next]_vars =>
        [\A t, u \in q : t \in ahead[u] /\ GroupsWith(t, u) /\ u \notin q' => t \notin q']_vars
  BY ServesInOrder
<1> QED  BY <1>1, Invariance, OrderHolds, BatchesHold, PTL DEF Spec, FirstComeFirstServed

\* Walking the queue leaves no choice: of the candidates TakeCompatible describes there
\* is only one, because each contains the compatible tasks that came first.
THEOREM GatheringIsDetermined ==
  Spec => [](\A B0 \in SUBSET Tasks : \A B1, B2 \in TakeCompatible(B0) : B1 = B2)
<1>1. ASSUME TypeInv, QueueOrder, NEW B0 \in SUBSET Tasks,
             NEW B1 \in TakeCompatible(B0), NEW B2 \in TakeCompatible(B0)
      PROVE  B1 = B2
  <2> DEFINE C == Compatible(B0)
             Takes(G) == /\ Cardinality(G) <= BatchCap(B0) - Cardinality(B0)
                         /\ (G # C) => (Cardinality(G) = BatchCap(B0) - Cardinality(B0))
                         /\ \A x \in G, y \in C \ G : x \in ahead[y]
  <2>1. PICK F1 \in SUBSET C : B1 = B0 \cup F1 /\ Takes(F1)  BY <1>1 DEF TakeCompatible
  <2>2. PICK F2 \in SUBSET C : B2 = B0 \cup F2 /\ Takes(F2)  BY <1>1 DEF TakeCompatible
  <2>3. C \subseteq q /\ C \subseteq Tasks /\ IsFiniteSet(F1) /\ IsFiniteSet(F2)
    BY <1>1, TasksFinite, FS_Subset DEF Compatible, TypeInv
  <2>4. F1 \subseteq F2 \/ F2 \subseteq F1
    <3> SUFFICES ASSUME NEW x \in F1 \ F2, NEW y \in F2 \ F1 PROVE FALSE  OBVIOUS
    <3>1. x \in ahead[y] /\ y \in ahead[x]  BY <2>1, <2>2
    <3> QED  BY <1>1, <2>3, <3>1 DEF QueueOrder
  <2>5. ASSUME NEW G \in SUBSET C, NEW H \in SUBSET C, G \subseteq H, IsFiniteSet(H), Takes(G), Takes(H)
        PROVE  G = H
    <3>1. /\ Cardinality(G) <= Cardinality(H) /\ Cardinality(G) \in Nat /\ Cardinality(H) \in Nat
          /\ (Cardinality(G) = Cardinality(H) => G = H)
      BY <2>5, FS_Subset, FS_CardinalityType
    <3>2. Cardinality(B0) \in Nat /\ BatchCap(B0) \in Nat
      BY CountType, EngineAssumption DEF BatchCap, EngineAssumption
    <3>3. CASE G = C  BY <2>5, <3>3
    <3>4. CASE G # C  BY <2>5, <3>1, <3>2, <3>4
    <3> QED  BY <3>3, <3>4
  <2> QED  BY <2>1, <2>2, <2>3, <2>4, <2>5
<1>2. Inv /\ QueueOrder =>
        \A B0 \in SUBSET Tasks : \A B1, B2 \in TakeCompatible(B0) : B1 = B2
  BY <1>1 DEF Inv, Shape
<1> QED  BY <1>2, Invariance, OrderHolds, PTL

LEMMA ClosesFull ==
  ASSUME Inv, Batches, [Next]_vars, dpc # "give", dpc' = "give"
  PROVE  \/ Cardinality(dbatch') = BatchCap(dbatch')
         \/ \A t \in q', u \in dbatch' : ~GroupsWith(t, u)
<1> USE DEF Inv, Shape, TypeInv
<1>1. PICK B0 \in SUBSET Tasks, B \in SUBSET Tasks : Gathers(B0, B)  BY OnlyGathers
<1>2. PICK F \in SUBSET Compatible(B0) :
        /\ B = B0 \cup F /\ B0 # {}
        /\ F = Compatible(B0) \/ Cardinality(B) = BatchCap(B0)
  BY <1>1, GatherTakes
<1>3. dbatch' = B /\ q' = q \ B  BY <1>1 DEF Gathers, Erase
<1>4. OneGraph(B) /\ BatchCap(B) = BatchCap(B0)  BY <1>1, GatherMakesGraph
<1>5. CASE Cardinality(B) = BatchCap(B0)  BY <1>3, <1>4, <1>5
<1>6. CASE F = Compatible(B0)
  <2> SUFFICES ASSUME NEW t \in q', NEW u \in dbatch', GroupsWith(t, u) PROVE FALSE
    OBVIOUS
  <2>1. \A b \in B0 : form[t] = form[b] /\ form[t] # Rollout
    BY <1>2, <1>3, <1>4 DEF OneGraph, GroupsWith
  <2>2. t \in Compatible(B0)  BY <1>2, <1>3, <2>1 DEF Compatible, GroupsWith
  <2> QED  BY <1>2, <1>3, <1>6, <2>2
<1> QED  BY <1>2, <1>5, <1>6

\* A batch leaves the dispatcher with room only if nothing queued could fill it.
THEOREM BatchesGoOutFull == Spec => BatchIsMaximal
<1>1. Inv /\ Batches /\ [Next]_vars =>
        [dpc # "give" /\ dpc' = "give" =>
           \/ Cardinality(dbatch') = BatchCap(dbatch')
           \/ \A t \in q', u \in dbatch' : ~GroupsWith(t, u)]_vars
  BY ClosesFull
<1> QED  BY <1>1, Invariance, BatchesHold, PTL DEF Spec, BatchIsMaximal

-----------------------------------------------------------------------------
(***************************************************************************)
(* The refinement.  Each step of the engine is one operation of the        *)
(* contract, or changes nothing a client could see.                        *)
(***************************************************************************)
RInv == Inv /\ Results /\ Phases /\ Batches

LEMMA ItemsAreTasks == Contract!Items = Tasks
  BY DEF Contract!Items, Tasks

\* The status of a task, by where it is.
LEMMA StatusValues ==
  ASSUME Inv, NEW t \in Tasks
  PROVE  /\ t \in q \cup dbatch => StatusNow[t] = "waiting"
         /\ (\E w \in Workers : t \in given[w] \cup cur[w]) => StatusNow[t] = "running"
         /\ t \in job[Owner(t)] /\ t \notin Held => StatusNow[t] = res[t]
         /\ t \notin job[Owner(t)] => StatusNow[t] = "none"
<1> USE DEF Inv
<1>1. (\E w \in Workers : t \in given[w] \cup cur[w]) => t \notin q \cup dbatch  BY DEF OnePlace
<1>2. t \notin job[Owner(t)] => t \notin Held  BY DEF NoDanglingTask
<1> QED  BY <1>1, <1>2, InHeld DEF StatusNow

\* A step that moves no task to another kind of place, and changes no result of a
\* task it had let go of, shows no client another status.
LEMMA StatusFrame ==
  ASSUME (q \cup dbatch)' = q \cup dbatch,
         \A w \in Workers : (given[w] \cup cur[w])' = given[w] \cup cur[w],
         job' = job, \A t \in Tasks : t \notin Held => res'[t] = res[t]
  PROVE  StatusNow' = StatusNow /\ OnNow' = OnNow
<1>1. Held' = Held  BY DEF Held
<1>2. OnNow' = OnNow  BY DEF OnNow
<1>3. ASSUME NEW t \in Tasks PROVE StatusNow'[t] = StatusNow[t]
  BY <1>1, <1>3 DEF StatusNow
<1> QED  BY <1>2, <1>3 DEF StatusNow

LEMMA MapsInit == Init => Contract!ContractInit
<1> SUFFICES ASSUME Init PROVE Contract!ContractInit  OBVIOUS
<1>1. CallNow = [c \in Clients |-> "none"] /\ DoorNow = "open"  BY DEF Init, CallNow, DoorNow
<1>2. OnNow = [w \in Workers |-> {}]  BY DEF Init, OnNow
<1>3. StatusNow = [t \in Tasks |-> "none"]
  <2>1. \A t \in Tasks : Owner(t) \in Clients  BY DEF Tasks, Owner
  <2> QED  BY <2>1 DEF Init, StatusNow
<1> QED  BY <1>1, <1>2, <1>3, ItemsAreTasks DEF Init, Contract!ContractInit

\* What a handler does outside its own connection.
LEMMA MapsReceive ==
  ASSUME RInv, NEW c \in Clients, HandlerReceive(c) PROVE Contract!Receive(c)
<1> USE DEF RInv, Inv, Shape, TypeInv
<1>1. /\ pc[c] = "idle" /\ pc' = [pc EXCEPT ![c] = "parsing"]
      /\ reply' = [reply EXCEPT ![c] = "none"]
      /\ mpc \in {"listening", "draining"} /\ mpc' = mpc
      /\ UNCHANGED <<job, form, res, q, dbatch, given, cur>>
  BY DEF HandlerReceive, queueVars, dispVars, workerVars
<1>2. UNCHANGED <<StatusNow, OnNow>>  BY <1>1, StatusFrame
<1>3. CallNow[c] = "none" /\ CallNow' = [CallNow EXCEPT ![c] = "received"]
  BY <1>1 DEF CallNow
<1>4. DoorNow \in {"open", "closing"} /\ DoorNow' = DoorNow  BY <1>1 DEF DoorNow
<1> QED  BY <1>1, <1>2, <1>3, <1>4 DEF Contract!Receive

LEMMA MapsRefuse ==
  ASSUME RInv, NEW c \in Clients, HandlerRefuse(c) PROVE Contract!Refuse(c)
<1> USE DEF RInv, Inv, Shape, TypeInv
<1>1. /\ pc[c] = "parsing" /\ pc' = [pc EXCEPT ![c] = "idle"]
      /\ reply' = [reply EXCEPT ![c] = "refused"] /\ mpc' = mpc
      /\ UNCHANGED <<job, form, res, q, dbatch, given, cur>>
  BY DEF HandlerRefuse, queueVars, dispVars, workerVars, mainVars
<1>2. UNCHANGED <<StatusNow, OnNow>>  BY <1>1, StatusFrame
<1>3. CallNow[c] = "received" /\ CallNow' = [CallNow EXCEPT ![c] = "none"]
  BY <1>1 DEF CallNow
<1>4. DoorNow' = DoorNow  BY <1>1 DEF DoorNow
<1> QED  BY <1>1, <1>2, <1>3, <1>4 DEF Contract!Refuse

\* A request's tasks are its first n items; a rollout has one.
LEMMA RequestForms ==
  ASSUME NEW c \in Clients, NEW forms \in Requests(c)
  PROVE  \E n \in 1..MaxItems :
           /\ DOMAIN forms = {c} \X (1..n)
           /\ \A t \in DOMAIN forms : forms[t] \in Shapes \cup (IF n = 1 THEN {Rollout} ELSE {})
<1>1. CASE forms \in [{<<c, 1>>} -> {Rollout}]
  <2>1. {<<c, 1>>} = {c} \X (1..1) /\ 1 \in 1..MaxItems
    BY EngineAssumption DEF EngineAssumption
  <2> QED  BY <1>1, <2>1
<1>2. CASE \E n \in 1..MaxItems : forms \in [({c} \X (1..n)) -> Shapes]
  BY <1>2
<1> QED  BY <1>1, <1>2 DEF Requests, RolloutRequests, EncodeRequests

LEMMA MapsSubmit ==
  ASSUME RInv, NEW c \in Clients, HandlerSubmit(c) PROVE Contract!Admit(c)
<1> USE DEF RInv, Inv, Shape, TypeInv
<1>1. PICK forms \in Requests(c) :
        /\ job' = [job EXCEPT ![c] = DOMAIN forms]
        /\ form' = [t \in Tasks |-> IF t \in DOMAIN forms THEN forms[t] ELSE form[t]]
        /\ q' = q \cup DOMAIN forms
  BY DEF HandlerSubmit
<1>2. /\ pc[c] = "parsing" /\ pc' = [pc EXCEPT ![c] = "notify"]
      /\ UNCHANGED <<reply, res, dbatch, given, cur, mpc>>
  BY DEF HandlerSubmit, dispVars, workerVars, mainVars
<1>3. PICK n \in 1..MaxItems :
        /\ DOMAIN forms = {c} \X (1..n)
        /\ \A t \in DOMAIN forms : forms[t] \in Shapes \cup (IF n = 1 THEN {Rollout} ELSE {})
  BY RequestForms
<1>4. \A t \in Tasks : t \in DOMAIN forms <=> t[1] = c /\ t[2] <= n
  <2>1. n \in Nat /\ n >= 1 /\ n <= MaxItems /\ MaxItems \in Nat
    BY EngineAssumption DEF EngineAssumption
  <2> QED  BY <1>3, <2>1 DEF Tasks
<1>5. CallNow[c] = "received" /\ CallNow' = [CallNow EXCEPT ![c] = "open"]
  BY <1>2 DEF CallNow
<1>6. DoorNow' = DoorNow /\ OnNow' = OnNow  BY <1>2 DEF DoorNow, OnNow
<1>7. form' \in [Tasks -> Shapes \cup {Rollout, None}]
  <2>1. TypeInv'  BY HandlerType DEF Handler
  <2> QED  BY <2>1 DEF Forms
<1>8. /\ Held' = Held \cup job'[c] /\ HeldOf(c) = {}
      /\ \A d \in Clients \ {c} : job'[d] = job[d]
  BY HeldSubmit
<1>9. Inv'  BY InvHandler DEF Handler
<1>10. \A t \in Tasks : Owner(t) \in Clients /\ Owner(t) = t[1]  BY DEF Tasks, Owner
<1>11. ASSUME NEW t \in Tasks
       PROVE  StatusNow'[t] = IF t[1] = c /\ t[2] <= n THEN "waiting" ELSE StatusNow[t]
  <2>1. CASE t \in DOMAIN forms
    <3>1. t \in (q \cup dbatch)' /\ t \in Held'  BY <1>1, <2>1, InHeldNext
    <3>2. ~(\E w \in Workers : t \in given[w] \cup cur[w])'
      BY <1>1, <1>9, <2>1 DEF OnePlace
    <3>3. StatusNow'[t] = "waiting"  BY <3>1, <3>2 DEF StatusNow
    <3> QED  BY <1>4, <2>1, <3>3
  <2>2. CASE t \notin DOMAIN forms
    <3>1. /\ t \in (q \cup dbatch)' <=> t \in q \cup dbatch
          /\ t \in Held' <=> t \in Held
          /\ (\E w \in Workers : t \in given[w] \cup cur[w])'
               <=> \E w \in Workers : t \in given[w] \cup cur[w]
      BY <1>1, <1>2, <1>8, <2>2
    <3>2. t \in job'[Owner(t)] <=> t \in job[Owner(t)]
      <4>1. job[c] = {} /\ job'[c] = DOMAIN forms  BY <1>1, <1>2 DEF Jobs
      <4> QED  BY <1>8, <1>10, <2>2, <4>1
    <3> QED  BY <1>2, <1>4, <2>2, <3>1, <3>2 DEF StatusNow
  <2> QED  BY <2>1, <2>2
<1>12. StatusNow' = [t \in Tasks |-> IF t[1] = c /\ t[2] <= n THEN "waiting" ELSE StatusNow[t]]
  BY <1>11 DEF StatusNow
<1>13. \A t \in Tasks :
         IF t[1] = c /\ t[2] <= n
         THEN form'[t] \in Shapes \cup (IF n = 1 THEN {Rollout} ELSE {})
         ELSE form'[t] = form[t]
  BY <1>1, <1>3, <1>4
<1> QED  BY <1>2, <1>5, <1>6, <1>7, <1>12, <1>13, ItemsAreTasks DEF Contract!Admit

LEMMA MapsReply ==
  ASSUME RInv, NEW c \in Clients, HandlerReply(c) PROVE Contract!Answer(c)
<1> USE DEF RInv, Inv, Shape, TypeInv
<1>1. /\ pc[c] = "reply" /\ pc' = [pc EXCEPT ![c] = "idle"]
      /\ reply' = [reply EXCEPT ![c] = IF \E t \in job[c] : res[t] = "error" THEN "failed" ELSE "ok"]
      /\ job' = [job EXCEPT ![c] = {}]
      /\ form' = [t \in Tasks |-> IF Owner(t) = c THEN None ELSE form[t]]
      /\ res' = [t \in Tasks |-> IF Owner(t) = c THEN "none" ELSE res[t]]
      /\ UNCHANGED <<q, dbatch, given, cur, mpc>>
  BY DEF HandlerReply, queueVars, dispVars, workerVars, mainVars
<1>2. CallNow[c] = "open" /\ CallNow' = [CallNow EXCEPT ![c] = "none"]
  BY <1>1 DEF CallNow
<1>3. DoorNow' = DoorNow /\ OnNow' = OnNow /\ Held' = Held  BY <1>1, HeldFrame DEF DoorNow, OnNow
<1>4. \A t \in Tasks : Owner(t) \in Clients /\ Owner(t) = t[1]  BY DEF Tasks, Owner
<1>5. \A t \in Held : Owner(t) # c  BY <1>1 DEF NoDanglingTask, Waiting
<1>6. \A t \in job[c] : t \in Tasks /\ Owner(t) = c  BY DEF Jobs, TasksOf, Owner
<1>7. \A t \in job[c] : StatusNow[t] = res[t] /\ res[t] \in {"done", "error"}
  BY <1>1, <1>5, <1>6, StatusValues DEF Results
<1>8. \A t \in Tasks : Owner(t) = c /\ t \notin job[c] => StatusNow[t] = "none"
  BY StatusValues
<1>9. {t \in Tasks : t[1] = c /\ StatusNow[t] # "none"} = job[c]
  BY <1>4, <1>6, <1>7, <1>8
<1>10. ASSUME NEW t \in Tasks
       PROVE  StatusNow'[t] = IF t[1] = c THEN "none" ELSE StatusNow[t]
  <2>1. CASE t[1] = c
    <3>1. t \notin Held' /\ t \notin job'[Owner(t)]  BY <1>1, <1>3, <1>4, <1>5, <2>1
    <3> QED  BY <2>1, <3>1, InHeldNext DEF StatusNow
  <2>2. CASE t[1] # c
    <3>1. job'[Owner(t)] = job[Owner(t)] /\ res'[t] = res[t]  BY <1>1, <1>4, <2>2
    <3> QED  BY <1>1, <1>3, <2>2, <3>1 DEF StatusNow
  <2> QED  BY <2>1, <2>2
<1>11. StatusNow' = [t \in Tasks |-> IF t[1] = c THEN "none" ELSE StatusNow[t]]
  BY <1>10 DEF StatusNow
<1>12. form' = [t \in Tasks |-> IF t[1] = c THEN None ELSE form[t]]  BY <1>1, <1>4
<1>13. reply' = [reply EXCEPT ![c] =
                   IF \E t \in job[c] : StatusNow[t] = "error" THEN "failed" ELSE "ok"]
  BY <1>1, <1>7
<1> QED  BY <1>2, <1>3, <1>7, <1>9, <1>11, <1>12, <1>13, ItemsAreTasks DEF Contract!Answer

LEMMA MapsGive ==
  ASSUME RInv, DispatcherGive PROVE Contract!Start(dwk, dbatch) /\ dwk \in Workers
<1> USE DEF RInv, Inv, Shape, TypeInv
<1>1. /\ dpc = "give" /\ dwk \in Workers
      /\ given' = [given EXCEPT ![dwk] = dbatch] /\ dbatch' = {}
      /\ UNCHANGED <<pc, job, form, res, reply, q, cur, mpc>>
  BY DEF DispatcherGive, NamedWorkers, handlerVars, queueVars, mainVars
<1>2. given[dwk] = {} /\ cur[dwk] = {}  BY <1>1 DEF Carriers, Busy
<1>3. dbatch # {} /\ OneGraph(dbatch)  BY <1>1 DEF Batches, BatchesAreGraphs
<1>4. \A t \in dbatch : t \in Tasks /\ StatusNow[t] = "waiting"  BY StatusValues
<1>5. UNCHANGED <<CallNow, DoorNow>>  BY <1>1 DEF CallNow, DoorNow
<1>6. OnNow[dwk] = {} /\ OnNow' = [OnNow EXCEPT ![dwk] = dbatch]
  BY <1>1, <1>2 DEF OnNow
<1>7. Held' = Held  BY HeldDispatcher DEF Dispatcher
<1>8. ASSUME NEW t \in Tasks
      PROVE  StatusNow'[t] = IF t \in dbatch THEN "running" ELSE StatusNow[t]
  <2>1. CASE t \in dbatch
    <3>1. t \notin q  BY <2>1 DEF OnePlace
    <3>2. /\ t \notin (q \cup dbatch)' /\ (\E w \in Workers : t \in given[w] \cup cur[w])'
          /\ t \in Held'
      BY <1>1, <2>1, <3>1, InHeldNext
    <3> QED  BY <2>1, <3>2 DEF StatusNow
  <2>2. CASE t \notin dbatch
    <3>1. /\ t \in (q \cup dbatch)' <=> t \in q \cup dbatch
          /\ (\E w \in Workers : t \in given[w] \cup cur[w])'
               <=> \E w \in Workers : t \in given[w] \cup cur[w]
      BY <1>1, <1>2, <2>2
    <3> QED  BY <1>1, <1>7, <2>2, <3>1 DEF StatusNow
  <2> QED  BY <2>1, <2>2
<1>9. StatusNow' = [t \in Tasks |-> IF t \in dbatch THEN "running" ELSE StatusNow[t]]
  BY <1>8 DEF StatusNow
<1>10. \A t, u \in dbatch : t = u \/ (form[t] = form[u] /\ form[t] # Rollout)
  BY <1>3, EngineAssumption DEF OneGraph, EngineAssumption
<1>11. Contract!Cardinality(dbatch) <= MaxBatch
  BY <1>3 DEF OneGraph, Cardinality, Contract!Cardinality
<1> QED  BY <1>1, <1>3, <1>4, <1>5, <1>6, <1>9, <1>10, <1>11, ItemsAreTasks DEF Contract!Start

LEMMA MapsFinish ==
  ASSUME RInv, NEW w \in Workers, WorkerFinishOne(w)
  PROVE  \E t \in Tasks, r \in {"done", "error"} : Contract!Finish(w, t, r)
<1> USE DEF RInv, Inv, Shape, TypeInv
<1>1. PICK t \in Held :
        /\ t \in cur[w] /\ wpc[w] = "finish"
        /\ Held' = Held \ {t}
        /\ pc' = [pc EXCEPT ![Owner(t)] =
                    IF pending[Owner(t)] = 1 /\ @ = "asleep" THEN "check" ELSE @]
        /\ UNCHANGED <<job, res, wpc>> /\ cur' = [cur EXCEPT ![w] = @ \ {t}]
  BY HeldFinish
<1>2. UNCHANGED <<reply, form, q, dbatch, given, mpc>>
  BY DEF WorkerFinishOne, queueVars, dispVars, mainVars
<1>3. t \in Tasks /\ Owner(t) \in Clients  BY HeldOwners
<1>4. UNCHANGED <<CallNow, DoorNow>>  BY <1>1, <1>2, <1>3 DEF CallNow, DoorNow
<1>5. t \notin given[w] /\ t \in OnNow[w]  BY <1>1 DEF OnePlace, OnNow
<1>6. OnNow' = [OnNow EXCEPT ![w] = @ \ {t}]  BY <1>1, <1>2, <1>5 DEF OnNow
<1>7. res[t] \in {"done", "error"}  BY <1>1, <1>3 DEF Results
<1>8. ASSUME NEW u \in Tasks PROVE StatusNow'[u] = IF u = t THEN res[t] ELSE StatusNow[u]
  <2>1. CASE u = t
    <3>1. t \notin Held' /\ t \in job'[Owner(t)]  BY <1>1 DEF NoDanglingTask
    <3> QED  BY <1>1, <1>3, <2>1, <3>1, InHeldNext DEF StatusNow
  <2>2. CASE u # t
    <3>1. /\ u \in (q \cup dbatch)' <=> u \in q \cup dbatch
          /\ (\E v \in Workers : u \in given[v] \cup cur[v])'
               <=> \E v \in Workers : u \in given[v] \cup cur[v]
          /\ u \in Held' <=> u \in Held
      BY <1>1, <1>2, <2>2
    <3> QED  BY <1>1, <2>2, <3>1 DEF StatusNow
  <2> QED  BY <2>1, <2>2
<1>9. StatusNow' = [StatusNow EXCEPT ![t] = res[t]]
  <2>1. StatusNow' = [u \in Tasks |-> StatusNow'[u]] /\ DOMAIN StatusNow = Tasks  BY DEF StatusNow
  <2> QED  BY <1>3, <1>8, <2>1
<1>10. Contract!Finish(w, t, res[t])
  BY <1>2, <1>4, <1>5, <1>6, <1>9 DEF Contract!Finish
<1> QED  BY <1>3, <1>7, <1>10

LEMMA MapsMain ==
  ASSUME RInv, Signal \/ Main
  PROVE  \/ Contract!StartClosing \/ Contract!Shut \/ Contract!Leave
         \/ UNCHANGED Contract!contractVars
<1> USE DEF RInv, Inv, Shape, TypeInv
<1>1. UNCHANGED <<pc, job, form, res, reply, q, dbatch, given, cur>>
  BY DEF Signal, Main, MainStop, MainNotify, MainJoinDispatcher, MainFlag, MainWake, MainJoin,
         MainExit, handlerVars, queueVars, dispVars, workerVars
<1>2. UNCHANGED <<CallNow, StatusNow, OnNow, form, reply>>
  BY <1>1, StatusFrame DEF CallNow
<1>3. CASE Signal
  BY <1>2, <1>3 DEF Signal, DoorNow, Contract!StartClosing
<1>4. CASE MainStop
  <2>1. \A c \in Clients : CallNow[c] = "none"  BY <1>4 DEF MainStop, CallNow
  <2> QED  BY <1>2, <1>4, <2>1 DEF MainStop, DoorNow, Contract!Shut
<1>5. CASE MainExit
  <2>1. \A w \in Workers : OnNow[w] = {}
    BY <1>5, InHeld, HeldOwners DEF MainExit, Phases, NoDanglingTask, Waiting, OnNow
  <2> QED  BY <1>2, <1>5, <2>1 DEF MainExit, DoorNow, Contract!Leave
<1>6. CASE MainNotify \/ MainJoinDispatcher \/ MainWake \/ \E w \in Workers : MainFlag(w) \/ MainJoin(w)
  <2>1. DoorNow' = DoorNow
    BY <1>6 DEF MainNotify, MainJoinDispatcher, MainWake, MainFlag, MainJoin, DoorNow
  <2> QED  BY <1>2, <2>1 DEF Contract!contractVars
<1> QED  BY <1>3, <1>4, <1>5, <1>6 DEF Main

\* The engine's inner steps, which no client can see.
LEMMA MapsInner ==
  ASSUME RInv,
         \/ \E c \in Clients : HandlerNotify(c) \/ HandlerCheck(c)
         \/ Dispatcher /\ ~DispatcherGive
         \/ \E w \in Workers : Worker(w) /\ ~WorkerFinishOne(w)
         \/ SpuriousWakeup \/ Terminated \/ UNCHANGED vars
  PROVE  UNCHANGED Contract!contractVars
<1> USE DEF RInv, Inv, Shape, TypeInv
<1>1. ASSUME UNCHANGED <<job, form, reply, mpc>>,
             (q \cup dbatch)' = q \cup dbatch,
             \A w \in Workers : (given[w] \cup cur[w])' = given[w] \cup cur[w],
             \A t \in Tasks : t \notin Held => res'[t] = res[t],
             \A c \in Clients : pc'[c] = pc[c] \/ {pc[c], pc'[c]} \cap {"idle", "parsing"} = {}
      PROVE  UNCHANGED Contract!contractVars
  BY <1>1, StatusFrame DEF Contract!contractVars, CallNow, DoorNow
<1>2. ASSUME NEW c \in Clients, HandlerNotify(c) \/ HandlerCheck(c)
      PROVE  UNCHANGED Contract!contractVars
  BY <1>1, <1>2 DEF HandlerNotify, HandlerCheck, queueVars, dispVars, workerVars, mainVars
<1>3. CASE DispatcherPick \/ DispatcherWoken \/ DispatcherTimeout
  <2>1. PICK B0 \in SUBSET Tasks, B \in SUBSET Tasks : Gathers(B0, B)  BY <1>3, GatherSteps
  <2>2. dbatch \subseteq B /\ B \subseteq dbatch \cup q
    BY <2>1, TakeAdds DEF Gathers
  <2>3. (q \cup dbatch)' = q \cup dbatch  BY <2>1, <2>2 DEF Gathers, Erase
  <2>4. UNCHANGED <<job, form, reply, mpc, pc, res, given, cur>>
    BY <2>1 DEF Gathers, handlerVars, workerVars, mainVars
  <2> QED  BY <1>1, <2>3, <2>4
<1>4. CASE DispatcherExit \/ DispatcherSleep \/ DispatcherWake
  BY <1>1, <1>4 DEF DispatcherExit, DispatcherSleep, DispatcherWake, handlerVars, queueVars, workerVars, mainVars
<1>5. ASSUME NEW w \in Workers, WorkerSleep(w) \/ WorkerExit(w) \/ WorkerRetire(w) \/ WorkerNotify(w)
      PROVE  UNCHANGED Contract!contractVars
  BY <1>1, <1>5 DEF WorkerSleep, WorkerExit, WorkerRetire, WorkerNotify, handlerVars, queueVars, dispVars, mainVars
<1>6. ASSUME NEW w \in Workers, WorkerTake(w) PROVE UNCHANGED Contract!contractVars
  <2>1. cur[w] = {}  BY <1>6 DEF WorkerTake, Carriers
  <2> QED  BY <1>1, <1>6, <2>1 DEF WorkerTake, handlerVars, queueVars, dispVars, mainVars
<1>7. ASSUME NEW w \in Workers, WorkerRun(w) PROVE UNCHANGED Contract!contractVars
  <2>1. \A t \in Tasks : t \notin Held => res'[t] = res[t]
    BY <1>7, InHeld DEF WorkerRun
  <2> QED  BY <1>1, <1>7, <2>1 DEF WorkerRun, queueVars, dispVars, mainVars
<1>8. CASE SpuriousWakeup \/ Terminated \/ UNCHANGED vars
  BY <1>1, <1>8 DEF SpuriousWakeup, Terminated, vars, handlerVars, queueVars, dispVars, workerVars, mainVars
<1> QED  BY <1>2, <1>3, <1>4, <1>5, <1>6, <1>7, <1>8 DEF Dispatcher, Worker

LEMMA MapsStep == RInv /\ [Next]_vars => [Contract!ContractNext]_(Contract!contractVars)
<1> SUFFICES ASSUME RInv, [Next]_vars PROVE [Contract!ContractNext]_(Contract!contractVars)  OBVIOUS
<1>1. ASSUME NEW c \in Clients, HandlerReceive(c) \/ Handler(c)
      PROVE  [Contract!ContractNext]_(Contract!contractVars)
  BY <1>1, MapsReceive, MapsRefuse, MapsSubmit, MapsReply, MapsInner DEF Handler, Contract!ContractNext
<1>2. CASE Dispatcher
  <2>1. dbatch \in SUBSET Contract!Items  BY ItemsAreTasks DEF RInv, Inv, Shape, TypeInv
  <2> QED  BY <1>2, <2>1, MapsGive, MapsInner DEF Contract!ContractNext
<1>3. ASSUME NEW w \in Workers, Worker(w) PROVE [Contract!ContractNext]_(Contract!contractVars)
  BY <1>3, MapsFinish, MapsInner, ItemsAreTasks DEF Contract!ContractNext
<1>4. CASE Signal \/ Main  BY <1>4, MapsMain DEF Contract!ContractNext
<1>5. CASE SpuriousWakeup \/ Terminated \/ UNCHANGED vars  BY <1>5, MapsInner
<1> QED  BY <1>1, <1>2, <1>3, <1>4, <1>5 DEF Next

\* The engine is a server that splits, batches, runs and answers as the contract
\* says, whatever the queue, the waits and the wakeups do.
THEOREM EngineKeepsContract == Spec => ImplementsContract
<1>1. RInv /\ [Next]_vars => [Contract!ContractNext]_(Contract!contractVars)  BY MapsStep
<1>2. Inv /\ Results /\ Phases /\ Batches => RInv  BY DEF RInv
<1> QED  BY <1>1, <1>2, MapsInit, Invariance, ResultsHold, PhasesHold, BatchesHold, PTL
         DEF Spec, ImplementsContract, Contract!ContractSpec
=============================================================================
