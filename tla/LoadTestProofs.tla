---------------------------- MODULE LoadTestProofs ----------------------------
(***************************************************************************)
(* For every list of sweeps, number of requests and length of the warm-up, *)
(* a row of the load test counts the requests of its own window.           *)
(***************************************************************************)
EXTENDS LoadTest, FiniteSetTheorems, SequenceTheorems, TLAPS

(***************************************************************************)
(* The inductive invariant.  A row is right when it is written because the *)
(* counters and the tally have agreed since the window opened: a request   *)
(* that has not ended is pending, and one that is in the counters but not  *)
(* in the tally was served and waits for its client, or was given up.      *)
(***************************************************************************)
Scheduled == {Sweeps[i] : i \in DOMAIN Sweeps}
Shapes ==
    /\ main # Off =>
          /\ main = [pc |-> main.pc, skip |-> main.skip, todo |-> main.todo, left |-> main.left,
                     rows |-> main.rows, base |-> main.base]
          /\ main.pc \in {"sweep", "cell", "warm", "start", "barrier", "join", "counters", "control"}
          /\ main.todo \in Seq(Scheduled) /\ main.left \in Seq(Nat \ {0})
          /\ main.base.items \in Nat /\ main.base.graphs \in Nat
    /\ server = [up |-> server.up, items |-> server.items, graphs |-> server.graphs]
    /\ server.items \in Nat /\ server.graphs \in Nat
    /\ tally = [ok |-> tally.ok, errors |-> tally.errors]
    /\ tally.ok \in Nat /\ tally.errors \in Nat /\ lost \in Nat

\* What the main thread's place says of the rest.
Places ==
    /\ main.pc \notin {"off", "sweep"} => main.todo # <<>>
    /\ main.pc \notin {"off", "sweep", "cell"} => main.left # <<>>
    /\ main.pc \in {"off", "sweep", "cell"} => server = Down
    /\ main.pc \notin {"barrier", "join", "counters", "control"} => lost = 0
    /\ main.pc = "start" => server.items = main.base.items /\ server.graphs = main.base.graphs

Threads ==
    /\ main.pc \notin {"barrier", "join"} => DOMAIN clients = {}
    /\ main.pc \in {"barrier", "join"} => DOMAIN clients = 1..Cell.c
    /\ \A s \in DOMAIN clients :
          /\ clients[s] = [pc |-> clients[s].pc, left |-> clients[s].left]
          /\ clients[s].left \in 0..Per(Cell.c)
          /\ clients[s].pc \in {"sent", "refused", "served"} => clients[s].left > 0
    /\ clients = [s \in DOMAIN clients |-> clients[s]]

Pending == {p \in (1..Cell.c) \X (1..Per(Cell.c)) : p[1] \in DOMAIN clients /\ p[2] <= clients[p[1]].left}
Served == {s \in DOMAIN clients : clients[s].pc = "served"}
Items == server.items - main.base.items
Graphs == server.graphs - main.base.graphs
Window ==
    main.pc \in {"barrier", "join", "counters"} =>
        /\ tally.ok + tally.errors + Cardinality(Pending) = Per(Cell.c) * Cell.c
        /\ tally.ok + Cardinality(Served) <= Items
        /\ Items + lost <= tally.ok + tally.errors + Cardinality(Served)
        /\ Graphs <= Items /\ Items <= Sweep.maxBatch * Graphs

RightRow(r) ==
    /\ r.ok + r.errors = r.requests
    /\ r.ok <= r.items /\ r.items <= r.requests
    /\ r.graphs <= r.items /\ r.items <= r.cell.maxBatch * r.graphs
    /\ r.ok > 0 => r.p50 \in 1..r.ok /\ 2 * r.p50 >= r.ok
Rows == \A r \in results \cup (IF main = Off THEN {} ELSE main.rows) : RightRow(r)

LoadInv == Shapes /\ Places /\ Threads /\ Window /\ Rows

-----------------------------------------------------------------------------
(***************************************************************************)
(* Arithmetic of a cell.                                                   *)
(***************************************************************************)
LEMMA PerType == ASSUME NEW c \in Nat \ {0} PROVE Per(c) \in Nat \ {0}
<1>1. Requests \in Nat  BY LoadTestAssumption
<1>2. Requests \div c \in Nat  BY <1>1
<1> QED  BY <1>2 DEF Per

\* The median by nearest rank: half of the values at least are at or below it.
LEMMA MedianRank ==
  ASSUME NEW n \in Nat, n > 0
  PROVE  Percentile(n, 50) \in 1..n /\ 2 * Percentile(n, 50) >= n
<1> DEFINE k == RoundHalfEven(50 * n + 50, 100)
<1>1. k \in Nat /\ 2 * k >= n /\ 2 * k <= n + 2
  <2>1. PICK m \in Nat : n = 2 * m \/ n = 2 * m + 1
    <3>1. n \div 2 \in Nat /\ n = 2 * (n \div 2) + (n % 2) /\ n % 2 \in 0..1  OBVIOUS
    <3> QED  BY <3>1
  <2>2. CASE n = 2 * m
    <3>1. (50 * n + 50) \div 100 = m /\ (50 * n + 50) % 100 = 50  BY <2>2
    <3>2. k = m \/ k = m + 1  BY <3>1 DEF RoundHalfEven
    <3> QED  BY <3>2, <2>2
  <2>3. CASE n = 2 * m + 1
    <3>1. (50 * n + 50) \div 100 = m + 1 /\ (50 * n + 50) % 100 = 0  BY <2>3
    <3>2. k = m + 1  BY <3>1 DEF RoundHalfEven
    <3> QED  BY <3>2, <2>3
  <2> QED  BY <2>1, <2>2, <2>3
<1>2. Percentile(n, 50) = IF k < 1 THEN 1 ELSE IF k > n THEN n ELSE k  BY DEF Percentile
<1> HIDE DEF k
<1> QED  BY <1>1, <1>2

LEMMA CellType ==
  ASSUME Shapes, Places, main.pc \notin {"off", "sweep", "cell"}
  PROVE  /\ Cell.c \in Nat \ {0} /\ Cell.maxBatch = Sweep.maxBatch /\ Sweep.maxBatch \in Nat
         /\ Per(Cell.c) \in Nat \ {0}
<1>1. main.left \in Seq(Nat \ {0}) /\ main.left # <<>> /\ main.todo \in Seq(Scheduled) /\ main.todo # <<>>
  BY DEF Shapes, Places, Off
<1>2. Head(main.left) \in Nat \ {0} /\ Head(main.todo) \in Scheduled  BY <1>1, HeadTailProperties
<1>3. Sweep.maxBatch \in Nat  BY <1>2, LoadTestAssumption DEF Sweep, Scheduled
<1>4. Cell.c = Head(main.left) /\ Cell.maxBatch = Sweep.maxBatch  BY DEF Cell
<1> QED  BY <1>2, <1>3, <1>4, PerType

-----------------------------------------------------------------------------
(***************************************************************************)
(* Shapes and places.                                                      *)
(***************************************************************************)
MainStep ==
    \/ Begin \/ SkipSweep \/ NextSweep \/ EndSweep \/ StartServer \/ Warm
    \/ StartThreads \/ Release \/ Join \/ ReadCounters \/ Control \/ Write
ThreadStep(s) == Arrive(s) \/ Send(s) \/ Raised(s) \/ Answered(s) \/ Refuse(s)

Moved(p, t, l, r, b) ==
    main' = [pc |-> p, skip |-> main.skip, todo |-> t, left |-> l, rows |-> r, base |-> b]
\* What each step of the main thread makes of its record.
LEMMA Moves ==
  ASSUME Shapes
  PROVE  /\ SkipSweep => Moved("sweep", Tail(main.todo), main.left, main.rows, main.base)
         /\ NextSweep => Moved("cell", main.todo, Sweep.cells, {}, main.base)
         /\ EndSweep \/ ((StartServer \/ Warm \/ ReadCounters) /\ Abandon) =>
               Moved("sweep", Tail(main.todo), main.left, main.rows, main.base)
         /\ StartServer /\ ~Abandon => Moved("warm", main.todo, main.left, main.rows, main.base)
         /\ Warm /\ ~Abandon => Moved("start", main.todo, main.left, main.rows, server')
         /\ StartThreads => Moved("barrier", main.todo, main.left, main.rows, main.base)
         /\ Release => Moved("join", main.todo, main.left, main.rows, main.base)
         /\ Join => Moved("counters", main.todo, main.left, main.rows, main.base)
         /\ Control => main' = Off \/ Moved("cell", main.todo, Tail(main.left), main.rows, main.base)
<1> USE DEF Shapes, Off, Moved
<1>1. ASSUME main.pc # "off"
      PROVE  main = [pc |-> main.pc, skip |-> main.skip, todo |-> main.todo, left |-> main.left,
                     rows |-> main.rows, base |-> main.base]
  BY <1>1
<1>2. SkipSweep => Moved("sweep", Tail(main.todo), main.left, main.rows, main.base)
  BY <1>1 DEF SkipSweep
<1> HIDE DEF Shapes
<1>3. NextSweep => Moved("cell", main.todo, Sweep.cells, {}, main.base)
  BY <1>1 DEF NextSweep
<1>4. EndSweep => Moved("sweep", Tail(main.todo), main.left, main.rows, main.base)
  BY <1>1 DEF EndSweep
<1>5. Abandon /\ main.pc # "off" => Moved("sweep", Tail(main.todo), main.left, main.rows, main.base)
  BY <1>1 DEF Abandon
<1>6. StartServer \/ Warm \/ ReadCounters => main.pc # "off"  BY DEF StartServer, Warm, ReadCounters
<1>7. StartServer /\ ~Abandon => Moved("warm", main.todo, main.left, main.rows, main.base)
  BY <1>1 DEF StartServer, Go
<1>8. Warm /\ ~Abandon => Moved("start", main.todo, main.left, main.rows, server')
  BY <1>1 DEF Warm
<1>9. StartThreads => Moved("barrier", main.todo, main.left, main.rows, main.base)
  BY <1>1 DEF StartThreads, Go
<1>10. Release => Moved("join", main.todo, main.left, main.rows, main.base)
  BY <1>1 DEF Release, Go
<1>11. Join => Moved("counters", main.todo, main.left, main.rows, main.base)
  BY <1>1 DEF Join, Go
<1>12. Control => main' = Off \/ Moved("cell", main.todo, Tail(main.left), main.rows, main.base)
  BY <1>1 DEF Control
<1> HIDE DEF Moved
<1> QED  BY <1>2, <1>3, <1>4, <1>5, <1>6, <1>7, <1>8, <1>9, <1>10, <1>11, <1>12

\* The row that ReadCounters adds.
NewRow ==
    [cell |-> Cell, requests |-> Per(Cell.c) * Cell.c,
     ok |-> tally.ok, errors |-> tally.errors, p50 |-> Percentile(tally.ok, 50),
     items |-> Items, graphs |-> Graphs]
LEMMA RowIsAdded ==
  ASSUME Shapes, ReadCounters, ~Abandon
  PROVE  Moved("control", main.todo, main.left, main.rows \cup {NewRow}, main.base)
<1>1. main = [pc |-> main.pc, skip |-> main.skip, todo |-> main.todo, left |-> main.left,
              rows |-> main.rows, base |-> main.base]
  BY DEF Shapes, Off, ReadCounters
<1> DEFINE row == NewRow
<1>2. main' = [main EXCEPT !.pc = "control", !.rows = @ \cup {row}]
  BY DEF ReadCounters, NewRow, Items, Graphs
<1> HIDE DEF row
<1>3. main' = [pc |-> "control", skip |-> main.skip, todo |-> main.todo, left |-> main.left,
               rows |-> main.rows \cup {row}, base |-> main.base]
  BY <1>1, <1>2
<1> QED  BY <1>3 DEF row, Moved

(***************************************************************************)
(* Shapes and places are kept.                                             *)
(***************************************************************************)
LEMMA MovedKeeps ==
  ASSUME NEW p, NEW t, NEW l, NEW r, NEW b, Moved(p, t, l, r, b),
         p \in {"sweep", "cell", "warm", "start", "barrier", "join", "counters", "control"},
         t \in Seq(Scheduled), l \in Seq(Nat \ {0}), b.items \in Nat, b.graphs \in Nat
  PROVE  /\ main' # Off
         /\ main' = [pc |-> main'.pc, skip |-> main'.skip, todo |-> main'.todo, left |-> main'.left,
                     rows |-> main'.rows, base |-> main'.base]
         /\ main'.pc = p /\ main'.todo = t /\ main'.left = l /\ main'.rows = r /\ main'.base = b
  BY DEF Moved, Off

LEMMA MovedShape ==
  ASSUME NEW p, NEW t, NEW l, NEW r, NEW b, Moved(p, t, l, r, b),
         p \in {"sweep", "cell", "warm", "start", "barrier", "join", "counters", "control"},
         t \in Seq(Scheduled), l \in Seq(Nat \ {0}), b.items \in Nat, b.graphs \in Nat,
         server' = [up |-> server'.up, items |-> server'.items, graphs |-> server'.graphs],
         server'.items \in Nat, server'.graphs \in Nat,
         tally' = [ok |-> tally'.ok, errors |-> tally'.errors],
         tally'.ok \in Nat, tally'.errors \in Nat, lost' \in Nat
  PROVE  Shapes'
<1>1. /\ main' = [pc |-> main'.pc, skip |-> main'.skip, todo |-> main'.todo, left |-> main'.left,
                  rows |-> main'.rows, base |-> main'.base]
      /\ main'.pc = p /\ main'.todo = t /\ main'.left = l /\ main'.base = b
  BY MovedKeeps
<1> QED  BY <1>1 DEF Shapes

LEMMA MainKeepsShapes ==
  ASSUME Shapes, Places, MainStep
  PROVE  Shapes'
<1> DEFINE Rest ==
      /\ server' = [up |-> server'.up, items |-> server'.items, graphs |-> server'.graphs]
      /\ server'.items \in Nat /\ server'.graphs \in Nat
      /\ tally' = [ok |-> tally'.ok, errors |-> tally'.errors]
      /\ tally'.ok \in Nat /\ tally'.errors \in Nat /\ lost' \in Nat
<1>1. ASSUME main.pc # "off"
      PROVE  /\ main.todo \in Seq(Scheduled) /\ main.left \in Seq(Nat \ {0})
             /\ main.base.items \in Nat /\ main.base.graphs \in Nat
             /\ main.pc \in {"sweep", "cell", "warm", "start", "barrier", "join", "counters", "control"}
  BY <1>1 DEF Shapes, Off
<1>2. main.todo # <<>> /\ main.pc # "off" => Tail(main.todo) \in Seq(Scheduled)
  BY <1>1, HeadTailProperties
<1>3. /\ server = [up |-> server.up, items |-> server.items, graphs |-> server.graphs]
      /\ server.items \in Nat /\ server.graphs \in Nat
      /\ tally = [ok |-> tally.ok, errors |-> tally.errors]
      /\ tally.ok \in Nat /\ tally.errors \in Nat /\ lost \in Nat
  BY DEF Shapes
<1>4. Abandon /\ UNCHANGED tally => Rest  BY <1>3 DEF Abandon, Down
<1>5. CASE Begin
  <2>1. PICK skip : main' = [pc |-> "sweep", skip |-> skip, todo |-> Sweeps, left |-> <<>>, rows |-> {},
                             base |-> Down]
    BY <1>5 DEF Begin
  <2>2. main'.todo = Sweeps /\ main'.left = <<>> /\ main'.base = Down /\ main'.pc = "sweep"
        /\ main' = [pc |-> main'.pc, skip |-> main'.skip, todo |-> main'.todo, left |-> main'.left,
                     rows |-> main'.rows, base |-> main'.base]
    BY <2>1
  <2>3. Sweeps \in Seq(Scheduled)  BY LoadTestAssumption DEF Scheduled
  <2>4. UNCHANGED <<server, tally, lost>>  BY <1>5 DEF Begin
  <2> QED  BY <2>2, <2>3, <2>4, <1>3 DEF Shapes, Down
<1>6. CASE SkipSweep
  <2>1. Rest /\ main.pc # "off" /\ main.todo # <<>>  BY <1>6, <1>3 DEF SkipSweep
  <2> QED  BY <1>6, <2>1, <1>1, <1>2, Moves, MovedShape
<1>7. CASE NextSweep
  <2>1. Rest /\ main.pc # "off" /\ main.todo # <<>>  BY <1>7, <1>3 DEF NextSweep
  <2>2. Head(main.todo) \in Scheduled  BY <2>1, <1>1, HeadTailProperties
  <2>3. Sweep.cells \in Seq(Nat \ {0})  BY <2>2, LoadTestAssumption DEF Sweep, Scheduled
  <2> QED  BY <1>7, <2>1, <2>3, <1>1, Moves, MovedShape
<1>8. CASE EndSweep
  <2>1. Rest /\ main.pc # "off" /\ main.todo # <<>>  BY <1>8, <1>3 DEF EndSweep, Places
  <2> QED  BY <1>8, <2>1, <1>1, <1>2, Moves, MovedShape
<1>9. CASE (StartServer \/ Warm \/ ReadCounters) /\ Abandon
  <2>1. Rest /\ main.pc # "off" /\ main.todo # <<>>
    BY <1>9, <1>4 DEF StartServer, Warm, ReadCounters, Places
  <2> QED  BY <1>9, <2>1, <1>1, <1>2, Moves, MovedShape
<1>10. CASE StartServer /\ ~Abandon
  <2>1. Rest /\ main.pc # "off"  BY <1>10, <1>3 DEF StartServer, Down
  <2> QED  BY <1>10, <2>1, <1>1, Moves, MovedShape
<1>11. CASE Warm /\ ~Abandon
  <2>2. /\ main.pc = "warm" /\ lost' = lost /\ tally' = tally
        /\ server' = [server EXCEPT !.items = @ + Warmup, !.graphs = @ + Warmup]
    BY <1>11, Zenon DEF Warm
  <2>3. Warmup \in Nat  BY LoadTestAssumption
  <2>4. server'.items = server.items + Warmup /\ server'.graphs = server.graphs + Warmup
    BY <2>2, <1>3
  <2>5. server' = [up |-> server'.up, items |-> server'.items, graphs |-> server'.graphs]
    BY <2>2, <1>3
  <2>6. server'.items \in Nat /\ server'.graphs \in Nat  BY <2>4, <2>3, <1>3
  <2>1. Rest /\ main.pc # "off"  BY <2>2, <2>5, <2>6, <1>3
  <2> QED  BY <1>11, <2>1, <1>1, Moves, MovedShape
<1>12. CASE StartThreads
  <2>1. Rest /\ main.pc # "off"  BY <1>12, <1>3 DEF StartThreads
  <2> QED  BY <1>12, <2>1, <1>1, Moves, MovedShape
<1>13. CASE Release
  <2>1. Rest /\ main.pc # "off"  BY <1>13, <1>3 DEF Release
  <2> QED  BY <1>13, <2>1, <1>1, Moves, MovedShape
<1>14. CASE Join
  <2>1. Rest /\ main.pc # "off"  BY <1>14, <1>3 DEF Join
  <2> QED  BY <1>14, <2>1, <1>1, Moves, MovedShape
<1>15. CASE ReadCounters /\ ~Abandon
  <2>1. Rest /\ main.pc # "off"  BY <1>15, <1>3 DEF ReadCounters
  <2> QED  BY <1>15, <2>1, <1>1, RowIsAdded, MovedShape
<1>16. CASE Control
  <2>1. Rest /\ main.pc = "control"  BY <1>16, <1>3 DEF Control, Down
  <2>2. main.left # <<>>  BY <2>1 DEF Places
  <2>3. Tail(main.left) \in Seq(Nat \ {0})  BY <2>1, <2>2, <1>1, HeadTailProperties
  <2>4. CASE main' = Off  BY <2>4, <2>1 DEF Shapes
  <2> QED  BY <1>16, <2>1, <2>3, <2>4, <1>1, Moves, MovedShape
<1>17. CASE Write  BY <1>17, <1>3 DEF Write, Shapes
<1> HIDE DEF Rest
<1> QED
  BY <1>5, <1>6, <1>7, <1>8, <1>9, <1>10, <1>11, <1>12, <1>13, <1>14, <1>15, <1>16, <1>17 DEF MainStep

LEMMA MainKeepsPlaces ==
  ASSUME Shapes, Places, Threads, MainStep
  PROVE  Places' /\ Threads'
<1> DEFINE Alone == DOMAIN clients' = {} /\ clients' = [s \in DOMAIN clients' |-> clients'[s]]
<1>1. \A p, t, l, r, b : Moved(p, t, l, r, b) => main'.pc = p /\ main'.todo = t /\ main'.left = l /\ main'.base = b
  BY DEF Moved
<1>2. main.pc \notin {"barrier", "join"} /\ UNCHANGED clients => Alone  BY DEF Threads
<1>3. Alone /\ main'.pc \notin {"barrier", "join"} => Threads'  BY DEF Threads
<1>4. CASE Begin
  <2>1. main'.pc = "sweep" /\ UNCHANGED <<server, clients, lost>> /\ main.pc = "off"  BY <1>4 DEF Begin, Off
  <2> QED  BY <2>1, <1>2, <1>3 DEF Places
<1>5. CASE SkipSweep
  <2>1. main'.pc = "sweep" /\ UNCHANGED <<server, clients, lost>> /\ main.pc = "sweep"
    BY <1>5, <1>1, Moves DEF SkipSweep
  <2> QED  BY <2>1, <1>2, <1>3 DEF Places
<1>6. CASE NextSweep
  <2>1. /\ main'.pc = "cell" /\ UNCHANGED <<server, clients, lost>> /\ main.pc = "sweep"
        /\ main'.todo = main.todo /\ main.todo # <<>>
    BY <1>6, <1>1, Moves DEF NextSweep
  <2> QED  BY <2>1, <1>2, <1>3 DEF Places
<1>7. CASE EndSweep
  <2>1. main'.pc = "sweep" /\ UNCHANGED <<server, clients, lost>> /\ main.pc = "cell"
    BY <1>7, <1>1, Moves DEF EndSweep
  <2> QED  BY <2>1, <1>2, <1>3 DEF Places
<1>8. CASE (StartServer \/ Warm \/ ReadCounters) /\ Abandon
  <2>1. /\ main'.pc = "sweep" /\ UNCHANGED clients /\ main.pc \notin {"barrier", "join"}
        /\ server' = Down /\ lost' = 0
    BY <1>8, <1>1, Moves DEF StartServer, Warm, ReadCounters, Abandon
  <2> QED  BY <2>1, <1>2, <1>3 DEF Places
<1>9. CASE StartServer /\ ~Abandon
  <2>1. /\ main'.pc = "warm" /\ UNCHANGED <<clients, lost>> /\ main.pc = "cell"
        /\ main'.todo = main.todo /\ main'.left = main.left /\ main.left # <<>>
    BY <1>9, <1>1, Moves DEF StartServer
  <2> QED  BY <2>1, <1>2, <1>3 DEF Places
<1>10. CASE Warm /\ ~Abandon
  <2>1. /\ main'.pc = "start" /\ UNCHANGED <<clients, lost>> /\ main.pc = "warm"
        /\ main'.todo = main.todo /\ main'.left = main.left /\ main'.base = server'
    BY <1>10, <1>1, Moves, Zenon DEF Warm
  <2> QED  BY <2>1, <1>2, <1>3 DEF Places
<1>11. CASE StartThreads
  <2>1. /\ main'.pc = "barrier" /\ UNCHANGED <<server, lost>> /\ main.pc = "start"
        /\ main'.todo = main.todo /\ main'.left = main.left
        /\ clients' = [s \in 1..Cell.c |-> [pc |-> "new", left |-> Per(Cell.c)]]
    BY <1>11, <1>1, Moves DEF StartThreads
  <2>2. Cell' = Cell  BY <2>1 DEF Cell, Sweep
  <2>3. Per(Cell.c) \in Nat  BY <2>1, CellType
  <2>4. Threads'  BY <2>1, <2>2, <2>3 DEF Threads
  <2> QED  BY <2>1, <2>4 DEF Places
<1>12. CASE Release
  <2>1. /\ main'.pc = "join" /\ UNCHANGED <<server, lost>> /\ main.pc = "barrier"
        /\ main'.todo = main.todo /\ main'.left = main.left
        /\ clients' = [s \in DOMAIN clients |-> [clients[s] EXCEPT !.pc = "idle"]]
    BY <1>12, <1>1, Moves DEF Release
  <2>2. Cell' = Cell  BY <2>1 DEF Cell, Sweep
  <2>3. \A s \in DOMAIN clients : clients'[s] = [pc |-> "idle", left |-> clients[s].left]
    BY <2>1 DEF Threads
  <2>4. Threads'  BY <2>1, <2>2, <2>3 DEF Threads
  <2> QED  BY <2>1, <2>4 DEF Places
<1>13. CASE Join
  <2>1. /\ main'.pc = "counters" /\ UNCHANGED <<server, lost>> /\ main.pc = "join"
        /\ main'.todo = main.todo /\ main'.left = main.left /\ clients' = <<>>
    BY <1>13, <1>1, Moves DEF Join
  <2> QED  BY <2>1, <1>3 DEF Places
<1>14. CASE ReadCounters /\ ~Abandon
  <2>1. /\ main'.pc = "control" /\ main'.todo = main.todo /\ main'.left = main.left
    BY <1>14, <1>1, RowIsAdded
  <2>2. UNCHANGED <<server, clients, lost>> /\ main.pc = "counters"
    BY <1>14, Zenon DEF ReadCounters
  <2> QED  BY <2>1, <2>2, <1>2, <1>3 DEF Places
<1>15. CASE Control
  <2>1. main.pc = "control" /\ server' = Down /\ lost' = 0 /\ UNCHANGED clients  BY <1>15 DEF Control
  <2>2. CASE main' = Off  BY <2>1, <2>2, <1>2, <1>3 DEF Places, Off
  <2>3. CASE main'.pc = "cell" /\ main'.todo = main.todo  BY <2>1, <2>3, <1>2, <1>3 DEF Places
  <2> QED  BY <1>15, <1>1, <2>2, <2>3, Moves
<1>16. CASE Write
  <2>1. main' = Off /\ UNCHANGED <<server, clients, lost>> /\ main.pc = "sweep"  BY <1>16 DEF Write
  <2> QED  BY <2>1, <1>2, <1>3 DEF Places, Off
<1> QED
  BY <1>4, <1>5, <1>6, <1>7, <1>8, <1>9, <1>10, <1>11, <1>12, <1>13, <1>14, <1>15, <1>16 DEF MainStep

LEMMA OthersKeepShapes ==
  ASSUME Shapes, (\E s \in DOMAIN clients : ThreadStep(s)) \/ Die
  PROVE  Shapes' /\ UNCHANGED <<main, results>>
<1>1. CASE Die  BY <1>1 DEF Die, Shapes
<1>2. ASSUME NEW s \in DOMAIN clients, ThreadStep(s)
      PROVE  /\ UNCHANGED <<main, server, results>>
             /\ tally' = [ok |-> tally'.ok, errors |-> tally'.errors]
             /\ tally'.ok \in Nat /\ tally'.errors \in Nat /\ lost' \in Nat
  <2> USE DEF Shapes
  <2>1. CASE Arrive(s) \/ Send(s) \/ Refuse(s)  BY <2>1 DEF Arrive, Send, Refuse
  <2>2. CASE Raised(s)  BY <2>2 DEF Raised
  <2>3. CASE Answered(s)  BY <2>3 DEF Answered
  <2> QED  BY <1>2, <2>1, <2>2, <2>3 DEF ThreadStep
<1>3. ASSUME \E s \in DOMAIN clients : ThreadStep(s)  PROVE Shapes' /\ UNCHANGED <<main, results>>
  BY <1>2, <1>3 DEF Shapes
<1> QED  BY <1>1, <1>3

LEMMA ServeKeepsShapes ==
  ASSUME Shapes, Places, Threads, Serve
  PROVE  Shapes' /\ UNCHANGED <<main, results>>
<1>1. PICK S \in SUBSET {s \in DOMAIN clients : clients[s].pc = "sent"}, k \in 0..lost :
        /\ Cardinality(S) + k \in 1..Sweep.maxBatch
        /\ server' = [server EXCEPT !.items = @ + Cardinality(S) + k, !.graphs = @ + 1]
        /\ lost' = lost - k
  BY Zenon DEF Serve
<1>2. UNCHANGED <<main, tally, results>>  BY Zenon DEF Serve
<1>3. lost \in Nat /\ server.items \in Nat /\ server.graphs \in Nat
      /\ server = [up |-> server.up, items |-> server.items, graphs |-> server.graphs]
  BY DEF Shapes
<1>4. IsFiniteSet(S)
  <2>1. IsFiniteSet(DOMAIN clients)
    <3>1. main.pc \in {"barrier", "join"} => Cell.c \in Nat  BY CellType
    <3> QED  BY <3>1, FS_Interval, FS_EmptySet DEF Threads
  <2> QED  BY <2>1, FS_Subset
<1>5. Cardinality(S) \in Nat /\ k \in Nat /\ lost' \in Nat  BY <1>1, <1>3, <1>4, FS_CardinalityType
<1>6. server'.items = server.items + Cardinality(S) + k /\ server'.graphs = server.graphs + 1
  BY <1>1, <1>3
<1>7. server' = [up |-> server'.up, items |-> server'.items, graphs |-> server'.graphs]  BY <1>1, <1>3
<1>8. server'.items \in Nat /\ server'.graphs \in Nat  BY <1>6, <1>5, <1>3
<1> QED  BY <1>2, <1>5, <1>7, <1>8 DEF Shapes

\* A thread's own step: one record of clients changes.
LEMMA ThreadMoves ==
  ASSUME Threads, NEW s \in DOMAIN clients, NEW e,
         e = [pc |-> e.pc, left |-> e.left], e.left \in 0..Per(Cell.c),
         e.pc \in {"sent", "refused", "served"} => e.left > 0,
         clients' = [clients EXCEPT ![s] = e], UNCHANGED main
  PROVE  Threads'
<1>1. DOMAIN clients' = DOMAIN clients  OBVIOUS
<1>2. Cell' = Cell  BY DEF Cell, Sweep
<1>3. \A t \in DOMAIN clients : clients'[t] = IF t = s THEN e ELSE clients[t]  OBVIOUS
<1> QED  BY <1>1, <1>2, <1>3 DEF Threads

LEMMA OthersKeepPlaces ==
  ASSUME Shapes, Places, Threads,
         (\E s \in DOMAIN clients : ThreadStep(s)) \/ Serve \/ Die
  PROVE  Places' /\ Threads'
<1>1. CASE Die
  <2>1. UNCHANGED <<main, clients, lost>> /\ server' = [server EXCEPT !.up = FALSE] /\ server.up
    BY <1>1, Zenon DEF Die
  <2>6. ~Down.up  BY DEF Down
  <2>2. server # Down  BY <2>1, <2>6
  <2>3. server'.items = server.items /\ server'.graphs = server.graphs  BY <2>1 DEF Shapes
  <2>4. Cell' = Cell  BY <2>1 DEF Cell, Sweep
  <2>5. Threads'  BY <2>1, <2>4 DEF Threads
  <2> QED  BY <2>1, <2>2, <2>3, <2>5 DEF Places
<1>2. CASE Serve
  <2>1. PICK S \in SUBSET {s \in DOMAIN clients : clients[s].pc = "sent"}, k \in 0..lost :
          /\ Cardinality(S) + k \in 1..Sweep.maxBatch
          /\ clients' = [s \in DOMAIN clients |->
                            IF s \in S THEN [clients[s] EXCEPT !.pc = "served"] ELSE clients[s]]
          /\ lost' = lost - k
    BY <1>2, Zenon DEF Serve
  <2>2. UNCHANGED main /\ server.up  BY <1>2, Zenon DEF Serve
  <2>3. main.pc \in {"barrier", "join", "counters", "control"}
    <3>7. ~Down.up  BY DEF Down
    <3>1. server # Down  BY <2>2, <3>7
    <3>2. main.pc \notin {"barrier", "join"} => S = {}  BY <2>1 DEF Threads
    <3>3. S = {} /\ lost = 0 => Cardinality(S) + k = 0
      <4>1. Cardinality({}) = 0  BY FS_EmptySet
      <4> QED  BY <4>1, <2>1
    <3>4. ~(Cardinality(S) + k = 0)  BY <2>1
    <3>5. main.pc \in {"off", "sweep", "cell"} => server = Down  BY DEF Places
    <3>6. main.pc \notin {"barrier", "join", "counters", "control"} => lost = 0  BY DEF Places
    <3> QED  BY <3>2, <3>3, <3>4, <3>6
  <2>4. Cell' = Cell  BY <2>2 DEF Cell, Sweep
  <2>5. \A s \in DOMAIN clients : clients'[s] = clients[s] \/
            (clients[s].pc = "sent" /\ clients'[s] = [pc |-> "served", left |-> clients[s].left])
    BY <2>1 DEF Threads
  <2>6. Threads'
    <3> HIDE DEF Cell
    <3> QED  BY <2>1, <2>2, <2>4, <2>5 DEF Threads
  <2> QED  BY <2>2, <2>3, <2>6 DEF Places
<1>3. ASSUME NEW s \in DOMAIN clients, ThreadStep(s)  PROVE Places' /\ Threads'
  <2>1. clients[s] = [pc |-> clients[s].pc, left |-> clients[s].left] /\ clients[s].left \in 0..Per(Cell.c)
        /\ (clients[s].pc \in {"sent", "refused", "served"} => clients[s].left > 0)
    BY DEF Threads
  <2>2. UNCHANGED <<main, server>>
    BY <1>3 DEF ThreadStep, Arrive, Send, Refuse, Raised, Answered
  <2>3. main.pc \in {"barrier", "join"}  BY DEF Threads
  <2>4. Places'  BY <2>2, <2>3 DEF Places
  <2>5. Per(Cell.c) \in Nat  BY <2>3, CellType
  <2>6. CASE Arrive(s)
    <3>2. [clients[s] EXCEPT !.pc = "barrier"] = [pc |-> "barrier", left |-> clients[s].left]  BY <2>1
    <3>1. clients' = [clients EXCEPT ![s] = [pc |-> "barrier", left |-> clients[s].left]]
      BY <3>2, <2>6 DEF Arrive, Set
    <3> QED  BY <3>1, <2>1, <2>2, <2>4, ThreadMoves
  <2>7. CASE Send(s) \/ Refuse(s)
    <3>1. PICK p : clients' = [clients EXCEPT ![s] = [pc |-> p, left |-> clients[s].left]]
      BY <2>1, <2>7 DEF Send, Refuse, Set
    <3>2. clients[s].left > 0  BY <2>1, <2>7 DEF Send, Refuse
    <3> QED  BY <3>1, <3>2, <2>1, <2>2, <2>4, ThreadMoves
  <2>8. CASE Raised(s) \/ Answered(s)
    <3>1. clients' = [clients EXCEPT ![s] = [pc |-> "idle", left |-> clients[s].left - 1]]
      BY <2>8 DEF Raised, Answered
    <3>2. clients[s].left > 0  BY <2>1, <2>8 DEF Raised, Answered
    <3>3. clients[s].left - 1 \in 0..Per(Cell.c)  BY <3>2, <2>1, <2>5
    <3> QED  BY <3>1, <3>3, <2>2, <2>4, ThreadMoves
  <2> QED  BY <1>3, <2>6, <2>7, <2>8 DEF ThreadStep
<1> QED  BY <1>1, <1>2, <1>3

-----------------------------------------------------------------------------
(***************************************************************************)
(* The window.                                                             *)
(***************************************************************************)
Measuring == main.pc \in {"barrier", "join", "counters"}

LEMMA Finite ==
  ASSUME Shapes, Places, Threads, Measuring
  PROVE  /\ IsFiniteSet((1..Cell.c) \X (1..Per(Cell.c)))
         /\ Cardinality((1..Cell.c) \X (1..Per(Cell.c))) = Cell.c * Per(Cell.c)
         /\ IsFiniteSet(Pending) /\ Cardinality(Pending) \in Nat
         /\ IsFiniteSet(DOMAIN clients) /\ IsFiniteSet(Served) /\ Cardinality(Served) \in Nat
<1>1. Cell.c \in Nat \ {0} /\ Per(Cell.c) \in Nat \ {0}  BY CellType DEF Measuring
<1> DEFINE c == Cell.c
           p == Per(Cell.c)
<1>2. c \in Nat \ {0} /\ p \in Nat \ {0}  BY <1>1
<1>3. Pending \subseteq (1..c) \X (1..p)  BY DEF Pending
<1>4. DOMAIN clients = {} \/ DOMAIN clients = 1..c  BY DEF Threads, Measuring
<1>5. Served \subseteq DOMAIN clients  BY DEF Served
<1> HIDE DEF c, p
<1>6. IsFiniteSet(1..c) /\ Cardinality(1..c) = c /\ IsFiniteSet(1..p) /\ Cardinality(1..p) = p
  BY <1>2, FS_Interval
<1>7. IsFiniteSet((1..c) \X (1..p)) /\ Cardinality((1..c) \X (1..p)) = c * p  BY <1>6, FS_Product
<1>8. IsFiniteSet(Pending) /\ Cardinality(Pending) \in Nat  BY <1>3, <1>7, FS_Subset, FS_CardinalityType
<1>9. IsFiniteSet(DOMAIN clients)  BY <1>4, <1>6, FS_EmptySet
<1>10. IsFiniteSet(Served) /\ Cardinality(Served) \in Nat  BY <1>5, <1>9, FS_Subset, FS_CardinalityType
<1> QED  BY <1>7, <1>8, <1>9, <1>10 DEF c, p

LEMMA WindowOpens ==
  ASSUME Shapes, Places, Threads, StartThreads
  PROVE  Window'
<1>1. /\ main'.pc = "barrier" /\ UNCHANGED <<server, lost>> /\ main.pc = "start"
      /\ main'.todo = main.todo /\ main'.left = main.left /\ main'.base = main.base
      /\ clients' = [s \in 1..Cell.c |-> [pc |-> "new", left |-> Per(Cell.c)]]
      /\ tally' = [ok |-> 0, errors |-> 0]
  BY Moves DEF StartThreads, Moved
<1>2. Cell' = Cell /\ Sweep' = Sweep  BY <1>1 DEF Cell, Sweep
<1> DEFINE c == Cell.c
           p == Per(Cell.c)
<1>3. c \in Nat \ {0} /\ p \in Nat \ {0} /\ Sweep.maxBatch \in Nat  BY <1>1, CellType
<1>4. Pending' = (1..c) \X (1..p)
  <2>1. Pending' = {q \in (1..c) \X (1..p) : q[1] \in DOMAIN clients' /\ q[2] <= clients'[q[1]].left}
    BY <1>2 DEF Pending
  <2>2. clients' = [s \in 1..c |-> [pc |-> "new", left |-> p]]  BY <1>1
  <2> HIDE DEF c, p
  <2> QED  BY <2>1, <2>2, <1>3
<1>5. Served' = {}
  <2>1. Served' = {s \in DOMAIN clients' : clients'[s].pc = "served"}  BY DEF Served
  <2>2. clients' = [s \in 1..c |-> [pc |-> "new", left |-> p]]  BY <1>1
  <2> HIDE DEF c, p
  <2> QED  BY <2>1, <2>2
<1>6. Items' = 0 /\ Graphs' = 0 /\ lost' = 0  BY <1>1 DEF Items, Graphs, Places, Shapes, Off
<1>7. Per(Cell.c)' = p /\ Cell'.c = c /\ Sweep'.maxBatch = Sweep.maxBatch  BY <1>2
<1>8. Window' <=>
        /\ tally'.ok + tally'.errors + Cardinality(Pending') = p * c
        /\ tally'.ok + Cardinality(Served') <= Items'
        /\ Items' + lost' <= tally'.ok + tally'.errors + Cardinality(Served')
        /\ Graphs' <= Items' /\ Items' <= Sweep'.maxBatch * Graphs'
  BY <1>1, <1>7 DEF Window
<1> HIDE DEF c, p
<1>9. Cardinality(Pending') = c * p
  <2>1. IsFiniteSet(1..c) /\ Cardinality(1..c) = c /\ IsFiniteSet(1..p) /\ Cardinality(1..p) = p
    BY <1>3, FS_Interval
  <2> QED  BY <2>1, <1>4, FS_Product
<1>10. Cardinality(Served') = 0  BY <1>5, FS_EmptySet
<1>11. tally'.ok = 0 /\ tally'.errors = 0  BY <1>1
<1>12. c * p = p * c /\ Sweep.maxBatch * 0 = 0 /\ c * p \in Nat  BY <1>3
<1> QED  BY <1>6, <1>7, <1>8, <1>9, <1>10, <1>11, <1>12, <1>3

(***************************************************************************)
(* A step inside the window: the cell and the base are the same, so what   *)
(* the invariant says is arithmetic over the counters.                     *)
(***************************************************************************)
Balanced(ok, errors, pending, served, items, given, graphs) ==
    /\ ok + errors + pending = Per(Cell.c) * Cell.c
    /\ ok + served <= items
    /\ items + given <= ok + errors + served
    /\ graphs <= items /\ items <= Sweep.maxBatch * graphs
SameCell == main'.todo = main.todo /\ main'.left = main.left /\ main'.base = main.base

LEMMA WindowIsBalance ==
  /\ Measuring /\ Window => Balanced(tally.ok, tally.errors, Cardinality(Pending), Cardinality(Served),
                                     Items, lost, Graphs)
  /\ SameCell /\ Balanced(tally'.ok, tally'.errors, Cardinality(Pending'), Cardinality(Served'),
                          Items', lost', Graphs') => Window'
<1>1. SameCell => Cell' = Cell /\ Sweep' = Sweep  BY DEF SameCell, Cell, Sweep
<1>2. SameCell => Per(Cell.c)' = Per(Cell.c) /\ Cell'.c = Cell.c /\ Sweep'.maxBatch = Sweep.maxBatch
  BY <1>1
<1>3. Measuring /\ Window => Balanced(tally.ok, tally.errors, Cardinality(Pending), Cardinality(Served),
                                     Items, lost, Graphs)
  BY DEF Measuring, Window, Balanced
<1>4. ASSUME SameCell, Balanced(tally'.ok, tally'.errors, Cardinality(Pending'), Cardinality(Served'),
                                Items', lost', Graphs')
      PROVE  Window'
  BY <1>2, <1>4 DEF Balanced, Window
<1> QED  BY <1>3, <1>4

LEMMA CountsType ==
  ASSUME Shapes, Places, Threads, Measuring
  PROVE  /\ tally.ok \in Nat /\ tally.errors \in Nat /\ lost \in Nat /\ Items \in Int /\ Graphs \in Int
         /\ Cardinality(Pending) \in Nat /\ Cardinality(Served) \in Nat
         /\ Sweep.maxBatch \in Nat /\ Per(Cell.c) * Cell.c \in Nat
<1>1. main.pc \notin {"off", "sweep", "cell"} /\ main # Off  BY DEF Measuring, Off
<1>2. Cell.c \in Nat /\ Per(Cell.c) \in Nat /\ Sweep.maxBatch \in Nat  BY <1>1, CellType
<1>3. Per(Cell.c) * Cell.c \in Nat
  <2> DEFINE c == Cell.c
             p == Per(Cell.c)
  <2>1. c \in Nat /\ p \in Nat  BY <1>2
  <2> HIDE DEF c, p
  <2>2. p * c \in Nat  BY <2>1
  <2> QED  BY <2>2 DEF c, p
<1>4. Cardinality(Pending) \in Nat /\ Cardinality(Served) \in Nat  BY Finite
<1> QED  BY <1>1, <1>2, <1>3, <1>4 DEF Shapes, Items, Graphs

\* A step that counts nothing.
LEMMA QuietKeepsWindow ==
  ASSUME Measuring, Window, SameCell, UNCHANGED <<tally, lost>>,
         server'.items = server.items, server'.graphs = server.graphs,
         Cardinality(Pending') = Cardinality(Pending), Cardinality(Served') = Cardinality(Served)
  PROVE  Window'
<1>1. Items' = Items /\ Graphs' = Graphs  BY DEF Items, Graphs, SameCell
<1> QED  BY <1>1, WindowIsBalance

\* Pending and Served follow from what the threads are at.
LEMMA ThreadSets ==
  ASSUME SameCell
  PROVE  /\ Pending' = {p \in (1..Cell.c) \X (1..Per(Cell.c)) : p[1] \in DOMAIN clients' /\ p[2] <= clients'[p[1]].left}
         /\ Served' = {s \in DOMAIN clients' : clients'[s].pc = "served"}
<1>1. Cell' = Cell  BY DEF SameCell, Cell, Sweep
<1> QED  BY <1>1 DEF Pending, Served

LEMMA ReleaseKeepsWindow ==
  ASSUME Shapes, Places, Threads, Window, Release
  PROVE  Window'
<1>1. /\ main.pc = "barrier" /\ SameCell /\ UNCHANGED <<server, tally, lost>>
      /\ \A s \in DOMAIN clients : clients[s].pc = "barrier"
      /\ clients' = [s \in DOMAIN clients |-> [clients[s] EXCEPT !.pc = "idle"]]
  BY Moves DEF Release, Moved, SameCell
<1>2. \A s \in DOMAIN clients : clients'[s] = [pc |-> "idle", left |-> clients[s].left]
  BY <1>1 DEF Threads
<1>3. Pending' = Pending  BY <1>1, <1>2, ThreadSets DEF Pending
<1>4. Served' = Served  BY <1>1, <1>2, ThreadSets DEF Served
<1> QED  BY <1>1, <1>3, <1>4, QuietKeepsWindow DEF Measuring

LEMMA JoinKeepsWindow ==
  ASSUME Shapes, Places, Threads, Window, Join
  PROVE  Window'
<1>1. /\ main.pc = "join" /\ SameCell /\ UNCHANGED <<server, tally, lost>> /\ clients' = <<>>
      /\ \A s \in DOMAIN clients : clients[s].left = 0 /\ clients[s].pc = "idle"
  BY Moves DEF Join, Moved, SameCell
<1>2. DOMAIN clients' = {}  BY <1>1
<1>3. Pending' = {}  BY <1>1, <1>2, ThreadSets
<1>4. Pending = {}  BY <1>1 DEF Pending
<1>5. Served' = {} /\ Served = {}  BY <1>1, <1>2, ThreadSets DEF Served
<1> QED  BY <1>1, <1>3, <1>4, <1>5, QuietKeepsWindow DEF Measuring

LEMMA DieKeepsWindow ==
  ASSUME Shapes, Window, Measuring, Die
  PROVE  Window'
<1>1. server' = [server EXCEPT !.up = FALSE] /\ UNCHANGED <<main, clients, tally, lost>>
  BY Zenon DEF Die
<1>2. SameCell /\ server'.items = server.items /\ server'.graphs = server.graphs
  BY <1>1 DEF SameCell, Shapes
<1>3. Cell' = Cell  BY <1>1 DEF Cell, Sweep
<1>4. Pending' = Pending /\ Served' = Served  BY <1>1, <1>3 DEF Pending, Served
<1> QED  BY <1>1, <1>2, <1>4, QuietKeepsWindow

LEMMA ServeKeepsWindow ==
  ASSUME Shapes, Places, Threads, Window, Measuring, Serve
  PROVE  Window'
<1>1. PICK S \in SUBSET {s \in DOMAIN clients : clients[s].pc = "sent"}, k \in 0..lost :
        /\ Cardinality(S) + k \in 1..Sweep.maxBatch
        /\ clients' = [s \in DOMAIN clients |->
                          IF s \in S THEN [clients[s] EXCEPT !.pc = "served"] ELSE clients[s]]
        /\ server' = [server EXCEPT !.items = @ + Cardinality(S) + k, !.graphs = @ + 1]
        /\ lost' = lost - k
  BY Zenon DEF Serve
<1>2. UNCHANGED <<main, tally>>  BY Zenon DEF Serve
<1>3. SameCell  BY <1>2 DEF SameCell
<1>4. \A s \in DOMAIN clients :
        clients'[s] = IF s \in S THEN [pc |-> "served", left |-> clients[s].left] ELSE clients[s]
  BY <1>1 DEF Threads
<1>5. DOMAIN clients' = DOMAIN clients  BY <1>1
<1>6. ASSUME NEW s \in DOMAIN clients  PROVE clients'[s].left = clients[s].left
  <2>1. clients'[s] = [pc |-> "served", left |-> clients[s].left] \/ clients'[s] = clients[s]  BY <1>4
  <2> QED  BY <2>1
<1>7. Pending' = Pending  BY <1>3, <1>5, <1>6, ThreadSets DEF Pending
<1>8. Served' = Served \cup S  BY <1>3, <1>4, <1>5, ThreadSets DEF Served
<1>9. S \cap Served = {} /\ S \subseteq DOMAIN clients  BY <1>1 DEF Served
<1>10. IsFiniteSet(S) /\ IsFiniteSet(Served) /\ Cardinality(S) \in Nat
  BY <1>9, Finite, FS_Subset, FS_CardinalityType
<1>11. Cardinality(Served') = Cardinality(Served) + Cardinality(S)
  <2>1. Cardinality(Served \cup S) = Cardinality(Served) + Cardinality(S) - Cardinality(Served \cap S)
    BY <1>10, FS_Union
  <2>2. Cardinality(Served \cap S) = 0
    <3>1. Served \cap S = {}  BY <1>9
    <3> QED  BY <3>1, FS_EmptySet
  <2>3. Cardinality(Served) \in Nat  BY Finite
  <2>4. Cardinality(Served') = Cardinality(Served \cup S)  BY <1>8
  <2> HIDE DEF Served
  <2> QED  BY <2>1, <2>2, <2>3, <2>4, <1>10
<1>12. server'.items = server.items + Cardinality(S) + k /\ server'.graphs = server.graphs + 1
  BY <1>1 DEF Shapes
<1>13. server.items \in Nat /\ server.graphs \in Nat /\ main.base.items \in Nat /\ main.base.graphs \in Nat
  BY DEF Shapes, Measuring, Off
<1> DEFINE n == Cardinality(S)
           b == Sweep.maxBatch
<1>14. n \in Nat /\ k \in Nat /\ b \in Nat /\ n + k >= 1 /\ n + k <= b
  BY <1>1, <1>10, CountsType
<1>15. Items' = Items + n + k /\ Graphs' = Graphs + 1
  BY <1>12, <1>13, <1>14, <1>2 DEF Items, Graphs
<1>16. Cardinality(Served') = Cardinality(Served) + n  BY <1>11
<1> HIDE DEF n
<1>17. b * (Graphs + 1) = b * Graphs + b
  <2> DEFINE g == Graphs
  <2>1. g \in Int  BY CountsType
  <2> HIDE DEF b, g
  <2>2. b * (g + 1) = b * g + b  BY <2>1, <1>14
  <2> QED  BY <2>2 DEF g
<1>18. b * Graphs \in Int
  <2> DEFINE g == Graphs
  <2>1. g \in Int  BY CountsType
  <2> HIDE DEF b, g
  <2>2. b * g \in Int  BY <2>1, <1>14
  <2> QED  BY <2>2 DEF g
<1>19. Balanced(tally.ok, tally.errors, Cardinality(Pending), Cardinality(Served), Items, lost, Graphs)
  BY WindowIsBalance
<1>20. Balanced(tally.ok, tally.errors, Cardinality(Pending), Cardinality(Served) + n,
                Items + n + k, lost - k, Graphs + 1)
  BY <1>14, <1>17, <1>18, <1>19, CountsType DEF Balanced
<1> QED  BY <1>1, <1>2, <1>3, <1>7, <1>15, <1>16, <1>20, WindowIsBalance

\* A thread that sends, or is refused, counts nothing yet.
LEMMA QuietThread ==
  ASSUME Threads, Window, Measuring, NEW s \in DOMAIN clients, NEW p, p # "served",
         clients[s].pc # "served", clients' = [clients EXCEPT ![s] = [pc |-> p, left |-> clients[s].left]],
         UNCHANGED <<main, server, tally, lost>>
  PROVE  Window'
<1>1. SameCell /\ DOMAIN clients' = DOMAIN clients  BY DEF SameCell
<1>2. \A t \in DOMAIN clients :
        clients'[t] = IF t = s THEN [pc |-> p, left |-> clients[s].left] ELSE clients[t]
  OBVIOUS
<1>3. Pending' = Pending  BY <1>1, <1>2, ThreadSets DEF Pending
<1>4. Served' = Served  BY <1>1, <1>2, ThreadSets DEF Served
<1> QED  BY <1>1, <1>3, <1>4, QuietKeepsWindow

\* A request ends, answered or not: one pending request less.
LEMMA EndedThread ==
  ASSUME Shapes, Places, Threads, Measuring, NEW s \in DOMAIN clients, UNCHANGED main,
         clients[s].left > 0,
         clients' = [clients EXCEPT ![s] = [pc |-> "idle", left |-> clients[s].left - 1]]
  PROVE  /\ Cardinality(Pending') = Cardinality(Pending) - 1
         /\ Cardinality(Served') = Cardinality(Served) - (IF clients[s].pc = "served" THEN 1 ELSE 0)
<1>1. SameCell /\ DOMAIN clients' = DOMAIN clients  BY DEF SameCell
<1>2. \A t \in DOMAIN clients :
        clients'[t] = IF t = s THEN [pc |-> "idle", left |-> clients[s].left - 1] ELSE clients[t]
  OBVIOUS
<1>3. /\ \A t \in DOMAIN clients : clients[t].left \in 0..Per(Cell.c)
      /\ DOMAIN clients = 1..Cell.c
  BY DEF Threads, Measuring
<1>4. Cell.c \in Nat /\ Per(Cell.c) \in Nat  BY CellType DEF Measuring
<1> DEFINE all == (1..Cell.c) \X (1..Per(Cell.c))
           ended == <<s, clients[s].left>>
<1>5. clients[s].left \in 1..Per(Cell.c)  BY <1>3, <1>4
<1>6. ended \in all  BY <1>3, <1>5
<1>7. ended \in Pending  BY <1>6 DEF Pending
<1>8. Pending' = Pending \ {ended}
  <2>1. Pending' = {q \in all : q[1] \in DOMAIN clients /\ q[2] <= clients'[q[1]].left}
    BY <1>1, ThreadSets
  <2>2. ASSUME NEW q \in all  PROVE q \in Pending' <=> q \in Pending /\ q # ended
    <3>1. q[1] \in DOMAIN clients /\ q[2] \in Nat /\ q = <<q[1], q[2]>>  BY <1>3, <1>4
    <3>2. q \in Pending <=> q[2] <= clients[q[1]].left  BY <3>1 DEF Pending
    <3>3. q \in Pending' <=> q[2] <= clients'[q[1]].left  BY <2>1, <3>1
    <3>4. CASE q[1] = s
      <4>1. clients'[q[1]].left = clients[s].left - 1  BY <1>2, <3>4
      <4>2. q # ended <=> q[2] # clients[s].left  BY <3>1, <3>4
      <4> QED  BY <3>1, <3>2, <3>3, <3>4, <4>1, <4>2, <1>5, <1>4
    <3>5. CASE q[1] # s
      <4>1. clients'[q[1]] = clients[q[1]]  BY <1>2, <3>1, <3>5
      <4>2. q # ended  BY <3>5
      <4> QED  BY <3>2, <3>3, <4>1, <4>2
    <3> QED  BY <3>4, <3>5
  <2>3. Pending' \subseteq all /\ Pending \subseteq all  BY <2>1 DEF Pending
  <2> QED  BY <2>2, <2>3
<1>9. Cardinality(Pending') = Cardinality(Pending) - 1  BY <1>7, <1>8, Finite, FS_RemoveElement
<1>10. Served' = Served \ {s}  BY <1>1, <1>2, ThreadSets DEF Served
<1>11. CASE clients[s].pc = "served"
  <2>1. s \in Served  BY <1>11 DEF Served
  <2>2. Cardinality(Served') = Cardinality(Served) - 1  BY <2>1, <1>10, Finite, FS_RemoveElement
  <2> QED  BY <2>2, <1>9, <1>11
<1>12. CASE clients[s].pc # "served"
  <2>1. Served' = Served  BY <1>12, <1>10 DEF Served
  <2>2. Cardinality(Served) \in Nat  BY Finite
  <2> QED  BY <2>1, <2>2, <1>9, <1>12
<1> QED  BY <1>11, <1>12

LEMMA ThreadKeepsWindow ==
  ASSUME Shapes, Places, Threads, Window, NEW s \in DOMAIN clients, ThreadStep(s)
  PROVE  Window'
<1>1. Measuring  BY DEF Threads, Measuring
<1>2. clients[s] = [pc |-> clients[s].pc, left |-> clients[s].left] /\ clients[s].left \in 0..Per(Cell.c)
      /\ (clients[s].pc \in {"sent", "refused", "served"} => clients[s].left > 0)
  BY DEF Threads
<1>3. Balanced(tally.ok, tally.errors, Cardinality(Pending), Cardinality(Served), Items, lost, Graphs)
  BY <1>1, WindowIsBalance
<1>4. CASE Arrive(s) \/ Send(s) \/ Refuse(s)
  <2>1. PICK p : p # "served" /\ clients' = [clients EXCEPT ![s].pc = p]
    BY <1>4 DEF Arrive, Send, Refuse, Set
  <2>2. [clients[s] EXCEPT !.pc = p] = [pc |-> p, left |-> clients[s].left]  BY <1>2
  <2>3. clients' = [clients EXCEPT ![s] = [pc |-> p, left |-> clients[s].left]]  BY <2>1, <2>2
  <2>4. clients[s].pc # "served" /\ UNCHANGED <<main, server, tally, lost>>
    BY <1>4 DEF Arrive, Send, Refuse
  <2> QED  BY <1>1, <2>1, <2>3, <2>4, QuietThread
<1>5. CASE Raised(s)
  <2>1. /\ clients' = [clients EXCEPT ![s] = [pc |-> "idle", left |-> clients[s].left - 1]]
        /\ clients[s].pc # "served" /\ clients[s].left > 0
    BY <1>2, <1>5 DEF Raised
  <2>2. UNCHANGED <<main, server>> /\ (lost' = lost \/ lost' = lost + 1)
        /\ tally' = [tally EXCEPT !.errors = @ + 1]
    BY <1>5 DEF Raised
  <2>3. tally'.ok = tally.ok /\ tally'.errors = tally.errors + 1  BY <2>2 DEF Shapes
  <2>4. SameCell /\ Items' = Items /\ Graphs' = Graphs  BY <2>2 DEF SameCell, Items, Graphs
  <2>5. Cardinality(Pending') = Cardinality(Pending) - 1 /\ Cardinality(Served') = Cardinality(Served)
    <3>1. /\ Cardinality(Pending') = Cardinality(Pending) - 1
          /\ Cardinality(Served') = Cardinality(Served) - (IF clients[s].pc = "served" THEN 1 ELSE 0)
      BY <1>1, <2>1, <2>2, EndedThread
    <3>2. Cardinality(Served') = Cardinality(Served) - 0  BY <3>1, <2>1
    <3>3. Cardinality(Served) \in Nat  BY <1>1, Finite
    <3> QED  BY <3>1, <3>2, <3>3
  <2>6. Balanced(tally.ok, tally.errors + 1, Cardinality(Pending) - 1, Cardinality(Served),
                 Items, lost', Graphs)
    BY <1>1, <1>3, <2>2, CountsType DEF Balanced
  <2> QED  BY <2>3, <2>4, <2>5, <2>6, WindowIsBalance
<1>6. CASE Answered(s)
  <2>1. /\ clients' = [clients EXCEPT ![s] = [pc |-> "idle", left |-> clients[s].left - 1]]
        /\ clients[s].pc = "served" /\ clients[s].left > 0
    BY <1>2, <1>6 DEF Answered
  <2>2. UNCHANGED <<main, server, lost>> /\ tally' = [tally EXCEPT !.ok = @ + 1]
    BY <1>6 DEF Answered
  <2>3. tally'.ok = tally.ok + 1 /\ tally'.errors = tally.errors  BY <2>2 DEF Shapes
  <2>4. SameCell /\ Items' = Items /\ Graphs' = Graphs  BY <2>2 DEF SameCell, Items, Graphs
  <2>5. Cardinality(Pending') = Cardinality(Pending) - 1 /\ Cardinality(Served') = Cardinality(Served) - 1
    BY <1>1, <2>1, <2>2, EndedThread
  <2>6. Balanced(tally.ok + 1, tally.errors, Cardinality(Pending) - 1, Cardinality(Served) - 1,
                 Items, lost, Graphs)
    BY <1>1, <1>3, CountsType DEF Balanced
  <2> QED  BY <2>2, <2>3, <2>4, <2>5, <2>6, WindowIsBalance
<1> QED  BY <1>4, <1>5, <1>6 DEF ThreadStep

\* What the other steps of the main thread leave is not a window.
LEMMA MainKeepsWindow ==
  ASSUME Shapes, Places, Threads, Window, MainStep
  PROVE  Window'
<1> DEFINE Closed == main'.pc \notin {"barrier", "join", "counters"}
<1>1. Closed => Window'  BY DEF Window
<1>2. \A p, t, l, r, b : Moved(p, t, l, r, b) => main'.pc = p  BY DEF Moved
<1>3. CASE Begin  BY <1>1, <1>3 DEF Begin
<1>4. CASE SkipSweep \/ NextSweep \/ EndSweep \/ ((StartServer \/ Warm \/ ReadCounters) /\ Abandon)
  <2>1. main'.pc \in {"sweep", "cell"}  BY <1>2, <1>4, Moves
  <2> QED  BY <2>1, <1>1
<1>5. CASE (StartServer \/ Warm) /\ ~Abandon
  <2>1. main'.pc \in {"warm", "start"}  BY <1>2, <1>5, Moves
  <2> QED  BY <2>1, <1>1
<1>6. CASE ReadCounters /\ ~Abandon
  <2>1. main'.pc = "control"  BY <1>2, <1>6, RowIsAdded
  <2> QED  BY <2>1, <1>1
<1>7. CASE Control
  <2>1. main' = Off \/ main'.pc = "cell"  BY <1>2, <1>7, Moves
  <2> QED  BY <2>1, <1>1 DEF Off
<1>8. CASE Write  BY <1>1, <1>8 DEF Write, Off
<1> HIDE DEF Closed
<1> QED
  BY <1>3, <1>4, <1>5, <1>6, <1>7, <1>8, WindowOpens, ReleaseKeepsWindow, JoinKeepsWindow DEF MainStep

-----------------------------------------------------------------------------
(***************************************************************************)
(* The rows.  At the second reading no thread is left, so nothing is       *)
(* pending and nothing served waits: the window is the row.                *)
(***************************************************************************)
LEMMA RowIsRight ==
  ASSUME Shapes, Places, Threads, Window, main.pc = "counters"
  PROVE  RightRow(NewRow)
<1>1. Measuring /\ DOMAIN clients = {}  BY DEF Measuring, Threads
<1>2. Pending = {} /\ Served = {}  BY <1>1 DEF Pending, Served
<1>3. Cardinality(Pending) = 0 /\ Cardinality(Served) = 0  BY <1>2, FS_EmptySet
<1>4. Balanced(tally.ok, tally.errors, 0, 0, Items, lost, Graphs)  BY <1>1, <1>3, WindowIsBalance
<1>5. /\ NewRow.ok = tally.ok /\ NewRow.errors = tally.errors /\ NewRow.items = Items
      /\ NewRow.graphs = Graphs /\ NewRow.requests = Per(Cell.c) * Cell.c
      /\ NewRow.p50 = Percentile(tally.ok, 50) /\ NewRow.cell = Cell
  BY DEF NewRow
<1>6. Cell.maxBatch = Sweep.maxBatch  BY DEF Cell
<1>7. tally.ok > 0 => Percentile(tally.ok, 50) \in 1..tally.ok /\ 2 * Percentile(tally.ok, 50) >= tally.ok
  BY <1>1, CountsType, MedianRank
<1>8. /\ tally.ok + tally.errors = Per(Cell.c) * Cell.c
      /\ tally.ok <= Items /\ Items <= Per(Cell.c) * Cell.c
      /\ Graphs <= Items /\ Items <= Sweep.maxBatch * Graphs
  BY <1>1, <1>4, CountsType DEF Balanced
<1>9. NewRow.cell.maxBatch = Sweep.maxBatch  BY <1>5, <1>6
<1> HIDE DEF NewRow
<1> QED  BY <1>5, <1>7, <1>8, <1>9 DEF RightRow

LEMMA MainKeepsRows ==
  ASSUME Shapes, Places, Threads, Window, Rows, MainStep
  PROVE  Rows'
<1> DEFINE Good(R) == \A r \in R : RightRow(r)
<1>1. Good(results) /\ (main # Off => Good(main.rows))  BY DEF Rows
<1>2. Good(results') /\ (main' # Off => Good(main'.rows)) => Rows'  BY DEF Rows, RightRow
<1>3. \A p, t, l, r, b : Moved(p, t, l, r, b) => main'.rows = r  BY DEF Moved
<1>4. main.pc # "off" => main # Off  BY DEF Off
<1>5. CASE Begin  BY <1>2, <1>5 DEF Begin
<1>6. CASE SkipSweep \/ ((StartServer \/ Warm \/ ReadCounters) /\ Abandon) \/ StartThreads \/ Release \/ Join
  <2>1. results' = results /\ main # Off
    BY <1>6, <1>4, Zenon DEF SkipSweep, StartServer, Warm, ReadCounters, StartThreads, Release, Join
  <2>2. main'.rows = main.rows  BY <1>3, <1>6, Moves
  <2> QED  BY <2>1, <2>2, <1>1, <1>2
<1>7. CASE NextSweep
  <2>1. results' = results /\ main'.rows = {}  BY <1>7, <1>3, Moves DEF NextSweep
  <2> QED  BY <2>1, <1>1, <1>2
<1>8. CASE EndSweep
  <2>1. results' = results \cup main.rows /\ main # Off  BY <1>8, <1>4 DEF EndSweep
  <2>2. main'.rows = main.rows  BY <1>8, <1>3, Moves
  <2>3. Good(results \cup main.rows)  BY <1>1, <2>1
  <2> QED  BY <2>1, <2>2, <2>3, <1>1, <1>2
<1>9. CASE (StartServer \/ Warm) /\ ~Abandon
  <2>1. results' = results /\ main # Off  BY <1>9, <1>4, Zenon DEF StartServer, Warm
  <2>2. main'.rows = main.rows  BY <1>3, <1>9, Moves
  <2> QED  BY <2>1, <2>2, <1>1, <1>2
<1>10. CASE ReadCounters /\ ~Abandon
  <2>1. results' = results /\ main.pc = "counters" /\ main # Off
    BY <1>10, <1>4, Zenon DEF ReadCounters
  <2>2. main'.rows = main.rows \cup {NewRow}  BY <1>3, <1>10, RowIsAdded
  <2>3. RightRow(NewRow)  BY <2>1, RowIsRight
  <2>4. Good(main.rows \cup {NewRow})  BY <2>1, <2>3, <1>1
  <2> HIDE DEF Good
  <2> QED  BY <2>1, <2>2, <2>4, <1>1, <1>2
<1>11. CASE Control
  <2>1. results' = results /\ main # Off  BY <1>11, <1>4 DEF Control
  <2>2. main' = Off \/ main'.rows = main.rows  BY <1>3, <1>11, Moves
  <2> QED  BY <2>1, <2>2, <1>1, <1>2
<1>12. CASE Write
  <2>1. results' = results /\ main' = Off  BY <1>12 DEF Write
  <2> QED  BY <2>1, <1>1, <1>2
<1> QED  BY <1>5, <1>6, <1>7, <1>8, <1>9, <1>10, <1>11, <1>12 DEF MainStep

-----------------------------------------------------------------------------
(***************************************************************************)
(* The theorems.                                                           *)
(***************************************************************************)
LEMMA LoadStarts == LoadInit => LoadInv
<1> SUFFICES ASSUME LoadInit  PROVE LoadInv  OBVIOUS
<1> USE DEF LoadInit, Off, Down
<1>1. Shapes  BY DEF Shapes
<1>2. Places  BY DEF Places
<1>3. Threads  BY DEF Threads
<1>4. Window  BY DEF Window
<1>5. Rows  BY DEF Rows
<1> QED  BY <1>1, <1>2, <1>3, <1>4, <1>5 DEF LoadInv

LEMMA LoadStutters ==
  ASSUME LoadInv, UNCHANGED loadVars
  PROVE  LoadInv'
<1> USE DEF LoadInv, loadVars
<1>1. Cell' = Cell /\ Sweep' = Sweep  BY DEF Cell, Sweep
<1>2. Shapes'  BY DEF Shapes
<1>3. Places'  BY DEF Places
<1>4. Threads'  BY <1>1 DEF Threads
<1>5. Pending' = Pending /\ Served' = Served /\ Items' = Items /\ Graphs' = Graphs
  BY <1>1 DEF Pending, Served, Items, Graphs
<1>6. Window'  BY <1>1, <1>5 DEF Window
<1>7. Rows'  BY DEF Rows
<1> QED  BY <1>2, <1>3, <1>4, <1>6, <1>7

LEMMA LoadSteps == LoadInv /\ [LoadNext]_loadVars => LoadInv'
<1> SUFFICES ASSUME LoadInv, [LoadNext]_loadVars  PROVE LoadInv'  OBVIOUS
<1>1. Shapes /\ Places /\ Threads /\ Window /\ Rows  BY DEF LoadInv
<1>2. CASE MainStep
  <2>1. Shapes' /\ Places' /\ Threads'  BY <1>1, <1>2, MainKeepsShapes, MainKeepsPlaces
  <2>2. Window'  BY <1>1, <1>2, MainKeepsWindow
  <2>3. Rows'  BY <1>1, <1>2, MainKeepsRows
  <2> QED  BY <2>1, <2>2, <2>3 DEF LoadInv
<1>3. CASE (\E s \in DOMAIN clients : ThreadStep(s)) \/ Serve \/ Die
  <2>1. Shapes' /\ UNCHANGED <<main, results>>  BY <1>1, <1>3, OthersKeepShapes, ServeKeepsShapes
  <2>2. Places' /\ Threads'  BY <1>1, <1>3, OthersKeepPlaces
  <2>3. Window'
    <3>1. CASE \E s \in DOMAIN clients : ThreadStep(s)  BY <1>1, <3>1, ThreadKeepsWindow
    <3>2. CASE ~Measuring  BY <3>2, <2>1 DEF Window, Measuring
    <3>3. CASE Measuring /\ (Serve \/ Die)  BY <1>1, <3>3, ServeKeepsWindow, DieKeepsWindow
    <3> QED  BY <1>3, <3>1, <3>2, <3>3
  <2>4. Rows'  BY <1>1, <2>1 DEF Rows
  <2> QED  BY <2>1, <2>2, <2>3, <2>4 DEF LoadInv
<1>4. CASE UNCHANGED loadVars  BY <1>4, LoadStutters
<1>5. LoadNext => MainStep \/ (\E s \in DOMAIN clients : ThreadStep(s)) \/ Serve \/ Die
  BY DEF LoadNext, MainStep, ThreadStep
<1> QED  BY <1>2, <1>3, <1>4, <1>5

\* The counters, the tally and the requests on their way agree at every step
\* of a window, whatever dies, is refused or is given up (drive, run_cell).
THEOREM LoadInvHolds == LoadSpec => []LoadInv
<1>1. LoadInit => LoadInv  BY LoadStarts
<1>2. LoadInv /\ [LoadNext]_loadVars => LoadInv'  BY LoadSteps
<1> QED  BY <1>1, <1>2, PTL DEF LoadSpec

\* A row counts its own window and nothing else: every request it sent ended
\* once, the items of its graphs are those requests, no graph held more than
\* --max-batch, and its median is one of the answered (run_cell, percentile).
THEOREM RowsAreOwn == LoadSpec => []RowsCountTheirWindow
<1>1. LoadInv => RowsCountTheirWindow  BY DEF LoadInv, Rows, RightRow, RowsCountTheirWindow
<1> QED  BY <1>1, LoadInvHolds, PTL
=============================================================================
