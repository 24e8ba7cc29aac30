------------------------------- MODULE LoadTest -------------------------------
(* scripts/bench_server.py: for every --max-batch a sweep over concurrencies; *)
(* a cell starts a server of its own, warms it, drives it from `concurrency`  *)
(* threads between two readings of its counters, drives /health as a control  *)
(* and stops it.  The server (external) may die, a request may fail, and the  *)
(* client (python/src/jepa_cpp/client.py) may give one up that is answered    *)
(* all the same.                                                              *)
EXTENDS Integers, Sequences, FiniteSets

CONSTANTS Sweeps,    \* sequence of [section, maxBatch, cells]: cells a sequence of concurrencies
          Requests,  \* --requests
          Warmup,    \* --warmup
          MaxRuns,   \* bound on the runs of the script
          NoArtifact

ASSUME LoadTestAssumption ==
    /\ \A i \in DOMAIN Sweeps : Sweeps[i].maxBatch \in Nat /\ Sweeps[i].cells \in Seq(Nat \ {0})
    /\ Sweeps \in Seq({Sweeps[i] : i \in DOMAIN Sweeps})
    /\ Requests \in Nat /\ Warmup \in Nat /\ MaxRuns \in Nat

VARIABLES main,      \* the main thread
          server,    \* the child: [up, items, graphs], the counters of /metrics
          clients,   \* the threads of drive: slot -> [pc, left]
          tally,     \* what they appended: [ok, errors]
          lost,      \* requests given up that the server still has
          results,   \* the rows so far, `results` of main()
          artifact,  \* tests/results/server-bench.json
          runs

loadVars == <<main, server, clients, tally, lost, results, artifact, runs>>
Off == [pc |-> "off"]
Down == [up |-> FALSE, items |-> 0, graphs |-> 0]

LoadInit ==
    /\ main = Off /\ server = Down /\ clients = <<>> /\ tally = [ok |-> 0, errors |-> 0]
    /\ lost = 0 /\ results = {} /\ artifact = NoArtifact /\ runs = 0

Go(pc) == main' = [main EXCEPT !.pc = pc]
Sweep == Head(main.todo)
Cell == [section |-> Sweep.section, maxBatch |-> Sweep.maxBatch, c |-> Head(main.left)]
Per(c) == IF Requests \div c > 1 THEN Requests \div c ELSE 1

-----------------------------------------------------------------------------
(* The main thread                                                            *)

(* A run, with any of --skip-cpu, --skip-gpu and --skip-planner.              *)
Begin ==
    /\ main = Off /\ runs < MaxRuns
    /\ \E skip \in SUBSET {Sweeps[i].section : i \in DOMAIN Sweeps} :
          main' = [pc |-> "sweep", skip |-> skip, todo |-> Sweeps, left |-> <<>>, rows |-> {}, base |-> Down]
    /\ results' = {} /\ runs' = runs + 1
    /\ UNCHANGED <<server, clients, tally, lost, artifact>>

(* What is skipped has no rows.                                               *)
SkipSweep ==
    /\ main.pc = "sweep" /\ main.todo # <<>> /\ Sweep.section \in main.skip
    /\ main' = [main EXCEPT !.todo = Tail(@)]
    /\ UNCHANGED <<server, clients, tally, lost, results, artifact, runs>>
NextSweep ==
    /\ main.pc = "sweep" /\ main.todo # <<>> /\ Sweep.section \notin main.skip
    /\ main' = [main EXCEPT !.pc = "cell", !.left = Sweep.cells, !.rows = {}]
    /\ UNCHANGED <<server, clients, tally, lost, results, artifact, runs>>
(* results[...] += embed_sweep(...)                                           *)
EndSweep ==
    /\ main.pc = "cell" /\ main.left = <<>>
    /\ results' = results \cup main.rows
    /\ main' = [main EXCEPT !.pc = "sweep", !.todo = Tail(@)]
    /\ UNCHANGED <<server, clients, tally, lost, artifact, runs>>
(* An exception anywhere in embed_sweep ends it; __exit__ stops the server.   *)
Abandon ==
    /\ server' = Down /\ lost' = 0
    /\ main' = [main EXCEPT !.pc = "sweep", !.todo = Tail(@)]

StartServer ==
    /\ main.pc = "cell" /\ main.left # <<>>
    /\ \/ /\ server' = [Down EXCEPT !.up = TRUE]
          /\ Go("warm") /\ UNCHANGED lost
       \/ Abandon
    /\ UNCHANGED <<clients, tally, results, artifact, runs>>

\* Mutant: the counters are read before the warm-up.
Warm_CountsFirst ==
    /\ main.pc = "warm"
    /\ \/ /\ server.up
          /\ server' = [server EXCEPT !.items = @ + Warmup, !.graphs = @ + Warmup]
          /\ main' = [main EXCEPT !.pc = "start", !.base = server] /\ UNCHANGED lost
       \/ Abandon
    /\ UNCHANGED <<clients, tally, results, artifact, runs>>

(* The warm-up requests one by one, then batch_counters; any of them raises   *)
(* when it fails.                                                             *)
Warm ==
    /\ main.pc = "warm"
    /\ \/ /\ server.up
          /\ server' = [server EXCEPT !.items = @ + Warmup, !.graphs = @ + Warmup]
          /\ main' = [main EXCEPT !.pc = "start", !.base = server'] /\ UNCHANGED lost
       \/ Abandon
    /\ UNCHANGED <<clients, tally, results, artifact, runs>>

(* drive: the threads, then the barrier that main is one party of.            *)
StartThreads ==
    /\ main.pc = "start"
    /\ clients' = [s \in 1..Cell.c |-> [pc |-> "new", left |-> Per(Cell.c)]]
    /\ tally' = [ok |-> 0, errors |-> 0]
    /\ Go("barrier")
    /\ UNCHANGED <<server, lost, results, artifact, runs>>
Release ==
    /\ main.pc = "barrier"
    /\ \A s \in DOMAIN clients : clients[s].pc = "barrier"
    /\ clients' = [s \in DOMAIN clients |-> [clients[s] EXCEPT !.pc = "idle"]]
    /\ Go("join")
    /\ UNCHANGED <<server, tally, lost, results, artifact, runs>>
Join ==
    /\ main.pc = "join"
    /\ \A s \in DOMAIN clients : clients[s].left = 0 /\ clients[s].pc = "idle"
    /\ clients' = <<>>
    /\ Go("counters")
    /\ UNCHANGED <<server, tally, lost, results, artifact, runs>>

(* percentile: int(round(q / 100 * n + 0.5)), Python's round, at least 1.     *)
RoundHalfEven(num, den) ==
    LET q == num \div den
        twice == 2 * (num % den)
    IN  IF twice > den \/ (twice = den /\ q % 2 = 1) THEN q + 1 ELSE q

Percentile(n, q) ==
    LET k == RoundHalfEven(q * n + 50, 100)
    IN  IF k < 1 THEN 1 ELSE IF k > n THEN n ELSE k

(* batch_counters again, and the row of the window.                           *)
ReadCounters ==
    /\ main.pc = "counters"
    /\ \/ /\ server.up
          /\ main' = [main EXCEPT !.pc = "control", !.rows = @ \cup
                  {[cell |-> Cell, requests |-> Per(Cell.c) * Cell.c,
                    ok |-> tally.ok, errors |-> tally.errors, p50 |-> Percentile(tally.ok, 50),
                    items |-> server.items - main.base.items,
                    graphs |-> server.graphs - main.base.graphs]}]
          /\ UNCHANGED <<server, lost>>
       \/ Abandon
    /\ UNCHANGED <<clients, tally, results, artifact, runs>>

(* The /health control runs no graph and counts its own errors; then the row  *)
(* is printed, and Server.__exit__.  A median of None is a TypeError, which   *)
(* main() does not catch: the script ends with nothing written.               *)
Control ==
    /\ main.pc = "control"
    /\ server' = Down /\ lost' = 0
    /\ main' = IF tally.ok > 0 THEN [main EXCEPT !.pc = "cell", !.left = Tail(@)] ELSE Off
    /\ UNCHANGED <<clients, tally, results, artifact, runs>>

Write ==
    /\ main.pc = "sweep" /\ main.todo = <<>>
    /\ artifact' = results
    /\ main' = Off
    /\ UNCHANGED <<server, clients, tally, lost, results, runs>>

-----------------------------------------------------------------------------
(* The client threads                                                         *)

Set(s, pc) == clients' = [clients EXCEPT ![s].pc = pc]
Arrive(s) ==
    /\ clients[s].pc = "new"
    /\ Set(s, "barrier")
    /\ UNCHANGED <<main, server, tally, lost, results, artifact, runs>>
Send(s) ==
    /\ clients[s].pc = "idle" /\ clients[s].left > 0
    /\ Set(s, "sent")
    /\ UNCHANGED <<main, server, tally, lost, results, artifact, runs>>

(* The call raises: a ServerError, or the client stopped waiting for the      *)
(* answer of a request the server still works on.                             *)
Raised(s) ==
    /\ clients[s].pc \in {"sent", "refused"}
    /\ clients' = [clients EXCEPT ![s] = [pc |-> "idle", left |-> @.left - 1]]
    /\ tally' = [tally EXCEPT !.errors = @ + 1]
    /\ lost' = IF clients[s].pc = "sent" /\ server.up THEN lost + 1 ELSE lost
    /\ UNCHANGED <<main, server, results, artifact, runs>>
Answered(s) ==
    /\ clients[s].pc = "served"
    /\ clients' = [clients EXCEPT ![s] = [pc |-> "idle", left |-> @.left - 1]]
    /\ tally' = [tally EXCEPT !.ok = @ + 1]
    /\ UNCHANGED <<main, server, lost, results, artifact, runs>>

-----------------------------------------------------------------------------
(* The server: one graph over at most --max-batch requests, or a refusal.     *)

Serve ==
    /\ server.up
    /\ \E S \in SUBSET {s \in DOMAIN clients : clients[s].pc = "sent"}, k \in 0..lost :
          /\ Cardinality(S) + k \in 1..Sweep.maxBatch
          /\ clients' = [s \in DOMAIN clients |->
                            IF s \in S THEN [clients[s] EXCEPT !.pc = "served"] ELSE clients[s]]
          /\ server' = [server EXCEPT !.items = @ + Cardinality(S) + k, !.graphs = @ + 1]
          /\ lost' = lost - k
    /\ UNCHANGED <<main, tally, results, artifact, runs>>
Refuse(s) ==
    /\ clients[s].pc = "sent"
    /\ Set(s, "refused")
    /\ UNCHANGED <<main, server, tally, lost, results, artifact, runs>>
Die ==
    /\ server.up
    /\ server' = [server EXCEPT !.up = FALSE]
    /\ UNCHANGED <<main, clients, tally, lost, results, artifact, runs>>

LoadNext ==
    \/ Begin \/ SkipSweep \/ NextSweep \/ EndSweep \/ StartServer \/ Warm
    \/ StartThreads \/ Release \/ Join \/ ReadCounters \/ Control \/ Write
    \/ \E s \in DOMAIN clients : Arrive(s) \/ Send(s) \/ Raised(s) \/ Answered(s) \/ Refuse(s)
    \/ Serve \/ Die
LoadSpec == LoadInit /\ [][LoadNext]_loadVars

-----------------------------------------------------------------------------
(* A row counts its own window and nothing else: every request it sent ended  *)
(* once, the items of its graphs are those requests (neither the warm-up nor  *)
(* the control nor another cell's), and no graph held more than --max-batch.  *)
RowsCountTheirWindow ==
    \A r \in results \cup (IF main = Off THEN {} ELSE main.rows) :
        /\ r.ok + r.errors = r.requests
        /\ r.ok <= r.items /\ r.items <= r.requests
        /\ r.graphs <= r.items /\ r.items <= r.cell.maxBatch * r.graphs
        /\ r.ok > 0 => r.p50 \in 1..r.ok /\ 2 * r.p50 >= r.ok
=============================================================================
