----------------------------- MODULE ServeContract -----------------------------
(***************************************************************************)
(* What jepa-server promises a client, with no queue, no dispatcher and no *)
(* wakeups: an accepted request is split into items, each item is run once *)
(* in a batch one graph can take, by a worker that runs one batch at a     *)
(* time, and the request is answered when, and only when, every item has   *)
(* an outcome.  The process ends only when no request is open.             *)
(***************************************************************************)
EXTENDS Integers, FiniteSets

CONSTANTS Clients, Workers, Shapes, Rollout, MaxItems, MaxBatch, None

Items == Clients \X (1..MaxItems)

VARIABLES
    call,    \* "none", "received" or "open", for each client
    outcome, \* the answer to the client's last request
    form,    \* the form of each item of an open request
    status,  \* "none", "waiting", "running", "done" or "error"
    on,      \* the items each worker has not finished yet
    door     \* "open", "closing", "shut" or "gone"

contractVars == <<call, outcome, form, status, on, door>>

ContractInit ==
    /\ call = [c \in Clients |-> "none"]
    /\ outcome = [c \in Clients |-> "none"]
    /\ form = [t \in Items |-> None]
    /\ status = [t \in Items |-> "none"]
    /\ on = [w \in Workers |-> {}]
    /\ door = "open"

Receive(c) ==
    /\ call[c] = "none" /\ door \in {"open", "closing"}
    /\ call' = [call EXCEPT ![c] = "received"]
    /\ outcome' = [outcome EXCEPT ![c] = "none"]
    /\ UNCHANGED <<form, status, on, door>>

Refuse(c) ==
    /\ call[c] = "received"
    /\ call' = [call EXCEPT ![c] = "none"]
    /\ outcome' = [outcome EXCEPT ![c] = "refused"]
    /\ UNCHANGED <<form, status, on, door>>

\* A rollout is a request of its own; encode items may differ in shape.
Admit(c) ==
    /\ call[c] = "received"
    /\ call' = [call EXCEPT ![c] = "open"]
    /\ \E n \in 1..MaxItems :
         /\ form' \in [Items -> Shapes \cup {Rollout, None}]
         /\ \A t \in Items :
              IF t[1] = c /\ t[2] <= n
              THEN form'[t] \in Shapes \cup (IF n = 1 THEN {Rollout} ELSE {})
              ELSE form'[t] = form[t]
         /\ status' = [t \in Items |-> IF t[1] = c /\ t[2] <= n THEN "waiting" ELSE status[t]]
    /\ UNCHANGED <<outcome, on, door>>

\* Waiting items of one shape, or one rollout, start together on a free worker.
Start(w, B) ==
    /\ on[w] = {} /\ B # {}
    /\ \A t \in B : status[t] = "waiting"
    /\ Cardinality(B) <= MaxBatch
    /\ \A t, u \in B : t = u \/ (form[t] = form[u] /\ form[t] # Rollout)
    /\ on' = [on EXCEPT ![w] = B]
    /\ status' = [t \in Items |-> IF t \in B THEN "running" ELSE status[t]]
    /\ UNCHANGED <<call, outcome, form, door>>

Finish(w, t, r) ==
    /\ t \in on[w]
    /\ on' = [on EXCEPT ![w] = @ \ {t}]
    /\ status' = [status EXCEPT ![t] = r]
    /\ UNCHANGED <<call, outcome, form, door>>

\* One failed item fails the whole request.
Answer(c) ==
    LET mine == {t \in Items : t[1] = c /\ status[t] # "none"} IN
    /\ call[c] = "open"
    /\ \A t \in mine : status[t] \in {"done", "error"}
    /\ outcome' = [outcome EXCEPT ![c] =
                     IF \E t \in mine : status[t] = "error" THEN "failed" ELSE "ok"]
    /\ call' = [call EXCEPT ![c] = "none"]
    /\ form' = [t \in Items |-> IF t[1] = c THEN None ELSE form[t]]
    /\ status' = [t \in Items |-> IF t[1] = c THEN "none" ELSE status[t]]
    /\ UNCHANGED <<on, door>>

StartClosing == door = "open" /\ door' = "closing" /\ UNCHANGED <<call, outcome, form, status, on>>

Shut ==
    /\ door = "closing" /\ \A c \in Clients : call[c] = "none"
    /\ door' = "shut"
    /\ UNCHANGED <<call, outcome, form, status, on>>

Leave ==
    /\ door = "shut" /\ \A w \in Workers : on[w] = {}
    /\ door' = "gone"
    /\ UNCHANGED <<call, outcome, form, status, on>>

ContractNext ==
    \/ \E c \in Clients : Receive(c) \/ Refuse(c) \/ Admit(c) \/ Answer(c)
    \/ \E w \in Workers, B \in SUBSET Items : Start(w, B)
    \/ \E w \in Workers, t \in Items, r \in {"done", "error"} : Finish(w, t, r)
    \/ StartClosing \/ Shut \/ Leave

ContractSpec == ContractInit /\ [][ContractNext]_contractVars
=============================================================================
