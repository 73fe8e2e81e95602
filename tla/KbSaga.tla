------------------------------- MODULE KbSaga -------------------------------
(***************************************************************************)
(* What running a workflow promises, apart from how kbbi_run does it.      *)
(*                                                                         *)
(* A workflow is a tree of nodes.  A node begins when its parent reaches   *)
(* it, and finishes "ok" or "failed".  Jobs are a saga: they begin one     *)
(* after the other, each only after all the earlier ones finished "ok";    *)
(* when one fails, no later one begins, and the failed job and every       *)
(* earlier one are compensated, latest first, each once, before their      *)
(* parent finishes.  Handlers also begin one after the other, but all of   *)
(* them run whatever their outcomes; a node with one failed handler fails, *)
(* one with several may finish either way.                                 *)
(***************************************************************************)
EXTENDS Naturals, Sequences

CONSTANTS Node, Trees

VARIABLES
    tree,     \* the workflow: its root and, for each node, its handlers and jobs
    life,     \* life[n]: "idle", "active", "ok" or "failed"
    undone    \* undone[n]: how many jobs of n have been compensated

vars == <<tree, life, undone>>

Finished(n) == life[n] \in {"ok", "failed"}

(* The job at which the saga of n failed.                                  *)
FailedJob(n, i) == i \in DOMAIN tree.jobs[n] /\ life[tree.jobs[n][i]] = "failed"

Init ==
    /\ tree \in Trees
    /\ life = [n \in Node |-> "idle"]
    /\ undone = [n \in Node |-> 0]

MayBegin(n) ==
    \/ n = tree.root
    \/ \E p \in Node : life[p] = "active" /\
         \/ \E i \in DOMAIN tree.handlers[p] :
              /\ tree.handlers[p][i] = n
              /\ \A j \in 1..(i-1) : Finished(tree.handlers[p][j])
         \/ \E i \in DOMAIN tree.jobs[p] :
              /\ tree.jobs[p][i] = n
              /\ \A j \in 1..(i-1) : life[tree.jobs[p][j]] = "ok"

Begin(n) ==
    /\ life[n] = "idle"
    /\ MayBegin(n)
    /\ life' = [life EXCEPT ![n] = "active"]
    /\ UNCHANGED <<tree, undone>>

(* A node without handlers or jobs runs commands, which may end either way;   *)
(* the failures of several handlers may cancel each other out.                *)
Verdict(n) ==
    IF tree.handlers[n] # <<>>
    THEN LET failed == {i \in DOMAIN tree.handlers[n] : life[tree.handlers[n][i]] = "failed"}
         IN  IF failed = {} THEN {"ok"}
             ELSE IF \E i \in failed : failed = {i} THEN {"failed"} ELSE {"ok", "failed"}
    ELSE IF tree.jobs[n] # <<>>
         THEN IF \A i \in DOMAIN tree.jobs[n] : life[tree.jobs[n][i]] = "ok"
              THEN {"ok"} ELSE {"failed"}
         ELSE {"ok", "failed"}

Settled(n) ==
    IF tree.handlers[n] # <<>>
    THEN \A i \in DOMAIN tree.handlers[n] : Finished(tree.handlers[n][i])
    ELSE \/ \A i \in DOMAIN tree.jobs[n] : life[tree.jobs[n][i]] = "ok"
         \/ \E i \in DOMAIN tree.jobs[n] : FailedJob(n, i) /\ undone[n] = i

Finish(n) ==
    /\ life[n] = "active"
    /\ Settled(n)
    /\ \E v \in Verdict(n) : life' = [life EXCEPT ![n] = v]
    /\ UNCHANGED <<tree, undone>>

Compensate(n) ==
    /\ life[n] = "active"
    /\ \E i \in DOMAIN tree.jobs[n] : FailedJob(n, i) /\ undone[n] < i
    /\ undone' = [undone EXCEPT ![n] = @ + 1]
    /\ UNCHANGED <<tree, life>>

Next == \E n \in Node : Begin(n) \/ Finish(n) \/ Compensate(n)

Spec == Init /\ [][Next]_vars /\ WF_vars(Next)
=============================================================================
