------------------------------- MODULE KbRun -------------------------------
(***************************************************************************)
(* kbbi_run (src/kubeka/src/kbbi.c): the recursive execution of one         *)
(* instantiated workflow by one process, with the rollback of the jobs of a *)
(* node when one of them fails.                                            *)
(*                                                                         *)
(* kbnode_instantiate makes a fresh node for every reference, so an         *)
(* invocation of kbbi_run is identified by its node: the locals of that     *)
(* invocation are functions of the node, and the C call stack is the chain  *)
(* of nodes whose invocation has neither returned nor not begun.  Indices   *)
(* count from 1.  A status is what kbexec_shell returns: 0 for success.     *)
(***************************************************************************)
EXTENDS Integers, Sequences

CONSTANTS
    Node,      \* instantiated nodes
    Trees,     \* the workflows considered
    Statuses,  \* what a shell command may return
    IntMax,    \* the largest int
    BitOr(_, _)  \* a | b on ints

(* The values of an int, in two's complement.                               *)
Word == -(IntMax + 1)..IntMax

(* EXIT_FAILURE is an int.                                                  *)
ASSUME IntAssumption == IntMax \in Nat /\ IntMax >= 1

(* A status may be any int: -1 when pclose fails, or whatever bytes were     *)
(* last in the pipe when the child died.                                    *)
ASSUME StatusesAssumption == Statuses \subseteq Word /\ 0 \in Statuses

ASSUME BitOrAssumption ==
    \A a, b \in Word :
        /\ BitOr(a, b) \in Word
        /\ BitOr(a, b) = 0 <=> a = 0 /\ b = 0

(* [handlers, jobs] are the arrays of children kbnode_instantiate built;    *)
(* [exec, rollback] the numbers of non-empty EXEC[] and ROLLBACK[] values.   *)
Workflow == [root     : Node,
             handlers : [Node -> Seq(Node)],
             jobs     : [Node -> Seq(Node)],
             exec     : [Node -> Nat],
             rollback : [Node -> Nat]]

(* What instantiation guarantees: a node is a child at most once, the root  *)
(* is nobody's child.                                                       *)
SingleParent(t) ==
    /\ \A p, q \in Node :
         /\ \A i \in DOMAIN t.jobs[p], j \in DOMAIN t.jobs[q] :
              t.jobs[p][i] = t.jobs[q][j] => p = q /\ i = j
         /\ \A i \in DOMAIN t.handlers[p], j \in DOMAIN t.handlers[q] :
              t.handlers[p][i] = t.handlers[q][j] => p = q /\ i = j
         /\ \A i \in DOMAIN t.jobs[p], j \in DOMAIN t.handlers[q] :
              t.jobs[p][i] # t.handlers[q][j]
    /\ \A p \in Node :
         /\ \A i \in DOMAIN t.jobs[p] : t.jobs[p][i] # t.root
         /\ \A i \in DOMAIN t.handlers[p] : t.handlers[p][i] # t.root

ASSUME TreesAssumption == \A t \in Trees : t \in Workflow /\ SingleParent(t)

(* What the lint guarantees: a node that has commands has no jobs.          *)
ASSUME OneKindOfWork ==
    \A t \in Trees : \A n \in Node : t.exec[n] > 0 => t.jobs[n] = <<>>

VARIABLES
    tree,       \* the workflow being run
    pc,         \* pc[n]: where the invocation of kbbi_run on n is
    step,       \* step[n]: handlers, commands or jobs of n gone through
    ret,        \* ret[n]: the local ret of that invocation
    undo,       \* undo[n]: the job of n whose rollback is running
    act,        \* act[n]: rollback commands of that job already run
    nwarnings,  \* *nwarnings
    log         \* history: the commands run, in order

vars == <<tree, pc, step, ret, undo, act, nwarnings, log>>

Event == [op : {"exec", "rollback"}, node : Node, index : Nat, ok : BOOLEAN]

TypeOK ==
    /\ tree \in Trees
    /\ pc \in [Node -> {"idle", "handlers", "exec", "jobs", "rollback", "returned"}]
    /\ step \in [Node -> Nat]
    /\ ret \in [Node -> Word]
    /\ undo \in [Node -> Nat]
    /\ act \in [Node -> Nat]
    /\ nwarnings \in Nat
    /\ log \in Seq(Event)

Init ==
    /\ tree \in Trees
    /\ pc = [n \in Node |-> "idle"]
    /\ step = [n \in Node |-> 0]
    /\ ret = [n \in Node |-> 1]          \* EXIT_FAILURE
    /\ undo = [n \in Node |-> 0]
    /\ act = [n \in Node |-> 0]
    /\ nwarnings = 0
    /\ log = <<>>

(* The first kind of work the node has: handlers before commands before     *)
(* jobs.  A node with none of them goes through an empty list of jobs.       *)
FirstWork(n) ==
    IF tree.handlers[n] # <<>> THEN "handlers"
    ELSE IF tree.exec[n] > 0 THEN "exec" ELSE "jobs"

(* kbbi_run is entered on n, and collects the handlers of its signals.      *)
Invoke(n) ==
    /\ pc[n] = "idle"
    /\ pc' = [pc EXCEPT ![n] = FirstWork(n)]
    /\ ret' = [ret EXCEPT ![n] = 0]
    /\ UNCHANGED <<tree, step, undo, act, nwarnings, log>>

Launch == Invoke(tree.root)

CallHandler(n) ==
    /\ pc[n] = "handlers"
    /\ step[n] < Len(tree.handlers[n])
    /\ Invoke(tree.handlers[n][step[n] + 1])

(* Fault: a handler is only started, not waited for.                        *)
HandlerStarted(n) ==
    /\ pc[n] = "handlers"
    /\ step[n] < Len(tree.handlers[n])
    /\ pc[tree.handlers[n][step[n] + 1]] # "idle"
    /\ step' = [step EXCEPT ![n] = @ + 1]
    /\ UNCHANGED <<tree, pc, ret, undo, act, nwarnings, log>>

(* Fault: the sum is kept in something wider than an int.                     *)
WideSum(a, b) == a + b

(* a + b on ints, which wraps around as the build computes it.               *)
WrappedSum(a, b) ==
    IF a + b > IntMax THEN a + b - 2 * (IntMax + 1)
    ELSE IF a + b < -(IntMax + 1) THEN a + b + 2 * (IntMax + 1)
    ELSE a + b

(* Every handler runs, whatever the earlier ones returned, and the statuses  *)
(* are added up: those of several failed handlers may cancel out.            *)
HandlerReturned(n) ==
    /\ pc[n] = "handlers"
    /\ step[n] < Len(tree.handlers[n])
    /\ LET handler == tree.handlers[n][step[n] + 1]
       IN  /\ pc[handler] = "returned"
           /\ ret' = [ret EXCEPT ![n] = WrappedSum(@, ret[handler])]
    /\ step' = [step EXCEPT ![n] = @ + 1]
    /\ UNCHANGED <<tree, pc, undo, act, nwarnings, log>>

(* Fault: ret = status, so that only the last command counts.                *)
ExecCommandLast(n, status) ==
    /\ pc[n] = "exec"
    /\ step[n] < tree.exec[n]
    /\ ret' = [ret EXCEPT ![n] = status]
    /\ step' = [step EXCEPT ![n] = @ + 1]
    /\ log' = Append(log, [op |-> "exec", node |-> n,
                           index |-> step[n] + 1, ok |-> status = 0])
    /\ UNCHANGED <<tree, pc, undo, act, nwarnings>>

(* Every command runs, whatever the earlier ones returned.                  *)
ExecCommand(n, status) ==
    /\ pc[n] = "exec"
    /\ step[n] < tree.exec[n]
    /\ ret' = [ret EXCEPT ![n] = BitOr(@, status)]
    /\ step' = [step EXCEPT ![n] = @ + 1]
    /\ log' = Append(log, [op |-> "exec", node |-> n,
                           index |-> step[n] + 1, ok |-> status = 0])
    /\ UNCHANGED <<tree, pc, undo, act, nwarnings>>

CallJob(n) ==
    /\ pc[n] = "jobs"
    /\ step[n] < Len(tree.jobs[n])
    /\ Invoke(tree.jobs[n][step[n] + 1])

(* Fault: what the job returned is not looked at.                            *)
JobEnded(n) ==
    /\ pc[n] = "jobs"
    /\ step[n] < Len(tree.jobs[n])
    /\ pc[tree.jobs[n][step[n] + 1]] = "returned"
    /\ step' = [step EXCEPT ![n] = @ + 1]
    /\ UNCHANGED <<tree, pc, ret, undo, act, nwarnings, log>>

JobSucceeded(n) ==
    /\ pc[n] = "jobs"
    /\ step[n] < Len(tree.jobs[n])
    /\ LET job == tree.jobs[n][step[n] + 1]
       IN  pc[job] = "returned" /\ ret[job] = 0
    /\ step' = [step EXCEPT ![n] = @ + 1]
    /\ UNCHANGED <<tree, pc, ret, undo, act, nwarnings, log>>

(* What JobFailed does, with the job the rollback starts at and the status    *)
(* that is kept.                                                            *)
FailedJob(n, first, status) ==
    /\ pc[n] = "jobs"
    /\ step[n] < Len(tree.jobs[n])
    /\ pc[tree.jobs[n][step[n] + 1]] = "returned" /\ ret[tree.jobs[n][step[n] + 1]] # 0
    /\ ret' = [ret EXCEPT ![n] = status]
    /\ pc' = [pc EXCEPT ![n] = "rollback"]
    /\ undo' = [undo EXCEPT ![n] = first]
    /\ nwarnings' = nwarnings + 1
    /\ UNCHANGED <<tree, step, act, log>>

(* Faults: the failed job is not rolled back; the failure is forgotten.        *)
JobFailedSkipped(n) == FailedJob(n, step[n], 1)
JobFailedForgotten(n) == FailedJob(n, step[n] + 1, 0)

JobFailed(n) ==
    /\ pc[n] = "jobs"
    /\ step[n] < Len(tree.jobs[n])
    /\ LET job == tree.jobs[n][step[n] + 1]
       IN  /\ pc[job] = "returned" /\ ret[job] # 0
           /\ ret' = [ret EXCEPT ![n] = ret[job]]
    /\ pc' = [pc EXCEPT ![n] = "rollback"]
    /\ undo' = [undo EXCEPT ![n] = step[n] + 1]
    /\ nwarnings' = nwarnings + 1
    /\ UNCHANGED <<tree, step, act, log>>

(* Fault: the jobs are rolled back from the first to the failed one.         *)
RollbackCommandForwards(n, status) ==
    /\ pc[n] = "rollback"
    /\ undo[n] > 0
    /\ LET job  == tree.jobs[n][step[n] + 2 - undo[n]]
           last == act[n] + 1 = tree.rollback[job]
       IN  /\ act[n] < tree.rollback[job]
           /\ log' = Append(log, [op |-> "rollback", node |-> job,
                                  index |-> act[n] + 1, ok |-> status = 0])
           /\ act' = [act EXCEPT ![n] = IF last THEN 0 ELSE @ + 1]
           /\ undo' = [undo EXCEPT ![n] = IF last THEN @ - 1 ELSE @]
    /\ UNCHANGED <<tree, pc, step, ret, nwarnings>>

(* kbbi_rollback of job undo[n] runs its next command, and ignores how it    *)
(* ended; after the last one the job before is next.                        *)
RollbackCommand(n, status) ==
    /\ pc[n] = "rollback"
    /\ undo[n] > 0
    /\ LET job  == tree.jobs[n][undo[n]]
           last == act[n] + 1 = tree.rollback[job]
       IN  /\ act[n] < tree.rollback[job]
           /\ log' = Append(log, [op |-> "rollback", node |-> job,
                                  index |-> act[n] + 1, ok |-> status = 0])
           /\ act' = [act EXCEPT ![n] = IF last THEN 0 ELSE @ + 1]
           /\ undo' = [undo EXCEPT ![n] = IF last THEN @ - 1 ELSE @]
    /\ UNCHANGED <<tree, pc, step, ret, nwarnings>>

(* A job without rollback commands is only warned about.                    *)
RollbackMissing(n) ==
    /\ pc[n] = "rollback"
    /\ undo[n] > 0
    /\ tree.rollback[tree.jobs[n][undo[n]]] = 0
    /\ undo' = [undo EXCEPT ![n] = @ - 1]
    /\ nwarnings' = nwarnings + 1
    /\ UNCHANGED <<tree, pc, step, ret, act, log>>

Return(n) ==
    /\ \/ pc[n] = "handlers" /\ step[n] = Len(tree.handlers[n])
       \/ pc[n] = "exec" /\ step[n] = tree.exec[n]
       \/ pc[n] = "jobs" /\ step[n] = Len(tree.jobs[n])
       \/ pc[n] = "rollback" /\ undo[n] = 0
    /\ pc' = [pc EXCEPT ![n] = "returned"]
    /\ UNCHANGED <<tree, step, ret, undo, act, nwarnings, log>>

RunStep(n) ==
    \/ CallHandler(n)
    \/ HandlerReturned(n)
    \/ CallJob(n)
    \/ JobSucceeded(n)
    \/ JobFailed(n)
    \/ RollbackMissing(n)
    \/ Return(n)
    \/ \E status \in Statuses : ExecCommand(n, status) \/ RollbackCommand(n, status)

Next == Launch \/ \E n \in Node : RunStep(n)

(* Shell commands end, and the process keeps running.                       *)
Spec == Init /\ [][Next]_vars /\ WF_vars(Next)
-----------------------------------------------------------------------------
Returned(n) == pc[n] = "returned"
Failed(n) == Returned(n) /\ ret[n] # 0

(* A node that runs a command of its own, rolls back or has returned has     *)
(* nothing running below it: two commands of a workflow never overlap, and   *)
(* nothing of a job is still going on while its rollback runs.               *)
QuietBelow ==
    \A n \in Node : pc[n] \in {"idle", "exec", "rollback", "returned"} =>
        /\ \A i \in DOMAIN tree.jobs[n] : pc[tree.jobs[n][i]] \in {"idle", "returned"}
        /\ \A i \in DOMAIN tree.handlers[n] : pc[tree.handlers[n][i]] \in {"idle", "returned"}

(* No job is invoked unless all the jobs before it succeeded.               *)
StopsAtFailure ==
    \A n \in Node : \A j \in DOMAIN tree.jobs[n] :
        pc[tree.jobs[n][j]] # "idle" =>
            \A i \in 1..(j - 1) : pc[tree.jobs[n][i]] = "returned" /\ ret[tree.jobs[n][i]] = 0

(* Success is never reported over a failed command, a failed job or a single *)
(* failed handler: a node that returned 0 ran each of its commands, all with *)
(* status 0, or had all its jobs return 0, or had all its handlers return, of  *)
(* which none failed or several did, whose statuses cancelled out in the sum.  *)
SuccessIsTotal ==
    \A n \in Node : Returned(n) /\ ret[n] = 0 =>
        /\ \A i \in DOMAIN tree.handlers[n] :
             /\ Returned(tree.handlers[n][i])
             /\ Failed(tree.handlers[n][i]) =>
                  \E j \in DOMAIN tree.handlers[n] : j # i /\ Failed(tree.handlers[n][j])
        /\ tree.handlers[n] = <<>> =>
             /\ \A k \in 1..tree.exec[n] :
                  \E e \in DOMAIN log : log[e] = [op |-> "exec", node |-> n, index |-> k, ok |-> TRUE]
             /\ tree.exec[n] = 0 =>
                  \A i \in DOMAIN tree.jobs[n] :
                      Returned(tree.jobs[n][i]) /\ ret[tree.jobs[n][i]] = 0

(* Compensation happens in reverse: of any two rollback commands run for the *)
(* jobs of n, the earlier one belongs to a later job or is an earlier        *)
(* command of the same job; so none is ever run twice.                       *)
UndoInReverse ==
    \A n \in Node : \A i, j \in DOMAIN tree.jobs[n] : \A a, b \in DOMAIN log :
        /\ a < b
        /\ log[a].op = "rollback" /\ log[a].node = tree.jobs[n][i]
        /\ log[b].op = "rollback" /\ log[b].node = tree.jobs[n][j]
        => i > j \/ (i = j /\ log[a].index < log[b].index)

(* Rollback command k of a job has run.                                      *)
RolledBack(job, k) ==
    \E e \in DOMAIN log : log[e].op = "rollback" /\ log[e].node = job /\ log[e].index = k

(* A node whose job failed returns a failure, and only after every rollback  *)
(* command of that job and of all the jobs before it has run, even when some *)
(* of those commands failed; and a rollback command never touches a job        *)
(* unless it, or a later job of the same node, failed.                        *)
FailureIsCompensated ==
    /\ \A n \in Node : \A i \in DOMAIN tree.jobs[n] :
         pc[n] = "returned" /\ Failed(tree.jobs[n][i]) =>
             /\ ret[n] # 0
             /\ \A j \in 1..i : \A k \in 1..tree.rollback[tree.jobs[n][j]] :
                  RolledBack(tree.jobs[n][j], k)
    /\ \A n \in Node : \A e \in DOMAIN log : \A j \in DOMAIN tree.jobs[n] :
         log[e].op = "rollback" /\ log[e].node = tree.jobs[n][j] =>
             \E i \in DOMAIN tree.jobs[n] : i >= j /\ Failed(tree.jobs[n][i])

(* A node and its undoing, as KbSaga sees them.                              *)
Life(n) == IF pc[n] = "idle" THEN "idle"
           ELSE IF pc[n] # "returned" THEN "active"
           ELSE IF ret[n] = 0 THEN "ok" ELSE "failed"

Undone(n) == IF \E i \in DOMAIN tree.jobs[n] : Failed(tree.jobs[n][i]) /\ pc[n] \in {"rollback", "returned"}
             THEN step[n] + 1 - undo[n] ELSE 0

Saga == INSTANCE KbSaga WITH life <- [n \in Node |-> Life(n)],
                             undone <- [n \in Node |-> Undone(n)]

(* kbbi_run implements the saga: every run ends, and does so as KbSaga says.   *)
ImplementsSaga == Saga!Spec
=============================================================================
