---------------------------- MODULE KbRunProofs ----------------------------
(***************************************************************************)
(* Type correctness of KbRun, the order in which kbbi_run goes through the   *)
(* children of a node, and how a run ends, for every workflow: success is    *)
(* never reported over a failure, a failure is compensated in full and       *)
(* latest job first, and every step of kbbi_run is one the saga allows.     *)
(***************************************************************************)
EXTENDS KbRun, TLAPS

Jobs(n) == tree.jobs[n]
Handlers(n) == tree.handlers[n]

(* What step[n] says about the children of n, at each place of kbbi_run.     *)
Fresh(n) == pc[n] = "idle" => step[n] = 0

JobsNotBegun(n) ==
    pc[n] \in {"idle", "handlers", "exec"} =>
        \A j \in DOMAIN Jobs(n) : pc[Jobs(n)[j]] = "idle"

HandlersNotBegun(n) ==
    pc[n] \in {"idle", "exec", "jobs", "rollback"} =>
        \A j \in DOMAIN Handlers(n) : pc[Handlers(n)[j]] = "idle"

EarlierJobsDone(n) ==
    pc[n] \in {"jobs", "rollback"} =>
        \A j \in DOMAIN Jobs(n) : j <= step[n] =>
            pc[Jobs(n)[j]] = "returned" /\ ret[Jobs(n)[j]] = 0

LaterJobsIdle(n) ==
    pc[n] \in {"jobs", "rollback"} =>
        \A j \in DOMAIN Jobs(n) : j > step[n] + 1 => pc[Jobs(n)[j]] = "idle"

EarlierHandlersDone(n) ==
    pc[n] = "handlers" =>
        \A j \in DOMAIN Handlers(n) : j <= step[n] => pc[Handlers(n)[j]] = "returned"

LaterHandlersIdle(n) ==
    pc[n] = "handlers" =>
        \A j \in DOMAIN Handlers(n) : j > step[n] + 1 => pc[Handlers(n)[j]] = "idle"

RollbackAfterFailure(n) ==
    pc[n] = "rollback" => Failed(Jobs(n)[step[n] + 1])

UndoInRange(n) ==
    pc[n] = "rollback" => undo[n] <= step[n] + 1 /\ step[n] + 1 <= Len(Jobs(n))

QuietReturned(n) ==
    pc[n] = "returned" =>
        /\ \A j \in DOMAIN Jobs(n) : pc[Jobs(n)[j]] \in {"idle", "returned"}
        /\ \A j \in DOMAIN Handlers(n) : pc[Handlers(n)[j]] \in {"idle", "returned"}

(* No job of n is invoked unless all the jobs before it succeeded.          *)
InOrder(n) ==
    \A j \in DOMAIN Jobs(n) : pc[Jobs(n)[j]] # "idle" =>
        \A i \in DOMAIN Jobs(n) : i < j =>
            pc[Jobs(n)[i]] = "returned" /\ ret[Jobs(n)[i]] = 0

Order(n) ==
    /\ Fresh(n)
    /\ JobsNotBegun(n)
    /\ HandlersNotBegun(n)
    /\ EarlierJobsDone(n)
    /\ LaterJobsIdle(n)
    /\ EarlierHandlersDone(n)
    /\ LaterHandlersIdle(n)
    /\ RollbackAfterFailure(n)
    /\ UndoInRange(n)
    /\ QuietReturned(n)
    /\ InOrder(n)

Inv == TypeOK /\ \A n \in Node : Order(n)
-----------------------------------------------------------------------------
(* The facts about a workflow that the proofs use.                          *)
LEMMA WorkflowShape ==
    ASSUME NEW t \in Trees
    PROVE  /\ t.root \in Node
           /\ t.handlers \in [Node -> Seq(Node)]
           /\ t.jobs \in [Node -> Seq(Node)]
           /\ t.exec \in [Node -> Nat]
           /\ t.rollback \in [Node -> Nat]
           /\ SingleParent(t)
  BY TreesAssumption DEF Workflow

(* What kbbi_run does with ints yields ints, and adding 0 changes nothing.   *)
LEMMA WordFacts ==
    /\ 0 \in Word /\ 1 \in Word
    /\ Statuses \subseteq Word
    /\ \A a \in Word : a \in Int /\ WrappedSum(0, a) = a /\ WrappedSum(a, 0) = a
    /\ \A a, b \in Word : WrappedSum(a, b) \in Word /\ BitOr(a, b) \in Word
  <1>1. \A a : a \in Word <=> a \in Int /\ -(IntMax + 1) <= a /\ a <= IntMax
    BY IntAssumption DEF Word
  <1>2. 0 \in Word /\ 1 \in Word
    BY <1>1, IntAssumption
  <1>3. ASSUME NEW a \in Word
        PROVE  a \in Int /\ WrappedSum(0, a) = a /\ WrappedSum(a, 0) = a
    BY <1>1, IntAssumption DEF WrappedSum
  <1>4. ASSUME NEW a \in Word, NEW b \in Word PROVE WrappedSum(a, b) \in Word
    BY <1>1, IntAssumption DEF WrappedSum
  <1>5. \A a, b \in Word : BitOr(a, b) \in Word
    BY BitOrAssumption, Zenon
  <1>6. Statuses \subseteq Word
    BY StatusesAssumption
  <1>. QED  BY <1>2, <1>3, <1>4, <1>5, <1>6, Zenon

(* A child of a node is a node.                                             *)
LEMMA ChildIsNode ==
    ASSUME TypeOK, NEW n \in Node
    PROVE  /\ Jobs(n) \in Seq(Node)
           /\ Handlers(n) \in Seq(Node)
           /\ \A j \in DOMAIN Jobs(n) : Jobs(n)[j] \in Node
           /\ \A j \in DOMAIN Handlers(n) : Handlers(n)[j] \in Node
           /\ \A j \in 1..Len(Jobs(n)) : j \in DOMAIN Jobs(n)
           /\ \A j \in 1..Len(Handlers(n)) : j \in DOMAIN Handlers(n)
  <1>1. Jobs(n) \in Seq(Node) /\ Handlers(n) \in Seq(Node)
    BY WorkflowShape DEF TypeOK, Jobs, Handlers
  <1>. QED  BY <1>1

(* Invoking a node keeps the types.                                         *)
LEMMA InvokeType ==
    ASSUME TypeOK, NEW n \in Node, Invoke(n)
    PROVE  TypeOK'
  BY WordFacts DEF TypeOK, Invoke, FirstWork

(* The job being rolled back is a job.                                      *)
LEMMA UndoneJobIsNode ==
    ASSUME TypeOK, NEW n \in Node, UndoInRange(n), pc[n] = "rollback", undo[n] > 0
    PROVE  undo[n] \in DOMAIN Jobs(n) /\ Jobs(n)[undo[n]] \in Node
  <1>1. undo[n] \in Nat /\ step[n] \in Nat
    BY DEF TypeOK
  <1>2. undo[n] <= step[n] + 1 /\ step[n] + 1 <= Len(Jobs(n))
    BY DEF UndoInRange
  <1>3. Jobs(n) \in Seq(Node)
    BY ChildIsNode
  <1>4. undo[n] \in 1..Len(Jobs(n))
    BY <1>1, <1>2, <1>3
  <1>. QED  BY <1>3, <1>4

(* What a call does: it invokes the child the step counter points at.       *)
LEMMA CallJobInvokes ==
    ASSUME TypeOK, NEW n \in Node, CallJob(n)
    PROVE  /\ step[n] + 1 \in DOMAIN Jobs(n)
           /\ Jobs(n)[step[n] + 1] \in Node
           /\ Invoke(Jobs(n)[step[n] + 1])
  <1>1. step[n] \in Nat
    BY DEF TypeOK
  <1>2. Jobs(n) \in Seq(Node)
    BY ChildIsNode
  <1>3. step[n] < Len(Jobs(n)) /\ Invoke(Jobs(n)[step[n] + 1])
    BY DEF CallJob, Jobs
  <1>4. step[n] + 1 \in DOMAIN Jobs(n)
    BY <1>1, <1>2, <1>3
  <1>. QED  BY <1>3, <1>4, ChildIsNode

LEMMA CallHandlerInvokes ==
    ASSUME TypeOK, NEW n \in Node, CallHandler(n)
    PROVE  /\ step[n] + 1 \in DOMAIN Handlers(n)
           /\ Handlers(n)[step[n] + 1] \in Node
           /\ Invoke(Handlers(n)[step[n] + 1])
  <1>1. step[n] \in Nat
    BY DEF TypeOK
  <1>2. Handlers(n) \in Seq(Node)
    BY ChildIsNode
  <1>3. step[n] < Len(Handlers(n)) /\ Invoke(Handlers(n)[step[n] + 1])
    BY DEF CallHandler, Handlers
  <1>4. step[n] + 1 \in DOMAIN Handlers(n)
    BY <1>1, <1>2, <1>3
  <1>. QED  BY <1>3, <1>4, ChildIsNode

LEMMA TypeStep == TypeOK /\ (\A n \in Node : UndoInRange(n)) /\ [Next]_vars => TypeOK'
  <1>. SUFFICES ASSUME TypeOK, \A n \in Node : UndoInRange(n), [Next]_vars PROVE TypeOK'
    OBVIOUS
  <1>1. CASE Launch
    BY <1>1, WorkflowShape, InvokeType DEF Launch, TypeOK
  <1>2. ASSUME NEW n \in Node, CallHandler(n) PROVE TypeOK'
    BY <1>2, CallHandlerInvokes, InvokeType
  <1>3. ASSUME NEW n \in Node, CallJob(n) PROVE TypeOK'
    BY <1>3, CallJobInvokes, InvokeType
  <1>4. ASSUME NEW n \in Node, HandlerReturned(n) PROVE TypeOK'
    <2>1. step[n] + 1 \in DOMAIN Handlers(n)
      BY <1>4, ChildIsNode DEF HandlerReturned, TypeOK, Handlers
    <2>2. ret[Handlers(n)[step[n] + 1]] \in Word
      BY <2>1, ChildIsNode DEF TypeOK
    <2>3. ret[n] \in Word
      BY DEF TypeOK
    <2>4. ret' = [ret EXCEPT ![n] = WrappedSum(ret[n], ret[Handlers(n)[step[n] + 1]])]
      BY <1>4 DEF HandlerReturned, Handlers
    <2>5. ret' \in [Node -> Word]
      BY <2>2, <2>3, <2>4, WordFacts DEF TypeOK
    <2>. QED  BY <1>4, <2>5 DEF HandlerReturned, TypeOK
  <1>5. ASSUME NEW n \in Node, JobSucceeded(n) PROVE TypeOK'
    <2>1. /\ step' = [step EXCEPT ![n] = step[n] + 1]
          /\ UNCHANGED <<tree, pc, ret, undo, act, nwarnings, log>>
      BY <1>5 DEF JobSucceeded
    <2>2. step[n] + 1 \in Nat
      BY DEF TypeOK
    <2>. QED  BY <2>1, <2>2 DEF TypeOK
  <1>6. ASSUME NEW n \in Node, JobFailed(n) PROVE TypeOK'
    <2>1. step[n] + 1 \in DOMAIN Jobs(n)
      BY <1>6, ChildIsNode DEF JobFailed, TypeOK, Jobs
    <2>2. ret[Jobs(n)[step[n] + 1]] \in Word
      BY <2>1, ChildIsNode DEF TypeOK
    <2>3. /\ pc' = [pc EXCEPT ![n] = "rollback"]
          /\ ret' = [ret EXCEPT ![n] = ret[Jobs(n)[step[n] + 1]]]
          /\ undo' = [undo EXCEPT ![n] = step[n] + 1]
          /\ nwarnings' = nwarnings + 1
          /\ UNCHANGED <<tree, step, act, log>>
      BY <1>6 DEF JobFailed, Jobs
    <2>4. ret' \in [Node -> Word]
      BY <2>2, <2>3 DEF TypeOK
    <2>5. step[n] + 1 \in Nat
      BY DEF TypeOK
    <2>6. undo' \in [Node -> Nat] /\ nwarnings' \in Nat
      BY <2>3, <2>5 DEF TypeOK
    <2>. QED  BY <2>3, <2>4, <2>6 DEF TypeOK
  <1>7. ASSUME NEW n \in Node, RollbackMissing(n) PROVE TypeOK'
    BY <1>7 DEF RollbackMissing, TypeOK
  <1>8. ASSUME NEW n \in Node, Return(n) PROVE TypeOK'
    BY <1>8 DEF Return, TypeOK
  <1>9. ASSUME NEW n \in Node, NEW status \in Statuses, ExecCommand(n, status)
        PROVE TypeOK'
    <2>1. [op |-> "exec", node |-> n, index |-> step[n] + 1, ok |-> (status = 0)] \in Event
      BY DEF TypeOK, Event
    <2>2. log' \in Seq(Event)
      BY <1>9, <2>1 DEF ExecCommand, TypeOK
    <2>3. ret' \in [Node -> Word]
      BY <1>9, WordFacts DEF ExecCommand, TypeOK
    <2>. QED  BY <1>9, <2>2, <2>3 DEF ExecCommand, TypeOK
  <1>10. ASSUME NEW n \in Node, NEW status \in Statuses, RollbackCommand(n, status)
         PROVE TypeOK'
    <2>. DEFINE job == Jobs(n)[undo[n]]
    <2>1. undo[n] \in Nat /\ act[n] \in Nat
      BY DEF TypeOK
    <2>2. job \in Node
      BY <1>10, UndoneJobIsNode DEF RollbackCommand
    <2>3. [op |-> "rollback", node |-> job, index |-> act[n] + 1, ok |-> (status = 0)] \in Event
      BY <2>1, <2>2 DEF Event
    <2>4. log' \in Seq(Event)
      BY <1>10, <2>3 DEF RollbackCommand, TypeOK, Jobs
    <2>. QED  BY <1>10, <2>4 DEF RollbackCommand, TypeOK
  <1>11. CASE UNCHANGED vars
    BY <1>11 DEF vars, TypeOK
  <1>. QED
    BY <1>1, <1>2, <1>3, <1>4, <1>5, <1>6, <1>7, <1>8, <1>9, <1>10, <1>11
       DEF Next, RunStep

-----------------------------------------------------------------------------
(* Invoking a node the callers' step counters point at keeps the order.     *)
LEMMA InvokeOrder ==
    ASSUME Inv, NEW m \in Node, Invoke(m),
           \A n \in Node : \A j \in DOMAIN Jobs(n) :
               Jobs(n)[j] = m => pc[n] = "jobs" /\ j = step[n] + 1,
           \A n \in Node : \A j \in DOMAIN Handlers(n) :
               Handlers(n)[j] = m => pc[n] = "handlers" /\ j = step[n] + 1
    PROVE  Inv'
  <1>. DEFINE w == FirstWork(m)
  <1>1. /\ pc[m] = "idle"
        /\ w \in {"handlers", "exec", "jobs"}
        /\ pc' = [pc EXCEPT ![m] = w]
        /\ ret' = [ret EXCEPT ![m] = 0]
        /\ UNCHANGED <<tree, step, undo>>
    BY DEF Invoke, FirstWork
  <1>2. /\ pc \in [Node -> {"idle", "handlers", "exec", "jobs", "rollback", "returned"}]
        /\ step \in [Node -> Nat]
        /\ ret \in [Node -> Word]
    BY DEF Inv, TypeOK
  <1>. HIDE DEF w
  <1>3. TypeOK'
    BY InvokeType DEF Inv
  <1>4. ASSUME NEW n \in Node PROVE Order(n)'
    <2>1. /\ Jobs(n)' = Jobs(n) /\ Handlers(n)' = Handlers(n)
          /\ \A j \in DOMAIN Jobs(n) : Jobs(n)[j] \in Node /\ j \in Nat /\ j >= 1
          /\ \A j \in DOMAIN Handlers(n) : Handlers(n)[j] \in Node /\ j \in Nat /\ j >= 1
      BY <1>1, ChildIsNode DEF Inv, Jobs, Handlers
    <2>2. Order(n)
      BY DEF Inv
    <2>3. Fresh(n)'
      BY <1>1, <1>2, <2>2 DEF Order, Fresh
    <2>4. JobsNotBegun(n)'
      BY <1>1, <1>2, <2>1, <2>2 DEF Order, JobsNotBegun
    <2>5. HandlersNotBegun(n)'
      BY <1>1, <1>2, <2>1, <2>2 DEF Order, HandlersNotBegun
    <2>6. EarlierJobsDone(n)'
      BY <1>1, <1>2, <2>1, <2>2 DEF Order, EarlierJobsDone, Fresh
    <2>7. LaterJobsIdle(n)'
      BY <1>1, <1>2, <2>1, <2>2 DEF Order, LaterJobsIdle, JobsNotBegun
    <2>8. EarlierHandlersDone(n)'
      BY <1>1, <1>2, <2>1, <2>2 DEF Order, EarlierHandlersDone, Fresh
    <2>9. LaterHandlersIdle(n)'
      BY <1>1, <1>2, <2>1, <2>2 DEF Order, LaterHandlersIdle, HandlersNotBegun
    <2>10. RollbackAfterFailure(n)'
      BY <1>1, <1>2, <2>1, <2>2 DEF Order, RollbackAfterFailure, UndoInRange, Failed, Returned
    <2>11. UndoInRange(n)'
      BY <1>1, <1>2, <2>1, <2>2 DEF Order, UndoInRange
    <2>12. QuietReturned(n)'
      BY <1>1, <1>2, <2>1, <2>2 DEF Order, QuietReturned
    <2>13. InOrder(n)'
      BY <1>1, <1>2, <2>1, <2>2 DEF Order, InOrder, EarlierJobsDone
    <2>. QED
      BY <2>3, <2>4, <2>5, <2>6, <2>7, <2>8, <2>9, <2>10, <2>11, <2>12, <2>13 DEF Order
  <1>. QED  BY <1>3, <1>4 DEF Inv

(* A step of a running node m that invokes nothing keeps the order, if it    *)
(* keeps it at m: what any other node knows about m is that it is running.  *)
LEMMA LocalStepOrder ==
    ASSUME Inv, TypeOK', NEW m \in Node, Order(m)',
           pc[m] \notin {"idle", "returned"}, pc'[m] # "idle",
           tree' = tree,
           \A n \in Node : n # m => /\ pc'[n] = pc[n] /\ step'[n] = step[n]
                                    /\ ret'[n] = ret[n] /\ undo'[n] = undo[n]
    PROVE  Inv'
  <1>1. ASSUME NEW n \in Node, n # m PROVE Order(n)'
    <2>1. /\ Jobs(n)' = Jobs(n) /\ Handlers(n)' = Handlers(n)
          /\ \A j \in DOMAIN Jobs(n) : Jobs(n)[j] \in Node /\ j \in Nat
          /\ \A j \in DOMAIN Handlers(n) : Handlers(n)[j] \in Node /\ j \in Nat
      BY ChildIsNode DEF Inv, Jobs, Handlers
    <2>2. Order(n) /\ step[n] \in Nat
      BY DEF Inv, TypeOK
    <2>3. /\ pc'[n] = pc[n] /\ step'[n] = step[n]
          /\ ret'[n] = ret[n] /\ undo'[n] = undo[n]
      BY <1>1
    <2>4. Fresh(n)' /\ UndoInRange(n)'
      BY <2>1, <2>2, <2>3 DEF Order, Fresh, UndoInRange
    <2>5. JobsNotBegun(n)'
      BY <2>1, <2>2, <2>3 DEF Order, JobsNotBegun
    <2>6. HandlersNotBegun(n)'
      BY <2>1, <2>2, <2>3 DEF Order, HandlersNotBegun
    <2>7. EarlierJobsDone(n)'
      BY <2>1, <2>2, <2>3 DEF Order, EarlierJobsDone
    <2>8. LaterJobsIdle(n)'
      BY <2>1, <2>2, <2>3 DEF Order, LaterJobsIdle
    <2>9. EarlierHandlersDone(n)'
      BY <2>1, <2>2, <2>3 DEF Order, EarlierHandlersDone
    <2>10. LaterHandlersIdle(n)'
      BY <2>1, <2>2, <2>3 DEF Order, LaterHandlersIdle
    <2>11. RollbackAfterFailure(n)'
      <3>. SUFFICES ASSUME pc[n] = "rollback" PROVE Failed(Jobs(n)[step[n] + 1])'
        BY <2>3 DEF RollbackAfterFailure
      <3>1. step[n] + 1 \in DOMAIN Jobs(n)
        BY <2>2, ChildIsNode DEF Inv, Order, UndoInRange
      <3>2. Failed(Jobs(n)[step[n] + 1])
        BY <2>2 DEF Order, RollbackAfterFailure
      <3>. QED  BY <2>1, <2>3, <3>1, <3>2 DEF Failed, Returned
    <2>12. QuietReturned(n)'
      BY <2>1, <2>2, <2>3 DEF Order, QuietReturned
    <2>13. InOrder(n)'
      BY <2>1, <2>2, <2>3 DEF Order, InOrder
    <2>. QED
      BY <2>4, <2>5, <2>6, <2>7, <2>8, <2>9, <2>10, <2>11, <2>12, <2>13 DEF Order
  <1>. QED  BY <1>1 DEF Inv

-----------------------------------------------------------------------------
(* The caller of a child is the node it is a child of.                      *)
LEMMA CallOrder ==
    ASSUME Inv, NEW n \in Node, CallJob(n) \/ CallHandler(n)
    PROVE  Inv'
  <1>1. SingleParent(tree)
    BY WorkflowShape DEF Inv, TypeOK
  <1>2. CASE CallJob(n)
    <2>. DEFINE m == Jobs(n)[step[n] + 1]
    <2>1. m \in Node /\ Invoke(m) /\ step[n] + 1 \in DOMAIN Jobs(n) /\ pc[n] = "jobs"
      BY <1>2, CallJobInvokes DEF Inv, CallJob
    <2>2. \A p \in Node : \A j \in DOMAIN Jobs(p) : Jobs(p)[j] = m => p = n /\ j = step[n] + 1
      BY <1>1, <2>1 DEF SingleParent, Jobs
    <2>3. \A p \in Node : \A j \in DOMAIN Handlers(p) : Handlers(p)[j] # m
      BY <1>1, <2>1 DEF SingleParent, Jobs, Handlers
    <2>. QED  BY <2>1, <2>2, <2>3, InvokeOrder
  <1>3. CASE CallHandler(n)
    <2>. DEFINE m == Handlers(n)[step[n] + 1]
    <2>1. m \in Node /\ Invoke(m) /\ step[n] + 1 \in DOMAIN Handlers(n) /\ pc[n] = "handlers"
      BY <1>3, CallHandlerInvokes DEF Inv, CallHandler
    <2>2. \A p \in Node : \A j \in DOMAIN Handlers(p) : Handlers(p)[j] = m => p = n /\ j = step[n] + 1
      BY <1>1, <2>1 DEF SingleParent, Handlers
    <2>3. \A p \in Node : \A j \in DOMAIN Jobs(p) : Jobs(p)[j] # m
      BY <1>1, <2>1 DEF SingleParent, Jobs, Handlers
    <2>. QED  BY <2>1, <2>2, <2>3, InvokeOrder
  <1>. QED  BY <1>2, <1>3

LEMMA LaunchOrder ==
    ASSUME Inv, Launch
    PROVE  Inv'
  <1>1. SingleParent(tree) /\ tree.root \in Node
    BY WorkflowShape DEF Inv, TypeOK
  <1>2. \A n \in Node : /\ \A j \in DOMAIN Jobs(n) : Jobs(n)[j] # tree.root
                        /\ \A j \in DOMAIN Handlers(n) : Handlers(n)[j] # tree.root
    BY <1>1 DEF SingleParent, Jobs, Handlers
  <1>. QED  BY <1>1, <1>2, InvokeOrder DEF Launch

LEMMA InvInit == Init => Inv
  <1>. SUFFICES ASSUME Init PROVE Inv
    OBVIOUS
  <1>1. TypeOK
    BY WordFacts DEF Init, TypeOK
  <1>2. ASSUME NEW n \in Node PROVE Order(n)
    <2>1. /\ pc[n] = "idle" /\ step[n] = 0
          /\ \A j \in DOMAIN Jobs(n) : pc[Jobs(n)[j]] = "idle"
          /\ \A j \in DOMAIN Handlers(n) : pc[Handlers(n)[j]] = "idle"
      BY <1>1, ChildIsNode DEF Init
    <2>. QED
      BY <2>1 DEF Order, Fresh, JobsNotBegun, HandlersNotBegun, EarlierJobsDone, LaterJobsIdle,
         EarlierHandlersDone, LaterHandlersIdle, RollbackAfterFailure, UndoInRange,
         QuietReturned, InOrder
  <1>. QED  BY <1>1, <1>2 DEF Inv

LEMMA InvStep == Inv /\ [Next]_vars => Inv'
  <1>. SUFFICES ASSUME Inv, [Next]_vars PROVE Inv'
    OBVIOUS
  <1>t. TypeOK'
    BY TypeStep DEF Inv, Order
  <1>a. /\ pc \in [Node -> {"idle", "handlers", "exec", "jobs", "rollback", "returned"}]
        /\ step \in [Node -> Nat]
        /\ ret \in [Node -> Word]
        /\ undo \in [Node -> Nat]
    BY DEF Inv, TypeOK
  <1>b. \A n \in Node :
          /\ Order(n)
          /\ Len(Jobs(n)) \in Nat /\ Len(Handlers(n)) \in Nat
          /\ \A j \in DOMAIN Jobs(n) : Jobs(n)[j] \in Node /\ j \in Nat /\ 1 <= j /\ j <= Len(Jobs(n))
          /\ \A j \in DOMAIN Handlers(n) : Handlers(n)[j] \in Node /\ j \in Nat /\ 1 <= j /\ j <= Len(Handlers(n))
          /\ \A j \in Nat : 1 <= j /\ j <= Len(Jobs(n)) => j \in DOMAIN Jobs(n)
          /\ \A j \in Nat : 1 <= j /\ j <= Len(Handlers(n)) => j \in DOMAIN Handlers(n)
    BY ChildIsNode DEF Inv
  <1>c. tree' = tree => \A n \in Node : Jobs(n)' = Jobs(n) /\ Handlers(n)' = Handlers(n)
    BY DEF Jobs, Handlers
  <1>1. ASSUME NEW m \in Node, HandlerReturned(m)
        PROVE  Inv'
    <2>1. /\ pc[m] = "handlers" /\ step[m] < Len(Handlers(m))
          /\ pc[Handlers(m)[step[m] + 1]] = "returned"
          /\ step' = [step EXCEPT ![m] = step[m] + 1]
          /\ ret' = [ret EXCEPT ![m] = WrappedSum(ret[m], ret[Handlers(m)[step[m] + 1]])]
          /\ UNCHANGED <<tree, pc, undo>>
      BY <1>1, <1>a DEF HandlerReturned, Handlers
    <2>2. Jobs(m)' = Jobs(m) /\ Handlers(m)' = Handlers(m)
      BY <2>1, <1>c
    <2>3. EarlierHandlersDone(m)'
      BY <2>1, <2>2, <1>a, <1>b, SMTT(30), ZenonT(30) DEF Order, EarlierHandlersDone
    <2>4. LaterHandlersIdle(m)'
      BY <2>1, <2>2, <1>a, <1>b DEF Order, LaterHandlersIdle
    <2>5. InOrder(m)'
      BY <2>1, <2>2, <1>a, <1>b DEF Order, InOrder, JobsNotBegun
    <2>6. /\ Fresh(m)'
          /\ JobsNotBegun(m)'
          /\ HandlersNotBegun(m)'
          /\ EarlierJobsDone(m)'
          /\ LaterJobsIdle(m)'
          /\ RollbackAfterFailure(m)'
          /\ UndoInRange(m)'
          /\ QuietReturned(m)'
      BY <2>1, <2>2, <1>a, <1>b DEF Order, Fresh, JobsNotBegun, HandlersNotBegun, EarlierJobsDone, LaterJobsIdle, 
         RollbackAfterFailure, UndoInRange, QuietReturned
    <2>7. Order(m)'
      BY <2>3, <2>4, <2>5, <2>6 DEF Order
    <2>. QED  BY <2>1, <2>7, <1>a, <1>t, LocalStepOrder
  <1>2. ASSUME NEW m \in Node, NEW status \in Statuses, ExecCommand(m, status)
        PROVE  Inv'
    <2>1. /\ pc[m] = "exec"
          /\ step' = [step EXCEPT ![m] = step[m] + 1]
          /\ ret' = [ret EXCEPT ![m] = BitOr(ret[m], status)]
          /\ UNCHANGED <<tree, pc, undo>>
      BY <1>2, <1>a DEF ExecCommand
    <2>2. Jobs(m)' = Jobs(m) /\ Handlers(m)' = Handlers(m)
      BY <2>1, <1>c
    <2>3. InOrder(m)'
      BY <2>1, <2>2, <1>a, <1>b DEF Order, InOrder, JobsNotBegun
    <2>4. /\ Fresh(m)'
          /\ JobsNotBegun(m)'
          /\ HandlersNotBegun(m)'
          /\ EarlierJobsDone(m)'
          /\ LaterJobsIdle(m)'
          /\ EarlierHandlersDone(m)'
          /\ LaterHandlersIdle(m)'
          /\ RollbackAfterFailure(m)'
          /\ UndoInRange(m)'
          /\ QuietReturned(m)'
      BY <2>1, <2>2, <1>a, <1>b DEF Order, Fresh, JobsNotBegun, HandlersNotBegun, EarlierJobsDone, LaterJobsIdle, 
         EarlierHandlersDone, LaterHandlersIdle, RollbackAfterFailure, UndoInRange, 
         QuietReturned
    <2>5. Order(m)'
      BY <2>3, <2>4 DEF Order
    <2>. QED  BY <2>1, <2>5, <1>a, <1>t, LocalStepOrder
  <1>3. ASSUME NEW m \in Node, JobSucceeded(m)
        PROVE  Inv'
    <2>1. /\ pc[m] = "jobs" /\ step[m] < Len(Jobs(m))
          /\ pc[Jobs(m)[step[m] + 1]] = "returned" /\ ret[Jobs(m)[step[m] + 1]] = 0
          /\ step' = [step EXCEPT ![m] = step[m] + 1]
          /\ UNCHANGED <<tree, pc, ret, undo>>
      BY <1>3, <1>a DEF JobSucceeded, Jobs
    <2>2. Jobs(m)' = Jobs(m) /\ Handlers(m)' = Handlers(m)
      BY <2>1, <1>c
    <2>a. /\ EarlierJobsDone(m)
          /\ Len(Jobs(m)) \in Nat
          /\ \A j \in DOMAIN Jobs(m) : Jobs(m)[j] \in Node /\ j \in Nat /\ 1 <= j /\ j <= Len(Jobs(m))
      BY <1>b DEF Order
    <2>b. step[m] \in Nat /\ step'[m] = step[m] + 1
      BY <2>1, <1>a
    <2>3. EarlierJobsDone(m)'
      <3>1. \A j \in DOMAIN Jobs(m) : j <= step[m] + 1 => j <= step[m] \/ j = step[m] + 1
        BY <2>a, <2>b
      <3>. QED  BY <3>1, <2>a, <2>b, <2>1, <2>2 DEF EarlierJobsDone
    <2>4. LaterJobsIdle(m)'
      BY <2>1, <2>2, <1>a, <1>b DEF Order, LaterJobsIdle
    <2>5. /\ Fresh(m)'
          /\ JobsNotBegun(m)'
          /\ HandlersNotBegun(m)'
          /\ EarlierHandlersDone(m)'
          /\ LaterHandlersIdle(m)'
          /\ RollbackAfterFailure(m)'
          /\ UndoInRange(m)'
          /\ QuietReturned(m)'
          /\ InOrder(m)'
      BY <2>1, <2>2, <1>a, <1>b DEF Order, Fresh, JobsNotBegun, HandlersNotBegun, EarlierHandlersDone, 
         LaterHandlersIdle, RollbackAfterFailure, UndoInRange, QuietReturned, InOrder
    <2>6. Order(m)'
      BY <2>3, <2>4, <2>5 DEF Order
    <2>. QED  BY <2>1, <2>6, <1>a, <1>t, LocalStepOrder
  <1>4. ASSUME NEW m \in Node, JobFailed(m)
        PROVE  Inv'
    <2>1. /\ pc[m] = "jobs" /\ step[m] < Len(Jobs(m))
          /\ pc[Jobs(m)[step[m] + 1]] = "returned" /\ ret[Jobs(m)[step[m] + 1]] # 0
          /\ pc' = [pc EXCEPT ![m] = "rollback"]
          /\ ret' = [ret EXCEPT ![m] = ret[Jobs(m)[step[m] + 1]]]
          /\ undo' = [undo EXCEPT ![m] = step[m] + 1]
          /\ UNCHANGED <<tree, step>>
      BY <1>4, <1>a DEF JobFailed, Jobs
    <2>2. Jobs(m)' = Jobs(m) /\ Handlers(m)' = Handlers(m)
      BY <2>1, <1>c
    <2>3. EarlierJobsDone(m)'
      BY <2>1, <2>2, <1>a, <1>b DEF Order, EarlierJobsDone
    <2>4. LaterJobsIdle(m)'
      BY <2>1, <2>2, <1>a, <1>b DEF Order, LaterJobsIdle
    <2>5. HandlersNotBegun(m)'
      BY <2>1, <2>2, <1>a, <1>b DEF Order, HandlersNotBegun
    <2>6. RollbackAfterFailure(m)'
      BY <2>1, <2>2, <1>a, <1>b DEF Order, RollbackAfterFailure, Failed, Returned
    <2>7. UndoInRange(m)'
      BY <2>1, <2>2, <1>a, <1>b DEF Order, UndoInRange
    <2>a. /\ EarlierJobsDone(m) /\ LaterJobsIdle(m) /\ InOrder(m)
          /\ \A j \in DOMAIN Jobs(m) : Jobs(m)[j] \in Node /\ j \in Nat
      BY <1>b DEF Order
    <2>b. \A j \in DOMAIN Jobs(m) : j <= step[m] \/ j = step[m] + 1 \/ j > step[m] + 1
      BY <2>a, <1>a
    <2>c. \A j \in DOMAIN Jobs(m) : pc[Jobs(m)[j]] \in {"idle", "returned"}
      BY <2>a, <2>b, <2>1 DEF EarlierJobsDone, LaterJobsIdle
    <2>d. \A j \in DOMAIN Jobs(m) : pc'[Jobs(m)[j]] = pc[Jobs(m)[j]] /\ ret'[Jobs(m)[j]] = ret[Jobs(m)[j]]
      BY <2>a, <2>c, <2>1, <1>a
    <2>8. InOrder(m)'
      BY <2>a, <2>d, <2>2 DEF InOrder
    <2>9. /\ Fresh(m)'
          /\ JobsNotBegun(m)'
          /\ EarlierHandlersDone(m)'
          /\ LaterHandlersIdle(m)'
          /\ QuietReturned(m)'
      BY <2>1, <2>2, <1>a, <1>b DEF Order, Fresh, JobsNotBegun, EarlierHandlersDone, LaterHandlersIdle, QuietReturned
    <2>10. Order(m)'
      BY <2>3, <2>4, <2>5, <2>6, <2>7, <2>8, <2>9 DEF Order
    <2>. QED  BY <2>1, <2>10, <1>a, <1>t, LocalStepOrder
  <1>5. ASSUME NEW m \in Node, NEW status \in Statuses, RollbackCommand(m, status)
        PROVE  Inv'
    <2>1. /\ pc[m] = "rollback" /\ undo[m] > 0
          /\ undo' = [undo EXCEPT ![m] = undo[m] - 1] \/ undo' = undo
          /\ UNCHANGED <<tree, pc, step, ret>>
      BY <1>5, <1>a DEF RollbackCommand
    <2>2. Jobs(m)' = Jobs(m) /\ Handlers(m)' = Handlers(m)
      BY <2>1, <1>c
    <2>3. UndoInRange(m)'
      BY <2>1, <2>2, <1>a, <1>b DEF Order, UndoInRange
    <2>4. RollbackAfterFailure(m)'
      BY <2>1, <2>2, <1>a, <1>b DEF Order, RollbackAfterFailure, Failed, Returned
    <2>5. /\ Fresh(m)'
          /\ JobsNotBegun(m)'
          /\ HandlersNotBegun(m)'
          /\ EarlierJobsDone(m)'
          /\ LaterJobsIdle(m)'
          /\ EarlierHandlersDone(m)'
          /\ LaterHandlersIdle(m)'
          /\ QuietReturned(m)'
          /\ InOrder(m)'
      BY <2>1, <2>2, <1>a, <1>b DEF Order, Fresh, JobsNotBegun, HandlersNotBegun, EarlierJobsDone, LaterJobsIdle, 
         EarlierHandlersDone, LaterHandlersIdle, QuietReturned, InOrder
    <2>6. Order(m)'
      BY <2>3, <2>4, <2>5 DEF Order
    <2>. QED  BY <2>1, <2>6, <1>a, <1>t, LocalStepOrder
  <1>6. ASSUME NEW m \in Node, RollbackMissing(m)
        PROVE  Inv'
    <2>1. /\ pc[m] = "rollback" /\ undo[m] > 0
          /\ undo' = [undo EXCEPT ![m] = undo[m] - 1]
          /\ UNCHANGED <<tree, pc, step, ret>>
      BY <1>6, <1>a DEF RollbackMissing
    <2>2. Jobs(m)' = Jobs(m) /\ Handlers(m)' = Handlers(m)
      BY <2>1, <1>c
    <2>3. UndoInRange(m)'
      BY <2>1, <2>2, <1>a, <1>b DEF Order, UndoInRange
    <2>4. RollbackAfterFailure(m)'
      BY <2>1, <2>2, <1>a, <1>b DEF Order, RollbackAfterFailure, Failed, Returned
    <2>5. /\ Fresh(m)'
          /\ JobsNotBegun(m)'
          /\ HandlersNotBegun(m)'
          /\ EarlierJobsDone(m)'
          /\ LaterJobsIdle(m)'
          /\ EarlierHandlersDone(m)'
          /\ LaterHandlersIdle(m)'
          /\ QuietReturned(m)'
          /\ InOrder(m)'
      BY <2>1, <2>2, <1>a, <1>b DEF Order, Fresh, JobsNotBegun, HandlersNotBegun, EarlierJobsDone, LaterJobsIdle, 
         EarlierHandlersDone, LaterHandlersIdle, QuietReturned, InOrder
    <2>6. Order(m)'
      BY <2>3, <2>4, <2>5 DEF Order
    <2>. QED  BY <2>1, <2>6, <1>a, <1>t, LocalStepOrder
  <1>7. ASSUME NEW m \in Node, Return(m)
        PROVE  Inv'
    <2>1. /\ \/ pc[m] = "handlers" /\ step[m] = Len(Handlers(m))
             \/ pc[m] = "exec"
             \/ pc[m] = "jobs" /\ step[m] = Len(Jobs(m))
             \/ pc[m] = "rollback"
          /\ pc' = [pc EXCEPT ![m] = "returned"]
          /\ UNCHANGED <<tree, step, ret, undo>>
      BY <1>7, <1>a DEF Return, Jobs, Handlers
    <2>2. Jobs(m)' = Jobs(m) /\ Handlers(m)' = Handlers(m)
      BY <2>1, <1>c
    <2>a. /\ JobsNotBegun(m) /\ HandlersNotBegun(m) /\ InOrder(m)
          /\ EarlierJobsDone(m) /\ LaterJobsIdle(m) /\ RollbackAfterFailure(m)
          /\ EarlierHandlersDone(m) /\ LaterHandlersIdle(m)
          /\ \A j \in DOMAIN Jobs(m) : Jobs(m)[j] \in Node /\ j \in Nat /\ j <= Len(Jobs(m))
          /\ \A j \in DOMAIN Handlers(m) : Handlers(m)[j] \in Node /\ j \in Nat /\ j <= Len(Handlers(m))
      BY <1>b DEF Order
    <2>b. \A j \in Nat : j <= step[m] \/ j = step[m] + 1 \/ j > step[m] + 1
      BY <1>a
    <2>c. \A j \in DOMAIN Jobs(m) : pc[Jobs(m)[j]] \in {"idle", "returned"}
      <3>1. CASE pc[m] \in {"handlers", "exec"}
        BY <3>1, <2>a DEF JobsNotBegun
      <3>2. CASE pc[m] = "jobs" /\ step[m] = Len(Jobs(m))
        BY <3>2, <2>a DEF EarlierJobsDone
      <3>3. CASE pc[m] = "rollback"
        BY <3>3, <2>a, <2>b DEF EarlierJobsDone, LaterJobsIdle, RollbackAfterFailure, Failed, Returned
      <3>. QED  BY <2>1, <3>1, <3>2, <3>3
    <2>d. \A j \in DOMAIN Handlers(m) : pc[Handlers(m)[j]] \in {"idle", "returned"}
      <3>1. CASE pc[m] \in {"exec", "jobs", "rollback"}
        BY <3>1, <2>a DEF HandlersNotBegun
      <3>2. CASE pc[m] = "handlers" /\ step[m] = Len(Handlers(m))
        BY <3>2, <2>a DEF EarlierHandlersDone
      <3>. QED  BY <2>1, <3>1, <3>2
    <2>e. /\ \A j \in DOMAIN Jobs(m) : pc'[Jobs(m)[j]] = pc[Jobs(m)[j]]
          /\ \A j \in DOMAIN Handlers(m) : pc'[Handlers(m)[j]] = pc[Handlers(m)[j]]
      BY <2>a, <2>c, <2>d, <2>1, <1>a
    <2>3. QuietReturned(m)'
      BY <2>c, <2>d, <2>e, <2>2 DEF QuietReturned
    <2>4. InOrder(m)'
      BY <2>a, <2>e, <2>1, <2>2 DEF InOrder
    <2>5. /\ Fresh(m)'
          /\ JobsNotBegun(m)'
          /\ HandlersNotBegun(m)'
          /\ EarlierJobsDone(m)'
          /\ LaterJobsIdle(m)'
          /\ EarlierHandlersDone(m)'
          /\ LaterHandlersIdle(m)'
          /\ RollbackAfterFailure(m)'
          /\ UndoInRange(m)'
      BY <2>1, <2>2, <1>a, <1>b DEF Order, Fresh, JobsNotBegun, HandlersNotBegun, EarlierJobsDone, LaterJobsIdle, 
         EarlierHandlersDone, LaterHandlersIdle, RollbackAfterFailure, UndoInRange
    <2>6. Order(m)'
      BY <2>3, <2>4, <2>5 DEF Order
    <2>. QED  BY <2>1, <2>6, <1>a, <1>t, LocalStepOrder
  <1>8. CASE UNCHANGED vars
    <2>1. \A n \in Node : Order(n)'
      BY <1>8, <1>b DEF vars, Order, Fresh, JobsNotBegun, HandlersNotBegun, EarlierJobsDone,
         LaterJobsIdle, EarlierHandlersDone, LaterHandlersIdle, RollbackAfterFailure,
         UndoInRange, QuietReturned, InOrder, Failed, Returned, Jobs, Handlers
    <2>. QED  BY <2>1, <1>t DEF Inv
  <1>. QED
    BY <1>1, <1>2, <1>3, <1>4, <1>5, <1>6, <1>7, <1>8, LaunchOrder, CallOrder
       DEF Next, RunStep

(* Every execution keeps the types and the order.                           *)
LEMMA Invariance == Spec => []Inv
  BY InvInit, InvStep, PTL DEF Spec

(* kbbi_run only ever holds values of the declared types.                   *)
THEOREM TypeCorrect == Spec => []TypeOK
  <1>1. Inv => TypeOK
    BY DEF Inv
  <1>. QED  BY <1>1, Invariance, PTL

(* kbbi.c:174-193: a job is invoked only when every job before it succeeded. *)
THEOREM NoJobAfterFailure == Spec => []StopsAtFailure
  <1>1. Inv => StopsAtFailure
    <2>. SUFFICES ASSUME Inv, NEW n \in Node, NEW j \in DOMAIN Jobs(n),
                         pc[Jobs(n)[j]] # "idle", NEW i \in 1..(j - 1)
                  PROVE  pc[Jobs(n)[i]] = "returned" /\ ret[Jobs(n)[i]] = 0
      BY DEF StopsAtFailure, Jobs
    <2>1. i \in DOMAIN Jobs(n) /\ i < j
      BY ChildIsNode DEF Inv
    <2>. QED  BY <2>1 DEF Inv, Order, InOrder
  <1>. QED  BY <1>1, Invariance, PTL

(* The order at each node says that nothing runs below a quiet one.          *)
LEMMA QuietInv == Inv => QuietBelow
  <1>. SUFFICES ASSUME Inv, NEW n \in Node, pc[n] \in {"idle", "exec", "rollback", "returned"}
                PROVE  /\ \A i \in DOMAIN Jobs(n) : pc[Jobs(n)[i]] \in {"idle", "returned"}
                       /\ \A i \in DOMAIN Handlers(n) : pc[Handlers(n)[i]] \in {"idle", "returned"}
    BY DEF QuietBelow, Jobs, Handlers
  <1>1. Order(n)
    BY DEF Inv
  <1>2. CASE pc[n] # "rollback"
    BY <1>1, <1>2 DEF Order, JobsNotBegun, HandlersNotBegun, QuietReturned
  <1>3. CASE pc[n] = "rollback"
    <2>1. \A i \in DOMAIN Handlers(n) : pc[Handlers(n)[i]] = "idle"
      BY <1>1, <1>3 DEF Order, HandlersNotBegun
    <2>2. ASSUME NEW i \in DOMAIN Jobs(n) PROVE pc[Jobs(n)[i]] \in {"idle", "returned"}
      <3>1. step[n] \in Nat /\ i \in Nat
        <4>1. Jobs(n) \in Seq(Node) /\ step[n] \in Nat
          BY ChildIsNode DEF Inv, TypeOK
        <4>. QED  BY <4>1
      <3>2. i <= step[n] \/ i = step[n] + 1 \/ i > step[n] + 1
        BY <3>1
      <3>. QED
        BY <1>1, <1>3, <3>2
           DEF Order, EarlierJobsDone, LaterJobsIdle, RollbackAfterFailure, Failed, Returned
    <2>. QED  BY <2>1, <2>2
  <1>. QED  BY <1>2, <1>3

(* Nothing runs below a node that runs commands, rolls back or has returned. *)
THEOREM SequentialExecution == Spec => []QuietBelow
  BY QuietInv, Invariance, PTL
-----------------------------------------------------------------------------
(* How a run ends: to the order kept so far, the invariant adds what a node    *)
(* knows of its handlers, commands and rollback commands from where it stands. *)

(* Command k of n has run and succeeded.                                     *)
Succeeded(n, k) ==
    \E e \in DOMAIN log : log[e] = [op |-> "exec", node |-> n, index |-> k, ok |-> TRUE]

(* Handlers come before commands, commands before jobs.                     *)
WorkInTurn(n) ==
    /\ pc[n] \in {"exec", "jobs", "rollback"} => Handlers(n) = <<>>
    /\ pc[n] \in {"jobs", "rollback"} => tree.exec[n] = 0

(* No handler of n before the one it has come to failed, except perhaps i.   *)
OthersSucceeded(n, i) ==
    \A j \in DOMAIN Handlers(n) : j <= step[n] /\ j # i => ret[Handlers(n)[j]] = 0

(* A single failure is kept in the sum; several may cancel out.              *)
HandlersSoFar(n) ==
    pc[n] = "handlers" =>
        /\ step[n] <= Len(Handlers(n)) /\ Handlers(n) # <<>>
        /\ (\A j \in DOMAIN Handlers(n) : j <= step[n] => ret[Handlers(n)[j]] = 0) => ret[n] = 0
        /\ \A i \in DOMAIN Handlers(n) : i <= step[n] /\ OthersSucceeded(n, i) => ret[n] = ret[Handlers(n)[i]]

CommandsSoFar(n) ==
    pc[n] = "exec" =>
        /\ step[n] <= tree.exec[n] /\ tree.exec[n] > 0
        /\ ret[n] = 0 => \A k \in 1..step[n] : Succeeded(n, k)

JobsSoFar(n) ==
    /\ pc[n] = "jobs" => ret[n] = 0 /\ step[n] <= Len(Jobs(n))
    /\ pc[n] = "rollback" => ret[n] # 0

(* act counts the commands of the job whose rollback is running.             *)
ActInRange(n) ==
    act[n] # 0 => pc[n] = "rollback" /\ undo[n] > 0 /\ act[n] < tree.rollback[Jobs(n)[undo[n]]]

UndoneSoFar(n) ==
    pc[n] = "rollback" =>
        /\ \A j \in DOMAIN Jobs(n) : undo[n] < j /\ j <= step[n] + 1 =>
             \A k \in 1..tree.rollback[Jobs(n)[j]] : RolledBack(Jobs(n)[j], k)
        /\ undo[n] > 0 => \A k \in 1..act[n] : RolledBack(Jobs(n)[undo[n]], k)

(* The rollback commands run for the jobs of n are those n has come to.      *)
UndoneOnly(n) ==
    \A e \in DOMAIN log : \A j \in DOMAIN Jobs(n) :
        log[e].op = "rollback" /\ log[e].node = Jobs(n)[j] =>
            /\ pc[n] \in {"rollback", "returned"}
            /\ pc[n] = "rollback" => j > undo[n] \/ (j = undo[n] /\ log[e].index <= act[n])
            /\ \E i \in DOMAIN Jobs(n) : i >= j /\ Failed(Jobs(n)[i])

UndoneInReverse(n) ==
    \A i, j \in DOMAIN Jobs(n) : \A a, b \in DOMAIN log :
        /\ a < b
        /\ log[a].op = "rollback" /\ log[a].node = Jobs(n)[i]
        /\ log[b].op = "rollback" /\ log[b].node = Jobs(n)[j]
        => i > j \/ (i = j /\ log[a].index < log[b].index)

(* How n has returned: with 0, or over a job that failed.                    *)
EndsInSuccess(n) ==
    pc[n] = "returned" /\ ret[n] = 0 =>
        /\ \A i \in DOMAIN Handlers(n) :
             /\ pc[Handlers(n)[i]] = "returned"
             /\ ret[Handlers(n)[i]] # 0 => \E j \in DOMAIN Handlers(n) : j # i /\ ret[Handlers(n)[j]] # 0
        /\ Handlers(n) = <<>> =>
             /\ \A k \in 1..tree.exec[n] : Succeeded(n, k)
             /\ tree.exec[n] = 0 =>
                  \A i \in DOMAIN Jobs(n) : pc[Jobs(n)[i]] = "returned" /\ ret[Jobs(n)[i]] = 0

EndsInFailure(n) ==
    \A i \in DOMAIN Jobs(n) : pc[n] = "returned" /\ Failed(Jobs(n)[i]) =>
        /\ ret[n] # 0
        /\ \A j \in 1..i : \A k \in 1..tree.rollback[Jobs(n)[j]] : RolledBack(Jobs(n)[j], k)

Outcome(n) ==
    /\ WorkInTurn(n) /\ HandlersSoFar(n) /\ CommandsSoFar(n) /\ JobsSoFar(n)
    /\ ActInRange(n) /\ UndoneSoFar(n) /\ UndoneOnly(n) /\ UndoneInReverse(n)
    /\ EndsInSuccess(n) /\ EndsInFailure(n)

OInv == Inv /\ \A n \in Node : Outcome(n)
-----------------------------------------------------------------------------
(* What a step of node m keeps: the workflow, what the others hold, what a    *)
(* child has returned, and the log but for one command of m's at its end.    *)
Kept(m) ==
    /\ tree' = tree
    /\ \A n \in Node : n # m => /\ pc'[n] = pc[n] /\ step'[n] = step[n] /\ ret'[n] = ret[n]
                               /\ undo'[n] = undo[n] /\ act'[n] = act[n]
    /\ pc[m] # "returned" /\ (pc[m] = "idle" => pc'[m] # "returned")
    /\ \A e \in DOMAIN log : e \in DOMAIN log' /\ log'[e] = log[e]

(* No rollback command of a job of n is new in the log.                      *)
NothingNew(n) ==
    \A e \in DOMAIN log' : \A j \in DOMAIN Jobs(n) :
        log'[e].op = "rollback" /\ log'[e].node = Jobs(n)[j] => e \in DOMAIN log

(* What is in the log stays there.                                          *)
LEMMA LogKept ==
    ASSUME NEW m \in Node, Kept(m)
    PROVE  /\ \A n, k : Succeeded(n, k) => Succeeded(n, k)'
           /\ \A n, k : RolledBack(n, k) => RolledBack(n, k)'
BY DEF Kept, Succeeded, RolledBack

(* A child of n other than m, or one that has returned, stays as it is; and   *)
(* a child of n returns only while n is going through its handlers or jobs.   *)
LEMMA ChildKept ==
    ASSUME Inv, NEW m \in Node, Kept(m), NEW c \in Node
    PROVE  /\ pc[c] = "returned" => pc'[c] = "returned" /\ ret'[c] = ret[c]
           /\ Failed(c) => Failed(c)'
           /\ pc[c] \in {"idle", "returned"} /\ pc'[c] = "returned" => pc[c] = "returned"
BY DEF Kept, Failed, Returned

LEMMA OtherOutcome ==
    ASSUME OInv, NEW m \in Node, Kept(m), NEW n \in Node, n # m, NothingNew(n)
    PROVE  Outcome(n)'
<1>1. /\ Order(n) /\ Outcome(n) /\ Inv /\ TypeOK
    BY DEF OInv, Inv
<1>2. /\ Jobs(n)' = Jobs(n) /\ Handlers(n)' = Handlers(n) /\ tree' = tree
      /\ pc'[n] = pc[n] /\ step'[n] = step[n] /\ ret'[n] = ret[n] /\ undo'[n] = undo[n] /\ act'[n] = act[n]
    BY DEF Kept, Jobs, Handlers
<1>3. /\ \A j \in DOMAIN Jobs(n) : Jobs(n)[j] \in Node
      /\ \A j \in DOMAIN Handlers(n) : Handlers(n)[j] \in Node
    BY <1>1, ChildIsNode
<1>4. \A c \in Node : /\ pc[c] = "returned" => pc'[c] = "returned" /\ ret'[c] = ret[c]
                      /\ Failed(c) => Failed(c)'
                      /\ pc[c] \in {"idle", "returned"} /\ pc'[c] = "returned" => pc[c] = "returned"
    BY <1>1, ChildKept
<1>5. /\ \A e \in DOMAIN log : e \in DOMAIN log' /\ log'[e] = log[e]
      /\ \A k : Succeeded(n, k) => Succeeded(n, k)'
      /\ \A k, c : RolledBack(c, k) => RolledBack(c, k)'
    BY LogKept DEF Kept
<1>6. WorkInTurn(n)' /\ JobsSoFar(n)' /\ ActInRange(n)'
    BY <1>1, <1>2 DEF Outcome, WorkInTurn, JobsSoFar, ActInRange
<1>7. HandlersSoFar(n)'
    BY <1>1, <1>2, <1>3, <1>4 DEF Outcome, HandlersSoFar, OthersSucceeded, Order, EarlierHandlersDone
<1>8. CommandsSoFar(n)'
    BY <1>1, <1>2, <1>5 DEF Outcome, CommandsSoFar
<1>9. UndoneSoFar(n)'
    BY <1>1, <1>2, <1>5 DEF Outcome, UndoneSoFar
<1>10. UndoneOnly(n)'
    BY <1>1, <1>2, <1>3, <1>4, <1>5 DEF Outcome, UndoneOnly, NothingNew
<1>11. UndoneInReverse(n)'
    BY <1>1, <1>2, <1>5 DEF Outcome, UndoneInReverse, NothingNew
<1>12. EndsInSuccess(n)'
    BY <1>1, <1>2, <1>3, <1>4, <1>5 DEF Outcome, EndsInSuccess
<1>13. EndsInFailure(n)'
  <2>1. ASSUME pc[n] = "returned", NEW i \in DOMAIN Jobs(n), Failed(Jobs(n)[i])'
        PROVE  Failed(Jobs(n)[i])
    <3>1. pc[Jobs(n)[i]] \in {"idle", "returned"}
        BY <1>1, <2>1 DEF Order, QuietReturned
    <3>2. pc'[Jobs(n)[i]] = "returned" /\ ret'[Jobs(n)[i]] # 0
        BY <1>2, <2>1 DEF Failed, Returned
    <3>3. QED  BY <1>3, <1>4, <3>1, <3>2 DEF Failed, Returned
  <2>2. QED  BY <1>1, <1>2, <1>5, <2>1 DEF Outcome, EndsInFailure
<1>14. QED
    BY <1>6, <1>7, <1>8, <1>9, <1>10, <1>11, <1>12, <1>13 DEF Outcome
-----------------------------------------------------------------------------
(* What m itself holds as a step of its own begins.                          *)
LEMMA AtNode ==
    ASSUME OInv, NEW m \in Node
    PROVE  /\ Order(m) /\ Outcome(m)
           /\ pc \in [Node -> {"idle", "handlers", "exec", "jobs", "rollback", "returned"}]
           /\ step \in [Node -> Nat] /\ ret \in [Node -> Word] /\ undo \in [Node -> Nat] /\ act \in [Node -> Nat]
           /\ tree.exec[m] \in Nat /\ (\A n \in Node : tree.rollback[n] \in Nat)
           /\ Len(Jobs(m)) \in Nat /\ Len(Handlers(m)) \in Nat
           /\ \A j \in DOMAIN Jobs(m) : Jobs(m)[j] \in Node /\ j \in Nat /\ 1 <= j /\ j <= Len(Jobs(m))
           /\ \A j \in DOMAIN Handlers(m) :
                  Handlers(m)[j] \in Node /\ j \in Nat /\ 1 <= j /\ j <= Len(Handlers(m))
           /\ \A j \in Nat : 1 <= j /\ j <= Len(Jobs(m)) => j \in DOMAIN Jobs(m)
           /\ \A j \in Nat : 1 <= j /\ j <= Len(Handlers(m)) => j \in DOMAIN Handlers(m)
<1>1. TypeOK /\ Order(m) /\ Outcome(m)
    BY DEF OInv, Inv
<1>2. Jobs(m) \in Seq(Node) /\ Handlers(m) \in Seq(Node)
    BY <1>1, ChildIsNode
<1>3. tree.exec[m] \in Nat /\ \A n \in Node : tree.rollback[n] \in Nat
  <2>1. tree.exec \in [Node -> Nat] /\ tree.rollback \in [Node -> Nat]
      BY <1>1, WorkflowShape, Zenon DEF TypeOK
  <2>2. QED  BY <2>1
<1>4. \A s \in Seq(Node) :
        /\ Len(s) \in Nat
        /\ \A j \in DOMAIN s : s[j] \in Node /\ j \in Nat /\ 1 <= j /\ j <= Len(s)
        /\ \A j \in Nat : 1 <= j /\ j <= Len(s) => j \in DOMAIN s
    OBVIOUS
<1>5. QED  BY <1>1, <1>2, <1>3, <1>4, Zenon DEF TypeOK

LEMMA LogAppend ==
    ASSUME TypeOK, NEW event, log' = Append(log, event)
    PROVE  /\ Len(log) + 1 \in DOMAIN log' /\ log'[Len(log) + 1] = event
           /\ \A e \in DOMAIN log : e \in DOMAIN log' /\ log'[e] = log[e]
           /\ \A e \in DOMAIN log' : e \in DOMAIN log \/ e = Len(log) + 1
           /\ \A a, b \in DOMAIN log' : a < b => a \in DOMAIN log
<1>1. log \in Seq(Event)
    BY DEF TypeOK
<1>2. QED  BY <1>1

(* Until m rolls back there is nothing of its jobs to undo in the log.        *)
LEMMA NothingUndone ==
    ASSUME NEW m \in Node, Outcome(m), pc[m] \notin {"rollback", "returned"}, log' = log, Jobs(m)' = Jobs(m)
    PROVE  UndoneOnly(m)' /\ UndoneInReverse(m)'
<1>1. \A e \in DOMAIN log : \A j \in DOMAIN Jobs(m) :
        ~(log[e].op = "rollback" /\ log[e].node = Jobs(m)[j])
    BY DEF Outcome, UndoneOnly
<1>2. UndoneOnly(m)'
    BY <1>1 DEF UndoneOnly
<1>3. UndoneInReverse(m)'
    BY <1>1 DEF UndoneInReverse
<1>4. QED  BY <1>2, <1>3

(* Node m is invoked: there is nothing it could have done yet.               *)
LEMMA InvokeOutcome ==
    ASSUME OInv, NEW m \in Node, Invoke(m)
    PROVE  \A n \in Node : Outcome(n)'
<1>1. /\ pc[m] = "idle" /\ pc' = [pc EXCEPT ![m] = FirstWork(m)] /\ ret' = [ret EXCEPT ![m] = 0]
      /\ UNCHANGED <<tree, step, undo, act, log>>
    BY DEF Invoke
<1>2. FirstWork(m) \in {"handlers", "exec", "jobs"}
    BY DEF FirstWork
<1>3. Kept(m) /\ \A n \in Node : NothingNew(n)
    BY <1>1, <1>2, AtNode DEF Kept, NothingNew
<1>4. Outcome(m)'
  <2>1. /\ pc'[m] = FirstWork(m) /\ ret'[m] = 0 /\ step'[m] = 0 /\ act'[m] = 0
        /\ Jobs(m)' = Jobs(m) /\ Handlers(m)' = Handlers(m)
      BY <1>1, AtNode DEF Order, Fresh, Outcome, ActInRange, Jobs, Handlers
  <2>2. /\ Handlers(m) # <<>> => pc'[m] = "handlers"
        /\ Handlers(m) = <<>> => pc'[m] # "handlers" /\ (pc'[m] = "jobs" => tree.exec[m] = 0)
                               /\ (pc'[m] = "exec" => tree.exec[m] > 0)
      BY <2>1, AtNode DEF FirstWork, Handlers
  <2>3. WorkInTurn(m)' /\ HandlersSoFar(m)' /\ CommandsSoFar(m)' /\ JobsSoFar(m)' /\ ActInRange(m)'
      BY <1>1, <1>2, <2>1, <2>2, AtNode DEF WorkInTurn, HandlersSoFar, CommandsSoFar, JobsSoFar, ActInRange
  <2>4. UndoneSoFar(m)' /\ EndsInSuccess(m)' /\ EndsInFailure(m)'
      BY <1>2, <2>1 DEF UndoneSoFar, EndsInSuccess, EndsInFailure
  <2>5. UndoneOnly(m)' /\ UndoneInReverse(m)'
      BY <1>1, <2>1, AtNode, NothingUndone
  <2>6. QED  BY <2>3, <2>4, <2>5 DEF Outcome
<1>5. QED  BY <1>3, <1>4, OtherOutcome

LEMMA HandlerReturnedOutcome ==
    ASSUME OInv, NEW m \in Node, HandlerReturned(m)
    PROVE  \A n \in Node : Outcome(n)'
<1>1. /\ pc[m] = "handlers" /\ step[m] < Len(Handlers(m))
      /\ ret' = [ret EXCEPT ![m] = WrappedSum(ret[m], ret[Handlers(m)[step[m] + 1]])]
      /\ step' = [step EXCEPT ![m] = step[m] + 1]
      /\ pc[Handlers(m)[step[m] + 1]] = "returned"
      /\ UNCHANGED <<tree, pc, undo, act, log>>
    BY AtNode DEF HandlerReturned, Handlers
<1>2. Kept(m) /\ \A n \in Node : NothingNew(n)
    BY <1>1, AtNode DEF Kept, NothingNew
<1>3. /\ pc'[m] = "handlers" /\ step'[m] = step[m] + 1 /\ act'[m] = 0
      /\ ret'[m] = WrappedSum(ret[m], ret[Handlers(m)[step[m] + 1]])
      /\ Jobs(m)' = Jobs(m) /\ Handlers(m)' = Handlers(m)
    BY <1>1, AtNode DEF Outcome, ActInRange, Jobs, Handlers
<1>4. HandlersSoFar(m)'
  <2>1. /\ step[m] + 1 \in DOMAIN Handlers(m) /\ Handlers(m)[step[m] + 1] \in Node
        /\ ret[m] \in Word /\ ret[Handlers(m)[step[m] + 1]] \in Word
      BY <1>1, AtNode
  <2>2. /\ ret[m] = 0 => ret'[m] = ret[Handlers(m)[step[m] + 1]]
        /\ ret[Handlers(m)[step[m] + 1]] = 0 => ret'[m] = ret[m]
      BY <1>3, <2>1, WordFacts
  <2>a. step[m] \in Nat /\ \A j \in DOMAIN Handlers(m) : j \in Nat
      BY AtNode
  <2>3. \A j \in DOMAIN Handlers(m) : j <= step[m] + 1 =>
            ret'[Handlers(m)[j]] = ret[Handlers(m)[j]]
    <3>1. ASSUME NEW j \in DOMAIN Handlers(m), j <= step[m] + 1
          PROVE  pc[Handlers(m)[j]] = "returned"
      <4>1. j <= step[m] \/ j = step[m] + 1
          BY <2>a, <3>1
      <4>2. QED  BY <1>1, <4>1, AtNode DEF Order, EarlierHandlersDone
    <3>2. QED  BY <1>1, <3>1, AtNode
  <2>4. \A j \in DOMAIN Handlers(m) : j <= step[m] + 1 <=> j <= step[m] \/ j = step[m] + 1
      BY <2>a
  <2>5. step[m] + 1 <= Len(Handlers(m))
      BY <1>1, AtNode
  <2>6. HandlersSoFar(m)
      BY AtNode DEF Outcome
  <2> DEFINE status(j) == ret[Handlers(m)[j]]
  <2>7. (\A j \in DOMAIN Handlers(m) : j <= step[m] + 1 => status(j) = 0) => ret'[m] = 0
      BY <1>1, <2>1, <2>2, <2>4, <2>6 DEF HandlersSoFar
  <2>8. ASSUME NEW i \in DOMAIN Handlers(m), i <= step[m] + 1,
               \A j \in DOMAIN Handlers(m) : j <= step[m] + 1 /\ j # i => status(j) = 0
        PROVE  ret'[m] = status(i)
    <3>1. CASE i = step[m] + 1
      <4>1. \A j \in DOMAIN Handlers(m) : j <= step[m] => status(j) = 0
        <5>1. \A j \in DOMAIN Handlers(m) : j <= step[m] => j <= step[m] + 1 /\ j # i
            BY <2>a, <3>1
        <5>2. QED  BY <2>8, <5>1
      <4>2. QED  BY <1>1, <2>2, <2>6, <3>1, <4>1 DEF HandlersSoFar
    <3>2. CASE i <= step[m]
      <4>1. OthersSucceeded(m, i) /\ status(step[m] + 1) = 0
        <5>1. step[m] + 1 # i
            BY <2>a, <3>2
        <5>2. status(step[m] + 1) = 0
            BY <2>1, <2>4, <2>8, <5>1
        <5>3. QED  BY <2>4, <2>8, <5>2 DEF OthersSucceeded
      <4>2. QED  BY <1>1, <2>2, <2>6, <3>2, <4>1 DEF HandlersSoFar
    <3>3. QED  BY <2>4, <2>8, <3>1, <3>2
  <2> HIDE DEF status
  <2>9. \A j \in DOMAIN Handlers(m) : j <= step[m] + 1 => ret'[Handlers(m)[j]] = status(j)
      BY <2>3 DEF status
  <2>10. QED
      BY <1>1, <1>3, <2>1, <2>5, <2>7, <2>8, <2>9 DEF HandlersSoFar, OthersSucceeded
<1>5. WorkInTurn(m)' /\ CommandsSoFar(m)' /\ JobsSoFar(m)' /\ ActInRange(m)' /\ UndoneSoFar(m)'
    BY <1>3 DEF WorkInTurn, CommandsSoFar, JobsSoFar, ActInRange, UndoneSoFar
<1>6. UndoneOnly(m)' /\ UndoneInReverse(m)'
    BY <1>1, <1>3, AtNode, NothingUndone
<1>7. EndsInSuccess(m)' /\ EndsInFailure(m)'
    BY <1>3 DEF EndsInSuccess, EndsInFailure
<1>8. Outcome(m)'
    BY <1>4, <1>5, <1>6, <1>7 DEF Outcome
<1>9. QED  BY <1>2, <1>8, OtherOutcome

LEMMA ExecCommandOutcome ==
    ASSUME OInv, NEW m \in Node, NEW status \in Statuses, ExecCommand(m, status)
    PROVE  \A n \in Node : Outcome(n)'
<1> DEFINE event == [op |-> "exec", node |-> m, index |-> step[m] + 1, ok |-> (status = 0)]
<1>1. /\ pc[m] = "exec" /\ step[m] < tree.exec[m]
      /\ ret' = [ret EXCEPT ![m] = BitOr(ret[m], status)]
      /\ step' = [step EXCEPT ![m] = step[m] + 1]
      /\ log' = Append(log, event)
      /\ UNCHANGED <<tree, pc, undo, act>>
    BY AtNode DEF ExecCommand
<1>2. /\ Len(log) + 1 \in DOMAIN log' /\ log'[Len(log) + 1] = event
      /\ \A e \in DOMAIN log : e \in DOMAIN log' /\ log'[e] = log[e]
      /\ \A e \in DOMAIN log' : e \in DOMAIN log \/ log'[e] = event
    BY <1>1, LogAppend DEF OInv, Inv
<1>3. event.op = "exec"
    OBVIOUS
<1>4. \A n \in Node : NothingNew(n)
    BY <1>2, <1>3 DEF NothingNew
<1>5. Kept(m)
    BY <1>1, <1>2, AtNode DEF Kept
<1>6. /\ pc'[m] = "exec" /\ step'[m] = step[m] + 1 /\ act'[m] = 0 /\ tree' = tree
      /\ ret'[m] = BitOr(ret[m], status)
      /\ Jobs(m)' = Jobs(m) /\ Handlers(m)' = Handlers(m)
    BY <1>1, AtNode DEF Outcome, ActInRange, Jobs, Handlers
<1>7. CommandsSoFar(m)'
  <2>1. ret'[m] = 0 => ret[m] = 0 /\ status = 0
      BY <1>6, AtNode, WordFacts, BitOrAssumption
  <2>2. ASSUME NEW k, k = step[m] + 1, status = 0 PROVE Succeeded(m, k)'
    <3>1. event = [op |-> "exec", node |-> m, index |-> k, ok |-> TRUE]
        BY <2>2
    <3>2. QED  BY <1>2, <3>1, Zenon DEF Succeeded
  <2>3. \A k : Succeeded(m, k) => Succeeded(m, k)'
      BY <1>5, LogKept
  <2>4. CommandsSoFar(m) /\ step[m] \in Nat /\ tree.exec[m] \in Nat
      BY AtNode DEF Outcome
  <2>5. \A k \in 1..(step[m] + 1) : k \in 1..step[m] \/ k = step[m] + 1
      BY <2>4
  <2>6. step[m] + 1 <= tree.exec[m]
      BY <1>1, <2>4
  <2>7. ret'[m] = 0 => \A k \in 1..(step[m] + 1) : Succeeded(m, k)'
      BY <1>1, <2>1, <2>2, <2>3, <2>4, <2>5 DEF CommandsSoFar
  <2>8. QED  BY <1>1, <1>6, <2>4, <2>6, <2>7 DEF CommandsSoFar
<1>8. WorkInTurn(m)' /\ HandlersSoFar(m)' /\ JobsSoFar(m)' /\ ActInRange(m)' /\ UndoneSoFar(m)'
    BY <1>1, <1>6, AtNode DEF Outcome, WorkInTurn, HandlersSoFar, JobsSoFar, ActInRange, UndoneSoFar
<1>9. UndoneOnly(m)' /\ UndoneInReverse(m)'
  <2>1. \A e \in DOMAIN log' : \A j \in DOMAIN Jobs(m) :
          ~(log'[e].op = "rollback" /\ log'[e].node = Jobs(m)[j])
    <3>1. UndoneOnly(m) /\ pc[m] = "exec"
        BY <1>1, AtNode DEF Outcome
    <3>2. \A e \in DOMAIN log : \A j \in DOMAIN Jobs(m) :
              ~(log[e].op = "rollback" /\ log[e].node = Jobs(m)[j])
        BY <3>1 DEF UndoneOnly
    <3> HIDE DEF event
    <3>3. QED  BY <1>2, <1>3, <3>2
  <2>2. UndoneOnly(m)'
      BY <1>6, <2>1 DEF UndoneOnly
  <2>3. UndoneInReverse(m)'
      BY <1>6, <2>1 DEF UndoneInReverse
  <2>4. QED  BY <2>2, <2>3
<1>10. EndsInSuccess(m)' /\ EndsInFailure(m)'
    BY <1>6 DEF EndsInSuccess, EndsInFailure
<1>11. Outcome(m)'
    BY <1>7, <1>8, <1>9, <1>10 DEF Outcome
<1>12. QED  BY <1>4, <1>5, <1>11, OtherOutcome

LEMMA JobSucceededOutcome ==
    ASSUME OInv, NEW m \in Node, JobSucceeded(m)
    PROVE  \A n \in Node : Outcome(n)'
<1>1. /\ pc[m] = "jobs" /\ step[m] < Len(Jobs(m))
      /\ step' = [step EXCEPT ![m] = step[m] + 1]
      /\ UNCHANGED <<tree, pc, ret, undo, act, log>>
    BY AtNode DEF JobSucceeded, Jobs
<1>2. Kept(m) /\ \A n \in Node : NothingNew(n)
    BY <1>1, AtNode DEF Kept, NothingNew
<1>3. /\ pc'[m] = "jobs" /\ step'[m] = step[m] + 1 /\ step[m] + 1 <= Len(Jobs(m)) /\ act'[m] = 0
      /\ ret'[m] = ret[m] /\ Jobs(m)' = Jobs(m) /\ Handlers(m)' = Handlers(m) /\ tree' = tree
    BY <1>1, AtNode DEF Outcome, ActInRange, Jobs, Handlers
<1>4. /\ WorkInTurn(m)' /\ HandlersSoFar(m)' /\ CommandsSoFar(m)' /\ JobsSoFar(m)' /\ ActInRange(m)'
      /\ UndoneSoFar(m)' /\ EndsInSuccess(m)' /\ EndsInFailure(m)'
    BY <1>1, <1>3, AtNode
       DEF Outcome, WorkInTurn, HandlersSoFar, CommandsSoFar, JobsSoFar, ActInRange, UndoneSoFar,
           EndsInSuccess, EndsInFailure
<1>5. UndoneOnly(m)' /\ UndoneInReverse(m)'
    BY <1>1, <1>3, AtNode, NothingUndone
<1>6. Outcome(m)'
    BY <1>4, <1>5 DEF Outcome
<1>7. QED  BY <1>2, <1>6, OtherOutcome

(* The rollback begins at the job that failed, with nothing undone.          *)
LEMMA JobFailedOutcome ==
    ASSUME OInv, NEW m \in Node, JobFailed(m)
    PROVE  \A n \in Node : Outcome(n)'
<1>1. /\ pc[m] = "jobs" /\ step[m] < Len(Jobs(m))
      /\ ret[Jobs(m)[step[m] + 1]] # 0
      /\ ret' = [ret EXCEPT ![m] = ret[Jobs(m)[step[m] + 1]]]
      /\ pc' = [pc EXCEPT ![m] = "rollback"]
      /\ undo' = [undo EXCEPT ![m] = step[m] + 1]
      /\ UNCHANGED <<tree, step, act, log>>
    BY AtNode DEF JobFailed, Jobs
<1>2. Kept(m) /\ \A n \in Node : NothingNew(n)
    BY <1>1, AtNode DEF Kept, NothingNew
<1>3. /\ pc'[m] = "rollback" /\ step'[m] = step[m] /\ undo'[m] = step[m] + 1 /\ act'[m] = 0
      /\ ret'[m] # 0 /\ Jobs(m)' = Jobs(m) /\ Handlers(m)' = Handlers(m) /\ tree' = tree
    BY <1>1, AtNode DEF Outcome, ActInRange, Jobs, Handlers
<1>4. /\ WorkInTurn(m)' /\ HandlersSoFar(m)' /\ CommandsSoFar(m)' /\ JobsSoFar(m)' /\ ActInRange(m)'
      /\ EndsInSuccess(m)' /\ EndsInFailure(m)'
    BY <1>1, <1>3, AtNode
       DEF Outcome, WorkInTurn, HandlersSoFar, CommandsSoFar, JobsSoFar, ActInRange,
           EndsInSuccess, EndsInFailure
<1>5. UndoneSoFar(m)'
    BY <1>3, AtNode DEF UndoneSoFar
<1>6. UndoneOnly(m)' /\ UndoneInReverse(m)'
    BY <1>1, <1>3, AtNode, NothingUndone
<1>7. Outcome(m)'
    BY <1>4, <1>5, <1>6 DEF Outcome
<1>8. QED  BY <1>2, <1>7, OtherOutcome

(* What the rollback of m's job undo[m] knows.                               *)
LEMMA RollingBack ==
    ASSUME OInv, NEW m \in Node, pc[m] = "rollback", undo[m] > 0
    PROVE  /\ undo[m] \in DOMAIN Jobs(m) /\ Jobs(m)[undo[m]] \in Node
           /\ step[m] + 1 \in DOMAIN Jobs(m) /\ undo[m] <= step[m] + 1 /\ Failed(Jobs(m)[step[m] + 1])
           /\ \A n \in Node : \A j \in DOMAIN Jobs(n) :
                  Jobs(n)[j] = Jobs(m)[undo[m]] => n = m /\ j = undo[m]
<1>1. undo[m] \in DOMAIN Jobs(m) /\ Jobs(m)[undo[m]] \in Node
    BY AtNode, UndoneJobIsNode DEF OInv, Inv, Order
<1>2. step[m] + 1 \in DOMAIN Jobs(m) /\ undo[m] <= step[m] + 1 /\ Failed(Jobs(m)[step[m] + 1])
    BY AtNode DEF Order, UndoInRange, RollbackAfterFailure
<1>3. SingleParent(tree)
    BY WorkflowShape DEF OInv, Inv, TypeOK
<1>4. QED  BY <1>1, <1>2, <1>3 DEF SingleParent, Jobs

LEMMA RollbackCommandOutcome ==
    ASSUME OInv, NEW m \in Node, NEW status \in Statuses, RollbackCommand(m, status)
    PROVE  \A n \in Node : Outcome(n)'
<1>1. pc[m] = "rollback" /\ undo[m] > 0
    BY DEF RollbackCommand
<1>2. PICK u \in Nat, job \in Node, k \in Nat, c \in Nat :
        u = undo[m] /\ job = Jobs(m)[u] /\ k = act[m] + 1 /\ c = tree.rollback[job]
  <2>1. undo[m] \in Nat /\ act[m] + 1 \in Nat
      BY AtNode
  <2>2. Jobs(m)[undo[m]] \in Node
      BY <1>1, RollingBack
  <2>3. tree.rollback[Jobs(m)[undo[m]]] \in Nat
      BY <2>2, AtNode
  <2>4. QED  BY <2>1, <2>2, <2>3, Zenon
<1> DEFINE event == [op |-> "rollback", node |-> job, index |-> k, ok |-> (status = 0)]
<1>3. /\ u > 0 /\ k <= c /\ act[m] = k - 1 /\ k > 0
      /\ log' = Append(log, event)
      /\ act' = [act EXCEPT ![m] = IF k = c THEN 0 ELSE k]
      /\ undo' = [undo EXCEPT ![m] = IF k = c THEN u - 1 ELSE u]
      /\ UNCHANGED <<tree, pc, step, ret>>
  <2>1. act[m] \in Nat
      BY AtNode
  <2>2. QED  BY <1>2, <2>1 DEF RollbackCommand, Jobs
<1>4. /\ Len(log) + 1 \in DOMAIN log' /\ log'[Len(log) + 1] = event
      /\ \A e \in DOMAIN log : e \in DOMAIN log' /\ log'[e] = log[e]
      /\ \A e \in DOMAIN log' : e \in DOMAIN log \/ e = Len(log) + 1
      /\ \A a, b \in DOMAIN log' : a < b => a \in DOMAIN log
    BY <1>3, LogAppend DEF OInv, Inv
<1>5. /\ u \in DOMAIN Jobs(m)
      /\ step[m] + 1 \in DOMAIN Jobs(m) /\ u <= step[m] + 1 /\ Failed(Jobs(m)[step[m] + 1])
      /\ \A n \in Node : \A j \in DOMAIN Jobs(n) : Jobs(n)[j] = job => n = m /\ j = u
    BY <1>1, <1>2, RollingBack
<1>6. ASSUME NEW n \in Node, n # m PROVE NothingNew(n)
    BY <1>4, <1>5, <1>6 DEF NothingNew
<1>7. Kept(m)
    BY <1>1, <1>3, <1>4, AtNode DEF Kept
<1>8. /\ pc'[m] = "rollback" /\ step'[m] = step[m] /\ ret'[m] = ret[m] /\ tree' = tree
      /\ act'[m] = (IF k = c THEN 0 ELSE k)
      /\ undo'[m] = (IF k = c THEN u - 1 ELSE u)
      /\ Jobs(m)' = Jobs(m) /\ Handlers(m)' = Handlers(m)
    BY <1>1, <1>3, AtNode DEF Jobs, Handlers
<1>9. RolledBack(job, k)' /\ \A n, i : RolledBack(n, i) => RolledBack(n, i)'
    BY <1>4, <1>7, LogKept DEF RolledBack
<1>10. /\ WorkInTurn(m)' /\ HandlersSoFar(m)' /\ CommandsSoFar(m)' /\ JobsSoFar(m)'
       /\ EndsInSuccess(m)' /\ EndsInFailure(m)'
    BY <1>1, <1>8, AtNode
       DEF Outcome, WorkInTurn, HandlersSoFar, CommandsSoFar, JobsSoFar, EndsInSuccess, EndsInFailure
<1>11. ActInRange(m)'
    BY <1>2, <1>3, <1>8 DEF ActInRange
<1>12. UndoneSoFar(m)'
  <2>1. /\ \A j \in DOMAIN Jobs(m) : u < j /\ j <= step[m] + 1 =>
             \A i \in 1..tree.rollback[Jobs(m)[j]] : RolledBack(Jobs(m)[j], i)
        /\ \A i \in 1..(k - 1) : RolledBack(job, i)
      BY <1>1, <1>2, <1>3, AtNode DEF Outcome, UndoneSoFar
  <2>2. \A i \in 1..k : RolledBack(job, i)'
    <3>1. \A i \in 1..k : i \in 1..(k - 1) \/ i = k
        OBVIOUS
    <3>2. QED  BY <1>9, <2>1, <3>1
  <2>3. CASE k = c
    <3>1. undo'[m] = u - 1 /\ act'[m] = 0
        BY <1>8, <2>3
    <3>2. \A j \in DOMAIN Jobs(m) : u - 1 < j => j = u \/ u < j
      <4>1. \A j \in DOMAIN Jobs(m) : j \in Nat
          BY AtNode
      <4>2. QED  BY <4>1
    <3>3. \A j \in DOMAIN Jobs(m) : u - 1 < j /\ j <= step[m] + 1 =>
             \A i \in 1..tree.rollback[Jobs(m)[j]] : RolledBack(Jobs(m)[j], i)'
        BY <1>2, <1>8, <1>9, <2>1, <2>2, <2>3, <3>2
    <3>4. QED  BY <1>8, <3>1, <3>3 DEF UndoneSoFar
  <2>4. CASE k # c
    <3>1. undo'[m] = u /\ act'[m] = k
        BY <1>8, <2>4
    <3>2. QED  BY <1>2, <1>8, <1>9, <2>1, <2>2, <3>1 DEF UndoneSoFar
  <2>5. QED  BY <2>3, <2>4
<1>13. /\ UndoneOnly(m) /\ UndoneInReverse(m)
       /\ \A e \in DOMAIN log : log[e].index \in Nat
       /\ \A j \in DOMAIN Jobs(m) : j \in Nat
  <2>1. UndoneOnly(m) /\ UndoneInReverse(m)
      BY AtNode DEF Outcome
  <2>2. log \in Seq(Event)
      BY DEF OInv, Inv, TypeOK
  <2>3. \A e \in DOMAIN log : log[e].index \in Nat
    <3>1. \A e \in DOMAIN log : log[e] \in Event
        BY <2>2
    <3>2. QED  BY <3>1 DEF Event
  <2>4. \A j \in DOMAIN Jobs(m) : j \in Nat
      BY AtNode
  <2>5. QED  BY <2>1, <2>3, <2>4
<1>14. UndoneOnly(m)'
  <2> SUFFICES ASSUME NEW e \in DOMAIN log', NEW j \in DOMAIN Jobs(m),
                      log'[e].op = "rollback", log'[e].node = Jobs(m)[j]
               PROVE  /\ j > undo'[m] \/ (j = undo'[m] /\ log'[e].index <= act'[m])
                      /\ \E i \in DOMAIN Jobs(m) : i >= j /\ Failed(Jobs(m)[i])'
      BY <1>8 DEF UndoneOnly
  <2>1. \A i \in DOMAIN Jobs(m) : Failed(Jobs(m)[i]) => Failed(Jobs(m)[i])'
      BY <1>7, <1>8, AtNode, ChildKept DEF OInv
  <2>2. CASE e \in DOMAIN log
    <3>1. /\ j > u \/ (j = u /\ log[e].index <= k - 1)
          /\ \E i \in DOMAIN Jobs(m) : i >= j /\ Failed(Jobs(m)[i])
        BY <1>1, <1>2, <1>3, <1>4, <1>13, <2>2 DEF UndoneOnly
    <3>2. log'[e].index \in Nat /\ j \in Nat
        BY <1>4, <1>13, <2>2
    <3>3. QED  BY <1>4, <1>8, <2>1, <2>2, <3>1, <3>2
  <2>3. CASE e = Len(log) + 1
    <3>1. j = u /\ log'[e].index = k
        BY <1>4, <1>5, <2>3
    <3>2. QED  BY <1>5, <1>8, <2>1, <3>1
  <2>4. QED  BY <1>4, <2>2, <2>3
<1>15. UndoneInReverse(m)'
  <2> SUFFICES ASSUME NEW i \in DOMAIN Jobs(m), NEW j \in DOMAIN Jobs(m),
                      NEW a \in DOMAIN log', NEW b \in DOMAIN log', a < b,
                      log'[a].op = "rollback", log'[a].node = Jobs(m)[i],
                      log'[b].op = "rollback", log'[b].node = Jobs(m)[j]
               PROVE  i > j \/ (i = j /\ log'[a].index < log'[b].index)
      BY <1>8 DEF UndoneInReverse
  <2>1. a \in DOMAIN log
      BY <1>4
  <2>2. CASE b \in DOMAIN log
      BY <1>4, <1>13, <2>1, <2>2 DEF UndoneInReverse
  <2>3. CASE b = Len(log) + 1
    <3>1. j = u /\ log'[b].index = k
        BY <1>4, <1>5, <2>3
    <3>2. i > u \/ (i = u /\ log[a].index <= k - 1)
        BY <1>1, <1>2, <1>3, <1>4, <1>13, <2>1 DEF UndoneOnly
    <3>3. log[a].index \in Nat
        BY <1>13, <2>1
    <3>4. QED  BY <1>4, <2>1, <3>1, <3>2, <3>3
  <2>4. QED  BY <1>4, <2>2, <2>3
<1>16. Outcome(m)'
    BY <1>10, <1>11, <1>12, <1>14, <1>15 DEF Outcome
<1>17. QED  BY <1>6, <1>7, <1>16, OtherOutcome

(* A job without rollback commands has none to run.                          *)
LEMMA RollbackMissingOutcome ==
    ASSUME OInv, NEW m \in Node, RollbackMissing(m)
    PROVE  \A n \in Node : Outcome(n)'
<1>1. pc[m] = "rollback" /\ undo[m] > 0 /\ tree.rollback[Jobs(m)[undo[m]]] = 0
    BY DEF RollbackMissing, Jobs
<1>2. /\ undo' = [undo EXCEPT ![m] = undo[m] - 1]
      /\ UNCHANGED <<tree, pc, step, ret, act, log>>
    BY AtNode DEF RollbackMissing
<1>3. Kept(m) /\ \A n \in Node : NothingNew(n)
    BY <1>1, <1>2, AtNode DEF Kept, NothingNew
<1>4. act[m] = 0 /\ undo[m] \in Nat
    BY <1>1, AtNode DEF Outcome, ActInRange
<1>5. /\ pc'[m] = "rollback" /\ step'[m] = step[m] /\ ret'[m] = ret[m] /\ act'[m] = 0 /\ undo'[m] = undo[m] - 1
      /\ Jobs(m)' = Jobs(m) /\ Handlers(m)' = Handlers(m) /\ tree' = tree
    BY <1>1, <1>2, <1>4, AtNode DEF Jobs, Handlers
<1>6. /\ WorkInTurn(m)' /\ HandlersSoFar(m)' /\ CommandsSoFar(m)' /\ JobsSoFar(m)' /\ ActInRange(m)'
      /\ EndsInSuccess(m)' /\ EndsInFailure(m)'
    BY <1>1, <1>5, AtNode
       DEF Outcome, WorkInTurn, HandlersSoFar, CommandsSoFar, JobsSoFar, ActInRange,
           EndsInSuccess, EndsInFailure
<1>7. /\ UndoneSoFar(m) /\ UndoneOnly(m) /\ UndoneInReverse(m)
      /\ \A j \in DOMAIN Jobs(m) : j \in Nat /\ Jobs(m)[j] \in Node
    BY AtNode DEF Outcome
<1>8. UndoneSoFar(m)'
  <2>1. \A j \in DOMAIN Jobs(m) : undo[m] - 1 < j => j = undo[m] \/ undo[m] < j
      BY <1>4, <1>7
  <2>2. \A n, i : RolledBack(n, i) => RolledBack(n, i)'
      BY <1>3, LogKept
  <2>3. \A j \in DOMAIN Jobs(m) : undo[m] - 1 < j /\ j <= step[m] + 1 =>
           \A i \in 1..tree.rollback[Jobs(m)[j]] : RolledBack(Jobs(m)[j], i)
      BY <1>1, <1>7, <2>1 DEF UndoneSoFar
  <2>4. QED  BY <1>5, <2>2, <2>3 DEF UndoneSoFar
<1>9. UndoneOnly(m)'
  <2>1. \A i \in DOMAIN Jobs(m) : Failed(Jobs(m)[i])' <=> Failed(Jobs(m)[i])
      BY <1>2 DEF Failed, Returned, Jobs
  <2>2. \A j \in DOMAIN Jobs(m) : j > undo[m] \/ j = undo[m] => j > undo[m] - 1
      BY <1>4, <1>7
  <2>3. QED  BY <1>1, <1>2, <1>5, <1>7, <2>1, <2>2 DEF UndoneOnly
<1>10. UndoneInReverse(m)'
    BY <1>2, <1>5, <1>7 DEF UndoneInReverse
<1>11. Outcome(m)'
    BY <1>6, <1>8, <1>9, <1>10 DEF Outcome
<1>12. QED  BY <1>3, <1>11, OtherOutcome

(* Node m returns, from where it stands all done.                            *)
LEMMA ReturnOutcome ==
    ASSUME OInv, NEW m \in Node, Return(m)
    PROVE  \A n \in Node : Outcome(n)'
<1>1. /\ \/ pc[m] = "handlers" /\ step[m] = Len(Handlers(m))
         \/ pc[m] = "exec" /\ step[m] = tree.exec[m]
         \/ pc[m] = "jobs" /\ step[m] = Len(Jobs(m))
         \/ pc[m] = "rollback" /\ undo[m] = 0
      /\ pc' = [pc EXCEPT ![m] = "returned"]
      /\ UNCHANGED <<tree, step, ret, undo, act, log>>
    BY DEF Return, Jobs, Handlers
<1>2. Kept(m) /\ \A n \in Node : NothingNew(n)
    BY <1>1, AtNode DEF Kept, NothingNew
<1>3. act[m] = 0
    BY <1>1, AtNode DEF Outcome, ActInRange
<1>4. /\ pc'[m] = "returned" /\ step'[m] = step[m] /\ ret'[m] = ret[m] /\ act'[m] = 0 /\ undo'[m] = undo[m]
      /\ Jobs(m)' = Jobs(m) /\ Handlers(m)' = Handlers(m) /\ tree' = tree
    BY <1>1, <1>3, AtNode DEF Jobs, Handlers
<1>5. /\ WorkInTurn(m)' /\ HandlersSoFar(m)' /\ CommandsSoFar(m)' /\ JobsSoFar(m)' /\ ActInRange(m)'
      /\ UndoneSoFar(m)'
    BY <1>4 DEF WorkInTurn, HandlersSoFar, CommandsSoFar, JobsSoFar, ActInRange, UndoneSoFar
<1>6. /\ Order(m) /\ Outcome(m) /\ step[m] \in Nat
      /\ \A j \in DOMAIN Jobs(m) : j \in Nat /\ j <= Len(Jobs(m)) /\ Jobs(m)[j] \in Node
      /\ \A j \in DOMAIN Handlers(m) : j \in Nat /\ j <= Len(Handlers(m)) /\ Handlers(m)[j] \in Node
    BY AtNode
<1>7. \A c \in Node : /\ pc[c] = "returned" => pc'[c] = "returned" /\ ret'[c] = ret[c]
                      /\ Failed(c) => Failed(c)'
                      /\ pc[c] \in {"idle", "returned"} /\ pc'[c] = "returned" => pc[c] = "returned"
    BY <1>2, ChildKept DEF OInv
<1>8. UndoneOnly(m)' /\ UndoneInReverse(m)'
  <2>1. UndoneInReverse(m)'
      BY <1>1, <1>4, <1>6 DEF Outcome, UndoneInReverse
  <2>2. UndoneOnly(m)'
      BY <1>1, <1>4, <1>6, <1>7 DEF Outcome, UndoneOnly
  <2>3. QED  BY <2>1, <2>2
<1>9. EndsInSuccess(m)'
  <2> SUFFICES ASSUME ret[m] = 0
               PROVE  /\ \A i \in DOMAIN Handlers(m) :
                           /\ pc'[Handlers(m)[i]] = "returned"
                           /\ ret'[Handlers(m)[i]] # 0 =>
                                \E j \in DOMAIN Handlers(m) : j # i /\ ret'[Handlers(m)[j]] # 0
                      /\ Handlers(m) = <<>> =>
                           /\ \A k \in 1..tree.exec[m] : Succeeded(m, k)'
                           /\ tree.exec[m] = 0 => \A i \in DOMAIN Jobs(m) :
                                  pc'[Jobs(m)[i]] = "returned" /\ ret'[Jobs(m)[i]] = 0
      BY <1>4 DEF EndsInSuccess
  <2>1. CASE pc[m] = "handlers"
    <3>1. /\ Handlers(m) # <<>>
          /\ \A i \in DOMAIN Handlers(m) : i <= step[m] /\ pc[Handlers(m)[i]] = "returned"
        BY <1>1, <1>6, <2>1 DEF Order, EarlierHandlersDone, Outcome, HandlersSoFar
    <3>2. \A i \in DOMAIN Handlers(m) : pc'[Handlers(m)[i]] = "returned" /\ ret'[Handlers(m)[i]] = ret[Handlers(m)[i]]
        BY <1>6, <1>7, <3>1
    <3>3. ASSUME NEW i \in DOMAIN Handlers(m), OthersSucceeded(m, i) PROVE ret[Handlers(m)[i]] = 0
        BY <1>6, <2>1, <3>1, <3>3 DEF Outcome, HandlersSoFar
    <3>4. \A i \in DOMAIN Handlers(m) :
             ret[Handlers(m)[i]] # 0 => \E j \in DOMAIN Handlers(m) : j # i /\ ret[Handlers(m)[j]] # 0
        BY <3>3 DEF OthersSucceeded
    <3>5. QED  BY <3>1, <3>2, <3>4
  <2>2. CASE pc[m] = "exec"
    <3>1. Handlers(m) = <<>> /\ tree.exec[m] > 0 /\ \A k \in 1..tree.exec[m] : Succeeded(m, k)
        BY <1>1, <1>6, <2>2 DEF Outcome, WorkInTurn, CommandsSoFar
    <3>2. \A k : Succeeded(m, k) => Succeeded(m, k)'
        BY <1>2, LogKept
    <3>3. QED  BY <3>1, <3>2
  <2>3. CASE pc[m] = "jobs"
    <3>1. Handlers(m) = <<>> /\ tree.exec[m] = 0
        BY <1>6, <2>3 DEF Outcome, WorkInTurn
    <3>2. \A i \in DOMAIN Jobs(m) : pc[Jobs(m)[i]] = "returned" /\ ret[Jobs(m)[i]] = 0
        BY <1>1, <1>6, <2>3 DEF Order, EarlierJobsDone
    <3>3. QED  BY <1>6, <1>7, <3>1, <3>2
  <2>4. CASE pc[m] = "rollback"
      BY <1>6, <2>4 DEF Outcome, JobsSoFar
  <2>5. QED  BY <1>1, <2>1, <2>2, <2>3, <2>4
<1>10. EndsInFailure(m)'
  <2> SUFFICES ASSUME NEW i \in DOMAIN Jobs(m), Failed(Jobs(m)[i])'
               PROVE  /\ ret[m] # 0
                      /\ \A j \in 1..i : \A k \in 1..tree.rollback[Jobs(m)[j]] : RolledBack(Jobs(m)[j], k)'
      BY <1>4 DEF EndsInFailure
  <2>1. pc'[Jobs(m)[i]] = "returned" /\ ret'[Jobs(m)[i]] # 0
      BY <1>4 DEF Failed, Returned
  <2>2. pc[m] \notin {"handlers", "exec"}
      BY <1>6, <1>7, <2>1 DEF Order, JobsNotBegun
  <2>3. ~(pc[m] = "jobs" /\ step[m] = Len(Jobs(m)))
      BY <1>6, <1>7, <2>1 DEF Order, EarlierJobsDone
  <2>4. pc[m] = "rollback" /\ undo[m] = 0
      BY <1>1, <2>2, <2>3
  <2>5. i <= step[m] + 1
      BY <1>6, <1>7, <2>1, <2>4 DEF Order, LaterJobsIdle
  <2>6. \A j \in 1..i : j \in DOMAIN Jobs(m) /\ 0 < j /\ j <= step[m] + 1
      BY <1>6, <2>5, AtNode, SMTT(30), ZenonT(30)
  <2>7. ret[m] # 0 /\ UndoneSoFar(m)
      BY <1>6, <2>4 DEF Outcome, JobsSoFar
  <2>8. \A n, k : RolledBack(n, k) => RolledBack(n, k)'
      BY <1>2, LogKept
  <2>9. QED  BY <1>4, <2>4, <2>6, <2>7, <2>8 DEF UndoneSoFar
<1>11. Outcome(m)'
    BY <1>5, <1>8, <1>9, <1>10 DEF Outcome
<1>12. QED  BY <1>2, <1>11, OtherOutcome
-----------------------------------------------------------------------------
LEMMA OutcomeInit == Init => OInv
<1> SUFFICES ASSUME Init PROVE OInv
    OBVIOUS
<1>1. Inv
    BY InvInit
<1>2. ASSUME NEW n \in Node PROVE Outcome(n)
  <2>1. pc[n] = "idle" /\ act[n] = 0 /\ log = <<>>
      BY DEF Init
  <2>2. QED
      BY <2>1 DEF Outcome, WorkInTurn, HandlersSoFar, CommandsSoFar, JobsSoFar, ActInRange, UndoneSoFar,
             UndoneOnly, UndoneInReverse, EndsInSuccess, EndsInFailure
<1>3. QED  BY <1>1, <1>2 DEF OInv

LEMMA OutcomeStep == OInv /\ [Next]_vars => OInv'
<1> SUFFICES ASSUME OInv, [Next]_vars PROVE OInv'
    OBVIOUS
<1>1. Inv'
    BY InvStep DEF OInv
<1>2. CASE Launch
  <2>1. tree.root \in Node /\ Invoke(tree.root)
      BY <1>2, WorkflowShape DEF Launch, OInv, Inv, TypeOK
  <2>2. QED  BY <1>1, <2>1, InvokeOutcome DEF OInv
<1>3. ASSUME NEW m \in Node, CallHandler(m) \/ CallJob(m) PROVE OInv'
  <2>1. PICK n \in Node : Invoke(n)
      BY <1>3, CallHandlerInvokes, CallJobInvokes DEF OInv, Inv
  <2>2. QED  BY <1>1, <2>1, InvokeOutcome DEF OInv
<1>4. ASSUME NEW m \in Node, HandlerReturned(m) PROVE OInv'
    BY <1>1, <1>4, HandlerReturnedOutcome DEF OInv
<1>5. ASSUME NEW m \in Node, JobSucceeded(m) PROVE OInv'
    BY <1>1, <1>5, JobSucceededOutcome DEF OInv
<1>6. ASSUME NEW m \in Node, JobFailed(m) PROVE OInv'
    BY <1>1, <1>6, JobFailedOutcome DEF OInv
<1>7. ASSUME NEW m \in Node, RollbackMissing(m) PROVE OInv'
    BY <1>1, <1>7, RollbackMissingOutcome DEF OInv
<1>8. ASSUME NEW m \in Node, Return(m) PROVE OInv'
    BY <1>1, <1>8, ReturnOutcome DEF OInv
<1>9. ASSUME NEW m \in Node, NEW status \in Statuses, ExecCommand(m, status) PROVE OInv'
    BY <1>1, <1>9, ExecCommandOutcome DEF OInv
<1>10. ASSUME NEW m \in Node, NEW status \in Statuses, RollbackCommand(m, status) PROVE OInv'
    BY <1>1, <1>10, RollbackCommandOutcome DEF OInv
<1>11. CASE UNCHANGED vars
  <2>1. ASSUME NEW n \in Node PROVE Outcome(n)'
      BY <1>11 DEF OInv, vars, Outcome, WorkInTurn, HandlersSoFar, OthersSucceeded, CommandsSoFar, JobsSoFar, ActInRange,
             UndoneSoFar, UndoneOnly, UndoneInReverse, EndsInSuccess, EndsInFailure, Jobs, Handlers,
             Succeeded, RolledBack, Failed, Returned
  <2>2. QED  BY <1>1, <2>1 DEF OInv
<1>12. QED
    BY <1>2, <1>3, <1>4, <1>5, <1>6, <1>7, <1>8, <1>9, <1>10, <1>11 DEF Next, RunStep

LEMMA OutcomeInvariance == Spec => []OInv
BY OutcomeInit, OutcomeStep, PTL DEF Spec

(* kbbi.c:142-206: whatever the workflow, and whatever ints its commands      *)
(* return, a node returns 0 only when its commands and jobs all succeeded, and *)
(* when not exactly one of its handlers failed.                              *)
THEOREM SuccessNeverHidesFailure == Spec => []SuccessIsTotal
<1>1. OInv => SuccessIsTotal
  <2> SUFFICES ASSUME OInv, NEW n \in Node, Returned(n), ret[n] = 0
               PROVE  /\ \A i \in DOMAIN tree.handlers[n] :
                           /\ Returned(tree.handlers[n][i])
                           /\ Failed(tree.handlers[n][i]) =>
                                \E j \in DOMAIN tree.handlers[n] : j # i /\ Failed(tree.handlers[n][j])
                      /\ tree.handlers[n] = <<>> =>
                           /\ \A k \in 1..tree.exec[n] : Succeeded(n, k)
                           /\ tree.exec[n] = 0 =>
                                \A i \in DOMAIN tree.jobs[n] :
                                    Returned(tree.jobs[n][i]) /\ ret[tree.jobs[n][i]] = 0
      BY DEF SuccessIsTotal, Succeeded
  <2>1. EndsInSuccess(n) /\ pc[n] = "returned"
      BY DEF OInv, Outcome, Returned
  <2>2. QED  BY <2>1 DEF EndsInSuccess, Returned, Failed, Handlers, Jobs
<1>2. QED  BY <1>1, OutcomeInvariance, PTL

(* kbbi.c:174-193: however many jobs a node has and whichever of them fails,   *)
(* it and all before it are rolled back in full, and nothing else is.        *)
THEOREM FailureAlwaysCompensated == Spec => []FailureIsCompensated
<1>1. OInv => FailureIsCompensated
  <2> SUFFICES ASSUME OInv PROVE FailureIsCompensated
      OBVIOUS
  <2>1. \A n \in Node : EndsInFailure(n) /\ UndoneOnly(n)
      BY DEF OInv, Outcome
  <2>2. ASSUME NEW n \in Node, NEW i \in DOMAIN tree.jobs[n], pc[n] = "returned", Failed(tree.jobs[n][i])
        PROVE  /\ ret[n] # 0
               /\ \A j \in 1..i : \A k \in 1..tree.rollback[tree.jobs[n][j]] : RolledBack(tree.jobs[n][j], k)
      BY <2>1, <2>2 DEF EndsInFailure, Jobs
  <2>3. ASSUME NEW n \in Node, NEW e \in DOMAIN log, NEW j \in DOMAIN tree.jobs[n],
               log[e].op = "rollback", log[e].node = tree.jobs[n][j]
        PROVE  \E i \in DOMAIN tree.jobs[n] : i >= j /\ Failed(tree.jobs[n][i])
      BY <2>1, <2>3 DEF UndoneOnly, Jobs
  <2>4. QED  BY <2>2, <2>3 DEF FailureIsCompensated
<1>2. QED  BY <1>1, OutcomeInvariance, PTL

(* The rollback of a node's jobs is in the reverse order of the jobs, each     *)
(* job's commands in theirs, none of them twice.                            *)
THEOREM RollbackInReverse == Spec => []UndoInReverse
<1>1. OInv => UndoInReverse
    BY DEF OInv, Outcome, UndoneInReverse, UndoInReverse, Jobs
<1>2. QED  BY <1>1, OutcomeInvariance, PTL
-----------------------------------------------------------------------------
(* The refinement.  A step of m is seen only at m: no life but m's changes,   *)
(* and nothing is undone but jobs of m.                                     *)
LEMMA OthersUnseen ==
    ASSUME OInv, NEW m \in Node, Kept(m), NEW n \in Node, n # m
    PROVE  Life(n)' = Life(n) /\ Undone(n)' = Undone(n)
<1>1. Life(n)' = Life(n)
    BY DEF Kept, Life
<1>2. Undone(n)' = Undone(n)
  <2>1. /\ Jobs(n)' = Jobs(n) /\ \A i \in DOMAIN Jobs(n) : Jobs(n)[i] \in Node
        /\ pc'[n] = pc[n] /\ step'[n] = step[n] /\ undo'[n] = undo[n]
      BY AtNode DEF Kept, Jobs
  <2>2. CASE pc[n] \in {"rollback", "returned"}
    <3>1. \A i \in DOMAIN Jobs(n) : pc[Jobs(n)[i]] \in {"idle", "returned"}
        BY <2>2, QuietInv DEF OInv, QuietBelow, Jobs
    <3>2. \A i \in DOMAIN Jobs(n) : Failed(Jobs(n)[i])' <=> Failed(Jobs(n)[i])
        BY <2>1, <3>1, ChildKept DEF OInv, Failed, Returned
    <3>3. QED  BY <2>1, <3>2 DEF Undone, Jobs
  <2>3. CASE pc[n] \notin {"rollback", "returned"}
      BY <2>1, <2>3 DEF Undone
  <2>4. QED  BY <2>2, <2>3
<1>3. QED  BY <1>1, <1>2

(* So a step that changes neither at m is none of the saga's, ...            *)
LEMMA UnseenStep ==
    ASSUME OInv, NEW m \in Node, Kept(m), Life(m)' = Life(m), Undone(m)' = Undone(m)
    PROVE  UNCHANGED Saga!vars
<1>1. \A n \in Node : Life(n)' = Life(n) /\ Undone(n)' = Undone(n)
    BY OthersUnseen
<1>2. tree' = tree
    BY DEF Kept
<1>3. QED  BY <1>1, <1>2 DEF Saga!vars

(* ... one that changes its life, or its count, is the saga's at m.          *)
LEMMA LifeStep ==
    ASSUME OInv, NEW m \in Node, Kept(m), Undone(m)' = Undone(m)
    PROVE  /\ [n \in Node |-> Life(n)]' = [[n \in Node |-> Life(n)] EXCEPT ![m] = Life(m)']
           /\ [n \in Node |-> Undone(n)]' = [n \in Node |-> Undone(n)]
<1>1. \A n \in Node : (n # m => Life(n)' = Life(n)) /\ Undone(n)' = Undone(n)
    BY OthersUnseen
<1>2. QED  BY <1>1

LEMMA UndoneStep ==
    ASSUME OInv, NEW m \in Node, Kept(m), Life(m)' = Life(m)
    PROVE  /\ [n \in Node |-> Undone(n)]' = [[n \in Node |-> Undone(n)] EXCEPT ![m] = Undone(m)']
           /\ [n \in Node |-> Life(n)]' = [n \in Node |-> Life(n)]
<1>1. \A n \in Node : (n # m => Undone(n)' = Undone(n)) /\ Life(n)' = Life(n)
    BY OthersUnseen
<1>2. QED  BY <1>1

LEMMA SagaInit == Init => Saga!Init
<1> SUFFICES ASSUME Init PROVE Saga!Init
    OBVIOUS
<1>1. \A n \in Node : Life(n) = "idle" /\ Undone(n) = 0
    BY DEF Init, Life, Undone
<1>2. QED  BY <1>1 DEF Init, Saga!Init

(* A node is invoked when its caller has come to it.                         *)
LEMMA InvokeBegins ==
    ASSUME OInv, NEW m \in Node, Invoke(m),
           \/ m = tree.root
           \/ \E n \in Node : /\ pc[n] = "handlers" /\ step[n] + 1 \in DOMAIN Handlers(n)
                             /\ m = Handlers(n)[step[n] + 1]
           \/ \E n \in Node : /\ pc[n] = "jobs" /\ step[n] + 1 \in DOMAIN Jobs(n)
                             /\ m = Jobs(n)[step[n] + 1]
    PROVE  Saga!Begin(m)
<1>1. /\ pc[m] = "idle" /\ pc' = [pc EXCEPT ![m] = FirstWork(m)]
      /\ UNCHANGED <<tree, step, undo, act, log>> /\ ret' = [ret EXCEPT ![m] = 0]
      /\ FirstWork(m) \in {"handlers", "exec", "jobs"}
    BY DEF Invoke, FirstWork
<1>2. Kept(m)
    BY <1>1, AtNode DEF Kept
<1>3. Life(m) = "idle" /\ Life(m)' = "active" /\ Undone(m) = 0 /\ Undone(m)' = 0
    BY <1>1, AtNode DEF Life, Undone
<1> DEFINE life == [n \in Node |-> Life(n)]
<1>4. Saga!MayBegin(m)
  <2>1. ASSUME NEW n \in Node, pc[n] = "handlers", step[n] + 1 \in DOMAIN Handlers(n),
               m = Handlers(n)[step[n] + 1]
        PROVE  Saga!MayBegin(m)
    <3>1. PICK i \in DOMAIN Handlers(n) : i = step[n] + 1 /\ i \in Nat
        BY <2>1, AtNode
    <3>2. life[n] = "active"
        BY <2>1 DEF Life
    <3>3. ASSUME NEW j \in 1..(i - 1) PROVE life[Handlers(n)[j]] \in {"ok", "failed"}
      <4>1. j \in DOMAIN Handlers(n) /\ j <= step[n]
        <5>1. /\ step[n] \in Nat /\ Len(Handlers(n)) \in Nat /\ i <= Len(Handlers(n))
              /\ \A l \in Nat : 1 <= l /\ l <= Len(Handlers(n)) => l \in DOMAIN Handlers(n)
            BY AtNode
        <5>2. QED  BY <3>1, <3>3, <5>1
      <4>2. QED  BY <2>1, <4>1, AtNode DEF Order, EarlierHandlersDone, Life
    <3>4. m = Handlers(n)[i]
        BY <2>1, <3>1
    <3>5. QED  BY <3>2, <3>3, <3>4, Zenon DEF Saga!MayBegin, Saga!Finished, Handlers
  <2>2. ASSUME NEW n \in Node, pc[n] = "jobs", step[n] + 1 \in DOMAIN Jobs(n),
               m = Jobs(n)[step[n] + 1]
        PROVE  Saga!MayBegin(m)
    <3>1. PICK i \in DOMAIN Jobs(n) : i = step[n] + 1 /\ i \in Nat
        BY <2>2, AtNode
    <3>2. life[n] = "active"
        BY <2>2 DEF Life
    <3>3. ASSUME NEW j \in 1..(i - 1) PROVE life[Jobs(n)[j]] = "ok"
      <4>1. j \in DOMAIN Jobs(n) /\ j <= step[n]
        <5>1. /\ step[n] \in Nat /\ Len(Jobs(n)) \in Nat /\ i <= Len(Jobs(n))
              /\ \A l \in Nat : 1 <= l /\ l <= Len(Jobs(n)) => l \in DOMAIN Jobs(n)
            BY AtNode
        <5>2. QED  BY <3>1, <3>3, <5>1
      <4>2. QED  BY <2>2, <4>1, AtNode DEF Order, EarlierJobsDone, Life
    <3>4. m = Jobs(n)[i]
        BY <2>2, <3>1
    <3>5. QED  BY <3>2, <3>3, <3>4, Zenon DEF Saga!MayBegin, Jobs
  <2>3. QED  BY <2>1, <2>2 DEF Saga!MayBegin
<1>5. QED  BY <1>1, <1>2, <1>3, <1>4, LifeStep DEF Saga!Begin

(* A node returns when it is settled, with the saga's verdict.               *)
LEMMA ReturnFinishes ==
    ASSUME OInv, NEW m \in Node, Return(m)
    PROVE  Saga!Finish(m)
<1>1. /\ \/ pc[m] = "handlers" /\ step[m] = Len(Handlers(m))
         \/ pc[m] = "exec" /\ step[m] = tree.exec[m]
         \/ pc[m] = "jobs" /\ step[m] = Len(Jobs(m))
         \/ pc[m] = "rollback" /\ undo[m] = 0
      /\ pc' = [pc EXCEPT ![m] = "returned"]
      /\ UNCHANGED <<tree, step, ret, undo, act, log>>
    BY DEF Return, Jobs, Handlers
<1>2. Kept(m)
    BY <1>1, AtNode DEF Kept
<1>3. Life(m) = "active" /\ Life(m)' = (IF ret[m] = 0 THEN "ok" ELSE "failed")
    BY <1>1, AtNode DEF Life
<1>4. /\ Order(m) /\ Outcome(m) /\ step[m] \in Nat
      /\ \A i \in DOMAIN Jobs(m) : i \in Nat /\ i <= Len(Jobs(m)) /\ Jobs(m)[i] \in Node
      /\ \A i \in DOMAIN Handlers(m) : i \in Nat /\ i <= Len(Handlers(m)) /\ Handlers(m)[i] \in Node
    BY AtNode
<1> DEFINE life == [n \in Node |-> Life(n)]
           undone == [n \in Node |-> Undone(n)]
<1>5. Undone(m)' = Undone(m)
  <2>1. ASSUME NEW i \in DOMAIN Jobs(m) PROVE Failed(Jobs(m)[i])' => pc[m] = "rollback" /\ Failed(Jobs(m)[i])
    <3>1. pc[m] \in {"handlers", "exec"} => pc[Jobs(m)[i]] = "idle"
        BY <1>4 DEF Order, JobsNotBegun
    <3>2. pc[m] = "jobs" => pc[Jobs(m)[i]] = "returned" /\ ret[Jobs(m)[i]] = 0
        BY <1>1, <1>4 DEF Order, EarlierJobsDone
    <3>3. pc[m] = "rollback" => pc[Jobs(m)[i]] \in {"idle", "returned"}
        BY QuietInv DEF OInv, QuietBelow, Jobs
    <3>4. QED  BY <1>1, <1>2, <1>4, <3>1, <3>2, <3>3, ChildKept DEF OInv, Failed, Returned, Jobs
  <2>2. ASSUME NEW i \in DOMAIN Jobs(m), Failed(Jobs(m)[i]) PROVE Failed(Jobs(m)[i])'
      BY <1>1, <1>2, <1>4, <2>2, ChildKept DEF OInv, Jobs
  <2>3. QED  BY <1>1, <2>1, <2>2, AtNode DEF Undone, Jobs
<1>6. CASE pc[m] = "handlers"
  <2>1. Handlers(m) # <<>> /\ \A i \in DOMAIN Handlers(m) : pc[Handlers(m)[i]] = "returned"
      BY <1>1, <1>4, <1>6 DEF Order, EarlierHandlersDone, Outcome, HandlersSoFar
  <2>2. /\ (\A i \in DOMAIN Handlers(m) : ret[Handlers(m)[i]] = 0) => ret[m] = 0
        /\ \A i \in DOMAIN Handlers(m) :
             (\A j \in DOMAIN Handlers(m) : j # i => ret[Handlers(m)[j]] = 0) => ret[m] = ret[Handlers(m)[i]]
      BY <1>1, <1>4, <1>6 DEF Outcome, HandlersSoFar, OthersSucceeded
  <2>3. \A i \in DOMAIN Handlers(m) : life[Handlers(m)[i]] = (IF ret[Handlers(m)[i]] = 0 THEN "ok" ELSE "failed")
      BY <1>4, <2>1 DEF Life
  <2>4. Saga!Settled(m)
      BY <2>1, <2>3 DEF Saga!Settled, Saga!Finished, Handlers
  <2>5. Life(m)' \in Saga!Verdict(m)
    <3> DEFINE failed == {i \in DOMAIN Handlers(m) : life[Handlers(m)[i]] = "failed"}
    <3>1. \A i \in DOMAIN Handlers(m) : i \in failed <=> ret[Handlers(m)[i]] # 0
      <4> HIDE DEF life
      <4>1. QED  BY <2>3
    <3>2. failed = {} => Life(m)' = "ok"
        BY <1>3, <2>2, <3>1
    <3>3. ASSUME NEW i \in failed, failed = {i} PROVE Life(m)' = "failed"
        BY <1>3, <2>2, <3>1, <3>3
    <3>4. Life(m)' \in {"ok", "failed"}
        BY <1>3
    <3>5. Saga!Verdict(m) = IF failed = {} THEN {"ok"}
                            ELSE IF \E i \in failed : failed = {i} THEN {"failed"} ELSE {"ok", "failed"}
        BY <2>1 DEF Saga!Verdict, Handlers
    <3> HIDE DEF failed
    <3>6. QED  BY <3>2, <3>3, <3>4, <3>5
  <2>6. QED  BY <1>1, <1>2, <1>3, <1>5, <2>4, <2>5, LifeStep DEF Saga!Finish
<1>7. CASE pc[m] = "exec"
  <2>1. Handlers(m) = <<>> /\ Jobs(m) = <<>>
      BY <1>4, <1>7, OneKindOfWork DEF Outcome, WorkInTurn, CommandsSoFar, OInv, Inv, TypeOK, Jobs
  <2>2. Saga!Settled(m) /\ Life(m)' \in Saga!Verdict(m)
      BY <1>3, <2>1 DEF Saga!Settled, Saga!Verdict, Handlers, Jobs
  <2>3. QED  BY <1>1, <1>2, <1>3, <1>5, <2>2, LifeStep DEF Saga!Finish
<1>8. CASE pc[m] = "jobs"
  <2>1. Handlers(m) = <<>> /\ ret[m] = 0
      BY <1>4, <1>8 DEF Outcome, WorkInTurn, JobsSoFar
  <2>2. \A i \in DOMAIN Jobs(m) : life[Jobs(m)[i]] = "ok"
      BY <1>1, <1>4, <1>8 DEF Order, EarlierJobsDone, Life
  <2>3. Saga!Settled(m) /\ Life(m)' \in Saga!Verdict(m)
      BY <1>3, <2>1, <2>2 DEF Saga!Settled, Saga!Verdict, Handlers, Jobs
  <2>4. QED  BY <1>1, <1>2, <1>3, <1>5, <2>3, LifeStep DEF Saga!Finish
<1>9. CASE pc[m] = "rollback"
  <2>1. Handlers(m) = <<>> /\ ret[m] # 0 /\ undo[m] = 0
      BY <1>1, <1>4, <1>9 DEF Outcome, WorkInTurn, JobsSoFar
  <2>2. step[m] + 1 \in DOMAIN Jobs(m) /\ Failed(Jobs(m)[step[m] + 1])
      BY <1>4, <1>9, AtNode DEF Order, UndoInRange, RollbackAfterFailure
  <2>3. life[Jobs(m)[step[m] + 1]] = "failed" /\ undone[m] = step[m] + 1
      BY <1>4, <1>9, <2>1, <2>2 DEF Life, Undone, Failed, Returned, Jobs
  <2>4. Saga!Settled(m)
    <3>1. PICK i \in DOMAIN Jobs(m) : life[Jobs(m)[i]] = "failed" /\ undone[m] = i
        BY <2>2, <2>3
    <3>2. QED  BY <2>1, <3>1, Zenon DEF Saga!Settled, Saga!FailedJob, Handlers, Jobs
  <2>5. Life(m)' \in Saga!Verdict(m)
    <3>1. Life(m)' = "failed" /\ Jobs(m) # <<>>
        BY <1>3, <2>1, <2>2
    <3>2. PICK i \in DOMAIN Jobs(m) : life[Jobs(m)[i]] # "ok"
        BY <2>2, <2>3
    <3>3. QED  BY <2>1, <3>1, <3>2 DEF Saga!Verdict, Handlers, Jobs
  <2>6. QED  BY <1>1, <1>2, <1>3, <1>5, <2>4, <2>5, LifeStep DEF Saga!Finish
<1>10. QED  BY <1>1, <1>6, <1>7, <1>8, <1>9

(* The last rollback command of a job, or a job without any, compensates it.  *)
LEMMA UndoCompensates ==
    ASSUME OInv, NEW m \in Node, Kept(m), pc[m] = "rollback", pc'[m] = "rollback",
           undo[m] > 0, undo'[m] = undo[m] - 1, step'[m] = step[m]
    PROVE  Saga!Compensate(m)
<1>1. PICK i \in DOMAIN Jobs(m) : i = step[m] + 1 /\ Failed(Jobs(m)[i]) /\ Jobs(m)[i] \in Node
    BY RollingBack, AtNode
<1>2. /\ i \in Nat /\ step[m] \in Nat /\ undo[m] \in Nat /\ undo[m] <= i
      /\ \E x \in DOMAIN tree.jobs[m] : Failed(tree.jobs[m][x])
  <2>1. i \in Nat /\ step[m] \in Nat /\ undo[m] \in Nat
      BY <1>1, AtNode
  <2>2. undo[m] <= step[m] + 1
      BY RollingBack
  <2>3. QED  BY <1>1, <2>1, <2>2 DEF Jobs
<1>3. /\ Jobs(m)' = Jobs(m) /\ tree' = tree /\ Failed(Jobs(m)[i])'
      /\ \E x \in DOMAIN tree'.jobs[m] : Failed(tree.jobs[m][x])'
  <2>1. tree' = tree /\ Jobs(m)' = Jobs(m)
      BY DEF Kept, Jobs
  <2>2. Failed(Jobs(m)[i])'
      BY <1>1, <2>1, ChildKept DEF OInv
  <2>3. QED  BY <1>1, <2>1, <2>2 DEF Jobs
<1>4. /\ Undone(m) = step[m] + 1 - undo[m]
      /\ Undone(m)' = step[m] + 1 - (undo[m] - 1)
  <2>1. Undone(m) = step[m] + 1 - undo[m]
      BY <1>2 DEF Undone
  <2>2. Undone(m)' = step'[m] + 1 - undo'[m]
      BY <1>3 DEF Undone
  <2>3. QED  BY <2>1, <2>2
<1>5. Life(m) = "active" /\ Life(m)' = "active"
    BY DEF Life
<1>6. Undone(m)' = Undone(m) + 1 /\ Undone(m) < i
    BY <1>1, <1>2, <1>4
<1>7. Life(Jobs(m)[i]) = "failed"
    BY <1>1 DEF Life, Failed, Returned
<1>8. QED  BY <1>1, <1>3, <1>5, <1>6, <1>7, UndoneStep DEF Saga!Compensate, Saga!FailedJob, Jobs

(* Every other step of m leaves what the saga sees as it is.                 *)
LEMMA RunningUnseen ==
    ASSUME OInv, NEW m \in Node, Kept(m), pc[m] \in {"handlers", "exec", "jobs", "rollback"},
           \/ pc'[m] = pc[m] /\ undo'[m] = undo[m] /\ step'[m] = step[m]
           \/ pc'[m] = pc[m] /\ pc[m] # "rollback"
           \/ pc'[m] = "rollback" /\ pc[m] = "jobs" /\ undo'[m] = step[m] + 1 /\ step'[m] = step[m]
    PROVE  UNCHANGED Saga!vars
<1>1. Life(m)' = Life(m)
    BY DEF Life
<1>2. Undone(m)' = Undone(m)
  <2>1. CASE pc'[m] \notin {"rollback", "returned"}
      BY <2>1 DEF Undone
  <2>2. CASE pc'[m] = "rollback" /\ pc[m] = "jobs"
      BY <2>2, AtNode DEF Undone
  <2>3. CASE pc'[m] = "rollback" /\ pc[m] = "rollback"
    <3>1. \A i \in DOMAIN Jobs(m) : Jobs(m)[i] \in Node /\ pc[Jobs(m)[i]] \in {"idle", "returned"}
        BY <2>3, QuietInv, AtNode DEF OInv, QuietBelow, Jobs
    <3>2. Jobs(m)' = Jobs(m)
        BY DEF Kept, Jobs
    <3>3. \A i \in DOMAIN Jobs(m) : Failed(Jobs(m)[i])' <=> Failed(Jobs(m)[i])
        BY <3>1, <3>2, ChildKept DEF OInv, Failed, Returned
    <3>4. QED  BY <2>3, <3>2, <3>3 DEF Undone, Jobs
  <2>4. QED  BY <2>1, <2>2, <2>3
<1>3. QED  BY <1>1, <1>2, UnseenStep

(* A rollback command keeps the rest, and tells the saga of a job undone only *)
(* if it was the job's last.                                                *)
LEMMA RollbackCommandSteps ==
    ASSUME OInv, NEW m \in Node, NEW status \in Statuses, RollbackCommand(m, status)
    PROVE  Saga!Compensate(m) \/ UNCHANGED Saga!vars
<1> DEFINE job   == tree.jobs[m][undo[m]]
           event == [op |-> "rollback", node |-> job, index |-> act[m] + 1, ok |-> (status = 0)]
           last  == act[m] + 1 = tree.rollback[job]
<1>1. /\ pc[m] = "rollback" /\ undo[m] > 0
      /\ log' = Append(log, event)
      /\ act' = [act EXCEPT ![m] = IF last THEN 0 ELSE act[m] + 1]
      /\ undo' = [undo EXCEPT ![m] = IF last THEN undo[m] - 1 ELSE undo[m]]
      /\ UNCHANGED <<tree, pc, step, ret>>
    BY AtNode DEF RollbackCommand
<1>2. Kept(m)
    BY <1>1, LogAppend, AtNode DEF Kept, OInv, Inv
<1>3. pc'[m] = "rollback" /\ step'[m] = step[m] /\ undo'[m] = (IF last THEN undo[m] - 1 ELSE undo[m])
    BY <1>1, AtNode
<1>4. CASE last
    BY <1>1, <1>2, <1>3, <1>4, UndoCompensates
<1>5. CASE ~last
    BY <1>1, <1>2, <1>3, <1>5, RunningUnseen
<1>6. QED  BY <1>4, <1>5

LEMMA RollbackMissingCompensates ==
    ASSUME OInv, NEW m \in Node, RollbackMissing(m)
    PROVE  Saga!Compensate(m)
<1>1. /\ pc[m] = "rollback" /\ undo[m] > 0
      /\ undo' = [undo EXCEPT ![m] = undo[m] - 1]
      /\ UNCHANGED <<tree, pc, step, ret, act, log>>
    BY AtNode DEF RollbackMissing
<1>2. Kept(m) /\ undo'[m] = undo[m] - 1
    BY <1>1, AtNode DEF Kept
<1>3. QED  BY <1>1, <1>2, UndoCompensates

(* What the handlers, commands and jobs of m do to m alone.                  *)
LEMMA WorkUnseen ==
    ASSUME OInv, NEW m \in Node,
           \/ HandlerReturned(m) \/ JobSucceeded(m) \/ JobFailed(m)
           \/ \E status \in Statuses : ExecCommand(m, status)
    PROVE  UNCHANGED Saga!vars
<1>1. CASE HandlerReturned(m)
  <2>1. pc[m] = "handlers" /\ pc' = pc
      BY <1>1 DEF HandlerReturned
  <2>2. Kept(m)
      BY <1>1, <2>1, AtNode DEF Kept, HandlerReturned
  <2>3. QED  BY <2>1, <2>2, RunningUnseen
<1>2. CASE JobSucceeded(m)
  <2>1. pc[m] = "jobs" /\ pc' = pc
      BY <1>2 DEF JobSucceeded
  <2>2. Kept(m)
      BY <1>2, <2>1, AtNode DEF Kept, JobSucceeded
  <2>3. QED  BY <2>1, <2>2, RunningUnseen
<1>3. CASE JobFailed(m)
  <2>1. /\ pc[m] = "jobs" /\ pc'[m] = "rollback"
        /\ undo'[m] = step[m] + 1 /\ step'[m] = step[m]
      BY <1>3, AtNode DEF JobFailed
  <2>2. Kept(m)
      BY <1>3, <2>1, AtNode DEF Kept, JobFailed
  <2>3. QED  BY <2>1, <2>2, RunningUnseen
<1>4. ASSUME NEW status \in Statuses, ExecCommand(m, status) PROVE UNCHANGED Saga!vars
  <2>1. pc[m] = "exec" /\ pc' = pc
      BY <1>4 DEF ExecCommand
  <2>2. \A e \in DOMAIN log : e \in DOMAIN log' /\ log'[e] = log[e]
      BY <1>4, LogAppend DEF ExecCommand, OInv, Inv
  <2>3. Kept(m)
      BY <1>4, <2>1, <2>2, AtNode DEF Kept, ExecCommand
  <2>4. QED  BY <2>1, <2>3, RunningUnseen
<1>5. QED  BY <1>1, <1>2, <1>3, <1>4

LEMMA CallBegins ==
    ASSUME OInv, NEW n \in Node, CallHandler(n) \/ CallJob(n)
    PROVE  \E m \in Node : Saga!Begin(m)
<1>1. CASE CallHandler(n)
  <2>1. /\ pc[n] = "handlers" /\ step[n] < Len(Handlers(n)) /\ Invoke(Handlers(n)[step[n] + 1])
      BY <1>1 DEF CallHandler, Handlers
  <2>2. PICK m \in Node : m = Handlers(n)[step[n] + 1] /\ step[n] + 1 \in DOMAIN Handlers(n)
      BY <2>1, AtNode
  <2>3. Invoke(m)
      BY <2>1, <2>2
  <2>4. QED  BY <2>1, <2>2, <2>3, InvokeBegins
<1>2. CASE CallJob(n)
  <2>1. /\ pc[n] = "jobs" /\ step[n] < Len(Jobs(n)) /\ Invoke(Jobs(n)[step[n] + 1])
      BY <1>2 DEF CallJob, Jobs
  <2>2. PICK m \in Node : m = Jobs(n)[step[n] + 1] /\ step[n] + 1 \in DOMAIN Jobs(n)
      BY <2>1, AtNode
  <2>3. Invoke(m)
      BY <2>1, <2>2
  <2>4. QED  BY <2>1, <2>2, <2>3, InvokeBegins
<1>3. QED  BY <1>1, <1>2

LEMMA SagaStep == OInv /\ [Next]_vars => [Saga!Next]_(Saga!vars)
<1> SUFFICES ASSUME OInv, [Next]_vars PROVE Saga!Next \/ UNCHANGED Saga!vars
    OBVIOUS
<1>1. CASE Launch
  <2>1. PICK m \in Node : m = tree.root
      BY WorkflowShape DEF OInv, Inv, TypeOK
  <2>2. Saga!Begin(m)
      BY <1>1, <2>1, InvokeBegins DEF Launch
  <2>3. QED  BY <2>2 DEF Saga!Next
<1>2. ASSUME NEW n \in Node, RunStep(n) PROVE Saga!Next \/ UNCHANGED Saga!vars
  <2>1. CASE CallHandler(n) \/ CallJob(n)
      BY <2>1, CallBegins DEF Saga!Next
  <2>2. CASE \/ HandlerReturned(n) \/ JobSucceeded(n) \/ JobFailed(n)
             \/ \E status \in Statuses : ExecCommand(n, status)
      BY <2>2, WorkUnseen
  <2>3. CASE RollbackMissing(n)
      BY <2>3, RollbackMissingCompensates DEF Saga!Next
  <2>4. ASSUME NEW status \in Statuses, RollbackCommand(n, status)
        PROVE  Saga!Next \/ UNCHANGED Saga!vars
      BY <2>4, RollbackCommandSteps DEF Saga!Next
  <2>5. CASE Return(n)
      BY <2>5, ReturnFinishes DEF Saga!Next
  <2>6. QED  BY <1>2, <2>1, <2>2, <2>3, <2>4, <2>5 DEF RunStep
<1>3. CASE UNCHANGED vars
    BY <1>3 DEF vars, Saga!vars, Life, Undone, Failed, Returned
<1>4. QED  BY <1>1, <1>2, <1>3 DEF Next

(* kbbi.c:136-206: the safety half of ImplementsSaga.  Seen as lives and       *)
(* counts of jobs undone, a run starts as the saga does and every step of     *)
(* kbbi_run is a step of the saga or none; that it also ends is left to TLC.  *)
THEOREM StepsAreTheSagas == Spec => Saga!Init /\ [][Saga!Next]_(Saga!vars)
<1>1. OInv /\ [Next]_vars => [Saga!Next]_(Saga!vars)
    BY SagaStep
<1>2. Init => Saga!Init
    BY SagaInit
<1>3. QED  BY <1>1, <1>2, OutcomeInvariance, PTL DEF Spec
=============================================================================
