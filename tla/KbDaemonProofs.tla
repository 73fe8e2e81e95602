--------------------------- MODULE KbDaemonProofs ---------------------------
(***************************************************************************)
(* Theorems about the daemon for any number of root nodes in any order: its  *)
(* type, and that no thread runs its workflow on a tree main has freed.      *)
(*                                                                         *)
(* NoRunOnFreedTree holds because main passes the join only over completed   *)
(* threads, and a thread that is completed has left its loop for good.       *)
(***************************************************************************)
EXTENDS KbDaemon, TLAPS

(* The threads main has not come to are not born.                           *)
LaterUnborn == main = "launch" => \A t \in Threads : t >= next => stage[t] = "unborn"

(* A thread says it is completed when it has left its loop.                  *)
CompletedHaveLeft == \A t \in Threads : completed[t] => stage[t] \in {"ending", "over"}

(* The threads main has passed in the join are completed.                    *)
JoinedAreCompleted == main = "join" => \A t \in Threads : t < next => completed[t]

(* Unless the launch failed main cleans up only after the join.              *)
CleanupAfterJoin ==
    /\ launchFailed => main \in {"cleanup", "gone"}
    /\ main \in {"cleanup", "gone"} /\ ~launchFailed => \A t \in Threads : completed[t]

(* Only the cleanup frees.                                                  *)
FreedByCleanup == freed # {} => main \in {"cleanup", "gone"}

TreesUntouched == ~launchFailed => "trees" \notin touched

Inv ==
    /\ TypeOK
    /\ LaterUnborn /\ CompletedHaveLeft /\ JoinedAreCompleted /\ CleanupAfterJoin
    /\ FreedByCleanup /\ TreesUntouched
-----------------------------------------------------------------------------
LEMMA LengthOfRoots == roots \in RootLists => Len(roots) \in Nat
<1>1. \A T, s : s \in Seq(T) => Len(s) \in Nat
    OBVIOUS
<1>2. QED  BY <1>1, DaemonAssumption, Zenon

LEMMA InitInv == Init => Inv
<1> SUFFICES ASSUME Init PROVE Inv
    OBVIOUS
<1>1. Len(roots) \in Nat
    BY LengthOfRoots DEF Init
<1>2. launchFailed \in BOOLEAN /\ g_endloop \in BOOLEAN /\ completed \in [Threads -> BOOLEAN]
    BY Zenon DEF Init
<1>3. TypeOK
    BY <1>1, <1>2 DEF Init, TypeOK
<1>4. QED
    BY <1>3 DEF Init, Inv, LaterUnborn, CompletedHaveLeft, JoinedAreCompleted, CleanupAfterJoin,
           FreedByCleanup, TreesUntouched, Threads

(* The steps of main and the signal keep the type of what main keeps, ...   *)
LEMMA MainType == TypeOK /\ (Main \/ Signal) => TypeOK'
<1> SUFFICES ASSUME TypeOK, Main \/ Signal PROVE TypeOK'
    OBVIOUS
<1>1. Len(roots) \in Nat
    BY LengthOfRoots DEF TypeOK
<1> USE DEF TypeOK, Threads, threadVars, mainVars
<1>2. CASE LaunchThread
  <2>1. stage' \in [Threads -> {"unborn", "born", "head", "asleep", "running", "ending", "over", "returned"}]
      BY <1>2 DEF LaunchThread
  <2>2. next' \in 1..(Len(roots) + 1)
      BY <1>1, <1>2 DEF LaunchThread
  <2>3. QED  BY <1>2, <2>1, <2>2, Zenon DEF LaunchThread
<1>3. CASE LaunchFails
    BY <1>3, Zenon DEF LaunchFails
<1>4. CASE AllLaunched
    BY <1>4, Zenon DEF AllLaunched
<1>5. CASE StopWaiting
  <2>1. next' \in 1..(Len(roots) + 1)
      BY <1>1, <1>5 DEF StopWaiting
  <2>2. QED  BY <1>5, <2>1, Zenon DEF StopWaiting
<1>6. CASE Join
  <2>1. next' \in 1..(Len(roots) + 1)
      BY <1>1, <1>6 DEF Join
  <2>2. QED  BY <1>6, <2>1, Zenon DEF Join
<1>7. CASE AllJoined
    BY <1>7, Zenon DEF AllJoined
<1>8. CASE FreeTrees \/ FreeThreads
  <2>1. freed' \subseteq {"trees", "threads"}
      BY <1>8 DEF FreeTrees, FreeThreads
  <2>2. QED  BY <1>8, <2>1, Zenon DEF FreeTrees, FreeThreads
<1>9. CASE Exit
    BY <1>9, Zenon DEF Exit
<1>10. CASE Signal
    BY <1>10, Zenon DEF Signal
<1>11. QED
    BY <1>2, <1>3, <1>4, <1>5, <1>6, <1>7, <1>8, <1>9, <1>10 DEF Main

(* ... those of a thread that of its own.                                   *)
LEMMA ThreadType ==
    ASSUME TypeOK, NEW t \in Threads, ThreadStep(t)
    PROVE  TypeOK'
<1> DEFINE Stages == {"unborn", "born", "head", "asleep", "running", "ending", "over", "returned"}
<1>1. ASSUME NEW things \in SUBSET {"trees", "threads"}, Touch(things)
      PROVE  touched' \subseteq {"trees", "threads"}
    BY <1>1 DEF Touch, TypeOK
<1> USE DEF TypeOK, Threads, mainVars
<1>2. CASE Begin(t)
  <2>1. touched' \subseteq {"trees", "threads"}
      BY <1>1, <1>2 DEF Begin
  <2>2. stage' \in [Threads -> Stages]
    <3>1. PICK s \in {"head", "ending", "returned"} : stage' = [stage EXCEPT ![t] = s]
        BY <1>2 DEF Begin
    <3>2. QED  BY <3>1
  <2>3. QED  BY <1>2, <2>1, <2>2, Zenon DEF Begin
<1>3. CASE GoOn(t)
  <2>1. touched' \subseteq {"trees", "threads"}
      BY <1>1, <1>3 DEF GoOn
  <2>2. stage' \in [Threads -> Stages]
      BY <1>3 DEF GoOn
  <2>3. QED  BY <1>3, <2>1, <2>2, Zenon DEF GoOn
<1>4. CASE Stop(t)
  <2>1. touched' \subseteq {"trees", "threads"}
      BY <1>1, <1>4 DEF Stop
  <2>2. stage' \in [Threads -> Stages]
      BY <1>4 DEF Stop
  <2>3. QED  BY <1>4, <2>1, <2>2, Zenon DEF Stop
<1>5. CASE Awake(t)
  <2>1. touched' \subseteq {"trees", "threads"}
      BY <1>1, <1>5 DEF Awake
  <2>2. stage' \in [Threads -> Stages]
      BY <1>5 DEF Awake
  <2>3. QED  BY <1>5, <2>1, <2>2, Zenon DEF Awake
<1>6. CASE Announce(t)
  <2>1. touched' \subseteq {"trees", "threads"}
      BY <1>1, <1>6 DEF Announce
  <2>2. completed' \in [Threads -> BOOLEAN]
      BY <1>6, Zenon DEF Announce
  <2>3. QED  BY <1>6, <2>1, <2>2, Zenon DEF Announce
<1>7. CASE Publish(t)
  <2>1. touched' \subseteq {"trees", "threads"}
      BY <1>1, <1>7 DEF Publish
  <2>2. stage' \in [Threads -> Stages]
      BY <1>7 DEF Publish
  <2>3. retcode' \in [Threads -> Statuses \cup {EXIT_FAILURE}]
      BY <1>7 DEF Publish
  <2>4. QED  BY <1>7, <2>1, <2>2, <2>3, Zenon DEF Publish
<1>8. ASSUME NEW status \in Statuses, EndRun(t, status) PROVE TypeOK'
  <2>1. touched' \subseteq {"trees", "threads"}
      BY <1>1, <1>8 DEF EndRun
  <2>2. stage' \in [Threads -> Stages]
    <3>1. PICK s \in {"head", "ending", "returned"} : stage' = [stage EXCEPT ![t] = s]
        BY <1>8 DEF EndRun
    <3>2. QED  BY <3>1
  <2>3. last' \in [Threads -> Statuses \cup {EXIT_FAILURE}]
      BY <1>8 DEF EndRun
  <2>4. QED  BY <1>8, <2>1, <2>2, <2>3, Zenon DEF EndRun
<1>9. QED
    BY <1>2, <1>3, <1>4, <1>5, <1>6, <1>7, <1>8 DEF ThreadStep

(* Main passes from the launch over the join to the cleanup ...              *)
LEMMA MainStep == Inv /\ (Main \/ Signal) => Inv'
<1> SUFFICES ASSUME Inv, Main \/ Signal PROVE Inv'
    OBVIOUS
<1>1. TypeOK'
    BY MainType DEF Inv
<1>2. Len(roots) \in Nat
    BY LengthOfRoots DEF Inv, TypeOK
<1> USE DEF Inv, TypeOK, LaterUnborn, CompletedHaveLeft, JoinedAreCompleted, CleanupAfterJoin,
            FreedByCleanup, TreesUntouched, Threads, threadVars
<1>3. CASE LaunchThread
  <2>1. next \in Threads /\ stage[next] = "unborn" /\ ~completed[next]
      BY <1>2, <1>3 DEF LaunchThread
  <2>2. QED  BY <1>1, <1>2, <1>3, <2>1 DEF LaunchThread
<1>4. CASE LaunchFails \/ AllLaunched
    BY <1>1, <1>4 DEF LaunchFails, AllLaunched
<1>5. CASE StopWaiting
    BY <1>1, <1>5 DEF StopWaiting
<1>6. CASE Join
  <2>1. \A t \in Threads : t < next' => t < next \/ t = next
      BY <1>2, <1>6 DEF Join
  <2>2. QED  BY <1>1, <1>6, <2>1 DEF Join
<1>7. CASE AllJoined
  <2>1. \A t \in Threads : t < next
      BY <1>2, <1>7 DEF AllJoined
  <2>2. QED  BY <1>1, <1>7, <2>1 DEF AllJoined
<1>8. CASE FreeTrees \/ FreeThreads \/ Exit
    BY <1>1, <1>8 DEF FreeTrees, FreeThreads, Exit
<1>9. CASE Signal
    BY <1>1, <1>9 DEF Signal, mainVars
<1>10. QED
    BY <1>3, <1>4, <1>5, <1>6, <1>7, <1>8, <1>9 DEF Main

(* ... and a thread that still uses its tree is not completed.               *)
LEMMA ThreadStepInv ==
    ASSUME Inv, NEW t \in Threads, ThreadStep(t)
    PROVE  Inv'
<1>1. TypeOK'
    BY ThreadType DEF Inv
<1>2. Len(roots) \in Nat
    BY LengthOfRoots DEF Inv, TypeOK
<1>3. ASSUME stage[t] \in {"born", "asleep", "running"}, ~launchFailed
      PROVE  "trees" \notin freed
    BY <1>3, Zenon DEF Inv, CompletedHaveLeft, CleanupAfterJoin, FreedByCleanup
<1> USE DEF Inv, TypeOK, LaterUnborn, CompletedHaveLeft, JoinedAreCompleted, CleanupAfterJoin,
            FreedByCleanup, TreesUntouched, Threads, mainVars, Alive
<1>4. CASE Begin(t)
  <2>1. PICK s \in {"head", "returned"} : stage' = [stage EXCEPT ![t] = s]
      BY <1>4 DEF Begin
  <2>2. ~completed[t] /\ stage[t] = "born"
      BY <1>4 DEF Begin
  <2>3. QED  BY <1>1, <1>2, <1>3, <1>4, <2>1, <2>2 DEF Begin, Touch
<1>5. CASE GoOn(t) \/ Stop(t)
  <2>1. ~completed[t]
      BY <1>5 DEF GoOn, Stop
  <2>2. QED  BY <1>1, <1>2, <1>5, <2>1 DEF GoOn, Stop, Touch
<1>6. CASE Awake(t)
  <2>1. ~completed[t]
      BY <1>6 DEF Awake
  <2>2. QED  BY <1>1, <1>2, <1>3, <1>6, <2>1 DEF Awake, Touch
<1>7. CASE Announce(t)
  <2>1. \A u \in Threads : /\ completed[u] => completed'[u]
                           /\ completed'[u] => completed[u] \/ u = t
      BY <1>7, Zenon DEF Announce
  <2>2. QED  BY <1>1, <1>2, <1>7, <2>1 DEF Announce, Touch
<1>8. ASSUME NEW status \in Statuses, EndRun(t, status) PROVE Inv'
  <2>1. PICK s \in {"head", "ending"} : stage' = [stage EXCEPT ![t] = s]
      BY <1>8 DEF EndRun
  <2>2. ~completed[t] /\ stage[t] = "running"
      BY <1>8 DEF EndRun
  <2>3. QED  BY <1>1, <1>2, <1>3, <1>8, <2>1, <2>2 DEF EndRun, Touch
<1>9. CASE Publish(t)
    BY <1>1, <1>2, <1>9 DEF Publish, Touch
<1>10. QED
    BY <1>4, <1>5, <1>6, <1>7, <1>8, <1>9 DEF ThreadStep

LEMMA Invariance == Spec => []Inv
<1>1. ASSUME Inv, UNCHANGED vars PROVE Inv'
    BY <1>1 DEF Inv, TypeOK, LaterUnborn, CompletedHaveLeft, JoinedAreCompleted, CleanupAfterJoin,
           FreedByCleanup, TreesUntouched, Threads, vars, mainVars, threadVars
<1>2. Inv /\ [Next]_vars => Inv'
    BY <1>1, MainStep, ThreadStepInv DEF Next
<1>3. QED  BY <1>2, InitInv, PTL DEF Spec
-----------------------------------------------------------------------------
(* Main and every thread keep their types, so that main never launches or    *)
(* waits for a thread beyond the last root.                                 *)
THEOREM TypeCorrect == Spec => []TypeOK
<1>1. Inv => TypeOK
    BY DEF Inv
<1>2. QED  BY <1>1, Invariance, PTL

(* However many roots there are and whenever SIGINT comes, main frees the    *)
(* trees only after every thread has run its workflow for the last time.     *)
THEOREM TreesOutliveRuns == Spec => []NoRunOnFreedTree
<1>1. Inv => NoRunOnFreedTree
    BY Zenon DEF Inv, TreesUntouched, CleanupAfterJoin, FreedByCleanup, CompletedHaveLeft, NoRunOnFreedTree
<1>2. QED  BY <1>1, Invariance, PTL
=============================================================================
