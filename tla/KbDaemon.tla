------------------------------ MODULE KbDaemon ------------------------------
(***************************************************************************)
(* The daemon part of main (src/kubeka/src/kubeka.c): it starts a detached   *)
(* thread for every root node, waits for SIGINT, waits until every thread   *)
(* has set its completed flag, and frees what the threads use.  Of th_periodic *)
(* only what KbWorker says is kept; KbPeriodic has the rest.                *)
(***************************************************************************)
EXTENDS Integers, Sequences

CONSTANTS
    RootLists,   \* lists of the root nodes' types, and whether a PERIOD has no unit
    Statuses     \* what a run of a workflow may return

ASSUME DaemonAssumption ==
    /\ \A r \in RootLists : r \in Seq({"PERIODIC", "PERIODIC, no unit", "ENTRYPOINT"}) /\ r # <<>>
    /\ Statuses \subseteq Int

EXIT_FAILURE == 1

VARIABLES
    roots,         \* types of the instantiated root nodes, in order
    main,          \* "launch", "wait", "join", "cleanup", "gone"
    next,          \* the thread main launches or waits for
    launchFailed,  \* kbbi_thread_launch failed
    g_endloop,     \* set by SIGINT
    stage,         \* stage[t]: "unborn", "born", "head", "asleep", "running", "ending", "over",
                   \* or "returned" before the loop
    last,          \* last[t]: status of the last run
    completed,     \* threads[t].completed
    retcode,       \* threads[t].retcode
    freed,         \* what cleanup has freed: "trees", "threads"
    touched        \* history: what a thread used after it was freed

threadVars == <<stage, last, completed, retcode, touched>>
mainVars   == <<main, next, launchFailed, freed>>
vars       == <<roots, mainVars, g_endloop, threadVars>>

Threads == 1..Len(roots)

TypeOK ==
    /\ roots \in RootLists
    /\ main \in {"launch", "wait", "join", "cleanup", "gone"}
    /\ next \in 1..(Len(roots) + 1)
    /\ launchFailed \in BOOLEAN
    /\ g_endloop \in BOOLEAN
    /\ stage \in [Threads -> {"unborn", "born", "head", "asleep", "running", "ending", "over",
                              "returned"}]
    /\ last \in [Threads -> Statuses \cup {EXIT_FAILURE}]
    /\ completed \in [Threads -> BOOLEAN]
    /\ retcode \in [Threads -> Statuses \cup {EXIT_FAILURE}]
    /\ freed \subseteq {"trees", "threads"}
    /\ touched \subseteq {"trees", "threads"}

Init ==
    /\ roots \in RootLists
    /\ main = "launch"
    /\ next = 1
    /\ launchFailed = FALSE
    /\ g_endloop = FALSE
    /\ stage = [t \in Threads |-> "unborn"]
    /\ last = [t \in Threads |-> EXIT_FAILURE]
    /\ completed = [t \in Threads |-> FALSE]
    /\ retcode = [t \in Threads |-> EXIT_FAILURE]
    /\ freed = {}
    /\ touched = {}
-----------------------------------------------------------------------------
(* The main thread                                                          *)

(* kbbi_thread_launch only knows PERIODIC roots.                            *)
LaunchThread ==
    /\ main = "launch"
    /\ next <= Len(roots)
    /\ roots[next] # "ENTRYPOINT"
    /\ stage' = [stage EXCEPT ![next] = "born"]
    /\ next' = next + 1
    /\ UNCHANGED <<roots, main, launchFailed, freed, g_endloop, last, completed, retcode, touched>>

(* Any other root, and a pthread_create that fails, send main to cleanup.    *)
LaunchFails ==
    /\ main = "launch"
    /\ next <= Len(roots)
    /\ launchFailed' = TRUE
    /\ main' = "cleanup"
    /\ UNCHANGED <<roots, next, freed, g_endloop, threadVars>>

AllLaunched ==
    /\ main = "launch"
    /\ next > Len(roots)
    /\ main' = "wait"
    /\ UNCHANGED <<roots, next, launchFailed, freed, g_endloop, threadVars>>

(* Faults: main does not go back to the first thread; it counts from 0.       *)
StopWaitingAt(first) ==
    /\ main = "wait"
    /\ g_endloop
    /\ main' = "join"
    /\ next' = first
    /\ UNCHANGED <<roots, launchFailed, freed, g_endloop, threadVars>>

StopWaitingAtLast == StopWaitingAt(next)
StopWaitingAtZero == StopWaitingAt(0)

StopWaiting ==
    /\ main = "wait"
    /\ g_endloop
    /\ main' = "join"
    /\ next' = 1
    /\ UNCHANGED <<roots, launchFailed, freed, g_endloop, threadVars>>

Join ==
    /\ main = "join"
    /\ next <= Len(roots)
    /\ completed[next]
    /\ next' = next + 1
    /\ UNCHANGED <<roots, main, launchFailed, freed, g_endloop, threadVars>>

AllJoined ==
    /\ main = "join"
    /\ next > Len(roots)
    /\ main' = "cleanup"
    /\ UNCHANGED <<roots, next, launchFailed, freed, g_endloop, threadVars>>

FreeTrees ==
    /\ main = "cleanup"
    /\ freed = {}
    /\ freed' = {"trees"}
    /\ UNCHANGED <<roots, main, next, launchFailed, g_endloop, threadVars>>

FreeThreads ==
    /\ main = "cleanup"
    /\ freed = {"trees"}
    /\ freed' = {"trees", "threads"}
    /\ UNCHANGED <<roots, main, next, launchFailed, g_endloop, threadVars>>

(* main returns, and the process with all its threads is gone.              *)
Exit ==
    /\ main = "cleanup"
    /\ freed = {"trees", "threads"}
    /\ main' = "gone"
    /\ UNCHANGED <<roots, next, launchFailed, freed, g_endloop, threadVars>>

Main ==
    \/ LaunchThread \/ LaunchFails \/ AllLaunched \/ StopWaiting \/ Join \/ AllJoined
    \/ FreeTrees \/ FreeThreads \/ Exit
-----------------------------------------------------------------------------
(* The threads.  A step reads or writes threads[t], a run reads tree t; what  *)
(* happens when that memory is gone is undefined, and only noted here.      *)
Touch(things) == touched' = touched \cup (things \cap freed)

Alive(t) == main # "gone" /\ stage[t] # "unborn"

(* The thread parses its PERIOD before its loop.  The lint has found it valid,  *)
(* but behind a number without a unit parse_unit reads one byte beyond the     *)
(* string, which decides, and now it is another string.  A thread that cannot  *)
(* parse its PERIOD returns there and then.                                 *)
Begin(t) ==
    /\ Alive(t)
    /\ stage[t] = "born"
    /\ stage' \in {[stage EXCEPT ![t] = s] : s \in
                     IF roots[t] = "PERIODIC, no unit" THEN {"head", "returned"} ELSE {"head"}}
    /\ Touch({"threads", "trees"})
    /\ UNCHANGED <<roots, mainVars, g_endloop, last, completed, retcode>>

(* At the head of the loop: go on only if endflag is not set ...             *)
GoOn(t) ==
    /\ Alive(t)
    /\ stage[t] = "head"
    /\ ~g_endloop
    /\ stage' = [stage EXCEPT ![t] = "asleep"]
    /\ Touch({"threads"})
    /\ UNCHANGED <<roots, mainVars, g_endloop, last, completed, retcode>>

(* ... and stop if it is, or if the node's counter is spent.                 *)
Stop(t) ==
    /\ Alive(t)
    /\ stage[t] = "head"
    /\ stage' = [stage EXCEPT ![t] = "ending"]
    /\ Touch({"threads"})
    /\ UNCHANGED <<roots, mainVars, g_endloop, last, completed, retcode>>

(* After the sleep the timer says whether it is time for a run.             *)
Awake(t) ==
    /\ Alive(t)
    /\ stage[t] = "asleep"
    /\ \/ stage' = [stage EXCEPT ![t] = "head"] /\ UNCHANGED touched
       \/ stage' = [stage EXCEPT ![t] = "running"] /\ Touch({"threads", "trees"})
    /\ UNCHANGED <<roots, mainVars, g_endloop, last, completed, retcode>>

(* A run reads its tree until it ends; too many failures end the loop.       *)
EndRun(t, status) ==
    /\ Alive(t)
    /\ stage[t] = "running"
    /\ last' = [last EXCEPT ![t] = status]
    /\ stage' \in {[stage EXCEPT ![t] = s] : s \in {"head", "ending"}}
    /\ Touch({"trees"})
    /\ UNCHANGED <<roots, mainVars, g_endloop, completed, retcode>>

(* Fault: a thread whose last run failed does not say it is completed.        *)
AnnounceSuccess(t) ==
    /\ Alive(t)
    /\ stage[t] = "ending"
    /\ ~completed[t] /\ last[t] = 0
    /\ completed' = [completed EXCEPT ![t] = TRUE]
    /\ Touch({"threads"})
    /\ UNCHANGED <<roots, mainVars, g_endloop, stage, last, retcode>>

Announce(t) ==
    /\ Alive(t)
    /\ stage[t] = "ending"
    /\ ~completed[t]
    /\ completed' = [completed EXCEPT ![t] = TRUE]
    /\ Touch({"threads"})
    /\ UNCHANGED <<roots, mainVars, g_endloop, stage, last, retcode>>

Publish(t) ==
    /\ Alive(t)
    /\ stage[t] = "ending"
    /\ completed[t]
    /\ retcode' = [retcode EXCEPT ![t] = last[t]]
    /\ stage' = [stage EXCEPT ![t] = "over"]
    /\ Touch({"threads"})
    /\ UNCHANGED <<roots, mainVars, g_endloop, last, completed>>

ThreadStep(t) ==
    \/ Begin(t) \/ GoOn(t) \/ Stop(t) \/ Awake(t) \/ Announce(t) \/ Publish(t)
    \/ \E status \in Statuses : EndRun(t, status)

(* sigh, on SIGINT                                                          *)
Signal ==
    /\ main # "gone"
    /\ ~g_endloop
    /\ g_endloop' = TRUE
    /\ UNCHANGED <<roots, mainVars, threadVars>>

Next == Main \/ Signal \/ \E t \in Threads : ThreadStep(t)

AllThreads == UNION {DOMAIN r : r \in RootLists}

(* The scheduler runs main and every thread, and runs of workflows end.      *)
Fairness ==
    /\ WF_vars(Main)
    /\ \A t \in AllThreads : WF_vars(t \in Threads /\ ThreadStep(t))

Spec == Init /\ [][Next]_vars /\ Fairness
-----------------------------------------------------------------------------
(* Once every thread was launched, main frees the trees only after all of    *)
(* them have run their workflow for the last time, whenever SIGINT comes, so  *)
(* that no thread ever uses a tree that was freed.                          *)
NoRunOnFreedTree ==
    ~launchFailed =>
        /\ "trees" \notin touched
        /\ "trees" \in freed =>
             \A t \in Threads : stage[t] \in {"ending", "over"} /\ completed[t]

(* The daemon ends after SIGINT, whichever threads were launched and ended     *)
(* before it and whatever their runs returned; unless a thread returned        *)
(* before its loop: for that one main waits for ever.                        *)
EndsOnSignal == g_endloop ~> (main = "gone" \/ \E t \in Threads : stage[t] = "returned")
=============================================================================
