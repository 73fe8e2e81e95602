----------------------------- MODULE KbPeriodic -----------------------------
(***************************************************************************)
(* th_periodic (src/kubeka/src/kbbi.c): the thread that runs the workflow   *)
(* of one [periodic] node again and again, with the clock it sleeps by and  *)
(* the SIGINT that ends it.  A run of the workflow takes any time and ends   *)
(* with any status (KbRun says what it does).                               *)
(***************************************************************************)
EXTENDS KbPeriod, FiniteSets

CONSTANTS
    Values,      \* PERIOD values, [count, suffix]
    Counters,    \* COUNTER values; SizeMax stands for none as well
    SizeMax,     \* (size_t)-1
    Statuses,    \* what kbbi_run may return
    MaxRuns      \* how far runs are counted

ASSUME PeriodicAssumption ==
    /\ \A v \in Values : v.count \in Nat
    /\ SizeMax \in Nat \ {0} /\ Counters \subseteq 0..SizeMax
    /\ Statuses \subseteq Int /\ 0 \in Statuses
    /\ MaxRuns \in Nat

(* The history counts every run a COUNTER allows.                           *)
ASSUME RunsAreCounted == \A c \in Counters : c = SizeMax \/ c <= MaxRuns

EXIT_FAILURE == 1
MaxErrors == 10

VARIABLES
    value,      \* the node's PERIOD as written
    given,      \* the node's COUNTER as written
    period,     \* the timer's unit and count
    left,       \* seconds until the timer expires
    pc,         \* "head", "sleep", "test", "run", "exit" or "done"
    slept,      \* has a second passed since sleep(1) began
    counter,    \* the local counter
    shown,      \* the node's COUNTER value as kbnode_set_single left it
    nerrors,    \* runs failed in a row
    ret,        \* status of the last run
    endflag,    \* *p->endflag, set by SIGINT
    completed,  \* p->completed
    retcode,    \* p->retcode
    runs,       \* history: runs begun, up to MaxRuns
    afterEnd    \* history: runs begun after endflag was set

node   == <<value, given, period>>
result == <<ret, completed, retcode>>
vars   == <<node, left, pc, slept, counter, shown, nerrors, result, endflag, runs, afterEnd>>

TypeOK ==
    /\ value \in Values
    /\ given \in Counters
    /\ period \in kbperiod_parse(value)
    /\ left \in -Horizon..UintRange
    /\ pc \in {"head", "sleep", "test", "run", "exit", "done"}
    /\ slept \in BOOLEAN
    /\ counter \in 0..SizeMax
    /\ shown \in 0..SizeMax
    /\ nerrors \in 0..(MaxErrors + 1)
    /\ ret \in Statuses \cup {EXIT_FAILURE}
    /\ endflag \in BOOLEAN
    /\ completed \in BOOLEAN
    /\ retcode \in Statuses \cup {EXIT_FAILURE}
    /\ runs \in 0..MaxRuns
    /\ afterEnd \in 0..MaxRuns

(* The lint has accepted the node, so that its PERIOD parses.               *)
Init ==
    /\ value \in Values
    /\ given \in Counters
    /\ period \in kbperiod_parse(value)
    /\ left = interval(period)
    /\ pc = "head"
    /\ slept = FALSE
    /\ counter = given
    /\ shown = given
    /\ nerrors = 0
    /\ ret = EXIT_FAILURE
    /\ endflag = FALSE
    /\ completed = FALSE
    /\ retcode = EXIT_FAILURE
    /\ runs = 0
    /\ afterEnd = 0

(* Faults: the head does not look at endflag, or not at the counter.         *)
HeadWith(stop) ==
    /\ pc = "head"
    /\ pc' = IF stop THEN "exit" ELSE "sleep"
    /\ slept' = FALSE
    /\ UNCHANGED <<node, left, counter, shown, nerrors, result, endflag, runs, afterEnd>>

HeadWithoutFlag == HeadWith(counter = 0)
HeadWithoutCounter == HeadWith(endflag)

(* The head of the loop: stop on endflag or when the counter is spent.      *)
Head ==
    /\ pc = "head"
    /\ pc' = IF endflag \/ counter = 0 THEN "exit" ELSE "sleep"
    /\ slept' = FALSE
    /\ UNCHANGED <<node, left, counter, shown, nerrors, result, endflag, runs, afterEnd>>

(* sleep(1) is over after a second, or early when the signal interrupts it.  *)
Wake ==
    /\ pc = "sleep"
    /\ slept \/ endflag
    /\ pc' = "test"
    /\ UNCHANGED <<node, left, slept, counter, shown, nerrors, result, endflag, runs, afterEnd>>

NotYet ==
    /\ pc = "test"
    /\ remaining(left) # 0
    /\ pc' = "head"
    /\ UNCHANGED <<node, left, slept, counter, shown, nerrors, result, endflag, runs, afterEnd>>

Bump(n) == IF n < MaxRuns THEN n + 1 ELSE n

(* Fault: the node's symbol table is not told of the new counter.            *)
BeginRunUnseen ==
    /\ pc = "test"
    /\ remaining(left) = 0
    /\ left' = interval(period)
    /\ counter' = IF counter # SizeMax THEN counter - 1 ELSE counter
    /\ pc' = "run"
    /\ runs' = Bump(runs)
    /\ afterEnd' = IF endflag THEN Bump(afterEnd) ELSE afterEnd
    /\ UNCHANGED <<node, slept, shown, nerrors, result, endflag>>

(* The timer is reset, the counter taken down, and the workflow begins.      *)
BeginRun ==
    /\ pc = "test"
    /\ remaining(left) = 0
    /\ left' = interval(period)
    /\ IF counter # SizeMax
       THEN counter' = counter - 1 /\ shown' = counter - 1
       ELSE UNCHANGED <<counter, shown>>
    /\ pc' = "run"
    /\ runs' = Bump(runs)
    /\ afterEnd' = IF endflag THEN Bump(afterEnd) ELSE afterEnd
    /\ UNCHANGED <<node, slept, nerrors, result, endflag>>

(* Fault: the tenth failure ends the thread.                                *)
EndRunEarly(status) ==
    /\ pc = "run"
    /\ ret' = status
    /\ nerrors' = IF status = 0 THEN 0 ELSE nerrors + 1
    /\ pc' = IF nerrors' > MaxErrors - 1 THEN "exit" ELSE "head"
    /\ UNCHANGED <<node, left, slept, counter, shown, completed, retcode, endflag, runs, afterEnd>>

(* kbbi_run returns; more than ten failures in a row end the thread.         *)
EndRun(status) ==
    /\ pc = "run"
    /\ ret' = status
    /\ nerrors' = IF status = 0 THEN 0 ELSE nerrors + 1
    /\ pc' = IF nerrors' > MaxErrors THEN "exit" ELSE "head"
    /\ UNCHANGED <<node, left, slept, counter, shown, completed, retcode, endflag, runs, afterEnd>>

(* The thread says it is over before it says how.                           *)
SetCompleted ==
    /\ pc = "exit"
    /\ ~completed
    /\ completed' = TRUE
    /\ UNCHANGED <<node, left, pc, slept, counter, shown, nerrors, ret, retcode, endflag, runs, afterEnd>>

(* Fault: the code is published first.                                       *)
SetRetcodeFirst ==
    /\ pc = "exit"
    /\ retcode' = ret
    /\ pc' = IF completed THEN "done" ELSE "exit"
    /\ UNCHANGED <<node, left, slept, counter, shown, nerrors, ret, completed, endflag, runs, afterEnd>>

SetRetcode ==
    /\ pc = "exit"
    /\ completed
    /\ retcode' = ret
    /\ pc' = "done"
    /\ UNCHANGED <<node, left, slept, counter, shown, nerrors, ret, completed, endflag, runs, afterEnd>>

Thread ==
    \/ Head \/ Wake \/ NotYet \/ BeginRun
    \/ \E status \in Statuses : EndRun(status)
    \/ SetCompleted \/ SetRetcode

(* A second passes.                                                         *)
Tick ==
    /\ pc # "done"
    /\ left' = Tick1(left)
    /\ slept' = TRUE
    /\ UNCHANGED <<node, pc, counter, shown, nerrors, result, endflag, runs, afterEnd>>

(* SIGINT.                                                                  *)
Signal ==
    /\ ~endflag
    /\ endflag' = TRUE
    /\ UNCHANGED <<node, left, pc, slept, counter, shown, nerrors, result, runs, afterEnd>>

Next == Thread \/ Tick \/ Signal

(* Time passes, the scheduler runs the thread, and a run of the workflow     *)
(* ends.                                                                    *)
Fairness == WF_vars(Tick) /\ WF_vars(Thread)
Spec == Init /\ [][Next]_vars /\ Fairness
-----------------------------------------------------------------------------
Unlimited == given = SizeMax

(* A node is run at most COUNTER times, and the counter tells how many runs  *)
(* are left, in the node's symbol table too.                                *)
CounterIsRight ==
    ~Unlimited => /\ runs + counter = given
                  /\ shown = counter

(* When the thread is over, something it obeys ended it: SIGINT, the         *)
(* counter, or eleven failures in a row.                                     *)
StopsForAReason ==
    pc \in {"exit", "done"} => \/ endflag
                               \/ ~Unlimited /\ runs = given
                               \/ nerrors = MaxErrors + 1

(* SIGINT lets at most the run in progress end and one more begin: the flag  *)
(* is not looked at between the sleep and the run.                           *)
AtMostOneRunAfterEnd == afterEnd <= 1

(* SIGINT ends the thread.                                                  *)
SignalEnds == endflag ~> pc = "done"

(* The daemon's view of the thread.                                         *)
Worker == INSTANCE KbWorker WITH
            stage <- CASE pc = "head" -> "head"
                       [] pc \in {"sleep", "test"} -> "asleep"
                       [] pc = "run" -> "running"
                       [] pc = "exit" -> "ending"
                       [] pc = "done" -> "over",
            last <- ret
IsWorker == Worker!Spec

(* SPECIFICATION: "Nodes are then invoked at periodic intervals": a thread   *)
(* that does not end keeps running its workflow.                            *)
KeepsRunning == []<>(pc \in {"run", "exit", "done"})
=============================================================================
