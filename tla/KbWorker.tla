------------------------------ MODULE KbWorker ------------------------------
(***************************************************************************)
(* What the main thread may rely on about a thread it started for a root    *)
(* node: at the head of its loop it may go on only while endflag is not      *)
(* set; having gone on it may run the workflow of its own tree, once, and    *)
(* comes back to the head or stops; when it stops it announces that it has   *)
(* completed, and only then publishes the status of its last run.           *)
(* KbPeriodic implements this, and KbDaemon takes its threads as they are    *)
(* described here.                                                          *)
(***************************************************************************)
EXTENDS Naturals

CONSTANT Statuses

VARIABLES
    stage,      \* "head", "asleep", "running", "ending" or "over"
    endflag,    \* set from outside, never reset
    last,       \* status of the last run
    completed,
    retcode

vars == <<stage, endflag, last, completed, retcode>>

EXIT_FAILURE == 1

Init ==
    /\ stage = "head"
    /\ endflag \in BOOLEAN
    /\ last = EXIT_FAILURE
    /\ completed = FALSE
    /\ retcode = EXIT_FAILURE

GoOn ==
    /\ stage = "head" /\ ~endflag
    /\ stage' = "asleep"
    /\ UNCHANGED <<endflag, last, completed, retcode>>

Awake ==
    /\ stage = "asleep"
    /\ stage' \in {"head", "running"}
    /\ UNCHANGED <<endflag, last, completed, retcode>>

EndRun ==
    /\ stage = "running"
    /\ last' \in Statuses
    /\ stage' \in {"head", "ending"}
    /\ UNCHANGED <<endflag, completed, retcode>>

Stop ==
    /\ stage = "head"
    /\ stage' = "ending"
    /\ UNCHANGED <<endflag, last, completed, retcode>>

Announce ==
    /\ stage = "ending" /\ ~completed
    /\ completed' = TRUE
    /\ UNCHANGED <<stage, endflag, last, retcode>>

Publish ==
    /\ stage = "ending" /\ completed
    /\ retcode' = last
    /\ stage' = "over"
    /\ UNCHANGED <<endflag, last, completed>>

SetEndflag ==
    /\ ~endflag
    /\ endflag' = TRUE
    /\ UNCHANGED <<stage, last, completed, retcode>>

Next == GoOn \/ Awake \/ EndRun \/ Stop \/ Announce \/ Publish \/ SetEndflag

Spec == Init /\ [][Next]_vars
=============================================================================
