------------------------------ MODULE MCKbRun ------------------------------
(***************************************************************************)
(* The workflows KbRun is checked on: sequences of jobs, jobs within jobs,  *)
(* signals with several handlers, handlers that are sagas themselves, a     *)
(* node with nothing to do.  As the lint requires, a node has one of        *)
(* handlers, commands and jobs.                                             *)
(***************************************************************************)
EXTENDS KbRun, TLC, Bitwise

MCNode == 1..6

LOCAL Seqs(f) == [n \in MCNode |-> IF n \in DOMAIN f THEN f[n] ELSE <<>>]
LOCAL Nums(f) == [n \in MCNode |-> IF n \in DOMAIN f THEN f[n] ELSE 0]

LOCAL Tree(handlers, jobs, exec, rollback) ==
    [root |-> 1, handlers |-> Seqs(handlers), jobs |-> Seqs(jobs),
     exec |-> Nums(exec), rollback |-> Nums(rollback)]

(* Three jobs with up to two commands each, four in all, and two rollback     *)
(* commands or none; a job with no command is one whose EXEC came out empty. *)
ThreeJobs ==
    {Tree(<<>>, 1 :> <<2, 3, 4>>, e, r) :
        e \in {f \in [2..4 -> 0..2] : f[2] + f[3] + f[4] <= 4}, r \in [2..4 -> {0, 2}]}

(* A job that is itself a sequence of jobs, before a job that may fail.     *)
NestedJobs ==
    {Tree(<<>>, 1 :> <<2, 3>> @@ 2 :> <<4, 5>>, e, r) :
        e \in [3..5 -> {1}], r \in [2..5 -> 0..1]}

(* A job that emits a signal two nodes handle, one of them with jobs.       *)
SignalledJobs ==
    {Tree(2 :> <<4, 3>>, 1 :> <<2, 5>> @@ 4 :> <<6>>, 3 :> 1 @@ 6 :> 2 @@ 5 :> 1, r) :
        r \in [2..6 -> 0..1]}

(* The root emits a signal with three handlers.                             *)
Emitters ==
    {Tree(1 :> <<2, 3, 4>>, <<>>, e, r) : e \in [2..4 -> 0..1], r \in [2..4 -> {1}]}

MCTrees == ThreeJobs \cup NestedJobs \cup SignalledJobs \cup Emitters

(* Success, EXIT_FAILURE, a failed pclose, and an int that doubled is 0.     *)
MCStatuses == {0, 1, -1, -4}

MCIntMax == 3

(* The bits of a negative number are those of its two's complement.          *)
MCBitOr(a, b) ==
    LET ints == 2 * (MCIntMax + 1)
        bits == (a % ints) | (b % ints)
    IN  IF bits > MCIntMax THEN bits - ints ELSE bits
=============================================================================
