-------------------------- MODULE KbPeriodicProofs --------------------------
(***************************************************************************)
(* Theorems about th_periodic for every PERIOD, COUNTER and width of the     *)
(* integers: its type, what its counter says, what ends it, how many runs   *)
(* SIGINT still lets begin, and that it is the thread KbWorker promises.    *)
(*                                                                         *)
(* The last four rest on what the loop knows at each pc: the head has been   *)
(* passed with a counter that is not spent, and with endflag not yet set or  *)
(* set since, when no run has yet begun under it.                           *)
(***************************************************************************)
EXTENDS KbPeriodic, TLAPS

(* Past the head there is a run left to begin.                              *)
RunLeft == pc \in {"sleep", "test"} => counter # 0

(* The eleventh failure in a row is the last.                               *)
ErrorsEndIt == nerrors = MaxErrors + 1 => pc \in {"exit", "done"}

(* A COUNTER that is not given is never taken down.                         *)
UnlimitedStays == Unlimited => counter = SizeMax

(* A run under endflag begins only from a sleep that began without it.      *)
NoneYet == ~endflag \/ pc \in {"sleep", "test"} => afterEnd = 0

Inv ==
    /\ TypeOK /\ RunLeft /\ ErrorsEndIt
    /\ CounterIsRight /\ UnlimitedStays /\ StopsForAReason
    /\ NoneYet /\ AtMostOneRunAfterEnd
-----------------------------------------------------------------------------
(* A suffix stands for no unit, or for one of four.                         *)
LEMMA UnitIsKnown ==
    ASSUME NEW suffix, NEW u \in parse_unit(suffix)
    PROVE  u \in {0, 1, 60, 3600, 86400}
<1>1. \A n \in DOMAIN suffixes : suffixes[n] \in {1, 60, 3600, 86400}
    BY DEF suffixes, unit_SEC, unit_MIN, unit_HOUR, unit_DAY
<1>2. u \in {unit_UNKNOWN, unit_SEC} \/ \E n \in DOMAIN suffixes : u = suffixes[n]
    BY Zenon DEF parse_unit
<1>3. QED  BY <1>1, <1>2 DEF unit_UNKNOWN, unit_SEC

(* A timer made of a PERIOD holds one of four units and the count.           *)
LEMMA ParsedUnit ==
    ASSUME NEW v \in Values, NEW kbp \in kbperiod_parse(v)
    PROVE  kbp.unit \in {1, 60, 3600, 86400} /\ kbp.nunits \in Nat
<1>1. PICK u \in parse_unit(v.suffix) \ {unit_UNKNOWN} : kbp = [unit |-> u, nunits |-> v.count]
    BY DEF kbperiod_parse
<1>2. u \in {1, 60, 3600, 86400}
    BY UnitIsKnown DEF unit_UNKNOWN
<1>3. QED  BY <1>1, <1>2, PeriodicAssumption

(* A timer is set to what 32 bits keep of the seconds asked for.            *)
LEMMA IntervalInRange ==
    ASSUME NEW v \in Values, NEW kbp \in kbperiod_parse(v)
    PROVE  interval(kbp) \in 0..UintRange - 1
<1>1. kbp.unit * kbp.nunits \in Int
    BY ParsedUnit
<1>2. QED  BY <1>1, PeriodAssumption DEF interval

LEMMA TickInRange ==
    ASSUME NEW l \in -Horizon..UintRange
    PROVE  Tick1(l) \in -Horizon..UintRange
BY PeriodAssumption DEF Tick1

LEMMA InitInv == Init => Inv
<1> SUFFICES ASSUME Init PROVE Inv
    OBVIOUS
<1>1. left \in -Horizon..UintRange
    BY IntervalInRange, PeriodAssumption DEF Init
<1>2. slept \in BOOLEAN /\ endflag \in BOOLEAN /\ completed \in BOOLEAN
    BY Zenon DEF Init
<1>3. given \in 0..SizeMax
    BY PeriodicAssumption DEF Init
<1>4. TypeOK
    BY <1>1, <1>2, <1>3, PeriodicAssumption DEF Init, TypeOK, MaxErrors, EXIT_FAILURE
<1>5. QED
    BY <1>4 DEF Init, Inv, RunLeft, ErrorsEndIt, CounterIsRight, Unlimited, UnlimitedStays, StopsForAReason,
           NoneYet, AtMostOneRunAfterEnd, MaxErrors, TypeOK

LEMMA TypeStep == TypeOK /\ RunLeft /\ ErrorsEndIt /\ [Next]_vars => TypeOK'
<1> SUFFICES ASSUME TypeOK, RunLeft, ErrorsEndIt, [Next]_vars PROVE TypeOK'
    OBVIOUS
<1> USE DEF TypeOK, node, result
<1>1. CASE Head
    BY <1>1, Zenon DEF Head
<1>2. CASE Wake
    BY <1>2, Zenon DEF Wake
<1>3. CASE NotYet
    BY <1>3, Zenon DEF NotYet
<1>4. CASE BeginRun
  <2>1. left' \in -Horizon..UintRange
      BY <1>4, IntervalInRange, PeriodAssumption DEF BeginRun
  <2>2. counter' \in 0..SizeMax /\ shown' \in 0..SizeMax
      BY <1>4, PeriodicAssumption DEF BeginRun, RunLeft
  <2>3. runs' \in 0..MaxRuns /\ afterEnd' \in 0..MaxRuns
      BY <1>4, PeriodicAssumption DEF BeginRun, Bump
  <2>4. QED  BY <1>4, <2>1, <2>2, <2>3, Zenon DEF BeginRun
<1>5. ASSUME NEW status \in Statuses, EndRun(status) PROVE TypeOK'
  <2>1. nerrors' \in 0..(MaxErrors + 1)
      BY <1>5 DEF EndRun, ErrorsEndIt, MaxErrors
  <2>2. pc' \in {"head", "exit"}
      BY <1>5 DEF EndRun
  <2>3. QED  BY <1>5, <2>1, <2>2, Zenon DEF EndRun
<1>6. CASE SetCompleted
    BY <1>6, Zenon DEF SetCompleted
<1>7. CASE SetRetcode
    BY <1>7, Zenon DEF SetRetcode
<1>8. CASE Tick
  <2>1. left' \in -Horizon..UintRange
      BY <1>8, TickInRange DEF Tick
  <2>2. QED  BY <1>8, <2>1, Zenon DEF Tick
<1>9. CASE Signal
    BY <1>9, Zenon DEF Signal
<1>10. CASE UNCHANGED vars
    BY <1>10, Zenon DEF vars
<1>11. QED
    BY <1>1, <1>2, <1>3, <1>4, <1>5, <1>6, <1>7, <1>8, <1>9, <1>10 DEF Next, Thread

(* The counter and the runs go together.                                    *)
LEMMA CounterStep ==
    Inv /\ [Next]_vars => CounterIsRight' /\ UnlimitedStays' /\ RunLeft'
<1> SUFFICES ASSUME Inv, [Next]_vars PROVE CounterIsRight' /\ UnlimitedStays' /\ RunLeft'
    OBVIOUS
<1> USE DEF Inv, TypeOK, CounterIsRight, UnlimitedStays, RunLeft, Unlimited, node
<1>1. CASE BeginRun
  <2>1. CASE Unlimited
      BY <1>1, <2>1 DEF BeginRun
  <2>2. CASE ~Unlimited
    <3>1. given <= MaxRuns /\ given < SizeMax
        BY <2>2, RunsAreCounted, PeriodicAssumption
    <3>2. runs < MaxRuns /\ counter # SizeMax
        BY <1>1, <2>2, <3>1, PeriodicAssumption DEF BeginRun
    <3>3. runs' = runs + 1 /\ counter' = counter - 1 /\ shown' = counter' /\ pc' = "run" /\ given' = given
        BY <1>1, <3>2 DEF BeginRun, Bump
    <3>4. QED  BY <2>2, <3>3, PeriodicAssumption
  <2>3. QED  BY <2>1, <2>2
<1>2. CASE Head
    BY <1>2 DEF Head
<1>3. CASE Wake \/ NotYet
    BY <1>3 DEF Wake, NotYet
<1>4. ASSUME NEW status \in Statuses, EndRun(status)
      PROVE  CounterIsRight' /\ UnlimitedStays' /\ RunLeft'
    BY <1>4 DEF EndRun
<1>5. CASE SetCompleted \/ SetRetcode
    BY <1>5 DEF SetCompleted, SetRetcode
<1>6. CASE Tick \/ Signal
    BY <1>6 DEF Tick, Signal
<1>7. CASE UNCHANGED vars
    BY <1>7 DEF vars
<1>8. QED
    BY <1>1, <1>2, <1>3, <1>4, <1>5, <1>6, <1>7 DEF Next, Thread

(* The thread leaves its loop at the head or after the eleventh failure.     *)
LEMMA StopStep ==
    Inv /\ [Next]_vars => StopsForAReason' /\ ErrorsEndIt'
<1> SUFFICES ASSUME Inv, [Next]_vars PROVE StopsForAReason' /\ ErrorsEndIt'
    OBVIOUS
<1> USE DEF Inv, TypeOK, StopsForAReason, ErrorsEndIt, Unlimited, node
<1>1. CASE Head
  <2>1. counter = 0 => ~Unlimited /\ runs = given
      BY PeriodicAssumption DEF CounterIsRight, UnlimitedStays
  <2>2. QED  BY <1>1, <2>1 DEF Head, result
<1>2. CASE Wake \/ NotYet \/ BeginRun
    BY <1>2 DEF Wake, NotYet, BeginRun
<1>3. ASSUME NEW status \in Statuses, EndRun(status) PROVE StopsForAReason' /\ ErrorsEndIt'
  <2>1. nerrors' = MaxErrors + 1 <=> nerrors' > MaxErrors
      BY <1>3 DEF EndRun, MaxErrors
  <2>2. QED  BY <1>3, <2>1 DEF EndRun
<1>4. CASE SetCompleted \/ SetRetcode
    BY <1>4 DEF SetCompleted, SetRetcode
<1>5. CASE Tick \/ Signal
    BY <1>5 DEF Tick, Signal
<1>6. CASE UNCHANGED vars
    BY <1>6 DEF vars
<1>7. QED
    BY <1>1, <1>2, <1>3, <1>4, <1>5, <1>6 DEF Next, Thread

(* A run counted under endflag is followed by a head that stops.            *)
LEMMA AfterEndStep ==
    Inv /\ [Next]_vars => NoneYet' /\ AtMostOneRunAfterEnd'
<1> SUFFICES ASSUME Inv, [Next]_vars PROVE NoneYet' /\ AtMostOneRunAfterEnd'
    OBVIOUS
<1> USE DEF Inv, TypeOK, NoneYet, AtMostOneRunAfterEnd
<1>1. CASE BeginRun
    BY <1>1 DEF BeginRun, Bump, result
<1>2. CASE Head \/ Wake \/ NotYet
    BY <1>2 DEF Head, Wake, NotYet
<1>3. ASSUME NEW status \in Statuses, EndRun(status) PROVE NoneYet' /\ AtMostOneRunAfterEnd'
    BY <1>3 DEF EndRun
<1>4. CASE SetCompleted \/ SetRetcode
    BY <1>4 DEF SetCompleted, SetRetcode
<1>5. CASE Tick \/ Signal
    BY <1>5 DEF Tick, Signal
<1>6. CASE UNCHANGED vars
    BY <1>6 DEF vars
<1>7. QED
    BY <1>1, <1>2, <1>3, <1>4, <1>5, <1>6 DEF Next, Thread

LEMMA Invariance == Spec => []Inv
<1>1. Inv /\ [Next]_vars => Inv'
    BY TypeStep, CounterStep, StopStep, AfterEndStep DEF Inv
<1>2. QED  BY <1>1, InitInv, PTL DEF Spec
-----------------------------------------------------------------------------
(* The thread's variables keep their types: the timer stays within what 32   *)
(* bits and the clock can make of it, the counter never wraps below zero,    *)
(* and no twelfth failure is counted.                                       *)
THEOREM TypeCorrect == Spec => []TypeOK
<1>1. Inv => TypeOK
    BY DEF Inv
<1>2. QED  BY <1>1, Invariance, PTL

(* A node runs at most COUNTER times, whatever the COUNTER, and what its     *)
(* symbol table shows is how many of those runs are left.                    *)
THEOREM CounterCountsRuns == Spec => []CounterIsRight
<1>1. Inv => CounterIsRight
    BY DEF Inv
<1>2. QED  BY <1>1, Invariance, PTL

(* A thread that is over was told to stop by SIGINT, has spent its counter,  *)
(* or has failed eleven times in a row.                                     *)
THEOREM EndHasAReason == Spec => []StopsForAReason
<1>1. Inv => StopsForAReason
    BY DEF Inv
<1>2. QED  BY <1>1, Invariance, PTL

(* Once endflag is set the thread begins its workflow at most once more.     *)
THEOREM OneRunAfterSignal == Spec => []AtMostOneRunAfterEnd
<1>1. Inv => AtMostOneRunAfterEnd
    BY DEF Inv
<1>2. QED  BY <1>1, Invariance, PTL
-----------------------------------------------------------------------------
LEMMA WorkerInit == Init => Worker!Init
BY DEF Init, Worker!Init, Worker!EXIT_FAILURE, EXIT_FAILURE

(* Each step of the thread is one the daemon expects, or one it cannot see:  *)
(* the sleep and the test of the timer, and time passing.                    *)
LEMMA WorkerStep == TypeOK /\ [Next]_vars => [Worker!Next]_Worker!vars
<1> SUFFICES ASSUME TypeOK, [Next]_vars PROVE Worker!Next \/ UNCHANGED Worker!vars
    OBVIOUS
<1> USE DEF node, result
<1>1. CASE Head
  <2>1. CASE pc' = "sleep"
      BY <1>1, <2>1 DEF Head, Worker!Next, Worker!GoOn
  <2>2. CASE pc' = "exit"
      BY <1>1, <2>2 DEF Head, Worker!Next, Worker!Stop
  <2>3. QED  BY <1>1, <2>1, <2>2 DEF Head
<1>2. CASE Wake
    BY <1>2 DEF Wake, Worker!vars
<1>3. CASE NotYet \/ BeginRun
    BY <1>3 DEF NotYet, BeginRun, Worker!Next, Worker!Awake
<1>4. ASSUME NEW status \in Statuses, EndRun(status) PROVE Worker!Next
  <2>1. pc' \in {"head", "exit"}
      BY <1>4 DEF EndRun
  <2>2. QED  BY <1>4, <2>1 DEF EndRun, Worker!Next, Worker!EndRun
<1>5. CASE SetCompleted
    BY <1>5 DEF SetCompleted, Worker!Next, Worker!Announce
<1>6. CASE SetRetcode
    BY <1>6 DEF SetRetcode, Worker!Next, Worker!Publish
<1>7. CASE Tick
    BY <1>7 DEF Tick, Worker!vars
<1>8. CASE Signal
    BY <1>8 DEF Signal, Worker!Next, Worker!SetEndflag
<1>9. CASE UNCHANGED vars
    BY <1>9 DEF vars, Worker!vars
<1>10. QED
    BY <1>1, <1>2, <1>3, <1>4, <1>5, <1>6, <1>7, <1>8, <1>9 DEF Next, Thread

(* th_periodic is the thread the main thread may rely on: KbWorker.          *)
THEOREM ImplementsWorker == Spec => IsWorker
<1>1. Spec => []TypeOK
    BY TypeCorrect
<1>2. QED  BY <1>1, WorkerInit, WorkerStep, PTL DEF Spec, IsWorker, Worker!Spec
=============================================================================
