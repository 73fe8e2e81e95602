---------------------------- MODULE MCKbPeriodic ----------------------------
(***************************************************************************)
(* Small PERIOD and COUNTER values for KbPeriodic: no delay at all, one      *)
(* second, a few seconds, no suffix, and counters that are spent, finite and *)
(* absent.                                                                  *)
(***************************************************************************)
EXTENDS KbPeriodic

V(c, s) == [count |-> c, suffix |-> s]
MCShortValues == {V(0, "s"), V(1, ""), V(3, "secs")}
MCThreeSeconds == {V(3, "secs")}
MCCounters == {0, 1, 3, 7}
MCNoCounter == {7}
MCStatuses == {0, 256, -1}
=============================================================================
