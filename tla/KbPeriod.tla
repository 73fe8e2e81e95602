------------------------------ MODULE KbPeriod ------------------------------
(***************************************************************************)
(* The interval timer of src/kubeka/src/kbperiod.c.                        *)
(*                                                                         *)
(* A PERIOD value is a number and a suffix.  A timer only ever compares its *)
(* expiry with the clock, so it is kept as the seconds left until it        *)
(* expires: negative once it has.                                          *)
(***************************************************************************)
EXTENDS Integers

CONSTANTS
    UintRange,   \* 2^32: the product of unit and count is a uint32_t
    Horizon      \* how far a timer can be told to be in the past

ASSUME PeriodAssumption == UintRange \in Nat \ {0} /\ Horizon \in Nat \ {0}

unit_UNKNOWN == 0
unit_SEC  == 1
unit_MIN  == 60
unit_HOUR == 60 * 60
unit_DAY  == 24 * 60 * 60

Letters == {"s", "m", "h", "d"}

suffixes == [sec |-> unit_SEC,  secs |-> unit_SEC, second |-> unit_SEC, seconds |-> unit_SEC,
             min |-> unit_MIN,  mins |-> unit_MIN, minute |-> unit_MIN, minutes |-> unit_MIN,
             hr  |-> unit_HOUR, hrs  |-> unit_HOUR, hour  |-> unit_HOUR, hours  |-> unit_HOUR,
             day |-> unit_DAY,  days |-> unit_DAY]

(* The units a suffix may be parsed as.  One letter: the truth value of its  *)
(* membership is returned as the unit.  No suffix: the byte after the        *)
(* string's end decides, and either outcome is possible.                    *)
parse_unit(suffix) ==
    IF suffix = "" THEN {unit_UNKNOWN, unit_SEC}
    ELSE IF suffix \in Letters THEN {unit_SEC}
    ELSE IF suffix \in DOMAIN suffixes THEN {suffixes[suffix]}
    ELSE {unit_UNKNOWN}

(* The timers kbperiod_parse may make of a value; none when it is refused.   *)
kbperiod_parse(value) ==
    {[unit |-> u, nunits |-> value.count] : u \in parse_unit(value.suffix) \ {unit_UNKNOWN}}

(* unit * nunits, in 32 bits.                                               *)
interval(kbp) == (kbp.unit * kbp.nunits) % UintRange

(* kbperiod_remaining, given the seconds left.                              *)
remaining(left) == IF left > 0 THEN 0 ELSE -left

(* One second passes.                                                       *)
Tick1(left) == IF left > -Horizon THEN left - 1 ELSE left
=============================================================================
