------------------------------ MODULE TickLoop ------------------------------
(***************************************************************************)
(* The loop of the scheduler daemon, datarecon/scheduler.py: read the      *)
(* clock, run one tick for the minute just read, sleep a fixed interval,   *)
(* repeat.  The interval is counted from the END of a tick, so the clock   *)
(* readings drift against the minutes of the wall clock, and a cron        *)
(* expression fires only in a minute that some reading falls in.  What a   *)
(* tick does is the business of SuiteScheduling; here it only takes time.  *)
(***************************************************************************)
EXTENDS Integers

CONSTANTS
  MinuteLen,   \* seconds in a minute of the wall clock (60; smaller for TLC)
  Interval,    \* seconds slept between ticks, max(1, --interval)
  MaxTick,     \* the longest tick, wake-up latency included, in seconds
  MaxGap,      \* minutes a reading may lie after the one before it
  MaxMinute    \* bound: the clock of a TLC run stops at this minute

ASSUME MinuteLenAssumption == MinuteLen \in Nat \ {0}
ASSUME IntervalAssumption  == Interval \in Nat \ {0}
ASSUME MaxTickAssumption   == MaxTick \in Nat
ASSUME MaxGapAssumption    == MaxGap \in Nat
ASSUME MaxMinuteAssumption == MaxMinute \in Nat

VARIABLES
  minute, second,  \* the wall clock
  pc,              \* what the daemon is doing
  left,            \* seconds of sleep left
  age,             \* seconds since the last reading of the clock
  lastRead         \* the minute and second of the last reading

vars == <<minute, second, pc, left, age, lastRead>>

Readings == [minute : Nat, second : 0 .. MinuteLen - 1]

TypeOK ==
  /\ minute \in Nat
  /\ second \in 0 .. MinuteLen - 1
  /\ pc \in {"ticking", "sleeping", "stopped"}
  /\ left \in 0 .. Interval
  /\ age \in Nat
  /\ lastRead \in Readings

-----------------------------------------------------------------------------
(* The daemon may be started at any second; its first tick follows at once *)

Init ==
  /\ minute = 0
  /\ second \in 0 .. MinuteLen - 1
  /\ pc = "ticking"
  /\ left = 0
  /\ age = 0
  /\ lastRead = [minute |-> 0, second |-> second]

(* datetime.now(UTC), the argument of tick: the minute this tick serves.    *)
ReadClock ==
  /\ pc = "sleeping"
  /\ left = 0
  /\ pc' = "ticking"
  /\ age' = 0
  /\ lastRead' = [minute |-> minute, second |-> second]
  /\ UNCHANGED <<minute, second, left>>

(* Mutant of TickDone: the tick's own length is slept a second time.        *)
TickDoneOversleeps ==
  /\ pc = "ticking"
  /\ pc' = "sleeping"
  /\ left' = Interval + age
  /\ UNCHANGED <<minute, second, age, lastRead>>

(* The tick returns, or raises and is logged: either way the loop sleeps.   *)
TickDone ==
  /\ pc = "ticking"
  /\ pc' = "sleeping"
  /\ left' = Interval
  /\ UNCHANGED <<minute, second, age, lastRead>>

(* KeyboardInterrupt, or the process is killed.                             *)
Stop ==
  /\ pc # "stopped"
  /\ pc' = "stopped"
  /\ left' = 0
  /\ age' = 0
  /\ UNCHANGED <<minute, second, lastRead>>

(* main() run again: the loop's first statement is a tick.                  *)
Start ==
  /\ pc = "stopped"
  /\ pc' = "ticking"
  /\ lastRead' = [minute |-> minute, second |-> second]
  /\ UNCHANGED <<minute, second, left, age>>

(* One second of wall-clock time.  A tick lasts at most MaxTick and a sleep *)
(* exactly Interval.                                                        *)
Second ==
  /\ \/ pc = "ticking" /\ age < MaxTick
     \/ pc = "sleeping" /\ left > 0
     \/ pc = "stopped"
  /\ IF second + 1 < MinuteLen
       THEN minute' = minute /\ second' = second + 1
       ELSE minute < MaxMinute /\ minute' = minute + 1 /\ second' = 0
  /\ left' = IF pc = "sleeping" THEN left - 1 ELSE left
  /\ age'  = IF pc = "stopped" THEN age ELSE age + 1
  /\ UNCHANGED <<pc, lastRead>>

Next == ReadClock \/ TickDone \/ Stop \/ Start \/ Second

Spec == Init /\ [][Next]_vars

-----------------------------------------------------------------------------
(* Properties                                                               *)

Running == pc # "stopped"

(* While the daemon runs, its readings of the clock are never more than     *)
(* MaxGap minutes apart: no schedule is passed over for longer than that.   *)
(* With MaxGap = 1 every minute the daemon lives through gets a tick.       *)
GapBounded == Running => minute - lastRead.minute <= MaxGap

=============================================================================
