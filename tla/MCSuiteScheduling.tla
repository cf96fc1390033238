-------------------------- MODULE MCSuiteScheduling --------------------------
(* Instances of SuiteScheduling for TLC.                                    *)
EXTENDS SuiteScheduling

CONSTANTS d1, r1, e1

OneScheduler  == {d1}
OneRunner     == {r1}
OneEditor     == {e1}
NoProcess     == {}

OneSuite  == {1}
TwoSuites == {1, 2}

EveryMinute   == {Minutes}
MinuteChoices == {Minutes, {1}}
==============================================================================
