---------------------------- MODULE MCSchedules ----------------------------
EXTENDS Schedules, TLC

\* Enabled schedules with a boundary at midnight, from a preset or without one.
MCGiven == [on : {TRUE}, cron : {"night"}, preset : BOOLEAN]

Symmetry == Permutations(Timelapses)
=============================================================================
