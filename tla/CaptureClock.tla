---------------------------- MODULE CaptureClock ----------------------------
(***************************************************************************)
(* When the capture job of one enabled profile runs: an interval job whose *)
(* first run is computed anew at every start of the process and at every   *)
(* change of the profile, and the active window the capture checks before  *)
(* it fetches a frame.                                                     *)
(*                                                                         *)
(* Clock times are counted in slots, DaySlots to a day and HourSlots to an *)
(* hour.  Midnight of the first day is time 0.                             *)
(***************************************************************************)
EXTENDS Integers

CONSTANTS
    HourSlots, DaySlots,
    ManualWindows, \* manual windows <<active_start_time, active_end_time>>
    SunWindows,    \* sets of windows between a day's sun events
    Paces,         \* interval_seconds
    MaxDays,       \* bound: the clock
    MaxResets      \* bound: restarts of the job

ASSUME CaptureClockAssumption ==
    /\ HourSlots \in Nat \ {0} /\ DaySlots \in Nat \ {0}
    /\ DaySlots % HourSlots = 0
    /\ ManualWindows \subseteq (0 .. DaySlots - 1) \X (0 .. DaySlots - 1)
    /\ SunWindows \subseteq SUBSET ((0 .. DaySlots - 1) \X (0 .. DaySlots - 1))
    /\ Paces \subseteq Nat \ {0} /\ Paces # {}
    /\ MaxDays \in Nat \ {0} /\ MaxResets \in Nat

VARIABLES
    time,      \* the clock
    plan,      \* the profile: capture_mode, its windows, its interval
    nextRun,   \* the scheduler's next_run_time; 0 before there is a job
    frames,    \* when frames were captured
    deferred,  \* times for which no run is scheduled: see Defers
    resets

clockVars == <<time, plan, nextRun, frames, deferred, resets>>

Always == <<0, DaySlots - 1>>

\* opening is active_start_time.
Plans == [mode : {"always"}, opening : {0}, windows : {{Always}}, every : Paces]
    \cup {[mode |-> "manual", opening |-> w[1], windows |-> {w}, every |-> i] :
              w \in ManualWindows, i \in Paces}
    \cup [mode : {"sun"}, opening : {0}, windows : SunWindows, every : Paces]

Midnight(t) == t - (t % DaySlots)

\* Mutant: an opening that has passed means the opening of the next day.
StartDate_NextDay(p, now) ==
    IF p.mode = "manual"
    THEN LET anchor == Midnight(now) + p.opening
         IN  IF anchor > now THEN anchor ELSE anchor + DaySlots
    ELSE now - (now % HourSlots) + ((now % HourSlots) \div p.every + 1) * p.every

\* _compute_start_date: today's opening if it is still to come, otherwise the
\* next tick of the grid that begins there, or at the top of the hour.
StartDate(p, now) ==
    LET anchor == IF p.mode = "manual" THEN Midnight(now) + p.opening
                  ELSE now - (now % HourSlots)
    IN  IF anchor > now THEN anchor
        ELSE anchor + ((now - anchor) \div p.every + 1) * p.every

\* A window that ends before it starts spans midnight.
Inside(w, at) ==
    IF w[1] <= w[2] THEN w[1] <= at /\ at <= w[2] ELSE at >= w[1] \/ at <= w[2]

\* _is_within_active_window
Within(p, t) == \E w \in p.windows : Inside(w, t % DaySlots)

\* A job that is started after midnight waits for the opening of the day to
\* come: for a window that spans midnight the night under way is lost.
Defers(p, now) ==
    IF p.mode = "manual" /\ StartDate(p, now) = Midnight(now) + p.opening
           /\ Within(p, now)
    THEN now + 1 .. StartDate(p, now) - 1 ELSE {}

ClockInit ==
    /\ time = 0
    /\ plan = CHOOSE p \in Plans : p.mode = "always"
    /\ nextRun = 0
    /\ frames = {}
    /\ deferred = {}
    /\ resets = 0

\* add_capture_job, for a profile that is created or enabled at some time
JobCreated ==
    /\ nextRun = 0
    /\ \E p \in Plans, now \in 0 .. DaySlots - 1 :
           /\ plan' = p
           /\ time' = now
           /\ nextRun' = StartDate(p, now)
           /\ deferred' = 0 .. now \cup Defers(p, now)
    /\ UNCHANGED <<frames, resets>>

\* A slot goes by.  A run that is due takes a frame if the window is open.
ClockRuns ==
    /\ nextRun > 0 /\ time < MaxDays * DaySlots
    /\ time' = time + 1
    /\ LET due == nextRun = time + 1
       IN  /\ nextRun' = IF due THEN nextRun + plan.every ELSE nextRun
           /\ frames' = IF due /\ Within(plan, time + 1)
                        THEN frames \cup {time + 1} ELSE frames
    /\ UNCHANGED <<plan, deferred, resets>>

\* restore_jobs, reschedule_capture_job: the job is added again.
JobAdded ==
    /\ nextRun > 0 /\ resets < MaxResets
    /\ resets' = resets + 1
    /\ nextRun' = StartDate(plan, time)
    /\ deferred' = deferred \cup Defers(plan, time)
    /\ UNCHANGED <<time, plan, frames>>

ClockNext == JobCreated \/ ClockRuns \/ JobAdded

ClockSpec == ClockInit /\ [][ClockNext]_clockVars

-----------------------------------------------------------------------------
(* Properties *)

\* Every variable keeps to its type.
ClockTypeOK ==
    /\ time \in 0 .. MaxDays * DaySlots
    /\ plan \in Plans
    /\ nextRun \in Nat
    /\ frames \subseteq 1 .. MaxDays * DaySlots
    /\ deferred \subseteq 0 .. (MaxDays + 1) * DaySlots
    /\ resets \in 0 .. MaxResets

OnGrid(t) == (t - plan.opening) % plan.every = 0

\* The grid begins anew every hour, or at every opening of a manual window.  It
\* is one grid if the interval divides the hour, or the day.
Steady(p) == (IF p.mode = "manual" THEN DaySlots ELSE HourSlots) % p.every = 0

\* A run is at most one interval away, or at today's opening still to come.
Near(run) ==
    \/ run <= time + plan.every
    \/ plan.mode = "manual" /\ run = Midnight(time) + plan.opening

\* However often the process restarts and the profile is rescheduled, in the
\* window or outside it, the frames are those of a job that ran from the start:
\* one at every tick of the grid inside the window, and none off the grid, so
\* no restart loses, doubles or shifts a frame.  The rest of an overnight
\* window is excepted when the job is added after midnight.  That is for
\* intervals for which the grid is one; the next run of any other is at least
\* never further away than one interval or today's opening ("captures stop
\* until tomorrow" is the failure _compute_start_date describes).
FramesOnTheGrid ==
    /\ nextRun > 0 => nextRun > time /\ Near(nextRun)
    /\ Steady(plan) =>
           frames \cup deferred =
               {t \in 1 .. time : Within(plan, t) /\ OnGrid(t)} \cup deferred
=============================================================================
