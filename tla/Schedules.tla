----------------------------- MODULE Schedules -----------------------------
(***************************************************************************)
(* Timelapse and cleanup schedules: rows with a cron expression, the cron  *)
(* jobs made from them, and the requests that change both.                 *)
(*                                                                         *)
(* Granularity.  A request runs in a pool thread; its reads, its commit,   *)
(* its second read and its scheduler call are steps, and other requests    *)
(* run between them.  The realignment of a camera's schedules reads them   *)
(* one after another, commits once, and then takes the last two steps for  *)
(* each of them.  Of a cron expression the model keeps where its time      *)
(* lies, and of a profile's capture window, which requests read, which     *)
(* times lie inside: a boundary inside the window splits it.               *)
(***************************************************************************)
EXTENDS Integers

CONSTANTS
    Timelapses,   \* timelapse schedules, of one camera
    Cleanups,     \* cleanup schedules
    Given,        \* bound: what a row holds that is there from the start
    MaxHandled,   \* bound: requests, numbered as they arrive
    MaxReboots    \* bound: failed commits of a deletion, and restarts

Times == {"night", "day"}
Values == [on : BOOLEAN, cron : Times, preset : BOOLEAN]

ASSUME SchedulesAssumption ==
    /\ Timelapses \cap Cleanups = {}
    /\ Given \subseteq Values
    /\ MaxHandled \in Nat /\ MaxReboots \in Nat

VARIABLES
    schedule,  \* the rows
    cronjob,   \* the jobs: the arguments they were added with
    handler,   \* requests
    astray,    \* schedules whose job was made from an outdated row, or lost
    stranded,  \* schedules that a realignment moved and did not reschedule
    handled, reboots

scheduleVars == <<schedule, cronjob, handler, astray, stranded, handled, reboots>>

Handlers == 1 .. MaxHandled
ScheduleIds == Timelapses \cup Cleanups
NoValue == [on |-> FALSE, cron |-> "night", preset |-> FALSE]
NoValues == [s \in ScheduleIds |-> NoValue]

\* of is what a request has yet to reschedule, at the one it has read for that.
HandlerIdle == [pc |-> "idle", of |-> {}, at |-> {}, seen |-> NoValues,
                new |-> NoValues, fresh |-> FALSE, loop |-> FALSE]

Stored(s) == schedule[s].state = "here"

\* The job that goes with a row.
JobOf(v) == IF v.on THEN v ELSE NoValue

\* Only timelapse schedules have a preset.
ScheduleInit ==
    /\ schedule \in [ScheduleIds -> [state : {"unborn"}, val : {NoValue}]
                                       \cup [state : {"here"}, val : Given]]
    /\ \A c \in Cleanups : ~schedule[c].val.preset
    /\ cronjob = [s \in ScheduleIds |-> JobOf(schedule[s].val)]
    /\ handler = [h \in Handlers |-> HandlerIdle]
    /\ astray = {} /\ stranded = {}
    /\ handled = 0 /\ reboots = 0

-----------------------------------------------------------------------------
(* render_boundary.py *)

\* The times at which a profile captures inside a window; a profile without a
\* window has nothing to split.
Windows == SUBSET Times

\* SAFE_HOUR
Midday == "day"

\* boundary_splits_window
Splits(time, w) == time \in w

\* realign_cron: a time inside the window is moved to midday, if that is not.
Realigned(time, w) ==
    IF Splits(time, w) /\ ~Splits(Midday, w) THEN Midday ELSE time

-----------------------------------------------------------------------------
(* Requests: the part up to the commit *)

Receives(h, pc, s, new, loop) ==
    /\ h = handled + 1
    /\ handler' = [handler EXCEPT ![h] =
           [HandlerIdle EXCEPT !.pc = pc, !.of = {s}, !.loop = loop,
                               !.seen[s] = schedule[s].val, !.new[s] = new]]
    /\ handled' = h
    /\ UNCHANGED <<schedule, astray, stranded, reboots>>

\* A schedule is made from a preset, whose midnight boundary is realigned, or
\* from a cron expression of the user's own.
PostTimelapse(h, s) ==
    /\ schedule[s].state = "unborn"
    /\ \E on \in BOOLEAN :
           \/ \E w \in Windows : Receives(h, "posting", s,
                  [on |-> on, cron |-> Realigned("night", w), preset |-> TRUE], FALSE)
           \/ \E t \in Times : Receives(h, "posting", s,
                  [on |-> on, cron |-> t, preset |-> FALSE], FALSE)
    /\ UNCHANGED cronjob

PostCleanup(h, s) ==
    /\ schedule[s].state = "unborn"
    /\ \E on \in BOOLEAN, t \in Times : Receives(h, "posting", s,
           [on |-> on, cron |-> t, preset |-> FALSE], FALSE)
    /\ UNCHANGED cronjob

\* update_schedule: any of enabled, preset and cron_expression in one request.
\* A preset brings its cron expression; one of the user's own leaves the preset,
\* unless the request clears it.
PutTimelapse(h, s) ==
    /\ Stored(s)
    /\ \E on \in BOOLEAN :
           \/ \E w \in Windows : Receives(h, "putting", s,
                  [on |-> on, cron |-> Realigned("night", w), preset |-> TRUE], FALSE)
           \/ \E t \in Times, p \in {schedule[s].val.preset, FALSE} :
                  Receives(h, "putting", s,
                      [on |-> on, cron |-> t, preset |-> p], FALSE)
    /\ UNCHANGED cronjob

PutCleanup(h, s) ==
    /\ Stored(s)
    /\ \E on \in BOOLEAN, t \in Times : Receives(h, "putting", s,
           [on |-> on, cron |-> t, preset |-> FALSE], FALSE)
    /\ UNCHANGED cronjob

\* realign_schedules, one row of its list: nothing is done for a boundary that
\* is well placed, or that no time would place better.  The preset is cleared.
\* The profiles of the camera are read in turn.
Realign(h, s) ==
    /\ Stored(s)
    /\ \E w \in Windows :
           LET old == schedule[s].val
               new == [old EXCEPT !.cron = Realigned(@, w), !.preset = FALSE]
           IN  /\ new.cron # old.cron
               /\ \/ Receives(h, "putting", s, new, TRUE)
                  \/ /\ handler[h].pc = "putting" /\ handler[h].loop
                     /\ s \notin handler[h].of
                     /\ handler' = [handler EXCEPT ![h].of = @ \cup {s},
                            ![h].seen[s] = old, ![h].new[s] = new]
                     /\ UNCHANGED <<schedule, astray, stranded, handled, reboots>>
    /\ UNCHANGED cronjob

\* The job goes first, the row with the commit that follows.
DeleteTimelapse(h, s) ==
    /\ Stored(s)
    /\ Receives(h, "deleting", s, NoValue, FALSE)
    /\ cronjob' = [cronjob EXCEPT ![s] = NoValue]

DeleteCleanup(h, s) ==
    /\ Stored(s)
    /\ Receives(h, "deleting", s, NoValue, FALSE)
    /\ cronjob' = [cronjob EXCEPT ![s] = NoValue]

-----------------------------------------------------------------------------
(* Requests: the commit and what follows it *)

\* The ORM writes what differs from the values that were read.
Written(old, seen, new) ==
    [on     |-> IF new.on # seen.on THEN new.on ELSE old.on,
     cron   |-> IF new.cron # seen.cron THEN new.cron ELSE old.cron,
     preset |-> IF new.preset # seen.preset THEN new.preset ELSE old.preset]

\* The requests that hold a reading of one of these rows have an outdated one.
Overtaken(rows) ==
    [h \in Handlers |-> [handler[h] EXCEPT
        !.fresh = @ /\ handler[h].at \cap rows = {}]]

Posts(h, s) ==
    /\ handler[h].pc = "posting"
    /\ IF schedule[s].state = "unborn"
       THEN /\ schedule' = [schedule EXCEPT ![s] =
                                [state |-> "here", val |-> handler[h].new[s]]]
            /\ handler' = [handler EXCEPT ![h].pc = "committed"]
       ELSE /\ handler' = [handler EXCEPT ![h] = HandlerIdle]
            /\ UNCHANGED schedule
    /\ UNCHANGED <<cronjob, astray, stranded, handled, reboots>>

\* One commit for all rows the request has changed; if one of them was deleted
\* meanwhile it fails, and none is written.
Puts(h) ==
    LET of == handler[h].of
    IN  /\ handler[h].pc = "putting"
        /\ IF \A s \in of : Stored(s)
           THEN /\ schedule' = [s \in ScheduleIds |->
                       IF s \notin of THEN schedule[s]
                       ELSE [schedule[s] EXCEPT !.val =
                                Written(@, handler[h].seen[s], handler[h].new[s])]]
                /\ handler' = [Overtaken(of) EXCEPT ![h].pc = "committed"]
           ELSE /\ handler' = [handler EXCEPT ![h] = HandlerIdle]
                /\ UNCHANGED schedule
        /\ UNCHANGED <<cronjob, astray, stranded, handled, reboots>>

\* Mutant: the values that were sent are taken for those that are stored.
Reread_Sent(h, s) == handler[h].new[s]

\* What db.refresh, or db.get after a commit, returns.
Reread(h, s) == schedule[s].val

\* The row of the next schedule is read again.  For one deleted meanwhile
\* db.refresh raises, and db.get gives the loop a None it trips over: either
\* ends the request, and what was still to be rescheduled is left as it is.
Rereads(h, s) ==
    /\ handler[h].pc = "committed"
    /\ IF Stored(s)
       THEN /\ handler' = [handler EXCEPT ![h] =
                   [@ EXCEPT !.pc = "scheduling", !.at = {s}, !.fresh = TRUE,
                             !.seen = [NoValues EXCEPT ![s] = Reread(h, s)]]]
            /\ UNCHANGED stranded
       ELSE /\ handler' = [handler EXCEPT ![h] = HandlerIdle]
            /\ stranded' = stranded \cup (handler[h].of \ {s})
    /\ UNCHANGED <<schedule, cronjob, astray, handled, reboots>>

\* The job is removed, and added again if the schedule is enabled.
Reschedules(h, s) ==
    /\ handler[h].pc = "scheduling" /\ s \in handler[h].at
    /\ cronjob' = [cronjob EXCEPT ![s] = JobOf(handler[h].seen[s])]
    /\ astray' = IF handler[h].fresh THEN astray \ {s} ELSE astray \cup {s}
    /\ stranded' = stranded \ {s}
    /\ handler' =
           IF handler[h].of = {s} THEN [handler EXCEPT ![h] = HandlerIdle]
           ELSE [handler EXCEPT ![h].pc = "committed", ![h].of = @ \ {s},
                     ![h].at = {}, ![h].fresh = FALSE, ![h].seen = NoValues]
    /\ UNCHANGED <<schedule, handled, reboots>>

\* The commit of a deletion; if it fails, the row stays without its job.
Deletes(h, s) ==
    /\ handler[h].pc = "deleting"
    /\ \/ /\ schedule' = [schedule EXCEPT ![s].state = "gone"]
          /\ handler' = [Overtaken({s}) EXCEPT ![h] = HandlerIdle]
          /\ UNCHANGED <<astray, reboots>>
       \/ /\ reboots < MaxReboots
          /\ reboots' = reboots + 1
          /\ astray' = astray \cup {s}
          /\ handler' = [handler EXCEPT ![h] = HandlerIdle]
          /\ UNCHANGED schedule
    /\ UNCHANGED <<cronjob, stranded, handled>>

-----------------------------------------------------------------------------
(* The rest of the program *)

\* delete_profile and delete_stream: the rows cascade, the jobs stay, and find
\* no row when they fire.
Cascades(s) ==
    /\ Stored(s)
    /\ schedule' = [schedule EXCEPT ![s].state = "gone"]
    /\ handler' = Overtaken({s})
    /\ UNCHANGED <<cronjob, astray, stranded, handled, reboots>>

\* restore_jobs
SchedulesRestored ==
    /\ reboots < MaxReboots
    /\ reboots' = reboots + 1
    /\ cronjob' = [s \in ScheduleIds |->
                      IF Stored(s) THEN JobOf(schedule[s].val) ELSE NoValue]
    /\ handler' = [h \in Handlers |-> HandlerIdle]
    /\ astray' = {} /\ stranded' = {}
    /\ UNCHANGED <<schedule, handled>>

ScheduleNext ==
    \/ \E h \in Handlers :
           \/ \E s \in Timelapses : \/ PostTimelapse(h, s) \/ PutTimelapse(h, s)
                                    \/ DeleteTimelapse(h, s) \/ Realign(h, s)
           \/ \E s \in Cleanups : \/ PostCleanup(h, s) \/ PutCleanup(h, s)
                                  \/ DeleteCleanup(h, s)
           \/ Puts(h)
           \/ \E s \in handler[h].of : \/ Posts(h, s) \/ Rereads(h, s)
                                       \/ Reschedules(h, s) \/ Deletes(h, s)
    \/ \E s \in ScheduleIds : Cascades(s)
    \/ SchedulesRestored

ScheduleSpec == ScheduleInit /\ [][ScheduleNext]_scheduleVars

-----------------------------------------------------------------------------
(* Properties *)

HandlerRecords ==
    [pc : {"idle", "posting", "putting", "committed", "scheduling", "deleting"},
     of : SUBSET ScheduleIds, at : SUBSET ScheduleIds,
     seen : [ScheduleIds -> Values], new : [ScheduleIds -> Values],
     fresh : BOOLEAN, loop : BOOLEAN]

\* Every variable keeps to its type.
ScheduleTypeOK ==
    /\ schedule \in [ScheduleIds -> [state : {"unborn", "here", "gone"}, val : Values]]
    /\ cronjob \in [ScheduleIds -> Values]
    /\ handler \in [Handlers -> HandlerRecords]
    /\ astray \subseteq ScheduleIds /\ stranded \subseteq ScheduleIds
    /\ handled \in 0 .. MaxHandled /\ reboots \in 0 .. MaxReboots

\* The row is there, nobody is at work on it, and the last one who was had read
\* it as it is.
Settled(s) ==
    /\ Stored(s) /\ s \notin astray
    /\ \A h \in Handlers : s \notin handler[h].of

\* When all requests on a schedule are done, it has a job exactly if it is
\* enabled, and that job has its cron expression and its preset: also when
\* requests that change different columns cross, since the job is made from
\* the row as it was read again, and also for a realignment that was cut short,
\* which leaves jobs that fire at another time than their rows say but none
\* that is missing or should not be there.  A restart, or one more request on
\* the schedule, puts right what went wrong before.
SchedulesFollowRows ==
    \A s \in ScheduleIds : Settled(s) =>
        /\ cronjob[s].on = schedule[s].val.on
        /\ s \notin stranded => cronjob[s] = JobOf(schedule[s].val)

\* A schedule that was realigned fires at its new time and no longer at the one
\* its preset named ("The stored preset named a clock time this no longer fires
\* at", timelapse_schedules.py:224), whatever else was deleted meanwhile.
RealignedFiresThere ==
    \A s \in ScheduleIds : Settled(s) => cronjob[s] = JobOf(schedule[s].val)
=============================================================================
