-------------------------- MODULE ProfileLifecycle --------------------------
(***************************************************************************)
(* One ordinary (user-owned) capture profile: its row, its capture job,    *)
(* the requests that change them and the health monitor, which disables    *)
(* the profile while its stream is down and enables it again.              *)
(*                                                                         *)
(* Granularity.  A request runs in a pool thread: it reads the row,        *)
(* commits the attributes it changed, reads the row again and calls the    *)
(* scheduler; every other actor may come in between.  The monitor runs on  *)
(* the event loop and waits for the probe and, between its scheduler calls *)
(* and its commit, for emit().  The ORM writes an attribute only if its    *)
(* new value differs from the one that was read.                           *)
(***************************************************************************)
EXTENDS Integers

CONSTANTS
    Intervals,  \* interval_seconds
    Threshold,  \* health_check_failure_threshold
    MaxAsked,   \* bound: requests, numbered as they arrive
    MaxMishaps  \* bound: failed commits of the monitor, and restarts

ASSUME ProfileLifecycleAssumption ==
    /\ Intervals \subseteq Nat \ {0} /\ Intervals # {}
    /\ Threshold \in Nat \ {0} /\ MaxAsked \in Nat /\ MaxMishaps \in Nat

VARIABLES
    row,       \* the row in profiles
    job,       \* the interval of job capture_<id>; 0 is no job
    camera,    \* the stream's row
    request,   \* requests: where they are, what they read
    monitor,   \* check_all_streams
    late,      \* a write or a scheduler call was made from an outdated row
    wish,      \* the user's last explicit toggle
    asked, mishaps

profileVars ==
    <<row, job, camera, request, monitor, late, wish, asked, mishaps>>

Requests == 1 .. MaxAsked

Attrs == [on : BOOLEAN, auto : BOOLEAN, every : Intervals]
Blank == [on |-> TRUE, auto |-> FALSE,
          every |-> CHOOSE i \in Intervals : TRUE]

RequestIdle == [pc |-> "idle", kind |-> "none", seen |-> Blank, fresh |-> FALSE]
MonitorIdle == [pc |-> "idle", health |-> "unknown", fails |-> 0,
                plan |-> "none", seen |-> Blank, fresh |-> FALSE]

ProfileInit ==
    /\ row \in [state : {"unborn", "here"}, val : {Blank}]
    /\ job = IF row.state = "here" THEN row.val.every ELSE 0
    /\ camera = [here |-> TRUE, health |-> "unknown", fails |-> 0]
    /\ request = [r \in Requests |-> RequestIdle]
    /\ monitor = MonitorIdle
    /\ late = FALSE
    /\ wish = "none"
    /\ asked = 0 /\ mishaps = 0

Exists == row.state = "here"

\* What the row becomes when the difference of two readings is written to it.
Merged(old, seen, new) ==
    [on    |-> IF new.on # seen.on THEN new.on ELSE old.on,
     auto  |-> IF new.auto # seen.auto THEN new.auto ELSE old.auto,
     every |-> IF new.every # seen.every THEN new.every ELSE old.every]

\* Whoever else has read the row has now an outdated one.
Outdated(records) == [r \in DOMAIN records |-> [records[r] EXCEPT !.fresh = FALSE]]

-----------------------------------------------------------------------------
(* Requests *)

Toggles == {"enable", "disable", "put_on", "put_off"}
Kinds == Toggles \cup {"interval", "create", "delete", "delete_stream",
                       "delete_empty_stream"}

\* db.get; a request for a profile that is not there is answered 404.
RequestReads(r, kind) ==
    /\ r = asked + 1
    /\ CASE kind = "create" -> row.state = "unborn" /\ camera.here
         [] kind = "delete_empty_stream" -> camera.here /\ ~Exists
         [] OTHER -> Exists
    /\ request' = [request EXCEPT ![r] =
           [pc |-> "read", kind |-> kind, fresh |-> TRUE,
            seen |-> IF kind \in Toggles \cup {"interval"} THEN row.val
                     ELSE Blank]]
    /\ asked' = r
    /\ UNCHANGED <<row, job, camera, monitor, late, wish, mishaps>>

\* Mutant: the toggle leaves the auto-disable marker.
Edited_KeepsMarker(kind, v) ==
    CASE kind \in {"enable", "put_on"} -> {[v EXCEPT !.on = TRUE]}
      [] kind \in {"disable", "put_off"} -> {[v EXCEPT !.on = FALSE]}
      [] OTHER -> {[v EXCEPT !.every = i] : i \in Intervals}

\* The attributes a request sets: an explicit toggle clears the marker.
Edited(kind, v) ==
    CASE kind \in {"enable", "put_on"} ->
             {[v EXCEPT !.on = TRUE, !.auto = FALSE]}
      [] kind \in {"disable", "put_off"} ->
             {[v EXCEPT !.on = FALSE, !.auto = FALSE]}
      [] OTHER -> {[v EXCEPT !.every = i] : i \in Intervals}

\* The monitor has called the scheduler for a change it has yet to commit.
MonitorPending == monitor.plan # "none"

Wanted(r) ==
    LET kind == request[r].kind
    IN  IF kind \notin Toggles THEN wish
        ELSE IF kind \in {"enable", "put_on"} THEN "on"
        ELSE IF MonitorPending \/ ~request[r].fresh THEN "contested" ELSE "off"

\* The commit of a change; for a row deleted meanwhile it fails.
RequestWrites(r) ==
    /\ request[r].pc = "read" /\ request[r].kind \in Toggles \cup {"interval"}
    /\ \/ /\ Exists
          /\ \E new \in Edited(request[r].kind, request[r].seen) :
                 row' = [row EXCEPT !.val = Merged(@, request[r].seen, new)]
          /\ wish' = Wanted(r)
          /\ request' = [Outdated(request) EXCEPT ![r] =
                             [request[r] EXCEPT !.pc = "committed", !.seen = Blank]]
          /\ monitor' = [monitor EXCEPT !.fresh = FALSE]
       \/ /\ ~Exists
          /\ request' = [request EXCEPT ![r] = RequestIdle]
          /\ UNCHANGED <<row, monitor, wish>>
    /\ UNCHANGED <<job, camera, late, asked, mishaps>>

\* create_profile and apply_template; the foreign key refuses a stream that
\* was deleted meanwhile.
ProfileCreated(r) ==
    /\ request[r].pc = "read" /\ request[r].kind = "create"
    /\ \/ /\ camera.here /\ row.state = "unborn"
          /\ row' = [row EXCEPT !.state = "here"]
          /\ request' = [request EXCEPT ![r].pc = "committed"]
       \/ /\ ~camera.here \/ row.state # "unborn"
          /\ request' = [request EXCEPT ![r] = RequestIdle]
          /\ UNCHANGED row
    /\ UNCHANGED <<job, camera, monitor, late, wish, asked, mishaps>>

\* The commit of delete_profile, or of delete_stream with its cascade, which
\* tears down only the jobs of the profiles it saw before.
ProfileDeleted(r) ==
    /\ request[r].pc = "read"
    /\ request[r].kind \in {"delete", "delete_stream", "delete_empty_stream"}
    /\ row' = IF Exists THEN [row EXCEPT !.state = "gone"] ELSE row
    /\ camera' = IF request[r].kind = "delete" THEN camera
                 ELSE [camera EXCEPT !.here = FALSE]
    /\ IF request[r].kind = "delete_empty_stream"
       THEN /\ request' = [Outdated(request) EXCEPT ![r] = RequestIdle]
            /\ late' = (late \/ Exists)
       ELSE /\ request' = [Outdated(request) EXCEPT ![r].pc = "refreshed",
                                                    ![r].fresh = TRUE]
            /\ UNCHANGED late
    /\ monitor' = [monitor EXCEPT !.fresh = FALSE]
    /\ UNCHANGED <<job, wish, asked, mishaps>>

\* db.refresh fails for a row deleted meanwhile.  Enable and disable do not
\* look at what they read: for them the row stays as old as it was.
RequestRefreshes(r) ==
    /\ request[r].pc = "committed"
    /\ request' = [request EXCEPT ![r] =
           IF Exists
           THEN [@ EXCEPT !.pc = "refreshed", !.seen = row.val,
                          !.fresh = \/ request[r].fresh
                                    \/ request[r].kind \notin {"enable", "disable"}]
           ELSE RequestIdle]
    /\ UNCHANGED <<row, job, camera, monitor, late, wish, asked, mishaps>>

\* Mutant: a new interval is left to the next restart.
JobFor_KeepsInterval(kind, v) ==
    CASE kind \in {"delete", "delete_stream", "disable"} -> 0
      [] kind = "enable" -> v.every
      [] kind = "interval" -> job
      [] OTHER -> IF v.on THEN v.every ELSE 0

\* enable_profile adds the job and disable_profile removes it without a look;
\* the others go by the row as it was read again.
JobFor(kind, v) ==
    CASE kind \in {"delete", "delete_stream", "disable"} -> 0
      [] kind = "enable" -> v.every
      [] OTHER -> IF v.on THEN v.every ELSE 0

RequestSchedules(r) ==
    /\ request[r].pc = "refreshed"
    /\ job' = JobFor(request[r].kind, request[r].seen)
    /\ late' = (~request[r].fresh \/ MonitorPending)
    /\ request' = [request EXCEPT ![r] = RequestIdle]
    /\ UNCHANGED <<row, camera, monitor, wish, asked, mishaps>>

-----------------------------------------------------------------------------
(* health.py: check_all_streams *)

\* The outcome of a probe that changes nothing for the profile: nothing is sent,
\* and the stream's row is committed at once.
Unremarkable(health, fails) ==
    /\ camera' = [camera EXCEPT !.health = health, !.fails = fails]
    /\ UNCHANGED <<row, job, request, monitor, late, wish, asked, mishaps>>

\* The outcome of a probe that turns the stream's health: the profile is looked
\* up and scheduled, if the turn concerns it, and a notification goes out.
Turns(health, fails, plan) ==
    /\ job' = CASE plan = "up" -> row.val.every [] plan = "down" -> 0
                [] OTHER -> job
    /\ monitor' = [pc |-> "committing", health |-> health, fails |-> fails,
                   plan |-> plan, fresh |-> plan # "none",
                   seen |-> IF plan = "none" THEN Blank ELSE row.val]
    /\ UNCHANGED <<row, camera, request, late, wish, asked, mishaps>>

\* Only the monitor writes a stream's health, so the outcome of the probe stands
\* for the probe.  A success after "unhealthy" takes the profile up if it bears
\* the marker.
SourceAnswers ==
    /\ monitor.pc = "idle" /\ camera.here
    /\ IF camera.health = "unhealthy"
       THEN Turns("healthy", 0, IF Exists /\ row.val.auto THEN "up" ELSE "none")
       ELSE Unremarkable("healthy", 0)

\* The failure that reaches the threshold takes an enabled profile down; from
\* there on they are no longer counted here.
SourceFails ==
    /\ monitor.pc = "idle" /\ camera.here
    /\ IF camera.health = "unhealthy" THEN Unremarkable("unhealthy", camera.fails)
       ELSE IF camera.fails + 1 < Threshold
       THEN Unremarkable(camera.health, camera.fails + 1)
       ELSE Turns("unhealthy", Threshold,
                  IF Exists /\ row.val.on THEN "down" ELSE "none")

Planned(v) == CASE monitor.plan = "up" -> [v EXCEPT !.on = TRUE, !.auto = FALSE]
                [] monitor.plan = "down" -> [v EXCEPT !.on = FALSE, !.auto = TRUE]
                [] OTHER -> v

\* One transaction for the stream and its profile: a row deleted meanwhile
\* makes it fail as a whole.
MonitorCommits ==
    /\ monitor.pc = "committing"
    /\ \/ /\ camera.here /\ (monitor.plan # "none" => Exists)
          /\ camera' = [camera EXCEPT !.health = monitor.health,
                                      !.fails = monitor.fails]
          /\ IF monitor.plan = "none"
             THEN UNCHANGED <<row, request, late>>
             ELSE /\ row' = [row EXCEPT !.val =
                                 Merged(@, monitor.seen, Planned(monitor.seen))]
                  /\ request' = Outdated(request)
                  /\ late' = (late \/ ~monitor.fresh)
       \/ /\ ~camera.here \/ (monitor.plan # "none" /\ ~Exists)
          /\ UNCHANGED <<row, camera, request, late>>
    /\ monitor' = MonitorIdle
    /\ UNCHANGED <<job, wish, asked, mishaps>>

\* The commit fails: the rows keep their values, the job has changed.
MonitorCommitFails ==
    /\ monitor.pc = "committing" /\ mishaps < MaxMishaps
    /\ mishaps' = mishaps + 1
    /\ late' = (late \/ monitor.plan # "none")
    /\ monitor' = MonitorIdle
    /\ UNCHANGED <<row, job, camera, request, wish, asked>>

-----------------------------------------------------------------------------
(* scheduler.py *)

\* capture_frame for a profile that is gone removes its own job.
OrphanTicks ==
    /\ job # 0 /\ ~Exists
    /\ job' = 0
    /\ UNCHANGED <<row, camera, request, monitor, late, wish, asked, mishaps>>

\* restore_jobs, in a new process
ProfileBoot ==
    /\ mishaps < MaxMishaps
    /\ mishaps' = mishaps + 1
    /\ job' = IF Exists /\ row.val.on THEN row.val.every ELSE 0
    /\ request' = [r \in Requests |-> RequestIdle]
    /\ monitor' = MonitorIdle
    /\ late' = FALSE
    /\ UNCHANGED <<row, camera, wish, asked>>

ProfileNext ==
    \/ \E r \in Requests : \/ \E kind \in Kinds : RequestReads(r, kind)
                           \/ RequestWrites(r)
                           \/ ProfileCreated(r)
                           \/ ProfileDeleted(r)
                           \/ RequestRefreshes(r)
                           \/ RequestSchedules(r)
    \/ SourceAnswers
    \/ SourceFails
    \/ MonitorCommits
    \/ MonitorCommitFails
    \/ OrphanTicks
    \/ ProfileBoot

ProfileSpec == ProfileInit /\ [][ProfileNext]_profileVars

-----------------------------------------------------------------------------
(* Properties *)

Healths == {"unknown", "healthy", "unhealthy"}

\* Every variable keeps to its type.
ProfileTypeOK ==
    /\ row \in [state : {"unborn", "here", "gone"}, val : Attrs]
    /\ job \in Intervals \cup {0}
    /\ camera \in [here : BOOLEAN, health : Healths, fails : 0 .. Threshold]
    /\ request \in [Requests ->
           [pc : {"idle", "read", "committed", "refreshed"},
            kind : Kinds \cup {"none"}, seen : Attrs, fresh : BOOLEAN]]
    /\ monitor \in [pc : {"idle", "committing"}, health : Healths,
                    fails : 0 .. Threshold, plan : {"none", "up", "down"},
                    seen : Attrs, fresh : BOOLEAN]
    /\ late \in BOOLEAN
    /\ wish \in {"none", "on", "off", "contested"}
    /\ asked \in 0 .. MaxAsked /\ mishaps \in 0 .. MaxMishaps

Quiet == ~MonitorPending /\ \A r \in Requests : request[r].pc \in {"idle", "read"}

\* Once every request and the monitor have finished, the profile is captured
\* at its own interval exactly if its row says so - unless one of them wrote or
\* scheduled from a row that another had changed since it was read, which
\* nothing in the code prevents; the next restart, or the next request that
\* goes by the row, repairs that.
JobsFollowRows ==
    Quiet /\ ~late => job = IF Exists /\ row.val.on THEN row.val.every ELSE 0

\* A profile the user disabled stays disabled: no recovery of its stream takes
\* it up again, whatever failed before or after ("clear the auto-disable marker
\* so health recovery can't silently override it", profiles.py:84-85).  A
\* change that the monitor or another request was about to commit at that
\* moment is not held back by this: see ToggleNeverOverridden.
UserToggleStands == wish = "off" /\ Exists => ~row.val.on

\* The same without the exception, as the comment promises it: a profile whose
\* last toggle disabled it is off.  Not so when the recovery has read the row
\* before the toggle and commits after it.
ToggleNeverOverridden == wish \in {"off", "contested"} /\ Exists => ~row.val.on
=============================================================================
