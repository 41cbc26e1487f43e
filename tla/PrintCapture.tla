---------------------------- MODULE PrintCapture ----------------------------
(***************************************************************************)
(* Print-triggered capture: the PrusaLink poller, the settings request     *)
(* that switches the integration on and off, the stream health monitor and *)
(* the deletion of a stream, all of which write the one managed capture    *)
(* profile and its scheduler job.                                          *)
(*                                                                         *)
(* Granularity.  The poller, the health monitor and the PUT handler are    *)
(* coroutines of one event loop: they interleave at an await only.  A step *)
(* that stops at a database commit without awaiting keeps the loop (see    *)
(* LoopFree), so that only a thread (deleting a stream) or a crash can     *)
(* come in between.  A deletion runs in the thread pool and interleaves    *)
(* with everything.                                                        *)
(***************************************************************************)
EXTENDS Integers, FiniteSets

CONSTANTS
    Streams,          \* the cameras; each exists until it is deleted
    NoStream,         \* the setting stream_id = None
    JobIds,           \* PrusaLink's own job ids
    NoJob,            \* a status without a job id
    NoReply,          \* a poll that got no status
    Estimates,        \* whether a status carries a print-time estimate
    GenerateOnFinish, \* settings of the integration
    GenerateOnCancel,
    Notify,           \* external notifications are on: emit() awaits a thread
    Threshold,        \* health_check_failure_threshold
    Env,              \* what the surroundings of this instance may do
    MaxPrints,        \* bound: rows ever created in print_jobs
    MaxRestarts       \* bound: restarts and crashes

EnvEvents == {"disable", "rebind", "delete_stream", "flap", "restart",
              "crash", "poll_db_error", "power_off"}

ASSUME PrintCaptureAssumption ==
    /\ NoStream \notin Streams
    /\ NoJob \notin JobIds
    /\ Estimates \subseteq BOOLEAN
    /\ GenerateOnFinish \in BOOLEAN
    /\ GenerateOnCancel \in BOOLEAN
    /\ Notify \in BOOLEAN
    /\ Threshold \in Nat \ {0}
    /\ Env \subseteq EnvEvents
    /\ MaxPrints \in Nat \ {0}
    /\ MaxRestarts \in Nat

VARIABLES
    cfg,         \* the prusalink_config setting
    streams,     \* rows of the streams table
    health,      \* health_status and consecutive_failures of a stream
    profile,     \* the managed profile's row; id 0 is no row
    lastProfile, \* AUTOINCREMENT of the profiles table
    prints,      \* rows of print_jobs
    lastPrint,   \* AUTOINCREMENT of the print_jobs table
    renders,     \* calls of enqueue_generation for a print
    capJobs,     \* ids i with a scheduler job capture_<i>
    pollJob,     \* the scheduler job prusalink_poll exists
    poll,        \* poll_printer
    put,         \* update_prusalink_settings
    check,       \* check_all_streams, at one stream
    deletion,    \* delete_stream
    unreachable, \* _unreachable_since and the age of its entry
    printerOff,  \* the printer was switched off for good
    restarts

tables == <<cfg, streams, health, profile, lastProfile, prints, lastPrint>>
vars == <<cfg, streams, health, profile, lastProfile, prints, lastPrint,
          renders, capJobs, pollJob, poll, put, check, deletion, unreachable,
          printerOff, restarts>>

-----------------------------------------------------------------------------
(* Data *)

PrintIds == 1 .. MaxPrints

Configs == [on: BOOLEAN, stream: Streams \cup {NoStream}]

\* The gate the poller, the PUT handler and the boot sequence share.
Running(c) == c.on /\ c.stream # NoStream

Statuses == [state: {"printing", "paused", "finished", "other"},
             job: JobIds \cup {NoJob}, est: BOOLEAN]

\* What the printer may answer in this instance.
Replies == [state: {"printing", "paused", "finished", "other"},
            job: JobIds \cup {NoJob}, est: Estimates]

NoProfile == [id |-> 0, stream |-> NoStream, enabled |-> FALSE, auto |-> FALSE]

NoPrint == [status |-> "absent", job |-> NoJob, stream |-> NoStream,
            est |-> FALSE]

Terminal == {"finished", "cancelled"}

\* Mutant: a print is taken for open until it has finished.
OpenPrints_Unfinished ==
    {p \in PrintIds : prints[p].status \in {"printing", "cancelled"}}

OpenPrints == {p \in PrintIds : prints[p].status = "printing"}

PollIdle == [pc |-> "idle", cfg |-> [on |-> FALSE, stream |-> NoStream],
             status |-> NoReply, print |-> 0, profile |-> 0,
             generate |-> FALSE, again |-> FALSE]

CheckIdle == [pc |-> "idle", stream |-> NoStream, id |-> 0,
              found |-> "healthy", dirty |-> {}]

DeletionIdle == [pc |-> "idle", stream |-> NoStream, ids |-> {}]

(* The event loop is free when no coroutine holds it between a commit and  *)
(* its next await.  The second half of a job-id change holds it unless     *)
(* the emit() before it really awaited.                                    *)
LoopFree ==
    /\ poll.pc \notin {"opened", "closed"}
    /\ poll.pc = "again" => Notify
    /\ put = "idle"

-----------------------------------------------------------------------------
(* prusalink.py: decisions *)

\* Mutant: the event's name is stored as the status.
Outcome_EventName(state) ==
    IF state = "finished" THEN "finished" ELSE "print_failed"

\* The status a print is closed with.
Outcome(state) == IF state = "finished" THEN "finished" ELSE "cancelled"

\* Mutant: generate_on_cancel is not consulted.
Generates_Always(state) == state = "finished" => GenerateOnFinish

\* Whether a close requests a render.
Generates(state) == IF state = "finished" THEN GenerateOnFinish
                                          ELSE GenerateOnCancel

\* decide_transition: what a polled state means while a print is open or not.
Decide(active, state) ==
    [start    |-> ~active /\ state = "printing",
     stop     |-> active /\ state \in {"finished", "other"},
     outcome  |-> Outcome(state),
     generate |-> active /\ state \in {"finished", "other"} /\ Generates(state)]

\* A printing status with another job id than the open print's.
JobChanged(st) ==
    /\ st.state = "printing"
    /\ st.job # NoJob
    /\ \E p \in OpenPrints : prints[p].job \notin {NoJob, st.job}

(* ensure_managed_profile: find or create the managed row and move it to   *)
(* the configured stream.  The foreign key refuses a deleted stream.       *)
EnsureRaises(c) == c.stream # NoStream /\ c.stream \notin streams

Ensured(c) ==
    IF c.stream = NoStream THEN profile
    ELSE IF profile.id = 0
         THEN [id |-> lastProfile + 1, stream |-> c.stream,
               enabled |-> FALSE, auto |-> FALSE]
         ELSE [profile EXCEPT !.stream = c.stream]

EnsuredLast(c) == IF Ensured(c).id > lastProfile THEN Ensured(c).id
                                                 ELSE lastProfile

\* Mutant: the print in flight is looked up by the printer's job id.
Active_ByJobId == \E p \in OpenPrints : prints[p].job # NoJob

\* A print is open (_open_print_job).
Active == OpenPrints # {}

\* Mutant: the auto-disable marker survives the close.
SwitchedOff_KeepsMarker(row) == [row EXCEPT !.enabled = FALSE]

\* The managed profile's row once its print is over.
SwitchedOff(row) == [row EXCEPT !.enabled = FALSE, !.auto = FALSE]

\* Mutant: the configuration read before the network await is used.
StillRunning_NotReread == cfg.stream # NoStream

\* The configuration, read again after the network awaits.
StillRunning == Running(cfg)

\* Mutant: the clock restarts at every unanswered poll.
PastGrace_Restarts(p) == FALSE

\* The printer has been unreachable for the whole grace period.
PastGrace(p) == unreachable[p] = "expired"

-----------------------------------------------------------------------------
(* prusalink.py: the poller *)

pollOther == <<cfg, streams, health, put, check, deletion, printerOff,
               restarts, pollJob>>

\* poll_printer up to its network awaits.
PollStart ==
    /\ pollJob /\ LoopFree /\ poll.pc = "idle"
    /\ Running(cfg)
    /\ poll' = [PollIdle EXCEPT !.pc = "asked"]
    /\ UNCHANGED <<profile, lastProfile, prints, lastPrint, renders, capJobs,
                   unreachable, pollOther>>

\* An exception in the poll is logged and ends it.
PollFails ==
    /\ poll' = PollIdle
    /\ UNCHANGED <<profile, lastProfile, prints, lastPrint, renders, capJobs>>

(* The rising edge: the row is committed with the profile switched on; the *)
(* scheduler job comes after the commit (PollAddsJob).                     *)
OpensPrint(c, st) ==
    /\ ~Active /\ Decide(FALSE, st.state).start
    /\ ~EnsureRaises(c)
    /\ lastPrint < MaxPrints
    /\ profile' = [Ensured(c) EXCEPT !.enabled = TRUE, !.auto = FALSE]
    /\ lastProfile' = EnsuredLast(c)
    /\ lastPrint' = lastPrint + 1
    /\ prints' = [prints EXCEPT ![lastPrint + 1] =
                    [status |-> "printing", job |-> st.job,
                     stream |-> c.stream, est |-> st.est]]
    /\ poll' = [PollIdle EXCEPT !.pc = "opened", !.profile = Ensured(c).id]
    /\ UNCHANGED <<renders, capJobs>>

\* An open print that goes on; its interval is recomputed when the estimate
\* arrives late, which takes the scheduler job down and adds it again.
KeepsPrint(c, st) ==
    /\ ~JobChanged(st)
    /\ ~EnsureRaises(c)
    /\ \E p \in OpenPrints :
        LET late == st.state = "printing" /\ ~prints[p].est /\ st.est
        IN  /\ ~Decide(TRUE, st.state).stop
            /\ profile' = Ensured(c)
            /\ lastProfile' = EnsuredLast(c)
            /\ prints' = [prints EXCEPT ![p].est = @ \/ late]
            /\ capJobs' = IF late THEN capJobs \cup {Ensured(c).id} ELSE capJobs
    /\ poll' = PollIdle
    /\ UNCHANGED <<lastPrint, renders>>

(* Closing: the job goes first, then one commit switches the profile off,  *)
(* clears its auto-disable marker and ends the print.  The render request  *)
(* and the event follow (PollClosed).                                      *)
ClosesPrint(c, st, state, again) ==
    /\ ~EnsureRaises(c)
    /\ again => lastPrint < MaxPrints
    /\ \E p \in OpenPrints :
        LET d == Decide(TRUE, state)
        IN  /\ d.stop
            /\ prints' = [prints EXCEPT ![p].status = d.outcome]
            /\ poll' = [pc |-> "closed", cfg |-> c, status |-> st, print |-> p,
                        profile |-> Ensured(c).id, generate |-> d.generate,
                        again |-> again]
    /\ profile' = SwitchedOff(Ensured(c))
    /\ lastProfile' = EnsuredLast(c)
    /\ capJobs' = capJobs \ {Ensured(c).id}
    /\ UNCHANGED <<lastPrint, renders>>

\* The closing commit fails after the scheduler job was removed.
CloseRaises(c, st) ==
    /\ "poll_db_error" \in Env
    /\ ~EnsureRaises(c)
    /\ Active
    /\ JobChanged(st) \/ Decide(TRUE, st.state).stop
    /\ profile' = Ensured(c)
    /\ lastProfile' = EnsuredLast(c)
    /\ capJobs' = capJobs \ {Ensured(c).id}
    /\ poll' = PollIdle
    /\ UNCHANGED <<prints, lastPrint, renders>>

\* _reconcile, from its read of the open print to its next commit or end.
Reconcile(c, st) ==
    \/ OpensPrint(c, st)
    \/ KeepsPrint(c, st)
    \/ JobChanged(st) /\ ClosesPrint(c, st, "finished", TRUE)
    \/ ~JobChanged(st) /\ ClosesPrint(c, st, st.state, FALSE)
    \/ CloseRaises(c, st)
    \/ /\ EnsureRaises(c)
       /\ Active \/ Decide(FALSE, st.state).start
       /\ PollFails
    \/ /\ ~Active /\ ~Decide(FALSE, st.state).start
       /\ PollFails

(* The answer arrived: the configuration is read again, and a poll whose   *)
(* integration was switched off meanwhile changes nothing.                 *)
PollAnswered(st) ==
    /\ LoopFree /\ poll.pc = "asked" /\ ~printerOff
    /\ IF StillRunning
       THEN /\ unreachable' = [p \in PrintIds |-> "never"]
            /\ Reconcile(cfg, st)
       ELSE PollFails /\ UNCHANGED unreachable
    /\ UNCHANGED pollOther

\* _handle_unreachable within its grace period, or with nothing open.
PollUnanswered ==
    /\ LoopFree /\ poll.pc = "asked"
    /\ StillRunning => \A p \in OpenPrints : ~PastGrace(p)
    /\ PollFails
    /\ unreachable' =
        IF ~StillRunning THEN unreachable
        ELSE [p \in PrintIds |->
                IF ~Active THEN "never"
                ELSE IF p \in OpenPrints THEN "recent" ELSE unreachable[p]]
    /\ UNCHANGED pollOther

\* _handle_unreachable past the grace period.
PollGivesUp ==
    /\ LoopFree /\ poll.pc = "asked" /\ StillRunning
    /\ \E p \in OpenPrints :
        /\ PastGrace(p)
        /\ prints' = [prints EXCEPT ![p].status = "cancelled"]
        /\ unreachable' = [unreachable EXCEPT ![p] = "never"]
    /\ profile' = SwitchedOff(profile)
    /\ capJobs' = capJobs \ {profile.id}
    /\ poll' = PollIdle
    /\ UNCHANGED <<lastProfile, lastPrint, renders, pollOther>>

\* The same, with its commit failing: the job is gone, the clock still expired.
GiveUpRaises ==
    /\ "poll_db_error" \in Env
    /\ LoopFree /\ poll.pc = "asked" /\ StillRunning
    /\ \E p \in OpenPrints : PastGrace(p)
    /\ capJobs' = capJobs \ {profile.id}
    /\ poll' = PollIdle
    /\ UNCHANGED <<profile, lastProfile, prints, lastPrint, renders,
                   unreachable, pollOther>>

\* The rest of the rising edge; the row may have been deleted in between.
PollAddsJob ==
    /\ poll.pc = "opened"
    /\ capJobs' = IF profile.id = poll.profile THEN capJobs \cup {profile.id}
                                               ELSE capJobs
    /\ poll' = PollIdle
    /\ UNCHANGED <<profile, lastProfile, prints, lastPrint, renders,
                   unreachable, pollOther>>

\* The rest of a close: request the render, emit the event, and go on with
\* the new print when the job id had changed.
PollClosed ==
    /\ poll.pc = "closed"
    /\ LET gone == \/ prints[poll.print].status = "deleted"
                   \/ poll.generate /\ profile.id # poll.profile
       IN  /\ renders' = IF poll.generate /\ ~gone
                         THEN [renders EXCEPT ![poll.print] = @ + 1]
                         ELSE renders
           /\ poll' = IF poll.again /\ ~gone
                      THEN [poll EXCEPT !.pc = "again", !.generate = FALSE]
                      ELSE PollIdle
    /\ UNCHANGED <<profile, lastProfile, prints, lastPrint, capJobs,
                   unreachable, pollOther>>

\* The second _reconcile of a job-id change: the same config and status.
PollAgain ==
    /\ poll.pc = "again" /\ put = "idle"
    /\ Reconcile(poll.cfg, poll.status)
    /\ UNCHANGED <<unreachable, pollOther>>

\* UNREACHABLE_GRACE_SECONDS pass.
GraceExpires ==
    /\ \E p \in PrintIds :
        /\ unreachable[p] = "recent"
        /\ unreachable' = [unreachable EXCEPT ![p] = "expired"]
    /\ UNCHANGED <<profile, lastProfile, prints, lastPrint, renders, capJobs,
                   poll, pollOther>>

\* The printer is unplugged and never answers again.
PowerOff ==
    /\ "power_off" \in Env /\ ~printerOff
    /\ printerOff' = TRUE
    /\ UNCHANGED <<tables, renders, capJobs, pollJob, poll, put, check,
                   deletion, unreachable, restarts>>

-----------------------------------------------------------------------------
(* routers/settings.py: update_prusalink_settings *)

putOther == <<streams, health, lastPrint, renders, poll, check, deletion,
              unreachable, printerOff, restarts>>

\* Another camera is chosen while a print is filmed, or while a camera is
\* being deleted, only in the instances whose surroundings do that.
MayRebind == "rebind" \in Env \/ (~Active /\ deletion.pc = "idle")

\* The settings are stored and committed.
PutSaves(c) ==
    /\ LoopFree
    /\ ~Running(c) => "disable" \in Env
    /\ c.stream # cfg.stream => MayRebind
    /\ cfg' = c
    /\ put' = "saved"
    /\ UNCHANGED <<profile, lastProfile, prints, capJobs, pollJob, putOther>>

\* The managed profile is synced; the foreign key may refuse the stream.
PutRaises ==
    /\ put = "saved" /\ EnsureRaises(cfg)
    /\ put' = "idle"
    /\ UNCHANGED <<cfg, profile, lastProfile, prints, capJobs, pollJob,
                   putOther>>

PutSwitchesOn ==
    /\ put = "saved" /\ ~EnsureRaises(cfg) /\ Running(cfg)
    /\ profile' = Ensured(cfg)
    /\ lastProfile' = EnsuredLast(cfg)
    /\ pollJob' = TRUE
    /\ put' = "idle"
    /\ UNCHANGED <<cfg, prints, capJobs, putOther>>

\* Mutant: the row of the managed profile is left as it is.
CutOff_LeavesRow(row) == row

\* What the handler does to the managed profile of a print it closes: the
\* auto-disable marker is not touched.
CutOff(row) == [row EXCEPT !.enabled = FALSE]

\* Mutant: only the profile is switched off; the print is left to the poller.
CancelledPrints_None == {}

\* The rows the handler cancels.
CancelledPrints == OpenPrints

\* Without a poll job nothing would close the open print: it is closed here.
PutSwitchesOff ==
    /\ put = "saved" /\ ~EnsureRaises(cfg) /\ ~Running(cfg)
    /\ lastProfile' = EnsuredLast(cfg)
    /\ pollJob' = FALSE
    /\ put' = "idle"
    /\ profile' = IF Active THEN CutOff(Ensured(cfg)) ELSE Ensured(cfg)
    /\ capJobs' = IF Active THEN capJobs \ {Ensured(cfg).id} ELSE capJobs
    /\ prints' = [p \in PrintIds |->
                    IF p \in CancelledPrints
                    THEN [prints[p] EXCEPT !.status = "cancelled"]
                    ELSE prints[p]]
    /\ UNCHANGED <<cfg, putOther>>

-----------------------------------------------------------------------------
(* services/health.py: check_all_streams, restricted to the managed profile *)

checkOther == <<cfg, streams, lastProfile, prints, lastPrint, renders,
                pollJob, poll, put, deletion, unreachable, printerOff,
                restarts>>

\* The probe of a stream is sent: test_source is awaited.
CheckStart(s) ==
    /\ "flap" \in Env
    /\ LoopFree /\ check.pc = "idle" /\ s \in streams
    /\ check' = [CheckIdle EXCEPT !.pc = "probing", !.stream = s]
    /\ UNCHANGED <<health, profile, capJobs, checkOther>>

\* A stream's row after a check; the failure counter saturates at the threshold.
HealthAfter(row, found) ==
    CASE found = "healthy"   -> [status |-> "healthy", fails |-> 0]
      [] found = "unhealthy" -> [status |-> "unhealthy", fails |-> Threshold]
      [] found = "failed"    -> [row EXCEPT !.fails =
                                    IF @ < Threshold THEN @ + 1 ELSE @]

\* The rows the session writes when it commits verdict `found` for stream s:
\* only the columns that changed in this session, over whatever is there now.
\* A row deleted meanwhile fails the whole commit.
Commits(s, found, id, dirty) ==
    IF s \in streams /\ (dirty = {} \/ profile.id = id)
    THEN /\ health' = [health EXCEPT ![s] = HealthAfter(@, found)]
         /\ profile' = [profile EXCEPT
                !.enabled = IF "enabled" \in dirty THEN found = "healthy" ELSE @,
                !.auto = IF "auto" \in dirty THEN found = "unhealthy" ELSE @]
    ELSE UNCHANGED <<health, profile>>

\* The probe returned.  A change of health rewrites the marked (or enabled)
\* profiles and their jobs, emits an event, and commits after it.
CheckDecides(s, found, id, dirty) ==
    IF Notify
    THEN /\ check' = [pc |-> "emitting", stream |-> s, id |-> id,
                      found |-> found, dirty |-> dirty]
         /\ UNCHANGED <<health, profile>>
    ELSE Commits(s, found, id, dirty) /\ check' = CheckIdle

\* No change of health: only the counters are written.
CheckQuiet ==
    /\ LoopFree /\ check.pc = "probing"
    /\ LET s == check.stream
       IN  \/ /\ health[s].status # "unhealthy"
              /\ Commits(s, "healthy", 0, {})
           \/ /\ \/ health[s].fails + 1 < Threshold
                 \/ health[s].status = "unhealthy"
              /\ Commits(s, "failed", 0, {})
    /\ check' = CheckIdle
    /\ UNCHANGED <<capJobs, checkOther>>

\* The stream is back: the marked profile gets its job at once, its row later.
CheckRecovers ==
    /\ LoopFree /\ check.pc = "probing"
    /\ LET s == check.stream
           marked == profile.id # 0 /\ profile.stream = s /\ profile.auto
           dirty == IF ~marked THEN {}
                    ELSE IF profile.enabled THEN {"auto"} ELSE {"enabled", "auto"}
       IN  /\ health[s].status = "unhealthy"
           /\ capJobs' = IF marked THEN capJobs \cup {profile.id} ELSE capJobs
           /\ CheckDecides(s, "healthy", profile.id, dirty)
    /\ UNCHANGED checkOther

\* Mutant: a condemned profile is not marked for recovery.
CondemnedColumns_NoMarker == {"enabled"}

\* The columns of an enabled profile that change when its stream is condemned.
CondemnedColumns == IF profile.auto THEN {"enabled"} ELSE {"enabled", "auto"}

\* The stream is lost: the enabled profile loses its job at once, and is marked.
CheckCondemns ==
    /\ LoopFree /\ check.pc = "probing"
    /\ LET s == check.stream
           hit == profile.id # 0 /\ profile.stream = s /\ profile.enabled
           dirty == IF hit THEN CondemnedColumns ELSE {}
       IN  /\ health[s].status # "unhealthy"
           /\ health[s].fails + 1 >= Threshold
           /\ capJobs' = IF hit THEN capJobs \ {profile.id} ELSE capJobs
           /\ CheckDecides(s, "unhealthy", profile.id, dirty)
    /\ UNCHANGED checkOther

\* emit() returned: the pending changes are committed.
CheckCommits ==
    /\ LoopFree /\ check.pc = "emitting"
    /\ Commits(check.stream, check.found, check.id, check.dirty)
    /\ check' = CheckIdle
    /\ UNCHANGED <<capJobs, checkOther>>

-----------------------------------------------------------------------------
(* routers/streams.py: delete_stream, in the thread pool *)

deleteOther == <<cfg, health, lastProfile, lastPrint, renders, pollJob, poll,
                 put, check, unreachable, printerOff, restarts>>

\* The ids of the stream's profiles are read.  Unless the surroundings rebind,
\* not while the managed profile has yet to be moved to a newly chosen camera.
DeleteStarts(s) ==
    /\ "delete_stream" \in Env
    /\ deletion.pc = "idle" /\ s \in streams
    /\ profile.id = 0 \/ cfg.stream \in {profile.stream, NoStream}
       \/ "rebind" \in Env
    /\ deletion' = [pc |-> "read", stream |-> s,
                    ids |-> IF profile.id # 0 /\ profile.stream = s
                            THEN {profile.id} ELSE {}]
    /\ UNCHANGED <<streams, profile, prints, capJobs, deleteOther>>

\* The row is deleted; profiles and print jobs of the stream cascade.
DeleteCommits ==
    /\ deletion.pc = "read"
    /\ streams' = streams \ {deletion.stream}
    /\ profile' = IF profile.id \in deletion.ids
                     \/ profile.stream = deletion.stream
                  THEN NoProfile ELSE profile
    /\ prints' = [p \in PrintIds |->
                    IF prints[p].stream = deletion.stream
                    THEN [prints[p] EXCEPT !.status = "deleted"]
                    ELSE prints[p]]
    /\ deletion' = [deletion EXCEPT !.pc = "committed"]
    /\ UNCHANGED <<capJobs, deleteOther>>

\* The scheduler jobs of the profiles read first are removed.
DeleteJobs ==
    /\ deletion.pc = "committed"
    /\ capJobs' = capJobs \ deletion.ids
    /\ deletion' = DeletionIdle
    /\ UNCHANGED <<streams, profile, prints, deleteOther>>

-----------------------------------------------------------------------------
(* Other operations *)

\* routers/print_jobs.py: delete_print_job, refused while printing.
DeletePrint(p) ==
    /\ prints[p].status \in Terminal
    /\ prints' = [prints EXCEPT ![p].status = "deleted"]
    /\ UNCHANGED <<cfg, streams, health, profile, lastProfile, lastPrint,
                   renders, capJobs, pollJob, poll, put, check, deletion,
                   unreachable, printerOff, restarts>>

\* services/capture.py: a job whose profile row is gone removes itself.
CaptureOrphan(i) ==
    /\ LoopFree /\ i \in capJobs /\ i # profile.id
    /\ capJobs' = capJobs \ {i}
    /\ UNCHANGED <<tables, renders, pollJob, poll, put, check, deletion,
                   unreachable, printerOff, restarts>>

\* Mutant: boot forgets the capture jobs.
RestoredJobs_None == {}

\* restore_jobs: the jobs of the enabled profiles.
RestoredJobs == IF profile.id # 0 /\ profile.enabled THEN {profile.id} ELSE {}

(* main.py: lifespan.  A restart stops at an await, a crash anywhere; both *)
(* lose the coroutines, the scheduler's jobs and the in-memory clock, and  *)
(* boot restores the jobs of the enabled profiles and of the poller.       *)
Restart ==
    /\ \/ "restart" \in Env /\ LoopFree /\ deletion.pc = "idle"
       \/ "crash" \in Env
    /\ restarts < MaxRestarts
    /\ restarts' = restarts + 1
    /\ capJobs' = RestoredJobs
    /\ pollJob' = Running(cfg)
    /\ poll' = PollIdle
    /\ put' = "idle"
    /\ check' = CheckIdle
    /\ deletion' = DeletionIdle
    /\ unreachable' = [p \in PrintIds |-> "never"]
    /\ UNCHANGED <<tables, renders, printerOff>>

-----------------------------------------------------------------------------
(* The specification *)

\* A fresh installation: cameras are configured, the integration is not.
Init ==
    /\ cfg = [on |-> FALSE, stream |-> NoStream]
    /\ streams = Streams
    /\ health = [s \in Streams |-> [status |-> "unknown", fails |-> 0]]
    /\ profile = NoProfile
    /\ lastProfile = 0
    /\ prints = [p \in PrintIds |-> NoPrint]
    /\ lastPrint = 0
    /\ renders = [p \in PrintIds |-> 0]
    /\ capJobs = {}
    /\ pollJob = FALSE
    /\ poll = PollIdle
    /\ put = "idle"
    /\ check = CheckIdle
    /\ deletion = DeletionIdle
    /\ unreachable = [p \in PrintIds |-> "never"]
    /\ printerOff = FALSE
    /\ restarts = 0

Poller ==
    \/ PollStart
    \/ \E st \in Replies : PollAnswered(st)
    \/ PollUnanswered
    \/ PollGivesUp
    \/ GiveUpRaises
    \/ PollAddsJob
    \/ PollClosed
    \/ PollAgain

Put ==
    \/ \E c \in Configs : PutSaves(c)
    \/ PutRaises
    \/ PutSwitchesOn
    \/ PutSwitchesOff

HealthMonitor ==
    \/ \E s \in Streams : CheckStart(s)
    \/ CheckQuiet
    \/ CheckRecovers
    \/ CheckCondemns
    \/ CheckCommits

StreamDeletion ==
    \/ \E s \in Streams : DeleteStarts(s)
    \/ DeleteCommits
    \/ DeleteJobs

Next ==
    \/ Poller
    \/ Put
    \/ HealthMonitor
    \/ StreamDeletion
    \/ \E p \in PrintIds : DeletePrint(p)
    \/ \E i \in capJobs : CaptureOrphan(i)
    \/ Restart
    \/ GraceExpires
    \/ PowerOff

Spec == Init /\ [][Next]_vars
-----------------------------------------------------------------------------
(* Type *)

HealthRows == [status: {"unknown", "healthy", "unhealthy"},
               fails: 0 .. Threshold]

ProfileRows == [id: Nat, stream: Streams \cup {NoStream},
                enabled: BOOLEAN, auto: BOOLEAN]

PrintRows == [status: {"absent", "printing", "deleted"} \cup Terminal,
              job: JobIds \cup {NoJob}, stream: Streams \cup {NoStream},
              est: BOOLEAN]

PollRecords == [pc: {"idle", "asked", "opened", "closed", "again"},
                cfg: Configs, status: Statuses \cup {NoReply},
                print: 0 .. MaxPrints, profile: Nat,
                generate: BOOLEAN, again: BOOLEAN]

CheckRecords == [pc: {"idle", "probing", "emitting"},
                 stream: Streams \cup {NoStream}, id: Nat,
                 found: {"healthy", "unhealthy"},
                 dirty: SUBSET {"enabled", "auto"}]

DeletionRecords == [pc: {"idle", "read", "committed"},
                    stream: Streams \cup {NoStream}, ids: SUBSET Nat]

\* Every variable keeps its shape: the row ids in use, the program counters of
\* the four handlers, and the values the columns may hold.
TypeOK ==
    /\ cfg \in Configs
    /\ streams \in SUBSET Streams
    /\ health \in [Streams -> HealthRows]
    /\ profile \in ProfileRows
    /\ lastProfile \in Nat
    /\ prints \in [PrintIds -> PrintRows]
    /\ lastPrint \in 0 .. MaxPrints
    /\ renders \in [PrintIds -> Nat]
    /\ capJobs \in SUBSET Nat
    /\ pollJob \in BOOLEAN
    /\ poll \in PollRecords
    /\ put \in {"idle", "saved"}
    /\ check \in CheckRecords
    /\ deletion \in DeletionRecords
    /\ unreachable \in [PrintIds -> {"never", "recent", "expired"}]
    /\ printerOff \in BOOLEAN
    /\ restarts \in 0 .. MaxRestarts

-----------------------------------------------------------------------------
(* Safety *)

\* No handler is between a commit and the scheduler call that belongs to it,
\* and the health monitor holds no uncommitted change.
Settled == LoopFree /\ check.pc # "emitting"

\* _open_print_job takes the newest open row as the print in flight: there is
\* never a second one, whichever of the poller, a job-id change, the settings
\* request and a restart came before (models.py:262, "the source of truth").
AtMostOneOpen == \A p, q \in OpenPrints : p = q

\* The managed profile never captures, and is never left to be restored at the
\* next boot, while no print is open: nothing would ever switch it off again
\* (prusalink.py:468-470, settings.py:413-416).
NoCaptureWithoutPrint ==
    Settled /\ profile.id # 0 /\ (profile.enabled \/ profile.id \in capJobs)
        => OpenPrints # {}

\* A print in flight is filmed: the managed profile exists, is bound to the
\* print's stream, and is enabled unless the health monitor took it down and
\* will put it back when that same stream recovers.
OpenPrintIsFilmed ==
    Settled => \A p \in OpenPrints :
        /\ profile.id # 0
        /\ profile.stream = prints[p].stream
        /\ profile.enabled \/ (profile.auto
                               /\ health[profile.stream].status = "unhealthy")

\* The scheduler agrees with the table: an enabled managed profile has its
\* capture job, so that a restart changes nothing, and a job of the row runs
\* for a disabled one only while it carries the health monitor's marker.
JobMatchesRow ==
    Settled /\ profile.id # 0 =>
        /\ profile.enabled => profile.id \in capJobs
        /\ profile.id \in capJobs => profile.enabled \/ profile.auto

\* With the integration off no print is open: the poll job is gone and no
\* reconcile would ever close it (settings.py:412-416, prusalink.py:585-590).
OffMeansNoOpenPrint == LoopFree /\ ~Running(cfg) => OpenPrints = {}

\* A print is rendered at most once, and only when it finished, or was
\* cancelled with generate_on_cancel set (prusalink.py:476-499).
RenderedOnce ==
    \A p \in PrintIds :
        /\ renders[p] <= 1
        /\ renders[p] = 1 => \/ prints[p].status \in {"finished", "deleted"}
                             \/ prints[p].status = "cancelled" /\ GenerateOnCancel

\* A closed print is history: no step reopens it or changes how it ended, also
\* not a poll that answers with its job id again (print_jobs.py:30-58 may
\* only delete it).
ClosedStaysClosed ==
    [][\A p \in PrintIds : prints[p].status \in Terminal =>
            prints'[p].status \in {prints[p].status, "deleted"}]_prints

-----------------------------------------------------------------------------
(* Liveness *)

\* Coroutines that hold the loop run on; those that wait for it are served in
\* turn (asyncio's ready queue is first in, first out), which is strong
\* fairness because other coroutines hold the loop now and then; the interval
\* trigger fires again and again, a request ends, and time passes.
Fairness ==
    /\ SF_vars(PollStart)
    /\ SF_vars(PollUnanswered \/ PollGivesUp)
    /\ WF_vars(PollAddsJob)
    /\ WF_vars(PollClosed)
    /\ SF_vars(PollAgain)
    /\ WF_vars(PutSwitchesOn \/ PutSwitchesOff \/ PutRaises)
    /\ WF_vars(GraceExpires)
    /\ SF_vars(CheckCommits)

FairSpec == Spec /\ Fairness

\* A printer that went away for good does not leave its print open, nor the
\* managed profile capturing (prusalink.py:527-536), whatever requests,
\* health checks and restarts happen on the way.
PowerOffClosesPrint ==
    printerOff ~> [](OpenPrints = {} /\ (Settled => profile.id \notin capJobs))
=============================================================================
