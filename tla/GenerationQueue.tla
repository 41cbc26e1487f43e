-------------------------- MODULE GenerationQueue --------------------------
(***************************************************************************)
(* The generation queue and the render it runs: requests wait in an        *)
(* asyncio queue, one worker renders them with ffmpeg, a request can be    *)
(* cancelled, the output becomes a timelapse row with its file, and rows   *)
(* and profiles are deleted while all this goes on.                        *)
(*                                                                         *)
(* Granularity.  Requests, cancellations and the worker share the event    *)
(* loop: a step of the worker runs from one real suspension to the next    *)
(* (a thread, a subprocess, or an event when notifications are external).  *)
(* The deletions are thread-pool handlers: they interleave with the        *)
(* worker's database commits too, and their file removal comes after their *)
(* own commit.                                                             *)
(***************************************************************************)
EXTENDS Integers, Sequences, SequencesExt

CONSTANTS
    Jobs,        \* generation ids; uuids, each used once
    NoJob,
    Prints,      \* the jobs that render a print (print_job_id is set)
    Stages,      \* thread stages after deflickering: blur and overlays
    Notify,      \* external notifications are on: emit() awaits a thread
    Env,         \* what the surroundings of this instance may do
    MaxRestarts  \* bound: restarts and crashes

EnvEvents == {"cancel", "delete_timelapse", "delete_print", "delete_profile",
              "restart", "crash", "db_error"}

ASSUME GenerationQueueAssumption ==
    /\ NoJob \notin Jobs
    /\ Prints \subseteq Jobs
    /\ Stages \in Nat
    /\ Notify \in BOOLEAN
    /\ Env \subseteq EnvEvents
    /\ MaxRestarts \in Nat

VARIABLES
    queue,    \* _queue: the asyncio queue
    pending,  \* _pending_jobs: what the status endpoint lists
    events,   \* _cancel_events: "none" is no entry
    current,  \* _current_job
    active,   \* _active_ffmpeg_proc, as the job it encodes
    render,   \* generate_timelapse
    ffmpeg,   \* encoder processes
    tracked,  \* _active_generations
    files,    \* jobs whose output file is on disk
    rows,     \* jobs with a row in timelapses
    prints,   \* the print rows of the jobs in Prints
    profile,  \* the profile the jobs render exists
    deletion, \* a deletion handler
    used,     \* ids ever requested
    reported, \* the final event of a job
    answered, \* when the cancel endpoint said "cancelled" to a job's owner
    restarts

vars == <<queue, pending, events, current, active, render, ffmpeg, tracked,
          files, rows, prints, profile, deletion, used, reported, answered,
          restarts>>

RenderIdle == [pc |-> "idle", left |-> 0]

DeletionIdle == [pc |-> "idle", files |-> {}]

\* The worker holds the event loop between two commits, and while it reports
\* an outcome nobody outside is told of.
LoopFree ==
    /\ render.pc \notin {"committed", "linking"}
    /\ render.pc = "reporting" => Notify

-----------------------------------------------------------------------------
(* generation_queue.py: requests *)

\* enqueue_generation: the put on an unbounded queue never suspends.
Enqueue(j) ==
    /\ LoopFree /\ j \notin used
    /\ used' = used \cup {j}
    /\ events' = [events EXCEPT ![j] = "clear"]
    /\ pending' = Append(pending, j)
    /\ queue' = Append(queue, j)
    /\ UNCHANGED <<current, active, render, ffmpeg, tracked, files, rows,
                   prints, profile, deletion, reported, answered, restarts>>

\* Mutant: only the list is rewritten; the event is not set.
CancelSets_Nothing(j) == events

\* The event of a cancelled job is set; the worker finds it at its next look.
CancelSets(j) == [events EXCEPT ![j] = "set"]

\* Mutant: the job stays listed until the worker gets to it.
Unlisted_Keeps(j) == pending

\* The list without a job; ids are unique, it is there at most once.
Unlisted(j) ==
    IF Contains(pending, j)
    THEN RemoveAt(pending, CHOOSE i \in 1 .. Len(pending) : pending[i] = j)
    ELSE pending

\* The last look at the event is at the end of the encode.
BeforeLastLook == {"announcing", "frames", "spawning", "encoding", "stopping"}

CancelWaiting(j) ==
    /\ "cancel" \in Env /\ LoopFree
    /\ Contains(pending, j)
    /\ pending' = Unlisted(j)
    /\ events' = CancelSets(j)
    /\ answered' = [answered EXCEPT ![j] = "waiting"]
    /\ UNCHANGED <<queue, current, active, render, ffmpeg, tracked, files,
                   rows, prints, profile, deletion, used, reported, restarts>>

\* The running job: its event is set and the registered encoder is killed.
CancelActive(j) ==
    /\ "cancel" \in Env /\ LoopFree
    /\ ~Contains(pending, j) /\ current = j /\ answered[j] = "no"
    /\ events' = CancelSets(j)
    /\ ffmpeg' = IF active # NoJob /\ ffmpeg[active] = "alive"
                 THEN [ffmpeg EXCEPT ![active] = "bad"] ELSE ffmpeg
    /\ answered' = [answered EXCEPT ![j] = IF render.pc \in BeforeLastLook
                                           THEN "rendering" ELSE "late"]
    /\ UNCHANGED <<queue, pending, current, active, render, tracked, files,
                   rows, prints, profile, deletion, used, reported, restarts>>

-----------------------------------------------------------------------------
(* timelapse.py: the ends of generate_timelapse *)

\* Mutant: the partial output is left on disk.
WithoutOutput_Keeps(j) == files

\* _remove_partial_output
WithoutOutput(j) == files \ {j}

\* Mutant: the render returns past the worker's finally block.
EndsWith_Lost(j, outcome) ==
    /\ files' = WithoutOutput(j)
    /\ tracked' = tracked \ {j}
    /\ reported' = [reported EXCEPT ![j] = outcome]
    /\ render' = RenderIdle

\* GenerationCancelled, or any other exception: the output is unlinked, the
\* tracker forgets the job and an event says how it ended.
EndsWith(j, outcome) ==
    /\ files' = WithoutOutput(j)
    /\ tracked' = tracked \ {j}
    /\ reported' = [reported EXCEPT ![j] = outcome]
    /\ render' = [pc |-> "reporting", left |-> 0]

\* Mutant: a set event is noticed by the next stage only if it runs a thread.
Cancelled_InThreads(j) == events[j] = "set" /\ render.pc = "frames"

\* _check_cancel
Cancelled(j) == events[j] = "set"

\* The render goes on to another suspension.
GoesTo(pc, left) ==
    /\ render' = [pc |-> pc, left |-> left]
    /\ UNCHANGED <<files, tracked, reported>>

-----------------------------------------------------------------------------
(* generation_queue.py: _worker, and the steps of the render it awaits *)

loopOther == <<used, answered, deletion, restarts>>

\* Mutant: the event of a skipped job stays in the registry.
EventPopped_AfterRun(j) == IF current = j THEN [events EXCEPT ![j] = "none"]
                                          ELSE events

\* The registry of cancel events without a job's.
EventPopped(j) == [events EXCEPT ![j] = "none"]

\* A job whose event is already set is dropped, its event with it.
Skip(j) ==
    /\ Cancelled(j)
    /\ pending' = Unlisted(j)
    /\ events' = EventPopped(j)
    /\ UNCHANGED <<current, files, tracked, reported, render>>

\* Otherwise it is rendered, up to the first suspension.  Its captures went
\* with its profile, and there may be none in the period.
Begin(j) ==
    /\ ~Cancelled(j)
    /\ current' = j
    /\ pending' = Unlisted(j)
    /\ UNCHANGED events
    /\ \/ /\ profile
          /\ tracked' = tracked \cup {j}
          /\ render' = IF Notify THEN [pc |-> "announcing", left |-> 0]
                                 ELSE [pc |-> "frames", left |-> Stages]
          /\ UNCHANGED <<files, reported>>
       \/ EndsWith(j, "failed")

Dequeue ==
    /\ LoopFree /\ render.pc = "idle" /\ queue # <<>>
    /\ queue' = Tail(queue)
    /\ Skip(Head(queue)) \/ Begin(Head(queue))
    /\ UNCHANGED <<active, ffmpeg, rows, prints, profile, loopOther>>

renderOther == <<queue, pending, events, current, prints, profile, loopOther>>

\* The started event is out: the deflicker thread begins.
Announced ==
    /\ render.pc = "announcing"
    /\ IF Cancelled(current) THEN EndsWith(current, "cancelled")
                             ELSE GoesTo("frames", Stages)
    /\ UNCHANGED <<active, ffmpeg, rows, renderOther>>

\* A thread stage ends: in an exception, in a cancellation it or the check
\* before the next stage noticed, or in that stage.
StageDone ==
    /\ render.pc = "frames"
    /\ \/ EndsWith(current, "failed")
       \/ Cancelled(current) /\ EndsWith(current, "cancelled")
       \/ ~Cancelled(current) /\ render.left > 0
            /\ GoesTo("frames", render.left - 1)
       \/ ~Cancelled(current) /\ render.left = 0 /\ GoesTo("spawning", 0)
    /\ UNCHANGED <<active, ffmpeg, rows, renderOther>>

\* The encoder runs and is registered: it opens its output file.
Spawned ==
    /\ render.pc = "spawning"
    /\ active' = current
    /\ ffmpeg' = [ffmpeg EXCEPT ![current] = "alive"]
    /\ files' = files \cup {current}
    /\ render' = [pc |-> "encoding", left |-> 0]
    /\ UNCHANGED <<tracked, reported, rows, renderOther>>

SpawnFails ==
    /\ render.pc = "spawning"
    /\ EndsWith(current, "failed")
    /\ UNCHANGED <<active, ffmpeg, rows, renderOther>>

\* The encoder ends by itself.
FfmpegExits(j) ==
    /\ ffmpeg[j] = "alive"
    /\ \E rc \in {"ok", "bad"} : ffmpeg' = [ffmpeg EXCEPT ![j] = rc]
    /\ UNCHANGED <<active, render, files, tracked, reported, rows, renderOther>>

\* communicate() returned: the process is unregistered and its return code
\* looked at, then the event, then the size of the output.
Encoded ==
    /\ render.pc = "encoding" /\ ffmpeg[current] \in {"ok", "bad"}
    /\ active' = NoJob
    /\ IF Cancelled(current) THEN EndsWith(current, "cancelled")
       ELSE IF ffmpeg[current] = "ok" /\ current \in files
            THEN GoesTo("probing", 0)
            ELSE EndsWith(current, "failed")
    /\ UNCHANGED <<ffmpeg, rows, renderOther>>

\* Mutant: wait_for gives up waiting but the process goes on.
Killed_Not(j) == ffmpeg

\* The process of a job after _kill.
Killed(j) == IF ffmpeg[j] = "alive" THEN [ffmpeg EXCEPT ![j] = "bad"] ELSE ffmpeg

\* Mutant: nothing bounds the encode.
TimesOut_Never == FALSE

\* The encode took too long.
TimesOut ==
    /\ render.pc = "encoding"
    /\ ffmpeg' = Killed(current)
    /\ GoesTo("stopping", 0)
    /\ UNCHANGED <<active, rows, renderOther>>

\* The killed encoder was reaped.
Stopped ==
    /\ render.pc = "stopping"
    /\ active' = NoJob
    /\ EndsWith(current, "failed")
    /\ UNCHANGED <<ffmpeg, rows, renderOther>>

\* ffprobe is done or was killed; its failures are swallowed.
Probed ==
    /\ render.pc = "probing"
    /\ GoesTo("thumbnail", 0)
    /\ UNCHANGED <<active, ffmpeg, rows, renderOther>>

\* The thumbnail is done or given up: the row is inserted and committed.
RowCommits ==
    /\ render.pc = "thumbnail" /\ profile
    /\ rows' = rows \cup {current}
    /\ GoesTo("committed", 0)
    /\ UNCHANGED <<active, ffmpeg, renderOther>>

\* The commit fails: the foreign key has lost its profile, or the database
\* is locked.  The output is removed.
RowRefused ==
    /\ render.pc = "thumbnail"
    /\ ~profile \/ "db_error" \in Env
    /\ EndsWith(current, "failed")
    /\ UNCHANGED <<active, ffmpeg, rows, renderOther>>

\* Mutant: a cancellation is looked for after the commit.
RefreshRaises_WhenCancelled == current \notin rows \/ Cancelled(current)

\* The row cannot be read back.
RefreshRaises == current \notin rows

\* The committed row is read back, and the print to link with it.  A row that
\* is gone already raises.
RowRefreshed ==
    /\ render.pc = "committed"
    /\ \/ /\ ~RefreshRaises
          /\ current \in Prints /\ prints[current] # "deleted"
          /\ GoesTo("linking", 0)
       \/ /\ ~RefreshRaises
          /\ current \in Prints => prints[current] = "deleted"
          /\ render' = [pc |-> "reporting", left |-> 0]
          /\ tracked' = tracked \ {current}
          /\ reported' = [reported EXCEPT ![current] = "complete"]
          /\ UNCHANGED files
       \/ RefreshRaises /\ EndsWith(current, "failed")
    /\ UNCHANGED <<active, ffmpeg, rows, renderOther>>

\* _link_print_job commits: the print points at its timelapse.
PrintLinked ==
    /\ render.pc = "linking"
    /\ current \in rows /\ prints[current] # "deleted"
    /\ prints' = [prints EXCEPT ![current] = "linked"]
    /\ render' = [pc |-> "reporting", left |-> 0]
    /\ tracked' = tracked \ {current}
    /\ reported' = [reported EXCEPT ![current] = "complete"]
    /\ UNCHANGED <<queue, pending, events, current, active, ffmpeg, files, rows,
                   profile, loopOther>>

\* It raises: the print or the timelapse was deleted in between, or the
\* database is locked.  The handler of a failed render takes it from there.
LinkRaises ==
    /\ render.pc = "linking"
    /\ \/ current \notin rows
       \/ prints[current] = "deleted"
       \/ "db_error" \in Env
    /\ EndsWith(current, "failed")
    /\ UNCHANGED <<active, ffmpeg, rows, renderOther>>

\* The final event is out: the worker's finally block.
WorkerFinishes ==
    /\ render.pc = "reporting"
    /\ current' = NoJob
    /\ events' = EventPopped(current)
    /\ active' = NoJob
    /\ render' = RenderIdle
    /\ UNCHANGED <<queue, pending, ffmpeg, tracked, files, rows, prints,
                   profile, reported, loopOther>>

-----------------------------------------------------------------------------
(* Deletions, in the thread pool; one at a time (bound) *)

threadOther == <<queue, pending, events, current, active, render, ffmpeg,
                 tracked, used, reported, answered, restarts>>

\* A print whose timelapse is deleted keeps its row (ON DELETE SET NULL).
Unlinked(S) == [j \in Prints |-> IF j \in S /\ prints[j] = "linked"
                                 THEN "unlinked" ELSE prints[j]]

\* Mutant: the whole directory is removed.
FilesOf_Directory(S) == Jobs

\* The files removed with the rows of S.
FilesOf(S) == S

\* delete_timelapse, bulk_delete_timelapses: the rows first.
DeleteTimelapses(S) ==
    /\ "delete_timelapse" \in Env
    /\ deletion.pc = "idle" /\ S # {}
    /\ rows' = rows \ S
    /\ prints' = Unlinked(S)
    /\ deletion' = [pc |-> "committed", files |-> FilesOf(S)]
    /\ UNCHANGED <<files, profile, threadOther>>

\* delete_print_job, alone or with its timelapse.
DeletePrint(j) ==
    /\ "delete_print" \in Env
    /\ deletion.pc = "idle" /\ prints[j] # "deleted"
    /\ prints' = [prints EXCEPT ![j] = "deleted"]
    /\ \E S \in {{}, {j} \cap rows} :
        /\ S # {} => prints[j] = "linked"
        /\ rows' = rows \ S
        /\ deletion' = [pc |-> "committed", files |-> FilesOf(S)]
    /\ UNCHANGED <<files, profile, threadOther>>

\* delete_profile, delete_stream: the rows cascade, the directory follows.
DeleteProfile ==
    /\ "delete_profile" \in Env
    /\ deletion.pc = "idle" /\ profile
    /\ profile' = FALSE
    /\ rows' = {}
    /\ prints' = Unlinked(Jobs)
    /\ deletion' = [pc |-> "committed", files |-> Jobs]
    /\ UNCHANGED <<files, threadOther>>

\* The files are removed after the commit.
DeleteFiles ==
    /\ deletion.pc = "committed"
    /\ files' = files \ deletion.files
    /\ deletion' = DeletionIdle
    /\ UNCHANGED <<rows, prints, profile, threadOther>>

-----------------------------------------------------------------------------
(* Restart *)

\* stop_worker at an await, or a crash anywhere, and the next boot: the queue
\* and the render are gone, the encoder is dead, its output stays behind.
Restart ==
    /\ \/ "restart" \in Env /\ LoopFree /\ deletion.pc = "idle"
       \/ "crash" \in Env
    /\ restarts < MaxRestarts
    /\ restarts' = restarts + 1
    /\ queue' = <<>>
    /\ pending' = <<>>
    /\ events' = [j \in Jobs |-> "none"]
    /\ current' = NoJob
    /\ active' = NoJob
    /\ render' = RenderIdle
    /\ ffmpeg' = [j \in Jobs |-> "none"]
    /\ tracked' = {}
    /\ deletion' = DeletionIdle
    /\ UNCHANGED <<files, rows, prints, profile, used, reported, answered>>

-----------------------------------------------------------------------------
(* The specification *)

Init ==
    /\ queue = <<>>
    /\ pending = <<>>
    /\ events = [j \in Jobs |-> "none"]
    /\ current = NoJob
    /\ active = NoJob
    /\ render = RenderIdle
    /\ ffmpeg = [j \in Jobs |-> "none"]
    /\ tracked = {}
    /\ files = {}
    /\ rows = {}
    /\ prints = [j \in Prints |-> "unlinked"]
    /\ profile = TRUE
    /\ deletion = DeletionIdle
    /\ used = {}
    /\ reported = [j \in Jobs |-> "no"]
    /\ answered = [j \in Jobs |-> "no"]
    /\ restarts = 0

Worker ==
    \/ Dequeue
    \/ Announced
    \/ StageDone
    \/ Spawned
    \/ SpawnFails
    \/ Encoded
    \/ TimesOut
    \/ Stopped
    \/ Probed
    \/ RowCommits
    \/ RowRefused
    \/ RowRefreshed
    \/ PrintLinked
    \/ LinkRaises
    \/ WorkerFinishes

Requests == \E j \in Jobs : Enqueue(j) \/ CancelWaiting(j) \/ CancelActive(j)

Deletions ==
    \/ \E S \in SUBSET rows : DeleteTimelapses(S)
    \/ \E j \in Prints : DeletePrint(j)
    \/ DeleteProfile
    \/ DeleteFiles

Next ==
    \/ Requests
    \/ Worker
    \/ \E j \in Jobs : FfmpegExits(j)
    \/ Deletions
    \/ Restart

Spec == Init /\ [][Next]_vars

\* The worker is never left waiting: threads and processes end or are timed
\* out, and the event loop resumes it.  A deletion may stop halfway.
FairSpec == Spec /\ WF_vars(Worker)

-----------------------------------------------------------------------------
(* Type *)

RenderRecords ==
    [pc: {"idle", "announcing", "frames", "spawning", "encoding", "stopping",
          "probing", "thumbnail", "committed", "linking", "reporting"},
     left: 0 .. Stages]

\* Every variable keeps its shape: ids in the queue and the list, the worker's
\* record, and the states of events, processes, rows and answers.
TypeOK ==
    /\ queue \in Seq(Jobs)
    /\ pending \in Seq(Jobs)
    /\ events \in [Jobs -> {"none", "clear", "set"}]
    /\ current \in Jobs \cup {NoJob}
    /\ active \in Jobs \cup {NoJob}
    /\ render \in RenderRecords
    /\ render.pc = "idle" <=> current = NoJob
    /\ ffmpeg \in [Jobs -> {"none", "alive", "ok", "bad"}]
    /\ tracked \in SUBSET Jobs
    /\ files \in SUBSET Jobs
    /\ rows \in SUBSET Jobs
    /\ prints \in [Prints -> {"unlinked", "linked", "deleted"}]
    /\ profile \in BOOLEAN
    /\ deletion \in [pc: {"idle", "committed"}, files: SUBSET Jobs]
    /\ used \in SUBSET Jobs
    /\ reported \in [Jobs -> {"no", "complete", "cancelled", "failed"}]
    /\ answered \in [Jobs -> {"no", "waiting", "rendering", "late"}]
    /\ restarts \in 0 .. MaxRestarts

-----------------------------------------------------------------------------
(* Safety *)

\* The encoder that runs is the current job's, and it is the one a cancellation
\* would kill: a job that timed out, failed or was cancelled leaves no encoder
\* behind, and a cancellation never hits another job's (timelapse.py:857-865).
OneEncoder ==
    \A j \in Jobs : ffmpeg[j] = "alive" =>
        current = j /\ active = j /\ render.pc = "encoding"

\* i stands before j in s.
Before(s, i, j) == \E m, n \in 1 .. Len(s) : m < n /\ s[m] = i /\ s[n] = j

\* The status endpoint lists the requests that wait and were not cancelled, in
\* the order they will run, although a cancelled one stays in the asyncio
\* queue (generation_queue.py:127-131).
ListedAsQueued ==
    /\ \A j \in Jobs :
           Contains(pending, j) <=> Contains(queue, j) /\ events[j] = "clear"
    /\ \A i, j \in Jobs : Before(pending, i, j) => Before(queue, i, j)

\* A job has a cancel event while it is queued or running, and no longer: the
\* registry does not grow, and no running job lacks the event to cancel it by.
EventWhileAlive ==
    \A j \in Jobs : events[j] # "none" <=> Contains(queue, j) \/ j = current

\* A job whose owner was told "cancelled" while it waited or before the end of
\* its encode never becomes a timelapse.
CancelHonoured ==
    \A j \in Jobs : answered[j] \in {"waiting", "rendering"} => j \notin rows

\* The same for whoever was told so at any time (timelapse.py:880-882).
CancelHonouredToTheEnd == \A j \in Jobs : answered[j] # "no" => j \notin rows

\* An output file belongs to a row, to the render that is writing it, or to a
\* deletion on its way; nothing else would ever remove it
\* (timelapse.py:373-375).  A restart loses the render that owned it.
OutputHasOwner ==
    restarts = 0 =>
        \A j \in files :
            \/ j \in rows
            \/ j = current /\ render.pc # "reporting"
            \/ j \in deletion.files

\* A row has its file, so that its endpoints do not answer 404.
RowHasOutput == rows \subseteq files

\* The final event tells the truth: a failed or cancelled render left no row.
ReportIsTrue ==
    \A j \in Jobs : reported[j] \in {"failed", "cancelled"} => j \notin rows

-----------------------------------------------------------------------------
(* What the queue promises *)

Ended(j) ==
    IF reported[j] # "no" THEN reported[j]
    ELSE IF answered[j] = "waiting" THEN "cancelled"
    ELSE IF j \in used /\ j # current /\ ~Contains(pending, j) THEN "lost"
    ELSE "no"

Promise == INSTANCE RenderRequests WITH
    waiting <- pending,
    running <- IF current # NoJob /\ reported[current] = "no" THEN current
                                                              ELSE NoJob,
    ended <- [j \in Jobs |-> Ended(j)]

\* The queue renders one request at a time, in order, ends each once, and runs
\* none that was withdrawn while it waited.
KeepsPromise == Promise!Spec

\* Every request ends, cancelled or not, however its render hangs or fails: a
\* hanging encoder is given up, so that it does not hold the only worker
\* forever (timelapse.py:853-861).
EveryRequestEnds ==
    \A j \in Jobs : j \in used ~> Ended(j) # "no" /\ current # j
=============================================================================
