-------------------------- MODULE StorageWatchdog --------------------------
(***************************************************************************)
(* The storage watchdog: a periodic probe writes to the database and under *)
(* captures/; failures are counted, each one drops the connection pool,    *)
(* and the third in a row ends the process, so that the container's        *)
(* entrypoint gives the data volume back to the application user.          *)
(*                                                                         *)
(* The volume and its faults are surroundings: a remount or a permissions  *)
(* reset strikes a sound volume; a read-only spell or a hung mount passes  *)
(* by itself, foreign ownership only at the entrypoint's chown.            *)
(***************************************************************************)
EXTENDS Integers

CONSTANTS
    FailureThreshold,  \* FAILURE_THRESHOLD
    MaxOutages         \* bound: faults of the volume

ASSUME StorageWatchdogAssumption ==
    FailureThreshold \in Nat \ {0, 1} /\ MaxOutages \in Nat

VARIABLES
    storage,   \* what the volume answers a write
    poisoned,  \* a pooled connection was opened while nothing could be written
    probe,     \* probe_storage_writable, in its thread
    failures,  \* _consecutive_failures
    process,   \* the application in its container
    outages,   \* how many faults there were
    refusals   \* failed probes in a row, by cause: the volume or the pool

watchdogVars ==
    <<storage, poisoned, probe, failures, process, outages, refusals>>

NoRefusals == [cause \in {"volume", "pool"} |-> 0]

WatchdogInit ==
    /\ storage = "ok"
    /\ poisoned = FALSE
    /\ probe = "idle"
    /\ failures = 0
    /\ process = "up"
    /\ outages = 0
    /\ refusals = NoRefusals

-----------------------------------------------------------------------------
(* The volume *)

VolumeFails ==
    /\ storage = "ok" /\ outages < MaxOutages
    /\ storage' \in {"readonly", "foreign", "hung"}
    /\ outages' = outages + 1
    /\ UNCHANGED <<poisoned, probe, failures, process, refusals>>

VolumeRecovers ==
    /\ storage \in {"readonly", "hung"}
    /\ storage' = "ok"
    /\ UNCHANGED <<poisoned, probe, failures, process, outages, refusals>>

\* Any request or job may open a connection; sqlite opens the file read-only
\* when it cannot be written, and the connection stays so.
ConnectionOpens ==
    /\ process = "up" /\ storage \in {"readonly", "foreign"} /\ ~poisoned
    /\ poisoned' = TRUE
    /\ UNCHANGED <<storage, probe, failures, process, outages, refusals>>

-----------------------------------------------------------------------------
(* check_storage_writable *)

\* The job; APScheduler skips a run while the previous one is under way.
ProbeStarts ==
    /\ process = "up" /\ probe = "idle"
    /\ probe' = "database"
    /\ UNCHANGED <<storage, poisoned, failures, process, outages, refusals>>

\* The verdict of a write, with its cause for the record.
Refused(cause) ==
    /\ probe' = "refused"
    /\ refusals' = [refusals EXCEPT ![cause] = @ + 1]

\* A write to a hung mount does not return: the thread waits with it.
ProbeDatabase ==
    /\ process = "up" /\ probe = "database" /\ storage # "hung"
    /\ \/ storage # "ok" /\ Refused("volume")
       \/ storage = "ok" /\ poisoned /\ Refused("pool")
       \/ storage = "ok" /\ probe' = "directory" /\ UNCHANGED refusals
    /\ UNCHANGED <<storage, poisoned, failures, process, outages>>

ProbeDirectory ==
    /\ process = "up" /\ probe = "directory" /\ storage # "hung"
    /\ \/ storage # "ok" /\ Refused("volume")
       \/ storage = "ok" /\ probe' = "written" /\ UNCHANGED refusals
    /\ UNCHANGED <<storage, poisoned, failures, process, outages>>

\* Mutant: a success in between does not end the streak.
Recovered_Keeps == failures' = failures

\* A probe that wrote ends the streak.
Recovered == failures' = 0

ProbeSucceeds ==
    /\ process = "up" /\ probe = "written"
    /\ probe' = "idle"
    /\ Recovered
    /\ refusals' = NoRefusals
    /\ UNCHANGED <<storage, poisoned, process, outages>>

\* Mutant: the pool is dropped and the streak is taken for over.
ProbeFails_Restarts ==
    /\ process = "up" /\ probe = "refused"
    /\ probe' = "idle"
    /\ failures' = IF poisoned THEN 0 ELSE failures + 1
    /\ poisoned' = FALSE
    /\ process' = IF failures' >= FailureThreshold THEN "exited" ELSE "up"
    /\ refusals' = IF poisoned THEN NoRefusals ELSE refusals
    /\ UNCHANGED <<storage, outages>>

\* The pool is dropped at every failure; at the threshold the process exits.
ProbeFails ==
    /\ process = "up" /\ probe = "refused"
    /\ probe' = "idle"
    /\ failures' = failures + 1
    /\ poisoned' = FALSE
    /\ process' = IF failures' >= FailureThreshold THEN "exited" ELSE "up"
    /\ UNCHANGED <<storage, outages, refusals>>

\* The restart policy and entrypoint.sh: chown, then the application, whose
\* module state is fresh.  On a hung mount the chown waits.
ContainerStarts ==
    /\ process = "exited" /\ storage # "hung"
    /\ process' = "up"
    /\ storage' = IF storage = "foreign" THEN "ok" ELSE storage
    /\ poisoned' = FALSE
    /\ probe' = "idle"
    /\ failures' = 0
    /\ refusals' = NoRefusals
    /\ UNCHANGED outages

WatchdogNext ==
    \/ VolumeFails
    \/ VolumeRecovers
    \/ ConnectionOpens
    \/ ProbeStarts
    \/ ProbeDatabase
    \/ ProbeDirectory
    \/ ProbeSucceeds
    \/ ProbeFails
    \/ ContainerStarts

WatchdogSpec == WatchdogInit /\ [][WatchdogNext]_watchdogVars

-----------------------------------------------------------------------------
(* Properties *)

Refusals == refusals["volume"] + refusals["pool"]

\* Every variable keeps to its type.
WatchdogTypeOK ==
    /\ storage \in {"ok", "readonly", "foreign", "hung"}
    /\ poisoned \in BOOLEAN
    /\ probe \in {"idle", "database", "directory", "written", "refused"}
    /\ failures \in 0 .. FailureThreshold
    /\ process \in {"up", "exited"}
    /\ outages \in 0 .. MaxOutages
    /\ refusals \in [{"volume", "pool"} -> Nat]

\* The process is only given up when FAILURE_THRESHOLD probes failed since the
\* last one that wrote, and an outage that is over costs at most one of them:
\* the connections it left behind fail one probe and are dropped with it
\* (storage_watchdog.py, docstring: "transient poisoned DB connections ->
\* engine.dispose() + retry").
ExitNeedsRefusals ==
    process = "exited" => /\ Refusals >= FailureThreshold
                          /\ refusals["pool"] <= outages

\* Foreign ownership of the volume does not last: probes fail until the
\* process exits, and the entrypoint takes the volume back.
OwnershipHeals == storage = "foreign" ~> storage = "ok"
=============================================================================
