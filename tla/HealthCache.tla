---------------------------- MODULE HealthCache ----------------------------
(***************************************************************************)
(* The reachability badge of one integration: a page load reads the saved  *)
(* configuration, takes the cached answer while it is younger than the     *)
(* time to live, and probes the remote otherwise; saving a configuration   *)
(* commits it and then drops the cached answer.                            *)
(*                                                                         *)
(* Granularity.  Page loads run on the event loop and wait only for the    *)
(* probe; the go2rtc request saves in a thread, so its commit and its      *)
(* invalidation are two steps between which the loop runs.  An answer is   *)
(* kept as the number of the configuration it was obtained with.           *)
(***************************************************************************)
EXTENDS Integers, FiniteSets

CONSTANTS
    Readers,    \* page loads at a time
    TTL,        \* CACHE_TTL
    ProbeLimit, \* HEALTH_TIMEOUT, which httpx applies to each phase of a probe
    MaxSaves,   \* bound: saved configurations
    MaxTime     \* bound: the clock

ASSUME HealthCacheAssumption ==
    /\ TTL \in Nat /\ ProbeLimit \in Nat /\ ProbeLimit < TTL
    /\ MaxSaves \in Nat /\ MaxTime \in Nat

VARIABLES
    clock,
    saved,     \* number of the stored configuration
    complete,  \* it names a server
    replaced,  \* when each configuration was replaced
    entry,     \* _cache[key]: when the probe began, with which configuration
    reader,    \* reachable(), per page load
    saving,    \* a save between its commit and its invalidation
    badge      \* the last answer given: which configuration's, and when

healthVars ==
    <<clock, saved, complete, replaced, entry, reader, saving, badge>>

Configs == 0 .. MaxSaves

Absent == [ts |-> -1, config |-> -1]
ReaderIdle == [pc |-> "idle", config |-> -1, ts |-> -1]

HealthInit ==
    /\ clock = 0
    /\ saved = 0
    /\ complete = TRUE
    /\ replaced = [c \in Configs |-> MaxTime + 1]
    /\ entry = Absent
    /\ reader = [r \in Readers |-> ReaderIdle]
    /\ saving = FALSE
    /\ badge = Absent

-----------------------------------------------------------------------------
(* health_status.py *)

Fresh(e) == e # Absent /\ clock - e.ts < TTL

Shows(config) == badge' = [ts |-> clock, config |-> config]

\* The loop between reading the configuration and looking at the cache: no
\* other coroutine runs there, and no time to speak of passes.
LoopBusy == \E r \in Readers : reader[r].pc = "look"

ReadConfig(r) ==
    /\ ~LoopBusy /\ reader[r].pc = "idle" /\ complete
    /\ reader' = [reader EXCEPT ![r] = [pc |-> "look", config |-> saved,
                                        ts |-> clock]]
    /\ UNCHANGED <<clock, saved, complete, replaced, entry, saving, badge>>

\* reachable, up to the probe
LookUp(r) ==
    /\ reader[r].pc = "look"
    /\ IF Fresh(entry)
       THEN /\ Shows(entry.config)
            /\ reader' = [reader EXCEPT ![r] = ReaderIdle]
       ELSE /\ reader' = [reader EXCEPT ![r].pc = "probing"]
            /\ UNCHANGED badge
    /\ UNCHANGED <<clock, saved, complete, replaced, entry, saving>>

\* Mutant: the answer is dated when it arrives.
StoredAs_Late(r) == [ts |-> clock, config |-> reader[r].config]

\* The stored answer is dated when its probe began.
StoredAs(r) == [ts |-> reader[r].ts, config |-> reader[r].config]

Probed(r) ==
    /\ ~LoopBusy /\ reader[r].pc = "probing"
    /\ entry' = StoredAs(r)
    /\ Shows(reader[r].config)
    /\ reader' = [reader EXCEPT ![r] = ReaderIdle]
    /\ UNCHANGED <<clock, saved, complete, replaced, saving>>

\* peek, in a diagnostics request
Peek ==
    /\ Fresh(entry)
    /\ Shows(entry.config)
    /\ UNCHANGED <<clock, saved, complete, replaced, entry, reader, saving>>

-----------------------------------------------------------------------------
(* Saving a configuration *)

SaveCommits ==
    /\ ~saving /\ saved < MaxSaves
    /\ saved' = saved + 1
    /\ complete' \in BOOLEAN
    /\ replaced' = [replaced EXCEPT ![saved] = clock]
    /\ saving' = TRUE
    /\ UNCHANGED <<clock, entry, reader, badge>>

Invalidate ==
    /\ saving
    /\ saving' = FALSE
    /\ entry' = Absent
    /\ UNCHANGED <<clock, saved, complete, replaced, reader, badge>>

\* Seconds pass while probes are out, none of which outlives its limit.
Tick ==
    /\ clock < MaxTime /\ ~LoopBusy
    /\ \A r \in Readers :
           reader[r].pc = "probing" => clock - reader[r].ts < ProbeLimit
    /\ clock' = clock + 1
    /\ UNCHANGED <<saved, complete, replaced, entry, reader, saving, badge>>

HealthNext ==
    \/ \E r \in Readers : ReadConfig(r) \/ LookUp(r) \/ Probed(r)
    \/ Peek
    \/ SaveCommits
    \/ Invalidate
    \/ Tick

HealthSpec == HealthInit /\ [][HealthNext]_healthVars

-----------------------------------------------------------------------------
(* Properties *)

Stamps == [ts : -1 .. MaxTime, config : -1 .. MaxSaves]

\* Every variable keeps to its type.
HealthTypeOK ==
    /\ clock \in 0 .. MaxTime
    /\ saved \in Configs
    /\ complete \in BOOLEAN /\ saving \in BOOLEAN
    /\ replaced \in [Configs -> 0 .. MaxTime + 1]
    /\ entry \in Stamps /\ badge \in Stamps
    /\ reader \in [Readers -> [pc : {"idle", "look", "probing"},
                               config : -1 .. MaxSaves, ts : -1 .. MaxTime]]

\* An answer obtained with a configuration that was replaced meanwhile, stored
\* by a probe that was under way when the save dropped the cache, is not given
\* out for longer than the time to live after the replacement.
StaleNoLongerThanTTL ==
    badge.config >= 0 => badge.ts < replaced[badge.config] + TTL
=============================================================================
