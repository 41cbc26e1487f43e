---------------------------- MODULE CaptureGap ----------------------------
(***************************************************************************)
(* The capture gap check: an hourly job that looks at every enabled        *)
(* profile and alerts once when its last frame is older than three         *)
(* intervals; a captured frame re-arms the alert.                          *)
(*                                                                         *)
(* Granularity.  The check and the captures share the event loop.  The     *)
(* check reads the profiles and the last frames at its start and suspends  *)
(* only in emit(), so it works off profiles without a break up to the next *)
(* alert.  Clock times are abstracted to the comparison the code makes of  *)
(* them: whether three intervals have passed since.                        *)
(***************************************************************************)
EXTENDS Integers, FiniteSets

CONSTANTS
    Watched,     \* profiles; the job takes them in the order of their ids
    Windowed,    \* those that capture in a bounded active window
    MaxBoots,    \* bound: restarts
    MaxDroughts   \* bound: times a profile's last frame grows old

ASSUME CaptureGapAssumption ==
    /\ Watched \subseteq Nat /\ IsFiniteSet(Watched)
    /\ Windowed \subseteq Watched
    /\ MaxBoots \in Nat /\ MaxDroughts \in Nat

VARIABLES
    watching,    \* the profile is enabled and not auto-disabled
    lastFrame,   \* how old the last captured_at is
    windowOpen,  \* _is_within_active_window
    openSince,   \* _window_open_since: how long ago
    alerted,     \* _alerted
    gapJob,      \* the job is scheduled, and capture_gap_enabled
    check,       \* check_capture_gaps: the rest of its list, what it read
    alerts,      \* alerts of a profile since its last frame
    boots, droughts

gapVars == <<watching, lastFrame, windowOpen, openSince, alerted, gapJob,
             check, alerts, boots, droughts>>

Ages == {"none", "recent", "old"}

CheckIdle ==
    [pc |-> "idle", todo |-> {}, seen |-> [p \in Watched |-> "none"], at |-> -1]

GapInit ==
    /\ watching = [p \in Watched |-> TRUE]
    /\ lastFrame = [p \in Watched |-> "none"]
    /\ windowOpen = [p \in Watched |-> TRUE]
    /\ openSince = [p \in Watched |-> "none"]
    /\ alerted = [p \in Watched |-> FALSE]
    /\ gapJob = TRUE
    /\ check = CheckIdle
    /\ alerts = [p \in Watched |-> 0]
    /\ boots = 0 /\ droughts = 0

-----------------------------------------------------------------------------
(* check_capture_gaps *)

GapCheckStarts ==
    /\ gapJob /\ check.pc = "idle"
    /\ check' = [pc |-> "profiles", todo |-> {p \in Watched : watching[p]},
                 seen |-> lastFrame, at |-> -1]
    /\ UNCHANGED <<watching, lastFrame, windowOpen, openSince, alerted, gapJob,
                   alerts, boots, droughts>>

\* The window marker after the look at p: dropped outside the window, set at
\* the first look inside it.
MarkerAfter(p) ==
    CASE ~windowOpen[p] -> "none"
      [] p \in Windowed /\ openSince[p] = "none" -> "recent"
      [] OTHER -> openSince[p]

\* Mutant: a profile is alerted at every check of its outage.
Alarms_Again(p) ==
    /\ check.seen[p] = "old"
    /\ windowOpen[p]
    /\ p \in Windowed => openSince[p] = "old"

\* The profile is inside its window, past the grace period of a window that
\* opened, its last frame as read at the start is too old, and nobody was told.
Alarms(p) ==
    /\ check.seen[p] = "old"
    /\ windowOpen[p]
    /\ p \in Windowed => openSince[p] = "old"
    /\ ~alerted[p]

\* One profile of the list; one without a frame, or created less than three
\* intervals ago, is passed over.
LooksAt(p) ==
    /\ \/ check.seen[p] # "old" /\ UNCHANGED openSince
       \/ /\ check.seen[p] # "none"
          /\ openSince' = [openSince EXCEPT ![p] = MarkerAfter(p)]
    /\ check' = [check EXCEPT !.todo = @ \ {p},
                              !.pc = IF Alarms(p) THEN "emitting" ELSE "profiles",
                              !.at = IF Alarms(p) THEN p ELSE -1]
    /\ alerts' = IF Alarms(p) THEN [alerts EXCEPT ![p] = @ + 1] ELSE alerts
    /\ UNCHANGED <<watching, lastFrame, windowOpen, alerted, gapJob, boots,
                   droughts>>

GapLook ==
    /\ check.pc = "profiles"
    /\ \E p \in check.todo : (\A o \in check.todo : p <= o) /\ LooksAt(p)

\* emit() returned.
GapAlerted ==
    /\ check.pc = "emitting"
    /\ alerted' = [alerted EXCEPT ![check.at] = TRUE]
    /\ check' = [check EXCEPT !.pc = "profiles", !.at = -1]
    /\ UNCHANGED <<watching, lastFrame, windowOpen, openSince, gapJob, alerts,
                   boots, droughts>>

GapCheckEnds ==
    /\ check.pc = "profiles" /\ check.todo = {}
    /\ check' = CheckIdle
    /\ UNCHANGED <<watching, lastFrame, windowOpen, openSince, alerted, gapJob,
                   alerts, boots, droughts>>

\* Between two suspensions of the check nothing else runs on the loop.
GapLoopFree == check.pc # "profiles"

-----------------------------------------------------------------------------
(* The rest of the program, and time *)

\* capture_profile commits the row and clears the mark in one stretch.
FrameCaptured(p) ==
    /\ GapLoopFree /\ watching[p] /\ windowOpen[p]
    /\ lastFrame' = [lastFrame EXCEPT ![p] = "recent"]
    /\ alerted' = [alerted EXCEPT ![p] = FALSE]
    /\ alerts' = [alerts EXCEPT ![p] = 0]
    /\ UNCHANGED <<watching, windowOpen, openSince, gapJob, check, boots,
                   droughts>>

\* enable_profile, disable_profile, the health monitor
WatchToggled(p) ==
    /\ watching' = [watching EXCEPT ![p] = ~@]
    /\ UNCHANGED <<lastFrame, windowOpen, openSince, alerted, gapJob, check,
                   alerts, boots, droughts>>

\* update_capture_gap_config: a thread; the running check is not touched.
GapToggled ==
    /\ gapJob' = ~gapJob
    /\ UNCHANGED <<watching, lastFrame, windowOpen, openSince, alerted, check,
                   alerts, boots, droughts>>

FrameAges(p) ==
    /\ lastFrame[p] = "recent" /\ droughts < MaxDroughts
    /\ lastFrame' = [lastFrame EXCEPT ![p] = "old"]
    /\ droughts' = droughts + 1
    /\ UNCHANGED <<watching, windowOpen, openSince, alerted, gapJob, check,
                   alerts, boots>>

GraceEnds(p) ==
    /\ openSince[p] = "recent"
    /\ openSince' = [openSince EXCEPT ![p] = "old"]
    /\ UNCHANGED <<watching, lastFrame, windowOpen, alerted, gapJob, check,
                   alerts, boots, droughts>>

WindowTurns(p) ==
    /\ p \in Windowed
    /\ windowOpen' = [windowOpen EXCEPT ![p] = ~@]
    /\ UNCHANGED <<watching, lastFrame, openSince, alerted, gapJob, check,
                   alerts, boots, droughts>>

\* The module's two dictionaries are empty in a new process.
GapRestarts ==
    /\ boots < MaxBoots
    /\ boots' = boots + 1
    /\ check' = CheckIdle
    /\ openSince' = [p \in Watched |-> "none"]
    /\ alerted' = [p \in Watched |-> FALSE]
    /\ alerts' = [p \in Watched |-> 0]
    /\ UNCHANGED <<watching, lastFrame, windowOpen, gapJob, droughts>>

GapNext ==
    \/ GapCheckStarts
    \/ GapLook
    \/ GapAlerted
    \/ GapCheckEnds
    \/ \E p \in Watched : \/ FrameCaptured(p)
                          \/ WatchToggled(p)
                          \/ FrameAges(p)
                          \/ GraceEnds(p)
                          \/ WindowTurns(p)
    \/ GapToggled
    \/ GapRestarts

GapSpec == GapInit /\ [][GapNext]_gapVars

-----------------------------------------------------------------------------
(* Properties *)

\* Every variable keeps to its type.
GapTypeOK ==
    /\ watching \in [Watched -> BOOLEAN] /\ alerted \in [Watched -> BOOLEAN]
    /\ windowOpen \in [Watched -> BOOLEAN] /\ gapJob \in BOOLEAN
    /\ lastFrame \in [Watched -> Ages] /\ openSince \in [Watched -> Ages]
    /\ alerts \in [Watched -> Nat]
    /\ check \in [pc : {"idle", "profiles", "emitting"}, todo : SUBSET Watched,
                  seen : [Watched -> Ages], at : Watched \cup {-1}]
    /\ boots \in 0 .. MaxBoots /\ droughts \in 0 .. MaxDroughts

\* A profile is alerted at most once between two of its frames, however its
\* window turns, it is enabled and disabled, or alerting itself is switched
\* off and on ("True when alerted", capture_gap.py:13).  A restart forgets.
OneAlertPerOutage == \A p \in Watched : alerts[p] <= 1

\* A profile that bears the mark has been alerted since its last frame: the mark
\* is "cleared on successful capture" (capture_gap.py:13), so that the next
\* outage is alerted too.  Not so for a frame captured while the alert is being
\* sent.
MarkClearedByFrame == \A p \in Watched : alerted[p] => alerts[p] > 0
=============================================================================
