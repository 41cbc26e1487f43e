---------------------------- MODULE CaptureFiles ----------------------------
(***************************************************************************)
(* The frames of one profile, as files and as rows: capture_frame writes a *)
(* file, works on it and commits a row; cleanup unlinks old files, deletes *)
(* their rows and sweeps rows whose file is missing; frames and the whole  *)
(* profile are deleted by requests.                                        *)
(*                                                                         *)
(* Granularity.  A capture suspends at every encoder, thread and fetch.    *)
(* Cleanup and the requests run in threads: every file operation and every *)
(* commit is a step.  A frame is the number of its capture, which orders   *)
(* frames by age.                                                          *)
(***************************************************************************)
EXTENDS Integers, FiniteSets

CONSTANTS
    MaxFrames,    \* bound: captures
    MaxAttempts,  \* MAX_CAPTURE_ATTEMPTS
    MinRows,      \* _ORPHAN_SWEEP_MIN_ROWS
    MaxFaults     \* bound: crashes, failed commits, inaccessible media trees

ASSUME CaptureFilesAssumption ==
    /\ MaxFrames \in Nat /\ MaxAttempts \in Nat \ {0} /\ MinRows \in Nat \ {0}
    /\ MaxFaults \in Nat

VARIABLES
    files,    \* frames on disk
    rows,     \* frames in captures
    dated,    \* the directory the next frame goes to exists
    access,   \* the media tree: "ok", or hidden below its root or at it
    owner,    \* the profile
    capture,  \* capture_frame
    taken,    \* captures begun
    cutoff,   \* frames up to this one are past the retention period
    cleanup,  \* _run_profile_cleanup_sync
    removal,  \* a deletion of frames: rows are gone, files are to be unlinked
    faults

mediaVars == <<files, rows, dated, access, owner, capture, taken, cutoff,
               cleanup, removal, faults>>

Frames == 1 .. MaxFrames

CaptureIdle == [pc |-> "idle", frame |-> 0, tries |-> 0]
CleanupIdle == [pc |-> "idle", old |-> {}, left |-> {}, seen |-> {},
                missing |-> {}, hidden |-> FALSE]

MediaInit ==
    /\ files = {} /\ rows = {}
    /\ dated = FALSE
    /\ access = "ok"
    /\ owner = "here"
    /\ capture = CaptureIdle
    /\ taken = 0 /\ cutoff = 0
    /\ cleanup = CleanupIdle
    /\ removal = {}
    /\ faults = 0

\* os.path.exists, os.path.isfile: an inaccessible file looks missing.
Sees(f) == access = "ok" /\ f \in files

\* os.remove of what is seen
Without(f) == IF Sees(f) THEN files \ {f} ELSE files

-----------------------------------------------------------------------------
(* capture.py: capture_frame *)

Goes(pc) == capture' = [capture EXCEPT !.pc = pc]

\* The profile is read and the directory made; without access that fails.
CaptureStarts ==
    /\ capture.pc = "idle" /\ taken < MaxFrames
    /\ owner = "here" /\ access = "ok"
    /\ taken' = taken + 1
    /\ dated' = TRUE
    /\ capture' = [pc |-> "fetching", frame |-> taken + 1, tries |-> 1]
    /\ UNCHANGED <<files, rows, access, owner, cutoff, cleanup, removal, faults>>

\* The source delivered a file, for which the directory must still be there;
\* a failed or killed encoder leaves nothing or a part of one.
FrameFetched ==
    /\ capture.pc = "fetching"
    /\ \/ dated /\ access = "ok" /\ Goes("checking")
          /\ files' = files \cup {capture.frame}
       \/ /\ Goes("ending")
          /\ \/ UNCHANGED files
             \/ dated /\ access = "ok" /\ files' = files \cup {capture.frame}
    /\ UNCHANGED <<rows, dated, access, owner, taken, cutoff, cleanup, removal,
                   faults>>

\* A corrupt frame is removed and, except for bytes sources, taken again.  A
\* frame that cannot be read does not count as corrupt.
FrameChecked ==
    /\ capture.pc = "checking"
    /\ \/ Goes("resizing") /\ UNCHANGED files
       \/ /\ Sees(capture.frame)
          /\ files' = Without(capture.frame)
          /\ \/ capture.tries < MaxAttempts
                /\ capture' = [capture EXCEPT !.pc = "fetching", !.tries = @ + 1]
             \/ Goes("ending")
    /\ UNCHANGED <<rows, dated, access, owner, taken, cutoff, cleanup, removal,
                   faults>>

\* _resize_and_save fails without the file; an HDR frame is saved as it is.
FrameResized ==
    /\ capture.pc = "resizing"
    /\ \/ Sees(capture.frame) /\ Goes("filtering")
       \/ ~Sees(capture.frame) /\ Goes("ending")
       \/ Goes("filtering")
    /\ UNCHANGED <<files, rows, dated, access, owner, taken, cutoff, cleanup,
                   removal, faults>>

\* The infrared filter keeps a frame or discards it; then weather and sensors.
FrameFiltered ==
    /\ capture.pc = "filtering"
    /\ \/ Goes("recording") /\ UNCHANGED files
       \/ Goes("ending") /\ files' = Without(capture.frame)
    /\ UNCHANGED <<rows, dated, access, owner, taken, cutoff, cleanup, removal,
                   faults>>

\* Mutant: a frame that was not saved is left on disk.
Reclaimed_Not(f) == files

\* The finally block: a file without a row is removed.
Reclaimed(f) == Without(f)

\* The commit; the foreign key refuses a row of a profile that is gone.
FrameRecorded ==
    /\ capture.pc = "recording"
    /\ \/ /\ owner = "here"
          /\ rows' = rows \cup {capture.frame}
          /\ capture' = CaptureIdle
          /\ UNCHANGED faults
       \/ /\ Goes("ending")
          /\ \/ owner # "here" /\ UNCHANGED faults
             \/ faults < MaxFaults /\ faults' = faults + 1
          /\ UNCHANGED rows
    /\ UNCHANGED <<files, dated, access, owner, taken, cutoff, cleanup, removal>>

CaptureEnds ==
    /\ capture.pc = "ending"
    /\ files' = Reclaimed(capture.frame)
    /\ capture' = CaptureIdle
    /\ UNCHANGED <<rows, dated, access, owner, taken, cutoff, cleanup, removal,
                   faults>>

-----------------------------------------------------------------------------
(* retention.py: _run_profile_cleanup_sync *)

\* Mutant: rows whose file is already gone are left to the sweep.
Expired_Present == {f \in rows : f <= cutoff /\ Sees(f)}

\* The rows past the retention period
Expired == {f \in rows : f <= cutoff}

CleanupStarts ==
    /\ cleanup.pc = "idle"
    /\ cleanup' = [CleanupIdle EXCEPT !.pc = "unlinking", !.old = Expired,
                                     !.left = Expired]
    /\ UNCHANGED <<files, rows, dated, access, owner, capture, taken, cutoff,
                   removal, faults>>

Oldest(S) == {f \in S : \A g \in S : f <= g}

UnlinksOld ==
    /\ cleanup.pc = "unlinking"
    /\ \E f \in Oldest(cleanup.left) :
           /\ files' = Without(f)
           /\ cleanup' = [cleanup EXCEPT !.left = @ \ {f}]
    /\ UNCHANGED <<rows, dated, access, owner, capture, taken, cutoff, removal,
                   faults>>

\* The first commit.  If it fails the pass ends: rows stay without files.
CommitsOld ==
    /\ cleanup.pc = "unlinking" /\ cleanup.left = {}
    /\ \/ /\ rows' = rows \ cleanup.old
          /\ cleanup' = [CleanupIdle EXCEPT !.pc = "looking"]
          /\ UNCHANGED faults
       \/ /\ faults < MaxFaults /\ faults' = faults + 1
          /\ cleanup' = CleanupIdle
          /\ UNCHANGED rows
    /\ UNCHANGED <<files, dated, access, owner, capture, taken, cutoff, removal>>

\* The sweep's list of rows, and the look at the media root.
SweepStarts ==
    /\ cleanup.pc = "looking"
    /\ cleanup' = IF access = "root" THEN [CleanupIdle EXCEPT !.pc = "tidying"]
                  ELSE [CleanupIdle EXCEPT
                           !.pc = "scanning", !.left = rows, !.seen = rows,
                           !.hidden = access # "ok"]
    /\ UNCHANGED <<files, rows, dated, access, owner, capture, taken, cutoff,
                   removal, faults>>

Scans ==
    /\ cleanup.pc = "scanning"
    /\ \E f \in Oldest(cleanup.left) :
           cleanup' = [cleanup EXCEPT
               !.left = @ \ {f},
               !.missing = IF Sees(f) THEN @ ELSE @ \cup {f}]
    /\ UNCHANGED <<files, rows, dated, access, owner, capture, taken, cutoff,
                   removal, faults>>

\* Mutant: the guard asks for more rows than its bound says.
Orphans_OffByOne(seen, missing) ==
    IF missing = seen /\ Cardinality(seen) > MinRows THEN {} ELSE missing

\* If all of MinRows rows or more look orphaned, none is.
Orphans(seen, missing) ==
    IF missing = seen /\ Cardinality(seen) >= MinRows THEN {} ELSE missing

\* The second commit.  If it fails the pass ends.
SweepCommits ==
    /\ cleanup.pc = "scanning" /\ cleanup.left = {}
    /\ \/ /\ rows' = rows \ Orphans(cleanup.seen, cleanup.missing)
          /\ cleanup' = [CleanupIdle EXCEPT !.pc = "tidying"]
          /\ UNCHANGED faults
       \/ /\ faults < MaxFaults /\ faults' = faults + 1
          /\ cleanup' = CleanupIdle
          /\ UNCHANGED rows
    /\ UNCHANGED <<files, dated, access, owner, capture, taken, cutoff, removal>>

\* Empty directories are removed, today's too.
Tidies ==
    /\ cleanup.pc = "tidying"
    /\ dated' = IF access = "ok" /\ files = {} THEN FALSE ELSE dated
    /\ cleanup' = CleanupIdle
    /\ UNCHANGED <<files, rows, access, owner, capture, taken, cutoff, removal,
                   faults>>

-----------------------------------------------------------------------------
(* Deletions *)

\* bulk_delete_captures, delete_capture: the commit comes first.
FramesDeleted(S) ==
    /\ removal = {} /\ S # {}
    /\ rows' = rows \ S
    /\ removal' = S
    /\ UNCHANGED <<files, dated, access, owner, capture, taken, cutoff, cleanup,
                   faults>>

FrameUnlinked ==
    /\ \E f \in Oldest(removal) : files' = Without(f) /\ removal' = removal \ {f}
    /\ UNCHANGED <<rows, dated, access, owner, capture, taken, cutoff, cleanup,
                   faults>>

\* delete_profile: the commit cascades to the rows.
OwnerDeleted ==
    /\ owner = "here"
    /\ owner' = "deleted"
    /\ rows' = {}
    /\ UNCHANGED <<files, dated, access, capture, taken, cutoff, cleanup, removal,
                   faults>>

\* rmtree of the profile's directory
TreeRemoved ==
    /\ owner = "deleted"
    /\ owner' = "removed"
    /\ IF access = "ok" THEN files' = {} /\ dated' = FALSE
       ELSE UNCHANGED <<files, dated>>
    /\ UNCHANGED <<rows, access, capture, taken, cutoff, cleanup, removal, faults>>

-----------------------------------------------------------------------------
(* Surroundings *)

TimePasses ==
    /\ cutoff < taken
    /\ cutoff' = cutoff + 1
    /\ UNCHANGED <<files, rows, dated, access, owner, capture, taken, cleanup,
                   removal, faults>>

\* Permissions of the media tree are lost and come back.
TreeHidden ==
    /\ access = "ok" /\ faults < MaxFaults
    /\ access' \in {"below", "root"}
    /\ faults' = faults + 1
    /\ UNCHANGED <<files, rows, dated, owner, capture, taken, cutoff, cleanup,
                   removal>>

TreeReturns ==
    /\ access # "ok"
    /\ access' = "ok"
    /\ cleanup' = [cleanup EXCEPT !.hidden = FALSE]
    /\ UNCHANGED <<files, rows, dated, owner, capture, taken, cutoff, removal,
                   faults>>

\* The process dies: threads and captures end where they are.
MediaCrash ==
    /\ faults < MaxFaults
    /\ faults' = faults + 1
    /\ capture' = CaptureIdle
    /\ cleanup' = CleanupIdle
    /\ removal' = {}
    /\ owner' = IF owner = "deleted" THEN "removed" ELSE owner
    /\ UNCHANGED <<files, rows, dated, access, taken, cutoff>>

MediaNext ==
    \/ CaptureStarts
    \/ FrameFetched
    \/ FrameChecked
    \/ FrameResized
    \/ FrameFiltered
    \/ FrameRecorded
    \/ CaptureEnds
    \/ CleanupStarts
    \/ UnlinksOld
    \/ CommitsOld
    \/ SweepStarts
    \/ Scans
    \/ SweepCommits
    \/ Tidies
    \/ \E S \in SUBSET rows : FramesDeleted(S)
    \/ FrameUnlinked
    \/ OwnerDeleted
    \/ TreeRemoved
    \/ TimePasses
    \/ TreeHidden
    \/ TreeReturns
    \/ MediaCrash

MediaSpec == MediaInit /\ [][MediaNext]_mediaVars

-----------------------------------------------------------------------------
(* Properties *)

\* Every variable keeps to its type.
MediaTypeOK ==
    /\ files \subseteq Frames /\ rows \subseteq Frames /\ removal \subseteq Frames
    /\ dated \in BOOLEAN
    /\ access \in {"ok", "below", "root"}
    /\ owner \in {"here", "deleted", "removed"}
    /\ capture \in [pc : {"idle", "fetching", "checking", "resizing",
                          "filtering", "recording", "ending"},
                    frame : 0 .. MaxFrames, tries : 0 .. MaxAttempts]
    /\ taken \in 0 .. MaxFrames /\ cutoff \in 0 .. MaxFrames
    /\ cleanup \in [pc : {"idle", "unlinking", "looking", "scanning", "tidying"},
                    old : SUBSET Frames, left : SUBSET Frames,
                    seen : SUBSET Frames, missing : SUBSET Frames,
                    hidden : BOOLEAN]
    /\ faults \in 0 .. MaxFaults

\* As long as nothing fails, every file belongs to a row, to the capture that
\* is writing it or to a deletion that is about to unlink it, and every row has
\* its file unless cleanup has just unlinked it and is about to commit: no
\* interleaving of captures, cleanup and deletions leaks a frame or leaves a
\* row behind.
MediaAccounted ==
    faults = 0 =>
        /\ \A f \in files : \/ f \in rows \cup removal \cup cleanup.old
                            \/ capture.pc # "idle" /\ f = capture.frame
                            \/ owner = "deleted"
        /\ \A f \in rows : f \in files \/ f \in cleanup.old

\* A sweep during which the files could not be seen at any time deletes no row,
\* whether the root of the media tree is unreadable or only what is below it,
\* as long as the profile has enough frames for the guard of _collect_orphans.
HiddenTreeKeepsRows ==
    [][SweepCommits /\ cleanup.hidden /\ Cardinality(cleanup.seen) >= MinRows
           => rows' = rows]_mediaVars

\* A sweep that finds most of a profile's frames missing deletes no row whose
\* file is on disk ("skip entirely if [...] an implausibly large share of rows
\* appear missing at once", retention.py:61-62).  Not so when access is lost
\* after the first file was seen: the guard asks for all rows.
SweepSparesFiles ==
    LET seen    == cleanup.seen
        missing == cleanup.missing
    IN  /\ cleanup.pc = "scanning" /\ cleanup.left = {}
        /\ Cardinality(seen) >= MinRows
        /\ 2 * Cardinality(missing) > Cardinality(seen)
        => Orphans(seen, missing) \cap files = {}

\* Rows whose file is gone do not stay: whatever unlinked the files and then
\* crashed, failed to commit or met an inaccessible tree, the time comes when
\* cleanup has deleted the rows.
DanglingRowsGo == rows \ files # {} ~> rows \ files = {}
=============================================================================
