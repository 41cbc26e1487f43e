------------------------- MODULE CaptureFilesProofs -------------------------
(***************************************************************************)
(* As long as nothing fails no frame is leaked or lost, for any number of  *)
(* captures and any interleaving with cleanup and deletions.               *)
(*                                                                         *)
(* The invariant separates the frame in the making from all the others:    *)
(* its number has never been a row, so neither cleanup nor a deletion      *)
(* knows it, and its file is there from the moment it was checked until it *)
(* is recorded - unless the whole profile is removed, when no row of it is *)
(* accepted any more.                                                      *)
(*                                                                         *)
(* With faults: a sweep that cannot see the files deletes no rows.         *)
(***************************************************************************)
EXTENDS CaptureFiles, TLAPS

\* What the cleanup and the deletions have in hand
InHand == cleanup.old \cup cleanup.left \cup cleanup.seen \cup cleanup.missing
              \cup removal

\* Frames are numbered as they are begun; the one in the making is the newest
\* and nobody else's.
FrameApart ==
    /\ \A f \in rows \cup InHand : f <= taken
    /\ capture.pc # "idle" => /\ capture.frame = taken
                              /\ capture.frame \notin rows \cup InHand

\* A frame that was fetched is on disk until it is discarded.
FrameOnDisk ==
    capture.pc \in {"checking", "resizing", "filtering", "recording"}
        /\ owner # "removed" => capture.frame \in files

\* What cleanup found and did
CleanupKeepsTrack ==
    /\ cleanup.pc # "unlinking" => cleanup.old = {}
    /\ cleanup.old \cap files \subseteq cleanup.left
    /\ cleanup.missing \cap files = {}

\* Every file belongs to somebody.
FilesOwned ==
    \A f \in files : \/ f \in rows \cup removal \cup cleanup.old
                     \/ capture.pc # "idle" /\ f = capture.frame
                     \/ owner = "deleted"

RowsHaveFiles == \A f \in rows : f \in files \/ f \in cleanup.old

LeftIsOld == cleanup.pc = "unlinking" => cleanup.left \subseteq cleanup.old

Sound ==
    /\ access = "ok"
    /\ FrameApart
    /\ FrameOnDisk
    /\ CleanupKeepsTrack
    /\ removal \cap rows = {}
    /\ owner # "here" => rows = {}
    /\ LeftIsOld
    /\ FilesOwned
    /\ RowsHaveFiles

FrameNumbered == capture.pc # "idle" => capture.frame \in Frames

MediaInv ==
    /\ MediaTypeOK
    /\ FrameNumbered
    /\ faults = 0 => Sound

-----------------------------------------------------------------------------
(* Types *)

CaptureRecords ==
    [pc : {"idle", "fetching", "checking", "resizing", "filtering", "recording",
           "ending"},
     frame : 0 .. MaxFrames, tries : 0 .. MaxAttempts]

CleanupRecords ==
    [pc : {"idle", "unlinking", "looking", "scanning", "tidying"},
     old : SUBSET Frames, left : SUBSET Frames, seen : SUBSET Frames,
     missing : SUBSET Frames, hidden : BOOLEAN]

LEMMA MediaTypes ==
  MediaTypeOK <=>
    /\ files \subseteq Frames /\ rows \subseteq Frames /\ removal \subseteq Frames
    /\ dated \in BOOLEAN
    /\ access \in {"ok", "below", "root"}
    /\ owner \in {"here", "deleted", "removed"}
    /\ capture \in CaptureRecords
    /\ taken \in 0 .. MaxFrames /\ cutoff \in 0 .. MaxFrames
    /\ cleanup \in CleanupRecords
    /\ faults \in 0 .. MaxFaults
  BY DEF MediaTypeOK, CaptureRecords, CleanupRecords

LEMMA IdleTypes == CaptureIdle \in CaptureRecords /\ CleanupIdle \in CleanupRecords
  BY CaptureFilesAssumption
     DEF CaptureIdle, CleanupIdle, CaptureRecords, CleanupRecords

LEMMA InitMedia == MediaInit => MediaInv
  <1> SUFFICES ASSUME MediaInit  PROVE MediaInv
    OBVIOUS
  <1> USE CaptureFilesAssumption
  <1>1. /\ files = {} /\ rows = {} /\ removal = {}
        /\ access = "ok" /\ owner = "here" /\ taken = 0 /\ cutoff = 0 /\ faults = 0
        /\ capture = CaptureIdle /\ cleanup = CleanupIdle
    BY DEF MediaInit
  <1>2. dated \in BOOLEAN
    BY DEF MediaInit
  <1>3. MediaTypeOK
    BY <1>1, <1>2, IdleTypes, MediaTypes DEF Frames
  <1>4. /\ capture.pc = "idle"
        /\ cleanup.old = {} /\ cleanup.left = {} /\ cleanup.seen = {}
        /\ cleanup.missing = {}
    BY <1>1 DEF CaptureIdle, CleanupIdle
  <1>5. Sound
    BY <1>1, <1>4
       DEF Sound, FrameApart, InHand, FrameOnDisk, CleanupKeepsTrack, LeftIsOld,
           FilesOwned, RowsHaveFiles
  <1> QED
    BY <1>3, <1>4, <1>5 DEF MediaInv, FrameNumbered

\* A capture that goes on keeps its frame and its attempts.
LEMMA GoesTypes ==
  ASSUME MediaTypeOK,
         NEW pc \in {"idle", "fetching", "checking", "resizing", "filtering",
                     "recording", "ending"},
         Goes(pc)
  PROVE  /\ capture' \in CaptureRecords
         /\ capture'.pc = pc /\ capture'.frame = capture.frame
         /\ capture'.tries = capture.tries
  <1>1. capture \in CaptureRecords
    BY MediaTypes
  <1> QED
    BY <1>1 DEF Goes, CaptureRecords

LEMMA NextTypes ==
  MediaTypeOK /\ FrameNumbered /\ [MediaNext]_mediaVars
      => MediaTypeOK' /\ FrameNumbered'
  <1> SUFFICES ASSUME MediaTypeOK, FrameNumbered, [MediaNext]_mediaVars
               PROVE  MediaTypeOK' /\ FrameNumbered'
    OBVIOUS
  <1> USE CaptureFilesAssumption
  <1>0. SUFFICES
          /\ files' \subseteq Frames /\ rows' \subseteq Frames
          /\ removal' \subseteq Frames
          /\ dated' \in BOOLEAN
          /\ access' \in {"ok", "below", "root"}
          /\ owner' \in {"here", "deleted", "removed"}
          /\ capture' \in CaptureRecords
          /\ taken' \in 0 .. MaxFrames /\ cutoff' \in 0 .. MaxFrames
          /\ cleanup' \in CleanupRecords
          /\ faults' \in 0 .. MaxFaults
          /\ capture'.pc # "idle" => capture'.frame \in Frames
    BY DEF MediaTypeOK, FrameNumbered, CaptureRecords, CleanupRecords
  <1>t. /\ files \subseteq Frames /\ rows \subseteq Frames /\ removal \subseteq Frames
        /\ dated \in BOOLEAN
        /\ access \in {"ok", "below", "root"}
        /\ owner \in {"here", "deleted", "removed"}
        /\ capture \in CaptureRecords
        /\ taken \in 0 .. MaxFrames /\ cutoff \in 0 .. MaxFrames
        /\ cleanup \in CleanupRecords
        /\ faults \in 0 .. MaxFaults
        /\ capture.pc # "idle" => capture.frame \in Frames
    BY MediaTypes DEF FrameNumbered
  <1>i. /\ CaptureIdle \in CaptureRecords /\ CaptureIdle.pc = "idle"
        /\ CleanupIdle \in CleanupRecords
    BY IdleTypes DEF CaptureIdle
  <1>f. Without(capture.frame) \subseteq files
    BY DEF Without
  <1>1. CASE CaptureStarts
    <2>1. taken + 1 \in Frames /\ 1 \in 0 .. MaxAttempts
      BY <1>1, <1>t DEF CaptureStarts, Frames
    <2>2. capture' = [pc |-> "fetching", frame |-> taken + 1, tries |-> 1]
      BY <1>1 DEF CaptureStarts
    <2>3. capture' \in CaptureRecords /\ capture'.frame = taken + 1
      BY <2>1, <2>2 DEF CaptureRecords, Frames
    <2>4. dated' \in BOOLEAN
      BY <1>1 DEF CaptureStarts
    <2>5. taken' \in 0 .. MaxFrames
      BY <1>1, <2>1 DEF CaptureStarts, Frames
    <2> QED
      BY <1>1, <1>t, <2>1, <2>3, <2>4, <2>5 DEF CaptureStarts
  <1>2. CASE FrameFetched
    <2>1. capture' \in CaptureRecords /\ capture'.frame = capture.frame
      BY <1>2, GoesTypes DEF FrameFetched
    <2>2. capture.frame \in Frames
      BY <1>2, <1>t DEF FrameFetched
    <2> QED
      BY <1>2, <1>t, <2>1, <2>2 DEF FrameFetched
  <1>3. CASE FrameChecked
    <2>1. capture.frame \in Frames
      BY <1>3, <1>t DEF FrameChecked
    <2>2. CASE Goes("resizing") \/ Goes("ending")
      BY <1>3, <1>t, <1>f, <2>1, <2>2, GoesTypes DEF FrameChecked
    <2>3. CASE /\ capture.tries < MaxAttempts
               /\ capture' = [capture EXCEPT !.pc = "fetching", !.tries = @ + 1]
      <3>1. capture' \in CaptureRecords /\ capture'.frame = capture.frame
        <4>1. capture.tries \in 0 .. MaxAttempts
          BY <1>t DEF CaptureRecords
        <4>2. capture.tries + 1 \in 0 .. MaxAttempts
          BY <2>3, <4>1
        <4> QED
          BY <1>t, <2>3, <4>2 DEF CaptureRecords
      <3> QED
        BY <1>3, <1>t, <1>f, <2>1, <3>1 DEF FrameChecked
    <2> QED  BY <1>3, <2>2, <2>3 DEF FrameChecked
  <1>4. CASE FrameResized
    <2>1. capture.frame \in Frames
      BY <1>4, <1>t DEF FrameResized
    <2>2. capture' \in CaptureRecords /\ capture'.frame = capture.frame
      BY <1>4, GoesTypes DEF FrameResized
    <2> QED
      BY <1>4, <1>t, <2>1, <2>2 DEF FrameResized
  <1>5. CASE FrameFiltered
    <2>1. capture.frame \in Frames
      BY <1>5, <1>t DEF FrameFiltered
    <2>2. capture' \in CaptureRecords /\ capture'.frame = capture.frame
      BY <1>5, GoesTypes DEF FrameFiltered
    <2> QED
      BY <1>5, <1>t, <1>f, <2>1, <2>2 DEF FrameFiltered
  <1>6. CASE FrameRecorded
    <2>1. capture.frame \in Frames
      BY <1>6, <1>t DEF FrameRecorded
    <2>2. CASE rows' = rows \cup {capture.frame} /\ capture' = CaptureIdle
      BY <1>6, <1>t, <1>i, <2>1, <2>2 DEF FrameRecorded
    <2>3. CASE Goes("ending") /\ rows' = rows
      <3>1. capture' \in CaptureRecords /\ capture'.frame = capture.frame
        BY <2>3, GoesTypes
      <3> QED
        BY <1>6, <1>t, <2>1, <2>3, <3>1 DEF FrameRecorded
    <2> QED  BY <1>6, <2>2, <2>3 DEF FrameRecorded
  <1>7. CASE CaptureEnds
    BY <1>7, <1>t, <1>i, <1>f DEF CaptureEnds, Reclaimed
  <1>8. CASE CleanupStarts
    <2>1. Expired \subseteq Frames
      BY <1>t DEF Expired
    <2>2. cleanup' \in CleanupRecords
      BY <1>8, <1>i, <2>1 DEF CleanupStarts, CleanupRecords
    <2> QED
      BY <1>8, <1>t, <2>2 DEF CleanupStarts
  <1>9. CASE UnlinksOld
    <2>1. PICK f \in Oldest(cleanup.left) :
              /\ files' = Without(f)
              /\ cleanup' = [cleanup EXCEPT !.left = @ \ {f}]
      BY <1>9 DEF UnlinksOld
    <2>2. cleanup' \in CleanupRecords
      BY <1>t, <2>1 DEF CleanupRecords
    <2>3. files' \subseteq files
      BY <2>1 DEF Without
    <2> QED
      BY <1>9, <1>t, <2>2, <2>3 DEF UnlinksOld
  <1>10. CASE CommitsOld
    <2>1. cleanup' \in CleanupRecords
      BY <1>10, <1>i DEF CommitsOld, CleanupRecords
    <2>2. faults' \in 0 .. MaxFaults
      BY <1>10, <1>t DEF CommitsOld
    <2> QED
      BY <1>10, <1>t, <2>1, <2>2 DEF CommitsOld
  <1>11. CASE SweepStarts
    <2>1. (access # "ok") \in BOOLEAN
      OBVIOUS
    <2>2. cleanup' \in CleanupRecords
      BY <1>11, <1>t, <1>i, <2>1 DEF SweepStarts, CleanupRecords
    <2> QED
      BY <1>11, <1>t, <2>2 DEF SweepStarts
  <1>12. CASE Scans
    <2>1. PICK f \in Oldest(cleanup.left) :
              cleanup' = [cleanup EXCEPT
                  !.left = @ \ {f},
                  !.missing = IF Sees(f) THEN @ ELSE @ \cup {f}]
      BY <1>12 DEF Scans
    <2>2. f \in Frames
      BY <1>t DEF Oldest, CleanupRecords
    <2>3. cleanup' \in CleanupRecords
      BY <1>t, <2>1, <2>2 DEF CleanupRecords
    <2> QED
      BY <1>12, <1>t, <2>3 DEF Scans
  <1>13. CASE SweepCommits
    <2>1. cleanup' \in CleanupRecords
      BY <1>13, <1>i DEF SweepCommits, CleanupRecords
    <2> QED
      BY <1>13, <1>t, <2>1 DEF SweepCommits
  <1>14. CASE Tidies
    <2>1. dated' \in BOOLEAN
      BY <1>14, <1>t DEF Tidies
    <2> QED
      BY <1>14, <1>t, <1>i, <2>1 DEF Tidies
  <1>15. CASE \E S \in SUBSET rows : FramesDeleted(S)
    <2>1. PICK S \in SUBSET rows : FramesDeleted(S)
      BY <1>15
    <2> QED
      BY <1>t, <2>1 DEF FramesDeleted
  <1>16. CASE FrameUnlinked
    <2>1. PICK f \in Oldest(removal) : files' = Without(f) /\ removal' = removal \ {f}
      BY <1>16 DEF FrameUnlinked
    <2>2. files' \subseteq files
      BY <2>1 DEF Without
    <2> QED
      BY <1>16, <1>t, <2>1, <2>2 DEF FrameUnlinked
  <1>17. CASE OwnerDeleted
    BY <1>17, <1>t DEF OwnerDeleted
  <1>18. CASE TreeRemoved
    <2>1. dated' \in BOOLEAN
      BY <1>18, <1>t DEF TreeRemoved
    <2>2. files' \subseteq files
      BY <1>18 DEF TreeRemoved
    <2> QED
      BY <1>18, <1>t, <2>1, <2>2 DEF TreeRemoved
  <1>19. CASE TimePasses
    <2>1. cutoff' \in 0 .. MaxFrames
      BY <1>19, <1>t DEF TimePasses
    <2> QED
      BY <1>19, <1>t, <2>1 DEF TimePasses
  <1>20. CASE TreeHidden
    <2>1. faults' \in 0 .. MaxFaults
      BY <1>20, <1>t DEF TreeHidden
    <2> QED
      BY <1>20, <1>t, <2>1 DEF TreeHidden
  <1>21. CASE TreeReturns
    <2>1. cleanup' \in CleanupRecords
      BY <1>21, <1>t DEF TreeReturns, CleanupRecords
    <2> QED
      BY <1>21, <1>t, <2>1 DEF TreeReturns
  <1>22. CASE MediaCrash
    <2>1. faults' \in 0 .. MaxFaults
      BY <1>22, <1>t DEF MediaCrash
    <2> QED
      BY <1>22, <1>t, <1>i, <2>1 DEF MediaCrash
  <1>23. CASE UNCHANGED mediaVars
    BY <1>23, <1>t DEF mediaVars
  <1> QED
    BY <1>0, <1>1, <1>2, <1>3, <1>4, <1>5, <1>6, <1>7, <1>8, <1>9, <1>10, <1>11,
       <1>12, <1>13, <1>14, <1>15, <1>16, <1>17, <1>18, <1>19, <1>20, <1>21,
       <1>22, <1>23
       DEF MediaNext

-----------------------------------------------------------------------------
(* Steps without a fault *)

\* Seen and unlinked, while the tree is accessible
LEMMA Accessible ==
  ASSUME access = "ok", NEW f
  PROVE  (Sees(f) <=> f \in files) /\ Without(f) = files \ {f}
  BY DEF Sees, Without

\* A step of the capture between its start and its end touches no file but its
\* own, and no row.
LEMMA CaptureWorks ==
  ASSUME MediaTypeOK, Sound, capture.pc # "idle",
         capture'.pc # "idle", capture'.frame = capture.frame,
         files' \ {capture.frame} = files \ {capture.frame},
         capture'.pc \in {"checking", "resizing", "filtering", "recording"}
             /\ owner # "removed" => capture.frame \in files',
         UNCHANGED <<rows, access, owner, taken, cleanup, removal>>
  PROVE  Sound'
  <1>1. /\ capture.frame \notin rows \cup InHand
        /\ \A f : f # capture.frame => (f \in files' <=> f \in files)
    BY DEF Sound, FrameApart
  <1>2. FrameApart' /\ FrameOnDisk'
    BY DEF Sound, FrameApart, InHand, FrameOnDisk
  <1>3. CleanupKeepsTrack'
    BY <1>1 DEF Sound, InHand, CleanupKeepsTrack
  <1>4. FilesOwned' /\ RowsHaveFiles'
    BY <1>1 DEF Sound, InHand, FilesOwned, RowsHaveFiles
  <1>l. LeftIsOld'
    BY DEF Sound, LeftIsOld
  <1> QED
    BY <1>2, <1>3, <1>4, <1>l DEF Sound

\* The frame in the making goes no further: its file is gone, or it is a row.
LEMMA CaptureEndsSoundly ==
  ASSUME MediaTypeOK, Sound, capture.pc # "idle", capture'.pc = "idle",
         \/ files' = files \ {capture.frame} /\ rows' = rows
         \/ /\ files' = files /\ rows' = rows \cup {capture.frame}
            /\ owner = "here" /\ capture.frame \in files,
         UNCHANGED <<access, owner, taken, cleanup, removal>>
  PROVE  Sound'
  <1>1. /\ capture.frame \notin rows \cup InHand /\ capture.frame = taken
        /\ taken \in Nat
    BY MediaTypes, CaptureFilesAssumption DEF Sound, FrameApart
  <1>2. FrameApart' /\ FrameOnDisk'
    BY <1>1 DEF Sound, FrameApart, InHand, FrameOnDisk
  <1>3. CleanupKeepsTrack'
    BY <1>1 DEF Sound, InHand, CleanupKeepsTrack
  <1>4. FilesOwned' /\ RowsHaveFiles'
    BY <1>1 DEF Sound, InHand, FilesOwned, RowsHaveFiles
  <1>l. LeftIsOld'
    BY DEF Sound, LeftIsOld
  <1>5. removal' \cap rows' = {} /\ (owner' # "here" => rows' = {})
    BY <1>1 DEF Sound, InHand
  <1> QED
    BY <1>2, <1>3, <1>4, <1>5, <1>l DEF Sound

\* Cleanup and the deletions, while they only take rows and files away: what
\* they have in hand was a row.
LEMMA HandsOff ==
  ASSUME MediaTypeOK, Sound,
         files' \subseteq files, rows' \subseteq rows,
         InHand' \subseteq InHand \cup rows,
         UNCHANGED <<capture, taken>>
  PROVE  FrameApart'
  BY DEF Sound, FrameApart

LEMMA NextSound ==
  ASSUME MediaTypeOK, FrameNumbered, Sound, MediaNext, faults = 0, faults' = 0
  PROVE  Sound'
  <1> USE CaptureFilesAssumption
  <1>a. /\ access = "ok"
        /\ \A f : (Sees(f) <=> f \in files) /\ Without(f) = files \ {f}
    BY Accessible DEF Sound
  <1>t. /\ capture \in CaptureRecords /\ cleanup \in CleanupRecords
        /\ taken \in Nat /\ cutoff \in Nat /\ rows \subseteq Frames
    BY MediaTypes
  <1>r. CleanupIdle.old = {} /\ CleanupIdle.left = {} /\ CleanupIdle.seen = {}
        /\ CleanupIdle.missing = {} /\ CleanupIdle.pc = "idle"
        /\ CaptureIdle.pc = "idle"
    BY DEF CleanupIdle, CaptureIdle
  <1>1. CASE CaptureStarts
    <2>1. /\ capture.pc = "idle" /\ owner = "here"
          /\ taken' = taken + 1
          /\ capture'.pc = "fetching" /\ capture'.frame = taken + 1
          /\ UNCHANGED <<files, rows, access, owner, cleanup, removal>>
      BY <1>1 DEF CaptureStarts
    <2>2. FrameApart' /\ FrameOnDisk'
      BY <1>t, <2>1 DEF Sound, FrameApart, InHand, FrameOnDisk, Frames
    <2> QED
      BY <2>1, <2>2
         DEF Sound, CleanupKeepsTrack, LeftIsOld, FilesOwned, RowsHaveFiles
  <1>2. CASE FrameFetched
    <2>1. /\ capture.pc = "fetching"
          /\ files' = files \/ files' = files \cup {capture.frame}
          /\ UNCHANGED <<rows, access, owner, taken, cleanup, removal>>
          /\ \/ Goes("checking") /\ capture.frame \in files'
             \/ Goes("ending")
      BY <1>2 DEF FrameFetched
    <2>2. /\ \/ capture'.pc = "checking" /\ capture.frame \in files'
             \/ capture'.pc = "ending"
          /\ capture'.frame = capture.frame
      BY <2>1, GoesTypes
    <2> QED
      BY <2>1, <2>2, CaptureWorks
  <1>3. CASE FrameChecked
    <2>1. /\ capture.pc = "checking"
          /\ files' = files \/ files' = files \ {capture.frame}
          /\ UNCHANGED <<rows, access, owner, taken, cleanup, removal>>
      BY <1>3, <1>a DEF FrameChecked
    <2>2. /\ \/ capture'.pc = "resizing" /\ files' = files
             \/ capture'.pc \in {"fetching", "ending"}
          /\ capture'.frame = capture.frame
      <3>1. CASE (Goes("resizing") /\ UNCHANGED files) \/ Goes("ending")
        BY <3>1, GoesTypes
      <3>2. CASE capture' = [capture EXCEPT !.pc = "fetching", !.tries = @ + 1]
        BY <1>t, <3>2 DEF CaptureRecords
      <3> QED  BY <1>3, <3>1, <3>2 DEF FrameChecked
    <2>3. owner # "removed" => capture.frame \in files
      BY <2>1 DEF Sound, FrameOnDisk
    <2> QED
      BY <2>1, <2>2, <2>3, CaptureWorks
  <1>4. CASE FrameResized
    <2>1. /\ capture.pc = "resizing"
          /\ UNCHANGED <<files, rows, access, owner, taken, cleanup, removal>>
          /\ Goes("filtering") \/ Goes("ending")
      BY <1>4 DEF FrameResized
    <2>2. capture'.pc \in {"filtering", "ending"} /\ capture'.frame = capture.frame
      BY <2>1, GoesTypes
    <2>3. owner # "removed" => capture.frame \in files
      BY <2>1 DEF Sound, FrameOnDisk
    <2> QED
      BY <2>1, <2>2, <2>3, CaptureWorks
  <1>5. CASE FrameFiltered
    <2>1. /\ capture.pc = "filtering"
          /\ UNCHANGED <<rows, access, owner, taken, cleanup, removal>>
          /\ \/ Goes("recording") /\ files' = files
             \/ Goes("ending") /\ files' = files \ {capture.frame}
      BY <1>5, <1>a DEF FrameFiltered
    <2>2. /\ \/ capture'.pc = "recording" /\ files' = files
             \/ capture'.pc = "ending" /\ files' = files \ {capture.frame}
          /\ capture'.frame = capture.frame
      BY <2>1, GoesTypes
    <2>3. owner # "removed" => capture.frame \in files
      BY <2>1 DEF Sound, FrameOnDisk
    <2> QED
      BY <2>1, <2>2, <2>3, CaptureWorks
  <1>6. CASE FrameRecorded
    <2>1. /\ capture.pc = "recording"
          /\ UNCHANGED <<files, access, owner, taken, cleanup, removal>>
      BY <1>6 DEF FrameRecorded
    <2>2. CASE /\ owner = "here" /\ rows' = rows \cup {capture.frame}
               /\ capture' = CaptureIdle
      <3>1. capture.frame \in files
        BY <2>1, <2>2 DEF Sound, FrameOnDisk
      <3> QED
        BY <1>r, <2>1, <2>2, <3>1, CaptureEndsSoundly
    <2>3. CASE Goes("ending") /\ rows' = rows
      <3>1. capture'.pc = "ending" /\ capture'.frame = capture.frame
        BY <2>3, GoesTypes
      <3> QED
        BY <2>1, <2>3, <3>1, CaptureWorks
    <2> QED  BY <1>6, <2>2, <2>3 DEF FrameRecorded
  <1>7. CASE CaptureEnds
    <2>1. /\ capture.pc = "ending" /\ capture'.pc = "idle"
          /\ files' = files \ {capture.frame}
          /\ UNCHANGED <<rows, access, owner, taken, cleanup, removal>>
      BY <1>7, <1>a, <1>r DEF CaptureEnds, Reclaimed
    <2> QED
      BY <2>1, CaptureEndsSoundly
  <1>8. CASE CleanupStarts
    <2>1. /\ cleanup'.pc = "unlinking"
          /\ cleanup'.old = Expired /\ cleanup'.left = Expired
          /\ cleanup'.seen = {} /\ cleanup'.missing = {}
          /\ Expired \subseteq rows
          /\ cleanup.pc = "idle"
          /\ UNCHANGED <<files, rows, access, owner, capture, taken, removal>>
      BY <1>8 DEF CleanupStarts, CleanupIdle, Expired
    <2>2. FrameApart'
      BY <2>1, HandsOff DEF InHand
    <2>3. FrameOnDisk' /\ CleanupKeepsTrack'
      BY <2>1 DEF Sound, FrameOnDisk, CleanupKeepsTrack
    <2>4. cleanup.old = {}
      BY <2>1 DEF Sound, CleanupKeepsTrack
    <2>5. FilesOwned' /\ RowsHaveFiles'
      BY <2>1, <2>4 DEF Sound, FilesOwned, RowsHaveFiles
    <2> QED
      BY <2>1, <2>2, <2>3, <2>5 DEF Sound, LeftIsOld
  <1>9. CASE UnlinksOld
    <2>1. PICK f \in Oldest(cleanup.left) :
              /\ files' = files \ {f}
              /\ cleanup' = [cleanup EXCEPT !.left = @ \ {f}]
      BY <1>9, <1>a DEF UnlinksOld
    <2>2. /\ cleanup.pc = "unlinking"
          /\ UNCHANGED <<rows, access, owner, capture, taken, removal>>
      BY <1>9 DEF UnlinksOld
    <2>3. /\ cleanup'.pc = "unlinking" /\ cleanup'.left = cleanup.left \ {f}
          /\ cleanup'.old = cleanup.old /\ cleanup'.seen = cleanup.seen
          /\ cleanup'.missing = cleanup.missing
          /\ f \in cleanup.left
      BY <1>t, <2>1, <2>2 DEF CleanupRecords, Oldest
    <2>4. FrameApart'
      BY <2>1, <2>2, <2>3, HandsOff DEF InHand
    <2>5. FrameOnDisk'
      BY <2>1, <2>2, <2>3 DEF Sound, FrameApart, FrameOnDisk, InHand
    <2>6. CleanupKeepsTrack' /\ FilesOwned'
      BY <2>1, <2>2, <2>3 DEF Sound, CleanupKeepsTrack, FilesOwned
    <2>7. f \in cleanup.old
      BY <2>2, <2>3 DEF Sound, LeftIsOld
    <2>8. RowsHaveFiles'
      BY <2>1, <2>2, <2>3, <2>7 DEF Sound, RowsHaveFiles
    <2> QED
      BY <2>2, <2>3, <2>4, <2>5, <2>6, <2>7, <2>8 DEF Sound, LeftIsOld
  <1>10. CASE CommitsOld
    <2>1. /\ cleanup.pc = "unlinking" /\ cleanup.left = {}
          /\ rows' = rows \ cleanup.old
          /\ cleanup' = [CleanupIdle EXCEPT !.pc = "looking"]
          /\ UNCHANGED <<files, access, owner, capture, taken, removal>>
      BY <1>10 DEF CommitsOld
    <2>2. /\ cleanup'.pc = "looking" /\ cleanup'.old = {} /\ cleanup'.left = {}
          /\ cleanup'.seen = {} /\ cleanup'.missing = {}
      BY <2>1 DEF CleanupIdle
    <2>3. FrameApart'
      BY <2>1, <2>2, HandsOff DEF InHand
    <2>4. cleanup.old \cap files = {}
      BY <2>1 DEF Sound, CleanupKeepsTrack
    <2> QED
      BY <2>1, <2>2, <2>3, <2>4
         DEF Sound, FrameOnDisk, CleanupKeepsTrack, LeftIsOld, FilesOwned,
             RowsHaveFiles
  <1>11. CASE SweepStarts
    <2>1. /\ cleanup.pc = "looking"
          /\ cleanup'.pc = "scanning" /\ cleanup'.left = rows
          /\ cleanup'.seen = rows
          /\ cleanup'.missing = {} /\ cleanup'.old = {}
          /\ UNCHANGED <<files, rows, access, owner, capture, taken, removal>>
      BY <1>11, <1>a DEF SweepStarts, CleanupIdle
    <2>2. FrameApart'
      BY <2>1, HandsOff DEF InHand
    <2>3. cleanup.old = {}
      BY <2>1 DEF Sound, CleanupKeepsTrack
    <2> QED
      BY <2>1, <2>2, <2>3
         DEF Sound, FrameOnDisk, CleanupKeepsTrack, LeftIsOld, FilesOwned,
             RowsHaveFiles
  <1>12. CASE Scans
    <2>1. PICK f \in Oldest(cleanup.left) :
              cleanup' = [cleanup EXCEPT
                  !.left = @ \ {f},
                  !.missing = IF Sees(f) THEN @ ELSE @ \cup {f}]
      BY <1>12 DEF Scans
    <2>2. /\ cleanup.pc = "scanning"
          /\ UNCHANGED <<files, rows, access, owner, capture, taken, removal>>
      BY <1>12 DEF Scans
    <2>3. /\ cleanup'.pc = "scanning" /\ cleanup'.left = cleanup.left \ {f}
          /\ cleanup'.old = cleanup.old /\ cleanup'.seen = cleanup.seen
          /\ cleanup'.missing \subseteq cleanup.missing \cup {f}
          /\ f \in files => cleanup'.missing = cleanup.missing
          /\ f \in cleanup.left
      BY <1>a, <1>t, <2>1, <2>2 DEF CleanupRecords, Oldest
    <2>4. FrameApart'
      BY <2>2, <2>3, HandsOff DEF InHand
    <2>5. cleanup.old = {}
      BY <2>2 DEF Sound, CleanupKeepsTrack
    <2>6. CleanupKeepsTrack'
      BY <2>2, <2>3, <2>5 DEF Sound, CleanupKeepsTrack
    <2> QED
      BY <2>2, <2>3, <2>4, <2>5, <2>6
         DEF Sound, FrameOnDisk, LeftIsOld, FilesOwned, RowsHaveFiles
  <1>13. CASE SweepCommits
    <2>1. /\ cleanup.pc = "scanning"
          /\ rows' \subseteq rows
          /\ rows \ cleanup.missing \subseteq rows'
          /\ cleanup' = [CleanupIdle EXCEPT !.pc = "tidying"]
          /\ UNCHANGED <<files, access, owner, capture, taken, removal>>
      BY <1>13 DEF SweepCommits, Orphans
    <2>2. /\ cleanup'.pc = "tidying" /\ cleanup'.old = {} /\ cleanup'.left = {}
          /\ cleanup'.seen = {} /\ cleanup'.missing = {}
      BY <2>1 DEF CleanupIdle
    <2>3. FrameApart'
      BY <2>1, <2>2, HandsOff DEF InHand
    <2>4. cleanup.old = {} /\ cleanup.missing \cap files = {}
      BY <2>1 DEF Sound, CleanupKeepsTrack
    <2> QED
      BY <2>1, <2>2, <2>3, <2>4
         DEF Sound, FrameOnDisk, CleanupKeepsTrack, LeftIsOld, FilesOwned,
             RowsHaveFiles
  <1>14. CASE Tidies
    <2>1. /\ cleanup.pc = "tidying" /\ cleanup' = CleanupIdle
          /\ UNCHANGED <<files, rows, access, owner, capture, taken, removal>>
      BY <1>14 DEF Tidies
    <2>2. FrameApart'
      BY <1>r, <2>1, HandsOff DEF InHand
    <2>3. cleanup.old = {}
      BY <2>1 DEF Sound, CleanupKeepsTrack
    <2> QED
      BY <1>r, <2>1, <2>2, <2>3
         DEF Sound, FrameOnDisk, CleanupKeepsTrack, LeftIsOld, FilesOwned,
             RowsHaveFiles
  <1>15. ASSUME NEW S \in SUBSET rows, FramesDeleted(S)
         PROVE  Sound'
    <2>1. /\ removal = {} /\ removal' = S /\ rows' = rows \ S
          /\ UNCHANGED <<files, access, owner, capture, taken, cleanup>>
      BY <1>15 DEF FramesDeleted
    <2>2. FrameApart'
      BY <2>1, HandsOff DEF InHand
    <2> QED
      BY <2>1, <2>2
         DEF Sound, FrameOnDisk, CleanupKeepsTrack, LeftIsOld, FilesOwned,
             RowsHaveFiles
  <1>16. CASE FrameUnlinked
    <2>1. PICK f \in Oldest(removal) : files' = files \ {f} /\ removal' = removal \ {f}
      BY <1>16, <1>a DEF FrameUnlinked
    <2>2. UNCHANGED <<rows, access, owner, capture, taken, cleanup>>
      BY <1>16 DEF FrameUnlinked
    <2>3. f \in removal
      BY DEF Oldest
    <2>4. FrameApart'
      BY <2>1, <2>2, HandsOff DEF InHand
    <2>5. FrameOnDisk'
      BY <2>1, <2>2, <2>3 DEF Sound, FrameApart, FrameOnDisk, InHand
    <2> QED
      BY <2>1, <2>2, <2>3, <2>4, <2>5
         DEF Sound, CleanupKeepsTrack, LeftIsOld, FilesOwned, RowsHaveFiles
  <1>17. CASE OwnerDeleted
    <2>1. /\ owner = "here" /\ owner' = "deleted" /\ rows' = {}
          /\ UNCHANGED <<files, access, capture, taken, cleanup, removal>>
      BY <1>17 DEF OwnerDeleted
    <2>2. FrameApart'
      BY <2>1, HandsOff DEF InHand
    <2> QED
      BY <2>1, <2>2
         DEF Sound, FrameOnDisk, CleanupKeepsTrack, LeftIsOld, FilesOwned,
             RowsHaveFiles
  <1>18. CASE TreeRemoved
    <2>1. /\ owner = "deleted" /\ owner' = "removed" /\ files' = {}
          /\ UNCHANGED <<rows, access, capture, taken, cleanup, removal>>
      BY <1>18, <1>a DEF TreeRemoved
    <2>2. FrameApart'
      BY <2>1, HandsOff DEF InHand
    <2> QED
      BY <2>1, <2>2
         DEF Sound, FrameOnDisk, CleanupKeepsTrack, LeftIsOld, FilesOwned,
             RowsHaveFiles
  <1>19. CASE TimePasses
    <2>1. UNCHANGED <<files, rows, access, owner, capture, taken, cleanup, removal>>
      BY <1>19 DEF TimePasses
    <2> QED
      BY <2>1
         DEF Sound, FrameApart, InHand, FrameOnDisk, CleanupKeepsTrack, LeftIsOld,
             FilesOwned, RowsHaveFiles
  <1>20. CASE TreeHidden
    BY <1>20 DEF TreeHidden
  <1>21. CASE TreeReturns
    BY <1>21, <1>a DEF TreeReturns
  <1>22. CASE MediaCrash
    BY <1>22 DEF MediaCrash
  <1> QED
    BY <1>1, <1>2, <1>3, <1>4, <1>5, <1>6, <1>7, <1>8, <1>9, <1>10, <1>11, <1>12,
       <1>13, <1>14, <1>15, <1>16, <1>17, <1>18, <1>19, <1>20, <1>21, <1>22
       DEF MediaNext

\* A step never takes a fault back.
LEMMA FaultsStay ==
  ASSUME MediaTypeOK, [MediaNext]_mediaVars, faults' = 0
  PROVE  faults = 0
  <1>1. faults \in Nat
    BY MediaTypes, CaptureFilesAssumption
  <1>2. faults' = faults \/ faults' = faults + 1
    BY DEF MediaNext, mediaVars, CaptureStarts, FrameFetched, FrameChecked,
       FrameResized, FrameFiltered, FrameRecorded, CaptureEnds, CleanupStarts,
       UnlinksOld, CommitsOld, SweepStarts, Scans, SweepCommits, Tidies,
       FramesDeleted, FrameUnlinked, OwnerDeleted, TreeRemoved, TimePasses,
       TreeHidden, TreeReturns, MediaCrash
  <1> QED
    BY <1>1, <1>2

LEMMA NextMedia == MediaInv /\ [MediaNext]_mediaVars => MediaInv'
  <1> SUFFICES ASSUME MediaInv, [MediaNext]_mediaVars  PROVE MediaInv'
    OBVIOUS
  <1>1. MediaTypeOK' /\ FrameNumbered'
    BY NextTypes DEF MediaInv
  <1>2. ASSUME faults' = 0  PROVE Sound'
    <2>1. faults = 0 /\ MediaTypeOK /\ FrameNumbered /\ Sound
      BY <1>2, FaultsStay DEF MediaInv
    <2>2. CASE MediaNext
      BY <1>2, <2>1, <2>2, NextSound
    <2>3. CASE UNCHANGED mediaVars
      BY <2>1, <2>3
         DEF mediaVars, Sound, FrameApart, InHand, FrameOnDisk, CleanupKeepsTrack,
             LeftIsOld, FilesOwned, RowsHaveFiles
    <2> QED  BY <2>2, <2>3
  <1> QED
    BY <1>1, <1>2 DEF MediaInv

LEMMA MediaInvariant == MediaSpec => []MediaInv
  BY InitMedia, NextMedia, PTL DEF MediaSpec

\* However many frames are captured, and however captures, cleanup passes and
\* deletions interleave: as long as nothing fails, no file is left without an
\* owner and no row without its file (capture_frame, _run_profile_cleanup_sync
\* and the deletions order their file operations and commits for this).
THEOREM FramesAccounted == MediaSpec => []MediaAccounted
  <1>1. MediaInv => MediaAccounted
    BY DEF MediaInv, Sound, FilesOwned, RowsHaveFiles, MediaAccounted
  <1> QED  BY <1>1, MediaInvariant, PTL

-----------------------------------------------------------------------------
(* A media tree that is hidden from the sweep *)

\* While the tree has been hidden since the sweep began, every row it looked at
\* is missing, and those it has not looked at are the rest.
HiddenMissesAll ==
    cleanup.hidden => /\ cleanup.pc = "scanning" /\ access # "ok"
                      /\ cleanup.missing \cup cleanup.left = cleanup.seen

HiddenInv == MediaTypeOK /\ FrameNumbered /\ HiddenMissesAll

LEMMA InitHidden == MediaInit => HiddenInv
  BY InitMedia DEF MediaInv, HiddenInv, HiddenMissesAll, MediaInit, CleanupIdle

LEMMA NextHidden == HiddenInv /\ [MediaNext]_mediaVars => HiddenInv'
  <1> SUFFICES ASSUME HiddenInv, [MediaNext]_mediaVars  PROVE HiddenInv'
    OBVIOUS
  <1>t. MediaTypeOK' /\ FrameNumbered'
    BY NextTypes DEF HiddenInv
  <1>c. cleanup \in CleanupRecords
    BY MediaTypes DEF HiddenInv
  <1>h. HiddenMissesAll
    BY DEF HiddenInv
  <1>i. ~CleanupIdle.hidden
    BY DEF CleanupIdle
  <1>1. SUFFICES ASSUME cleanup'.hidden
                 PROVE  /\ cleanup'.pc = "scanning" /\ access' # "ok"
                        /\ cleanup'.missing \cup cleanup'.left = cleanup'.seen
    BY <1>t DEF HiddenInv, HiddenMissesAll
  <1>2. CASE SweepStarts
    <2>1. /\ cleanup'.pc = "scanning" /\ cleanup'.left = rows
          /\ cleanup'.seen = rows /\ cleanup'.missing = {}
          /\ cleanup'.hidden = (access # "ok") /\ access' = access
      BY <1>2, <1>1 DEF SweepStarts, CleanupIdle
    <2> QED  BY <1>1, <2>1
  <1>3. CASE Scans
    <2>1. PICK f \in Oldest(cleanup.left) :
              cleanup' = [cleanup EXCEPT
                  !.left = @ \ {f},
                  !.missing = IF Sees(f) THEN @ ELSE @ \cup {f}]
      BY <1>3 DEF Scans
    <2>2. cleanup'.hidden = cleanup.hidden /\ f \in cleanup.left
      BY <1>c, <2>1 DEF CleanupRecords, Oldest
    <2>3. access # "ok" /\ access' = access /\ cleanup.pc = "scanning"
      BY <1>1, <1>3, <1>h, <2>2 DEF Scans, HiddenMissesAll
    <2>4. /\ cleanup'.left = cleanup.left \ {f}
          /\ cleanup'.missing = cleanup.missing \cup {f}
          /\ cleanup'.seen = cleanup.seen /\ cleanup'.pc = cleanup.pc
      BY <1>c, <2>1, <2>3 DEF CleanupRecords, Sees
    <2>5. cleanup.missing \cup cleanup.left = cleanup.seen
      BY <1>1, <1>h, <2>2 DEF HiddenMissesAll
    <2> QED  BY <2>2, <2>3, <2>4, <2>5
  <1>4. CASE \/ CleanupStarts \/ CommitsOld \/ SweepCommits \/ Tidies \/ MediaCrash
    <2>1. CASE CleanupStarts
      BY <1>1, <2>1 DEF CleanupStarts, CleanupIdle
    <2>2. CASE CommitsOld
      BY <1>1, <2>2 DEF CommitsOld, CleanupIdle
    <2>3. CASE SweepCommits
      BY <1>1, <2>3 DEF SweepCommits, CleanupIdle
    <2>4. CASE Tidies \/ MediaCrash
      BY <1>1, <1>i, <2>4 DEF Tidies, MediaCrash
    <2> QED  BY <1>4, <2>1, <2>2, <2>3, <2>4
  <1>5. CASE UnlinksOld
    <2>1. cleanup'.hidden = cleanup.hidden /\ cleanup.pc = "unlinking"
      BY <1>c, <1>5 DEF UnlinksOld, CleanupRecords
    <2> QED  BY <1>1, <1>h, <2>1 DEF HiddenMissesAll
  <1>6. CASE TreeReturns
    <2>1. ~cleanup'.hidden
      BY <1>c, <1>6 DEF TreeReturns, CleanupRecords
    <2> QED  BY <1>1, <2>1
  <1>7. CASE TreeHidden
    BY <1>1, <1>7, <1>h DEF TreeHidden, HiddenMissesAll
  <1>8. CASE UNCHANGED <<access, cleanup>>
    BY <1>1, <1>8, <1>h DEF HiddenMissesAll
  <1> QED
    BY <1>2, <1>3, <1>4, <1>5, <1>6, <1>7, <1>8
       DEF MediaNext, mediaVars, CaptureStarts, FrameFetched, FrameChecked,
           FrameResized, FrameFiltered, FrameRecorded, CaptureEnds, FramesDeleted,
           FrameUnlinked, OwnerDeleted, TreeRemoved, TimePasses

\* However many frames a profile has, whatever is captured, deleted or crashes
\* meanwhile: a sweep from which the media tree was hidden all along deletes no
\* row of a profile with at least _ORPHAN_SWEEP_MIN_ROWS of them
\* (_collect_orphans takes all rows missing for a tree that is not there).
THEOREM HiddenTreeSpared == MediaSpec => HiddenTreeKeepsRows
  <1>1. ASSUME HiddenInv, SweepCommits, cleanup.hidden,
               Cardinality(cleanup.seen) >= MinRows
        PROVE  rows' = rows
    <2>1. cleanup.missing = cleanup.seen
      BY <1>1 DEF HiddenInv, HiddenMissesAll, SweepCommits
    <2>2. Orphans(cleanup.seen, cleanup.missing) = {}
      BY <1>1, <2>1 DEF Orphans
    <2> QED  BY <1>1, <2>2 DEF SweepCommits
  <1>2. HiddenInv /\ [MediaNext]_mediaVars
            => [SweepCommits /\ cleanup.hidden /\ Cardinality(cleanup.seen) >= MinRows
                    => rows' = rows]_mediaVars
    BY <1>1
  <1> QED
    BY <1>2, InitHidden, NextHidden, PTL DEF MediaSpec, HiddenTreeKeepsRows
=============================================================================
