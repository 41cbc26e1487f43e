--------------------------- MODULE MonitorsProofs ---------------------------
(***************************************************************************)
(* Theorems of the services that watch and report, the capture gap alerts, *)
(* the reachability cache and the storage watchdog, and of the migrations  *)
(* at boot.  They share no state; each part has its own invariant and its  *)
(* own specification.                                                      *)
(***************************************************************************)
EXTENDS CaptureGap, HealthCache, StorageWatchdog, Migrations, TLAPS

-----------------------------------------------------------------------------
(***************************************************************************)
(* One alert per outage, for any number of profiles.                       *)
(*                                                                         *)
(* The mark of an alerted profile is set only after its notification was   *)
(* awaited; the invariant says what stands in for the mark until then: the *)
(* check itself, which is suspended at this very profile.                  *)
(***************************************************************************)

\* The check is suspended in the notification of p.
Notifies(p) == check.pc = "emitting" /\ check.at = p

\* A profile that was alerted since its last frame bears the mark, or is about
\* to be given it.
AlertLeavesMark ==
    \A p \in Watched : alerts[p] > 0 => alerted[p] \/ Notifies(p)

GapInv ==
    /\ GapTypeOK
    /\ AlertLeavesMark
    /\ OneAlertPerOutage

-----------------------------------------------------------------------------

LEMMA InitGap == GapInit => GapInv
  <1> SUFFICES ASSUME GapInit  PROVE GapInv
    OBVIOUS
  <1> USE CaptureGapAssumption
  <1>1. /\ alerted \in [Watched -> BOOLEAN] /\ alerts \in [Watched -> Nat]
        /\ watching \in [Watched -> BOOLEAN] /\ windowOpen \in [Watched -> BOOLEAN]
        /\ lastFrame \in [Watched -> Ages] /\ openSince \in [Watched -> Ages]
    BY DEF GapInit, Ages
  <1>2. check \in [pc : {"idle", "profiles", "emitting"}, todo : SUBSET Watched,
                   seen : [Watched -> Ages], at : Watched \cup {-1}]
    BY DEF GapInit, CheckIdle, Ages
  <1>3. gapJob \in BOOLEAN /\ boots \in 0 .. MaxBoots /\ droughts \in 0 .. MaxDroughts
    BY DEF GapInit
  <1>4. AlertLeavesMark /\ OneAlertPerOutage
    BY DEF GapInit, AlertLeavesMark, OneAlertPerOutage
  <1> QED
    BY <1>1, <1>2, <1>3, <1>4 DEF GapInv, GapTypeOK

\* The look at one profile: if it raises the alarm, the profile had no mark, so
\* it had not been alerted either, and the check is now suspended at it.
LEMMA LookAlertsOnce ==
  ASSUME GapInv, check.pc = "profiles", NEW p \in check.todo, LooksAt(p)
  PROVE  GapInv'
  <1>1. p \in Watched
    BY DEF GapInv, GapTypeOK
  <1>2. /\ openSince' \in [Watched -> Ages]
        /\ UNCHANGED <<watching, lastFrame, windowOpen, alerted, gapJob, boots,
                       droughts>>
    BY <1>1 DEF LooksAt, MarkerAfter, GapInv, GapTypeOK, Ages
  <1>3. CASE Alarms(p)
    <2>1. /\ alerts' = [alerts EXCEPT ![p] = @ + 1]
          /\ check' = [check EXCEPT !.todo = @ \ {p}, !.pc = "emitting", !.at = p]
          /\ ~alerted[p]
      BY <1>3 DEF LooksAt, Alarms
    <2>2. GapTypeOK'
      <3>1. alerts' \in [Watched -> Nat]
        BY <2>1 DEF GapInv, GapTypeOK
      <3>2. check' \in [pc : {"idle", "profiles", "emitting"},
                        todo : SUBSET Watched, seen : [Watched -> Ages],
                        at : Watched \cup {-1}]
        BY <1>1, <2>1 DEF GapInv, GapTypeOK
      <3> QED
        BY <1>2, <3>1, <3>2 DEF GapInv, GapTypeOK
    <2>3. alerts[p] = 0
      BY <1>1, <2>1 DEF GapInv, GapTypeOK, AlertLeavesMark, Notifies
    <2>4. AlertLeavesMark' /\ OneAlertPerOutage'
      BY <1>1, <1>2, <2>1, <2>3
         DEF GapInv, GapTypeOK, AlertLeavesMark, OneAlertPerOutage, Notifies
    <2> QED  BY <2>2, <2>4 DEF GapInv
  <1>4. CASE ~Alarms(p)
    <2>1. /\ alerts' = alerts
          /\ check' = [check EXCEPT !.todo = @ \ {p}, !.pc = "profiles", !.at = -1]
      BY <1>4 DEF LooksAt
    <2>2. GapTypeOK'
      BY <1>1, <1>2, <2>1 DEF GapInv, GapTypeOK
    <2>3. AlertLeavesMark' /\ OneAlertPerOutage'
      BY <1>2, <2>1 DEF GapInv, AlertLeavesMark, OneAlertPerOutage, Notifies
    <2> QED  BY <2>2, <2>3 DEF GapInv
  <1> QED  BY <1>3, <1>4

LEMMA NextGap == GapInv /\ [GapNext]_gapVars => GapInv'
  <1> SUFFICES ASSUME GapInv, [GapNext]_gapVars
               PROVE  GapInv'
    OBVIOUS
  <1> USE CaptureGapAssumption
  <1>1. CASE GapCheckStarts
    BY <1>1 DEF GapCheckStarts, GapInv, GapTypeOK, AlertLeavesMark, Notifies,
       OneAlertPerOutage
  <1>2. CASE GapLook
    BY <1>2, LookAlertsOnce DEF GapLook
  <1>3. CASE GapAlerted
    <2>1. /\ check.pc = "emitting"
          /\ alerted' = [alerted EXCEPT ![check.at] = TRUE]
          /\ check' = [check EXCEPT !.pc = "profiles", !.at = -1]
          /\ UNCHANGED <<watching, lastFrame, windowOpen, openSince, gapJob,
                         alerts, boots, droughts>>
      BY <1>3 DEF GapAlerted
    <2>2. GapTypeOK'
      BY <2>1 DEF GapInv, GapTypeOK
    <2>3. AlertLeavesMark'
      BY <2>1 DEF GapInv, GapTypeOK, AlertLeavesMark, Notifies
    <2> QED
      BY <2>1, <2>2, <2>3 DEF GapInv, OneAlertPerOutage
  <1>4. CASE GapCheckEnds
    BY <1>4 DEF GapCheckEnds, CheckIdle, Ages, GapInv, GapTypeOK, AlertLeavesMark,
       Notifies, OneAlertPerOutage
  <1>5. ASSUME NEW p \in Watched, FrameCaptured(p)
        PROVE  GapInv'
    <2>1. /\ lastFrame' = [lastFrame EXCEPT ![p] = "recent"]
          /\ alerted' = [alerted EXCEPT ![p] = FALSE]
          /\ alerts' = [alerts EXCEPT ![p] = 0]
          /\ UNCHANGED <<watching, windowOpen, openSince, gapJob, check, boots,
                         droughts>>
      BY <1>5 DEF FrameCaptured
    <2>2. GapTypeOK'
      BY <2>1 DEF GapInv, GapTypeOK, Ages
    <2>3. AlertLeavesMark' /\ OneAlertPerOutage'
      BY <2>1 DEF GapInv, GapTypeOK, AlertLeavesMark, OneAlertPerOutage, Notifies
    <2> QED  BY <2>2, <2>3 DEF GapInv
  <1>6. ASSUME NEW p \in Watched,
               WatchToggled(p) \/ FrameAges(p) \/ GraceEnds(p) \/ WindowTurns(p)
        PROVE  GapInv'
    <2>1. UNCHANGED <<alerted, check, alerts>>
      BY <1>6 DEF WatchToggled, FrameAges, GraceEnds, WindowTurns
    <2>2. GapTypeOK'
      <3>1. CASE WatchToggled(p)
        BY <3>1 DEF WatchToggled, GapInv, GapTypeOK
      <3>2. CASE FrameAges(p)
        BY <3>2 DEF FrameAges, GapInv, GapTypeOK, Ages
      <3>3. CASE GraceEnds(p)
        BY <3>3 DEF GraceEnds, GapInv, GapTypeOK, Ages
      <3>4. CASE WindowTurns(p)
        BY <3>4 DEF WindowTurns, GapInv, GapTypeOK
      <3> QED  BY <1>6, <3>1, <3>2, <3>3, <3>4
    <2> QED
      BY <2>1, <2>2 DEF GapInv, AlertLeavesMark, OneAlertPerOutage, Notifies
  <1>7. CASE GapToggled
    BY <1>7 DEF GapToggled, GapInv, GapTypeOK, AlertLeavesMark, Notifies,
       OneAlertPerOutage
  <1>8. CASE GapRestarts
    <2>1. /\ openSince' = [p \in Watched |-> "none"]
          /\ alerted' = [p \in Watched |-> FALSE]
          /\ alerts' = [p \in Watched |-> 0]
          /\ check' = CheckIdle
          /\ boots' \in 0 .. MaxBoots
          /\ UNCHANGED <<watching, lastFrame, windowOpen, gapJob, droughts>>
      BY <1>8 DEF GapRestarts, GapInv, GapTypeOK
    <2>2. check' \in [pc : {"idle", "profiles", "emitting"}, todo : SUBSET Watched,
                      seen : [Watched -> Ages], at : Watched \cup {-1}]
      BY <2>1 DEF CheckIdle, Ages
    <2>3. GapTypeOK'
      BY <2>1, <2>2 DEF GapInv, GapTypeOK, Ages
    <2>4. AlertLeavesMark' /\ OneAlertPerOutage'
      BY <2>1 DEF AlertLeavesMark, OneAlertPerOutage
    <2> QED  BY <2>3, <2>4 DEF GapInv
  <1>9. CASE UNCHANGED gapVars
    BY <1>9 DEF gapVars, GapInv, GapTypeOK, AlertLeavesMark, Notifies,
       OneAlertPerOutage
  <1> QED
    BY <1>1, <1>2, <1>3, <1>4, <1>5, <1>6, <1>7, <1>8, <1>9 DEF GapNext

LEMMA GapInvariant == GapSpec => []GapInv
  BY InitGap, NextGap, PTL DEF GapSpec

\* However many profiles are watched, each is alerted at most once between two
\* of its frames, a frame that arrives while the alert is sent included
\* (check_capture_gaps; capture_profile re-arms).
THEOREM AlertedOnce == GapSpec => []OneAlertPerOutage
  <1>1. GapInv => OneAlertPerOutage
    BY DEF GapInv
  <1> QED  BY <1>1, GapInvariant, PTL

-----------------------------------------------------------------------------
(***************************************************************************)
(* No outdated answer outlives its time to live, for any number of page    *)
(* loads and saves.                                                        *)
(*                                                                         *)
(* A probe that began before its configuration was replaced may store its  *)
(* answer after the save dropped the cache.  What bounds the damage is the *)
(* date: the answer is dated when the probe began, and that is not after   *)
(* the replacement.                                                        *)
(***************************************************************************)

\* A stamp is dated while its configuration was the saved one.
DatedInTime(stamp) == stamp.config \in Configs => stamp.ts <= replaced[stamp.config]

NotReplacedYet == \A c \in Configs : c >= saved => replaced[c] = MaxTime + 1

StampsDated ==
    /\ DatedInTime(entry)
    /\ \A r \in Readers : DatedInTime(reader[r])

\* No time passes between reading the configuration and the look at the cache,
\* and a probe ends within its limit.
ProbesInTime ==
    \A r \in Readers :
        /\ reader[r].pc = "look" => reader[r].ts = clock
        /\ reader[r].pc = "probing" => clock <= reader[r].ts + ProbeLimit

StampsNotAhead ==
    /\ entry.ts <= clock /\ badge.ts <= clock
    /\ \A r \in Readers : reader[r].ts <= clock

HealthInv ==
    /\ HealthTypeOK
    /\ NotReplacedYet
    /\ StampsDated
    /\ ProbesInTime
    /\ StampsNotAhead
    /\ StaleNoLongerThanTTL

-----------------------------------------------------------------------------

LEMMA InitHealth == HealthInit => HealthInv
  <1> SUFFICES ASSUME HealthInit  PROVE HealthInv
    OBVIOUS
  <1> USE HealthCacheAssumption
  <1>1. HealthTypeOK
    <2>1. complete \in BOOLEAN /\ saving \in BOOLEAN
      BY DEF HealthInit
    <2>2. clock = 0 /\ saved = 0 /\ saved \in Configs
      BY DEF HealthInit, Configs
    <2>3. replaced \in [Configs -> 0 .. MaxTime + 1]
      BY DEF HealthInit
    <2>4. entry \in Stamps /\ badge \in Stamps
      BY DEF HealthInit, Stamps, Absent
    <2>5. reader \in [Readers -> [pc : {"idle", "look", "probing"},
                                 config : -1 .. MaxSaves, ts : -1 .. MaxTime]]
      BY DEF HealthInit, ReaderIdle
    <2> QED
      BY <2>1, <2>2, <2>3, <2>4, <2>5 DEF HealthTypeOK
  <1>2. NotReplacedYet /\ StampsDated /\ ProbesInTime /\ StampsNotAhead
    BY DEF HealthInit, NotReplacedYet, StampsDated, DatedInTime, ProbesInTime,
           StampsNotAhead, Configs, Absent, ReaderIdle
  <1>3. StaleNoLongerThanTTL
    BY DEF HealthInit, StaleNoLongerThanTTL, Absent
  <1> QED
    BY <1>1, <1>2, <1>3 DEF HealthInv

\* An answer dated before its configuration was replaced, and given out within
\* the time to live of that date, is not too old.
LEMMA ShownInTime ==
  ASSUME HealthInv, NEW stamp \in Stamps, DatedInTime(stamp),
         clock < stamp.ts + TTL, Shows(stamp.config),
         UNCHANGED <<clock, replaced>>
  PROVE  /\ badge' \in Stamps /\ badge'.ts <= clock
         /\ StaleNoLongerThanTTL'
  <1> USE HealthCacheAssumption
  <1>1. /\ badge'.ts = clock /\ badge'.config = stamp.config
        /\ badge' \in Stamps
        /\ clock \in 0 .. MaxTime /\ stamp.ts \in Int
    BY DEF Shows, HealthInv, HealthTypeOK, Stamps
  <1>2. SUFFICES ASSUME stamp.config >= 0
                 PROVE  clock < replaced[stamp.config] + TTL
    BY <1>1 DEF StaleNoLongerThanTTL
  <1>3. stamp.config \in Configs
    BY <1>2 DEF Stamps, Configs
  <1>4. replaced[stamp.config] \in Int
    BY <1>3 DEF HealthInv, HealthTypeOK
  <1> QED
    BY <1>1, <1>3, <1>4 DEF DatedInTime

LEMMA NextHealth == HealthInv /\ [HealthNext]_healthVars => HealthInv'
  <1> SUFFICES ASSUME HealthInv, [HealthNext]_healthVars
               PROVE  HealthInv'
    OBVIOUS
  <1> USE HealthCacheAssumption
  <1>1. ASSUME NEW r \in Readers, ReadConfig(r)
        PROVE  HealthInv'
    <2>1. reader' = [reader EXCEPT ![r] = [pc |-> "look", config |-> saved,
                                           ts |-> clock]]
      BY <1>1 DEF ReadConfig
    <2>2. UNCHANGED <<clock, saved, complete, replaced, entry, saving, badge>>
      BY <1>1 DEF ReadConfig
    <2>3. HealthTypeOK'
      BY <2>1, <2>2 DEF HealthInv, HealthTypeOK, Configs, Stamps
    <2>4. NotReplacedYet' /\ StaleNoLongerThanTTL'
      BY <2>2 DEF HealthInv, NotReplacedYet, StaleNoLongerThanTTL
    <2>5. StampsDated'
      BY <2>1, <2>2
         DEF HealthInv, HealthTypeOK, NotReplacedYet, StampsDated, DatedInTime,
             Configs
    <2>6. ProbesInTime' /\ StampsNotAhead'
      BY <2>1, <2>2 DEF HealthInv, HealthTypeOK, ProbesInTime, StampsNotAhead
    <2> QED
      BY <2>3, <2>4, <2>5, <2>6 DEF HealthInv
  <1>2. ASSUME NEW r \in Readers, LookUp(r)
        PROVE  HealthInv'
    <2>1. UNCHANGED <<clock, saved, complete, replaced, entry, saving>>
      BY <1>2 DEF LookUp
    <2>2. /\ badge' \in Stamps /\ badge'.ts <= clock
          /\ StaleNoLongerThanTTL'
      <3>1. CASE Fresh(entry)
        <4>1. Shows(entry.config)
          BY <1>2, <3>1 DEF LookUp
        <4>2. entry \in Stamps /\ clock \in Int /\ entry.ts \in Int
          BY DEF HealthInv, HealthTypeOK, Stamps
        <4>3. clock < entry.ts + TTL
          BY <3>1, <4>2 DEF Fresh
        <4> QED
          BY <2>1, <4>1, <4>2, <4>3, ShownInTime DEF HealthInv, StampsDated
      <3>2. CASE ~Fresh(entry)
        BY <1>2, <2>1, <3>2
           DEF LookUp, HealthInv, HealthTypeOK, StampsNotAhead, StaleNoLongerThanTTL
      <3> QED  BY <3>1, <3>2
    <2>3. \/ reader' = [reader EXCEPT ![r] = ReaderIdle]
          \/ reader' = [reader EXCEPT ![r].pc = "probing"]
      BY <1>2 DEF LookUp
    <2>4. HealthTypeOK'
      BY <2>1, <2>2, <2>3 DEF HealthInv, HealthTypeOK, ReaderIdle
    <2>5. NotReplacedYet'
      BY <2>1 DEF HealthInv, NotReplacedYet
    <2>6. StampsDated'
      <3>1. CASE reader' = [reader EXCEPT ![r] = ReaderIdle]
        BY <2>1, <3>1
           DEF HealthInv, HealthTypeOK, StampsDated, DatedInTime, ReaderIdle, Configs
      <3>2. CASE reader' = [reader EXCEPT ![r].pc = "probing"]
        <4>1. \A q \in Readers : /\ reader'[q].ts = reader[q].ts
                                /\ reader'[q].config = reader[q].config
          BY <3>2 DEF HealthInv, HealthTypeOK
        <4> QED
          BY <2>1, <4>1 DEF HealthInv, StampsDated, DatedInTime
      <3> QED  BY <2>3, <3>1, <3>2
    <2>7. ProbesInTime'
      BY <1>2, <2>1, <2>3
         DEF LookUp, HealthInv, HealthTypeOK, ProbesInTime, ReaderIdle
    <2>8. StampsNotAhead'
      BY <2>1, <2>2, <2>3 DEF HealthInv, HealthTypeOK, StampsNotAhead, ReaderIdle
    <2> QED
      BY <2>2, <2>4, <2>5, <2>6, <2>7, <2>8 DEF HealthInv
  <1>3. ASSUME NEW r \in Readers, Probed(r)
        PROVE  HealthInv'
    <2>1. /\ UNCHANGED <<clock, saved, complete, replaced, saving>>
          /\ reader[r].pc = "probing"
          /\ entry' = [ts |-> reader[r].ts, config |-> reader[r].config]
          /\ reader' = [reader EXCEPT ![r] = ReaderIdle]
      BY <1>3 DEF Probed, StoredAs
    <2>2. /\ entry' \in Stamps
          /\ entry'.ts = reader[r].ts /\ entry'.config = reader[r].config
          /\ clock \in Int /\ entry'.ts \in Int
      BY <2>1 DEF HealthInv, HealthTypeOK, Stamps
    <2>3. DatedInTime(entry')
      BY <2>2 DEF HealthInv, StampsDated, DatedInTime
    <2>4. Shows(entry'.config)
      BY <1>3, <2>2 DEF Probed
    <2>5. clock < entry'.ts + TTL
      BY <2>1, <2>2 DEF HealthInv, ProbesInTime
    <2>6. /\ badge' \in Stamps /\ badge'.ts <= clock
          /\ StaleNoLongerThanTTL'
      BY <2>1, <2>2, <2>3, <2>4, <2>5, ShownInTime
    <2>7. HealthTypeOK'
      BY <2>1, <2>2, <2>6 DEF HealthInv, HealthTypeOK, ReaderIdle
    <2>8. NotReplacedYet'
      BY <2>1 DEF HealthInv, NotReplacedYet
    <2>9. StampsDated'
      BY <2>1, <2>3
         DEF HealthInv, HealthTypeOK, StampsDated, DatedInTime, ReaderIdle, Configs
    <2>10. ProbesInTime' /\ StampsNotAhead'
      BY <2>1, <2>2, <2>6
         DEF HealthInv, HealthTypeOK, ProbesInTime, StampsNotAhead, ReaderIdle
    <2> QED
      BY <2>6, <2>7, <2>8, <2>9, <2>10 DEF HealthInv
  <1>4. CASE Peek
    <2>1. UNCHANGED <<clock, saved, complete, replaced, entry, reader, saving>>
      BY <1>4 DEF Peek
    <2>2. Shows(entry.config)
      BY <1>4 DEF Peek
    <2>3. entry \in Stamps /\ clock \in Int /\ entry.ts \in Int
      BY DEF HealthInv, HealthTypeOK, Stamps
    <2>4. clock < entry.ts + TTL
      BY <1>4, <2>3 DEF Peek, Fresh
    <2>5. /\ badge' \in Stamps /\ badge'.ts <= clock
          /\ StaleNoLongerThanTTL'
      BY <2>1, <2>2, <2>3, <2>4, ShownInTime DEF HealthInv, StampsDated
    <2> QED
      BY <2>1, <2>5
         DEF HealthInv, HealthTypeOK, NotReplacedYet, StampsDated, DatedInTime,
             ProbesInTime, StampsNotAhead
  <1>5. CASE SaveCommits
    <2>1. /\ saved < MaxSaves /\ saved' = saved + 1
          /\ complete' \in BOOLEAN /\ saving' \in BOOLEAN
          /\ replaced' = [replaced EXCEPT ![saved] = clock]
          /\ UNCHANGED <<clock, entry, reader, badge>>
      BY <1>5 DEF SaveCommits
    <2>2. saved \in Configs /\ clock \in 0 .. MaxTime /\ MaxSaves \in Nat
      BY DEF HealthInv, HealthTypeOK
    <2>3. HealthTypeOK'
      <3>1. saved' \in Configs
        BY <2>1, <2>2 DEF Configs
      <3>2. replaced' \in [Configs -> 0 .. MaxTime + 1]
        BY <2>1, <2>2 DEF HealthInv, HealthTypeOK
      <3>3. clock' \in 0 .. MaxTime /\ entry' \in Stamps /\ badge' \in Stamps
        BY <2>1 DEF HealthInv, HealthTypeOK
      <3>4. reader' \in [Readers -> [pc : {"idle", "look", "probing"},
                                    config : -1 .. MaxSaves, ts : -1 .. MaxTime]]
        BY <2>1 DEF HealthInv, HealthTypeOK
      <3>5. complete' \in BOOLEAN /\ saving' \in BOOLEAN
        BY <2>1
      <3> QED
        BY <3>1, <3>2, <3>3, <3>4, <3>5 DEF HealthTypeOK
    <2>4. NotReplacedYet'
      BY <2>1, <2>2 DEF HealthInv, HealthTypeOK, NotReplacedYet, Configs
    <2>5. \A c \in Configs : replaced'[c] = IF c = saved THEN clock ELSE replaced[c]
      BY <2>1 DEF HealthInv, HealthTypeOK
    <2>6. StampsDated'
      BY <2>1, <2>5 DEF HealthInv, StampsDated, DatedInTime, StampsNotAhead
    <2>7. ProbesInTime' /\ StampsNotAhead'
      BY <2>1 DEF HealthInv, ProbesInTime, StampsNotAhead
    <2>8. StaleNoLongerThanTTL'
      BY <2>1, <2>2, <2>5
         DEF HealthInv, HealthTypeOK, Stamps, Configs, StampsNotAhead,
             StaleNoLongerThanTTL
    <2> QED
      BY <2>3, <2>4, <2>6, <2>7, <2>8 DEF HealthInv
  <1>6. CASE Invalidate
    <2>1. /\ saving' = FALSE /\ entry' = Absent
          /\ UNCHANGED <<clock, saved, complete, replaced, reader, badge>>
      BY <1>6 DEF Invalidate
    <2>2. HealthTypeOK'
      <3>1. complete' \in BOOLEAN /\ saving' \in BOOLEAN
        BY <2>1 DEF HealthInv, HealthTypeOK
      <3>2. entry' \in Stamps
        BY <2>1 DEF Stamps, Absent
      <3> QED
        BY <2>1, <3>1, <3>2 DEF HealthInv, HealthTypeOK
    <2>3. StampsDated' /\ StampsNotAhead'
      BY <2>1
         DEF HealthInv, HealthTypeOK, StampsDated, DatedInTime, StampsNotAhead,
             Configs, Absent
    <2> QED
      BY <2>1, <2>2, <2>3
         DEF HealthInv, NotReplacedYet, ProbesInTime, StaleNoLongerThanTTL
  <1>7. CASE Tick
    <2>1. /\ clock < MaxTime /\ clock' = clock + 1
          /\ \A r \in Readers : reader[r].pc # "look"
          /\ \A r \in Readers :
                 reader[r].pc = "probing" => clock - reader[r].ts < ProbeLimit
          /\ UNCHANGED <<saved, complete, replaced, entry, reader, saving, badge>>
      BY <1>7 DEF Tick, LoopBusy
    <2>2. HealthTypeOK'
      BY <2>1 DEF HealthInv, HealthTypeOK
    <2>3. ProbesInTime' /\ StampsNotAhead'
      BY <2>1
         DEF HealthInv, HealthTypeOK, Stamps, ProbesInTime, StampsNotAhead
    <2> QED
      BY <2>1, <2>2, <2>3
         DEF HealthInv, NotReplacedYet, StampsDated, DatedInTime,
             StaleNoLongerThanTTL
  <1>8. CASE UNCHANGED healthVars
    BY <1>8
       DEF healthVars, HealthInv, HealthTypeOK, NotReplacedYet, StampsDated,
           DatedInTime, ProbesInTime, StampsNotAhead, StaleNoLongerThanTTL
  <1> QED
    BY <1>1, <1>2, <1>3, <1>4, <1>5, <1>6, <1>7, <1>8 DEF HealthNext

LEMMA HealthInvariant == HealthSpec => []HealthInv
  BY InitHealth, NextHealth, PTL DEF HealthSpec

\* Whatever page loads and saves overlap, an answer that was obtained with a
\* configuration that has been replaced is shown for less than the time to live
\* after the replacement (reachable stores what a late probe brings).
THEOREM StaleAnswersExpire == HealthSpec => []StaleNoLongerThanTTL
  <1>1. HealthInv => StaleNoLongerThanTTL
    BY DEF HealthInv
  <1> QED  BY <1>1, HealthInvariant, PTL

-----------------------------------------------------------------------------
(***************************************************************************)
(* The storage watchdog gives the process up for good reason only, for     *)
(* every threshold and every number of faults.                             *)
(*                                                                         *)
(* The invariant ties the counter of the code to the record of the         *)
(* refusals, and says when a fault of the volume can still cost a probe    *)
(* after it is over: as long as a connection that was opened during it is  *)
(* in the pool and no probe has met it.                                    *)
(***************************************************************************)

\* The failed probe that is yet to be counted
Uncounted == IF probe = "refused" THEN 1 ELSE 0

CountsRefusals == failures + Uncounted = Refusals

UpBelowThreshold ==
    /\ process = "up" => failures < FailureThreshold
    /\ process = "exited" => failures = FailureThreshold /\ probe = "idle"

\* The volume is bad, or a bad connection waits for a probe.
FaultOwed == storage # "ok" \/ (poisoned /\ probe # "refused")

PoolWithinOutages ==
    /\ FaultOwed => refusals["pool"] <= outages - 1
    /\ refusals["pool"] <= outages

WatchdogInv ==
    /\ WatchdogTypeOK
    /\ CountsRefusals
    /\ UpBelowThreshold
    /\ PoolWithinOutages

-----------------------------------------------------------------------------

LEMMA NothingRefused ==
  ASSUME NEW r, r = NoRefusals
  PROVE  /\ r \in [{"volume", "pool"} -> Nat]
         /\ r["volume"] = 0 /\ r["pool"] = 0
  BY DEF NoRefusals

LEMMA InitWatchdog == WatchdogInit => WatchdogInv
  <1> SUFFICES ASSUME WatchdogInit  PROVE WatchdogInv
    OBVIOUS
  <1> USE StorageWatchdogAssumption
  <1>1. /\ refusals \in [{"volume", "pool"} -> Nat]
        /\ refusals["volume"] = 0 /\ refusals["pool"] = 0
    BY NothingRefused DEF WatchdogInit
  <1>2. /\ storage = "ok" /\ probe = "idle" /\ process = "up"
        /\ failures = 0 /\ outages = 0
        /\ poisoned \in BOOLEAN /\ ~poisoned
    BY DEF WatchdogInit
  <1>3. WatchdogTypeOK
    BY <1>1, <1>2 DEF WatchdogTypeOK
  <1>4. CountsRefusals /\ UpBelowThreshold /\ PoolWithinOutages
    BY <1>1, <1>2
       DEF CountsRefusals, Uncounted, UpBelowThreshold, FaultOwed, PoolWithinOutages,
           Refusals
  <1> QED
    BY <1>3, <1>4 DEF WatchdogInv

\* What a refusal does to the record of its cause.
LEMMA RefusedCounts ==
  ASSUME NEW cause \in {"volume", "pool"}, Refused(cause),
         refusals \in [{"volume", "pool"} -> Nat]
  PROVE  /\ probe' = "refused"
         /\ refusals' \in [{"volume", "pool"} -> Nat]
         /\ Refusals' = Refusals + 1
         /\ refusals'["pool"] = refusals["pool"] + (IF cause = "pool" THEN 1 ELSE 0)
  BY DEF Refused, Refusals

LEMMA NextWatchdog == WatchdogInv /\ [WatchdogNext]_watchdogVars => WatchdogInv'
  <1> SUFFICES ASSUME WatchdogInv, [WatchdogNext]_watchdogVars
               PROVE  WatchdogInv'
    OBVIOUS
  <1> USE StorageWatchdogAssumption
  <1>0. /\ refusals \in [{"volume", "pool"} -> Nat]
        /\ failures \in Nat /\ outages \in Nat
    BY DEF WatchdogInv, WatchdogTypeOK
  <1>1. CASE VolumeFails
    BY <1>0, <1>1 DEF VolumeFails, WatchdogInv, WatchdogTypeOK, CountsRefusals,
       Uncounted, UpBelowThreshold, FaultOwed, PoolWithinOutages, Refusals
  <1>2. CASE VolumeRecovers
    BY <1>0, <1>2 DEF VolumeRecovers, WatchdogInv, WatchdogTypeOK, CountsRefusals,
       Uncounted, UpBelowThreshold, FaultOwed, PoolWithinOutages, Refusals
  <1>3. CASE ConnectionOpens
    BY <1>0, <1>3 DEF ConnectionOpens, WatchdogInv, WatchdogTypeOK, CountsRefusals,
       Uncounted, UpBelowThreshold, FaultOwed, PoolWithinOutages, Refusals
  <1>4. CASE ProbeStarts
    BY <1>0, <1>4 DEF ProbeStarts, WatchdogInv, WatchdogTypeOK, CountsRefusals,
       Uncounted, UpBelowThreshold, FaultOwed, PoolWithinOutages, Refusals
  <1>5. CASE ProbeDatabase
    <2>1. CASE storage # "ok" /\ Refused("volume")
      BY <1>0, <1>5, <2>1, RefusedCounts
         DEF ProbeDatabase, WatchdogInv, WatchdogTypeOK, CountsRefusals, Uncounted,
             UpBelowThreshold, FaultOwed, PoolWithinOutages
    <2>2. CASE storage = "ok" /\ poisoned /\ Refused("pool")
      BY <1>0, <1>5, <2>2, RefusedCounts
         DEF ProbeDatabase, WatchdogInv, WatchdogTypeOK, CountsRefusals, Uncounted,
             UpBelowThreshold, FaultOwed, PoolWithinOutages
    <2>3. CASE storage = "ok" /\ probe' = "directory" /\ UNCHANGED refusals
      BY <1>0, <1>5, <2>3
         DEF ProbeDatabase, WatchdogInv, WatchdogTypeOK, CountsRefusals, Uncounted,
             UpBelowThreshold, FaultOwed, PoolWithinOutages, Refusals
    <2> QED  BY <1>5, <2>1, <2>2, <2>3 DEF ProbeDatabase
  <1>6. CASE ProbeDirectory
    <2>1. CASE storage # "ok" /\ Refused("volume")
      BY <1>0, <1>6, <2>1, RefusedCounts
         DEF ProbeDirectory, WatchdogInv, WatchdogTypeOK, CountsRefusals, Uncounted,
             UpBelowThreshold, FaultOwed, PoolWithinOutages
    <2>2. CASE storage = "ok" /\ probe' = "written" /\ UNCHANGED refusals
      BY <1>0, <1>6, <2>2
         DEF ProbeDirectory, WatchdogInv, WatchdogTypeOK, CountsRefusals, Uncounted,
             UpBelowThreshold, FaultOwed, PoolWithinOutages, Refusals
    <2> QED  BY <1>6, <2>1, <2>2 DEF ProbeDirectory
  <1>7. CASE ProbeSucceeds
    <2>1. /\ refusals' \in [{"volume", "pool"} -> Nat]
          /\ refusals'["volume"] = 0 /\ refusals'["pool"] = 0
      BY <1>7, NothingRefused DEF ProbeSucceeds
    <2>2. /\ probe = "written" /\ probe' = "idle"
          /\ process = "up" /\ failures' = 0
          /\ UNCHANGED <<storage, poisoned, process, outages>>
      BY <1>7 DEF ProbeSucceeds, Recovered
    <2>3. WatchdogTypeOK'
      BY <2>1, <2>2 DEF WatchdogInv, WatchdogTypeOK
    <2>4. CountsRefusals' /\ UpBelowThreshold'
      BY <1>0, <2>1, <2>2
         DEF CountsRefusals, Uncounted, UpBelowThreshold, Refusals
    <2>5. FaultOwed' => FaultOwed
      BY <2>2 DEF FaultOwed
    <2>6. PoolWithinOutages'
      <3>1. outages' = outages /\ outages \in Nat /\ (FaultOwed => 1 <= outages)
        BY <1>0, <2>2 DEF WatchdogInv, WatchdogTypeOK, PoolWithinOutages
      <3> QED  BY <2>1, <2>5, <3>1 DEF PoolWithinOutages
    <2> QED
      BY <2>3, <2>4, <2>6 DEF WatchdogInv
  <1>8. CASE ProbeFails
    <2>1. /\ probe = "refused" /\ probe' = "idle" /\ failures' = failures + 1
          /\ process = "up"
          /\ process' = (IF failures' >= FailureThreshold THEN "exited" ELSE "up")
          /\ UNCHANGED <<storage, outages, refusals>>
          /\ poisoned' \in BOOLEAN /\ ~poisoned'
      BY <1>8 DEF ProbeFails
    <2>2. failures < FailureThreshold
      BY <2>1 DEF WatchdogInv, UpBelowThreshold
    <2>3. WatchdogTypeOK'
      BY <1>0, <2>1, <2>2 DEF WatchdogInv, WatchdogTypeOK
    <2>4. CountsRefusals' /\ UpBelowThreshold'
      BY <1>0, <2>1, <2>2
         DEF WatchdogInv, CountsRefusals, Uncounted, UpBelowThreshold, Refusals
    <2>5. PoolWithinOutages'
      BY <2>1 DEF WatchdogInv, PoolWithinOutages, FaultOwed
    <2> QED
      BY <2>3, <2>4, <2>5 DEF WatchdogInv
  <1>9. CASE ContainerStarts
    <2>1. /\ refusals' \in [{"volume", "pool"} -> Nat]
          /\ refusals'["volume"] = 0 /\ refusals'["pool"] = 0
      BY <1>9, NothingRefused DEF ContainerStarts
    <2>2. /\ probe' = "idle" /\ process' = "up" /\ failures' = 0
          /\ storage' = (IF storage = "foreign" THEN "ok" ELSE storage)
          /\ outages' = outages
          /\ poisoned' \in BOOLEAN /\ ~poisoned'
      BY <1>9 DEF ContainerStarts
    <2>3. WatchdogTypeOK'
      BY <2>1, <2>2 DEF WatchdogInv, WatchdogTypeOK
    <2>4. CountsRefusals' /\ UpBelowThreshold' /\ PoolWithinOutages'
      BY <1>0, <2>1, <2>2
         DEF WatchdogInv, CountsRefusals, Uncounted, UpBelowThreshold, FaultOwed,
             PoolWithinOutages, Refusals
    <2> QED
      BY <2>3, <2>4 DEF WatchdogInv
  <1>10. CASE UNCHANGED watchdogVars
    BY <1>10 DEF watchdogVars, WatchdogInv, WatchdogTypeOK, CountsRefusals,
       Uncounted, UpBelowThreshold, FaultOwed, PoolWithinOutages, Refusals
  <1> QED
    BY <1>1, <1>2, <1>3, <1>4, <1>5, <1>6, <1>7, <1>8, <1>9, <1>10 DEF WatchdogNext

LEMMA WatchdogInvariant == WatchdogSpec => []WatchdogInv
  BY InitWatchdog, NextWatchdog, PTL DEF WatchdogSpec

\* Every variable of the watchdog keeps to its type.
THEOREM WatchdogTypes == WatchdogSpec => []WatchdogTypeOK
  <1>1. WatchdogInv => WatchdogTypeOK
    BY DEF WatchdogInv
  <1> QED  BY <1>1, WatchdogInvariant, PTL

\* Whatever the threshold and however many faults there are, the process exits
\* only when that many probes failed since the last one that wrote, and the
\* connections an outage left behind fail one of them at most
\* (check_storage_writable drops the pool at every failure).
THEOREM ExitsForGoodReason == WatchdogSpec => []ExitNeedsRefusals
  <1>1. WatchdogInv => ExitNeedsRefusals
    BY StorageWatchdogAssumption
       DEF WatchdogInv, WatchdogTypeOK, CountsRefusals, Uncounted, UpBelowThreshold,
           PoolWithinOutages, ExitNeedsRefusals, Refusals
  <1> QED  BY <1>1, WatchdogInvariant, PTL

-----------------------------------------------------------------------------
(***************************************************************************)
(* A recorded migration has taken effect in full, for any list of files    *)
(* and any number of boots cut off.                                        *)
(*                                                                         *)
(* The invariant describes the database twice: as a crash would leave it   *)
(* and as the connection sees it.  They agree while no transaction is      *)
(* open, and then the file under way has executed nothing but definitions  *)
(* of objects.                                                             *)
(***************************************************************************)

Kind(s) == Files[s[1]][s[2]]

\* The statements of the file under way that have been executed
Executed == {s \in Statements : boot.pc = "running" /\ s[1] = boot.file /\ s[2] < boot.at}

\* A statement that was executed, or whose file is recorded, took effect once;
\* of the others, only a definition may have taken effect, in an earlier boot.
Consistent(db, done) ==
    \A s \in Statements :
        /\ s[1] \in db.recorded \/ s \in done => db.effects[s] = 1
        /\ ~(s[1] \in db.recorded \/ s \in done) =>
               db.effects[s] \in (IF Kind(s) = "rows" THEN {0} ELSE {0, 1})

BootKeepsTrack ==
    boot.pc = "running" =>
        /\ boot.todo = (1 .. image) \ view.recorded
        /\ boot.at > 0
        /\ boot.file \in boot.todo \/ (boot.file = 0 /\ boot.todo = {})

OutsideTx ==
    ~inTx => /\ durable = view
             /\ \A s \in Executed : Kind(s) = "object"

MigrationsInv ==
    /\ MigrationsTypeOK
    /\ BootKeepsTrack
    /\ Consistent(durable, {})
    /\ Consistent(view, Executed)
    /\ OutsideTx
    /\ boot.pc # "running" => ~inTx

-----------------------------------------------------------------------------

LEMMA StatementOf ==
  ASSUME NEW s \in Statements
  PROVE  /\ s[1] \in 1 .. Len(Files) /\ s[2] \in 1 .. Len(Files[s[1]])
         /\ s = <<s[1], s[2]>>
         /\ Kind(s) \in {"object", "rows"}
  BY MigrationsAssumption DEF Statements, Kind

LEMMA SomeFiles == Len(Files) \in Nat \ {0}
  BY MigrationsAssumption

LEMMA InitMigrations == MigrationsInit => MigrationsInv
  <1> SUFFICES ASSUME MigrationsInit  PROVE MigrationsInv
    OBVIOUS
  <1> USE MigrationsAssumption
  <1> DEFINE none == [recorded |-> {}, effects |-> [s \in Statements |-> 0]]
  <1>1. /\ image = 1 /\ failed = 0
        /\ boot = [pc |-> "new", file |-> 0, at |-> 0, todo |-> {}]
        /\ durable = none /\ view = none
        /\ inTx \in BOOLEAN /\ ~inTx
    BY DEF MigrationsInit, Down
  <1>2. none \in Database
    BY DEF Database
  <1>3. none.recorded = {} /\ \A s \in Statements : none.effects[s] = 0
    OBVIOUS
  <1> HIDE DEF none
  <1>4. MigrationsTypeOK
    BY <1>1, <1>2, SomeFiles DEF MigrationsTypeOK
  <1>5. Executed = {}
    BY <1>1 DEF Executed
  <1>6. Consistent(none, {})
    BY <1>3 DEF Consistent
  <1> QED
    BY <1>1, <1>4, <1>5, <1>6
       DEF MigrationsInv, BootKeepsTrack, OutsideTx

\* What holds with the executed definitions of a file holds without them.
LEMMA OnlyObjects ==
  ASSUME NEW db, NEW done \in SUBSET Statements, Consistent(db, done),
         \A s \in done : Kind(s) = "object"
  PROVE  Consistent(db, {})
  BY DEF Consistent

LEMMA StartKeeps == MigrationsInv /\ BootStarts => MigrationsInv'
  <1> SUFFICES ASSUME MigrationsInv, BootStarts  PROVE MigrationsInv'
    OBVIOUS
  <1> USE MigrationsAssumption
  <1>1. /\ boot.pc # "running"
        /\ UNCHANGED <<image, durable, view, inTx, failed>>
        /\ durable = view /\ ~inTx
    BY DEF BootStarts, MigrationsInv, OutsideTx
  <1> DEFINE todo == (1 .. image) \ view.recorded
  <1>2. PICK f \in todo \cup {0} :
            /\ GoesOn(f, todo)
            /\ boot' = [pc |-> "running", file |-> f, at |-> 1, todo |-> todo]
    BY <1>1 DEF BootStarts
  <1>3. todo \subseteq 1 .. Len(Files)
    BY DEF MigrationsInv, MigrationsTypeOK
  <1>4. MigrationsTypeOK'
    <2>1. boot' \in [pc : {"new", "down", "running", "serving"},
                     file : 0 .. Len(Files), at : Nat,
                     todo : SUBSET (1 .. Len(Files))]
      BY <1>2, <1>3, SomeFiles
    <2> QED
      BY <1>1, <2>1 DEF MigrationsInv, MigrationsTypeOK, Database
  <1>5. BootKeepsTrack'
    BY <1>1, <1>2 DEF BootKeepsTrack, GoesOn
  <1>6. Executed' = {}
    BY <1>2, StatementOf DEF Executed
  <1>7. Consistent(durable, {})
    BY DEF MigrationsInv
  <1> QED
    BY <1>1, <1>2, <1>4, <1>5, <1>6, <1>7 DEF MigrationsInv, OutsideTx, Consistent

LEMMA ExecuteKeeps == MigrationsInv /\ Executes => MigrationsInv'
  <1> SUFFICES ASSUME MigrationsInv, Executes  PROVE MigrationsInv'
    OBVIOUS
  <1> USE MigrationsAssumption
  <1> DEFINE s == <<boot.file, boot.at>>
  <1>1. /\ boot.pc = "running" /\ boot.file > 0
        /\ boot.at <= Len(Files[boot.file])
        /\ boot' = [boot EXCEPT !.at = @ + 1]
        /\ UNCHANGED <<image, failed>>
    BY DEF Executes
  <1>2. /\ boot.file \in 1 .. Len(Files) /\ boot.at \in Nat \ {0}
        /\ boot.file \notin view.recorded
        /\ Files[boot.file] \in Seq({"object", "rows"})
    BY <1>1 DEF MigrationsInv, MigrationsTypeOK, BootKeepsTrack
  <1>3. s \in Statements /\ s[1] = boot.file /\ s[2] = boot.at /\ s \notin Executed
    BY <1>1, <1>2 DEF Statements, Executed
  <1>4. Executed' = Executed \cup {s}
    <2>1. boot'.pc = "running" /\ boot'.file = boot.file /\ boot'.at = boot.at + 1
      BY <1>1 DEF MigrationsInv, MigrationsTypeOK
    <2>2. ASSUME NEW t \in Statements
          PROVE  t[1] = boot.file /\ t[2] < boot.at + 1
                     <=> (t[1] = boot.file /\ t[2] < boot.at) \/ t = s
      BY <1>1, <1>2, <1>3, StatementOf
    <2> QED
      BY <1>1, <1>3, <2>1, <2>2 DEF Executed
  <1> HIDE DEF s
  <1>5. boot' \in [pc : {"new", "down", "running", "serving"},
                   file : 0 .. Len(Files), at : Nat, todo : SUBSET (1 .. Len(Files))]
    <2>1. boot \in [pc : {"new", "down", "running", "serving"},
                    file : 0 .. Len(Files), at : Nat,
                    todo : SUBSET (1 .. Len(Files))]
      BY DEF MigrationsInv, MigrationsTypeOK
    <2>2. boot' = [boot EXCEPT !.at = boot.at + 1] /\ boot.at + 1 \in Nat
      BY <1>1, <1>2
    <2> QED
      BY <2>1, <2>2
  <1>6. /\ view \in Database /\ durable \in Database
        /\ view.effects[s] \in Nat
    BY <1>3 DEF MigrationsInv, MigrationsTypeOK, Database
  <1>7. boot'.todo = boot.todo /\ boot'.at > 0 /\ boot'.file = boot.file
        /\ boot'.pc = "running"
    BY <1>1 DEF MigrationsInv, MigrationsTypeOK, BootKeepsTrack
  <1>8. CASE /\ Kind(s) = "object" /\ view.effects[s] > 0
             /\ UNCHANGED <<durable, view, inTx>>
    <2>1. MigrationsTypeOK' /\ BootKeepsTrack'
      BY <1>1, <1>5, <1>7, <1>8
         DEF MigrationsInv, MigrationsTypeOK, BootKeepsTrack, Database
    <2>2. view.effects[s] = 1
      <3>1. view.effects[s] \in (IF Kind(s) = "rows" THEN {0} ELSE {0, 1})
        BY <1>2, <1>3 DEF MigrationsInv, Consistent
      <3> QED
        BY <1>8, <3>1
    <2>3. Consistent(view, Executed')
      BY <1>3, <1>4, <2>2 DEF MigrationsInv, Consistent
    <2>4. OutsideTx'
      BY <1>4, <1>8 DEF MigrationsInv, OutsideTx, Kind
    <2> QED
      BY <1>7, <1>8, <2>1, <2>3, <2>4 DEF MigrationsInv, Consistent
  <1>9. CASE /\ Kind(s) = "rows" \/ view.effects[s] = 0
             /\ Becomes([view EXCEPT !.effects[s] = @ + 1], OpensTx(Kind(s)))
    <2>1. view.effects[s] = 0
      <3>1. view.effects[s] \in (IF Kind(s) = "rows" THEN {0} ELSE {0, 1})
        BY <1>2, <1>3 DEF MigrationsInv, Consistent
      <3> QED
        BY <1>9, <3>1
    <2>2. view' = [recorded |-> view.recorded,
                   effects |-> [view.effects EXCEPT ![s] = 1]]
      <3>1. view' = [view EXCEPT !.effects[s] = 1]
        BY <1>9, <2>1 DEF Becomes
      <3> QED
        BY <1>6, <3>1 DEF Database
    <2>3. /\ view' \in Database
          /\ view'.recorded = view.recorded
          /\ view'.effects[s] = 1
          /\ \A t \in Statements : t # s => view'.effects[t] = view.effects[t]
      BY <1>3, <1>6, <2>2 DEF Database
    <2>4. Consistent(view', Executed')
      BY <1>2, <1>3, <1>4, <2>3 DEF MigrationsInv, Consistent
    <2>5. /\ inTx' = OpensTx(Kind(s))
          /\ durable' = IF OpensTx(Kind(s)) THEN durable ELSE view'
      BY <1>9 DEF Becomes
    <2>6. inTx' \in BOOLEAN
      BY <2>5 DEF OpensTx, MigrationsInv, MigrationsTypeOK
    <2>7. MigrationsTypeOK'
      BY <1>1, <1>5, <1>6, <2>3, <2>5, <2>6 DEF MigrationsInv, MigrationsTypeOK, Database
    <2>8. BootKeepsTrack'
      BY <1>1, <1>7, <2>3 DEF MigrationsInv, BootKeepsTrack
    <2>9. Consistent(durable, {})
      BY DEF MigrationsInv
    <2>10. CASE OpensTx(Kind(s))
      <3>1. inTx' /\ durable' = durable
        BY <2>5, <2>10
      <3> QED
        BY <1>7, <2>4, <2>7, <2>8, <2>9, <3>1 DEF MigrationsInv, OutsideTx
    <2>11. CASE ~OpensTx(Kind(s))
      <3>1. ~inTx /\ Kind(s) = "object"
        BY <1>3, <2>11, StatementOf DEF OpensTx
      <3>2. \A t \in Executed' : Kind(t) = "object"
        BY <1>4, <3>1 DEF MigrationsInv, OutsideTx
      <3>3. Executed' \in SUBSET Statements
        BY <1>3, <1>4 DEF Executed
      <3>4. Consistent(view', {})
        BY <2>4, <3>2, <3>3, OnlyObjects
      <3>5. durable' = view'
        BY <2>5, <2>11
      <3>6. OutsideTx'
        BY <3>2, <3>5 DEF OutsideTx, Kind
      <3> QED
        BY <1>7, <2>4, <2>7, <2>8, <3>4, <3>5, <3>6 DEF MigrationsInv, Consistent
    <2> QED  BY <2>10, <2>11
  <1> QED
    BY <1>3, <1>8, <1>9 DEF Executes, Kind, s

LEMMA RecordKeeps == MigrationsInv /\ Records => MigrationsInv'
  <1> SUFFICES ASSUME MigrationsInv, Records  PROVE MigrationsInv'
    OBVIOUS
  <1> USE MigrationsAssumption
  <1> DEFINE rest == boot.todo \ {boot.file}
  <1>1. /\ boot.pc = "running" /\ boot.file > 0
        /\ boot.at = Len(Files[boot.file]) + 1
        /\ UNCHANGED <<image, failed>>
        /\ view' = [view EXCEPT !.recorded = @ \cup {boot.file}]
        /\ inTx' = OpensTx("rows")
        /\ durable' = IF OpensTx("rows") THEN durable ELSE view'
    BY DEF Records, Becomes
  <1>2. PICK f \in boot.todo \cup {0} :
            /\ GoesOn(f, rest)
            /\ boot' = [boot EXCEPT !.todo = rest, !.at = 1, !.file = f]
    BY DEF Records
  <1>3. /\ boot \in [pc : {"new", "down", "running", "serving"},
                     file : 0 .. Len(Files), at : Nat,
                     todo : SUBSET (1 .. Len(Files))]
        /\ boot.file \in 1 .. Len(Files) /\ boot.file \in boot.todo
        /\ boot.todo = (1 .. image) \ view.recorded
    <2>1. boot.file \in boot.todo /\ boot.todo = (1 .. image) \ view.recorded
      BY <1>1 DEF MigrationsInv, BootKeepsTrack
    <2>2. boot \in [pc : {"new", "down", "running", "serving"},
                    file : 0 .. Len(Files), at : Nat,
                    todo : SUBSET (1 .. Len(Files))]
      BY DEF MigrationsInv, MigrationsTypeOK
    <2> QED
      BY <2>1, <2>2
  <1>4. inTx' \in BOOLEAN /\ inTx' /\ durable' = durable
    BY <1>1 DEF OpensTx, MigrationsInv, MigrationsTypeOK
  <1>5. /\ view' \in Database
        /\ view'.recorded = view.recorded \cup {boot.file}
        /\ view'.effects = view.effects
    BY <1>1, <1>3 DEF MigrationsInv, MigrationsTypeOK, Database
  <1>6. /\ boot'.pc = "running" /\ boot'.file = f /\ boot'.at = 1
        /\ boot'.todo = rest
        /\ boot' \in [pc : {"new", "down", "running", "serving"},
                      file : 0 .. Len(Files), at : Nat,
                      todo : SUBSET (1 .. Len(Files))]
    <2>1. f \in 0 .. Len(Files) /\ rest \in SUBSET (1 .. Len(Files))
      BY <1>2, <1>3, SomeFiles
    <2> HIDE DEF rest
    <2> QED
      BY <1>1, <1>2, <1>3, <2>1
  <1>7. MigrationsTypeOK'
    BY <1>1, <1>4, <1>5, <1>6 DEF MigrationsInv, MigrationsTypeOK
  <1>8. BootKeepsTrack'
    <2>1. rest = (1 .. image) \ (view.recorded \cup {boot.file})
      BY <1>3
    <2> QED
      BY <1>1, <1>2, <1>5, <1>6, <2>1 DEF BootKeepsTrack, GoesOn
  <1>9. Executed' = {}
    BY <1>6, StatementOf DEF Executed
  <1>10. ASSUME NEW t \in Statements, t[1] = boot.file
         PROVE  view.effects[t] = 1
    <2>1. t[2] < boot.at
      BY <1>1, <1>3, <1>10, StatementOf
    <2> QED
      BY <1>1, <1>10, <2>1 DEF MigrationsInv, Consistent, Executed
  <1>11. Consistent(view', {})
    <2>1. \A t \in Executed : t[1] = boot.file
      BY DEF Executed
    <2> QED
      BY <1>5, <1>10, <2>1 DEF MigrationsInv, Consistent
  <1> QED
    BY <1>4, <1>6, <1>7, <1>8, <1>9, <1>11 DEF MigrationsInv, OutsideTx, Consistent

LEMMA NextMigrations == MigrationsInv /\ [MigrationsNext]_migrationVars => MigrationsInv'
  <1> SUFFICES ASSUME MigrationsInv, [MigrationsNext]_migrationVars
               PROVE  MigrationsInv'
    OBVIOUS
  <1> USE MigrationsAssumption
  <1>1. CASE Commits
    <2>1. /\ boot.pc = "running" /\ boot.todo = {}
          /\ durable' = view
          /\ inTx' \in BOOLEAN /\ ~inTx'
          /\ boot' = [boot EXCEPT !.pc = "serving"]
          /\ UNCHANGED <<image, view, failed>>
      BY <1>1 DEF Commits
    <2>2. boot.file = 0
      BY <2>1 DEF MigrationsInv, BootKeepsTrack
    <2>3. Executed = {}
      BY <2>2, StatementOf DEF Executed
    <2>4. boot'.pc = "serving"
          /\ boot' \in [pc : {"new", "down", "running", "serving"},
                        file : 0 .. Len(Files), at : Nat,
                        todo : SUBSET (1 .. Len(Files))]
      BY <2>1 DEF MigrationsInv, MigrationsTypeOK
    <2>5. MigrationsTypeOK'
      BY <2>1, <2>4 DEF MigrationsInv, MigrationsTypeOK, Database
    <2>6. Executed' = {}
      BY <2>4 DEF Executed
    <2> QED
      BY <2>1, <2>3, <2>4, <2>5, <2>6
         DEF MigrationsInv, BootKeepsTrack, OutsideTx, Consistent
  <1>2. CASE BootFails
    <2>1. /\ view' = durable
          /\ inTx' \in BOOLEAN /\ ~inTx'
          /\ boot' = [pc |-> "down", file |-> 0, at |-> 0, todo |-> {}]
          /\ failed' \in 0 .. MaxFailures
          /\ UNCHANGED <<image, durable>>
      <3>1. /\ view' = durable /\ inTx' \in BOOLEAN /\ ~inTx'
            /\ boot' = [pc |-> "down", file |-> 0, at |-> 0, todo |-> {}]
            /\ UNCHANGED <<image, durable>>
        BY <1>2 DEF BootFails, Down
      <3>2. failed' = failed + 1 /\ failed < MaxFailures
        BY <1>2 DEF BootFails
      <3>3. failed' \in 0 .. MaxFailures
        BY <3>2 DEF MigrationsInv, MigrationsTypeOK
      <3> QED
        BY <3>1, <3>3
    <2>2. boot'.pc = "down"
          /\ boot' \in [pc : {"new", "down", "running", "serving"},
                        file : 0 .. Len(Files), at : Nat,
                        todo : SUBSET (1 .. Len(Files))]
      BY <2>1, SomeFiles
    <2>3. MigrationsTypeOK'
      BY <2>1, <2>2 DEF MigrationsInv, MigrationsTypeOK, Database
    <2>4. Executed' = {}
      BY <2>2 DEF Executed
    <2> QED
      BY <2>1, <2>2, <2>3, <2>4
         DEF MigrationsInv, BootKeepsTrack, OutsideTx, Consistent
  <1>3. CASE Upgrades
    <2>1. /\ boot.pc = "serving"
          /\ image' \in 1 .. Len(Files)
          /\ boot' = [pc |-> "down", file |-> 0, at |-> 0, todo |-> {}]
          /\ UNCHANGED <<durable, view, inTx, failed>>
      BY <1>3, SomeFiles DEF Upgrades, Down, MigrationsInv, MigrationsTypeOK
    <2>2. boot'.pc = "down"
          /\ boot' \in [pc : {"new", "down", "running", "serving"},
                        file : 0 .. Len(Files), at : Nat,
                        todo : SUBSET (1 .. Len(Files))]
      BY <2>1, SomeFiles
    <2>3. MigrationsTypeOK'
      BY <2>1, <2>2 DEF MigrationsInv, MigrationsTypeOK, Database
    <2>4. Executed' = {} /\ Executed = {}
      BY <2>1, <2>2 DEF Executed
    <2> QED
      BY <2>1, <2>2, <2>3, <2>4
         DEF MigrationsInv, BootKeepsTrack, OutsideTx, Consistent
  <1>4. CASE UNCHANGED migrationVars
    <2>1. UNCHANGED <<image, durable, view, inTx, boot, failed>>
      BY <1>4 DEF migrationVars
    <2>2. MigrationsTypeOK'
      BY <2>1 DEF MigrationsInv, MigrationsTypeOK, Database
    <2>3. Executed' = Executed
      BY <2>1 DEF Executed
    <2> QED
      BY <2>1, <2>2, <2>3
         DEF MigrationsInv, BootKeepsTrack, OutsideTx, Consistent
  <1> QED
    BY <1>1, <1>2, <1>3, <1>4, StartKeeps, ExecuteKeeps, RecordKeeps DEF MigrationsNext

LEMMA MigrationsInvariant == MigrationsSpec => []MigrationsInv
  BY InitMigrations, NextMigrations, PTL DEF MigrationsSpec

\* For every list of files, wherever boots are cut off and whatever image comes
\* next: a recorded file has taken effect in full, once, and no other has
\* written a row (run_migrations, with the transactions of the driver).
THEOREM RecordedFilesComplete == MigrationsSpec => []RecordedIsComplete
  <1>1. MigrationsInv => RecordedIsComplete
    <2> SUFFICES ASSUME MigrationsInv, NEW s \in Statements
                 PROVE  /\ s[1] \in durable.recorded => durable.effects[s] = 1
                        /\ s[1] \notin durable.recorded /\ Files[s[1]][s[2]] = "rows"
                               => durable.effects[s] = 0
      BY DEF RecordedIsComplete
    <2> QED
      BY DEF MigrationsInv, Consistent, Kind
  <1> QED  BY <1>1, MigrationsInvariant, PTL
=============================================================================
