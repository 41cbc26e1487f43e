--------------------------- MODULE ServicesProofs ---------------------------
(***************************************************************************)
(* The services side by side.  A run of the composition is, for each of    *)
(* them, a run of its own specification: the composition starts where the  *)
(* service starts, and each of its steps is one of the service's or leaves *)
(* its variables alone.  What was proved of each service therefore holds   *)
(* in the composition that the run checks.                                 *)
(***************************************************************************)
EXTENDS MCServices, MonitorsProofs, RowsAndJobsProofs, CaptureFilesProofs, AlgorithmProofs

\* Each service in its own specification
EachByItself ==
    /\ WatchdogSpec
    /\ HealthSpec
    /\ GapSpec
    /\ MigrationsSpec
    /\ ProfileSpec
    /\ ScheduleSpec
    /\ MediaSpec
    /\ ClockSpec
    /\ CronSpec
    /\ BlurSpec
    /\ ReaderSpec

\* Each service takes a step of its own or none.
EachSteps ==
    /\ [WatchdogNext]_watchdogVars
    /\ [HealthNext]_healthVars
    /\ [GapNext]_gapVars
    /\ [MigrationsNext]_migrationVars
    /\ [ProfileNext]_profileVars
    /\ [ScheduleNext]_scheduleVars
    /\ [MediaNext]_mediaVars
    /\ [ClockNext]_clockVars
    /\ [CronNext]_cronVars
    /\ [BlurNext]_blurVars
    /\ [ReaderNext]_readerVars

-----------------------------------------------------------------------------

LEMMA StepOfEach == [ServicesNext]_servicesVars => EachSteps
  <1> SUFFICES ASSUME [ServicesNext]_servicesVars  PROVE EachSteps
    OBVIOUS
  <1>1. CASE OnlyWatchdog /\ WatchdogNext
    BY <1>1 DEF OnlyWatchdog, EachSteps
  <1>2. CASE OnlyHealth /\ HealthNext
    BY <1>2 DEF OnlyHealth, EachSteps
  <1>3. CASE OnlyGap /\ GapNext
    BY <1>3 DEF OnlyGap, EachSteps
  <1>4. CASE OnlyMigrations /\ MigrationsNext
    BY <1>4 DEF OnlyMigrations, EachSteps
  <1>5. CASE OnlyProfile /\ ProfileNext
    BY <1>5 DEF OnlyProfile, EachSteps
  <1>6. CASE OnlyMedia /\ MediaNext
    BY <1>6 DEF OnlyMedia, EachSteps
  <1>7. CASE OnlyClock /\ ClockNext
    BY <1>7 DEF OnlyClock, EachSteps
  <1>8. CASE OnlyCron /\ CronNext
    BY <1>8 DEF OnlyCron, EachSteps
  <1>9. CASE OnlyBlur /\ BlurNext
    BY <1>9 DEF OnlyBlur, EachSteps
  <1>10. CASE OnlyReader /\ ReaderNext
    BY <1>10 DEF OnlyReader, EachSteps
  <1>11. CASE OnlySchedules /\ ScheduleNext
    BY <1>11 DEF OnlySchedules, EachSteps
  <1>12. CASE UNCHANGED servicesVars
    BY <1>12 DEF servicesVars, EachSteps
  <1> QED
    BY <1>1, <1>2, <1>3, <1>4, <1>5, <1>6, <1>7, <1>8, <1>9, <1>10, <1>11,
       <1>12 DEF ServicesNext

\* Whatever service a run of the composition picks, it is for each of the
\* services a run of that service by itself: they share no state.
THEOREM ServicesAreApart == ServicesSpec => EachByItself
  <1>1. ServicesInit =>
            /\ WatchdogInit /\ HealthInit /\ GapInit /\ MigrationsInit
            /\ ProfileInit /\ ScheduleInit /\ MediaInit /\ ClockInit
            /\ CronInit /\ BlurInit /\ ReaderInit
    BY DEF ServicesInit
  <1>2. ServicesSpec => ServicesInit /\ [][ServicesNext]_servicesVars
    BY DEF ServicesSpec
  <1> QED
    BY <1>1, <1>2, StepOfEach, PTL
       DEF EachByItself, EachSteps, WatchdogSpec, HealthSpec, GapSpec, MigrationsSpec,
           ProfileSpec, ScheduleSpec, MediaSpec, ClockSpec, CronSpec, BlurSpec, ReaderSpec

\* Every variable keeps to its type, in every one of the services, for any
\* values of their constants.
THEOREM ServicesTypeCorrect == ServicesSpec => []ServicesTypeOK
  <1>1. MediaInv => MediaTypeOK
    BY DEF MediaInv
  <1>2. GapInv => GapTypeOK
    BY DEF GapInv
  <1>3. HealthInv => HealthTypeOK
    BY DEF HealthInv
  <1>4. MigrationsInv => MigrationsTypeOK
    BY DEF MigrationsInv
  <1>5. ProfileInv => ProfileTypeOK
    BY DEF ProfileInv
  <1>6. BlurInv => BlurTypeOK
    BY DEF BlurInv
  <1>7. ReaderInv => ReaderTypeOK
    BY DEF ReaderInv
  <1>8. WatchdogTypeOK /\ HealthTypeOK /\ GapTypeOK /\ MigrationsTypeOK
            /\ ProfileTypeOK /\ ScheduleTypeOK /\ MediaTypeOK /\ ClockTypeOK
            /\ CronTypeOK /\ BlurTypeOK /\ ReaderTypeOK
                => ServicesTypeOK
    BY DEF ServicesTypeOK
  <1>9. EachByItself => [](ProfileInv /\ ReaderInv)
    BY InitProfile, NextProfile, InitReader, NextReader, PTL
       DEF EachByItself, ProfileSpec, ReaderSpec
  <1>10. EachByItself => [](/\ WatchdogTypeOK /\ HealthInv /\ GapInv /\ MigrationsInv
                            /\ ScheduleTypeOK /\ MediaInv /\ ClockTypeOK
                            /\ CronTypeOK /\ BlurInv)
    BY WatchdogTypes, HealthInvariant, GapInvariant, MigrationsInvariant, ScheduleTypesKept,
       MediaInvariant, ClockTypesKept, CronTypesKept, BlurInvariant, PTL DEF EachByItself
  <1> QED
    BY <1>1, <1>2, <1>3, <1>4, <1>5, <1>6, <1>7, <1>8, <1>9, <1>10,
       ServicesAreApart, PTL

\* The invariants and the action property that the run of the composition
\* checks, for any values of the constants.
THEOREM ServicesKeepTheirPromises ==
  ServicesSpec =>
      /\ [](/\ MediaAccounted /\ JobsFollowRows /\ UserToggleStands
            /\ SchedulesFollowRows
            /\ OneAlertPerOutage /\ StaleNoLongerThanTTL /\ ExitNeedsRefusals
            /\ RecordedIsComplete /\ FramesOnTheGrid /\ DaysOfWeekKept
            /\ BlurReadsOriginals /\ FirstImageReturned)
      /\ HiddenTreeKeepsRows
  <1>1. EachByItself =>
            /\ []MediaAccounted /\ HiddenTreeKeepsRows /\ []JobsFollowRows
            /\ []UserToggleStands /\ []SchedulesFollowRows /\ []OneAlertPerOutage
            /\ []StaleNoLongerThanTTL /\ []ExitNeedsRefusals /\ []RecordedIsComplete
            /\ []FramesOnTheGrid /\ []DaysOfWeekKept /\ []BlurReadsOriginals
            /\ []FirstImageReturned
    BY FramesAccounted, HiddenTreeSpared, ProfilesKeepTheirJob, DisabledStaysDisabled,
       SchedulesKeepTheirJobs, AlertedOnce, StaleAnswersExpire, ExitsForGoodReason,
       RecordedFilesComplete, RestartsKeepTheGrid, DaysAreThoseMeant, OriginalsBlended,
       FirstImageFound DEF EachByItself
  <1> QED
    BY <1>1, ServicesAreApart, PTL
=============================================================================
