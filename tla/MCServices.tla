----------------------------- MODULE MCServices -----------------------------
(***************************************************************************)
(* The services that share no state with each other, checked side by side: *)
(* the run picks one of them, which alone takes steps, on its own instance *)
(* and under its own fairness.                                             *)
(***************************************************************************)
EXTENDS StorageWatchdog, HealthCache, CaptureGap, Migrations, ProfileLifecycle,
        Schedules, CaptureFiles, CaptureClock, CronDays, MotionBlur, MjpegReader

VARIABLE subject  \* the service under check

\* An image with rows and objects in one file, in either order, and two files
\* that come with an upgrade.
MCFiles == << <<"object", "object">>, <<"object", "rows">>,
              <<"rows", "rows">>, <<"object">> >>

\* One window by day, one of a single time, one that spans midnight.
MCWindows == {<<2, 5>>, <<3, 3>>, <<5, 1>>}

\* Enabled schedules with a boundary at midnight, from a preset.
MCGiven == {[on |-> TRUE, cron |-> "night", preset |-> TRUE]}

\* Two hours around the events of a day; a night.
MCSun == {{<<1, 2>>, <<5, 6>>}, {<<6, 1>>}}

\* In fields of several tokens, of the ranges one that wraps and one that ends
\* on Sunday.
MCListed == {t \in Tokens : t.kind # "range" \/ (t.from \in {0, 5} /\ t.to \in {2, 7}
                                                  /\ t.step = 1)}

servicesVars ==
    <<subject, watchdogVars, healthVars, gapVars, migrationVars, profileVars, scheduleVars,
      mediaVars, clockVars, cronVars, blurVars, readerVars>>

ServicesInit ==
    /\ subject \in {"watchdog", "health", "gap", "migrations", "profile", "schedules",
                   "media", "clock", "cron", "blur", "reader"}
    /\ WatchdogInit
    /\ HealthInit
    /\ GapInit
    /\ MigrationsInit
    /\ ProfileInit
    /\ ScheduleInit
    /\ MediaInit
    /\ ClockInit
    /\ CronInit
    /\ BlurInit
    /\ ReaderInit
    /\ subject # "profile" => row.state = "unborn"
    /\ LET unmade == {s \in ScheduleIds : ~Stored(s)}
       IN  IF subject = "schedules" THEN Cardinality(unmade) = 1
           ELSE unmade = ScheduleIds

\* The service under check takes a step, the others none.
OnlyWatchdog ==
    /\ subject = "watchdog"
    /\ UNCHANGED <<subject, healthVars, gapVars, migrationVars, profileVars, scheduleVars,
                   mediaVars, clockVars, cronVars, blurVars, readerVars>>

OnlyHealth ==
    /\ subject = "health"
    /\ UNCHANGED <<subject, watchdogVars, gapVars, migrationVars, profileVars, scheduleVars,
                   mediaVars, clockVars, cronVars, blurVars, readerVars>>

OnlyGap ==
    /\ subject = "gap"
    /\ UNCHANGED <<subject, watchdogVars, healthVars, migrationVars, profileVars, scheduleVars,
                   mediaVars, clockVars, cronVars, blurVars, readerVars>>

OnlyMigrations ==
    /\ subject = "migrations"
    /\ UNCHANGED <<subject, watchdogVars, healthVars, gapVars, profileVars, scheduleVars,
                   mediaVars, clockVars, cronVars, blurVars, readerVars>>

OnlyProfile ==
    /\ subject = "profile"
    /\ UNCHANGED <<subject, watchdogVars, healthVars, gapVars, migrationVars, scheduleVars,
                   mediaVars, clockVars, cronVars, blurVars, readerVars>>

OnlySchedules ==
    /\ subject = "schedules"
    /\ UNCHANGED <<subject, watchdogVars, healthVars, gapVars, migrationVars, profileVars,
                   mediaVars, clockVars, cronVars, blurVars, readerVars>>

OnlyMedia ==
    /\ subject = "media"
    /\ UNCHANGED <<subject, watchdogVars, healthVars, gapVars, migrationVars, profileVars,
                   scheduleVars, clockVars, cronVars, blurVars, readerVars>>

OnlyClock ==
    /\ subject = "clock"
    /\ UNCHANGED <<subject, watchdogVars, healthVars, gapVars, migrationVars, profileVars,
                   scheduleVars, mediaVars, cronVars, blurVars, readerVars>>

OnlyCron ==
    /\ subject = "cron"
    /\ UNCHANGED <<subject, watchdogVars, healthVars, gapVars, migrationVars, profileVars,
                   scheduleVars, mediaVars, clockVars, blurVars, readerVars>>

OnlyBlur ==
    /\ subject = "blur"
    /\ UNCHANGED <<subject, watchdogVars, healthVars, gapVars, migrationVars, profileVars,
                   scheduleVars, mediaVars, clockVars, cronVars, readerVars>>

OnlyReader ==
    /\ subject = "reader"
    /\ UNCHANGED <<subject, watchdogVars, healthVars, gapVars, migrationVars, profileVars,
                   scheduleVars, mediaVars, clockVars, cronVars, blurVars>>

ServicesNext ==
    \/ OnlyWatchdog /\ WatchdogNext
    \/ OnlyHealth /\ HealthNext
    \/ OnlyGap /\ GapNext
    \/ OnlyMigrations /\ MigrationsNext
    \/ OnlyProfile /\ ProfileNext
    \/ OnlySchedules /\ ScheduleNext
    \/ OnlyMedia /\ MediaNext
    \/ OnlyClock /\ ClockNext
    \/ OnlyCron /\ CronNext
    \/ OnlyBlur /\ BlurNext
    \/ OnlyReader /\ ReaderNext

\* A service's own process: the watchdog's job and its thread, a boot and the
\* one after it, the cleanup that is due again and again.
JobStep ==
    \/ /\ OnlyWatchdog
       /\ ProbeStarts \/ ProbeDatabase \/ ProbeDirectory \/ ProbeSucceeds \/ ProbeFails
    \/ /\ OnlyMigrations
       /\ BootStarts \/ Executes \/ Records \/ Commits
    \/ /\ OnlyMedia
       /\ \/ CleanupStarts \/ UnlinksOld \/ CommitsOld
          \/ SweepStarts \/ Scans \/ SweepCommits \/ Tidies

\* A hung mount, a read-only spell or an inaccessible tree passes.
FaultPasses ==
    \/ OnlyWatchdog /\ VolumeRecovers
    \/ OnlyMedia /\ TreeReturns

\* The process goes on, what passes does pass, and a container that exited is
\* started again.
ServicesFairness ==
    /\ WF_servicesVars(JobStep)
    /\ WF_servicesVars(FaultPasses)
    /\ WF_servicesVars(OnlyWatchdog /\ ContainerStarts)

ServicesSpec ==
    ServicesInit /\ [][ServicesNext]_servicesVars /\ ServicesFairness

\* Every variable keeps to its type, in every one of the services.
ServicesTypeOK ==
    /\ WatchdogTypeOK
    /\ HealthTypeOK
    /\ GapTypeOK
    /\ MigrationsTypeOK
    /\ ProfileTypeOK
    /\ ScheduleTypeOK
    /\ MediaTypeOK
    /\ ClockTypeOK
    /\ CronTypeOK
    /\ BlurTypeOK
    /\ ReaderTypeOK
=============================================================================
