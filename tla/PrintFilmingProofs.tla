------------------------- MODULE PrintFilmingProofs -------------------------
(***************************************************************************)
(* Theorems of PrintCapture about what ties a print in flight to the       *)
(* managed profile, its scheduler job and the integration's switch.  Each  *)
(* names, as a hypothesis on the constants, the surroundings it needs;     *)
(* within them it holds for every set of streams and job ids and every     *)
(* bound.                                                                  *)
(***************************************************************************)
EXTENDS PrintCaptureProofs

(***************************************************************************)
(* The surroundings.  emit() gives the loop away only when notifications   *)
(* are sent: either they are not, or nothing emits in the middle of a      *)
(* change of the managed profile, which takes a health verdict or a change *)
(* of job id.  Bound: no other camera is chosen while a print is filmed or *)
(* a camera is being deleted.                                              *)
(***************************************************************************)
Uninterrupted == Notify => "flap" \notin Env /\ \A i, j \in JobIds : i = j

Bound == "rebind" \notin Env

(***************************************************************************)
(* The inductive invariant, in layers.  First, whatever the surroundings:  *)
(* row ids are never used again, and what the handlers remember is old.    *)
(***************************************************************************)
RowIds ==
    /\ capJobs \subseteq 1 .. lastProfile
    /\ profile.id \in 0 .. lastProfile
    /\ profile.id # 0 => profile.stream \in streams
    /\ deletion.ids \subseteq 1 .. lastProfile
    /\ deletion.pc = "committed" => profile.id \notin deletion.ids

HandlersFree ==
    /\ poll.pc \in {"closed", "again"} => Running(poll.cfg)
    /\ poll.pc \in {"opened", "closed"} => put = "idle"
    /\ poll.pc = "opened" => poll.profile \in 1 .. lastProfile
    /\ "flap" \notin Env => check.pc = "idle" /\ ~profile.auto
    /\ "delete_stream" \notin Env => deletion.pc = "idle"

Base == IInv /\ RowIds /\ HandlersFree

-----------------------------------------------------------------------------
(* What the shared operators do to the managed profile *)

\* ensure_managed_profile keeps the row's id or takes an unused one, and
\* binds the row to a stream that exists.
LEMMA EnsuredRow ==
    ASSUME IInv, RowIds, NEW c \in Configs, ~EnsureRaises(c)
    PROVE  /\ EnsuredLast(c) \in Nat
           /\ EnsuredLast(c) >= lastProfile
           /\ Ensured(c).id \in 0 .. EnsuredLast(c)
           /\ Ensured(c).id # 0 => Ensured(c).stream \in streams
           /\ \/ /\ Ensured(c).id = profile.id
                 /\ Ensured(c).enabled = profile.enabled
                 /\ Ensured(c).auto = profile.auto
              \/ /\ Ensured(c).id = lastProfile + 1
                 /\ ~Ensured(c).enabled /\ ~Ensured(c).auto
           /\ c.stream # NoStream => /\ Ensured(c).id # 0
                                     /\ Ensured(c).stream = c.stream
           /\ c.stream = NoStream => Ensured(c) = profile
<1>1. lastProfile \in Nat /\ profile \in ProfileRows
    BY DEF IInv, TypeOK
<1>2. CASE c.stream = NoStream
    BY <1>1, <1>2 DEF Ensured, EnsuredLast, Running, RowIds, ProfileRows
<1>3. CASE c.stream # NoStream /\ profile.id = 0
    <2>1. Ensured(c) = [id |-> lastProfile + 1, stream |-> c.stream,
                        enabled |-> FALSE, auto |-> FALSE]
        BY <1>3 DEF Ensured
    <2> QED
        BY <1>1, <1>3, <2>1 DEF EnsuredLast, EnsureRaises
<1>4. CASE c.stream # NoStream /\ profile.id # 0
    <2>1. Ensured(c) = [profile EXCEPT !.stream = c.stream]
        BY <1>4 DEF Ensured
    <2> QED
        BY <1>1, <1>4, <2>1 DEF EnsuredLast, EnsureRaises, RowIds, ProfileRows
<1> QED
    BY <1>2, <1>3, <1>4

\* What _reconcile leaves of the ids: the managed row's, its jobs' and the one
\* a rising edge remembers.
LEMMA ReconcileRows ==
    ASSUME Base, NEW c \in Configs, Running(c), NEW st \in Statuses,
           Reconcile(c, st)
    PROVE  /\ lastProfile' \in Nat /\ lastProfile' >= lastProfile
           /\ profile'.id \in 0 .. lastProfile'
           /\ profile'.id # 0 => profile'.stream \in streams
           /\ profile'.id \in {profile.id, lastProfile + 1}
           /\ \A i \in capJobs' : i \in capJobs \/ (i = profile'.id /\ i # 0)
           /\ poll'.pc \in {"idle", "opened", "closed"}
           /\ poll'.pc = "closed" => poll'.cfg = c
           /\ poll'.pc = "opened" => poll'.profile \in 1 .. lastProfile'
           /\ profile'.auto => profile.auto
<1>0. /\ lastProfile \in Nat /\ profile \in ProfileRows
      /\ capJobs \subseteq 1 .. lastProfile
      /\ profile.id \in 0 .. lastProfile
      /\ profile.id # 0 => profile.stream \in streams
    BY DEF Base, IInv, RowIds, TypeOK
<1>1. CASE PollFails
    <2>1. /\ profile' = profile /\ lastProfile' = lastProfile
          /\ capJobs' = capJobs /\ poll'.pc = "idle"
        BY <1>1 DEF PollFails, PollIdle
    <2> QED
        BY <1>0, <2>1
<1>2. CASE ~EnsureRaises(c)
    <2>1. /\ EnsuredLast(c) \in Nat /\ EnsuredLast(c) >= lastProfile
          /\ Ensured(c).id \in 1 .. EnsuredLast(c)
          /\ Ensured(c).stream \in streams
          /\ Ensured(c).id \in {profile.id, lastProfile + 1}
          /\ Ensured(c).auto => profile.auto
          /\ Ensured(c) \in ProfileRows
        BY <1>0, <1>2, EnsuredRow, EnsuredType DEF Base, IInv, Running
    <2>2. CASE OpensPrint(c, st)
        <3>1. /\ profile' = [Ensured(c) EXCEPT !.enabled = TRUE, !.auto = FALSE]
              /\ lastProfile' = EnsuredLast(c) /\ capJobs' = capJobs
              /\ poll' = [PollIdle EXCEPT !.pc = "opened", !.profile = Ensured(c).id]
            BY <2>2 DEF OpensPrint
        <3>2. poll'.pc = "opened" /\ poll'.profile = Ensured(c).id
            BY <3>1 DEF PollIdle
        <3> QED
            BY <1>0, <2>1, <3>1, <3>2 DEF ProfileRows
    <2>3. CASE KeepsPrint(c, st)
        BY <1>0, <2>1, <2>3 DEF KeepsPrint, PollIdle
    <2>4. ASSUME NEW state, NEW again, ClosesPrint(c, st, state, again)
          PROVE  /\ profile' = SwitchedOff(Ensured(c))
                 /\ lastProfile' = EnsuredLast(c)
                 /\ capJobs' = capJobs \ {Ensured(c).id}
                 /\ poll'.pc = "closed" /\ poll'.cfg = c
        BY <2>4 DEF ClosesPrint
    <2>5. CASE \E state, again : ClosesPrint(c, st, state, again)
        <3>1. /\ profile'.id = Ensured(c).id /\ ~profile'.auto
              /\ profile'.stream = Ensured(c).stream
            BY <2>1, <2>4, <2>5 DEF SwitchedOff, ProfileRows
        <3> QED
            BY <1>0, <2>1, <2>4, <2>5, <3>1
    <2>6. CASE CloseRaises(c, st)
        <3>1. /\ profile' = Ensured(c) /\ lastProfile' = EnsuredLast(c)
              /\ capJobs' = capJobs \ {Ensured(c).id} /\ poll'.pc = "idle"
            BY <2>6 DEF CloseRaises, PollIdle
        <3> QED
            BY <1>0, <2>1, <3>1
    <2>7. CASE PollFails
        BY <1>1, <2>7
    <2> QED
        BY <1>2, <2>2, <2>3, <2>5, <2>6, <2>7 DEF Reconcile
<1>3. CASE EnsureRaises(c)
    BY <1>1, <1>3 DEF Reconcile, OpensPrint, KeepsPrint, ClosesPrint, CloseRaises
<1> QED
    BY <1>2, <1>3

-----------------------------------------------------------------------------
(* The first layer *)

\* A step keeps the ids in order when the managed row keeps its id, is gone or
\* takes the next one, and no other id gets a job.
LEMMA RowIdsFrame ==
    ASSUME Base,
           lastProfile' \in Nat, lastProfile' >= lastProfile,
           profile'.id \in 0 .. lastProfile',
           profile'.id # 0 => profile'.stream \in streams',
           profile'.id \in {0, profile.id, lastProfile + 1},
           \A i \in capJobs' : i \in capJobs \/ (i = profile'.id /\ i # 0),
           deletion' = deletion \/ deletion' = DeletionIdle
    PROVE  RowIds'
<1>1. /\ lastProfile \in Nat
      /\ deletion.ids \subseteq 1 .. lastProfile
      /\ capJobs \subseteq 1 .. lastProfile
      /\ deletion.pc = "committed" => profile.id \notin deletion.ids
    BY DEF Base, IInv, TypeOK, RowIds
<1>2. ASSUME NEW i \in capJobs' PROVE i \in 1 .. lastProfile'
    <2>1. CASE i \in capJobs
        BY <1>1, <2>1
    <2>2. CASE i = profile'.id /\ i # 0
        BY <2>2
    <2> QED
        BY <2>1, <2>2
<1>3. /\ deletion'.ids \subseteq 1 .. lastProfile'
      /\ deletion'.pc = "committed" => profile'.id \notin deletion'.ids
    BY <1>1 DEF DeletionIdle
<1> QED
    BY <1>2, <1>3 DEF RowIds

\* Neither does a step that leaves the rows' ids and streams alone.
LEMMA RowIdsKept ==
    ASSUME Base,
           lastProfile' = lastProfile, streams' = streams,
           profile'.id = profile.id, profile'.stream = profile.stream,
           \A i \in capJobs' : i \in capJobs \/ (i = profile.id /\ i # 0),
           deletion' = deletion \/ deletion' = DeletionIdle
    PROVE  RowIds'
<1>1. /\ lastProfile \in Nat
      /\ profile.id \in 0 .. lastProfile
      /\ profile.id # 0 => profile.stream \in streams
    BY DEF Base, IInv, TypeOK, RowIds
<1> QED
    BY <1>1, RowIdsFrame

\* The columns the health monitor commits are not the id and the stream.
LEMMA CommitsKeepsRow ==
    ASSUME IInv, NEW s, NEW found, NEW id, NEW dirty,
           Commits(s, found, id, dirty)
    PROVE  profile'.id = profile.id /\ profile'.stream = profile.stream
BY DEF Commits, IInv, TypeOK, ProfileRows

\* A check keeps the managed row's identity, and gives or takes only its job.
LEMMA MonitorKeepsRow ==
    ASSUME IInv, HealthMonitor
    PROVE  /\ profile'.id = profile.id /\ profile'.stream = profile.stream
           /\ \A i \in capJobs' : i \in capJobs \/ (i = profile.id /\ i # 0)
           /\ UNCHANGED checkOther
<1>1. CASE \E s \in Streams : CheckStart(s)
    BY <1>1 DEF CheckStart
<1>2. CASE CheckQuiet
    BY <1>2, CommitsKeepsRow DEF CheckQuiet
<1>3. CASE CheckCommits
    BY <1>3, CommitsKeepsRow DEF CheckCommits
<1>4. ASSUME NEW s, NEW found, NEW id, NEW dirty,
             CheckDecides(s, found, id, dirty)
      PROVE  profile'.id = profile.id /\ profile'.stream = profile.stream
    BY <1>4, CommitsKeepsRow DEF CheckDecides
<1>5. CASE CheckRecovers
    <2>1. PICK s, found, id, dirty : CheckDecides(s, found, id, dirty)
        BY <1>5 DEF CheckRecovers
    <2> QED
        BY <1>4, <1>5, <2>1 DEF CheckRecovers
<1>6. CASE CheckCondemns
    <2>1. PICK s, found, id, dirty : CheckDecides(s, found, id, dirty)
        BY <1>6 DEF CheckCondemns
    <2> QED
        BY <1>4, <1>6, <2>1 DEF CheckCondemns
<1> QED
    BY <1>1, <1>2, <1>3, <1>5, <1>6 DEF HealthMonitor

\* The poll's own steps reconcile a running configuration, or leave the rows.
LEMMA PollerRows ==
    ASSUME Base, Poller
    PROVE  RowIds'
<1>1. ASSUME NEW st \in Replies, PollAnswered(st) PROVE RowIds'
    <2>1. st \in Statuses /\ cfg \in Configs
        BY PrintCaptureAssumption DEF Replies, Statuses, Base, IInv, TypeOK
    <2>2. CASE StillRunning
        BY <1>1, <2>1, <2>2, ReconcileRows, RowIdsFrame
           DEF PollAnswered, StillRunning, pollOther
    <2>3. CASE ~StillRunning
        BY <1>1, <2>3, RowIdsKept DEF PollAnswered, PollFails, pollOther
    <2> QED
        BY <2>2, <2>3
<1>2. CASE PollAgain
    <2>1. /\ poll.cfg \in Configs /\ poll.status \in Statuses
          /\ Running(poll.cfg)
        BY <1>2 DEF PollAgain, Base, IInv, TypeOK, PollRecords, PollCarries,
                    HandlersFree
    <2> QED
        BY <1>2, <2>1, ReconcileRows, RowIdsFrame DEF PollAgain, pollOther
<1>3. CASE PollAddsJob
    <2>1. profile.id = poll.profile => profile.id # 0
        BY <1>3 DEF PollAddsJob, Base, HandlersFree, IInv, TypeOK
    <2> QED
        BY <1>3, <2>1, RowIdsKept DEF PollAddsJob, pollOther
<1>4. CASE PollGivesUp
    <2>1. profile'.id = profile.id /\ profile'.stream = profile.stream
        BY <1>4 DEF PollGivesUp, SwitchedOff, Base, IInv, TypeOK, ProfileRows
    <2> QED
        BY <1>4, <2>1, RowIdsKept DEF PollGivesUp, pollOther
<1>5. CASE PollStart \/ PollUnanswered \/ GiveUpRaises \/ PollClosed
    BY <1>5, RowIdsKept
       DEF PollStart, PollUnanswered, PollFails, GiveUpRaises, PollClosed,
           pollOther
<1> QED
    BY <1>1, <1>2, <1>3, <1>4, <1>5 DEF Poller

\* So do the settings request, a deletion and everything else.
LEMMA NextRowIds ==
    ASSUME Base, [Next]_vars
    PROVE  RowIds'
<1>0. /\ lastProfile \in Nat /\ profile \in ProfileRows /\ cfg \in Configs
      /\ deletion \in DeletionRecords
    BY DEF Base, IInv, TypeOK
<1>1. CASE Poller
    BY <1>1, PollerRows
<1>2. CASE PutSwitchesOn
    <2>1. /\ EnsuredLast(cfg) \in Nat /\ EnsuredLast(cfg) >= lastProfile
          /\ Ensured(cfg).id \in 0 .. EnsuredLast(cfg)
          /\ Ensured(cfg).id # 0 => Ensured(cfg).stream \in streams
          /\ Ensured(cfg).id \in {profile.id, lastProfile + 1}
        BY <1>0, <1>2, EnsuredRow DEF PutSwitchesOn, Base
    <2> QED
        BY <1>2, <2>1, RowIdsFrame DEF PutSwitchesOn, putOther
<1>3. CASE PutSwitchesOff
    <2>1. /\ EnsuredLast(cfg) \in Nat /\ EnsuredLast(cfg) >= lastProfile
          /\ Ensured(cfg).id \in 0 .. EnsuredLast(cfg)
          /\ Ensured(cfg).id # 0 => Ensured(cfg).stream \in streams
          /\ Ensured(cfg).id \in {profile.id, lastProfile + 1}
          /\ Ensured(cfg) \in ProfileRows
        BY <1>0, <1>3, EnsuredRow, EnsuredType DEF PutSwitchesOff, Base, IInv
    <2>2. /\ profile'.id = Ensured(cfg).id
          /\ profile'.stream = Ensured(cfg).stream
        BY <1>3, <2>1 DEF PutSwitchesOff, CutOff, ProfileRows
    <2> QED
        BY <1>3, <2>1, <2>2, RowIdsFrame DEF PutSwitchesOff, putOther
<1>4. CASE PutRaises \/ \E c \in Configs : PutSaves(c)
    BY <1>4, RowIdsKept DEF PutRaises, PutSaves, putOther
<1>5. CASE HealthMonitor
    <2>1. UNCHANGED <<lastProfile, streams, deletion>>
        BY <1>5, MonitorKeepsRow DEF Base, checkOther
    <2> QED
        BY <1>5, <2>1, MonitorKeepsRow, RowIdsKept DEF Base
<1>6. ASSUME NEW s \in Streams, DeleteStarts(s) PROVE RowIds'
    <2>1. /\ deletion'.pc = "read"
          /\ deletion'.ids = IF profile.id # 0 /\ profile.stream = s
                             THEN {profile.id} ELSE {}
          /\ UNCHANGED <<streams, profile, lastProfile, capJobs>>
        BY <1>6 DEF DeleteStarts, deleteOther
    <2> QED
        BY <1>0, <2>1 DEF Base, RowIds
<1>7. CASE DeleteCommits
    <2>1. /\ deletion'.ids = deletion.ids
          /\ UNCHANGED <<lastProfile, capJobs>>
          /\ streams' = streams \ {deletion.stream}
          /\ \/ profile' = NoProfile
             \/ /\ profile' = profile /\ profile.id \notin deletion.ids
                /\ profile.stream # deletion.stream
        BY <1>0, <1>7 DEF DeleteCommits, deleteOther, DeletionRecords
    <2> QED
        BY <1>0, <2>1 DEF Base, RowIds, NoProfile
<1>8. CASE DeleteJobs
    BY <1>8, RowIdsKept DEF DeleteJobs, deleteOther
<1>9. CASE Restart
    BY <1>9, RowIdsKept DEF Restart, RestoredJobs, tables
<1>10. CASE (\E i \in capJobs : CaptureOrphan(i)) \/ PowerOff
    BY <1>10, RowIdsKept DEF CaptureOrphan, PowerOff, tables
<1>11. CASE GraceExpires \/ (\E p \in PrintIds : DeletePrint(p)) \/ UNCHANGED vars
    BY <1>11, RowIdsKept DEF GraceExpires, DeletePrint, pollOther, vars
<1> QED
    BY <1>1, <1>2, <1>3, <1>4, <1>5, <1>6, <1>7, <1>8, <1>9, <1>10, <1>11
       DEF Next, Put, StreamDeletion

\* A step that leaves the poll alone or ends it, takes no request up, starts
\* no deletion and marks no profile keeps what the handlers remember.
LEMMA HandlersKept ==
    ASSUME Base,
           \/ poll' = poll /\ lastProfile' = lastProfile
           \/ poll'.pc \in {"idle", "asked"},
           put' = put \/ put' = "idle",
           check' = check \/ check' = CheckIdle,
           profile'.auto => profile.auto,
           deletion' = deletion \/ deletion' = DeletionIdle
    PROVE  HandlersFree'
BY DEF Base, HandlersFree, CheckIdle, DeletionIdle, Running

\* What _reconcile leaves to the second half of a poll.
LEMMA ReconcileHandlers ==
    ASSUME Base, NEW c \in Configs, Running(c), NEW st \in Statuses,
           Reconcile(c, st), put = "idle", UNCHANGED pollOther
    PROVE  HandlersFree'
<1>1. /\ poll'.pc \in {"idle", "opened", "closed"}
      /\ poll'.pc = "closed" => poll'.cfg = c
      /\ poll'.pc = "opened" => poll'.profile \in 1 .. lastProfile'
      /\ profile'.auto => profile.auto
    BY ReconcileRows
<1> QED
    BY <1>1 DEF pollOther, Base, HandlersFree, Running

\* Every step keeps what the handlers remember.
LEMMA NextHandlersFree ==
    ASSUME Base, [Next]_vars
    PROVE  HandlersFree'
<1>1. ASSUME NEW st \in Replies, PollAnswered(st) PROVE HandlersFree'
    <2>1. st \in Statuses /\ cfg \in Configs /\ put = "idle"
        BY <1>1, PrintCaptureAssumption
           DEF Replies, Statuses, Base, IInv, TypeOK, PollAnswered, LoopFree
    <2>2. CASE StillRunning
        BY <1>1, <2>1, <2>2, ReconcileHandlers DEF PollAnswered, StillRunning
    <2>3. CASE ~StillRunning
        BY <1>1, <2>3, HandlersKept
           DEF PollAnswered, PollFails, PollIdle, pollOther
    <2> QED
        BY <2>2, <2>3
<1>2. CASE PollAgain
    <2>1. /\ poll.cfg \in Configs /\ poll.status \in Statuses
          /\ Running(poll.cfg)
        BY <1>2 DEF PollAgain, Base, IInv, TypeOK, PollRecords, PollCarries,
                    HandlersFree
    <2> QED
        BY <1>2, <2>1, ReconcileHandlers DEF PollAgain
<1>3. CASE PollClosed
    <2>1. /\ poll'.pc \in {"again", "idle"}
          /\ poll'.pc = "again" => poll'.cfg = poll.cfg
          /\ UNCHANGED <<put, check, profile, deletion>>
        BY <1>3 DEF PollClosed, PollIdle, pollOther, Base, IInv, TypeOK,
                    PollRecords
    <2>2. Running(poll.cfg)
        BY <1>3 DEF PollClosed, Base, HandlersFree
    <2> QED
        BY <2>1, <2>2 DEF Base, HandlersFree, Running
<1>4. CASE PollGivesUp
    <2>1. ~profile'.auto
        BY <1>4 DEF PollGivesUp, SwitchedOff, Base, IInv, TypeOK, ProfileRows
    <2> QED
        BY <1>4, <2>1, HandlersKept DEF PollGivesUp, PollIdle, pollOther
<1>5. CASE PollStart \/ PollUnanswered \/ GiveUpRaises \/ PollAddsJob
    BY <1>5, HandlersKept
       DEF PollStart, PollUnanswered, PollFails, GiveUpRaises, PollAddsJob,
           PollIdle, pollOther
<1>6. ASSUME NEW c \in Configs, PutSaves(c) PROVE HandlersFree'
    BY <1>6 DEF PutSaves, LoopFree, putOther, Base, HandlersFree, Running
<1>7. CASE PutRaises
    BY <1>7, HandlersKept DEF PutRaises, putOther
<1>8. CASE PutSwitchesOn \/ PutSwitchesOff
    <2>1. poll.pc \notin {"opened", "closed"}
        BY <1>8 DEF PutSwitchesOn, PutSwitchesOff, Base, HandlersFree
    <2>2. profile'.auto => profile.auto
        <3>1. ~EnsureRaises(cfg) /\ cfg \in Configs
            BY <1>8 DEF PutSwitchesOn, PutSwitchesOff, Base, IInv, TypeOK
        <3>2. Ensured(cfg).auto => profile.auto
            BY <3>1, EnsuredRow DEF Base
        <3>3. Ensured(cfg) \in ProfileRows
            BY <3>1, EnsuredType DEF Base, IInv
        <3> QED
            BY <1>8, <3>2, <3>3
               DEF PutSwitchesOn, PutSwitchesOff, CutOff, ProfileRows
    <2> QED
        BY <1>8, <2>1, <2>2
           DEF PutSwitchesOn, PutSwitchesOff, putOther, Base, HandlersFree
<1>9. CASE HealthMonitor
    <2>1. UNCHANGED checkOther
        BY <1>9, MonitorKeepsRow DEF Base
    <2>2. "flap" \notin Env => FALSE
        BY <1>9 DEF HealthMonitor, CheckStart, CheckQuiet, CheckRecovers,
                    CheckCondemns, CheckCommits, Base, HandlersFree
    <2> QED
        BY <2>1, <2>2 DEF checkOther, Base, HandlersFree
<1>10. CASE StreamDeletion
    <2>1. "delete_stream" \notin Env => FALSE
        BY <1>10 DEF StreamDeletion, DeleteStarts, DeleteCommits, DeleteJobs,
                     Base, HandlersFree
    <2>2. UNCHANGED <<poll, put, check, lastProfile>>
        BY <1>10 DEF StreamDeletion, DeleteStarts, DeleteCommits, DeleteJobs,
                     deleteOther
    <2>3. profile'.auto => profile.auto
        BY <1>10 DEF StreamDeletion, DeleteStarts, DeleteCommits, DeleteJobs,
                     deleteOther, NoProfile
    <2> QED
        BY <2>1, <2>2, <2>3 DEF Base, HandlersFree
<1>11. CASE Restart
    BY <1>11, HandlersKept DEF Restart, PollIdle, tables
<1>12. CASE (\E i \in capJobs : CaptureOrphan(i)) \/ PowerOff
    BY <1>12, HandlersKept DEF CaptureOrphan, PowerOff, tables
<1>13. CASE GraceExpires \/ (\E p \in PrintIds : DeletePrint(p)) \/ UNCHANGED vars
    BY <1>13, HandlersKept DEF GraceExpires, DeletePrint, pollOther, vars
<1> QED
    BY <1>1, <1>2, <1>3, <1>4, <1>5, <1>6, <1>7, <1>8, <1>9, <1>10, <1>11,
       <1>12, <1>13
       DEF Next, Poller, Put

\* The first layer is an invariant.
LEMMA BaseInvariance == Spec => []Base
<1>1. Init => Base
    <2>1. Init => RowIds /\ HandlersFree
        BY DEF Init, RowIds, HandlersFree, NoProfile, PollIdle, CheckIdle,
               DeletionIdle
    <2> QED
        BY <2>1, InitIInv DEF Base
<1>2. Base /\ [Next]_vars => Base'
    <2>1. ASSUME Base, [Next]_vars PROVE IInv'
        BY <2>1, NextIInv DEF Base
    <2> QED
        BY <2>1, NextRowIds, NextHandlersFree DEF Base
<1> QED
    BY <1>1, <1>2, PTL DEF Spec

-----------------------------------------------------------------------------
(* The loop is kept *)

(***************************************************************************)
(* When nothing emits in the middle of a change, the health monitor never  *)
(* holds a verdict, and the two halves of a job-id change are one: the     *)
(* configuration the second half uses is the one in the table.             *)
(***************************************************************************)
LoopKept ==
    /\ check.pc # "emitting"
    /\ poll.pc = "closed" /\ poll.again => ~Notify
    /\ poll.pc = "again" => ~Notify /\ put = "idle"
    /\ poll.pc \in {"closed", "again"} => poll.cfg = cfg

\* A step of _reconcile, in its full context: the configuration is the one in
\* the table, it is running, and no request is half done.
Reconciles(st) ==
    /\ Reconcile(cfg, st)
    /\ Running(cfg) /\ put = "idle"
    /\ poll.pc \in {"asked", "again"}
    /\ UNCHANGED pollOther

\* A poll without a print id change cannot see one when there is one id.
LEMMA NoJobChange ==
    ASSUME IInv, NEW st \in Statuses, JobChanged(st)
    PROVE  \E i, j \in JobIds : i # j
<1>1. PICK p \in OpenPrints : prints[p].job \notin {NoJob, st.job}
    BY DEF JobChanged
<1>2. prints[p].job \in JobIds \cup {NoJob}
    BY DEF OpenPrints, IInv, TypeOK, PrintRows
<1>3. st.job \in JobIds
    BY DEF JobChanged, Statuses
<1> QED
    BY <1>1, <1>2, <1>3

\* The second half of a poll finds the configuration it began with.
LEMMA PollReconciles ==
    ASSUME Base, LoopKept, PollAgain \/ \E st \in Replies : PollAnswered(st)
    PROVE  \/ \E st \in Statuses : Reconciles(st)
           \/ PollFails /\ UNCHANGED pollOther
<1>1. CASE PollAgain
    <2>1. /\ poll.status \in Statuses /\ Running(poll.cfg)
          /\ poll.cfg = cfg /\ put = "idle"
        BY <1>1 DEF PollAgain, LoopKept, Base, IInv, PollCarries, HandlersFree
    <2> QED
        BY <1>1, <2>1 DEF PollAgain, Reconciles
<1>2. ASSUME NEW st \in Replies, PollAnswered(st)
      PROVE  Reconciles(st) \/ (PollFails /\ UNCHANGED pollOther)
    BY <1>2 DEF PollAnswered, StillRunning, LoopFree, Reconciles
<1>3. Replies \subseteq Statuses
    BY PrintCaptureAssumption DEF Replies, Statuses
<1> QED
    BY <1>1, <1>2, <1>3

\* A step that leaves the configuration alone, and the poll or ends it.
LEMMA LoopFrame ==
    ASSUME LoopKept,
           poll' = poll \/ poll'.pc \notin {"closed", "again"},
           check'.pc # "emitting",
           put' = put \/ put' = "idle",
           cfg' = cfg
    PROVE  LoopKept'
BY DEF LoopKept

\* Every step keeps it.
LEMMA NextLoopKept ==
    ASSUME Uninterrupted, Base, LoopKept, [Next]_vars
    PROVE  LoopKept'
<1>1. ASSUME NEW st \in Statuses, Reconciles(st) PROVE LoopKept'
    <2>1. CASE OpensPrint(cfg, st) \/ KeepsPrint(cfg, st) \/ CloseRaises(cfg, st)
                \/ PollFails
        <3>1. poll'.pc \notin {"closed", "again"}
            <4>1. OpensPrint(cfg, st) => poll'.pc = "opened"
                BY DEF OpensPrint, PollIdle
            <4>2. poll' = PollIdle => poll'.pc = "idle"
                BY DEF PollIdle
            <4> QED
                BY <2>1, <4>1, <4>2 DEF KeepsPrint, CloseRaises, PollFails
        <3> QED
            BY <1>1, <3>1, LoopFrame DEF Reconciles, pollOther, LoopKept
    <2>2. ASSUME NEW state, NEW again \in BOOLEAN,
                 again => JobChanged(st),
                 ClosesPrint(cfg, st, state, again)
          PROVE  LoopKept'
        <3>1. again => ~Notify
            BY <2>2, NoJobChange DEF Uninterrupted, Base
        <3>2. poll'.pc = "closed" /\ poll'.again = again /\ poll'.cfg = cfg
            BY <2>2 DEF ClosesPrint
        <3> QED
            BY <1>1, <3>1, <3>2 DEF Reconciles, pollOther, LoopKept
    <2> QED
        BY <1>1, <2>1, <2>2 DEF Reconciles, Reconcile
<1>2. CASE PollAgain \/ \E st \in Replies : PollAnswered(st)
    <2>1. CASE PollFails /\ UNCHANGED pollOther
        BY <2>1, LoopFrame DEF PollFails, PollIdle, pollOther, LoopKept
    <2> QED
        BY <1>1, <1>2, <2>1, PollReconciles
<1>3. CASE PollClosed
    <2>1. /\ \/ poll'.pc = "idle"
             \/ poll'.pc = "again" /\ poll.again /\ poll'.cfg = poll.cfg
          /\ UNCHANGED <<cfg, put, check>>
        BY <1>3 DEF PollClosed, PollIdle, pollOther, Base, IInv, TypeOK,
                    PollRecords
    <2>2. poll.pc = "closed" /\ put = "idle"
        BY <1>3 DEF PollClosed, Base, HandlersFree
    <2> QED
        BY <2>1, <2>2 DEF LoopKept
<1>4. CASE PollStart \/ PollUnanswered \/ PollGivesUp \/ GiveUpRaises
            \/ PollAddsJob
    BY <1>4, LoopFrame
       DEF PollStart, PollUnanswered, PollFails, PollGivesUp, GiveUpRaises,
           PollAddsJob, PollIdle, pollOther, LoopKept
<1>5. ASSUME NEW c \in Configs, PutSaves(c) PROVE LoopKept'
    BY <1>5 DEF PutSaves, LoopFree, putOther, LoopKept
<1>6. CASE PutRaises \/ PutSwitchesOn \/ PutSwitchesOff
    BY <1>6, LoopFrame
       DEF PutRaises, PutSwitchesOn, PutSwitchesOff, putOther, LoopKept
<1>7. CASE HealthMonitor
    <2>1. UNCHANGED checkOther
        BY <1>7, MonitorKeepsRow DEF Base
    <2>2. ~Notify
        BY <1>7 DEF HealthMonitor, CheckStart, CheckQuiet, CheckRecovers,
                    CheckCondemns, CheckCommits, Base, HandlersFree,
                    Uninterrupted
    <2>3. check'.pc # "emitting"
        <3>1. (\E s \in Streams : CheckStart(s)) => check'.pc = "probing"
            BY DEF CheckStart, CheckIdle
        <3>2. ~(\E s \in Streams : CheckStart(s)) => check' = CheckIdle
            BY <1>7, <2>2, Zenon
               DEF HealthMonitor, CheckQuiet, CheckRecovers, CheckCondemns,
                   CheckCommits, CheckDecides
        <3> QED
            BY <3>1, <3>2 DEF CheckIdle
    <2> QED
        BY <2>1, <2>3, LoopFrame DEF checkOther
<1>8. CASE StreamDeletion
    BY <1>8, LoopFrame
       DEF StreamDeletion, DeleteStarts, DeleteCommits, DeleteJobs,
           deleteOther, LoopKept
<1>9. CASE Restart
    BY <1>9, LoopFrame DEF Restart, PollIdle, CheckIdle, tables
<1>10. CASE (\E i \in capJobs : CaptureOrphan(i)) \/ PowerOff
    BY <1>10, LoopFrame DEF CaptureOrphan, PowerOff, tables, LoopKept
<1>11. CASE GraceExpires \/ (\E p \in PrintIds : DeletePrint(p)) \/ UNCHANGED vars
    BY <1>11, LoopFrame
       DEF GraceExpires, DeletePrint, pollOther, vars, LoopKept
<1> QED
    BY <1>2, <1>3, <1>4, <1>5, <1>6, <1>7, <1>8, <1>9, <1>10, <1>11
       DEF Next, Poller, Put

-----------------------------------------------------------------------------
(* A print in flight and the managed profile *)

\* The managed profile films the print: it exists, is bound to the print's
\* camera, which is also the configured one, and is enabled or marked by the
\* health monitor that took it down.
Films(p) ==
    /\ profile.id # 0 /\ profile.stream = prints[p].stream
    /\ cfg.stream = profile.stream
    /\ \/ profile.enabled
       \/ profile.auto /\ health[profile.stream].status = "unhealthy"

FilmInv ==
    /\ \A p \in OpenPrints : Films(p)
    /\ deletion.pc = "read" /\ profile.id \in deletion.ids =>
            /\ profile.stream = deletion.stream
            /\ cfg.stream \in {profile.stream, NoStream}

Filming == Base /\ LoopKept /\ FilmInv

\* A step that leaves the rows alone, or only ends prints.
LEMMA FilmFrame ==
    ASSUME FilmInv, UNCHANGED <<cfg, health, profile>>,
           \A p \in PrintIds : \/ prints'[p] = prints[p]
                               \/ prints'[p].status # "printing",
           deletion' = deletion \/ deletion'.pc = "idle"
    PROVE  FilmInv'
<1>1. \A p \in OpenPrints' : p \in OpenPrints /\ prints'[p] = prints[p]
    BY DEF OpenPrints
<1> QED
    BY <1>1 DEF FilmInv, Films

\* While a print is open, ensure_managed_profile finds what it wants.
LEMMA EnsuredIsProfile ==
    ASSUME Base, FilmInv, Active
    PROVE  Ensured(cfg) = profile /\ EnsuredLast(cfg) = lastProfile
<1>1. profile.id # 0 /\ cfg.stream = profile.stream
    BY DEF FilmInv, Films, Active
<1>2. profile \in ProfileRows /\ lastProfile \in Nat
      /\ profile.id \in 0 .. lastProfile
    BY DEF Base, IInv, TypeOK, RowIds
<1>3. [profile EXCEPT !.stream = cfg.stream] = profile
    BY <1>1, <1>2 DEF ProfileRows
<1>4. Ensured(cfg) = profile
    BY <1>1, <1>3 DEF Ensured
<1> QED
    BY <1>2, <1>4 DEF EnsuredLast

\* A managed row that a deletion is about to take is on the deleted stream,
\* also after ensure_managed_profile.
LEMMA EnsuredOfDeleted ==
    ASSUME Base, FilmInv, ~EnsureRaises(cfg), deletion.pc = "read",
           Ensured(cfg).id \in deletion.ids
    PROVE  /\ Ensured(cfg).stream = deletion.stream
           /\ cfg.stream \in {Ensured(cfg).stream, NoStream}
<1>1. /\ lastProfile \in Nat /\ deletion.ids \subseteq 1 .. lastProfile
      /\ cfg \in Configs
    BY DEF Base, IInv, TypeOK, RowIds
<1>2. lastProfile + 1 \notin deletion.ids
    BY <1>1
<1>3. Ensured(cfg).id = profile.id
    BY <1>1, <1>2, EnsuredRow DEF Base
<1> QED
    BY <1>1, <1>3, EnsuredRow DEF FilmInv, Base

\* Once no print is open, only a pending deletion has something to say.
LEMMA FilmAfterClose ==
    ASSUME Base, FilmInv, UNCHANGED <<cfg, deletion>>, OpenPrints' = {},
           \/ profile'.id = profile.id /\ profile'.stream = profile.stream
           \/ /\ ~EnsureRaises(cfg)
              /\ profile'.id = Ensured(cfg).id
              /\ profile'.stream = Ensured(cfg).stream
    PROVE  FilmInv'
BY EnsuredOfDeleted DEF FilmInv

\* Every way through _reconcile keeps the print in flight filmed.
LEMMA ReconcileFilms ==
    ASSUME Filming, NEW st \in Statuses, Reconciles(st)
    PROVE  FilmInv'
<1>0. /\ profile \in ProfileRows /\ cfg \in Configs /\ lastPrint \in 0 .. MaxPrints
      /\ prints \in [PrintIds -> PrintRows]
      /\ cfg.stream # NoStream
      /\ Ensured(cfg) \in ProfileRows
      /\ UNCHANGED <<cfg, deletion, health>>
    BY EnsuredType DEF Filming, Base, IInv, TypeOK, Reconciles, pollOther, Running
<1>1. CASE OpensPrint(cfg, st)
    <2> DEFINE n == lastPrint + 1
    <2>1. n \in PrintIds
        BY <1>0, <1>1, PrintCaptureAssumption DEF OpensPrint, PrintIds
    <2>2. OpenPrints' = {n} /\ prints'[n].stream = cfg.stream
        BY <1>0, <1>1, <2>1 DEF OpensPrint, OpenPrints, Active
    <2>3. /\ profile'.id = Ensured(cfg).id /\ profile'.id # 0
          /\ profile'.stream = cfg.stream /\ profile'.enabled
          /\ Ensured(cfg).stream = cfg.stream /\ ~EnsureRaises(cfg)
        BY <1>0, <1>1, EnsuredRow DEF OpensPrint, Filming, Base, ProfileRows
    <2> QED
        BY <1>0, <2>2, <2>3, EnsuredOfDeleted DEF FilmInv, Films, Filming
<1>2. CASE KeepsPrint(cfg, st)
    <2>1. PICK p \in OpenPrints, late \in BOOLEAN :
            prints' = [prints EXCEPT ![p].est = @ \/ late]
        BY <1>2 DEF KeepsPrint
    <2>2. /\ profile' = profile
          /\ OpenPrints' = OpenPrints
          /\ \A q \in OpenPrints : prints'[q].stream = prints[q].stream
        BY <1>0, <1>2, <2>1, EnsuredIsProfile
           DEF KeepsPrint, Active, OpenPrints, PrintRows, Filming
    <2> QED
        BY <1>0, <2>2 DEF FilmInv, Films, Filming
<1>3. ASSUME NEW state, NEW again, ClosesPrint(cfg, st, state, again)
      PROVE  FilmInv'
    <2>1. PICK p \in OpenPrints :
            /\ Decide(TRUE, state).stop
            /\ prints' = [prints EXCEPT ![p].status = Decide(TRUE, state).outcome]
        BY <1>3 DEF ClosesPrint
    <2>2. Decide(TRUE, state).outcome # "printing"
        BY DEF Decide, Outcome
    <2>3. OpenPrints' = {}
        BY <1>0, <2>1, <2>2
           DEF OpenPrints, PrintRows, Filming, Base, IInv, AtMostOneOpen
    <2>4. /\ ~EnsureRaises(cfg)
          /\ profile'.id = Ensured(cfg).id
          /\ profile'.stream = Ensured(cfg).stream
        BY <1>0, <1>3 DEF ClosesPrint, SwitchedOff, ProfileRows
    <2> QED
        BY <1>0, <2>3, <2>4, FilmAfterClose DEF Filming
<1>4. CASE CloseRaises(cfg, st) \/ PollFails
    BY <1>0, <1>4, EnsuredIsProfile, FilmFrame
       DEF CloseRaises, PollFails, Filming
<1> QED
    BY <1>1, <1>2, <1>3, <1>4 DEF Reconciles, Reconcile

(***************************************************************************)
(* What a health check does when its verdict is committed at once: it      *)
(* leaves the managed profile as it is, and does not heal the camera of a  *)
(* marked one; it puts a marked profile back, with its job; or it takes an *)
(* enabled one down, without its job and with the marker.                  *)
(***************************************************************************)
CheckLeaves ==
    /\ profile' = profile /\ capJobs' = capJobs
    /\ profile.auto /\ health[profile.stream].status = "unhealthy" =>
            health'[profile.stream].status = "unhealthy"

CheckPutsBack ==
    /\ profile.auto /\ profile'.enabled /\ ~profile'.auto
    /\ capJobs' = capJobs \cup {profile.id}

CheckTakesDown ==
    /\ profile.enabled /\ ~profile'.enabled /\ profile'.auto
    /\ capJobs' = capJobs \ {profile.id}
    /\ health'[profile.stream].status = "unhealthy"

Checked == profile.id # 0 => CheckLeaves \/ CheckPutsBack \/ CheckTakesDown

\* A commit of a verdict on the managed profile's own row.
LEMMA CommitsRow ==
    ASSUME IInv, NEW s, NEW found \in {"healthy", "unhealthy", "failed"},
           NEW id, NEW dirty, Commits(s, found, id, dirty),
           s \in streams, dirty = {} \/ profile.id = id
    PROVE  /\ health' = [health EXCEPT ![s] = HealthAfter(@, found)]
           /\ dirty = {} => profile' = profile
           /\ profile'.enabled = IF "enabled" \in dirty THEN found = "healthy"
                                 ELSE profile.enabled
           /\ profile'.auto = IF "auto" \in dirty THEN found = "unhealthy"
                              ELSE profile.auto
<1>1. profile \in ProfileRows
    BY DEF IInv, TypeOK
<1>2. profile' = [profile EXCEPT
            !.enabled = IF "enabled" \in dirty THEN found = "healthy" ELSE @,
            !.auto = IF "auto" \in dirty THEN found = "unhealthy" ELSE @]
    BY DEF Commits
<1> QED
    BY <1>1, <1>2 DEF Commits, ProfileRows

\* The health monitor when nothing interrupts it.
LEMMA MonitorChecks ==
    ASSUME Uninterrupted, Base, LoopKept, HealthMonitor
    PROVE  Checked
<1> SUFFICES ASSUME profile.id # 0
             PROVE  CheckLeaves \/ CheckPutsBack \/ CheckTakesDown
    BY DEF Checked
<1>0. /\ profile \in ProfileRows /\ health \in [Streams -> HealthRows]
      /\ profile.stream \in streams /\ streams \subseteq Streams
      /\ check.pc # "emitting"
    BY DEF Base, IInv, TypeOK, RowIds, LoopKept
<1>1. ~Notify
    BY DEF HealthMonitor, CheckStart, CheckQuiet, CheckRecovers,
           CheckCondemns, CheckCommits, Base, HandlersFree, Uninterrupted
<1>2. CASE \E s \in Streams : CheckStart(s)
    BY <1>2 DEF CheckStart, CheckLeaves
<1> DEFINE s == check.stream
<1>3. ASSUME NEW found \in {"healthy", "unhealthy", "failed"},
             Commits(s, found, 0, {}), capJobs' = capJobs,
             found = "healthy" => health[s].status # "unhealthy"
      PROVE  CheckLeaves
    <2>1. CASE s \notin streams
        BY <2>1, <1>3 DEF Commits, CheckLeaves
    <2>2. CASE s \in streams
        <3>1. /\ health' = [health EXCEPT ![s] = HealthAfter(@, found)]
              /\ profile' = profile
            BY <1>3, <2>2, CommitsRow DEF Base
        <3>2. health[s].status = "unhealthy" =>
                HealthAfter(health[s], found).status = "unhealthy"
            BY <1>0, <1>3, <2>2 DEF HealthAfter, HealthRows
        <3> QED
            BY <1>0, <1>3, <2>2, <3>1, <3>2 DEF CheckLeaves
    <2> QED
        BY <2>1, <2>2
<1>4. CASE CheckQuiet
    BY <1>3, <1>4 DEF CheckQuiet
<1>5. CASE CheckRecovers
    <2> DEFINE marked == profile.stream = s /\ profile.auto
               dirty == IF ~marked THEN {}
                        ELSE IF profile.enabled THEN {"auto"}
                                                ELSE {"enabled", "auto"}
    <2>1. /\ Commits(s, "healthy", profile.id, dirty)
          /\ capJobs' = IF marked THEN capJobs \cup {profile.id} ELSE capJobs
        BY <1>1, <1>5 DEF CheckRecovers, CheckDecides
    <2>2. CASE s \notin streams
        BY <1>0, <2>1, <2>2 DEF Commits, CheckLeaves
    <2>3. CASE s \in streams
        <3>1. /\ health' = [health EXCEPT ![s] = HealthAfter(@, "healthy")]
              /\ dirty = {} => profile' = profile
              /\ profile'.enabled = IF "enabled" \in dirty THEN TRUE
                                    ELSE profile.enabled
              /\ profile'.auto = IF "auto" \in dirty THEN FALSE ELSE profile.auto
            BY <2>1, <2>3, CommitsRow DEF Base
        <3>2. marked => CheckPutsBack
            BY <2>1, <3>1 DEF CheckPutsBack
        <3>3. ~marked => CheckLeaves
            BY <1>0, <2>1, <3>1 DEF CheckLeaves
        <3> QED
            BY <3>2, <3>3
    <2> QED
        BY <2>2, <2>3
<1>6. CASE CheckCondemns
    <2> DEFINE hit == profile.stream = s /\ profile.enabled
               dirty == IF hit THEN CondemnedColumns ELSE {}
    <2>1. /\ Commits(s, "unhealthy", profile.id, dirty)
          /\ capJobs' = IF hit THEN capJobs \ {profile.id} ELSE capJobs
        BY <1>1, <1>6 DEF CheckCondemns, CheckDecides
    <2>2. CASE s \notin streams
        BY <1>0, <2>1, <2>2 DEF Commits, CheckLeaves
    <2>3. CASE s \in streams
        <3>1. /\ health' = [health EXCEPT ![s] = HealthAfter(@, "unhealthy")]
              /\ dirty = {} => profile' = profile
              /\ profile'.enabled = IF "enabled" \in dirty
                                    THEN "unhealthy" = "healthy"
                                    ELSE profile.enabled
              /\ profile'.auto = IF "auto" \in dirty
                                 THEN "unhealthy" = "unhealthy"
                                 ELSE profile.auto
            BY <2>1, <2>3, CommitsRow DEF Base
        <3>2. health'[s].status = "unhealthy"
            BY <1>0, <2>3, <3>1 DEF HealthAfter
        <3>3. hit => CheckTakesDown
            BY <2>1, <3>1, <3>2 DEF CheckTakesDown, CondemnedColumns
        <3>4. ~hit => CheckLeaves
            BY <1>0, <2>1, <2>3, <3>1, <3>2 DEF CheckLeaves
        <3> QED
            BY <3>3, <3>4
    <2> QED
        BY <2>2, <2>3
<1> QED
    BY <1>0, <1>2, <1>4, <1>5, <1>6 DEF HealthMonitor, CheckCommits

\* Every step keeps the print in flight filmed, when no other camera is chosen
\* during it.
LEMMA NextFilms ==
    ASSUME Uninterrupted, Bound, Filming, [Next]_vars
    PROVE  FilmInv'
<1>0. /\ profile \in ProfileRows /\ cfg \in Configs
      /\ prints \in [PrintIds -> PrintRows]
      /\ deletion \in DeletionRecords
      /\ FilmInv /\ Base /\ LoopKept /\ IInv
    BY DEF Filming, Base, IInv, TypeOK
<1>1. CASE PollAgain \/ \E st \in Replies : PollAnswered(st)
    <2>1. CASE PollFails /\ UNCHANGED pollOther
        BY <1>0, <2>1, FilmFrame DEF PollFails, pollOther
    <2> QED
        BY <1>0, <1>1, <2>1, PollReconciles, ReconcileFilms
<1>2. CASE PollGivesUp
    <2>1. PICK p \in OpenPrints :
            prints' = [prints EXCEPT ![p].status = "cancelled"]
        BY <1>2 DEF PollGivesUp
    <2>2. OpenPrints' = {}
        BY <1>0, <2>1 DEF OpenPrints, PrintRows, IInv, AtMostOneOpen
    <2>3. profile'.id = profile.id /\ profile'.stream = profile.stream
        BY <1>0, <1>2 DEF PollGivesUp, SwitchedOff, ProfileRows
    <2> QED
        BY <1>0, <1>2, <2>2, <2>3, FilmAfterClose DEF PollGivesUp, pollOther
<1>3. CASE PollStart \/ PollUnanswered \/ GiveUpRaises \/ PollAddsJob
            \/ PollClosed
    BY <1>0, <1>3, FilmFrame
       DEF PollStart, PollUnanswered, PollFails, GiveUpRaises, PollAddsJob,
           PollClosed, pollOther
<1>4. ASSUME NEW c \in Configs, PutSaves(c) PROVE FilmInv'
    <2>1. UNCHANGED <<profile, prints, health, deletion>> /\ cfg' = c
        BY <1>4 DEF PutSaves, putOther
    <2>2. CASE c.stream = cfg.stream
        BY <1>0, <2>1, <2>2 DEF FilmInv, Films, OpenPrints
    <2>3. CASE c.stream # cfg.stream
        <3>1. OpenPrints = {} /\ deletion.pc = "idle"
            BY <1>4, <2>3 DEF PutSaves, MayRebind, Bound, Active
        <3> QED
            BY <2>1, <3>1 DEF FilmInv, OpenPrints
    <2> QED
        BY <2>2, <2>3
<1>5. CASE PutRaises
    BY <1>0, <1>5, FilmFrame DEF PutRaises, putOther
<1>6. CASE PutSwitchesOn
    <2>1. CASE Active
        BY <1>0, <1>6, <2>1, EnsuredIsProfile, FilmFrame
           DEF PutSwitchesOn, putOther
    <2>2. CASE ~Active
        BY <1>0, <1>6, <2>2, FilmAfterClose
           DEF PutSwitchesOn, putOther, Active, OpenPrints
    <2> QED
        BY <2>1, <2>2
<1>7. CASE PutSwitchesOff
    <2>1. OpenPrints' = {}
        BY <1>0, <1>7 DEF PutSwitchesOff, CancelledPrints, OpenPrints, PrintRows
    <2>2. /\ profile'.id = Ensured(cfg).id
          /\ profile'.stream = Ensured(cfg).stream
        BY <1>0, <1>7, EnsuredType DEF PutSwitchesOff, CutOff, ProfileRows, IInv
    <2> QED
        BY <1>0, <1>7, <2>1, <2>2, FilmAfterClose DEF PutSwitchesOff, putOther
<1>8. CASE HealthMonitor
    <2>1. /\ UNCHANGED <<cfg, prints, deletion>>
          /\ profile'.id = profile.id /\ profile'.stream = profile.stream
        BY <1>0, <1>8, MonitorKeepsRow DEF checkOther
    <2>2. profile.id # 0 => CheckLeaves \/ CheckPutsBack \/ CheckTakesDown
        BY <1>0, <1>8, MonitorChecks DEF Checked
    <2>3. ASSUME NEW p \in OpenPrints' PROVE Films(p)'
        <3>1. p \in OpenPrints /\ Films(p)
            BY <1>0, <2>1, <2>3 DEF OpenPrints, FilmInv
        <3> QED
            BY <2>1, <2>2, <3>1
               DEF Films, CheckLeaves, CheckPutsBack, CheckTakesDown
    <2> QED
        BY <1>0, <2>1, <2>3 DEF FilmInv
<1>9. ASSUME NEW s \in Streams, DeleteStarts(s) PROVE FilmInv'
    <2>1. /\ UNCHANGED <<cfg, health, profile, prints>>
          /\ profile.id = 0 \/ cfg.stream \in {profile.stream, NoStream}
          /\ deletion'.stream = s
          /\ deletion'.ids = IF profile.id # 0 /\ profile.stream = s
                             THEN {profile.id} ELSE {}
        BY <1>9 DEF DeleteStarts, deleteOther, Bound
    <2> QED
        BY <1>0, <2>1 DEF FilmInv, Films, OpenPrints
<1>10. CASE DeleteCommits
    <2>1. /\ UNCHANGED <<cfg, health>> /\ deletion.pc = "read"
          /\ deletion'.pc = "committed"
        BY <1>0, <1>10 DEF DeleteCommits, deleteOther, DeletionRecords
    <2>2. ASSUME NEW p \in OpenPrints' PROVE Films(p)'
        <3>1. /\ p \in OpenPrints /\ prints'[p] = prints[p]
              /\ prints[p].stream # deletion.stream
            BY <1>0, <1>10, <2>2 DEF DeleteCommits, OpenPrints, PrintRows
        <3>2. Films(p) /\ profile.id \notin deletion.ids
            BY <1>0, <2>1, <3>1 DEF FilmInv, Films
        <3>3. profile' = profile
            BY <1>10, <3>1, <3>2 DEF DeleteCommits, Films
        <3> QED
            BY <2>1, <3>1, <3>2, <3>3 DEF Films
    <2> QED
        BY <2>1, <2>2 DEF FilmInv
<1>11. CASE DeleteJobs
    BY <1>0, <1>11, FilmFrame DEF DeleteJobs, DeletionIdle, deleteOther
<1>12. ASSUME NEW p \in PrintIds, DeletePrint(p) PROVE FilmInv'
    BY <1>0, <1>12, FilmFrame DEF DeletePrint, PrintRows
<1>13. CASE Restart
    BY <1>0, <1>13, FilmFrame DEF Restart, DeletionIdle, tables
<1>14. CASE (\E i \in capJobs : CaptureOrphan(i)) \/ PowerOff \/ GraceExpires
             \/ UNCHANGED vars
    BY <1>0, <1>14, FilmFrame
       DEF CaptureOrphan, PowerOff, GraceExpires, tables, pollOther, vars
<1> QED
    BY <1>1, <1>2, <1>3, <1>4, <1>5, <1>6, <1>7, <1>8, <1>9, <1>10, <1>11,
       <1>12, <1>13, <1>14
       DEF Next, Poller, Put, StreamDeletion

-----------------------------------------------------------------------------
(* The rising edge between its commit and its scheduler call *)

\* A profile that is about to get its job is still enabled and its print open.
OpenedFilmed ==
    poll.pc = "opened" /\ profile.id = poll.profile => profile.enabled /\ Active

\* The rising edge switches the profile on and opens the print.
LEMMA OpensFilmed ==
    ASSUME IInv, NEW c \in Configs, NEW st, OpensPrint(c, st)
    PROVE  profile'.enabled /\ Active'
<1>1. lastPrint + 1 \in PrintIds
    BY PrintCaptureAssumption DEF OpensPrint, IInv, TypeOK, PrintIds
<1>2. prints'[lastPrint + 1].status = "printing"
    BY <1>1 DEF OpensPrint, IInv, TypeOK
<1>3. profile'.enabled
    BY EnsuredType DEF OpensPrint, IInv, ProfileRows
<1> QED
    BY <1>1, <1>2, <1>3 DEF Active, OpenPrints

\* Only a rising edge leaves a poll there.
LEMMA ReconcileOpened ==
    ASSUME IInv, NEW c \in Configs, NEW st, Reconcile(c, st)
    PROVE  OpenedFilmed'
<1>1. CASE OpensPrint(c, st)
    BY <1>1, OpensFilmed DEF OpenedFilmed
<1>2. ASSUME NEW state, NEW again, ClosesPrint(c, st, state, again)
      PROVE  OpenedFilmed'
    BY <1>2 DEF ClosesPrint, OpenedFilmed
<1>3. CASE KeepsPrint(c, st) \/ CloseRaises(c, st) \/ PollFails
    <2>1. poll' = PollIdle
        BY <1>3, Zenon DEF KeepsPrint, CloseRaises, PollFails
    <2> QED
        BY <2>1 DEF PollIdle, OpenedFilmed
<1> QED
    BY <1>1, <1>2, <1>3 DEF Reconcile

\* Nothing that holds no loop comes in between but a deletion, which takes the
\* profile with the print.
LEMMA NextOpenedFilmed ==
    ASSUME Base, OpenedFilmed, [Next]_vars,
           FilmInv \/ "delete_stream" \notin Env
    PROVE  OpenedFilmed'
<1>0. /\ prints \in [PrintIds -> PrintRows] /\ cfg \in Configs
      /\ lastProfile \in Nat
    BY DEF Base, IInv, TypeOK
<1>1. ASSUME NEW st, PollAnswered(st) PROVE OpenedFilmed'
    BY <1>0, <1>1, ReconcileOpened
       DEF PollAnswered, PollFails, PollIdle, OpenedFilmed, Base
<1>2. CASE PollAgain
    <2>1. poll.cfg \in Configs
        BY DEF Base, IInv, TypeOK, PollRecords
    <2> QED
        BY <1>2, <2>1, ReconcileOpened DEF PollAgain, Base
<1>3. CASE PollStart \/ PollUnanswered \/ PollGivesUp \/ GiveUpRaises
            \/ PollAddsJob \/ Restart
    <2>1. poll'.pc # "opened"
        BY <1>3 DEF PollStart, PollUnanswered, PollFails, PollGivesUp,
                    GiveUpRaises, PollAddsJob, Restart, PollIdle
    <2> QED
        BY <2>1 DEF OpenedFilmed
<1>4. CASE PollClosed
    BY <1>4 DEF PollClosed, PollIdle, OpenedFilmed, Base, IInv, TypeOK,
                PollRecords
<1>5. CASE Put \/ HealthMonitor \/ \E i \in capJobs : CaptureOrphan(i)
    <2>1. poll.pc # "opened"
        BY <1>5 DEF Put, PutSaves, PutRaises, PutSwitchesOn, PutSwitchesOff,
                    HealthMonitor, CheckStart, CheckQuiet, CheckRecovers,
                    CheckCondemns, CheckCommits, CaptureOrphan, LoopFree,
                    Base, HandlersFree
    <2>2. UNCHANGED poll
        BY <1>5, MonitorKeepsRow
           DEF Put, PutSaves, PutRaises, PutSwitchesOn, PutSwitchesOff,
               putOther, checkOther, CaptureOrphan, Base
    <2> QED
        BY <2>1, <2>2 DEF OpenedFilmed
<1>6. CASE DeleteCommits
    <2> SUFFICES ASSUME poll'.pc = "opened", profile'.id = poll'.profile
                 PROVE  profile'.enabled /\ Active'
        BY DEF OpenedFilmed
    <2>1. UNCHANGED poll /\ FilmInv /\ deletion.pc = "read"
        BY <1>6 DEF DeleteCommits, deleteOther, Base, HandlersFree
    <2>2. profile'.id # 0
        BY <1>0, <2>1 DEF Base, HandlersFree
    <2>3. profile' = profile /\ profile.stream # deletion.stream
        BY <1>6, <2>2 DEF DeleteCommits, NoProfile
    <2>4. PICK p \in OpenPrints : profile.enabled /\ Films(p)
        BY <2>1, <2>3 DEF OpenedFilmed, Active, FilmInv
    <2>5. prints'[p] = prints[p]
        BY <1>6, <2>3, <2>4 DEF DeleteCommits, OpenPrints, Films
    <2> QED
        BY <2>3, <2>4, <2>5 DEF Active, OpenPrints
<1>7. ASSUME NEW p \in PrintIds, DeletePrint(p) PROVE OpenedFilmed'
    <2>1. OpenPrints' = OpenPrints
        BY <1>0, <1>7 DEF DeletePrint, OpenPrints, PrintRows, Terminal
    <2> QED
        BY <1>7, <2>1 DEF DeletePrint, OpenedFilmed, Active
<1>8. CASE (\E s \in Streams : DeleteStarts(s)) \/ DeleteJobs \/ GraceExpires
            \/ PowerOff \/ UNCHANGED vars
    BY <1>8 DEF DeleteStarts, DeleteJobs, GraceExpires, PowerOff, deleteOther,
                pollOther, tables, vars, OpenedFilmed, Active, OpenPrints
<1> QED
    BY <1>1, <1>2, <1>3, <1>4, <1>5, <1>6, <1>7, <1>8
       DEF Next, Poller, StreamDeletion

-----------------------------------------------------------------------------
(* The managed profile and its scheduler job *)

JobInv ==
    profile.id # 0 =>
        /\ profile.enabled => \/ profile.id \in capJobs
                              \/ poll.pc = "opened" /\ poll.profile = profile.id
        /\ profile.id \in capJobs => profile.enabled \/ profile.auto

Scheduling == Filming /\ OpenedFilmed /\ JobInv

\* A step that leaves the profile and its job alone while no rising edge is
\* half done.
LEMMA JobFrame ==
    ASSUME JobInv, profile' = profile,
           profile.id # 0 => (profile.id \in capJobs' <=> profile.id \in capJobs),
           poll.pc # "opened" \/ poll' = poll
    PROVE  JobInv'
BY DEF JobInv

\* ensure_managed_profile adds no job, and takes none away.
LEMMA JobEnsured ==
    ASSUME Base, JobInv, ~EnsureRaises(cfg), poll.pc # "opened",
           profile' = Ensured(cfg), capJobs' = capJobs
    PROVE  JobInv'
<1>1. cfg \in Configs /\ lastProfile \in Nat /\ lastProfile + 1 \notin capJobs
    BY DEF Base, IInv, TypeOK, RowIds
<1> QED
    BY <1>1, EnsuredRow DEF Base, JobInv

\* A profile that is off and has no job.
LEMMA JobOff ==
    ASSUME ~profile'.enabled, profile'.id \notin capJobs'
    PROVE  JobInv'
BY DEF JobInv

\* Every way through _reconcile keeps the job with the row.
LEMMA ReconcileJob ==
    ASSUME Scheduling, "poll_db_error" \notin Env,
           NEW st \in Statuses, Reconciles(st)
    PROVE  JobInv'
<1>0. /\ profile \in ProfileRows /\ cfg \in Configs
      /\ Ensured(cfg) \in ProfileRows
      /\ Base /\ FilmInv /\ JobInv /\ poll.pc # "opened"
    BY EnsuredType DEF Scheduling, Filming, Base, IInv, TypeOK, Reconciles
<1>1. CASE OpensPrint(cfg, st)
    <2>1. profile'.enabled /\ profile'.id = Ensured(cfg).id
        BY <1>0, <1>1 DEF OpensPrint, ProfileRows
    <2>2. poll'.pc = "opened" /\ poll'.profile = Ensured(cfg).id
        BY <1>1 DEF OpensPrint, PollIdle
    <2> QED
        BY <2>1, <2>2 DEF JobInv
<1>2. CASE KeepsPrint(cfg, st)
    <2>1. PICK p \in OpenPrints, late \in BOOLEAN :
            capJobs' = IF late THEN capJobs \cup {Ensured(cfg).id} ELSE capJobs
        BY <1>2 DEF KeepsPrint
    <2>2. profile' = profile /\ Ensured(cfg) = profile
        BY <1>0, <1>2, <2>1, EnsuredIsProfile DEF KeepsPrint, Active
    <2>3. profile.enabled \/ profile.auto
        BY <1>0, <2>1 DEF FilmInv, Films
    <2> QED
        BY <1>0, <2>1, <2>2, <2>3 DEF JobInv
<1>3. ASSUME NEW state, NEW again, ClosesPrint(cfg, st, state, again)
      PROVE  JobInv'
    <2>1. /\ profile'.id = Ensured(cfg).id /\ ~profile'.enabled
          /\ capJobs' = capJobs \ {Ensured(cfg).id}
        BY <1>0, <1>3 DEF ClosesPrint, SwitchedOff, ProfileRows
    <2> QED
        BY <2>1, JobOff
<1>4. CASE PollFails
    BY <1>0, <1>4, JobFrame DEF PollFails
<1> QED
    BY <1>1, <1>2, <1>3, <1>4 DEF Reconciles, Reconcile, CloseRaises

\* Every step keeps the job with the row, when no commit of the poller fails.
LEMMA NextJob ==
    ASSUME Uninterrupted, Bound, "poll_db_error" \notin Env,
           Scheduling, [Next]_vars
    PROVE  JobInv'
<1>0. /\ profile \in ProfileRows /\ cfg \in Configs
      /\ Ensured(cfg) \in ProfileRows
      /\ Base /\ LoopKept /\ FilmInv /\ OpenedFilmed /\ JobInv
    BY EnsuredType DEF Scheduling, Filming, Base, IInv, TypeOK
<1>1. CASE PollAgain \/ \E st \in Replies : PollAnswered(st)
    <2>1. CASE PollFails /\ UNCHANGED pollOther
        <3>1. poll.pc # "opened"
            BY <1>1 DEF PollAgain, PollAnswered
        <3> QED
            BY <1>0, <2>1, <3>1, JobFrame DEF PollFails
    <2> QED
        BY <1>0, <1>1, <2>1, PollReconciles, ReconcileJob
<1>2. CASE PollGivesUp
    <2>1. profile'.id = profile.id /\ ~profile'.enabled
        BY <1>0, <1>2 DEF PollGivesUp, SwitchedOff, ProfileRows
    <2> QED
        BY <1>2, <2>1, JobOff DEF PollGivesUp
<1>3. CASE PollAddsJob
    BY <1>0, <1>3 DEF PollAddsJob, OpenedFilmed, JobInv
<1>4. CASE PollStart \/ PollUnanswered \/ PollClosed
    BY <1>0, <1>4, JobFrame DEF PollStart, PollUnanswered, PollFails, PollClosed
<1>5. CASE PutRaises \/ \E c \in Configs : PutSaves(c)
    BY <1>0, <1>5, JobFrame DEF PutRaises, PutSaves, putOther
<1>6. CASE PutSwitchesOn
    <2>1. poll.pc # "opened"
        BY <1>0, <1>6 DEF PutSwitchesOn, Base, HandlersFree
    <2> QED
        BY <1>0, <1>6, <2>1, JobEnsured DEF PutSwitchesOn
<1>7. CASE PutSwitchesOff
    <2>1. CASE Active
        <3>1. /\ profile'.id = Ensured(cfg).id /\ ~profile'.enabled
              /\ capJobs' = capJobs \ {Ensured(cfg).id}
            BY <1>0, <1>7, <2>1 DEF PutSwitchesOff, CutOff, ProfileRows
        <3> QED
            BY <3>1, JobOff
    <2>2. CASE ~Active
        <3>1. poll.pc # "opened"
            BY <1>0, <1>7 DEF PutSwitchesOff, Base, HandlersFree
        <3> QED
            BY <1>0, <1>7, <2>2, <3>1, JobEnsured DEF PutSwitchesOff
    <2> QED
        BY <2>1, <2>2
<1>8. CASE HealthMonitor
    <2>1. /\ UNCHANGED poll /\ profile'.id = profile.id
        BY <1>0, <1>8, MonitorKeepsRow DEF checkOther, Base
    <2>2. profile.id # 0 => CheckLeaves \/ CheckPutsBack \/ CheckTakesDown
        BY <1>0, <1>8, MonitorChecks DEF Checked
    <2> QED
        BY <1>0, <2>1, <2>2
           DEF JobInv, CheckLeaves, CheckPutsBack, CheckTakesDown
<1>9. CASE DeleteCommits
    <2>1. profile' = NoProfile \/ profile' = profile
        BY <1>9 DEF DeleteCommits
    <2> QED
        BY <1>0, <1>9, <2>1, JobFrame
           DEF DeleteCommits, deleteOther, NoProfile, JobInv
<1>10. CASE DeleteJobs
    BY <1>0, <1>10, JobFrame DEF DeleteJobs, deleteOther, Base, RowIds
<1>11. CASE Restart
    BY <1>0, <1>11 DEF Restart, RestoredJobs, tables, JobInv
<1>12. ASSUME NEW i \in capJobs, CaptureOrphan(i) PROVE JobInv'
    BY <1>0, <1>12, JobFrame DEF CaptureOrphan, tables
<1>13. CASE (\E s \in Streams : DeleteStarts(s)) \/ GraceExpires \/ PowerOff
             \/ (\E p \in PrintIds : DeletePrint(p)) \/ UNCHANGED vars
    BY <1>0, <1>13, JobFrame
       DEF DeleteStarts, GraceExpires, PowerOff, DeletePrint, deleteOther,
           pollOther, tables, vars
<1> QED
    BY <1>1, <1>2, <1>3, <1>4, <1>5, <1>6, <1>7, <1>8, <1>9, <1>10, <1>11,
       <1>12, <1>13
       DEF Next, Poller, Put, StreamDeletion, GiveUpRaises

-----------------------------------------------------------------------------
(* The integration's switch and the print in flight *)

\* Where nobody switches the integration off, it is running from the first
\* request on.
OnInv == Active \/ poll.pc # "idle" \/ put = "saved" => Running(cfg)

\* Where somebody does, only the request that did has yet to end the print.
OffInv == Active /\ ~Running(cfg) => put = "saved"

\* Prints are only opened by a poll.
LEMMA OnlyPollsOpen ==
    ASSUME IInv, [Next]_vars, Active'
    PROVE  Active \/ PollAgain \/ \E st \in Replies : PollAnswered(st)
<1>0. prints \in [PrintIds -> PrintRows]
    BY DEF IInv, TypeOK
<1>1. CASE Poller
    BY <1>1
       DEF Poller, PollStart, PollUnanswered, PollFails, PollGivesUp,
           GiveUpRaises, PollAddsJob, PollClosed, Active, OpenPrints
<1>2. CASE PutSwitchesOff
    BY <1>0, <1>2 DEF PutSwitchesOff, CancelledPrints, Active, OpenPrints,
                      PrintRows
<1>3. CASE DeleteCommits
    BY <1>0, <1>3 DEF DeleteCommits, Active, OpenPrints, PrintRows
<1>4. ASSUME NEW p \in PrintIds, DeletePrint(p) PROVE Active
    BY <1>0, <1>4 DEF DeletePrint, Active, OpenPrints, PrintRows
<1>5. CASE HealthMonitor
    BY <1>5, MonitorKeepsRow DEF checkOther, Active, OpenPrints
<1>6. ASSUME UNCHANGED prints PROVE Active
    BY <1>6 DEF Active, OpenPrints
<1>7. CASE (\E c \in Configs : PutSaves(c)) \/ PutRaises \/ PutSwitchesOn
            \/ (\E s \in Streams : DeleteStarts(s)) \/ DeleteJobs \/ Restart
            \/ (\E i \in capJobs : CaptureOrphan(i)) \/ PowerOff
            \/ GraceExpires \/ UNCHANGED vars
    BY <1>6, <1>7
       DEF PutSaves, PutRaises, PutSwitchesOn, DeleteStarts, DeleteJobs,
           Restart, CaptureOrphan, PowerOff, GraceExpires, tables, pollOther,
           vars
<1> QED
    BY <1>1, <1>2, <1>3, <1>4, <1>5, <1>7 DEF Next, Put, StreamDeletion

\* What a step may do to the configuration, the poll and the request.
LEMMA SwitchSteps ==
    ASSUME Base, [Next]_vars
    PROVE  \/ /\ cfg' = cfg
              /\ poll'.pc = "idle" \/ poll.pc # "idle" \/ Running(cfg)
              /\ put' = put \/ put' = "idle"
           \/ \E c \in Configs : PutSaves(c)
<1>1. CASE Poller
    BY <1>1
       DEF Poller, PollStart, PollAnswered, PollUnanswered, PollFails,
           PollGivesUp, GiveUpRaises, PollAddsJob, PollClosed, PollAgain,
           pollOther
<1>2. CASE HealthMonitor
    BY <1>2, MonitorKeepsRow DEF checkOther, Base
<1>3. CASE PutRaises \/ PutSwitchesOn \/ PutSwitchesOff \/ StreamDeletion
            \/ Restart \/ (\E i \in capJobs : CaptureOrphan(i)) \/ PowerOff
            \/ GraceExpires \/ (\E p \in PrintIds : DeletePrint(p))
            \/ UNCHANGED vars
    BY <1>3
       DEF PutRaises, PutSwitchesOn, PutSwitchesOff, StreamDeletion,
           DeleteStarts, DeleteCommits, DeleteJobs, Restart, CaptureOrphan,
           PowerOff, GraceExpires, DeletePrint, putOther, deleteOther, tables,
           pollOther, vars, PollIdle
<1> QED
    BY <1>1, <1>2, <1>3 DEF Next, Put

\* Nobody switches the integration off.
LEMMA NextOn ==
    ASSUME "disable" \notin Env, Base, OnInv, [Next]_vars
    PROVE  OnInv'
<1>1. CASE \E c \in Configs : PutSaves(c)
    BY <1>1 DEF PutSaves, OnInv
<1>2. CASE /\ cfg' = cfg
           /\ poll'.pc = "idle" \/ poll.pc # "idle" \/ Running(cfg)
           /\ put' = put \/ put' = "idle"
    <2> SUFFICES ASSUME Active' \/ poll'.pc # "idle" \/ put' = "saved"
                 PROVE  Running(cfg)
        BY <1>2 DEF OnInv
    <2> QED
        BY <1>2, OnlyPollsOpen DEF OnInv, Base, PollAgain, PollAnswered
<1> QED
    BY <1>1, <1>2, SwitchSteps

\* The request that switches the integration off is not refused while a print
\* is open, and ends that print.
LEMMA NextOff ==
    ASSUME Uninterrupted, "crash" \notin Env, Filming, OffInv, [Next]_vars
    PROVE  OffInv'
<1>0. /\ Base /\ LoopKept /\ FilmInv /\ IInv
      /\ prints \in [PrintIds -> PrintRows] /\ cfg \in Configs
      /\ put \in {"idle", "saved"}
    BY DEF Filming, Base, IInv, TypeOK
<1> SUFFICES ASSUME Active', ~Running(cfg')
             PROVE  put' = "saved"
    BY DEF OffInv
<1>1. CASE \E c \in Configs : PutSaves(c)
    BY <1>1 DEF PutSaves
<1>2. CASE cfg' = cfg /\ Active
    <2>1. put = "saved"
        BY <1>2 DEF OffInv
    <2>2. ~PutSwitchesOn
        BY <1>2 DEF PutSwitchesOn
    <2>3. ~PutSwitchesOff
        BY <1>0 DEF PutSwitchesOff, CancelledPrints, Active, OpenPrints, PrintRows
    <2>4. ~PutRaises
        BY <1>0, <1>2 DEF PutRaises, EnsureRaises, FilmInv, Films, Active, Base,
                          RowIds
    <2>5. ~Restart
        BY <2>1 DEF Restart, LoopFree
    <2>6. CASE Poller
        BY <2>1, <2>6
           DEF Poller, PollStart, PollAnswered, PollUnanswered, PollGivesUp,
               GiveUpRaises, PollAddsJob, PollClosed, PollAgain, pollOther
    <2>7. CASE HealthMonitor
        BY <1>0, <2>1, <2>7, MonitorKeepsRow DEF checkOther
    <2>8. CASE StreamDeletion \/ (\E i \in capJobs : CaptureOrphan(i))
                \/ PowerOff \/ GraceExpires
                \/ (\E p \in PrintIds : DeletePrint(p)) \/ UNCHANGED vars
        BY <2>1, <2>8
           DEF StreamDeletion, DeleteStarts, DeleteCommits, DeleteJobs,
               CaptureOrphan, PowerOff, GraceExpires, DeletePrint, deleteOther,
               tables, pollOther, vars
    <2> QED
        BY <1>1, <2>2, <2>3, <2>4, <2>5, <2>6, <2>7, <2>8 DEF Next, Put
<1>3. CASE cfg' = cfg /\ ~Active
    <2>1. PollAgain \/ \E st \in Replies : PollAnswered(st)
        BY <1>0, <1>3, OnlyPollsOpen
    <2>2. ~PollFails
        BY <1>3 DEF PollFails, Active, OpenPrints
    <2>3. Running(cfg)
        BY <1>0, <2>1, <2>2, PollReconciles DEF Reconciles
    <2> QED
        BY <1>3, <2>3
<1> QED
    BY <1>0, <1>1, <1>2, <1>3, SwitchSteps

-----------------------------------------------------------------------------
(* No capture without a print *)

\* Whatever would make the managed profile capture, now or after a recovery or
\* a restart, goes with an open print.
CaptureInv ==
    profile.id # 0 /\ (profile.enabled \/ profile.auto \/ profile.id \in capJobs)
        => Active

\* A step that adds nothing that captures and ends no print.
LEMMA CaptureFrame ==
    ASSUME CaptureInv, profile' = profile, OpenPrints' = OpenPrints,
           profile.id # 0 /\ profile.id \in capJobs' =>
                profile.enabled \/ profile.id \in capJobs
    PROVE  CaptureInv'
BY DEF CaptureInv, Active

\* A profile that is off, unmarked and has no job.
LEMMA CaptureOff ==
    ASSUME ~profile'.enabled, ~profile'.auto, profile'.id \notin capJobs'
    PROVE  CaptureInv'
BY DEF CaptureInv

\* Every way through _reconcile.
LEMMA ReconcileCapture ==
    ASSUME Base, CaptureInv, NEW st \in Statuses, Reconciles(st)
    PROVE  CaptureInv'
<1>0. /\ profile \in ProfileRows /\ cfg \in Configs
      /\ prints \in [PrintIds -> PrintRows]
      /\ Ensured(cfg) \in ProfileRows
    BY EnsuredType DEF Base, IInv, TypeOK
<1>1. CASE OpensPrint(cfg, st)
    BY <1>0, <1>1, OpensFilmed DEF CaptureInv, Base
<1>2. CASE KeepsPrint(cfg, st)
    <2>1. PICK p \in OpenPrints, late \in BOOLEAN :
            prints' = [prints EXCEPT ![p].est = @ \/ late]
        BY <1>2 DEF KeepsPrint
    <2>2. p \in OpenPrints'
        BY <1>0, <2>1 DEF OpenPrints, PrintRows
    <2> QED
        BY <2>2 DEF CaptureInv, Active
<1>3. ASSUME NEW state, NEW again, ClosesPrint(cfg, st, state, again)
      PROVE  CaptureInv'
    <2>1. /\ profile'.id = Ensured(cfg).id
          /\ ~profile'.enabled /\ ~profile'.auto
          /\ capJobs' = capJobs \ {Ensured(cfg).id}
        BY <1>0, <1>3 DEF ClosesPrint, SwitchedOff, ProfileRows
    <2> QED
        BY <2>1, CaptureOff
<1>4. CASE CloseRaises(cfg, st)
    BY <1>4 DEF CloseRaises, CaptureInv, Active, OpenPrints
<1>5. CASE PollFails
    BY <1>5, CaptureFrame DEF PollFails, OpenPrints
<1> QED
    BY <1>1, <1>2, <1>3, <1>4, <1>5 DEF Reconciles, Reconcile

\* ensure_managed_profile gives nothing to capture with.
LEMMA EnsuredCapture ==
    ASSUME Base, CaptureInv, ~EnsureRaises(cfg), UNCHANGED <<capJobs, prints>>,
           profile' = Ensured(cfg)
    PROVE  CaptureInv'
<1>1. cfg \in Configs /\ lastProfile \in Nat /\ lastProfile + 1 \notin capJobs
    BY DEF Base, IInv, TypeOK, RowIds
<1>2. /\ Ensured(cfg).id \in {profile.id, lastProfile + 1}
      /\ \/ /\ Ensured(cfg).id = profile.id
            /\ Ensured(cfg).enabled = profile.enabled
            /\ Ensured(cfg).auto = profile.auto
         \/ /\ Ensured(cfg).id = lastProfile + 1
            /\ ~Ensured(cfg).enabled /\ ~Ensured(cfg).auto
    BY <1>1, EnsuredRow DEF Base
<1> QED
    BY <1>1, <1>2 DEF CaptureInv, Active, OpenPrints

\* Every step, where nobody chooses another camera or no camera is deleted,
\* and where the health monitor marks nothing or nobody switches the
\* integration off.
LEMMA NextCapture ==
    ASSUME Uninterrupted, Base, LoopKept, OpenedFilmed, CaptureInv,
           FilmInv \/ "delete_stream" \notin Env,
           "flap" \notin Env \/ OnInv,
           [Next]_vars
    PROVE  CaptureInv'
<1>0. /\ profile \in ProfileRows /\ cfg \in Configs
      /\ prints \in [PrintIds -> PrintRows]
      /\ Ensured(cfg) \in ProfileRows
    BY EnsuredType DEF Base, IInv, TypeOK
<1>1. CASE PollAgain \/ \E st \in Replies : PollAnswered(st)
    <2>1. CASE PollFails
        BY <2>1, CaptureFrame DEF PollFails, OpenPrints
    <2> QED
        BY <1>1, <2>1, PollReconciles, ReconcileCapture
<1>2. CASE PollGivesUp
    <2>1. /\ profile'.id = profile.id
          /\ ~profile'.enabled /\ ~profile'.auto
        BY <1>0, <1>2 DEF PollGivesUp, SwitchedOff, ProfileRows
    <2> QED
        BY <1>2, <2>1, CaptureOff DEF PollGivesUp
<1>3. CASE PollAddsJob
    <2>1. OpenPrints' = OpenPrints /\ profile' = profile
        BY <1>3 DEF PollAddsJob, OpenPrints
    <2>2. profile.id = poll.profile => Active
        BY <1>3 DEF PollAddsJob, OpenedFilmed
    <2> QED
        BY <1>3, <2>1, <2>2 DEF PollAddsJob, CaptureInv, Active
<1>4. CASE PollStart \/ PollUnanswered \/ GiveUpRaises \/ PollClosed
    BY <1>4, CaptureFrame
       DEF PollStart, PollUnanswered, PollFails, GiveUpRaises, PollClosed,
           OpenPrints
<1>5. CASE PutRaises \/ \E c \in Configs : PutSaves(c)
    BY <1>5, CaptureFrame DEF PutRaises, PutSaves, putOther, OpenPrints
<1>6. CASE PutSwitchesOn
    BY <1>6, EnsuredCapture DEF PutSwitchesOn
<1>7. CASE PutSwitchesOff
    <2>1. ~profile.auto
        BY <1>7 DEF PutSwitchesOff, OnInv, Base, HandlersFree
    <2>2. CASE Active
        <3>1. Ensured(cfg).auto = profile.auto \/ ~Ensured(cfg).auto
            BY <1>0, <1>7, EnsuredRow DEF PutSwitchesOff, Base
        <3>2. /\ profile'.id = Ensured(cfg).id
              /\ ~profile'.enabled /\ ~profile'.auto
              /\ capJobs' = capJobs \ {Ensured(cfg).id}
            BY <1>0, <1>7, <2>1, <2>2, <3>1
               DEF PutSwitchesOff, CutOff, ProfileRows
        <3> QED
            BY <3>2, CaptureOff
    <2>3. CASE ~Active
        <3>1. prints' = prints
            BY <1>0, <1>7, <2>3 DEF PutSwitchesOff, CancelledPrints, Active
        <3> QED
            BY <1>7, <2>3, <3>1, EnsuredCapture DEF PutSwitchesOff
    <2> QED
        BY <2>2, <2>3
<1>8. CASE HealthMonitor
    <2>1. /\ OpenPrints' = OpenPrints /\ profile'.id = profile.id
        BY <1>8, MonitorKeepsRow DEF checkOther, Base, OpenPrints
    <2>2. profile.id # 0 => CheckLeaves \/ CheckPutsBack \/ CheckTakesDown
        BY <1>8, MonitorChecks DEF Checked
    <2> QED
        BY <2>1, <2>2
           DEF CaptureInv, Active, CheckLeaves, CheckPutsBack, CheckTakesDown
<1>9. CASE DeleteCommits
    <2> SUFFICES ASSUME profile'.id # 0,
                        \/ profile'.enabled \/ profile'.auto
                        \/ profile'.id \in capJobs'
                 PROVE  Active'
        BY DEF CaptureInv
    <2>1. FilmInv
        BY <1>9 DEF DeleteCommits, Base, HandlersFree
    <2>2. profile' = profile /\ profile.stream # deletion.stream
        BY <1>9 DEF DeleteCommits, NoProfile
    <2>3. PICK p \in OpenPrints : Films(p)
        BY <1>9, <2>1, <2>2 DEF DeleteCommits, deleteOther, CaptureInv, Active,
                                FilmInv
    <2>4. prints'[p] = prints[p]
        BY <1>9, <2>2, <2>3 DEF DeleteCommits, OpenPrints, Films
    <2> QED
        BY <2>3, <2>4 DEF Active, OpenPrints
<1>10. CASE DeleteJobs
    BY <1>10, CaptureFrame DEF DeleteJobs, deleteOther, OpenPrints
<1>11. ASSUME NEW p \in PrintIds, DeletePrint(p) PROVE CaptureInv'
    <2>1. OpenPrints' = OpenPrints
        BY <1>0, <1>11 DEF DeletePrint, OpenPrints, PrintRows, Terminal
    <2> QED
        BY <1>11, <2>1, CaptureFrame DEF DeletePrint
<1>12. CASE Restart
    BY <1>12, CaptureFrame DEF Restart, RestoredJobs, tables, OpenPrints
<1>13. ASSUME NEW i \in capJobs, CaptureOrphan(i) PROVE CaptureInv'
    BY <1>13, CaptureFrame DEF CaptureOrphan, tables, OpenPrints
<1>14. CASE (\E s \in Streams : DeleteStarts(s)) \/ GraceExpires \/ PowerOff
             \/ UNCHANGED vars
    BY <1>14, CaptureFrame
       DEF DeleteStarts, GraceExpires, PowerOff, deleteOther, pollOther,
           tables, vars, OpenPrints
<1> QED
    BY <1>1, <1>2, <1>3, <1>4, <1>5, <1>6, <1>7, <1>8, <1>9, <1>10, <1>11,
       <1>12, <1>13, <1>14
       DEF Next, Poller, Put, StreamDeletion

-----------------------------------------------------------------------------
(* The theorems *)

\* All layers hold on a fresh installation.
LEMMA InitFilming ==
    Init => LoopKept /\ FilmInv /\ OpenedFilmed /\ JobInv /\ OnInv /\ OffInv
            /\ CaptureInv
BY DEF Init, LoopKept, FilmInv, OpenedFilmed, JobInv, OnInv, OffInv,
       CaptureInv, Active, OpenPrints, NoPrint, NoProfile, PollIdle, CheckIdle,
       DeletionIdle

\* The second layer: the loop is kept.
LEMMA KeptInvariance == Uninterrupted => (Spec => []LoopKept)
<1> SUFFICES ASSUME Uninterrupted PROVE Spec => []LoopKept
    OBVIOUS
<1>1. LoopKept /\ Base /\ [Next]_vars => LoopKept'
    BY NextLoopKept
<1> QED
    BY <1>1, InitFilming, BaseInvariance, PTL DEF Spec

\* The third: the print in flight is filmed.
LEMMA FilmingInvariance ==
    Uninterrupted /\ Bound => (Spec => [](Filming /\ OpenedFilmed))
<1> SUFFICES ASSUME Uninterrupted, Bound
             PROVE  Spec => [](Filming /\ OpenedFilmed)
    OBVIOUS
<1>1. Base /\ LoopKept /\ FilmInv /\ [Next]_vars => FilmInv'
    BY NextFilms DEF Filming
<1>2. Base /\ FilmInv /\ OpenedFilmed /\ [Next]_vars => OpenedFilmed'
    BY NextOpenedFilmed
<1>3. Base /\ LoopKept /\ FilmInv /\ OpenedFilmed => Filming /\ OpenedFilmed
    BY DEF Filming
<1>4. Spec => []LoopKept
    BY KeptInvariance
<1> QED
    BY <1>1, <1>2, <1>3, <1>4, InitFilming, BaseInvariance, PTL DEF Spec

\* A print in flight is filmed, by the managed profile on the print's camera,
\* or will be again when the health monitor finds that camera back: in every
\* run in which no other camera is chosen during a print and nothing is
\* awaited in the middle of a change of the profile.
THEOREM PrintsAreFilmed ==
    Uninterrupted /\ Bound => (Spec => []OpenPrintIsFilmed)
<1>1. Filming /\ OpenedFilmed => OpenPrintIsFilmed
    BY DEF Filming, FilmInv, Films, OpenPrintIsFilmed
<1> QED
    BY <1>1, FilmingInvariance, PTL

\* The managed profile and its scheduler job agree whenever no handler is in
\* between, if moreover no commit of the poller fails.
THEOREM JobsMatchRows ==
    Uninterrupted /\ Bound /\ "poll_db_error" \notin Env
        => (Spec => []JobMatchesRow)
<1> SUFFICES ASSUME Uninterrupted, Bound, "poll_db_error" \notin Env
             PROVE  Spec => []JobMatchesRow
    OBVIOUS
<1>1. Filming /\ OpenedFilmed /\ JobInv /\ [Next]_vars => JobInv'
    BY NextJob DEF Scheduling
<1>2. JobInv => JobMatchesRow
    BY DEF JobInv, JobMatchesRow, Settled, LoopFree
<1>3. Spec => [](Filming /\ OpenedFilmed)
    BY FilmingInvariance
<1> QED
    BY <1>1, <1>2, <1>3, InitFilming, PTL DEF Spec

\* With the integration off no print is open: where nobody ever switches it
\* off, and also where somebody does, unless a crash can come between the two
\* commits of the request.
THEOREM OffEndsPrints ==
    \/ "disable" \notin Env
    \/ Uninterrupted /\ Bound /\ "crash" \notin Env
    => (Spec => []OffMeansNoOpenPrint)
<1>1. ASSUME "disable" \notin Env PROVE Spec => []OffMeansNoOpenPrint
    <2>1. OnInv /\ Base /\ [Next]_vars => OnInv'
        BY <1>1, NextOn
    <2>2. OnInv => OffMeansNoOpenPrint
        BY DEF OnInv, OffMeansNoOpenPrint, Active
    <2> QED
        BY <2>1, <2>2, InitFilming, BaseInvariance, PTL DEF Spec
<1>2. ASSUME Uninterrupted, Bound, "crash" \notin Env
      PROVE  Spec => []OffMeansNoOpenPrint
    <2>1. Filming /\ OpenedFilmed /\ OffInv /\ [Next]_vars => OffInv'
        BY <1>2, NextOff
    <2>2. OffInv => OffMeansNoOpenPrint
        BY DEF OffInv, OffMeansNoOpenPrint, Active, LoopFree
    <2>3. Spec => [](Filming /\ OpenedFilmed)
        BY <1>2, FilmingInvariance
    <2> QED
        BY <2>1, <2>2, <2>3, InitFilming, PTL DEF Spec
<1> QED
    BY <1>1, <1>2

\* The managed profile captures nothing and is left to capture nothing while no
\* print is open, unless a camera is chosen and deleted during a print, or the
\* integration is switched off over a profile the health monitor took down.
THEOREM NoStrayCapture ==
    /\ Uninterrupted
    /\ Bound \/ "delete_stream" \notin Env
    /\ "disable" \notin Env \/ "flap" \notin Env
    => (Spec => []NoCaptureWithoutPrint)
<1> SUFFICES ASSUME Uninterrupted, Bound \/ "delete_stream" \notin Env,
                    "disable" \notin Env \/ "flap" \notin Env
             PROVE  Spec => []NoCaptureWithoutPrint
    OBVIOUS
<1> DEFINE F == FilmInv \/ "delete_stream" \notin Env
           G == OnInv \/ "flap" \notin Env
<1>1. Spec => []LoopKept
    BY KeptInvariance
<1>2. Spec => []F
    <2>1. CASE Bound
        <3>1. Filming /\ OpenedFilmed => F
            BY DEF Filming
        <3> HIDE DEF F
        <3> QED
            BY <2>1, <3>1, FilmingInvariance, PTL
    <2>2. CASE "delete_stream" \notin Env
        <3>1. F
            BY <2>2
        <3> HIDE DEF F
        <3> QED
            BY <3>1, PTL
    <2> QED
        BY <2>1, <2>2
<1>3. Spec => []G
    <2>1. CASE "disable" \notin Env
        <3>1. OnInv /\ Base /\ [Next]_vars => OnInv'
            BY <2>1, NextOn
        <3>2. OnInv => G
            OBVIOUS
        <3> HIDE DEF G
        <3> QED
            BY <3>1, <3>2, InitFilming, BaseInvariance, PTL DEF Spec
    <2>2. CASE "flap" \notin Env
        <3>1. G
            BY <2>2
        <3> HIDE DEF G
        <3> QED
            BY <3>1, PTL
    <2> QED
        BY <2>1, <2>2
<1>4. Base /\ F /\ OpenedFilmed /\ [Next]_vars => OpenedFilmed'
    BY NextOpenedFilmed
<1>5. Base /\ LoopKept /\ F /\ G /\ OpenedFilmed /\ CaptureInv /\ [Next]_vars
        => CaptureInv'
    BY NextCapture
<1>6. CaptureInv => NoCaptureWithoutPrint
    BY DEF CaptureInv, NoCaptureWithoutPrint, Active
<1> HIDE DEF F, G
<1> QED
    BY <1>1, <1>2, <1>3, <1>4, <1>5, <1>6, InitFilming, BaseInvariance, PTL
       DEF Spec

-----------------------------------------------------------------------------
(* One camera, in all surroundings *)

(***************************************************************************)
(* With a single camera no verdict can be about another one, and no        *)
(* request can move the profile: the print in flight is filmed whatever    *)
(* the surroundings do, also when the verdict of the health monitor        *)
(* is awaited while prints end and begin, the camera is deleted or the     *)
(* integration is switched off.                                            *)
(***************************************************************************)
OneCamera == \A s, t \in Streams : s = t

\* The print is filmed by the managed profile, or will be again.
Filmed(p) ==
    /\ profile.id # 0 /\ profile.stream = prints[p].stream
    /\ \/ profile.enabled
       \/ profile.auto /\ health[profile.stream].status = "unhealthy"

\* A verdict that waits for its notification still means what it meant: it
\* writes both columns of the profile it was passed on or none, its profile is
\* there unless the camera is gone, and one that finds the camera healthy
\* leaves no profile marked.
VerdictStands ==
    check.pc = "emitting" =>
        /\ check.dirty \in {{}, {"enabled", "auto"}}
        /\ check.dirty # {} =>
               check.id # 0 /\ (profile.id = check.id \/ check.stream \notin streams)
        /\ check.found = "healthy" /\ check.dirty = {} => ~profile.auto

\* The marker is on a row that exists and is disabled.
MarkerOnDisabled ==
    profile.auto => profile.id # 0 /\ ~profile.enabled

OneCameraInv ==
    /\ \A p \in OpenPrints : Filmed(p)
    /\ check.pc # "idle" => check.stream \in Streams
    /\ MarkerOnDisabled
    /\ VerdictStands

\* A step that passes no verdict and marks nothing.
LEMMA OneCameraFrame ==
    ASSUME OneCameraInv,
           check' = check \/ check' = CheckIdle,
           profile'.auto => profile.auto /\ profile'.id # 0 /\ ~profile'.enabled,
           streams' \subseteq streams,
           check.pc = "emitting" /\ profile.id # 0 =>
               profile'.id = profile.id \/ check.stream \notin streams',
           \A p \in OpenPrints' : Filmed(p)'
    PROVE  OneCameraInv'
<1>1. CASE check' = check
    BY <1>1 DEF OneCameraInv, MarkerOnDisabled, VerdictStands
<1>2. CASE check' = CheckIdle
    BY <1>2 DEF OneCameraInv, MarkerOnDisabled, VerdictStands, CheckIdle
<1> QED
    BY <1>1, <1>2

\* A step that leaves the profile and the cameras alone, and opens no print.
LEMMA OneCameraKept ==
    ASSUME OneCameraInv, UNCHANGED <<profile, streams, health>>,
           check' = check \/ check' = CheckIdle,
           \A p \in PrintIds : \/ prints'[p].status # "printing"
                               \/ /\ prints[p].status = "printing"
                                  /\ prints'[p].stream = prints[p].stream
    PROVE  OneCameraInv'
<1>1. \A p \in OpenPrints' : Filmed(p)'
    BY DEF OneCameraInv, Filmed, OpenPrints
<1> QED
    BY <1>1, OneCameraFrame DEF OneCameraInv, MarkerOnDisabled

\* ensure_managed_profile creates a row or finds it where it should be.
LEMMA EnsuredAlone ==
    ASSUME OneCamera, Base, NEW c \in Configs, ~EnsureRaises(c)
    PROVE  \/ Ensured(c) = profile
           \/ /\ profile.id = 0 /\ Ensured(c).id # 0
              /\ ~Ensured(c).enabled /\ ~Ensured(c).auto
<1>1. /\ profile \in ProfileRows /\ lastProfile \in Nat
      /\ streams \subseteq Streams
      /\ profile.id # 0 => profile.stream \in streams
    BY DEF Base, IInv, TypeOK, RowIds
<1>2. CASE c.stream = NoStream
    BY <1>2 DEF Ensured
<1>3. CASE c.stream # NoStream /\ profile.id = 0
    BY <1>1, <1>3 DEF Ensured
<1>4. CASE c.stream # NoStream /\ profile.id # 0
    <2>1. c.stream = profile.stream
        BY <1>1, <1>4 DEF OneCamera, EnsureRaises
    <2>2. [profile EXCEPT !.stream = c.stream] = profile
        BY <1>1, <2>1 DEF ProfileRows
    <2> QED
        BY <1>4, <2>2 DEF Ensured
<1> QED
    BY <1>2, <1>3, <1>4

\* Every way through _reconcile, with whatever configuration it was begun.
LEMMA ReconcileAlone ==
    ASSUME OneCamera, Base, OneCameraInv, NEW c \in Configs, Running(c),
           NEW st \in Statuses, Reconcile(c, st), UNCHANGED pollOther
    PROVE  OneCameraInv'
<1>0. /\ profile \in ProfileRows /\ lastPrint \in 0 .. MaxPrints
      /\ prints \in [PrintIds -> PrintRows]
      /\ UNCHANGED <<streams, health, check>>
    BY DEF Base, IInv, TypeOK, pollOther
<1>1. ASSUME ~EnsureRaises(c)
      PROVE  /\ Ensured(c) \in ProfileRows
             /\ Ensured(c).stream = c.stream /\ Ensured(c).id # 0
             /\ profile.id # 0 => Ensured(c) = profile
             /\ Ensured(c).auto => profile.auto /\ ~Ensured(c).enabled
    BY <1>1, EnsuredType, EnsuredRow, EnsuredAlone
       DEF Base, IInv, Running, OneCameraInv, MarkerOnDisabled
<1>2. CASE OpensPrint(c, st)
    <2> DEFINE n == lastPrint + 1
    <2>1. n \in PrintIds
        BY <1>0, <1>2, PrintCaptureAssumption DEF OpensPrint, PrintIds
    <2>2. OpenPrints' = {n} /\ prints'[n].stream = c.stream
        BY <1>0, <1>2, <2>1 DEF OpensPrint, OpenPrints, Active
    <2>3. /\ profile'.id = Ensured(c).id /\ profile'.stream = c.stream
          /\ profile'.enabled /\ ~profile'.auto
        BY <1>1, <1>2 DEF OpensPrint, ProfileRows
    <2>4. ASSUME NEW p \in OpenPrints' PROVE Filmed(p)'
        BY <1>1, <1>2, <2>2, <2>3, <2>4 DEF Filmed, OpensPrint
    <2> QED
        BY <1>0, <1>1, <1>2, <2>2, <2>3, <2>4, OneCameraFrame DEF OpensPrint
<1>3. CASE KeepsPrint(c, st)
    <2>1. PICK p \in OpenPrints, late \in BOOLEAN :
            prints' = [prints EXCEPT ![p].est = @ \/ late]
        BY <1>3 DEF KeepsPrint
    <2>2. profile' = profile
        BY <1>1, <1>3 DEF KeepsPrint, OneCameraInv, Filmed
    <2>3. \A q \in PrintIds : /\ prints'[q].status = prints[q].status
                              /\ prints'[q].stream = prints[q].stream
        BY <1>0, <2>1 DEF PrintRows
    <2> QED
        BY <1>0, <2>2, <2>3, OneCameraKept
<1>4. ASSUME NEW state, NEW again, ClosesPrint(c, st, state, again)
      PROVE  OneCameraInv'
    <2>1. PICK p \in OpenPrints :
            /\ Decide(TRUE, state).stop
            /\ prints' = [prints EXCEPT ![p].status = Decide(TRUE, state).outcome]
        BY <1>4 DEF ClosesPrint
    <2>2. Decide(TRUE, state).outcome # "printing"
        BY DEF Decide, Outcome
    <2>3. OpenPrints' = {}
        BY <1>0, <2>1, <2>2 DEF OpenPrints, PrintRows, Base, IInv, AtMostOneOpen
    <2>4. profile'.id = Ensured(c).id /\ ~profile'.auto
        BY <1>1, <1>4 DEF ClosesPrint, SwitchedOff, ProfileRows
    <2> QED
        BY <1>0, <1>1, <1>4, <2>3, <2>4, OneCameraFrame DEF ClosesPrint
<1>5. CASE CloseRaises(c, st)
    <2>1. profile' = profile
        BY <1>1, <1>5 DEF CloseRaises, Active, OneCameraInv, Filmed
    <2> QED
        BY <1>0, <1>5, <2>1, OneCameraKept DEF CloseRaises
<1>6. CASE PollFails
    BY <1>0, <1>6, OneCameraKept DEF PollFails
<1> QED
    BY <1>2, <1>3, <1>4, <1>5, <1>6 DEF Reconcile

\* A commit of a verdict, at once or after its notification.
LEMMA CommitsAlone ==
    ASSUME OneCamera, Base, OneCameraInv, check.pc # "idle",
           NEW found \in {"healthy", "unhealthy"}, NEW id,
           NEW dirty \in {{}, {"enabled", "auto"}},
           dirty # {} =>
               id # 0 /\ (profile.id = id \/ check.stream \notin streams),
           found = "healthy" /\ dirty = {} => ~profile.auto,
           Commits(check.stream, found, id, dirty),
           check' = CheckIdle, UNCHANGED <<streams, prints>>
    PROVE  OneCameraInv'
<1> DEFINE s == check.stream
<1>0. /\ profile \in ProfileRows /\ health \in [Streams -> HealthRows]
      /\ profile.id # 0 => profile.stream \in streams
      /\ streams \subseteq Streams /\ s \in Streams
    BY DEF Base, IInv, TypeOK, RowIds, OneCameraInv
<1>1. CASE s \notin streams
    <2>1. UNCHANGED <<health, profile>>
        BY <1>1 DEF Commits
    <2> QED
        BY <2>1, OneCameraKept DEF OpenPrints
<1>2. CASE s \in streams
    <2>1. /\ health' = [health EXCEPT ![s] = HealthAfter(@, found)]
          /\ dirty = {} => profile' = profile
          /\ profile'.enabled = IF "enabled" \in dirty THEN found = "healthy"
                                ELSE profile.enabled
          /\ profile'.auto = IF "auto" \in dirty THEN found = "unhealthy"
                             ELSE profile.auto
        BY <1>2, CommitsRow DEF Base
    <2>2. profile'.id = profile.id /\ profile'.stream = profile.stream
        BY CommitsKeepsRow DEF Base
    <2>3. found = "unhealthy" => health'[s].status = "unhealthy"
        BY <1>0, <2>1 DEF HealthAfter
    <2>4. MarkerOnDisabled'
        BY <1>2, <2>1, <2>2 DEF OneCameraInv, MarkerOnDisabled
    <2>5. ASSUME NEW p \in OpenPrints' PROVE Filmed(p)'
        <3>1. Filmed(p)
            BY <2>5 DEF OpenPrints, OneCameraInv
        <3>2. profile.stream = s
            BY <1>0, <3>1 DEF OneCamera, Filmed
        <3> QED
            BY <2>1, <2>2, <2>3, <3>1, <3>2 DEF Filmed
    <2> QED
        BY <2>4, <2>5 DEF OneCameraInv, VerdictStands, CheckIdle
<1> QED
    BY <1>1, <1>2

\* The verdict of a probe, which is committed at once or waits.
LEMMA DecidesAlone ==
    ASSUME OneCamera, Base, OneCameraInv, check.pc # "idle",
           NEW found \in {"healthy", "unhealthy"}, NEW dirty \in {{}, {"enabled", "auto"}},
           dirty # {} => profile.id # 0,
           found = "healthy" /\ dirty = {} => ~profile.auto,
           CheckDecides(check.stream, found, profile.id, dirty),
           UNCHANGED <<streams, prints>>
    PROVE  OneCameraInv'
<1>1. CASE Notify
    <2>1. /\ check'.pc = "emitting" /\ check'.stream = check.stream
          /\ check'.id = profile.id /\ check'.found = found /\ check'.dirty = dirty
          /\ UNCHANGED <<health, profile>>
        BY <1>1 DEF CheckDecides
    <2> QED
        BY <2>1
           DEF OneCameraInv, VerdictStands, MarkerOnDisabled, Filmed, OpenPrints
<1>2. CASE ~Notify
    BY <1>2, CommitsAlone DEF CheckDecides
<1> QED
    BY <1>1, <1>2

\* The health monitor.
LEMMA MonitorAlone ==
    ASSUME OneCamera, Base, OneCameraInv, HealthMonitor
    PROVE  OneCameraInv'
<1>0. /\ profile \in ProfileRows /\ streams \subseteq Streams
      /\ profile.id # 0 => profile.stream \in streams
      /\ check \in CheckRecords /\ health \in [Streams -> HealthRows]
      /\ check.pc # "idle" => check.stream \in Streams
      /\ profile.auto => profile.id # 0 /\ ~profile.enabled
    BY DEF Base, IInv, TypeOK, RowIds, OneCameraInv, MarkerOnDisabled
<1>1. UNCHANGED <<streams, prints>>
    BY MonitorKeepsRow DEF Base, checkOther
<1> DEFINE s == check.stream
<1>2. ASSUME NEW t \in Streams, CheckStart(t) PROVE OneCameraInv'
    <2>1. check'.pc = "probing" /\ check'.stream = t /\ UNCHANGED <<health, profile>>
        BY <1>2 DEF CheckStart, CheckIdle
    <2> QED
        BY <1>1, <2>1
           DEF OneCameraInv, VerdictStands, MarkerOnDisabled, Filmed, OpenPrints
<1>3. CASE CheckQuiet
    <2>1. PICK found \in {"healthy", "failed"} :
            /\ Commits(s, found, 0, {})
            /\ found = "healthy" => health[s].status # "unhealthy"
        BY <1>3 DEF CheckQuiet
    <2>2. check.pc = "probing" /\ check' = CheckIdle
        BY <1>3 DEF CheckQuiet
    <2>3. profile' = profile /\ \/ health' = health
                                \/ /\ s \in streams
                                   /\ health' = [health EXCEPT ![s] = HealthAfter(@, found)]
        <3>1. CASE s \in streams
            BY <2>1, <3>1, CommitsRow DEF Base
        <3>2. CASE s \notin streams
            BY <2>1, <3>2 DEF Commits
        <3> QED
            BY <3>1, <3>2
    <2>4. health[s].status = "unhealthy" => HealthAfter(health[s], found).status = "unhealthy"
        BY <1>0, <2>1, <2>2 DEF HealthAfter, HealthRows
    <2>5. ASSUME NEW p \in OpenPrints' PROVE Filmed(p)'
        <3>1. Filmed(p) /\ profile.stream \in Streams
            BY <1>0, <1>1, <2>5 DEF OpenPrints, OneCameraInv, Filmed
        <3> QED
            BY <1>0, <1>1, <2>3, <2>4, <3>1 DEF Filmed
    <2> QED
        BY <1>1, <2>2, <2>3, <2>5, OneCameraFrame DEF OneCameraInv, MarkerOnDisabled
<1>4. CASE CheckRecovers
    <2> DEFINE marked == profile.id # 0 /\ profile.stream = s /\ profile.auto
               dirty == IF ~marked THEN {}
                        ELSE IF profile.enabled THEN {"auto"} ELSE {"enabled", "auto"}
    <2>1. check.pc = "probing" /\ CheckDecides(s, "healthy", profile.id, dirty)
        BY <1>4 DEF CheckRecovers
    <2>2. ~marked => ~profile.auto
        BY <1>0, <2>1 DEF OneCamera
    <2>3. dirty = IF marked THEN {"enabled", "auto"} ELSE {}
        BY <1>0
    <2> HIDE DEF dirty
    <2> QED
        BY <1>1, <2>1, <2>2, <2>3, DecidesAlone
<1>5. CASE CheckCondemns
    <2> DEFINE hit == profile.id # 0 /\ profile.stream = s /\ profile.enabled
               dirty == IF hit THEN CondemnedColumns ELSE {}
    <2>1. check.pc = "probing" /\ CheckDecides(s, "unhealthy", profile.id, dirty)
        BY <1>5 DEF CheckCondemns
    <2>2. dirty = IF hit THEN {"enabled", "auto"} ELSE {}
        BY <1>0 DEF CondemnedColumns
    <2> HIDE DEF dirty
    <2> QED
        BY <1>1, <2>1, <2>2, DecidesAlone
<1>6. CASE CheckCommits
    <2>1. /\ check.pc = "emitting" /\ check' = CheckIdle
          /\ Commits(s, check.found, check.id, check.dirty)
          /\ check.found \in {"healthy", "unhealthy"}
        BY <1>0, <1>6 DEF CheckCommits, CheckRecords
    <2> QED
        BY <1>1, <2>1, CommitsAlone DEF OneCameraInv, VerdictStands
<1> QED
    BY <1>2, <1>3, <1>4, <1>5, <1>6 DEF HealthMonitor

\* The steps of the poller between its requests to the printer.
LEMMA PollerAlone ==
    ASSUME OneCamera, Base, OneCameraInv, Poller
    PROVE  OneCameraInv'
<1>0. /\ profile \in ProfileRows /\ cfg \in Configs
      /\ prints \in [PrintIds -> PrintRows]
    BY DEF Base, IInv, TypeOK
<1>1. ASSUME NEW st \in Replies, PollAnswered(st) PROVE OneCameraInv'
    <2>1. st \in Statuses
        BY PrintCaptureAssumption DEF Replies, Statuses
    <2>2. CASE StillRunning
        BY <1>0, <1>1, <2>1, <2>2, ReconcileAlone DEF PollAnswered, StillRunning
    <2>3. CASE ~StillRunning
        BY <1>1, <2>3, OneCameraKept DEF PollAnswered, PollFails, pollOther
    <2> QED
        BY <2>2, <2>3
<1>2. CASE PollAgain
    <2>1. /\ poll.cfg \in Configs /\ poll.status \in Statuses
          /\ Running(poll.cfg)
        BY <1>2 DEF PollAgain, Base, IInv, TypeOK, PollRecords, PollCarries,
                    HandlersFree
    <2> QED
        BY <1>2, <2>1, ReconcileAlone DEF PollAgain
<1>3. CASE PollGivesUp
    <2>1. PICK p \in OpenPrints :
            prints' = [prints EXCEPT ![p].status = "cancelled"]
        BY <1>3 DEF PollGivesUp
    <2>2. OpenPrints' = {}
        BY <1>0, <2>1 DEF OpenPrints, PrintRows, Base, IInv, AtMostOneOpen
    <2>3. profile'.id = profile.id /\ ~profile'.auto
        BY <1>0, <1>3 DEF PollGivesUp, SwitchedOff, ProfileRows
    <2> QED
        BY <1>3, <2>2, <2>3, OneCameraFrame DEF PollGivesUp, pollOther
<1>4. CASE PollStart \/ PollUnanswered \/ GiveUpRaises \/ PollAddsJob
            \/ PollClosed
    BY <1>4, OneCameraKept
       DEF PollStart, PollUnanswered, PollFails, GiveUpRaises, PollAddsJob,
           PollClosed, pollOther
<1> QED
    BY <1>1, <1>2, <1>3, <1>4 DEF Poller

\* Every step keeps the print filmed.
LEMMA NextAlone ==
    ASSUME OneCamera, Base, OneCameraInv, [Next]_vars
    PROVE  OneCameraInv'
<1>0. /\ profile \in ProfileRows /\ cfg \in Configs
      /\ prints \in [PrintIds -> PrintRows]
      /\ streams \subseteq Streams
      /\ profile.id # 0 => profile.stream \in streams
      /\ MarkerOnDisabled
    BY DEF Base, IInv, TypeOK, RowIds, OneCameraInv
<1>1. ASSUME NEW c \in Configs, PutSaves(c) PROVE OneCameraInv'
    BY <1>1, OneCameraKept DEF PutSaves, putOther
<1>2. CASE PutRaises
    BY <1>2, OneCameraKept DEF PutRaises, putOther
<1>3. CASE PutSwitchesOn
    <2>1. ~EnsureRaises(cfg) /\ profile' = Ensured(cfg)
          /\ UNCHANGED <<prints, streams, health, check>>
        BY <1>3 DEF PutSwitchesOn, putOther
    <2>2. CASE profile' = profile
        BY <2>1, <2>2, OneCameraKept
    <2>3. CASE profile' # profile
        <3>1. profile.id = 0 /\ profile'.id # 0 /\ ~profile'.auto
            BY <1>0, <2>1, <2>3, EnsuredAlone
        <3>2. OpenPrints' = {}
            BY <2>1, <3>1 DEF OpenPrints, OneCameraInv, Filmed
        <3> QED
            BY <2>1, <3>1, <3>2, OneCameraFrame
    <2> QED
        BY <2>2, <2>3
<1>4. CASE PutSwitchesOff
    <2>1. OpenPrints' = {}
        BY <1>0, <1>4 DEF PutSwitchesOff, CancelledPrints, OpenPrints, PrintRows
    <2>2. /\ ~EnsureRaises(cfg) /\ UNCHANGED <<streams, health, check>>
          /\ profile' \in {CutOff(Ensured(cfg)), Ensured(cfg)}
        BY <1>4 DEF PutSwitchesOff, putOther
    <2>3. Ensured(cfg) \in ProfileRows
        BY <1>0, <2>2, EnsuredType DEF Base, IInv
    <2>4. /\ profile'.id = Ensured(cfg).id /\ profile'.auto = Ensured(cfg).auto
          /\ profile'.enabled => Ensured(cfg).enabled
        BY <2>2, <2>3 DEF CutOff, ProfileRows
    <2>5. \/ profile'.id = profile.id /\ (profile'.auto => profile.auto /\ ~profile'.enabled)
          \/ profile.id = 0 /\ ~profile'.auto
        BY <1>0, <2>2, <2>4, EnsuredAlone DEF MarkerOnDisabled
    <2> QED
        BY <1>0, <2>1, <2>2, <2>5, OneCameraFrame DEF MarkerOnDisabled
<1>5. ASSUME NEW s \in Streams, DeleteStarts(s) PROVE OneCameraInv'
    BY <1>5, OneCameraKept DEF DeleteStarts, deleteOther
<1>6. CASE DeleteCommits
    <2>1. /\ streams' = streams \ {deletion.stream} /\ deletion.stream \in Streams
          /\ UNCHANGED <<health, check>> /\ profile' \in {profile, NoProfile}
        BY <1>6 DEF DeleteCommits, deleteOther, Base, IInv, DeletionNamesStream
    <2>2. OpenPrints' = {}
        <3> SUFFICES ASSUME NEW p \in OpenPrints' PROVE FALSE
            OBVIOUS
        <3>1. /\ p \in OpenPrints /\ prints[p].stream # deletion.stream
            BY <1>0, <1>6 DEF DeleteCommits, OpenPrints, PrintRows
        <3>2. profile.id # 0 /\ profile.stream = prints[p].stream
            BY <3>1 DEF OneCameraInv, Filmed
        <3> QED
            BY <1>0, <2>1, <3>1, <3>2 DEF OneCamera
    <2>3. check.pc # "idle" => check.stream \notin streams'
        BY <2>1 DEF OneCamera, OneCameraInv
    <2>4. profile'.auto => profile.auto /\ profile'.id # 0 /\ ~profile'.enabled
        BY <1>0, <2>1 DEF MarkerOnDisabled, NoProfile
    <2> QED
        BY <2>1, <2>2, <2>3, <2>4, OneCameraFrame
<1>7. CASE DeleteJobs
    BY <1>7, OneCameraKept DEF DeleteJobs, deleteOther
<1>8. ASSUME NEW p \in PrintIds, DeletePrint(p) PROVE OneCameraInv'
    BY <1>0, <1>8, OneCameraKept DEF DeletePrint, PrintRows
<1>9. CASE Restart
    BY <1>9, OneCameraKept DEF Restart, tables
<1>10. CASE (\E i \in capJobs : CaptureOrphan(i)) \/ PowerOff \/ GraceExpires
             \/ UNCHANGED vars
    BY <1>10, OneCameraKept
       DEF CaptureOrphan, PowerOff, GraceExpires, tables, pollOther, vars
<1> QED
    BY <1>1, <1>2, <1>3, <1>4, <1>5, <1>6, <1>7, <1>8, <1>9, <1>10,
       PollerAlone, MonitorAlone DEF Next, Put, StreamDeletion

\* With one camera a print in flight is filmed in every run: the verdict of a
\* health check may be committed long after it was passed, the second half of
\* a job-id change may use the configuration of the first, commits may fail
\* and the process may crash anywhere (check_all_streams, _reconcile).
THEOREM OneCameraFilms == OneCamera => (Spec => []OpenPrintIsFilmed)
<1> SUFFICES ASSUME OneCamera PROVE Spec => []OpenPrintIsFilmed
    OBVIOUS
<1>1. Init => OneCameraInv
    BY DEF Init, OneCameraInv, OpenPrints, NoPrint, NoProfile, CheckIdle,
           MarkerOnDisabled, VerdictStands
<1>2. Base /\ OneCameraInv /\ [Next]_vars => OneCameraInv'
    BY NextAlone
<1>3. OneCameraInv => OpenPrintIsFilmed
    BY DEF OneCameraInv, Filmed, OpenPrintIsFilmed
<1> QED
    BY <1>1, <1>2, <1>3, BaseInvariance, PTL DEF Spec
=============================================================================
