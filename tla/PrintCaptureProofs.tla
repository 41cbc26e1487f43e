------------------------- MODULE PrintCaptureProofs -------------------------
(***************************************************************************)
(* Theorems of PrintCapture, for every set of streams, job ids and events  *)
(* of the surroundings, and every bound.                                   *)
(***************************************************************************)
EXTENDS PrintCapture, TLAPS

(***************************************************************************)
(* The inductive invariant.  A poll that closed a print still carries the  *)
(* status and the row it is about; rows beyond the last id are blank; a    *)
(* deletion in progress names a stream; and a print has no render before   *)
(* it is closed, nor before the poll that closed it asks for one.          *)
(***************************************************************************)
PollCarries ==
    poll.pc \in {"closed", "again"} =>
        poll.status \in Statuses /\ poll.print \in PrintIds

RowsInOrder == \A p \in PrintIds : p > lastPrint => prints[p] = NoPrint

DeletionNamesStream == deletion.pc # "idle" => deletion.stream \in Streams

\* The prints that may be rendered.
MayRender(p) ==
    \/ prints[p].status \in {"finished", "deleted"}
    \/ prints[p].status = "cancelled" /\ GenerateOnCancel

RenderNotBeforeClose ==
    /\ \A p \in PrintIds :
            prints[p].status \in {"absent", "printing"} => renders[p] = 0
    /\ poll.pc = "closed" =>
            /\ renders[poll.print] = 0
            /\ prints[poll.print].status \in Terminal \cup {"deleted"}
            /\ poll.generate => MayRender(poll.print)

IInv ==
    /\ TypeOK
    /\ PollCarries
    /\ RowsInOrder
    /\ DeletionNamesStream
    /\ AtMostOneOpen
    /\ RenderNotBeforeClose
    /\ RenderedOnce

-----------------------------------------------------------------------------
(* Typing of the records the actions build *)

\* What ensure_managed_profile returns is a profile row.
LEMMA EnsuredType ==
    ASSUME TypeOK, NEW c \in Configs
    PROVE  /\ Ensured(c) \in ProfileRows
           /\ EnsuredLast(c) \in Nat
<1>1. Ensured(c) \in ProfileRows
    BY DEF TypeOK, Ensured, Configs, ProfileRows
<1> QED
    BY <1>1 DEF EnsuredLast, TypeOK, ProfileRows

\* The resting records of the handlers are well typed.
LEMMA IdleType ==
    /\ PollIdle \in PollRecords
    /\ CheckIdle \in CheckRecords
    /\ DeletionIdle \in DeletionRecords
    /\ NoProfile \in ProfileRows
    /\ NoPrint \in PrintRows
BY PrintCaptureAssumption
   DEF PollIdle, CheckIdle, DeletionIdle, NoProfile, NoPrint, PollRecords,
       CheckRecords, DeletionRecords, ProfileRows, PrintRows, Configs

\* Switching a profile off leaves a profile row.
LEMMA SwitchedOffType ==
    ASSUME NEW row \in ProfileRows
    PROVE  SwitchedOff(row) \in ProfileRows /\ SwitchedOff(row).id = row.id
BY DEF SwitchedOff, ProfileRows

\* The invariant holds on a fresh installation.
LEMMA InitIInv == Init => IInv
<1> SUFFICES ASSUME Init PROVE IInv
    OBVIOUS
<1>1. TypeOK
    <2>1. /\ cfg \in Configs
          /\ streams \in SUBSET Streams
          /\ health \in [Streams -> HealthRows]
        BY PrintCaptureAssumption DEF Init, Configs, HealthRows
    <2>2. /\ profile \in ProfileRows
          /\ prints \in [PrintIds -> PrintRows]
          /\ poll \in PollRecords
          /\ check \in CheckRecords
          /\ deletion \in DeletionRecords
        BY IdleType DEF Init
    <2>3. /\ lastProfile \in Nat
          /\ lastPrint \in 0 .. MaxPrints
          /\ restarts \in 0 .. MaxRestarts
        BY PrintCaptureAssumption DEF Init
    <2>4. /\ renders \in [PrintIds -> Nat]
          /\ unreachable \in [PrintIds -> {"never", "recent", "expired"}]
          /\ put \in {"idle", "saved"}
          /\ capJobs \in SUBSET Nat
        BY DEF Init
    <2>5. pollJob \in BOOLEAN /\ printerOff \in BOOLEAN
        BY DEF Init
    <2> QED
        BY <2>1, <2>2, <2>3, <2>4, <2>5 DEF TypeOK
<1>2. PollCarries /\ RowsInOrder /\ DeletionNamesStream
    BY DEF Init, PollCarries, RowsInOrder, DeletionNamesStream, PollIdle,
           DeletionIdle
<1>3. AtMostOneOpen /\ RenderNotBeforeClose /\ RenderedOnce
    BY DEF Init, AtMostOneOpen, OpenPrints, NoPrint, PollIdle,
           RenderNotBeforeClose, RenderedOnce
<1> QED
    BY <1>1, <1>2, <1>3 DEF IInv
-----------------------------------------------------------------------------
(* Every step preserves the invariant *)

\* A step that only ends prints keeps the rows in order and opens none.
LEMMA EndingKeepsOrder ==
    ASSUME IInv, lastPrint' = lastPrint,
           \A p \in PrintIds : \/ prints'[p] = prints[p]
                               \/ /\ prints[p].status # "absent"
                                  /\ prints'[p].status # "printing"
    PROVE  RowsInOrder' /\ AtMostOneOpen'
<1>1. ASSUME NEW p \in PrintIds, p > lastPrint PROVE prints'[p] = NoPrint
    <2>1. prints[p] = NoPrint
        BY <1>1 DEF IInv, RowsInOrder
    <2>2. prints[p].status = "absent"
        BY <2>1 DEF NoPrint
    <2> QED
        BY <2>1, <2>2
<1>2. \A p \in PrintIds : prints'[p].status = "printing" =>
                            prints[p].status = "printing"
    OBVIOUS
<1> QED
    BY <1>1, <1>2 DEF IInv, RowsInOrder, AtMostOneOpen, OpenPrints

\* A poll that starts carries nothing yet.
LEMMA PollStartIInv ==
    ASSUME IInv, PollStart
    PROVE  IInv'
BY IdleType, PrintCaptureAssumption
   DEF PollStart, PollRecords, PollIdle, pollOther,
       IInv, TypeOK, PollCarries, RowsInOrder, DeletionNamesStream,
       AtMostOneOpen, OpenPrints, RenderNotBeforeClose, MayRender, RenderedOnce

\* A poll without an answer only moves the grace clocks.
LEMMA PollUnansweredIInv ==
    ASSUME IInv, PollUnanswered
    PROVE  IInv'
<1>1. poll' \in PollRecords /\ poll'.pc = "idle"
    BY IdleType DEF PollUnanswered, PollFails, PollIdle
<1>2. unreachable' \in [PrintIds -> {"never", "recent", "expired"}]
    BY DEF PollUnanswered, IInv, TypeOK
<1>3. TypeOK'
    BY <1>1, <1>2 DEF PollUnanswered, PollFails, pollOther, IInv, TypeOK
<1> QED
    BY <1>1, <1>3
       DEF PollUnanswered, PollFails, pollOther, IInv, PollCarries,
           RowsInOrder, DeletionNamesStream, AtMostOneOpen, OpenPrints,
           RenderNotBeforeClose, MayRender, RenderedOnce

\* Giving a printer up cancels the open print and opens none.
LEMMA PollGivesUpIInv ==
    ASSUME IInv, PollGivesUp
    PROVE  IInv'
<1>1. PICK p \in PrintIds :
        /\ prints[p].status = "printing"
        /\ prints' = [prints EXCEPT ![p].status = "cancelled"]
        /\ unreachable' = [unreachable EXCEPT ![p] = "never"]
    BY DEF PollGivesUp, OpenPrints
<1>2. /\ prints' \in [PrintIds -> PrintRows]
      /\ unreachable' \in [PrintIds -> {"never", "recent", "expired"}]
    BY <1>1 DEF IInv, TypeOK, PrintRows, Terminal
<1>3. /\ prints'[p].status = "cancelled"
      /\ \A q \in PrintIds \ {p} : prints'[q] = prints[q]
    BY <1>1 DEF IInv, TypeOK, PrintRows
<1>4. poll' \in PollRecords /\ poll'.pc = "idle"
    BY IdleType DEF PollGivesUp, PollIdle
<1>5. profile' \in ProfileRows
    BY SwitchedOffType DEF PollGivesUp, IInv, TypeOK
<1>6. TypeOK'
    BY <1>2, <1>4, <1>5 DEF PollGivesUp, pollOther, IInv, TypeOK
<1>7. PollCarries' /\ DeletionNamesStream'
    BY <1>4
       DEF PollGivesUp, pollOther, IInv, PollCarries, DeletionNamesStream
<1>8. RowsInOrder' /\ AtMostOneOpen'
    BY <1>1, <1>3, EndingKeepsOrder DEF PollGivesUp
<1>9. RenderNotBeforeClose' /\ RenderedOnce'
    BY <1>1, <1>3, <1>4
       DEF PollGivesUp, IInv, RenderNotBeforeClose, MayRender, RenderedOnce
<1> QED
    BY <1>6, <1>7, <1>8, <1>9 DEF IInv

\* A failed commit of the same leaves the rows as they were.
LEMMA GiveUpRaisesIInv ==
    ASSUME IInv, GiveUpRaises
    PROVE  IInv'
BY IdleType
   DEF GiveUpRaises, PollIdle, pollOther,
       IInv, TypeOK, PollCarries, RowsInOrder, DeletionNamesStream,
       AtMostOneOpen, OpenPrints, RenderNotBeforeClose, MayRender, RenderedOnce

\* The end of the rising edge only adds a scheduler job.
LEMMA PollAddsJobIInv ==
    ASSUME IInv, PollAddsJob
    PROVE  IInv'
<1>1. poll' \in PollRecords /\ poll'.pc = "idle"
    BY IdleType DEF PollAddsJob, PollIdle
<1>2. capJobs' \in SUBSET Nat
    BY DEF PollAddsJob, IInv, TypeOK, ProfileRows
<1> QED
    BY <1>1, <1>2
       DEF PollAddsJob, pollOther, IInv, TypeOK, PollCarries, RowsInOrder,
           DeletionNamesStream, AtMostOneOpen, OpenPrints,
           RenderNotBeforeClose, MayRender, RenderedOnce

\* The render of a close is requested once, for the row just closed, and the
\* second half of a job-id change finds no open print.
LEMMA PollClosedIInv ==
    ASSUME IInv, PollClosed
    PROVE  IInv'
<1>1. /\ poll' \in PollRecords
      /\ poll'.pc # "closed"
      /\ poll'.pc = "again" => /\ poll'.status = poll.status
                               /\ poll'.print = poll.print
    BY IdleType DEF PollClosed, IInv, TypeOK, PollRecords, PollIdle
<1>2. poll.print \in PrintIds
    BY DEF PollClosed, IInv, PollCarries
<1>3. \A p \in PrintIds :
        \/ renders'[p] = renders[p]
        \/ p = poll.print /\ renders'[p] = renders[p] + 1 /\ poll.generate
    BY DEF PollClosed, IInv, TypeOK
<1>4. TypeOK'
    <2>1. renders' \in [PrintIds -> Nat]
        BY <1>2 DEF PollClosed, IInv, TypeOK
    <2> QED
        BY <1>1, <2>1 DEF PollClosed, pollOther, IInv, TypeOK
<1>5. PollCarries' /\ RowsInOrder' /\ DeletionNamesStream'
    BY <1>1
       DEF PollClosed, pollOther, IInv, PollCarries, RowsInOrder,
           DeletionNamesStream
<1>6. AtMostOneOpen'
    BY DEF PollClosed, IInv, AtMostOneOpen, OpenPrints
<1>7. RenderNotBeforeClose' /\ RenderedOnce'
    BY <1>1, <1>2, <1>3
       DEF PollClosed, IInv, RenderNotBeforeClose, MayRender, RenderedOnce,
           Terminal
<1> QED
    BY <1>4, <1>5, <1>6, <1>7 DEF IInv

\* Deleting a print that is over opens none.
LEMMA DeletePrintIInv ==
    ASSUME IInv, NEW p \in PrintIds, DeletePrint(p)
    PROVE  IInv'
<1>1. prints' \in [PrintIds -> PrintRows]
    BY DEF DeletePrint, IInv, TypeOK, PrintRows
<1>2. /\ prints'[p].status = "deleted"
      /\ prints[p].status \in Terminal
      /\ \A q \in PrintIds \ {p} : prints'[q] = prints[q]
    BY DEF DeletePrint, IInv, TypeOK, PrintRows
<1>3. TypeOK'
    BY <1>1 DEF DeletePrint, IInv, TypeOK
<1>4. PollCarries' /\ DeletionNamesStream'
    BY DEF DeletePrint, IInv, PollCarries, DeletionNamesStream
<1>6. RowsInOrder'
    BY <1>2, EndingKeepsOrder DEF DeletePrint, Terminal
<1>5. AtMostOneOpen' /\ RenderNotBeforeClose' /\ RenderedOnce'
    BY <1>2
       DEF DeletePrint, IInv, AtMostOneOpen, OpenPrints, PollCarries,
           RenderNotBeforeClose, MayRender, RenderedOnce, Terminal
<1> QED
    BY <1>3, <1>4, <1>5, <1>6 DEF IInv

\* An orphaned capture job that removes itself touches no row.
LEMMA CaptureOrphanIInv ==
    ASSUME IInv, NEW i \in capJobs, CaptureOrphan(i)
    PROVE  IInv'
BY IdleType
   DEF CaptureOrphan, tables,
       IInv, TypeOK, PollCarries, RowsInOrder, DeletionNamesStream,
       AtMostOneOpen, OpenPrints, RenderNotBeforeClose, MayRender, RenderedOnce

\* A restart loses what the handlers carried, and no row.
LEMMA RestartIInv ==
    ASSUME IInv, Restart
    PROVE  IInv'
BY IdleType, PrintCaptureAssumption
   DEF Restart, tables, RestoredJobs, PollIdle, DeletionIdle, Running, ProfileRows, Configs,
       IInv, TypeOK, PollCarries, RowsInOrder, DeletionNamesStream,
       AtMostOneOpen, OpenPrints, RenderNotBeforeClose, MayRender, RenderedOnce

\* Time passes without touching a row.
LEMMA GraceExpiresIInv ==
    ASSUME IInv, GraceExpires
    PROVE  IInv'
BY IdleType
   DEF GraceExpires, pollOther,
       IInv, TypeOK, PollCarries, RowsInOrder, DeletionNamesStream,
       AtMostOneOpen, OpenPrints, RenderNotBeforeClose, MayRender, RenderedOnce

\* So does the printer being unplugged.
LEMMA PowerOffIInv ==
    ASSUME IInv, PowerOff
    PROVE  IInv'
BY IdleType
   DEF PowerOff, tables,
       IInv, TypeOK, PollCarries, RowsInOrder, DeletionNamesStream,
       AtMostOneOpen, OpenPrints, RenderNotBeforeClose, MayRender, RenderedOnce

\* Storing the settings touches no print.
LEMMA PutSavesIInv ==
    ASSUME IInv, NEW c \in Configs, PutSaves(c)
    PROVE  IInv'
BY IdleType
   DEF PutSaves, putOther,
       IInv, TypeOK, PollCarries, RowsInOrder, DeletionNamesStream,
       AtMostOneOpen, OpenPrints, RenderNotBeforeClose, MayRender, RenderedOnce

\* A refused settings request ends without touching a print.
LEMMA PutRaisesIInv ==
    ASSUME IInv, PutRaises
    PROVE  IInv'
BY IdleType
   DEF PutRaises, putOther,
       IInv, TypeOK, PollCarries, RowsInOrder, DeletionNamesStream,
       AtMostOneOpen, OpenPrints, RenderNotBeforeClose, MayRender, RenderedOnce

\* Switching the integration on opens no print.
LEMMA PutSwitchesOnIInv ==
    ASSUME IInv, PutSwitchesOn
    PROVE  IInv'
BY EnsuredType
   DEF PutSwitchesOn, putOther,
       IInv, TypeOK, PollCarries, RowsInOrder, DeletionNamesStream,
       AtMostOneOpen, OpenPrints, RenderNotBeforeClose, MayRender, RenderedOnce

\* Switching it off cancels the open print and leaves the closed ones.
LEMMA PutSwitchesOffIInv ==
    ASSUME IInv, PutSwitchesOff
    PROVE  IInv'
<1>1. cfg \in Configs
    BY DEF IInv, TypeOK
<1>2. /\ profile' \in ProfileRows
      /\ lastProfile' \in Nat
    BY <1>1, EnsuredType DEF PutSwitchesOff, CutOff, IInv, ProfileRows
<1>3. prints' \in [PrintIds -> PrintRows]
    BY DEF PutSwitchesOff, IInv, TypeOK, PrintRows, Terminal
<1>4. \A p \in PrintIds : \/ prints'[p] = prints[p]
                          \/ /\ prints[p].status = "printing"
                             /\ prints'[p].status = "cancelled"
    BY DEF PutSwitchesOff, CancelledPrints, OpenPrints, IInv, TypeOK, PrintRows
<1>5. TypeOK'
    BY <1>2, <1>3 DEF PutSwitchesOff, putOther, IInv, TypeOK
<1>6. PollCarries' /\ DeletionNamesStream'
    BY DEF PutSwitchesOff, putOther, IInv, PollCarries, DeletionNamesStream
<1>7. RowsInOrder' /\ AtMostOneOpen'
    BY <1>4, EndingKeepsOrder DEF PutSwitchesOff, putOther
<1>8. RenderNotBeforeClose'
    BY <1>4
       DEF PutSwitchesOff, putOther, IInv, PollCarries, RenderNotBeforeClose,
           MayRender, Terminal
<1>9. RenderedOnce'
    BY <1>4
       DEF PutSwitchesOff, putOther, IInv, RenderNotBeforeClose, RenderedOnce
<1> QED
    BY <1>5, <1>6, <1>7, <1>8, <1>9 DEF IInv

\* A deletion that starts names its stream.
LEMMA DeleteStartsIInv ==
    ASSUME IInv, NEW s \in Streams, DeleteStarts(s)
    PROVE  IInv'
BY IdleType
   DEF DeleteStarts, deleteOther, DeletionRecords, ProfileRows,
       IInv, TypeOK, PollCarries, RowsInOrder, DeletionNamesStream,
       AtMostOneOpen, OpenPrints, RenderNotBeforeClose, MayRender, RenderedOnce

\* The cascade of a deleted stream deletes its prints, also the one a poll is
\* about to render.
LEMMA DeleteCommitsIInv ==
    ASSUME IInv, DeleteCommits
    PROVE  IInv'
<1>1. deletion.stream \in Streams /\ deletion.stream # NoStream
    BY PrintCaptureAssumption
       DEF DeleteCommits, IInv, DeletionNamesStream
<1>2. deletion' \in DeletionRecords /\ deletion'.stream = deletion.stream
    BY DEF DeleteCommits, IInv, TypeOK, DeletionRecords
<1>3. prints' \in [PrintIds -> PrintRows]
    BY DEF DeleteCommits, IInv, TypeOK, PrintRows
<1>4. /\ profile' \in ProfileRows
      /\ streams' \in SUBSET Streams
    BY IdleType DEF DeleteCommits, IInv, TypeOK
<1>5. \A p \in PrintIds : \/ prints'[p] = prints[p]
                          \/ /\ prints[p].stream = deletion.stream
                             /\ prints'[p].status = "deleted"
    BY DEF DeleteCommits, IInv, TypeOK, PrintRows
<1>6. TypeOK'
    BY <1>2, <1>3, <1>4 DEF DeleteCommits, deleteOther, IInv, TypeOK
<1>7. PollCarries' /\ DeletionNamesStream'
    BY <1>1, <1>2
       DEF DeleteCommits, deleteOther, IInv, PollCarries, DeletionNamesStream
<1>9. RowsInOrder'
    <2> SUFFICES ASSUME NEW p \in PrintIds, p > lastPrint
                 PROVE  prints'[p] = NoPrint
        BY DEF DeleteCommits, deleteOther, RowsInOrder
    <2>1. prints[p] = NoPrint
        BY DEF IInv, RowsInOrder
    <2>2. prints[p].stream # deletion.stream
        BY <1>1, <2>1 DEF NoPrint
    <2> QED
        BY <1>5, <2>1, <2>2
<1>8. AtMostOneOpen' /\ RenderNotBeforeClose' /\ RenderedOnce'
    BY <1>5
       DEF DeleteCommits, deleteOther, IInv, AtMostOneOpen, OpenPrints,
           PollCarries, RenderNotBeforeClose, MayRender, RenderedOnce, Terminal
<1> QED
    BY <1>6, <1>7, <1>8, <1>9 DEF IInv

\* Removing the jobs of a deleted stream touches no row.
LEMMA DeleteJobsIInv ==
    ASSUME IInv, DeleteJobs
    PROVE  IInv'
<1>1. deletion' \in DeletionRecords /\ deletion'.pc = "idle"
    BY IdleType DEF DeleteJobs, DeletionIdle
<1> QED
    BY <1>1
       DEF DeleteJobs, deleteOther, IInv, TypeOK, PollCarries, RowsInOrder,
           DeletionNamesStream, AtMostOneOpen, OpenPrints,
           RenderNotBeforeClose, MayRender, RenderedOnce

\* A health check that starts touches no row.
LEMMA CheckStartIInv ==
    ASSUME IInv, NEW s \in Streams, CheckStart(s)
    PROVE  IInv'
<1>1. check' \in CheckRecords
    BY DEF CheckStart, CheckRecords, CheckIdle
<1> QED
    BY <1>1
       DEF CheckStart, checkOther, IInv, TypeOK, PollCarries, RowsInOrder,
           DeletionNamesStream, AtMostOneOpen, OpenPrints,
           RenderNotBeforeClose, MayRender, RenderedOnce

-----------------------------------------------------------------------------
(* Reconciling one polled status, in the step of its answer or again *)

\* What every outcome of _reconcile leaves behind.
Reconciled ==
    /\ profile' \in ProfileRows
    /\ lastProfile' \in Nat
    /\ prints' \in [PrintIds -> PrintRows]
    /\ lastPrint' \in 0 .. MaxPrints
    /\ renders' = renders
    /\ capJobs' \in SUBSET Nat
    /\ poll' \in PollRecords
    /\ PollCarries'
    /\ RowsInOrder'
    /\ AtMostOneOpen'
    /\ RenderNotBeforeClose'
    /\ RenderedOnce'

\* A reconcile that changes nothing keeps what it was given.
LEMMA PollFailsReconciled ==
    ASSUME IInv, PollFails
    PROVE  Reconciled
<1>1. poll' \in PollRecords /\ poll'.pc = "idle"
    BY IdleType DEF PollFails, PollIdle
<1> QED
    BY <1>1
       DEF PollFails, Reconciled, IInv, TypeOK, PollCarries, RowsInOrder,
           AtMostOneOpen, OpenPrints, RenderNotBeforeClose, MayRender,
           RenderedOnce

\* Neither does a close whose commit fails change a print.
LEMMA CloseRaisesReconciled ==
    ASSUME IInv, NEW c \in Configs, NEW st \in Statuses, CloseRaises(c, st)
    PROVE  Reconciled
<1>1. poll' \in PollRecords /\ poll'.pc = "idle"
    BY IdleType DEF CloseRaises, PollIdle
<1>2. /\ profile' \in ProfileRows
      /\ lastProfile' \in Nat
      /\ capJobs' \in SUBSET Nat
    BY EnsuredType DEF CloseRaises, IInv, TypeOK
<1> QED
    BY <1>1, <1>2
       DEF CloseRaises, Reconciled, IInv, TypeOK, PollCarries, RowsInOrder,
           AtMostOneOpen, OpenPrints, RenderNotBeforeClose, MayRender,
           RenderedOnce

\* The rising edge takes an unused row, when no other is open.
LEMMA OpensPrintReconciled ==
    ASSUME IInv, NEW c \in Configs, NEW st \in Statuses, OpensPrint(c, st)
    PROVE  Reconciled
<1> DEFINE n == lastPrint + 1
<1>1. /\ n \in PrintIds
      /\ lastPrint' = n
      /\ n \in 0 .. MaxPrints
    BY PrintCaptureAssumption DEF OpensPrint, IInv, TypeOK, PrintIds
<1>2. prints[n].status = "absent"
    BY <1>1, PrintCaptureAssumption
       DEF IInv, TypeOK, RowsInOrder, NoPrint
<1>3. /\ prints' \in [PrintIds -> PrintRows]
      /\ prints'[n].status = "printing"
      /\ \A p \in PrintIds \ {n} : prints'[p] = prints[p]
    BY <1>1 DEF OpensPrint, IInv, TypeOK, PrintRows, Configs, Statuses
<1>4. poll' \in PollRecords /\ poll'.pc = "opened"
    BY IdleType, EnsuredType
       DEF OpensPrint, PollIdle, PollRecords, IInv, ProfileRows
<1>5. /\ profile' \in ProfileRows
      /\ lastProfile' \in Nat
    BY EnsuredType DEF OpensPrint, IInv, ProfileRows
<1>6. PollCarries'
    BY <1>4 DEF PollCarries
<1>7. RowsInOrder'
    <2> SUFFICES ASSUME NEW p \in PrintIds, p > n PROVE prints'[p] = NoPrint
        BY <1>1 DEF RowsInOrder
    <2>1. p > lastPrint /\ p # n
        BY DEF IInv, TypeOK, PrintIds
    <2> QED
        BY <2>1, <1>3 DEF IInv, RowsInOrder
<1>8. AtMostOneOpen'
    BY <1>3 DEF OpensPrint, Active, OpenPrints, AtMostOneOpen
<1>9. RenderNotBeforeClose' /\ RenderedOnce'
    BY <1>1, <1>2, <1>3, <1>4
       DEF OpensPrint, IInv, RenderNotBeforeClose, MayRender, RenderedOnce
<1> QED
    BY <1>1, <1>3, <1>4, <1>5, <1>6, <1>7, <1>8, <1>9
       DEF OpensPrint, Reconciled, IInv, TypeOK

\* A print that goes on stays the only one, with a late estimate at most.
LEMMA KeepsPrintReconciled ==
    ASSUME IInv, NEW c \in Configs, NEW st \in Statuses, KeepsPrint(c, st)
    PROVE  Reconciled
<1>1. PICK p \in PrintIds, late \in BOOLEAN :
        /\ prints[p].status = "printing"
        /\ prints' = [prints EXCEPT ![p].est = @ \/ late]
    <2>1. PICK p \in OpenPrints :
            prints' = [prints EXCEPT ![p].est =
                @ \/ (st.state = "printing" /\ ~prints[p].est /\ st.est)]
        BY DEF KeepsPrint
    <2> DEFINE late == st.state = "printing" /\ ~prints[p].est /\ st.est
    <2>2. late \in BOOLEAN
        OBVIOUS
    <2>3. p \in PrintIds /\ prints[p].status = "printing"
        BY DEF OpenPrints
    <2> QED
        BY <2>1, <2>2, <2>3
<1>2. /\ prints' \in [PrintIds -> PrintRows]
      /\ prints'[p].status = "printing"
      /\ \A q \in PrintIds \ {p} : prints'[q] = prints[q]
    BY <1>1 DEF IInv, TypeOK, PrintRows
<1>3. poll' \in PollRecords /\ poll'.pc = "idle"
    BY IdleType DEF KeepsPrint, PollIdle
<1>4. /\ profile' \in ProfileRows
      /\ lastProfile' \in Nat
      /\ lastPrint' = lastPrint
      /\ renders' = renders
    BY EnsuredType DEF KeepsPrint, IInv
<1>5. capJobs' \in SUBSET Nat
    BY EnsuredType DEF KeepsPrint, IInv, TypeOK, ProfileRows
<1>6. RowsInOrder'
    <2> SUFFICES ASSUME NEW q \in PrintIds, q > lastPrint
                 PROVE  prints'[q] = NoPrint
        BY <1>4 DEF RowsInOrder
    <2>1. prints[q] = NoPrint
        BY DEF IInv, RowsInOrder
    <2>2. q # p
        BY <1>1, <2>1 DEF NoPrint
    <2> QED
        BY <1>2, <2>1, <2>2
<1>7. \A q \in PrintIds : prints'[q].status = prints[q].status
    BY <1>1, <1>2
<1>8. AtMostOneOpen'
    BY <1>7 DEF IInv, AtMostOneOpen, OpenPrints
<1>9. PollCarries' /\ RenderNotBeforeClose' /\ RenderedOnce'
    BY <1>3, <1>4, <1>7
       DEF IInv, PollCarries, RenderNotBeforeClose, RenderedOnce
<1> QED
    BY <1>2, <1>3, <1>4, <1>5, <1>6, <1>8, <1>9 DEF Reconciled, IInv, TypeOK

\* A close ends the open print, and remembers it for its one render.
LEMMA ClosesPrintReconciled ==
    ASSUME IInv, NEW c \in Configs, NEW st \in Statuses, NEW state,
           NEW again \in BOOLEAN, ClosesPrint(c, st, state, again)
    PROVE  Reconciled
<1> DEFINE d == Decide(TRUE, state)
<1>1. PICK p \in PrintIds :
        /\ prints[p].status = "printing"
        /\ d.stop
        /\ prints' = [prints EXCEPT ![p].status = d.outcome]
        /\ poll' = [pc |-> "closed", cfg |-> c, status |-> st, print |-> p,
                    profile |-> Ensured(c).id, generate |-> d.generate,
                    again |-> again]
    BY DEF ClosesPrint, OpenPrints
<1>2. /\ d.outcome \in Terminal
      /\ d.generate \in BOOLEAN
      /\ d.generate => \/ d.outcome = "finished"
                       \/ d.outcome = "cancelled" /\ GenerateOnCancel
    BY PrintCaptureAssumption DEF Decide, Outcome, Generates, Terminal
<1> HIDE DEF d
<1>3. /\ prints' \in [PrintIds -> PrintRows]
      /\ prints'[p].status = d.outcome
      /\ \A q \in PrintIds \ {p} : prints'[q] = prints[q]
    BY <1>1, <1>2 DEF IInv, TypeOK, PrintRows
<1>4. poll' \in PollRecords
    BY <1>1, <1>2, EnsuredType
       DEF PollRecords, PrintIds, IInv, ProfileRows
<1>5. /\ profile' \in ProfileRows
      /\ lastProfile' \in Nat
      /\ lastPrint' = lastPrint
      /\ renders' = renders
      /\ capJobs' \in SUBSET Nat
    BY EnsuredType, SwitchedOffType DEF ClosesPrint, IInv, TypeOK
<1>6. PollCarries'
    BY <1>1 DEF PollCarries
<1>7. RowsInOrder' /\ AtMostOneOpen'
    BY <1>1, <1>2, <1>3, <1>5, EndingKeepsOrder DEF Terminal
<1>8. renders[p] = 0
    BY <1>1 DEF IInv, RenderNotBeforeClose
<1>9. RenderNotBeforeClose' /\ RenderedOnce'
    BY <1>1, <1>2, <1>3, <1>5, <1>8
       DEF IInv, RenderNotBeforeClose, MayRender, RenderedOnce, Terminal
<1> QED
    BY <1>3, <1>4, <1>5, <1>6, <1>7, <1>9 DEF Reconciled, IInv, TypeOK

\* Every way through _reconcile keeps the print rows in order.
LEMMA ReconcileReconciled ==
    ASSUME IInv, NEW c \in Configs, NEW st \in Statuses, Reconcile(c, st)
    PROVE  Reconciled
BY PollFailsReconciled, CloseRaisesReconciled, OpensPrintReconciled,
   KeepsPrintReconciled, ClosesPrintReconciled
   DEF Reconcile

\* A poll that is answered reconciles or changes nothing.
LEMMA PollAnsweredIInv ==
    ASSUME IInv, NEW st \in Replies, PollAnswered(st)
    PROVE  IInv'
<1>1. st \in Statuses
    BY PrintCaptureAssumption DEF Replies, Statuses
<1>2. Reconciled
    BY <1>1, ReconcileReconciled, PollFailsReconciled
       DEF PollAnswered, IInv, TypeOK
<1>3. unreachable' \in [PrintIds -> {"never", "recent", "expired"}]
    BY DEF PollAnswered, IInv, TypeOK
<1>4. TypeOK' /\ DeletionNamesStream'
    BY <1>2, <1>3
       DEF PollAnswered, pollOther, Reconciled, IInv, TypeOK,
           DeletionNamesStream
<1> QED
    BY <1>2, <1>4 DEF Reconciled, IInv

\* The second reconcile of a job-id change opens a print after the first one
\* has closed the old.
LEMMA PollAgainIInv ==
    ASSUME IInv, PollAgain
    PROVE  IInv'
<1>1. poll.cfg \in Configs /\ poll.status \in Statuses
    BY DEF PollAgain, IInv, TypeOK, PollRecords, PollCarries
<1>2. Reconciled
    BY <1>1, ReconcileReconciled DEF PollAgain
<1>3. TypeOK' /\ DeletionNamesStream'
    BY <1>2
       DEF PollAgain, pollOther, Reconciled, IInv, TypeOK, DeletionNamesStream
<1> QED
    BY <1>2, <1>3 DEF Reconciled, IInv

-----------------------------------------------------------------------------
(* The health monitor *)

\* A check leaves a well-typed health row.
LEMMA HealthAfterType ==
    ASSUME NEW row \in HealthRows, NEW found \in {"healthy", "unhealthy", "failed"}
    PROVE  HealthAfter(row, found) \in HealthRows
BY PrintCaptureAssumption DEF HealthAfter, HealthRows

\* The late commit of the health monitor writes well-typed rows.
LEMMA CommitsType ==
    ASSUME IInv, NEW s, NEW found \in {"healthy", "unhealthy", "failed"},
           NEW id, NEW dirty, Commits(s, found, id, dirty)
    PROVE  health' \in [Streams -> HealthRows] /\ profile' \in ProfileRows
<1>1. CASE s \in streams /\ (dirty = {} \/ profile.id = id)
    <2>1. s \in Streams /\ health[s] \in HealthRows
        BY <1>1 DEF IInv, TypeOK
    <2>2. health' \in [Streams -> HealthRows]
        BY <1>1, <2>1, HealthAfterType DEF Commits, IInv, TypeOK
    <2>3. profile' \in ProfileRows
        BY <1>1 DEF Commits, IInv, TypeOK, ProfileRows
    <2> QED
        BY <2>2, <2>3
<1>2. CASE ~(s \in streams /\ (dirty = {} \/ profile.id = id))
    BY <1>2 DEF Commits, IInv, TypeOK
<1> QED
    BY <1>1, <1>2

\* A step of the monitor writes health, the managed profile, its job and its
\* own record, and nothing else the invariant speaks of.
LEMMA CheckFrame ==
    ASSUME IInv, UNCHANGED checkOther,
           health' \in [Streams -> HealthRows], profile' \in ProfileRows,
           capJobs' \in SUBSET Nat, check' \in CheckRecords
    PROVE  IInv'
<1>1. TypeOK'
    BY DEF checkOther, IInv, TypeOK
<1>2. PollCarries' /\ RowsInOrder' /\ DeletionNamesStream'
    BY DEF checkOther, IInv, PollCarries, RowsInOrder, DeletionNamesStream
<1>3. AtMostOneOpen' /\ RenderNotBeforeClose' /\ RenderedOnce'
    BY DEF checkOther, IInv, AtMostOneOpen, OpenPrints, RenderNotBeforeClose,
           MayRender, RenderedOnce
<1> QED
    BY <1>1, <1>2, <1>3 DEF IInv

\* A verdict is committed or carried over the notification.
LEMMA CheckDecidesType ==
    ASSUME IInv, NEW s \in Streams \cup {NoStream},
           NEW found \in {"healthy", "unhealthy"},
           NEW id \in Nat, NEW dirty \in SUBSET {"enabled", "auto"},
           CheckDecides(s, found, id, dirty)
    PROVE  /\ health' \in [Streams -> HealthRows]
           /\ profile' \in ProfileRows
           /\ check' \in CheckRecords
<1>1. CASE Notify
    <2>1. check' \in CheckRecords
        <3>1. check' = [pc |-> "emitting", stream |-> s, id |-> id,
                       found |-> found, dirty |-> dirty]
            BY <1>1 DEF CheckDecides
        <3> QED
            BY <3>1 DEF CheckRecords
    <2> QED
        BY <1>1, <2>1 DEF CheckDecides, IInv, TypeOK
<1>2. CASE ~Notify
    BY <1>2, CommitsType, IdleType DEF CheckDecides
<1> QED
    BY <1>1, <1>2

\* No step of the health monitor touches a print.
LEMMA HealthMonitorIInv ==
    ASSUME IInv, HealthMonitor
    PROVE  IInv'
<1>1. ASSUME NEW s \in Streams, CheckStart(s) PROVE IInv'
    <2>1. check' \in CheckRecords
        BY <1>1 DEF CheckStart, CheckRecords, CheckIdle
    <2> QED
        BY <1>1, <2>1, CheckFrame DEF CheckStart, IInv, TypeOK
<1>2. CASE CheckQuiet
    BY <1>2, CommitsType, IdleType, CheckFrame DEF CheckQuiet, IInv, TypeOK
<1>3. CASE CheckCommits
    <2>1. check.found \in {"healthy", "unhealthy"}
        BY DEF IInv, TypeOK, CheckRecords
    <2> QED
        BY <1>3, <2>1, CommitsType, IdleType, CheckFrame
           DEF CheckCommits, IInv, TypeOK
<1>4. /\ check.stream \in Streams \cup {NoStream}
      /\ profile.id \in Nat
    BY DEF IInv, TypeOK, CheckRecords, ProfileRows
<1>5. CASE CheckRecovers
    <2>1. PICK dirty \in SUBSET {"enabled", "auto"} :
            CheckDecides(check.stream, "healthy", profile.id, dirty)
        BY <1>5 DEF CheckRecovers
    <2>2. capJobs' \in SUBSET Nat
        BY <1>4, <1>5 DEF CheckRecovers, IInv, TypeOK
    <2> QED
        BY <1>4, <1>5, <2>1, <2>2, CheckDecidesType, CheckFrame
           DEF CheckRecovers
<1>6. CASE CheckCondemns
    <2>1. PICK dirty \in SUBSET {"enabled", "auto"} :
            CheckDecides(check.stream, "unhealthy", profile.id, dirty)
        BY <1>6 DEF CheckCondemns, CondemnedColumns
    <2>2. capJobs' \in SUBSET Nat
        BY <1>4, <1>6 DEF CheckCondemns, IInv, TypeOK
    <2> QED
        BY <1>4, <1>6, <2>1, <2>2, CheckDecidesType, CheckFrame
           DEF CheckCondemns
<1> QED
    BY <1>1, <1>2, <1>3, <1>5, <1>6 DEF HealthMonitor

-----------------------------------------------------------------------------
(* The theorems *)

\* Every step keeps the invariant.
LEMMA NextIInv ==
    ASSUME IInv, [Next]_vars
    PROVE  IInv'
<1>1. CASE Poller
    BY <1>1, PollStartIInv, PollAnsweredIInv, PollUnansweredIInv,
       PollGivesUpIInv, GiveUpRaisesIInv, PollAddsJobIInv, PollClosedIInv,
       PollAgainIInv
       DEF Poller
<1>2. CASE Put
    BY <1>2, PutSavesIInv, PutRaisesIInv, PutSwitchesOnIInv, PutSwitchesOffIInv
       DEF Put
<1>3. CASE HealthMonitor
    BY <1>3, HealthMonitorIInv
<1>4. CASE StreamDeletion
    BY <1>4, DeleteStartsIInv, DeleteCommitsIInv, DeleteJobsIInv
       DEF StreamDeletion
<1>5. CASE \E p \in PrintIds : DeletePrint(p)
    BY <1>5, DeletePrintIInv
<1>6. CASE \E i \in capJobs : CaptureOrphan(i)
    BY <1>6, CaptureOrphanIInv
<1>7. CASE Restart \/ GraceExpires \/ PowerOff
    BY <1>7, RestartIInv, GraceExpiresIInv, PowerOffIInv
<1>8. CASE UNCHANGED vars
    BY <1>8
       DEF vars, IInv, TypeOK, PollCarries, RowsInOrder, DeletionNamesStream,
           AtMostOneOpen, OpenPrints, RenderNotBeforeClose, MayRender,
           RenderedOnce
<1> QED
    BY <1>1, <1>2, <1>3, <1>4, <1>5, <1>6, <1>7, <1>8 DEF Next

\* The strengthening is an invariant: it holds initially, and every action of
\* the poller, the settings request, the health monitor, a deletion and a
\* restart preserves it.
THEOREM Invariance == Spec => []IInv
<1> QED
    BY InitIInv, NextIInv, PTL DEF Spec

\* The variables keep their shape in every run of every instance.
THEOREM TypeCorrect == Spec => []TypeOK
<1>1. IInv => TypeOK
    BY DEF IInv
<1> QED
    BY <1>1, Invariance, PTL

\* There is never a second open print: whatever the poller, a job-id change,
\* the settings request, the health monitor, a deletion, a failed commit, a
\* restart and a crash do, and in whichever order (prusalink.py:382-388).
THEOREM OnePrintAtATime == Spec => []AtMostOneOpen
<1>1. IInv => AtMostOneOpen
    BY DEF IInv
<1> QED
    BY <1>1, Invariance, PTL

\* A print is rendered at most once, and only as its outcome allows
\* (prusalink.py:476-499).
THEOREM NoSecondRender == Spec => []RenderedOnce
<1>1. IInv => RenderedOnce
    BY DEF IInv
<1> QED
    BY <1>1, Invariance, PTL

-----------------------------------------------------------------------------
(* What a step may do to a closed print *)

ClosedKept ==
    \A p \in PrintIds : prints[p].status \in Terminal =>
        prints'[p].status \in {prints[p].status, "deleted"}

\* No way through _reconcile changes a print that is over.
LEMMA ReconcileKeepsClosed ==
    ASSUME IInv, NEW c \in Configs, NEW st \in Statuses, Reconcile(c, st)
    PROVE  ClosedKept
<1>1. CASE OpensPrint(c, st)
    <2>1. lastPrint + 1 \in PrintIds
        BY <1>1, PrintCaptureAssumption DEF OpensPrint, IInv, TypeOK, PrintIds
    <2>2. prints[lastPrint + 1] = NoPrint
        BY <2>1 DEF IInv, TypeOK, RowsInOrder
    <2>3. prints[lastPrint + 1].status \notin Terminal
        BY <2>2 DEF NoPrint, Terminal
    <2> QED
        BY <1>1, <2>3 DEF OpensPrint, ClosedKept, IInv, TypeOK
<1>2. CASE KeepsPrint(c, st)
    BY <1>2 DEF KeepsPrint, OpenPrints, Terminal, ClosedKept, IInv, TypeOK,
                PrintRows
<1>3. ASSUME NEW state, NEW again \in BOOLEAN, ClosesPrint(c, st, state, again)
      PROVE  ClosedKept
    BY <1>3 DEF ClosesPrint, OpenPrints, Terminal, ClosedKept, IInv, TypeOK,
                PrintRows
<1>4. CASE CloseRaises(c, st) \/ PollFails
    BY <1>4 DEF CloseRaises, PollFails, ClosedKept
<1> QED
    BY <1>1, <1>2, <1>3, <1>4 DEF Reconcile

\* No step changes how a print ended, except by deleting it.
LEMMA NextKeepsClosed ==
    ASSUME IInv, [Next]_vars
    PROVE  ClosedKept
<1>1. CASE Poller
    <2>1. ASSUME NEW st \in Replies, PollAnswered(st) PROVE ClosedKept
        <3>1. st \in Statuses /\ cfg \in Configs
            BY PrintCaptureAssumption DEF Replies, Statuses, IInv, TypeOK
        <3>2. CASE Reconcile(cfg, st)
            BY <3>1, <3>2, ReconcileKeepsClosed
        <3>3. CASE PollFails
            BY <3>3 DEF PollFails, ClosedKept
        <3> QED
            BY <2>1, <3>2, <3>3 DEF PollAnswered
    <2>2. CASE PollAgain
        <3>1. poll.cfg \in Configs /\ poll.status \in Statuses
            BY <2>2 DEF PollAgain, IInv, TypeOK, PollRecords, PollCarries
        <3> QED
            BY <2>2, <3>1, ReconcileKeepsClosed DEF PollAgain
    <2>3. CASE PollGivesUp
        BY <2>3 DEF PollGivesUp, OpenPrints, Terminal, ClosedKept, IInv,
                    TypeOK, PrintRows
    <2>4. CASE PollStart \/ PollUnanswered \/ GiveUpRaises \/ PollAddsJob
                \/ PollClosed
        BY <2>4 DEF PollStart, PollUnanswered, PollFails, GiveUpRaises,
                    PollAddsJob, PollClosed, ClosedKept
    <2> QED
        BY <1>1, <2>1, <2>2, <2>3, <2>4 DEF Poller
<1>2. CASE Put
    <2>1. CASE PutSwitchesOff
        BY <2>1 DEF PutSwitchesOff, CancelledPrints, OpenPrints, Terminal,
                    ClosedKept, IInv, TypeOK, PrintRows
    <2>2. CASE PutRaises \/ PutSwitchesOn \/ \E c \in Configs : PutSaves(c)
        BY <2>2 DEF PutRaises, PutSwitchesOn, PutSaves, ClosedKept
    <2> QED
        BY <1>2, <2>1, <2>2 DEF Put
<1>3. CASE HealthMonitor
    BY <1>3 DEF HealthMonitor, CheckStart, CheckQuiet, CheckRecovers,
                CheckCondemns, CheckCommits, checkOther, ClosedKept
<1>4. CASE StreamDeletion
    <2>1. CASE DeleteCommits
        BY <2>1 DEF DeleteCommits, ClosedKept, IInv, TypeOK, PrintRows
    <2>2. CASE DeleteJobs \/ \E s \in Streams : DeleteStarts(s)
        BY <2>2 DEF DeleteJobs, DeleteStarts, ClosedKept
    <2> QED
        BY <1>4, <2>1, <2>2 DEF StreamDeletion
<1>5. CASE \E p \in PrintIds : DeletePrint(p)
    BY <1>5 DEF DeletePrint, ClosedKept, IInv, TypeOK, PrintRows
<1>6. CASE \E i \in capJobs : CaptureOrphan(i)
    BY <1>6 DEF CaptureOrphan, tables, ClosedKept
<1>7. CASE Restart \/ GraceExpires \/ PowerOff
    BY <1>7 DEF Restart, GraceExpires, PowerOff, tables, ClosedKept
<1>8. CASE UNCHANGED vars
    BY <1>8 DEF vars, ClosedKept
<1> QED
    BY <1>1, <1>2, <1>3, <1>4, <1>5, <1>6, <1>7, <1>8 DEF Next

\* No step reopens a closed print or changes how it ended
\* (print_jobs.py:30-58 may only delete it).
THEOREM ClosedForGood == Spec => ClosedStaysClosed
<1>1. IInv /\ [Next]_vars =>
        [\A p \in PrintIds : prints[p].status \in Terminal =>
            prints'[p].status \in {prints[p].status, "deleted"}]_prints
    BY NextKeepsClosed DEF ClosedKept
<1> QED
    BY <1>1, Invariance, PTL DEF Spec, ClosedStaysClosed
=============================================================================
