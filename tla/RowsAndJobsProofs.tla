------------------------- MODULE RowsAndJobsProofs -------------------------
(***************************************************************************)
(* Theorems of the two services that keep a scheduler job for a row of the *)
(* database: the schedules and the capture profiles.  For any number of    *)
(* rows and of requests that overtake each other.                          *)
(***************************************************************************)
EXTENDS Schedules, ProfileLifecycle, TLAPS

-----------------------------------------------------------------------------
(***************************************************************************)
(* Timelapse and cleanup schedules.                                        *)
(*                                                                         *)
(* The invariant looks at the requests that still owe the scheduler a call *)
(* or the table a commit.  A schedule nobody owes anything has the row's   *)
(* job, unless a realignment has left it behind; and as a realignment does *)
(* not enable or disable, whether there is a job can only be off while     *)
(* another request is at work.                                             *)
(***************************************************************************)

\* A request on s that has yet to call the scheduler, or to commit.
Owes(h, s) == /\ s \in handler[h].of
              /\ handler[h].pc \in {"committed", "scheduling", "deleting"}

\* The same, of a request that may change whether s is enabled.
OwesOutright(h, s) == Owes(h, s) /\ ~handler[h].loop

HandlersInOrder ==
    \A h \in Handlers :
        /\ h > handled => handler[h] = HandlerIdle
        /\ handler[h].pc = "idle" => handler[h].of = {}
        /\ handler[h].pc \in {"posting", "deleting"} => ~handler[h].loop
        /\ ~handler[h].loop => \A s, t \in handler[h].of : s = t
        /\ handler[h].loop /\ handler[h].pc = "putting"
               => \A s \in handler[h].of : handler[h].new[s].on = handler[h].seen[s].on

FreshReading ==
    \A h \in Handlers : \A s \in handler[h].at :
        handler[h].pc = "scheduling" /\ handler[h].fresh
            => Stored(s) /\ handler[h].seen[s] = schedule[s].val

JobAgrees(s) ==
    Stored(s) /\ s \notin astray =>
        /\ (\A h \in Handlers : ~OwesOutright(h, s))
               => cronjob[s].on = schedule[s].val.on
        /\ s \notin stranded /\ (\A h \in Handlers : ~Owes(h, s))
               => cronjob[s] = JobOf(schedule[s].val)

JobsAgree == \A s \in ScheduleIds : JobAgrees(s)

ScheduleInv ==
    /\ ScheduleTypeOK
    /\ HandlersInOrder
    /\ FreshReading
    /\ JobsAgree

LEMMA IdleRequestTypes ==
    /\ NoValue \in Values /\ ~NoValue.on /\ ~NoValue.preset
    /\ NoValues \in [ScheduleIds -> Values]
    /\ HandlerIdle \in HandlerRecords
    /\ HandlerIdle.pc = "idle" /\ HandlerIdle.of = {} /\ HandlerIdle.at = {}
    /\ ~HandlerIdle.loop /\ ~HandlerIdle.fresh
    /\ \A v \in Values : JobOf(v) \in Values /\ JobOf(v).on = v.on
<1>1. NoValue \in Values /\ ~NoValue.on /\ ~NoValue.preset
    BY DEF NoValue, Values, Times
<1>2. NoValues \in [ScheduleIds -> Values]
    BY <1>1 DEF NoValues
<1>3. \A v \in Values : JobOf(v) \in Values /\ JobOf(v).on = v.on
    BY <1>1 DEF JobOf, Values
<1> QED
    BY <1>1, <1>2, <1>3 DEF HandlerIdle, HandlerRecords

\* A boundary that is moved is still a time.
LEMMA RealignedIsTime ==
    ASSUME NEW time \in Times, NEW w \in Windows
    PROVE  Realigned(time, w) \in Times
BY DEF Times, Midday, Realigned

LEMMA InitSchedules == ScheduleInit => ScheduleInv
<1> SUFFICES ASSUME ScheduleInit PROVE ScheduleInv
    OBVIOUS
<1>1. schedule \in [ScheduleIds -> [state : {"unborn", "here", "gone"}, val : Values]]
    BY IdleRequestTypes, SchedulesAssumption DEF ScheduleInit
<1>2. /\ cronjob = [s \in ScheduleIds |-> JobOf(schedule[s].val)]
      /\ handler = [h \in Handlers |-> HandlerIdle]
      /\ astray = {} /\ stranded = {} /\ handled = 0 /\ reboots = 0
    BY DEF ScheduleInit
<1>3. ScheduleTypeOK
    BY <1>1, <1>2, IdleRequestTypes, SchedulesAssumption DEF ScheduleTypeOK
<1>4. HandlersInOrder /\ FreshReading
    BY <1>2, IdleRequestTypes DEF HandlersInOrder, FreshReading
<1>5. JobsAgree
    BY <1>1, <1>2, IdleRequestTypes DEF JobsAgree, JobAgrees
<1> QED
    BY <1>3, <1>4, <1>5 DEF ScheduleInv

\* A step that leaves row and job of t alone and settles no debt on t, except
\* by leaving t stranded.
Undisturbed(t) ==
    /\ schedule'[t] = schedule[t] /\ cronjob'[t] = cronjob[t]
    /\ t \in astray => t \in astray'
    /\ t \in stranded => t \in stranded'
    /\ \A g \in Handlers : /\ OwesOutright(g, t) => OwesOutright(g, t)'
                           /\ Owes(g, t) => Owes(g, t)' \/ t \in stranded'

LEMMA UndisturbedAgrees ==
    ASSUME NEW t, JobAgrees(t), Undisturbed(t)
    PROVE  JobAgrees(t)'
BY DEF JobAgrees, Undisturbed, Stored

\* Request h takes a step in which the others are overtaken at most.
OnlyOvertaken(h) ==
    \A g \in Handlers \ {h} :
        \/ handler'[g] = handler[g]
        \/ handler'[g] = [handler[g] EXCEPT !.fresh = FALSE]

LEMMA OthersKept ==
    ASSUME ScheduleInv, NEW h, OnlyOvertaken(h), NEW g \in Handlers \ {h}
    PROVE  /\ handler'[g].pc = handler[g].pc /\ handler'[g].of = handler[g].of
           /\ handler'[g].at = handler[g].at /\ handler'[g].loop = handler[g].loop
           /\ handler'[g].seen = handler[g].seen /\ handler'[g].new = handler[g].new
           /\ handler'[g].fresh => handler[g].fresh
           /\ handler[g] = HandlerIdle => handler'[g] = HandlerIdle
           /\ \A t : /\ Owes(g, t)' <=> Owes(g, t)
                     /\ OwesOutright(g, t)' <=> OwesOutright(g, t)
<1>1. handler[g] \in HandlerRecords
    BY DEF ScheduleInv, ScheduleTypeOK
<1>2. \/ handler'[g] = handler[g]
      \/ handler'[g] = [handler[g] EXCEPT !.fresh = FALSE]
    BY DEF OnlyOvertaken
<1>3. /\ handler'[g].pc = handler[g].pc /\ handler'[g].of = handler[g].of
      /\ handler'[g].at = handler[g].at /\ handler'[g].loop = handler[g].loop
      /\ handler'[g].seen = handler[g].seen /\ handler'[g].new = handler[g].new
      /\ handler'[g].fresh => handler[g].fresh
    BY <1>1, <1>2 DEF HandlerRecords
<1>4. handler[g] = HandlerIdle => handler'[g] = HandlerIdle
    <2>1. [HandlerIdle EXCEPT !.fresh = FALSE] = HandlerIdle
        BY IdleRequestTypes DEF HandlerRecords
    <2> QED
        BY <1>2, <2>1
<1> QED
    BY <1>3, <1>4 DEF Owes, OwesOutright

\* What the step of h must make sure of itself for the requests to be in order.
LEMMA OrderKept ==
    ASSUME ScheduleInv, NEW h \in Handlers, OnlyOvertaken(h),
           handled \in Nat, handled' \in {handled, handled + 1}, ~(h > handled'),
           handler'[h].pc = "idle" => handler'[h].of = {},
           handler'[h].pc \in {"posting", "deleting"} => ~handler'[h].loop,
           ~handler'[h].loop => \A s, t \in handler'[h].of : s = t,
           handler'[h].loop /\ handler'[h].pc = "putting"
               => \A s \in handler'[h].of :
                      handler'[h].new[s].on = handler'[h].seen[s].on
    PROVE  HandlersInOrder'
<1> SUFFICES ASSUME NEW g \in Handlers
             PROVE  /\ g > handled' => handler'[g] = HandlerIdle
                    /\ handler'[g].pc = "idle" => handler'[g].of = {}
                    /\ handler'[g].pc \in {"posting", "deleting"} => ~handler'[g].loop
                    /\ ~handler'[g].loop => \A s, t \in handler'[g].of : s = t
                    /\ handler'[g].loop /\ handler'[g].pc = "putting"
                           => \A s \in handler'[g].of :
                                  handler'[g].new[s].on = handler'[g].seen[s].on
    BY DEF HandlersInOrder
<1>1. CASE g = h
    BY <1>1
<1>2. CASE g # h
    <2>1. g > handled' => g > handled
        BY DEF Handlers
    <2> QED
        BY <1>2, <2>1, OthersKept DEF ScheduleInv, HandlersInOrder
<1> QED
    BY <1>1, <1>2

\* The readings of the others stay good if only rows they do not hold change;
\* that of h is its own affair.
LEMMA ReadingKept ==
    ASSUME ScheduleInv, NEW h \in Handlers, OnlyOvertaken(h),
           \A g \in Handlers \ {h} : \A s \in handler[g].at :
               handler'[g].fresh /\ Stored(s) => schedule'[s] = schedule[s],
           \A s \in handler'[h].at :
               handler'[h].pc = "scheduling" /\ handler'[h].fresh
                   => Stored(s)' /\ handler'[h].seen[s] = schedule'[s].val
    PROVE  FreshReading'
<1> SUFFICES ASSUME NEW g \in Handlers, NEW s \in handler'[g].at,
                    handler'[g].pc = "scheduling", handler'[g].fresh
             PROVE  Stored(s)' /\ handler'[g].seen[s] = schedule'[s].val
    BY DEF FreshReading
<1>1. CASE g = h
    BY <1>1
<1>2. CASE g # h
    <2>1. /\ s \in handler[g].at /\ handler[g].pc = "scheduling" /\ handler[g].fresh
          /\ handler'[g].seen = handler[g].seen
        BY <1>2, OthersKept
    <2>2. Stored(s) /\ handler[g].seen[s] = schedule[s].val
        BY <2>1 DEF ScheduleInv, FreshReading
    <2> QED
        BY <1>2, <2>1, <2>2 DEF Stored
<1> QED
    BY <1>1, <1>2

\* A request arrives, on one schedule and after its predecessors: it owes
\* nothing yet, unless it has taken the job down.
LEMMA ReceivesKeeps ==
    ASSUME ScheduleInv, NEW h \in Handlers, NEW s \in ScheduleIds,
           NEW pc \in {"posting", "putting", "deleting"}, NEW new \in Values,
           NEW loop \in BOOLEAN, Receives(h, pc, s, new, loop),
           loop => pc = "putting" /\ new.on = schedule[s].val.on,
           \/ cronjob' = cronjob
           \/ pc = "deleting" /\ cronjob' = [cronjob EXCEPT ![s] = NoValue]
    PROVE  ScheduleInv'
<1> DEFINE arrived == [HandlerIdle EXCEPT !.pc = pc, !.of = {s}, !.loop = loop,
                           !.seen[s] = schedule[s].val, !.new[s] = new]
<1>1. /\ h = handled + 1 /\ handled' = h
      /\ handler' = [handler EXCEPT ![h] = arrived]
      /\ UNCHANGED <<schedule, astray, stranded, reboots>>
    BY DEF Receives
<1>2. /\ handled \in 0 .. MaxHandled /\ MaxHandled \in Nat
      /\ handler \in [Handlers -> HandlerRecords]
      /\ schedule[s].val \in Values
    BY SchedulesAssumption DEF ScheduleInv, ScheduleTypeOK
<1>3. /\ arrived \in HandlerRecords
      /\ arrived.pc = pc /\ arrived.of = {s} /\ arrived.at = {}
      /\ arrived.loop = loop /\ arrived.fresh = FALSE
      /\ arrived.seen[s] = schedule[s].val /\ arrived.new[s] = new
    BY <1>2, IdleRequestTypes DEF HandlerRecords
<1> HIDE DEF arrived
<1>4. handler'[h] = arrived /\ \A g \in Handlers \ {h} : handler'[g] = handler[g]
    BY <1>1, <1>2
<1>5. handler[h] = HandlerIdle
    BY <1>1, <1>2 DEF ScheduleInv, HandlersInOrder, Handlers
<1>6. OnlyOvertaken(h)
    BY <1>4 DEF OnlyOvertaken
<1>7. ScheduleTypeOK'
    <2>1. handled' \in 0 .. MaxHandled
        BY <1>1 DEF Handlers
    <2>2. cronjob' \in [ScheduleIds -> Values]
        BY IdleRequestTypes DEF ScheduleInv, ScheduleTypeOK
    <2>3. handler' \in [Handlers -> HandlerRecords]
        BY <1>1, <1>2, <1>3
    <2> QED
        BY <1>1, <2>1, <2>2, <2>3 DEF ScheduleInv, ScheduleTypeOK
<1>8. HandlersInOrder'
    BY <1>1, <1>2, <1>3, <1>4, <1>6, OrderKept DEF Handlers
<1>9. FreshReading'
    BY <1>1, <1>3, <1>4, <1>6, ReadingKept
<1>10. JobsAgree'
    <2> SUFFICES ASSUME NEW t \in ScheduleIds PROVE JobAgrees(t)'
        BY DEF JobsAgree
    <2>1. JobAgrees(t)
        BY DEF ScheduleInv, JobsAgree
    <2>2. \A g \in Handlers : /\ OwesOutright(g, t) => OwesOutright(g, t)'
                              /\ Owes(g, t) => Owes(g, t)'
        BY <1>4, <1>5, IdleRequestTypes DEF Owes, OwesOutright
    <2>3. CASE cronjob'[t] = cronjob[t]
        <3>1. Undisturbed(t)
            BY <1>1, <2>2, <2>3 DEF Undisturbed
        <3> QED
            BY <2>1, <3>1, UndisturbedAgrees
    <2>4. CASE cronjob'[t] # cronjob[t]
        <3>1. t = s /\ pc = "deleting"
            BY <2>4 DEF ScheduleInv, ScheduleTypeOK
        <3>2. Owes(h, t)' /\ OwesOutright(h, t)'
            BY <1>3, <1>4, <3>1 DEF Owes, OwesOutright
        <3> QED
            BY <3>2 DEF JobAgrees
    <2> QED
        BY <2>3, <2>4
<1> QED
    BY <1>7, <1>8, <1>9, <1>10 DEF ScheduleInv

\* A realignment reads one more row.
LEMMA GathersKeeps ==
    ASSUME ScheduleInv, NEW h \in Handlers, NEW s \in ScheduleIds, NEW new \in Values,
           handler[h].pc = "putting", handler[h].loop,
           new.on = schedule[s].val.on, s \notin handler[h].of,
           handler' = [handler EXCEPT ![h].of = @ \cup {s},
               ![h].seen[s] = schedule[s].val, ![h].new[s] = new],
           UNCHANGED <<schedule, cronjob, astray, stranded, handled, reboots>>
    PROVE  ScheduleInv'
<1>1. /\ handler \in [Handlers -> HandlerRecords] /\ schedule[s].val \in Values
      /\ handled \in Nat
    BY SchedulesAssumption DEF ScheduleInv, ScheduleTypeOK
<1>2. /\ handler' \in [Handlers -> HandlerRecords]
      /\ handler'[h].pc = "putting" /\ handler'[h].loop
      /\ handler'[h].of = handler[h].of \cup {s}
      /\ handler'[h].seen[s] = schedule[s].val /\ handler'[h].new[s] = new
      /\ \A t \in handler[h].of : /\ handler'[h].seen[t] = handler[h].seen[t]
                                  /\ handler'[h].new[t] = handler[h].new[t]
      /\ \A g \in Handlers \ {h} : handler'[g] = handler[g]
    <2> DEFINE old == handler[h]
               gathered == [old EXCEPT !.of = @ \cup {s},
                                !.seen[s] = schedule[s].val, !.new[s] = new]
    <2>1. old \in HandlerRecords /\ \A t \in old.of : t \in ScheduleIds
        BY <1>1 DEF HandlerRecords
    <2>2. /\ gathered \in HandlerRecords
          /\ gathered.pc = old.pc /\ gathered.loop = old.loop
          /\ gathered.of = old.of \cup {s}
          /\ gathered.seen = [old.seen EXCEPT ![s] = schedule[s].val]
          /\ gathered.new = [old.new EXCEPT ![s] = new]
        BY <1>1, <2>1 DEF HandlerRecords
    <2>3. /\ old.seen \in [ScheduleIds -> Values] /\ old.new \in [ScheduleIds -> Values]
        BY <2>1 DEF HandlerRecords
    <2>4. handler'[h] = gathered
        BY <1>1
    <2> HIDE DEF gathered
    <2> QED
        BY <1>1, <2>1, <2>2, <2>3, <2>4
<1>3. OnlyOvertaken(h)
    BY <1>2 DEF OnlyOvertaken
<1>4. ScheduleTypeOK'
    BY <1>2 DEF ScheduleInv, ScheduleTypeOK
<1>5. HandlersInOrder'
    <2>1. ~(h > handled)
        BY IdleRequestTypes DEF ScheduleInv, HandlersInOrder
    <2>2. \A t \in handler'[h].of : handler'[h].new[t].on = handler'[h].seen[t].on
        BY <1>2 DEF ScheduleInv, HandlersInOrder
    <2>3. handled' = handled /\ ~(h > handled')
        BY <2>1
    <2>4. handler'[h].pc \notin {"idle", "posting", "deleting"}
        BY <1>2
    <2> QED
        BY <1>1, <1>2, <1>3, <2>2, <2>3, <2>4, OrderKept
<1>6. FreshReading'
    BY <1>2, <1>3, ReadingKept
<1>7. JobsAgree'
    <2> SUFFICES ASSUME NEW t \in ScheduleIds PROVE JobAgrees(t)'
        BY DEF JobsAgree
    <2>1. JobAgrees(t)
        BY DEF ScheduleInv, JobsAgree
    <2>2. Undisturbed(t)
        BY <1>2 DEF Undisturbed, Owes, OwesOutright
    <2> QED
        BY <2>1, <2>2, UndisturbedAgrees
<1> QED
    BY <1>4, <1>5, <1>6, <1>7 DEF ScheduleInv

\* A request ends without having changed anything; what it still owed is
\* stranded, or was owed for a row that is gone.
LEMMA RequestEndsKeeps ==
    ASSUME ScheduleInv, NEW h \in Handlers, ~(h > handled),
           handler' = [handler EXCEPT ![h] = HandlerIdle],
           UNCHANGED <<schedule, cronjob, astray, handled, reboots>>,
           stranded \subseteq stranded', stranded' \subseteq ScheduleIds,
           \A t \in ScheduleIds : /\ OwesOutright(h, t) => ~Stored(t)
                                  /\ Owes(h, t) => ~Stored(t) \/ t \in stranded'
    PROVE  ScheduleInv'
<1>1. /\ handler \in [Handlers -> HandlerRecords] /\ handled \in Nat
    BY SchedulesAssumption DEF ScheduleInv, ScheduleTypeOK
<1>2. /\ handler' \in [Handlers -> HandlerRecords] /\ handler'[h] = HandlerIdle
      /\ \A g \in Handlers \ {h} : handler'[g] = handler[g]
    BY <1>1, IdleRequestTypes
<1>3. OnlyOvertaken(h)
    BY <1>2 DEF OnlyOvertaken
<1>4. ScheduleTypeOK'
    BY <1>2 DEF ScheduleInv, ScheduleTypeOK
<1>5. HandlersInOrder'
    <2>1. handled' = handled /\ ~(h > handled')
        OBVIOUS
    <2> QED
        BY <1>1, <1>2, <1>3, <2>1, IdleRequestTypes, OrderKept
<1>6. FreshReading'
    BY <1>2, <1>3, IdleRequestTypes, ReadingKept
<1>7. JobsAgree'
    <2> SUFFICES ASSUME NEW t \in ScheduleIds PROVE JobAgrees(t)'
        BY DEF JobsAgree
    <2>1. JobAgrees(t)
        BY DEF ScheduleInv, JobsAgree
    <2>2. CASE ~Stored(t)
        BY <2>2 DEF JobAgrees, Stored
    <2>3. CASE Stored(t)
        <3>1. Undisturbed(t)
            BY <1>2, <2>3 DEF Undisturbed, Owes, OwesOutright
        <3> QED
            BY <2>1, <3>1, UndisturbedAgrees
    <2> QED
        BY <2>2, <2>3
<1> QED
    BY <1>4, <1>5, <1>6, <1>7 DEF ScheduleInv

\* A schedule is stored, or the request finds it stored before.
LEMMA PostsKeeps ==
    ASSUME ScheduleInv, NEW h \in Handlers, NEW s \in handler[h].of, Posts(h, s)
    PROVE  ScheduleInv'
<1>1. /\ handler \in [Handlers -> HandlerRecords] /\ s \in ScheduleIds
      /\ handler[h].new[s] \in Values /\ handled \in Nat
      /\ handler[h].pc = "posting" /\ ~handler[h].loop
      /\ UNCHANGED <<cronjob, astray, stranded, handled, reboots>>
    BY SchedulesAssumption
       DEF Posts, HandlerRecords, ScheduleInv, ScheduleTypeOK, HandlersInOrder
<1>2. ~(h > handled) /\ handler[h] \in HandlerRecords
    BY <1>1, IdleRequestTypes DEF ScheduleInv, HandlersInOrder
<1>3. \A t \in ScheduleIds : ~Owes(h, t)
    BY <1>1 DEF Owes
<1>4. CASE schedule[s].state = "unborn"
    <2>1. /\ schedule' = [schedule EXCEPT ![s] =
                              [state |-> "here", val |-> handler[h].new[s]]]
          /\ handler' = [handler EXCEPT ![h].pc = "committed"]
        BY <1>4 DEF Posts
    <2>2. /\ handler' \in [Handlers -> HandlerRecords]
          /\ handler'[h].pc = "committed" /\ handler'[h].of = handler[h].of
          /\ handler'[h].loop = handler[h].loop
          /\ \A g \in Handlers \ {h} : handler'[g] = handler[g]
        BY <1>1, <1>2, <2>1 DEF HandlerRecords
    <2>3. /\ \A t \in ScheduleIds \ {s} : schedule'[t] = schedule[t]
          /\ schedule' \in [ScheduleIds -> [state : {"unborn", "here", "gone"},
                                            val : Values]]
        BY <1>1, <2>1 DEF ScheduleInv, ScheduleTypeOK
    <2>4. OnlyOvertaken(h)
        BY <2>2 DEF OnlyOvertaken
    <2>5. ScheduleTypeOK'
        BY <1>1, <2>2, <2>3 DEF ScheduleInv, ScheduleTypeOK
    <2>6. HandlersInOrder'
        <3>1. \A t, u \in handler'[h].of : t = u
            BY <1>1, <2>2 DEF ScheduleInv, HandlersInOrder
        <3>2. handled' = handled /\ ~(h > handled')
            BY <1>1, <1>2
        <3>3. handler'[h].pc \notin {"idle", "posting", "deleting", "putting"}
            BY <2>2
        <3> QED
            BY <1>1, <2>2, <2>4, <3>1, <3>2, <3>3, OrderKept
    <2>7. FreshReading'
        <3>1. ~Stored(s)
            BY <1>4 DEF Stored
        <3>2. \A g \in Handlers \ {h} : \A t \in handler[g].at : t \in ScheduleIds
            BY <1>1 DEF HandlerRecords
        <3>3. handler'[h].pc # "scheduling"
            BY <2>2
        <3> QED
            BY <2>3, <2>4, <3>1, <3>2, <3>3, ReadingKept
    <2>8. JobsAgree'
        <3> SUFFICES ASSUME NEW t \in ScheduleIds PROVE JobAgrees(t)'
            BY DEF JobsAgree
        <3>1. JobAgrees(t)
            BY DEF ScheduleInv, JobsAgree
        <3>2. CASE t = s
            BY <1>1, <2>2, <3>2 DEF JobAgrees, Owes, OwesOutright
        <3>3. CASE t # s
            <4>1. Undisturbed(t)
                BY <1>1, <1>3, <2>2, <2>3, <3>3 DEF Undisturbed, Owes, OwesOutright
            <4> QED
                BY <3>1, <4>1, UndisturbedAgrees
        <3> QED
            BY <3>2, <3>3
    <2> QED
        BY <2>5, <2>6, <2>7, <2>8 DEF ScheduleInv
<1>5. CASE schedule[s].state # "unborn"
    <2>1. handler' = [handler EXCEPT ![h] = HandlerIdle] /\ UNCHANGED schedule
        BY <1>5 DEF Posts
    <2>2. /\ stranded' = stranded /\ stranded \subseteq ScheduleIds
          /\ \A t \in ScheduleIds : ~Owes(h, t) /\ ~OwesOutright(h, t)
        BY <1>1, <1>3 DEF OwesOutright, ScheduleInv, ScheduleTypeOK
    <2> QED
        BY <1>1, <1>2, <2>1, <2>2, RequestEndsKeeps
<1> QED
    BY <1>4, <1>5

\* One commit for all the rows a request has changed.
LEMMA PutsKeeps ==
    ASSUME ScheduleInv, NEW h \in Handlers, Puts(h)
    PROVE  ScheduleInv'
<1> DEFINE of == handler[h].of
           written(s) == Written(schedule[s].val, handler[h].seen[s], handler[h].new[s])
<1>1. /\ handler \in [Handlers -> HandlerRecords] /\ handler[h] \in HandlerRecords
      /\ of \subseteq ScheduleIds /\ handled \in Nat /\ handler[h].pc = "putting"
      /\ UNCHANGED <<cronjob, astray, stranded, handled, reboots>>
    BY SchedulesAssumption DEF Puts, HandlerRecords, ScheduleInv, ScheduleTypeOK
<1>2. ~(h > handled)
    BY <1>1, IdleRequestTypes DEF ScheduleInv, HandlersInOrder
<1>3. \A t \in ScheduleIds : ~Owes(h, t)
    BY <1>1 DEF Owes
<1>4. CASE \A s \in of : Stored(s)
    <2>1. /\ schedule' = [s \in ScheduleIds |->
                IF s \notin of THEN schedule[s]
                ELSE [schedule[s] EXCEPT !.val = written(s)]]
          /\ handler' = [Overtaken(of) EXCEPT ![h].pc = "committed"]
        BY <1>4 DEF Puts
    <2>2. /\ handler' \in [Handlers -> HandlerRecords]
          /\ handler'[h].pc = "committed" /\ handler'[h].of = of
          /\ handler'[h].loop = handler[h].loop
          /\ \A g \in Handlers \ {h} :
                 handler'[g] = [handler[g] EXCEPT
                     !.fresh = @ /\ handler[g].at \cap of = {}]
        <3>1. Overtaken(of) \in [Handlers -> HandlerRecords]
            BY <1>1 DEF Overtaken, HandlerRecords
        <3>2. \A g \in Handlers : Overtaken(of)[g] = [handler[g] EXCEPT
                     !.fresh = @ /\ handler[g].at \cap of = {}]
            BY DEF Overtaken
        <3> QED
            BY <1>1, <2>1, <3>1, <3>2 DEF HandlerRecords
    <2>3. OnlyOvertaken(h)
        <3> SUFFICES ASSUME NEW g \in Handlers \ {h}
                     PROVE  \/ handler'[g] = handler[g]
                            \/ handler'[g] = [handler[g] EXCEPT !.fresh = FALSE]
            BY DEF OnlyOvertaken
        <3>1. handler[g] \in HandlerRecords
            BY <1>1
        <3>2. CASE handler[g].fresh /\ handler[g].at \cap of = {}
            BY <2>2, <3>1, <3>2 DEF HandlerRecords
        <3>3. CASE ~(handler[g].fresh /\ handler[g].at \cap of = {})
            BY <2>2, <3>1, <3>3 DEF HandlerRecords
        <3> QED
            BY <3>2, <3>3
    <2>4. \A s \in of : /\ schedule[s].val \in Values
                        /\ handler[h].seen[s] \in Values /\ handler[h].new[s] \in Values
        BY <1>1 DEF HandlerRecords, ScheduleInv, ScheduleTypeOK
    <2>5. \A s \in of : written(s) \in Values
        BY <2>4 DEF Written, Values
    <2>6. /\ \A t \in ScheduleIds \ of : schedule'[t] = schedule[t]
          /\ \A t \in of : schedule'[t].val = written(t)
          /\ \A t \in of : schedule'[t].state = schedule[t].state
          /\ schedule' \in [ScheduleIds -> [state : {"unborn", "here", "gone"},
                                            val : Values]]
        <3>1. schedule \in [ScheduleIds -> [state : {"unborn", "here", "gone"},
                                            val : Values]]
            BY DEF ScheduleInv, ScheduleTypeOK
        <3> HIDE DEF written
        <3> QED
            BY <1>1, <2>1, <2>5, <3>1
    <2>7. ScheduleTypeOK'
        BY <1>1, <2>2, <2>6 DEF ScheduleInv, ScheduleTypeOK
    <2>8. HandlersInOrder'
        <3>1. ~handler'[h].loop => \A t, u \in handler'[h].of : t = u
            BY <1>1, <2>2 DEF ScheduleInv, HandlersInOrder
        <3>2. handled' = handled /\ ~(h > handled')
            BY <1>1, <1>2
        <3>3. handler'[h].pc \notin {"idle", "posting", "deleting", "putting"}
            BY <2>2
        <3> QED
            BY <1>1, <2>3, <3>1, <3>2, <3>3, OrderKept
    <2>9. FreshReading'
        <3>1. ASSUME NEW g \in Handlers \ {h}, NEW s \in handler[g].at, handler'[g].fresh
              PROVE  schedule'[s] = schedule[s]
            <4>1. handler[g] \in HandlerRecords /\ s \in ScheduleIds
                BY <1>1 DEF HandlerRecords
            <4>2. handler[g].at \cap of = {}
                BY <2>2, <3>1, <4>1 DEF HandlerRecords
            <4> QED
                BY <2>6, <4>1, <4>2
        <3>2. handler'[h].pc # "scheduling"
            BY <2>2
        <3> QED
            BY <2>3, <3>1, <3>2, ReadingKept
    <2>10. JobsAgree'
        <3> SUFFICES ASSUME NEW t \in ScheduleIds PROVE JobAgrees(t)'
            BY DEF JobsAgree
        <3>1. JobAgrees(t)
            BY DEF ScheduleInv, JobsAgree
        <3>2. /\ \A g \in Handlers : Owes(g, t) => Owes(g, t)'
              /\ \A g \in Handlers : OwesOutright(g, t) => OwesOutright(g, t)'
            BY <1>3, <2>3, OthersKept DEF OwesOutright
        <3>3. CASE t \in of
            <4>1. Owes(h, t)'
                BY <2>2, <3>3 DEF Owes
            <4>2. CASE handler[h].loop
                <5>1. handler[h].new[t].on = handler[h].seen[t].on
                    BY <1>1, <3>3, <4>2 DEF ScheduleInv, HandlersInOrder
                <5>2. written(t).on = schedule[t].val.on
                    BY <5>1 DEF Written
                <5>3. schedule'[t].val = written(t)
                    BY <2>6, <3>3
                <5>4. Stored(t)
                    BY <1>4, <3>3
                <5> HIDE DEF written
                <5> QED
                    BY <1>1, <3>1, <3>2, <4>1, <5>2, <5>3, <5>4 DEF JobAgrees
            <4>3. CASE ~handler[h].loop
                BY <2>2, <4>1, <4>3 DEF JobAgrees, OwesOutright
            <4> QED
                BY <4>2, <4>3
        <3>4. CASE t \notin of
            <4>1. Undisturbed(t)
                BY <1>1, <2>6, <3>2, <3>4 DEF Undisturbed
            <4> QED
                BY <3>1, <4>1, UndisturbedAgrees
        <3> QED
            BY <3>3, <3>4
    <2> QED
        BY <2>7, <2>8, <2>9, <2>10 DEF ScheduleInv
<1>5. CASE ~ \A s \in of : Stored(s)
    <2>1. handler' = [handler EXCEPT ![h] = HandlerIdle] /\ UNCHANGED schedule
        BY <1>5 DEF Puts
    <2>2. /\ stranded' = stranded /\ stranded \subseteq ScheduleIds
          /\ \A t \in ScheduleIds : ~Owes(h, t) /\ ~OwesOutright(h, t)
        BY <1>1, <1>3 DEF OwesOutright, ScheduleInv, ScheduleTypeOK
    <2> QED
        BY <1>1, <1>2, <2>1, <2>2, RequestEndsKeeps
<1> QED
    BY <1>4, <1>5

\* The row of a schedule is read again, or the request ends without it.
LEMMA RereadsKeeps ==
    ASSUME ScheduleInv, NEW h \in Handlers, NEW s \in handler[h].of, Rereads(h, s)
    PROVE  ScheduleInv'
<1>1. /\ handler \in [Handlers -> HandlerRecords] /\ handler[h] \in HandlerRecords
      /\ s \in ScheduleIds /\ handled \in Nat /\ handler[h].pc = "committed"
      /\ handler[h].of \subseteq ScheduleIds
      /\ UNCHANGED <<schedule, cronjob, astray, handled, reboots>>
    BY SchedulesAssumption DEF Rereads, HandlerRecords, ScheduleInv, ScheduleTypeOK
<1>2. ~(h > handled)
    BY <1>1, IdleRequestTypes DEF ScheduleInv, HandlersInOrder
<1>3. CASE Stored(s)
    <2>1. /\ handler' = [handler EXCEPT ![h] =
                 [@ EXCEPT !.pc = "scheduling", !.at = {s}, !.fresh = TRUE,
                           !.seen = [NoValues EXCEPT ![s] = schedule[s].val]]]
          /\ stranded' = stranded
        BY <1>3 DEF Rereads, Reread
    <2>2. [NoValues EXCEPT ![s] = schedule[s].val] \in [ScheduleIds -> Values]
        BY <1>1, IdleRequestTypes DEF ScheduleInv, ScheduleTypeOK
    <2>3. /\ handler' \in [Handlers -> HandlerRecords]
          /\ handler'[h].pc = "scheduling" /\ handler'[h].of = handler[h].of
          /\ handler'[h].at = {s} /\ handler'[h].loop = handler[h].loop
          /\ handler'[h].seen[s] = schedule[s].val
          /\ \A g \in Handlers \ {h} : handler'[g] = handler[g]
        BY <1>1, <2>1, <2>2, IdleRequestTypes DEF HandlerRecords
    <2>4. OnlyOvertaken(h)
        BY <2>3 DEF OnlyOvertaken
    <2>5. ScheduleTypeOK'
        BY <1>1, <2>1, <2>3 DEF ScheduleInv, ScheduleTypeOK
    <2>6. HandlersInOrder'
        <3>1. ~handler'[h].loop => \A t, u \in handler'[h].of : t = u
            BY <2>3 DEF ScheduleInv, HandlersInOrder
        <3>2. handled' = handled /\ ~(h > handled')
            BY <1>1, <1>2
        <3>3. handler'[h].pc \notin {"idle", "posting", "deleting", "putting"}
            BY <2>3
        <3> QED
            BY <1>1, <2>4, <3>1, <3>2, <3>3, OrderKept
    <2>7. FreshReading'
        <3>1. Stored(s)'
            BY <1>1, <1>3 DEF Stored
        <3> QED
            BY <1>1, <2>3, <2>4, <3>1, ReadingKept
    <2>8. JobsAgree'
        <3> SUFFICES ASSUME NEW t \in ScheduleIds PROVE JobAgrees(t)'
            BY DEF JobsAgree
        <3>1. JobAgrees(t)
            BY DEF ScheduleInv, JobsAgree
        <3>2. Undisturbed(t)
            BY <1>1, <2>1, <2>3 DEF Undisturbed, Owes, OwesOutright
        <3> QED
            BY <3>1, <3>2, UndisturbedAgrees
    <2> QED
        BY <2>5, <2>6, <2>7, <2>8 DEF ScheduleInv
<1>4. CASE ~Stored(s)
    <2>1. /\ handler' = [handler EXCEPT ![h] = HandlerIdle]
          /\ stranded' = stranded \cup (handler[h].of \ {s})
        BY <1>4 DEF Rereads
    <2>2. stranded \subseteq stranded' /\ stranded' \subseteq ScheduleIds
        BY <1>1, <2>1 DEF ScheduleInv, ScheduleTypeOK
    <2>3. ASSUME NEW t \in ScheduleIds
          PROVE  /\ OwesOutright(h, t) => ~Stored(t)
                 /\ Owes(h, t) => ~Stored(t) \/ t \in stranded'
        BY <1>4, <2>1 DEF Owes, OwesOutright, ScheduleInv, HandlersInOrder
    <2> QED
        BY <1>1, <1>2, <2>1, <2>2, <2>3, RequestEndsKeeps
<1> QED
    BY <1>3, <1>4

\* A job is made from the row as it was read.
LEMMA ReschedulesKeeps ==
    ASSUME ScheduleInv, NEW h \in Handlers, NEW s \in handler[h].of, Reschedules(h, s)
    PROVE  ScheduleInv'
<1>1. /\ handler \in [Handlers -> HandlerRecords] /\ handler[h] \in HandlerRecords
      /\ s \in ScheduleIds /\ handled \in Nat
      /\ handler[h].pc = "scheduling" /\ s \in handler[h].at
      /\ handler[h].seen[s] \in Values
      /\ cronjob' = [cronjob EXCEPT ![s] = JobOf(handler[h].seen[s])]
      /\ astray' = IF handler[h].fresh THEN astray \ {s} ELSE astray \cup {s}
      /\ stranded' = stranded \ {s}
      /\ UNCHANGED <<schedule, handled, reboots>>
    BY SchedulesAssumption
       DEF Reschedules, HandlerRecords, ScheduleInv, ScheduleTypeOK
<1>2. ~(h > handled)
    BY <1>1, IdleRequestTypes DEF ScheduleInv, HandlersInOrder
<1>3. /\ handler' \in [Handlers -> HandlerRecords]
      /\ handler'[h].of = handler[h].of \ {s}
      /\ \A g \in Handlers \ {h} : handler'[g] = handler[g]
      /\ \/ handler'[h] = HandlerIdle
         \/ handler'[h].pc = "committed" /\ handler'[h].loop = handler[h].loop
    <2>1. CASE handler[h].of = {s}
        <3>1. handler' = [handler EXCEPT ![h] = HandlerIdle]
            BY <2>1 DEF Reschedules
        <3> QED
            BY <1>1, <2>1, <3>1, IdleRequestTypes
    <2>2. CASE handler[h].of # {s}
        <3>1. handler' = [handler EXCEPT ![h].pc = "committed", ![h].of = @ \ {s},
                  ![h].at = {}, ![h].fresh = FALSE, ![h].seen = NoValues]
            BY <2>2 DEF Reschedules
        <3> QED
            BY <1>1, <3>1, IdleRequestTypes DEF HandlerRecords
    <2> QED
        BY <2>1, <2>2
<1>4. OnlyOvertaken(h)
    BY <1>3 DEF OnlyOvertaken
<1>5. ScheduleTypeOK'
    <2>1. cronjob' \in [ScheduleIds -> Values]
        BY <1>1, IdleRequestTypes DEF ScheduleInv, ScheduleTypeOK
    <2>2. astray' \subseteq ScheduleIds /\ stranded' \subseteq ScheduleIds
        BY <1>1 DEF ScheduleInv, ScheduleTypeOK
    <2> QED
        BY <1>1, <1>3, <2>1, <2>2 DEF ScheduleInv, ScheduleTypeOK
<1>6. HandlersInOrder'
    <2>1. ~handler'[h].loop => \A t, u \in handler'[h].of : t = u
        BY <1>3, IdleRequestTypes DEF ScheduleInv, HandlersInOrder
    <2>2. handled' = handled /\ ~(h > handled')
        BY <1>1, <1>2
    <2> QED
        BY <1>1, <1>3, <1>4, <2>1, <2>2, IdleRequestTypes, OrderKept
<1>7. FreshReading'
    <2>1. handler'[h].pc # "scheduling"
        BY <1>3, IdleRequestTypes
    <2> QED
        BY <1>1, <1>4, <2>1, ReadingKept
<1>8. JobsAgree'
    <2> SUFFICES ASSUME NEW t \in ScheduleIds PROVE JobAgrees(t)'
        BY DEF JobsAgree
    <2>1. JobAgrees(t)
        BY DEF ScheduleInv, JobsAgree
    <2>2. CASE t = s
        <3>1. cronjob'[s] = JobOf(handler[h].seen[s])
            BY <1>1 DEF ScheduleInv, ScheduleTypeOK
        <3>2. s \notin astray' => handler[h].seen[s] = schedule[s].val
            BY <1>1 DEF ScheduleInv, FreshReading
        <3> QED
            BY <1>1, <2>2, <3>1, <3>2, IdleRequestTypes DEF JobAgrees
    <2>3. CASE t # s
        <3>1. schedule'[t] = schedule[t] /\ cronjob'[t] = cronjob[t]
            BY <1>1, <2>3 DEF ScheduleInv, ScheduleTypeOK
        <3>2. t \in astray => t \in astray'
            BY <1>1, <2>3
        <3>3. Owes(h, t) => Owes(h, t)' /\ handler'[h].loop = handler[h].loop
            BY <1>3, <2>3, IdleRequestTypes DEF Owes
        <3>4. Undisturbed(t)
            BY <1>1, <1>3, <2>3, <3>1, <3>2, <3>3 DEF Undisturbed, Owes, OwesOutright
        <3> QED
            BY <2>1, <3>4, UndisturbedAgrees
    <2> QED
        BY <2>2, <2>3
<1> QED
    BY <1>5, <1>6, <1>7, <1>8 DEF ScheduleInv

\* A row goes, and with it nothing else: whoever had read it is overtaken.
LEMMA RowGone ==
    ASSUME ScheduleInv, NEW s \in ScheduleIds, NEW h,
           schedule' = [schedule EXCEPT ![s].state = "gone"],
           \A g \in Handlers \ {h} : handler'[g] = Overtaken({s})[g],
           UNCHANGED cronjob, UNCHANGED astray, UNCHANGED stranded,
           h \in Handlers => \A t \in ScheduleIds \ {s} : ~Owes(h, t)
    PROVE  /\ OnlyOvertaken(h)
           /\ schedule' \in [ScheduleIds -> [state : {"unborn", "here", "gone"},
                                             val : Values]]
           /\ \A g \in Handlers \ {h} : \A t \in handler[g].at :
                  handler'[g].fresh => schedule'[t] = schedule[t]
           /\ JobsAgree'
<1>1. \A g \in Handlers \ {h} :
          /\ handler[g] \in HandlerRecords
          /\ handler'[g] = [handler[g] EXCEPT
                 !.fresh = @ /\ handler[g].at \cap {s} = {}]
    BY DEF Overtaken, ScheduleInv, ScheduleTypeOK
<1>2. OnlyOvertaken(h)
    <2> SUFFICES ASSUME NEW g \in Handlers \ {h}
                 PROVE  \/ handler'[g] = handler[g]
                        \/ handler'[g] = [handler[g] EXCEPT !.fresh = FALSE]
        BY DEF OnlyOvertaken
    <2>1. /\ handler[g] \in HandlerRecords
          /\ handler'[g] = [handler[g] EXCEPT
                 !.fresh = @ /\ handler[g].at \cap {s} = {}]
        BY <1>1
    <2>2. CASE handler[g].fresh /\ handler[g].at \cap {s} = {}
        BY <2>1, <2>2 DEF HandlerRecords
    <2>3. CASE ~(handler[g].fresh /\ handler[g].at \cap {s} = {})
        BY <2>1, <2>3 DEF HandlerRecords
    <2> QED
        BY <2>2, <2>3
<1>3. /\ schedule' \in [ScheduleIds -> [state : {"unborn", "here", "gone"}, val : Values]]
      /\ \A t \in ScheduleIds \ {s} : schedule'[t] = schedule[t]
      /\ schedule'[s].state = "gone"
    BY DEF ScheduleInv, ScheduleTypeOK
<1>4. ASSUME NEW g \in Handlers \ {h}, NEW t \in handler[g].at, handler'[g].fresh
      PROVE  schedule'[t] = schedule[t]
    <2>1. t \in ScheduleIds /\ handler[g].at \cap {s} = {}
        BY <1>1, <1>4 DEF HandlerRecords
    <2> QED
        BY <1>3, <2>1
<1>5. JobsAgree'
    <2> SUFFICES ASSUME NEW t \in ScheduleIds PROVE JobAgrees(t)'
        BY DEF JobsAgree
    <2>1. CASE t = s
        BY <1>3, <2>1 DEF JobAgrees, Stored
    <2>2. CASE t # s
        <3>1. JobAgrees(t)
            BY DEF ScheduleInv, JobsAgree
        <3>2. \A g \in Handlers : /\ Owes(g, t) => Owes(g, t)'
                                  /\ OwesOutright(g, t) => OwesOutright(g, t)'
            BY <1>2, <2>2, OthersKept DEF OwesOutright
        <3>3. Undisturbed(t)
            BY <1>3, <2>2, <3>2 DEF Undisturbed
        <3> QED
            BY <3>1, <3>3, UndisturbedAgrees
    <2> QED
        BY <2>1, <2>2
<1> QED
    BY <1>2, <1>3, <1>4, <1>5

\* The commit of a deletion, or its failure.
LEMMA DeletesKeeps ==
    ASSUME ScheduleInv, NEW h \in Handlers, NEW s \in handler[h].of, Deletes(h, s)
    PROVE  ScheduleInv'
<1>1. /\ handler \in [Handlers -> HandlerRecords] /\ handler[h] \in HandlerRecords
      /\ s \in ScheduleIds /\ handled \in Nat /\ handler[h].pc = "deleting"
      /\ reboots \in 0 .. MaxReboots /\ MaxReboots \in Nat
      /\ UNCHANGED <<cronjob, stranded, handled>>
    BY SchedulesAssumption DEF Deletes, HandlerRecords, ScheduleInv, ScheduleTypeOK
<1>2. /\ ~(h > handled)
      /\ \A t \in ScheduleIds \ {s} : ~Owes(h, t)
    BY <1>1, IdleRequestTypes DEF ScheduleInv, HandlersInOrder, Owes
<1>3. \A rows : Overtaken(rows) \in [Handlers -> HandlerRecords]
    BY <1>1 DEF Overtaken, HandlerRecords
<1>4. CASE /\ schedule' = [schedule EXCEPT ![s].state = "gone"]
           /\ handler' = [Overtaken({s}) EXCEPT ![h] = HandlerIdle]
           /\ UNCHANGED <<astray, reboots>>
    <2>1. /\ handler' \in [Handlers -> HandlerRecords] /\ handler'[h] = HandlerIdle
          /\ \A g \in Handlers \ {h} : handler'[g] = Overtaken({s})[g]
        BY <1>3, <1>4, IdleRequestTypes
    <2>2. /\ OnlyOvertaken(h)
          /\ schedule' \in [ScheduleIds -> [state : {"unborn", "here", "gone"},
                                            val : Values]]
          /\ \A g \in Handlers \ {h} : \A t \in handler[g].at :
                 handler'[g].fresh => schedule'[t] = schedule[t]
          /\ JobsAgree'
        BY <1>1, <1>2, <1>4, <2>1, RowGone
    <2>3. ScheduleTypeOK'
        BY <1>1, <1>4, <2>1, <2>2 DEF ScheduleInv, ScheduleTypeOK
    <2>4. HandlersInOrder'
        <3>1. handled' = handled /\ ~(h > handled')
            BY <1>1, <1>2
        <3> QED
            BY <1>1, <2>1, <2>2, <3>1, IdleRequestTypes, OrderKept
    <2>5. FreshReading'
        BY <2>1, <2>2, IdleRequestTypes, ReadingKept
    <2> QED
        BY <2>2, <2>3, <2>4, <2>5 DEF ScheduleInv
<1>5. CASE /\ reboots < MaxReboots /\ reboots' = reboots + 1
           /\ astray' = astray \cup {s}
           /\ handler' = [handler EXCEPT ![h] = HandlerIdle]
           /\ UNCHANGED schedule
    <2>1. /\ handler' \in [Handlers -> HandlerRecords] /\ handler'[h] = HandlerIdle
          /\ \A g \in Handlers \ {h} : handler'[g] = handler[g]
        BY <1>1, <1>5, IdleRequestTypes
    <2>2. OnlyOvertaken(h)
        BY <2>1 DEF OnlyOvertaken
    <2>3. ScheduleTypeOK'
        BY <1>1, <1>5, <2>1 DEF ScheduleInv, ScheduleTypeOK
    <2>4. HandlersInOrder'
        <3>1. handled' = handled /\ ~(h > handled')
            BY <1>1, <1>2
        <3> QED
            BY <1>1, <2>1, <2>2, <3>1, IdleRequestTypes, OrderKept
    <2>5. FreshReading'
        BY <1>5, <2>1, <2>2, IdleRequestTypes, ReadingKept
    <2>6. JobsAgree'
        <3> SUFFICES ASSUME NEW t \in ScheduleIds PROVE JobAgrees(t)'
            BY DEF JobsAgree
        <3>1. CASE t = s
            BY <1>5, <3>1 DEF JobAgrees
        <3>2. CASE t # s
            <4>1. Undisturbed(t)
                BY <1>1, <1>2, <1>5, <2>1, <3>2 DEF Undisturbed, Owes, OwesOutright
            <4> QED
                BY <4>1, UndisturbedAgrees DEF ScheduleInv, JobsAgree
        <3> QED
            BY <3>1, <3>2
    <2> QED
        BY <2>3, <2>4, <2>5, <2>6 DEF ScheduleInv
<1> QED
    BY <1>4, <1>5 DEF Deletes

\* The rows of a deleted profile or camera go; their jobs stay, and find no row.
LEMMA CascadesKeeps ==
    ASSUME ScheduleInv, NEW s \in ScheduleIds, Cascades(s)
    PROVE  ScheduleInv'
<1>1. /\ schedule' = [schedule EXCEPT ![s].state = "gone"]
      /\ handler' = Overtaken({s})
      /\ handler \in [Handlers -> HandlerRecords]
      /\ UNCHANGED <<cronjob, astray, stranded, handled, reboots>>
    BY DEF Cascades, ScheduleInv, ScheduleTypeOK
<1>2. 0 \notin Handlers
    BY DEF Handlers
<1>3. /\ OnlyOvertaken(0)
      /\ schedule' \in [ScheduleIds -> [state : {"unborn", "here", "gone"}, val : Values]]
      /\ \A g \in Handlers \ {0} : \A t \in handler[g].at :
             handler'[g].fresh => schedule'[t] = schedule[t]
      /\ JobsAgree'
    BY <1>1, <1>2, RowGone
<1>4. ScheduleTypeOK'
    <2>1. handler' \in [Handlers -> HandlerRecords]
        BY <1>1 DEF Overtaken, HandlerRecords
    <2> QED
        BY <1>1, <1>3, <2>1 DEF ScheduleInv, ScheduleTypeOK
<1>5. HandlersInOrder'
    <2> SUFFICES ASSUME NEW g \in Handlers
                 PROVE  /\ g > handled => handler'[g] = HandlerIdle
                        /\ handler'[g].pc = "idle" => handler'[g].of = {}
                        /\ handler'[g].pc \in {"posting", "deleting"}
                               => ~handler'[g].loop
                        /\ ~handler'[g].loop => \A t, u \in handler'[g].of : t = u
                        /\ handler'[g].loop /\ handler'[g].pc = "putting"
                               => \A t \in handler'[g].of :
                                      handler'[g].new[t].on = handler'[g].seen[t].on
        BY <1>1 DEF HandlersInOrder
    <2>1. /\ handler'[g].pc = handler[g].pc /\ handler'[g].of = handler[g].of
          /\ handler'[g].loop = handler[g].loop
          /\ handler'[g].seen = handler[g].seen /\ handler'[g].new = handler[g].new
          /\ handler[g] = HandlerIdle => handler'[g] = HandlerIdle
        BY <1>2, <1>3, OthersKept
    <2> QED
        BY <2>1 DEF ScheduleInv, HandlersInOrder
<1>6. FreshReading'
    <2> SUFFICES ASSUME NEW g \in Handlers, NEW t \in handler'[g].at,
                        handler'[g].pc = "scheduling", handler'[g].fresh
                 PROVE  Stored(t)' /\ handler'[g].seen[t] = schedule'[t].val
        BY DEF FreshReading
    <2>1. /\ t \in handler[g].at /\ handler[g].pc = "scheduling" /\ handler[g].fresh
          /\ handler'[g].seen = handler[g].seen
        BY <1>2, <1>3, OthersKept
    <2> QED
        BY <1>2, <1>3, <2>1 DEF ScheduleInv, FreshReading, Stored
<1> QED
    BY <1>3, <1>4, <1>5, <1>6 DEF ScheduleInv

\* A boot makes every job from its row.
LEMMA RestoredKeeps ==
    ASSUME ScheduleInv, SchedulesRestored
    PROVE  ScheduleInv'
<1>1. /\ reboots < MaxReboots /\ reboots' = reboots + 1
      /\ cronjob' = [s \in ScheduleIds |->
                        IF Stored(s) THEN JobOf(schedule[s].val) ELSE NoValue]
      /\ handler' = [h \in Handlers |-> HandlerIdle]
      /\ astray' = {} /\ stranded' = {}
      /\ UNCHANGED <<schedule, handled>>
    BY DEF SchedulesRestored
<1>2. reboots' \in 0 .. MaxReboots
    BY <1>1, SchedulesAssumption DEF ScheduleInv, ScheduleTypeOK
<1>3. cronjob' \in [ScheduleIds -> Values]
    BY <1>1, IdleRequestTypes DEF ScheduleInv, ScheduleTypeOK
<1>4. ScheduleTypeOK'
    BY <1>1, <1>2, <1>3, IdleRequestTypes DEF ScheduleInv, ScheduleTypeOK
<1>5. HandlersInOrder' /\ FreshReading'
    BY <1>1, IdleRequestTypes DEF HandlersInOrder, FreshReading
<1>6. JobsAgree'
    BY <1>1, IdleRequestTypes DEF JobsAgree, JobAgrees, Stored, ScheduleInv, ScheduleTypeOK
<1> QED
    BY <1>4, <1>5, <1>6 DEF ScheduleInv

\* Every step keeps the invariant.
LEMMA NextSchedules == ScheduleInv /\ [ScheduleNext]_scheduleVars => ScheduleInv'
<1> SUFFICES ASSUME ScheduleInv, [ScheduleNext]_scheduleVars
             PROVE  ScheduleInv'
    OBVIOUS
<1>0. /\ Timelapses \subseteq ScheduleIds /\ Cleanups \subseteq ScheduleIds
      /\ \A s \in ScheduleIds : schedule[s].val \in Values
      /\ "night" \in Times
    BY DEF ScheduleIds, ScheduleInv, ScheduleTypeOK, Times
<1>1. ASSUME NEW h \in Handlers, NEW s \in ScheduleIds,
             \/ PostTimelapse(h, s) \/ PutTimelapse(h, s)
             \/ PostCleanup(h, s) \/ PutCleanup(h, s)
      PROVE  ScheduleInv'
    <2>1. \A w \in Windows : Realigned("night", w) \in Times
        BY <1>0, RealignedIsTime
    <2>2. \A on \in BOOLEAN, t \in Times, p \in BOOLEAN :
              [on |-> on, cron |-> t, preset |-> p] \in Values
        BY DEF Values
    <2>3. schedule[s].val.preset \in BOOLEAN
        BY <1>0 DEF Values
    <2>4. /\ cronjob' = cronjob
          /\ \E pc \in {"posting", "putting"}, new \in Values :
                 Receives(h, pc, s, new, FALSE)
        <3>1. CASE PostTimelapse(h, s)
            BY <2>1, <2>2, <3>1 DEF PostTimelapse
        <3>2. CASE PutTimelapse(h, s)
            BY <2>1, <2>2, <2>3, <3>2 DEF PutTimelapse
        <3>3. CASE PostCleanup(h, s) \/ PutCleanup(h, s)
            BY <2>2, <3>3 DEF PostCleanup, PutCleanup
        <3> QED
            BY <1>1, <3>1, <3>2, <3>3
    <2> QED
        BY <2>4, ReceivesKeeps
<1>2. ASSUME NEW h \in Handlers, NEW s \in ScheduleIds, Realign(h, s)
      PROVE  ScheduleInv'
    <2> DEFINE old == schedule[s].val
    <2>1. PICK w \in Windows :
              LET new == [old EXCEPT !.cron = Realigned(@, w), !.preset = FALSE]
              IN  \/ Receives(h, "putting", s, new, TRUE)
                  \/ /\ handler[h].pc = "putting" /\ handler[h].loop
                     /\ s \notin handler[h].of
                     /\ handler' = [handler EXCEPT ![h].of = @ \cup {s},
                            ![h].seen[s] = old, ![h].new[s] = new]
                     /\ UNCHANGED <<schedule, astray, stranded, handled, reboots>>
        BY <1>2 DEF Realign
    <2> DEFINE new == [old EXCEPT !.cron = Realigned(@, w), !.preset = FALSE]
    <2>2. new \in Values /\ new.on = old.on
        <3>1. old \in Values /\ Realigned(old.cron, w) \in Times
            BY <1>0, RealignedIsTime DEF Values
        <3> QED
            BY <3>1 DEF Values
    <2>3. cronjob' = cronjob
        BY <1>2 DEF Realign
    <2>4. CASE Receives(h, "putting", s, new, TRUE)
        <3> HIDE DEF new
        <3> QED
            BY <2>2, <2>3, <2>4, ReceivesKeeps
    <2>5. CASE ~Receives(h, "putting", s, new, TRUE)
        <3>1. /\ handler[h].pc = "putting" /\ handler[h].loop
              /\ s \notin handler[h].of
              /\ handler' = [handler EXCEPT ![h].of = @ \cup {s},
                     ![h].seen[s] = old, ![h].new[s] = new]
              /\ UNCHANGED <<schedule, astray, stranded, handled, reboots>>
            BY <2>1, <2>5
        <3> HIDE DEF new
        <3> QED
            BY <2>2, <2>3, <3>1, GathersKeeps
    <2> QED
        BY <2>4, <2>5
<1>3. ASSUME NEW h \in Handlers, NEW s \in ScheduleIds,
             DeleteTimelapse(h, s) \/ DeleteCleanup(h, s)
      PROVE  ScheduleInv'
    BY <1>3, IdleRequestTypes, ReceivesKeeps DEF DeleteTimelapse, DeleteCleanup
<1>4. CASE UNCHANGED scheduleVars
    BY <1>4 DEF scheduleVars, ScheduleInv, ScheduleTypeOK, HandlersInOrder,
                FreshReading, JobsAgree, JobAgrees, Owes, OwesOutright, Stored
<1> QED
    BY <1>0, <1>1, <1>2, <1>3, <1>4, PostsKeeps, PutsKeeps, RereadsKeeps,
       ReschedulesKeeps, DeletesKeeps, CascadesKeeps, RestoredKeeps
       DEF ScheduleNext

\* A stored schedule that no request is at work on has a job exactly if it is
\* enabled, and the one its row calls for unless a realignment that was cut
\* short has left it behind; excepted are schedules whose job was last made
\* from a row that had been overtaken, or whose deletion failed.  For any number
\* of schedules, requests and realignments that overtake each other
\* (timelapse_schedules.py, cleanup_schedules.py, scheduler.py).
THEOREM SchedulesKeepTheirJobs == ScheduleSpec => []SchedulesFollowRows
<1>1. ScheduleInv => SchedulesFollowRows
    <2> SUFFICES ASSUME ScheduleInv, NEW s \in ScheduleIds, Settled(s)
                 PROVE  /\ cronjob[s].on = schedule[s].val.on
                        /\ s \notin stranded => cronjob[s] = JobOf(schedule[s].val)
        BY DEF SchedulesFollowRows
    <2> QED
        BY DEF ScheduleInv, JobsAgree, JobAgrees, Settled, Owes, OwesOutright
<1> QED
    BY <1>1, InitSchedules, NextSchedules, PTL DEF ScheduleSpec

\* Every variable of the schedules keeps to its type.
THEOREM ScheduleTypesKept == ScheduleSpec => []ScheduleTypeOK
<1>1. ScheduleInv => ScheduleTypeOK
    BY DEF ScheduleInv
<1> QED
    BY <1>1, InitSchedules, NextSchedules, PTL DEF ScheduleSpec

-----------------------------------------------------------------------------
(***************************************************************************)
(* Capture profiles.                                                       *)
(*                                                                         *)
(* The invariant follows a profile through its three lives: before it is   *)
(* stored nothing touches its job, once it is deleted its job is gone or   *)
(* about to go, and in between a request or a run of the monitor that has  *)
(* not been overtaken holds the row as it is.                              *)
(***************************************************************************)

Unborn ==
    row.state = "unborn" =>
        /\ job = 0 /\ ~MonitorPending
        /\ \A r \in Requests :
               \/ request[r].pc = "idle"
               \/ /\ request[r].pc = "read"
                  /\ request[r].kind \in {"create", "delete_empty_stream"}

GoneForGood ==
    row.state = "gone" /\ ~late /\ (\A r \in Requests : request[r].pc # "refreshed")
        => job = 0

\* What request r knows of the row.
Knows(r) ==
    /\ request[r].pc = "read" /\ request[r].fresh /\ request[r].kind \in Toggles
           => request[r].seen = row.val
    /\ request[r].pc = "committed"
           => request[r].kind \in Toggles \cup {"interval", "create"}
    /\ request[r].pc \in {"committed", "refreshed"} /\ request[r].fresh
           => /\ request[r].kind = "enable" => row.val.on
              /\ request[r].kind = "disable" => ~row.val.on
    /\ request[r].pc = "refreshed" /\ request[r].fresh
           => IF request[r].kind \in {"delete", "delete_stream"}
              THEN row.state = "gone"
              ELSE Exists /\ request[r].seen = row.val

MonitorKnows ==
    MonitorPending =>
        /\ monitor.pc = "committing"
        /\ monitor.fresh =>
               /\ Exists /\ monitor.seen = row.val
               /\ ~late => job = IF monitor.plan = "up" THEN row.val.every ELSE 0

JobKept ==
    Exists /\ Quiet /\ ~late => job = IF row.val.on THEN row.val.every ELSE 0

\* After the user's toggle there is no marker left for the monitor to act on.
OffKept ==
    wish = "off" => /\ row.state # "unborn" /\ ~row.val.on /\ ~row.val.auto
                    /\ ~MonitorPending

ProfileInv ==
    /\ ProfileTypeOK
    /\ Exists => camera.here
    /\ \A r \in Requests : r > asked => request[r].pc = "idle"
    /\ Unborn
    /\ GoneForGood
    /\ \A r \in Requests : Knows(r)
    /\ MonitorKnows
    /\ JobKept
    /\ OffKept

RequestRecords ==
    [pc : {"idle", "read", "committed", "refreshed"},
     kind : Kinds \cup {"none"}, seen : Attrs, fresh : BOOLEAN]

LEMMA BlankIsAttrs == Blank \in Attrs
<1>1. \E i \in Intervals : TRUE
    BY ProfileLifecycleAssumption
<1> QED
    BY <1>1 DEF Blank, Attrs

LEMMA IdleIsRecord ==
    /\ RequestIdle \in RequestRecords /\ RequestIdle.pc = "idle"
    /\ MonitorIdle \in [pc : {"idle", "committing"}, health : Healths,
                        fails : 0 .. Threshold, plan : {"none", "up", "down"},
                        seen : Attrs, fresh : BOOLEAN]
    /\ MonitorIdle.plan = "none"
BY BlankIsAttrs, ProfileLifecycleAssumption
   DEF RequestIdle, MonitorIdle, RequestRecords, Healths, Kinds

LEMMA MergedIsAttrs ==
    ASSUME NEW old \in Attrs, NEW seen \in Attrs, NEW new \in Attrs
    PROVE  /\ Merged(old, seen, new) \in Attrs
           /\ old = seen => Merged(old, seen, new) = new
BY DEF Merged, Attrs

LEMMA EditedIsAttrs ==
    ASSUME NEW kind, NEW v \in Attrs, NEW new \in Edited(kind, v)
    PROVE  /\ new \in Attrs
           /\ kind \in {"enable", "put_on"} => new.on /\ ~new.auto
           /\ kind \in {"disable", "put_off"} => ~new.on /\ ~new.auto
           /\ kind = "interval" => new.on = v.on /\ new.auto = v.auto
BY DEF Edited, Attrs

\* Outdating the readings changes nothing else in the requests.
LEMMA OutdatedKeeps ==
    ASSUME request \in [Requests -> RequestRecords]
    PROVE  /\ Outdated(request) \in [Requests -> RequestRecords]
           /\ \A r \in Requests :
                 /\ Outdated(request)[r].pc = request[r].pc
                 /\ Outdated(request)[r].kind = request[r].kind
                 /\ Outdated(request)[r].seen = request[r].seen
                 /\ ~Outdated(request)[r].fresh
BY DEF Outdated, RequestRecords

\* The row and the facts of the type invariant that the steps use.
LEMMA Shapes ==
    ASSUME ProfileTypeOK
    PROVE  /\ row \in [state : {"unborn", "here", "gone"}, val : Attrs]
           /\ row.val \in Attrs
           /\ row.val.on \in BOOLEAN /\ row.val.auto \in BOOLEAN
           /\ row.val.every \in Intervals
           /\ job \in Intervals \cup {0}
           /\ request \in [Requests -> RequestRecords]
           /\ \A r \in Requests : request[r].seen \in Attrs
           /\ monitor.seen \in Attrs /\ monitor.plan \in {"none", "up", "down"}
           /\ late \in BOOLEAN /\ asked \in 0 .. MaxAsked
           /\ mishaps \in 0 .. MaxMishaps
BY DEF ProfileTypeOK, RequestRecords, Attrs

LEMMA InitProfile == ProfileInit => ProfileInv
<1> SUFFICES ASSUME ProfileInit PROVE ProfileInv
    OBVIOUS
<1>1. /\ row.state \in {"unborn", "here"} /\ row.val = Blank
      /\ row \in [state : {"unborn", "here", "gone"}, val : Attrs]
    BY BlankIsAttrs DEF ProfileInit
<1>2. /\ row.val.on /\ row.val.every \in Intervals
      /\ \A r \in Requests : request[r] = RequestIdle
      /\ ~MonitorPending
    BY <1>1, BlankIsAttrs, IdleIsRecord DEF ProfileInit, Blank, Attrs, MonitorPending
<1>3. ProfileTypeOK
    <2>1. request \in [Requests -> RequestRecords]
        BY IdleIsRecord DEF ProfileInit
    <2>2. job \in Intervals \cup {0}
        BY <1>2 DEF ProfileInit
    <2>3. 0 \in 0 .. Threshold /\ 0 \in 0 .. MaxAsked /\ 0 \in 0 .. MaxMishaps
        BY ProfileLifecycleAssumption
    <2> QED
        BY <1>1, <2>1, <2>2, <2>3, IdleIsRecord
           DEF ProfileInit, ProfileTypeOK, RequestRecords, Healths
<1>4. Unborn /\ GoneForGood /\ \A r \in Requests : Knows(r)
    BY <1>1, <1>2, IdleIsRecord
       DEF ProfileInit, Unborn, GoneForGood, Knows
<1> QED
    BY <1>1, <1>2, <1>3, <1>4, IdleIsRecord
       DEF ProfileInit, ProfileInv, MonitorKnows, JobKept, OffKept, Exists

\* A request arrives.
LEMMA ReadsKeeps ==
    ASSUME ProfileInv, NEW r \in Requests, NEW kind \in Kinds,
           RequestReads(r, kind)
    PROVE  ProfileInv'
<1> DEFINE got == IF kind \in Toggles \cup {"interval"} THEN row.val ELSE Blank
<1>1. /\ r = asked + 1 /\ asked' = r
      /\ request' = [request EXCEPT ![r] = [pc |-> "read", kind |-> kind,
                                            fresh |-> TRUE, seen |-> got]]
      /\ UNCHANGED <<row, job, camera, monitor, late, wish, mishaps>>
    BY DEF RequestReads
<1>2. /\ Exists \/ kind \in {"create", "delete_empty_stream"}
      /\ got \in Attrs
    BY Shapes, BlankIsAttrs DEF RequestReads, ProfileInv
<1>3. /\ request' \in [Requests -> RequestRecords]
      /\ request'[r].pc = "read" /\ request'[r].kind = kind
      /\ request'[r].seen = got
      /\ \A q \in Requests \ {r} : request'[q] = request[q]
    BY <1>1, <1>2, Shapes DEF ProfileInv, RequestRecords
<1>4. asked' \in 0 .. MaxAsked
    BY <1>1 DEF Requests
<1>5. ProfileTypeOK'
    BY <1>1, <1>3, <1>4 DEF ProfileInv, ProfileTypeOK, RequestRecords
<1>6. \A q \in Requests : Knows(q)'
    <2>1. \A q \in Requests \ {r} : Knows(q)'
        BY <1>1, <1>3 DEF ProfileInv, Knows, Exists
    <2>2. Knows(r)'
        BY <1>1, <1>3 DEF Knows
    <2> QED
        BY <2>1, <2>2
<1>7. Unborn' /\ MonitorKnows' /\ OffKept'
    BY <1>1, <1>2, <1>3
       DEF ProfileInv, Unborn, MonitorKnows, OffKept, MonitorPending, Exists
<1>8. /\ request[r].pc = "idle"
      /\ \A q \in Requests : q > asked' => q > asked /\ q # r
    <2>1. asked \in 0 .. MaxAsked /\ MaxAsked \in Nat
        BY Shapes, ProfileLifecycleAssumption DEF ProfileInv
    <2> QED
        BY <1>1, <2>1 DEF ProfileInv, Requests
<1>9. GoneForGood' /\ JobKept'
    BY <1>1, <1>3, <1>8
       DEF ProfileInv, GoneForGood, JobKept, Quiet, MonitorPending, Exists
<1> QED
    BY <1>1, <1>3, <1>5, <1>6, <1>7, <1>8, <1>9 DEF ProfileInv, Exists

\* A change is committed: every other reading is outdated by it.
LEMMA WritesKeeps ==
    ASSUME ProfileInv, NEW r \in Requests, RequestWrites(r), Exists
    PROVE  ProfileInv'
<1> DEFINE kind == request[r].kind
           seen == request[r].seen
<1>1. PICK new \in Edited(kind, seen) :
          row' = [row EXCEPT !.val = Merged(@, seen, new)]
    BY DEF RequestWrites
<1>2. /\ request[r].pc = "read" /\ kind \in Toggles \cup {"interval"}
      /\ wish' = Wanted(r)
      /\ request' = [Outdated(request) EXCEPT ![r] =
                         [request[r] EXCEPT !.pc = "committed", !.seen = Blank]]
      /\ monitor' = [monitor EXCEPT !.fresh = FALSE]
      /\ UNCHANGED <<job, camera, late, asked, mishaps>>
    BY DEF RequestWrites
<1>3. /\ seen \in Attrs /\ row.val \in Attrs
      /\ request \in [Requests -> RequestRecords]
      /\ row \in [state : {"unborn", "here", "gone"}, val : Attrs]
    BY Shapes DEF ProfileInv
<1>4. /\ new \in Attrs
      /\ kind \in {"enable", "put_on"} => new.on /\ ~new.auto
      /\ kind \in {"disable", "put_off"} => ~new.on /\ ~new.auto
      /\ kind = "interval" => new.on = seen.on /\ new.auto = seen.auto
    BY <1>3, EditedIsAttrs
<1>5. /\ row'.state = row.state /\ row'.val = Merged(row.val, seen, new)
      /\ row'.val \in Attrs
      /\ row.val = seen => row'.val = new
      /\ row' \in [state : {"unborn", "here", "gone"}, val : Attrs]
    BY <1>1, <1>3, <1>4, MergedIsAttrs
<1>6. /\ request' \in [Requests -> RequestRecords]
      /\ request'[r].pc = "committed" /\ request'[r].kind = kind
      /\ request'[r].fresh = request[r].fresh
      /\ \A q \in Requests \ {r} :
            /\ request'[q].pc = request[q].pc /\ request'[q].kind = request[q].kind
            /\ ~request'[q].fresh
    <2>1. [request[r] EXCEPT !.pc = "committed", !.seen = Blank] \in RequestRecords
        BY <1>3, BlankIsAttrs DEF RequestRecords
    <2> QED
        BY <1>2, <1>3, <2>1, OutdatedKeeps DEF RequestRecords
<1>7. /\ monitor'.plan = monitor.plan /\ monitor'.pc = monitor.pc
      /\ ~monitor'.fresh
      /\ monitor' \in [pc : {"idle", "committing"}, health : Healths,
                       fails : 0 .. Threshold, plan : {"none", "up", "down"},
                       seen : Attrs, fresh : BOOLEAN]
    BY <1>2 DEF ProfileInv, ProfileTypeOK
<1>8. wish' \in {"none", "on", "off", "contested"}
    BY <1>2 DEF Wanted, ProfileInv, ProfileTypeOK
<1>9. ProfileTypeOK'
    BY <1>2, <1>5, <1>6, <1>7, <1>8 DEF ProfileInv, ProfileTypeOK, RequestRecords
<1>10. Unborn' /\ GoneForGood'
    BY <1>5 DEF Unborn, GoneForGood, Exists
<1>11. \A q \in Requests : Knows(q)'
    <2>1. \A q \in Requests \ {r} : Knows(q)'
        BY <1>6 DEF ProfileInv, Knows
    <2>2. request[r].fresh /\ kind \in Toggles => row'.val = new
        BY <1>2, <1>5 DEF ProfileInv, Knows
    <2>3. Knows(r)'
        BY <1>2, <1>4, <1>6, <2>2 DEF Knows, Toggles
    <2> QED
        BY <2>1, <2>3
<1>12. MonitorKnows' /\ JobKept'
    BY <1>6, <1>7 DEF ProfileInv, MonitorKnows, MonitorPending, JobKept, Quiet
<1>13. OffKept'
    <2> SUFFICES ASSUME wish' = "off"
                 PROVE  /\ ~row'.val.on /\ ~row'.val.auto /\ ~MonitorPending
        BY <1>5, <1>7 DEF OffKept, MonitorPending, Exists
    <2>1. CASE kind \in Toggles
        <3>1. kind \in {"disable", "put_off"} /\ request[r].fresh /\ ~MonitorPending
            BY <1>2, <2>1 DEF Wanted, Toggles
        <3>2. row.val = seen
            BY <1>2, <2>1, <3>1 DEF ProfileInv, Knows
        <3> QED
            BY <1>4, <1>5, <3>1, <3>2
    <2>2. CASE kind = "interval"
        <3>1. wish = "off"
            BY <1>2, <2>2 DEF Wanted, Toggles
        <3>2. ~row.val.on /\ ~row.val.auto /\ ~MonitorPending
            BY <3>1 DEF ProfileInv, OffKept
        <3> QED
            BY <1>4, <1>5, <2>2, <3>2 DEF Merged
    <2> QED
        BY <1>2, <2>1, <2>2
<1>14. \A q \in Requests : q > asked' => request'[q].pc = "idle"
    BY <1>2, <1>6 DEF ProfileInv
<1> QED
    BY <1>2, <1>5, <1>9, <1>10, <1>11, <1>12, <1>13, <1>14 DEF ProfileInv, Exists

\* A request gives up: its row is not what it needs, or is gone.
LEMMA GivesUpKeeps ==
    ASSUME ProfileInv, NEW r \in Requests,
           request' = [request EXCEPT ![r] = RequestIdle],
           UNCHANGED <<row, job, camera, monitor, late, wish, asked, mishaps>>,
           request[r].pc = "read" \/ (request[r].pc = "committed" /\ ~Exists)
    PROVE  ProfileInv'
<1>1. /\ request' \in [Requests -> RequestRecords]
      /\ request'[r].pc = "idle"
      /\ \A q \in Requests \ {r} : request'[q] = request[q]
    BY Shapes, IdleIsRecord DEF ProfileInv
<1>2. ProfileTypeOK'
    BY <1>1 DEF ProfileInv, ProfileTypeOK, RequestRecords
<1>3. Unborn' /\ MonitorKnows' /\ OffKept' /\ \A q \in Requests : Knows(q)'
    BY <1>1 DEF ProfileInv, Unborn, MonitorKnows, OffKept, MonitorPending, Knows,
                Exists
<1>4. GoneForGood' /\ JobKept'
    BY <1>1 DEF ProfileInv, GoneForGood, JobKept, Quiet, MonitorPending, Exists
<1> QED
    BY <1>1, <1>2, <1>3, <1>4 DEF ProfileInv, Exists

\* A profile is stored.
LEMMA CreatedKeeps ==
    ASSUME ProfileInv, NEW r \in Requests, ProfileCreated(r),
           camera.here, row.state = "unborn"
    PROVE  ProfileInv'
<1>1. /\ request[r].pc = "read" /\ request[r].kind = "create"
      /\ row' = [row EXCEPT !.state = "here"]
      /\ request' = [request EXCEPT ![r].pc = "committed"]
      /\ UNCHANGED <<job, camera, monitor, late, wish, asked, mishaps>>
    BY DEF ProfileCreated
<1>2. /\ row'.state = "here" /\ row'.val = row.val
      /\ row' \in [state : {"unborn", "here", "gone"}, val : Attrs]
    BY <1>1, Shapes DEF ProfileInv
<1>3. /\ request' \in [Requests -> RequestRecords]
      /\ request'[r].pc = "committed" /\ request'[r].kind = "create"
      /\ \A q \in Requests \ {r} : request'[q] = request[q]
    BY <1>1, Shapes DEF ProfileInv, RequestRecords
<1>4. \A q \in Requests : request[q].pc \in {"idle", "read"}
    BY DEF ProfileInv, Unborn
<1>5. ~MonitorPending /\ wish # "off"
    BY DEF ProfileInv, Unborn, OffKept
<1>6. ProfileTypeOK'
    BY <1>1, <1>2, <1>3 DEF ProfileInv, ProfileTypeOK, RequestRecords
<1>7. \A q \in Requests : Knows(q)'
    <2>1. \A q \in Requests \ {r} : Knows(q)'
        BY <1>2, <1>3, <1>4 DEF ProfileInv, Knows
    <2>2. Knows(r)'
        BY <1>3 DEF Knows
    <2> QED
        BY <2>1, <2>2
<1>8. Unborn' /\ GoneForGood' /\ MonitorKnows' /\ JobKept' /\ OffKept'
    BY <1>1, <1>2, <1>3, <1>5
       DEF Unborn, GoneForGood, MonitorKnows, JobKept, OffKept, MonitorPending,
           Quiet
<1>9. \A q \in Requests : q > asked' => request'[q].pc = "idle"
    BY <1>1, <1>3 DEF ProfileInv
<1> QED
    BY <1>1, <1>6, <1>7, <1>8, <1>9 DEF ProfileInv

\* A profile is deleted, alone or with its camera.
LEMMA DeletedKeeps ==
    ASSUME ProfileInv, NEW r \in Requests, ProfileDeleted(r)
    PROVE  ProfileInv'
<1> DEFINE empty == request[r].kind = "delete_empty_stream"
<1>1. /\ request[r].pc = "read"
      /\ request[r].kind \in {"delete", "delete_stream", "delete_empty_stream"}
      /\ row' = IF Exists THEN [row EXCEPT !.state = "gone"] ELSE row
      /\ camera' = IF request[r].kind = "delete" THEN camera
                   ELSE [camera EXCEPT !.here = FALSE]
      /\ empty => /\ request' = [Outdated(request) EXCEPT ![r] = RequestIdle]
                  /\ late' = (late \/ Exists)
      /\ ~empty => /\ request' = [Outdated(request) EXCEPT ![r].pc = "refreshed",
                                                           ![r].fresh = TRUE]
                   /\ late' = late
      /\ monitor' = [monitor EXCEPT !.fresh = FALSE]
      /\ UNCHANGED <<job, wish, asked, mishaps>>
    BY DEF ProfileDeleted
<1>2. /\ request \in [Requests -> RequestRecords] /\ late \in BOOLEAN
      /\ row.state \in {"unborn", "here", "gone"}
    BY Shapes DEF ProfileInv
<1>3. /\ row'.val = row.val /\ ~Exists'
      /\ Exists => row'.state = "gone"
      /\ ~Exists => row' = row
      /\ row' \in [state : {"unborn", "here", "gone"}, val : Attrs]
    BY <1>1, Shapes DEF ProfileInv, Exists
<1>4. ~empty => row.state # "unborn"
    BY <1>1 DEF ProfileInv, Unborn
<1>5. /\ request' \in [Requests -> RequestRecords]
      /\ empty => request'[r].pc = "idle"
      /\ ~empty => /\ request'[r].pc = "refreshed"
                   /\ request'[r].kind \in {"delete", "delete_stream"}
      /\ \A q \in Requests \ {r} :
            /\ request'[q].pc = request[q].pc /\ request'[q].kind = request[q].kind
            /\ ~request'[q].fresh
    <2>1. CASE empty
        BY <1>1, <1>2, <2>1, OutdatedKeeps, IdleIsRecord
    <2>2. CASE ~empty
        BY <1>1, <1>2, <2>2, OutdatedKeeps DEF RequestRecords
    <2> QED
        BY <2>1, <2>2
<1>6. /\ monitor'.plan = monitor.plan /\ monitor'.pc = monitor.pc
      /\ ~monitor'.fresh
      /\ monitor' \in [pc : {"idle", "committing"}, health : Healths,
                       fails : 0 .. Threshold, plan : {"none", "up", "down"},
                       seen : Attrs, fresh : BOOLEAN]
    BY <1>1 DEF ProfileInv, ProfileTypeOK
<1>7. /\ camera' \in [here : BOOLEAN, health : Healths, fails : 0 .. Threshold]
      /\ late' \in BOOLEAN
    BY <1>1, <1>2 DEF ProfileInv, ProfileTypeOK
<1>8. ProfileTypeOK'
    BY <1>1, <1>3, <1>5, <1>6, <1>7 DEF ProfileInv, ProfileTypeOK, RequestRecords
<1>9. Unborn'
    <2> SUFFICES ASSUME row'.state = "unborn" PROVE Unborn'
        BY DEF Unborn
    <2>1. row.state = "unborn" /\ empty
        BY <1>3, <1>4
    <2> QED
        BY <1>1, <1>5, <1>6, <2>1 DEF ProfileInv, Unborn, MonitorPending
<1>10. GoneForGood'
    <2> SUFFICES ASSUME row'.state = "gone", ~late',
                        \A q \in Requests : request'[q].pc # "refreshed"
                 PROVE  job' = 0
        BY DEF GoneForGood
    <2>1. empty /\ ~Exists /\ ~late
        BY <1>1, <1>5
    <2>2. \A q \in Requests : request[q].pc # "refreshed"
        BY <1>1, <1>5
    <2> QED
        BY <1>1, <1>3, <2>1, <2>2 DEF ProfileInv, GoneForGood
<1>11. \A q \in Requests : Knows(q)'
    <2>1. \A q \in Requests \ {r} : Knows(q)'
        BY <1>5 DEF ProfileInv, Knows
    <2>2. ~empty => row'.state = "gone"
        BY <1>2, <1>3, <1>4 DEF Exists
    <2>3. Knows(r)'
        BY <1>5, <2>2 DEF Knows
    <2> QED
        BY <2>1, <2>3
<1>12. MonitorKnows' /\ JobKept' /\ OffKept'
    BY <1>1, <1>3, <1>6
       DEF ProfileInv, MonitorKnows, MonitorPending, JobKept, OffKept, Exists
<1>13. \A q \in Requests : q > asked' => request'[q].pc = "idle"
    BY <1>1, <1>5 DEF ProfileInv
<1> QED
    BY <1>1, <1>3, <1>8, <1>9, <1>10, <1>11, <1>12, <1>13 DEF ProfileInv

\* The row is read again.
LEMMA RefreshesKeeps ==
    ASSUME ProfileInv, NEW r \in Requests, RequestRefreshes(r), Exists
    PROVE  ProfileInv'
<1> DEFINE new == [request[r] EXCEPT !.pc = "refreshed", !.seen = row.val,
                       !.fresh = \/ request[r].fresh
                                 \/ request[r].kind \notin {"enable", "disable"}]
<1>1. /\ request[r].pc = "committed"
      /\ request' = [request EXCEPT ![r] = new]
      /\ UNCHANGED <<row, job, camera, monitor, late, wish, asked, mishaps>>
    BY DEF RequestRefreshes
<1>2. /\ request \in [Requests -> RequestRecords] /\ row.val \in Attrs
      /\ request[r].fresh \in BOOLEAN
    BY Shapes DEF ProfileInv, RequestRecords
<1>3. new \in RequestRecords
    BY <1>2 DEF RequestRecords
<1>4. /\ request' \in [Requests -> RequestRecords]
      /\ request'[r].pc = "refreshed" /\ request'[r].kind = request[r].kind
      /\ request'[r].seen = row.val
      /\ request'[r].fresh =>
            request[r].fresh \/ request[r].kind \notin {"enable", "disable"}
      /\ \A q \in Requests \ {r} : request'[q] = request[q]
    BY <1>1, <1>2, <1>3 DEF RequestRecords
<1>5. ProfileTypeOK'
    BY <1>1, <1>4 DEF ProfileInv, ProfileTypeOK, RequestRecords
<1>6. \A q \in Requests : Knows(q)'
    <2>1. \A q \in Requests \ {r} : Knows(q)'
        BY <1>1, <1>4 DEF ProfileInv, Knows, Exists
    <2>2. request[r].kind \in Toggles \cup {"interval", "create"}
        BY <1>1 DEF ProfileInv, Knows
    <2>3. Knows(r)'
        BY <1>1, <1>4, <2>2 DEF ProfileInv, Knows, Exists, Toggles
    <2> QED
        BY <2>1, <2>3
<1>7. Unborn' /\ GoneForGood'
    BY <1>1 DEF Unborn, GoneForGood, Exists
<1>8. MonitorKnows' /\ JobKept' /\ OffKept'
    BY <1>1, <1>4
       DEF ProfileInv, MonitorKnows, MonitorPending, JobKept, OffKept, Quiet, Exists
<1>9. \A q \in Requests : q > asked' => request'[q].pc = "idle"
    BY <1>1, <1>4 DEF ProfileInv
<1> QED
    BY <1>1, <1>5, <1>6, <1>7, <1>8, <1>9 DEF ProfileInv, Exists

\* The scheduler is called: the job is the row's if the reading still holds.
LEMMA RequestSchedulesKeeps ==
    ASSUME ProfileInv, NEW r \in Requests, RequestSchedules(r)
    PROVE  ProfileInv'
<1> DEFINE kind == request[r].kind
           seen == request[r].seen
<1>1. /\ request[r].pc = "refreshed"
      /\ job' = JobFor(kind, seen)
      /\ late' = (~request[r].fresh \/ MonitorPending)
      /\ request' = [request EXCEPT ![r] = RequestIdle]
      /\ UNCHANGED <<row, camera, monitor, wish, asked, mishaps>>
    BY DEF RequestSchedules
<1>2. /\ request' \in [Requests -> RequestRecords]
      /\ request'[r].pc = "idle"
      /\ \A q \in Requests \ {r} : request'[q] = request[q]
    BY <1>1, Shapes, IdleIsRecord DEF ProfileInv
<1>3. job' \in Intervals \cup {0} /\ late' \in BOOLEAN
    <2>1. seen \in Attrs /\ request[r].fresh \in BOOLEAN
        BY Shapes DEF ProfileInv, RequestRecords
    <2> QED
        BY <1>1, <2>1 DEF JobFor, Attrs, MonitorPending
<1>4. ProfileTypeOK'
    BY <1>1, <1>2, <1>3 DEF ProfileInv, ProfileTypeOK, RequestRecords
<1>5. ~late' => job' = IF Exists /\ row.val.on THEN row.val.every ELSE 0
    BY <1>1 DEF ProfileInv, Knows, JobFor, Exists
<1>6. Unborn' /\ GoneForGood' /\ JobKept'
    BY <1>1, <1>2, <1>5 DEF ProfileInv, Unborn, GoneForGood, JobKept, Exists
<1>7. MonitorKnows' /\ OffKept' /\ \A q \in Requests : Knows(q)'
    BY <1>1, <1>2
       DEF ProfileInv, MonitorKnows, MonitorPending, OffKept, Knows, Exists
<1> QED
    BY <1>1, <1>2, <1>4, <1>6, <1>7 DEF ProfileInv, Exists

\* A probe that changes nothing for the profile.
LEMMA UnremarkableKeeps ==
    ASSUME ProfileInv, NEW health \in Healths, NEW fails \in 0 .. Threshold,
           Unremarkable(health, fails)
    PROVE  ProfileInv'
<1>1. /\ camera' = [camera EXCEPT !.health = health, !.fails = fails]
      /\ UNCHANGED <<row, job, request, monitor, late, wish, asked, mishaps>>
    BY DEF Unremarkable
<1>2. /\ camera'.here = camera.here
      /\ camera' \in [here : BOOLEAN, health : Healths, fails : 0 .. Threshold]
    BY <1>1 DEF ProfileInv, ProfileTypeOK
<1>3. ProfileTypeOK'
    BY <1>1, <1>2 DEF ProfileInv, ProfileTypeOK
<1> QED
    BY <1>1, <1>2, <1>3
       DEF ProfileInv, Exists, Unborn, GoneForGood, Knows, MonitorKnows, JobKept,
           OffKept, MonitorPending, Quiet

\* A probe that turns the health: the monitor holds the row as it is.
LEMMA TurnsKeeps ==
    ASSUME ProfileInv, NEW health \in Healths, NEW fails \in 0 .. Threshold,
           NEW plan \in {"none", "up", "down"}, Turns(health, fails, plan),
           monitor.pc = "idle",
           plan = "up" => Exists /\ row.val.auto,
           plan = "down" => Exists /\ row.val.on
    PROVE  ProfileInv'
<1> DEFINE read == IF plan = "none" THEN Blank ELSE row.val
<1>1. /\ job' = CASE plan = "up" -> row.val.every [] plan = "down" -> 0
                  [] OTHER -> job
      /\ monitor' = [pc |-> "committing", health |-> health, fails |-> fails,
                     plan |-> plan, fresh |-> plan # "none", seen |-> read]
      /\ UNCHANGED <<row, camera, request, late, wish, asked, mishaps>>
    BY DEF Turns
<1>2. read \in Attrs /\ row.val.every \in Intervals /\ job \in Intervals \cup {0}
    BY Shapes, BlankIsAttrs DEF ProfileInv
<1>3. /\ monitor' \in [pc : {"idle", "committing"}, health : Healths,
                       fails : 0 .. Threshold, plan : {"none", "up", "down"},
                       seen : Attrs, fresh : BOOLEAN]
      /\ monitor'.pc = "committing" /\ monitor'.plan = plan
      /\ plan # "none" => monitor'.seen = row.val
    BY <1>1, <1>2
<1>4. /\ plan = "up" => job' = row.val.every
      /\ plan = "down" => job' = 0
      /\ plan = "none" => job' = job
      /\ job' \in Intervals \cup {0}
    BY <1>1, <1>2
<1>5. ProfileTypeOK'
    BY <1>1, <1>3, <1>4 DEF ProfileInv, ProfileTypeOK
<1>6. ~MonitorPending
    BY DEF ProfileInv, MonitorKnows
<1>7. Unborn' /\ GoneForGood' /\ \A r \in Requests : Knows(r)'
    BY <1>1, <1>3, <1>4
       DEF ProfileInv, Unborn, GoneForGood, Knows, MonitorPending, Exists
<1>8. MonitorKnows' /\ JobKept'
    BY <1>1, <1>3, <1>4, <1>6
       DEF ProfileInv, MonitorKnows, JobKept, MonitorPending, Quiet, Exists
<1>9. OffKept'
    BY <1>1, <1>3 DEF ProfileInv, OffKept, MonitorPending
<1> QED
    BY <1>1, <1>5, <1>7, <1>8, <1>9 DEF ProfileInv, Exists

\* The monitor's transaction succeeds, with a plan for the profile.
LEMMA CommitsKeeps ==
    ASSUME ProfileInv, monitor.pc = "committing", MonitorPending, Exists,
           camera' = [camera EXCEPT !.health = monitor.health,
                                    !.fails = monitor.fails],
           row' = [row EXCEPT !.val = Merged(@, monitor.seen, Planned(monitor.seen))],
           request' = Outdated(request),
           late' = (late \/ ~monitor.fresh),
           monitor' = MonitorIdle,
           UNCHANGED <<job, wish, asked, mishaps>>
    PROVE  ProfileInv'
<1> DEFINE plan == Planned(monitor.seen)
<1>1. /\ monitor.seen \in Attrs /\ row.val \in Attrs
      /\ monitor.plan \in {"up", "down"} /\ late \in BOOLEAN
      /\ monitor.fresh \in BOOLEAN
      /\ row \in [state : {"unborn", "here", "gone"}, val : Attrs]
      /\ request \in [Requests -> RequestRecords]
    BY Shapes DEF ProfileInv, ProfileTypeOK, MonitorPending
<1>2. /\ plan \in Attrs /\ plan.every = monitor.seen.every
      /\ monitor.plan = "up" => plan.on
      /\ monitor.plan = "down" => ~plan.on
    BY <1>1 DEF Planned, Attrs
<1>3. /\ row'.state = row.state /\ row'.val \in Attrs
      /\ row.val = monitor.seen => row'.val = plan
      /\ row' \in [state : {"unborn", "here", "gone"}, val : Attrs]
    BY <1>1, <1>2, MergedIsAttrs
<1>4. /\ request' \in [Requests -> RequestRecords]
      /\ \A q \in Requests :
            /\ request'[q].pc = request[q].pc /\ request'[q].kind = request[q].kind
            /\ ~request'[q].fresh
    BY <1>1, OutdatedKeeps
<1>5. /\ camera'.here = camera.here
      /\ camera' \in [here : BOOLEAN, health : Healths, fails : 0 .. Threshold]
      /\ monitor' \in [pc : {"idle", "committing"}, health : Healths,
                       fails : 0 .. Threshold, plan : {"none", "up", "down"},
                       seen : Attrs, fresh : BOOLEAN]
      /\ late' \in BOOLEAN
    BY <1>1, IdleIsRecord DEF ProfileInv, ProfileTypeOK
<1>6. ProfileTypeOK'
    BY <1>3, <1>4, <1>5 DEF ProfileInv, ProfileTypeOK, RequestRecords
<1>7. Unborn' /\ GoneForGood' /\ \A q \in Requests : Knows(q)'
    BY <1>3, <1>4 DEF ProfileInv, Unborn, GoneForGood, Knows, Exists
<1>8. MonitorKnows' /\ OffKept'
    BY IdleIsRecord DEF ProfileInv, MonitorKnows, OffKept, MonitorPending
<1>9. JobKept'
    <2> SUFFICES ASSUME ~late' PROVE job' = IF row'.val.on THEN row'.val.every ELSE 0
        BY DEF JobKept
    <2>1. monitor.fresh /\ ~late
        BY <1>1
    <2>2. /\ monitor.seen = row.val
          /\ job = IF monitor.plan = "up" THEN row.val.every ELSE 0
        BY <2>1 DEF ProfileInv, MonitorKnows
    <2> QED
        BY <1>1, <1>2, <1>3, <2>2
<1> QED
    BY <1>3, <1>4, <1>5, <1>6, <1>7, <1>8, <1>9 DEF ProfileInv, Exists

\* It fails, or concerns the camera only; whatever the monitor planned is lost.
LEMMA GivenUpKeeps ==
    ASSUME ProfileInv, monitor' = MonitorIdle,
           UNCHANGED <<row, job, request, wish, asked>>,
           \/ camera' = camera
           \/ camera' = [camera EXCEPT !.health = monitor.health,
                                       !.fails = monitor.fails],
           late' \in BOOLEAN, late => late',
           MonitorPending => late' \/ ~Exists,
           mishaps' \in 0 .. MaxMishaps
    PROVE  ProfileInv'
<1>1. /\ camera'.here = camera.here
      /\ camera' \in [here : BOOLEAN, health : Healths, fails : 0 .. Threshold]
    BY DEF ProfileInv, ProfileTypeOK
<1>2. ProfileTypeOK'
    BY <1>1, IdleIsRecord DEF ProfileInv, ProfileTypeOK
<1>3. ~MonitorPending'
    BY IdleIsRecord DEF MonitorPending
<1> QED
    BY <1>1, <1>2, <1>3
       DEF ProfileInv, Exists, Unborn, GoneForGood, Knows, MonitorKnows, JobKept,
           OffKept, MonitorPending, Quiet

\* A boot makes the job from the row.
LEMMA BootKeeps ==
    ASSUME ProfileInv, ProfileBoot
    PROVE  ProfileInv'
<1>1. /\ mishaps < MaxMishaps /\ mishaps' = mishaps + 1
      /\ job' = IF Exists /\ row.val.on THEN row.val.every ELSE 0
      /\ request' = [r \in Requests |-> RequestIdle]
      /\ monitor' = MonitorIdle
      /\ late' = FALSE
      /\ UNCHANGED <<row, camera, wish, asked>>
    BY DEF ProfileBoot
<1>2. /\ job' \in Intervals \cup {0}
      /\ mishaps' \in 0 .. MaxMishaps
      /\ request' \in [Requests -> RequestRecords]
      /\ \A r \in Requests : request'[r].pc = "idle"
      /\ ~MonitorPending'
    BY <1>1, Shapes, IdleIsRecord, ProfileLifecycleAssumption
       DEF ProfileInv, MonitorPending
<1>3. ProfileTypeOK'
    BY <1>1, <1>2, IdleIsRecord DEF ProfileInv, ProfileTypeOK, RequestRecords
<1>4. Unborn' /\ GoneForGood' /\ \A r \in Requests : Knows(r)'
    BY <1>1, <1>2 DEF ProfileInv, Unborn, GoneForGood, Knows, Exists
<1>5. MonitorKnows' /\ JobKept' /\ OffKept'
    BY <1>1, <1>2 DEF ProfileInv, MonitorKnows, JobKept, OffKept, Exists,
                      MonitorPending
<1> QED
    BY <1>1, <1>2, <1>3, <1>4, <1>5 DEF ProfileInv, Exists

\* Every step keeps the invariant.
LEMMA NextProfile == ProfileInv /\ [ProfileNext]_profileVars => ProfileInv'
<1> SUFFICES ASSUME ProfileInv, [ProfileNext]_profileVars
             PROVE  ProfileInv'
    OBVIOUS
<1>1. ASSUME NEW r \in Requests,
             \/ RequestWrites(r) \/ ProfileCreated(r) \/ ProfileDeleted(r)
             \/ RequestRefreshes(r) \/ RequestSchedules(r)
      PROVE  ProfileInv'
    <2>1. CASE RequestWrites(r)
        BY <2>1, WritesKeeps, GivesUpKeeps DEF RequestWrites
    <2>2. CASE ProfileCreated(r)
        BY <2>2, CreatedKeeps, GivesUpKeeps DEF ProfileCreated
    <2>3. CASE RequestRefreshes(r)
        BY <2>3, RefreshesKeeps, GivesUpKeeps DEF RequestRefreshes
    <2> QED
        BY <1>1, <2>1, <2>2, <2>3, DeletedKeeps, RequestSchedulesKeeps
<1>2. CASE SourceAnswers \/ SourceFails
    <2>1. /\ camera.health \in Healths /\ camera.fails \in 0 .. Threshold
          /\ Threshold \in Nat \ {0}
          /\ {"healthy", "unhealthy"} \subseteq Healths
        BY ProfileLifecycleAssumption DEF ProfileInv, ProfileTypeOK, Healths
    <2>2. 0 \in 0 .. Threshold /\ Threshold \in 0 .. Threshold
        BY <2>1
    <2>3. camera.fails + 1 < Threshold => camera.fails + 1 \in 0 .. Threshold
        BY <2>1
    <2>4. CASE SourceAnswers
        BY <2>1, <2>2, <2>4, TurnsKeeps, UnremarkableKeeps DEF SourceAnswers
    <2>5. CASE SourceFails
        BY <2>1, <2>2, <2>3, <2>5, TurnsKeeps, UnremarkableKeeps DEF SourceFails
    <2> QED
        BY <1>2, <2>4, <2>5
<1>3. CASE MonitorCommits \/ MonitorCommitFails
    <2>1. /\ late \in BOOLEAN /\ mishaps \in 0 .. MaxMishaps /\ MaxMishaps \in Nat
          /\ Exists => camera.here
        BY Shapes, ProfileLifecycleAssumption DEF ProfileInv
    <2>2. CASE MonitorCommits /\ MonitorPending /\ camera.here /\ Exists
        BY <2>2, CommitsKeeps DEF MonitorCommits, MonitorPending
    <2>3. CASE MonitorCommits /\ ~(MonitorPending /\ camera.here /\ Exists)
        BY <2>1, <2>3, GivenUpKeeps DEF MonitorCommits, MonitorPending
    <2>4. CASE MonitorCommitFails
        <3>1. /\ monitor' = MonitorIdle /\ camera' = camera
              /\ UNCHANGED <<row, job, request, wish, asked>>
              /\ late' = (late \/ MonitorPending)
              /\ mishaps < MaxMishaps /\ mishaps' = mishaps + 1
            BY <2>4 DEF MonitorCommitFails, MonitorPending
        <3>2. mishaps' \in 0 .. MaxMishaps
            BY <2>1, <3>1
        <3>3. late' \in BOOLEAN
            BY <2>1, <3>1 DEF MonitorPending
        <3> QED
            BY <3>1, <3>2, <3>3, GivenUpKeeps
    <2> QED
        BY <1>3, <2>2, <2>3, <2>4
<1>4. CASE OrphanTicks
    <2>1. ProfileTypeOK'
        BY <1>4 DEF OrphanTicks, ProfileInv, ProfileTypeOK
    <2> QED
        BY <1>4, <2>1
           DEF OrphanTicks, ProfileInv, Exists, Unborn, GoneForGood, Knows,
               MonitorKnows, JobKept, OffKept, MonitorPending, Quiet
<1>5. CASE UNCHANGED profileVars
    BY <1>5 DEF profileVars, ProfileInv, ProfileTypeOK, Exists, Unborn, GoneForGood,
                Knows, MonitorKnows, JobKept, OffKept, MonitorPending, Quiet
<1> QED
    BY <1>1, <1>2, <1>3, <1>4, <1>5, ReadsKeeps, BootKeeps DEF ProfileNext

\* Once every request and the monitor have finished, the capture job is the one
\* the profile's row calls for, unless the last write or the last scheduler call
\* came from a reading that had been overtaken (profiles.py, health.py).
THEOREM ProfilesKeepTheirJob == ProfileSpec => []JobsFollowRows
<1>1. ProfileInv => JobsFollowRows
    <2> SUFFICES ASSUME ProfileInv, Quiet, ~late
                 PROVE  job = IF Exists /\ row.val.on THEN row.val.every ELSE 0
        BY DEF JobsFollowRows
    <2>1. row.state \in {"unborn", "here", "gone"}
        BY Shapes DEF ProfileInv
    <2> QED
        BY <2>1 DEF ProfileInv, Unborn, GoneForGood, JobKept, Quiet, Exists
<1> QED
    BY <1>1, InitProfile, NextProfile, PTL DEF ProfileSpec

\* A profile that its user disabled stays disabled, whatever the monitor and
\* the other requests do and whatever fails (profiles.py:84-85).
THEOREM DisabledStaysDisabled == ProfileSpec => []UserToggleStands
<1>1. ProfileInv => UserToggleStands
    BY DEF ProfileInv, OffKept, UserToggleStands
<1> QED
    BY <1>1, InitProfile, NextProfile, PTL DEF ProfileSpec
=============================================================================
