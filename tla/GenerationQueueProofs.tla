----------------------- MODULE GenerationQueueProofs -----------------------
(***************************************************************************)
(* Theorems of GenerationQueue, for every set of requests, every number of *)
(* stages, and every event of the surroundings.                            *)
(***************************************************************************)
EXTENDS GenerationQueue, SequenceTheorems, TLAPS

-----------------------------------------------------------------------------
(* Sequences without repetition *)

Once(s) == \A i, k \in 1 .. Len(s) : s[i] = s[k] => i = k

\* A queue that takes a new element.
LEMMA AppendOnce ==
    ASSUME NEW S, NEW s \in Seq(S), NEW e \in S, Once(s), ~Contains(s, e)
    PROVE  /\ Append(s, e) \in Seq(S)
           /\ Once(Append(s, e))
           /\ \A x : Contains(Append(s, e), x) <=> Contains(s, x) \/ x = e
           /\ \A x, y : Before(Append(s, e), x, y) <=>
                            Before(s, x, y) \/ (Contains(s, x) /\ y = e)
<1> DEFINE t == Append(s, e)
<1>1. /\ t \in Seq(S)
      /\ Len(t) = Len(s) + 1
      /\ \A i \in 1 .. Len(s) : t[i] = s[i]
      /\ t[Len(s) + 1] = e
    BY AppendProperties
<1>2. Len(s) \in Nat
    BY LenProperties
<1> HIDE DEF t
<1>3. \A i \in 1 .. Len(s) : s[i] # e
    BY DEF Contains
<1>4. Once(t)
    BY <1>1, <1>2, <1>3 DEF Once
<1>5. \A x : Contains(t, x) <=> Contains(s, x) \/ x = e
  <2> SUFFICES ASSUME NEW x
               PROVE  Contains(t, x) <=> Contains(s, x) \/ x = e
      OBVIOUS
  <2>1. ASSUME Contains(t, x) PROVE Contains(s, x) \/ x = e
      BY <1>1, <1>2, <2>1 DEF Contains
  <2>2. ASSUME Contains(s, x) PROVE Contains(t, x)
      BY <1>1, <1>2, <2>2 DEF Contains
  <2>3. Contains(t, e)
      BY <1>1, <1>2 DEF Contains
  <2> QED
      BY <2>1, <2>2, <2>3
<1>6. ASSUME NEW x, NEW y
      PROVE  Before(t, x, y) <=> Before(s, x, y) \/ (Contains(s, x) /\ y = e)
  <2>1. ASSUME Before(t, x, y) PROVE Before(s, x, y) \/ (Contains(s, x) /\ y = e)
    <3>1. PICK m \in 1 .. Len(t), n \in 1 .. Len(t) : m < n /\ t[m] = x /\ t[n] = y
        BY <2>1 DEF Before
    <3>2. m \in 1 .. Len(s) /\ s[m] = x
        BY <1>1, <1>2, <3>1
    <3>3. CASE n \in 1 .. Len(s)
        BY <1>1, <3>1, <3>2, <3>3 DEF Before
    <3>4. CASE n = Len(s) + 1
        BY <1>1, <3>1, <3>2, <3>4 DEF Contains
    <3> QED
        BY <1>1, <1>2, <3>3, <3>4
  <2>2. ASSUME Before(s, x, y) PROVE Before(t, x, y)
    <3>1. PICK m \in 1 .. Len(s), n \in 1 .. Len(s) : m < n /\ s[m] = x /\ s[n] = y
        BY <2>2 DEF Before
    <3>2. m \in 1 .. Len(t) /\ n \in 1 .. Len(t) /\ t[m] = x /\ t[n] = y
        BY <1>1, <1>2, <3>1
    <3> QED
        BY <3>1, <3>2 DEF Before
  <2>3. ASSUME Contains(s, x) PROVE Before(t, x, e)
    <3>1. PICK m \in 1 .. Len(s) : s[m] = x
        BY <2>3 DEF Contains
    <3>2. /\ m \in 1 .. Len(t) /\ t[m] = x /\ m < Len(s) + 1
          /\ Len(s) + 1 \in 1 .. Len(t)
        BY <1>1, <1>2, <3>1
    <3> QED
        BY <1>1, <3>2 DEF Before
  <2> QED
      BY <2>1, <2>2, <2>3
<1> QED
    BY <1>1, <1>4, <1>5, <1>6 DEF t

\* A queue that loses its head.
LEMMA TailOnce ==
    ASSUME NEW S, NEW s \in Seq(S), s # <<>>, Once(s)
    PROVE  /\ Head(s) \in S /\ Contains(s, Head(s))
           /\ Tail(s) \in Seq(S)
           /\ Once(Tail(s))
           /\ \A x : Contains(Tail(s), x) <=> Contains(s, x) /\ x # Head(s)
           /\ \A x, y : Before(s, x, y) =>
                            y # Head(s) /\ (x # Head(s) => Before(Tail(s), x, y))
<1> DEFINE t == Tail(s)
<1>1. /\ Head(s) \in S
      /\ t \in Seq(S)
      /\ Len(t) = Len(s) - 1
      /\ \A i \in 1 .. Len(t) : t[i] = s[i + 1]
    BY HeadTailProperties
<1>2. Len(s) \in Nat /\ Len(s) > 0 /\ Head(s) = s[1]
    BY EmptySeq
<1> HIDE DEF t
<1>3. Once(t)
    BY <1>1, <1>2 DEF Once
<1>4. Contains(s, Head(s))
    BY <1>2 DEF Contains
<1>5. ASSUME NEW x, Contains(t, x) PROVE Contains(s, x) /\ x # Head(s)
    BY <1>1, <1>2, <1>5 DEF Contains, Once
<1>6. ASSUME NEW x, Contains(s, x), x # Head(s) PROVE Contains(t, x)
  <2>1. PICK i \in 1 .. Len(s) : s[i] = x
      BY <1>6 DEF Contains
  <2>2. i - 1 \in 1 .. Len(t) /\ t[i - 1] = x
      BY <1>1, <1>2, <1>6, <2>1
  <2> QED
      BY <2>2 DEF Contains
<1>7. ASSUME NEW x, NEW y, Before(s, x, y)
      PROVE  y # Head(s) /\ (x # Head(s) => Before(t, x, y))
  <2>1. PICK m \in 1 .. Len(s), n \in 1 .. Len(s) : m < n /\ s[m] = x /\ s[n] = y
      BY <1>7 DEF Before
  <2>2. y # Head(s)
      BY <1>2, <2>1 DEF Once
  <2>3. ASSUME x # Head(s) PROVE Before(t, x, y)
    <3>1. /\ m - 1 \in 1 .. Len(t) /\ n - 1 \in 1 .. Len(t)
          /\ t[m - 1] = x /\ t[n - 1] = y /\ m - 1 < n - 1
        BY <1>1, <1>2, <2>1, <2>3
    <3> QED
        BY <3>1 DEF Before
  <2> QED
      BY <2>2, <2>3
<1> QED
    BY <1>1, <1>3, <1>4, <1>5, <1>6, <1>7 DEF t

\* A list that loses one of its elements.
LEMMA RemoveOnce ==
    ASSUME NEW S, NEW s \in Seq(S), NEW i \in 1 .. Len(s), Once(s)
    PROVE  /\ RemoveAt(s, i) \in Seq(S)
           /\ Once(RemoveAt(s, i))
           /\ \A x : Contains(RemoveAt(s, i), x) <=> Contains(s, x) /\ x # s[i]
           /\ \A x, y : Before(RemoveAt(s, i), x, y) => Before(s, x, y)
           /\ i = 1 => RemoveAt(s, i) = Tail(s)
<1> DEFINE n == Len(s)
           a == SubSeq(s, 1, i - 1)
           b == SubSeq(s, i + 1, n)
           t == a \o b
<1>1. n \in Nat /\ \A k \in 1 .. n : s[k] \in S
    BY ElementOfSeq
<1>2. /\ a \in Seq(S)
      /\ Len(a) = i - 1
      /\ \A k \in 1 .. i - 1 : a[k] = s[k]
  <2>1. \A k \in 1 .. i - 1 : s[k] \in S
      BY <1>1
  <2>2. i - 1 \in Int /\ 1 \in Int
      BY <1>1
  <2> QED
      BY <1>1, <2>1, <2>2
<1>3. /\ b \in Seq(S)
      /\ Len(b) = n - i
      /\ \A k \in 1 .. n - i : b[k] = s[k + i]
  <2>1. \A k \in i + 1 .. n : s[k] \in S
      BY <1>1
  <2>2. i + 1 \in Int /\ n \in Int
      BY <1>1
  <2> HIDE DEF n
  <2>3. /\ b \in Seq(S)
        /\ Len(b) = IF i + 1 <= n THEN n - (i + 1) + 1 ELSE 0
        /\ \A k \in 1 .. n - (i + 1) + 1 : b[k] = s[i + 1 + k - 1]
      BY <2>1, <2>2
  <2>4. i \in 1 .. n /\ n \in Nat
      BY <1>1 DEF n
  <2> HIDE DEF b
  <2>5. Len(b) = n - i
      BY <2>3, <2>4
  <2>6. ASSUME NEW k \in 1 .. n - i PROVE b[k] = s[k + i]
    <3>1. k \in 1 .. n - (i + 1) + 1 /\ i + 1 + k - 1 = k + i
        BY <2>4
    <3> QED
        BY <2>3, <3>1
  <2> QED
      BY <2>3, <2>5, <2>6
<1>4. /\ t \in Seq(S)
      /\ Len(t) = Len(a) + Len(b)
      /\ \A k \in 1 .. Len(a) + Len(b) :
            t[k] = IF k <= Len(a) THEN a[k] ELSE b[k - Len(a)]
    BY <1>2, <1>3, ConcatProperties
<1> HIDE DEF a, b, t
<1>5. /\ Len(t) = n - 1
      /\ \A k \in 1 .. n - 1 : t[k] = IF k < i THEN s[k] ELSE s[k + 1]
  <2>1. i \in 1 .. n /\ n \in Nat
      BY <1>1
  <2>2. Len(t) = n - 1
      BY <1>2, <1>3, <1>4, <2>1
  <2>3. ASSUME NEW k \in 1 .. n - 1 PROVE t[k] = IF k < i THEN s[k] ELSE s[k + 1]
    <3>1. k \in 1 .. Len(a) + Len(b) /\ Len(a) = i - 1
        BY <1>2, <1>3, <2>1
    <3>2. CASE k < i
        BY <1>2, <1>4, <2>1, <3>1, <3>2
    <3>3. CASE ~(k < i)
      <4>1. k - Len(a) \in 1 .. n - i /\ (k - Len(a)) + i = k + 1
          BY <2>1, <3>1, <3>3
      <4>2. t[k] = b[k - Len(a)]
          BY <1>4, <2>1, <3>1, <3>3
      <4> QED
          BY <1>3, <3>3, <4>1, <4>2
    <3> QED
        BY <3>2, <3>3
  <2> QED
      BY <2>2, <2>3
<1>6. Once(t)
    BY <1>1, <1>5 DEF Once
<1>7. ASSUME NEW x, Contains(t, x) PROVE Contains(s, x) /\ x # s[i]
  <2>1. PICK k \in 1 .. n - 1 : t[k] = x
      BY <1>5, <1>7 DEF Contains
  <2>2. PICK m \in 1 .. n : m # i /\ s[m] = x
      BY <1>1, <1>5, <2>1
  <2> QED
      BY <2>2 DEF Contains, Once
<1>8. ASSUME NEW x, Contains(s, x), x # s[i] PROVE Contains(t, x)
  <2>1. PICK m \in 1 .. n : s[m] = x
      BY <1>8 DEF Contains
  <2>2. CASE m < i
    <3>1. m \in 1 .. n - 1 /\ t[m] = x
        BY <1>1, <1>5, <2>1, <2>2
    <3> QED
        BY <1>5, <3>1 DEF Contains
  <2>3. CASE m > i
    <3>1. m - 1 \in 1 .. n - 1 /\ t[m - 1] = x
        BY <1>1, <1>5, <2>1, <2>3
    <3> QED
        BY <1>5, <3>1 DEF Contains
  <2> QED
      BY <1>1, <1>8, <2>1, <2>2, <2>3
<1>9. ASSUME NEW x, NEW y, Before(t, x, y) PROVE Before(s, x, y)
  <2>1. PICK k \in 1 .. n - 1, l \in 1 .. n - 1 : k < l /\ t[k] = x /\ t[l] = y
      BY <1>5, <1>9 DEF Before
  <2> DEFINE at(q) == IF q < i THEN q ELSE q + 1
  <2>2. /\ at(k) \in 1 .. n /\ at(l) \in 1 .. n /\ at(k) < at(l)
        /\ s[at(k)] = x /\ s[at(l)] = y
      BY <1>1, <1>5, <2>1
  <2> QED
      BY <2>2 DEF Before
<1>10. RemoveAt(s, i) = t
    BY DEF RemoveAt, t, a, b, n
<1>11. ASSUME i = 1 PROVE t = Tail(s)
  <2>1. s # <<>>
      BY <1>1
  <2>2. /\ Tail(s) \in Seq(S) /\ Len(Tail(s)) = n - 1
        /\ \A k \in 1 .. n - 1 : Tail(s)[k] = s[k + 1]
      BY <2>1, HeadTailProperties
  <2>3. \A k \in 1 .. n - 1 : t[k] = s[k + 1]
      BY <1>1, <1>5, <1>11
  <2> QED
      BY <1>4, <1>5, <2>2, <2>3, SeqEqual
<1> QED
    BY <1>4, <1>6, <1>7, <1>8, <1>9, <1>10, <1>11
-----------------------------------------------------------------------------
(* Types, and the order of the queue *)

\* What waits was requested, waits once, is not running and has no row.
QueueInOrder ==
    /\ Once(queue) /\ Once(pending)
    /\ \A j \in Jobs : Contains(pending, j) => Contains(queue, j)
    /\ \A j \in Jobs : Contains(queue, j) =>
            j \in used /\ j # current /\ j \notin rows
    /\ current # NoJob => current \in used
    /\ rows \subseteq used

\* What the assumption on the constants says of them.
LEMMA IdleFacts ==
    /\ NoJob \notin Jobs
    /\ Prints \subseteq Jobs
    /\ Stages \in Nat
    /\ MaxRestarts \in Nat
BY GenerationQueueAssumption

\* Taking a job off the list of waiting jobs (generation_queue.py:127-131).
LEMMA UnlistedOnce ==
    ASSUME TypeOK, Once(pending), NEW j
    PROVE  /\ Unlisted(j) \in Seq(Jobs)
           /\ Once(Unlisted(j))
           /\ \A x : Contains(Unlisted(j), x) <=> Contains(pending, x) /\ x # j
           /\ \A x, y : Before(Unlisted(j), x, y) => Before(pending, x, y)
           /\ pending # <<>> /\ pending[1] = j => Unlisted(j) = Tail(pending)
           /\ Contains(pending, j) => \E i \in 1 .. Len(pending) :
                  pending[i] = j /\ Unlisted(j) = RemoveAt(pending, i)
<1>1. pending \in Seq(Jobs)
    BY DEF TypeOK
<1>2. CASE Contains(pending, j)
  <2> DEFINE i == CHOOSE k \in 1 .. Len(pending) : pending[k] = j
  <2>1. i \in 1 .. Len(pending) /\ pending[i] = j
      BY <1>2 DEF Contains
  <2>2. Unlisted(j) = RemoveAt(pending, i)
      BY <1>2 DEF Unlisted
  <2> HIDE DEF i
  <2>3. pending[1] = j => i = 1
    <3>1. 1 \in 1 .. Len(pending)
        BY <1>1, <2>1
    <3> QED
        BY <2>1, <3>1 DEF Once
  <2> QED
      BY <1>1, <2>1, <2>2, <2>3, RemoveOnce
<1>3. CASE ~Contains(pending, j)
  <2>1. ~(pending # <<>> /\ pending[1] = j)
      BY <1>1, <1>3, EmptySeq DEF Contains
  <2> QED
      BY <1>1, <1>3, <2>1 DEF Unlisted
<1> QED
    BY <1>2, <1>3

\* The render that ends, or goes on, has a job.
LEMMA CurrentIsJob == TypeOK /\ render.pc # "idle" => current \in Jobs
BY DEF TypeOK

\* A render that ends badly leaves well-typed records.
LEMMA EndsWithType ==
    ASSUME TypeOK, NEW j \in Jobs, NEW outcome \in {"cancelled", "failed"},
           EndsWith(j, outcome)
    PROVE  /\ files' \in SUBSET Jobs
           /\ tracked' \in SUBSET Jobs
           /\ reported' \in [Jobs -> {"no", "complete", "cancelled", "failed"}]
           /\ render' \in RenderRecords
           /\ render'.pc = "reporting"
BY IdleFacts DEF EndsWith, WithoutOutput, TypeOK, RenderRecords

\* Every step keeps the types.
LEMMA TypeNext ==
    ASSUME TypeOK, QueueInOrder, Next \/ UNCHANGED vars
    PROVE  TypeOK'
<1>1. ASSUME NEW j \in Jobs, Enqueue(j) PROVE TypeOK'
  <2>1. queue' \in Seq(Jobs) /\ pending' \in Seq(Jobs)
      BY <1>1 DEF Enqueue, TypeOK
  <2> QED
      BY <1>1, <2>1 DEF Enqueue, TypeOK
<1>2. ASSUME NEW j \in Jobs, CancelWaiting(j) PROVE TypeOK'
  <2>1. pending' \in Seq(Jobs)
      BY <1>2, UnlistedOnce DEF CancelWaiting, QueueInOrder
  <2> QED
      BY <1>2, <2>1 DEF CancelWaiting, CancelSets, TypeOK
<1>3. ASSUME NEW j \in Jobs, CancelActive(j) PROVE TypeOK'
    BY <1>3 DEF CancelActive, CancelSets, TypeOK
<1>4. ASSUME Dequeue PROVE TypeOK'
  <2> DEFINE j == Head(queue)
  <2>1. j \in Jobs /\ queue' \in Seq(Jobs)
      BY <1>4 DEF Dequeue, TypeOK
  <2> HIDE DEF j
  <2>2. Unlisted(j) \in Seq(Jobs)
      BY UnlistedOnce DEF QueueInOrder
  <2>3. CASE Skip(j)
      BY <1>4, <2>1, <2>2, <2>3
         DEF Dequeue, Skip, EventPopped, loopOther, TypeOK
  <2>4. CASE Begin(j)
    <3>1. /\ files' \in SUBSET Jobs
          /\ tracked' \in SUBSET Jobs
          /\ reported' \in [Jobs -> {"no", "complete", "cancelled", "failed"}]
          /\ render' \in RenderRecords
          /\ render'.pc # "idle"
      <4>1. CASE EndsWith(j, "failed")
          BY <2>1, <4>1, EndsWithType
      <4>2. CASE ~EndsWith(j, "failed")
          BY <2>1, <2>4, <4>2, IdleFacts DEF Begin, TypeOK, RenderRecords
      <4> QED
          BY <4>1, <4>2
    <3> QED
        BY <1>4, <2>1, <2>2, <2>4, <3>1, IdleFacts
           DEF Dequeue, Begin, loopOther, TypeOK
  <2> QED
      BY <1>4, <2>3, <2>4 DEF Dequeue, j
<1>5. ASSUME Announced PROVE TypeOK'
  <2>1. CASE EndsWith(current, "cancelled")
      BY <1>5, <2>1, EndsWithType DEF Announced, renderOther, loopOther, TypeOK
  <2>2. CASE GoesTo("frames", Stages)
      BY <1>5, <2>2, IdleFacts
         DEF Announced, GoesTo, renderOther, loopOther, TypeOK, RenderRecords
  <2> QED
      BY <1>5, <2>1, <2>2 DEF Announced
<1>6. ASSUME StageDone PROVE TypeOK'
  <2>1. CASE EndsWith(current, "cancelled") \/ EndsWith(current, "failed")
      BY <1>6, <2>1, EndsWithType DEF StageDone, renderOther, loopOther, TypeOK
  <2>2. CASE render.left > 0 /\ GoesTo("frames", render.left - 1)
    <3>1. render.left - 1 \in 0 .. Stages
        BY <2>2, IdleFacts DEF TypeOK, RenderRecords
    <3> QED
        BY <1>6, <2>2, <3>1
           DEF StageDone, GoesTo, renderOther, loopOther, TypeOK, RenderRecords
  <2>3. CASE GoesTo("spawning", 0)
      BY <1>6, <2>3, IdleFacts
         DEF StageDone, GoesTo, renderOther, loopOther, TypeOK, RenderRecords
  <2> QED
      BY <1>6, <2>1, <2>2, <2>3 DEF StageDone
<1>7. ASSUME Spawned PROVE TypeOK'
    BY <1>7, IdleFacts
       DEF Spawned, renderOther, loopOther, TypeOK, RenderRecords
<1>8. ASSUME SpawnFails PROVE TypeOK'
    BY <1>8, IdleFacts
       DEF SpawnFails, EndsWith, WithoutOutput, renderOther, loopOther, TypeOK,
           RenderRecords
<1>9. ASSUME Encoded PROVE TypeOK'
    BY <1>9, IdleFacts
       DEF Encoded, EndsWith, WithoutOutput, GoesTo, renderOther, loopOther,
           TypeOK, RenderRecords
<1>10. ASSUME TimesOut PROVE TypeOK'
    BY <1>10, IdleFacts
       DEF TimesOut, Killed, GoesTo, renderOther, loopOther, TypeOK,
           RenderRecords
<1>11. ASSUME Stopped PROVE TypeOK'
    BY <1>11, IdleFacts
       DEF Stopped, EndsWith, WithoutOutput, renderOther, loopOther, TypeOK,
           RenderRecords
<1>12. ASSUME Probed PROVE TypeOK'
    BY <1>12, IdleFacts
       DEF Probed, GoesTo, renderOther, loopOther, TypeOK, RenderRecords
<1>13. ASSUME RowCommits PROVE TypeOK'
    BY <1>13, IdleFacts
       DEF RowCommits, GoesTo, renderOther, loopOther, TypeOK, RenderRecords
<1>14. ASSUME RowRefused PROVE TypeOK'
    BY <1>14, IdleFacts
       DEF RowRefused, EndsWith, WithoutOutput, renderOther, loopOther, TypeOK,
           RenderRecords
<1>15. ASSUME RowRefreshed PROVE TypeOK'
  <2>1. CASE EndsWith(current, "failed")
      BY <1>15, <2>1, EndsWithType
         DEF RowRefreshed, renderOther, loopOther, TypeOK
  <2>2. CASE GoesTo("linking", 0)
      BY <1>15, <2>2, IdleFacts
         DEF RowRefreshed, GoesTo, renderOther, loopOther, TypeOK,
             RenderRecords
  <2>3. CASE /\ render' = [pc |-> "reporting", left |-> 0]
             /\ tracked' = tracked \ {current}
             /\ reported' = [reported EXCEPT ![current] = "complete"]
             /\ UNCHANGED files
      BY <1>15, <2>3, IdleFacts
         DEF RowRefreshed, renderOther, loopOther, TypeOK, RenderRecords
  <2> QED
      BY <1>15, <2>1, <2>2, <2>3 DEF RowRefreshed
<1>16. ASSUME PrintLinked PROVE TypeOK'
  <2>1. prints' \in [Prints -> {"unlinked", "linked", "deleted"}]
      BY <1>16 DEF PrintLinked, TypeOK
  <2>2. render' \in RenderRecords /\ render'.pc = "reporting"
      BY <1>16, IdleFacts DEF PrintLinked, RenderRecords
  <2>3. reported' \in [Jobs -> {"no", "complete", "cancelled", "failed"}]
      BY <1>16 DEF PrintLinked, TypeOK
  <2> QED
      BY <1>16, <2>1, <2>2, <2>3, IdleFacts DEF PrintLinked, loopOther, TypeOK
<1>17. ASSUME LinkRaises PROVE TypeOK'
    BY <1>17, IdleFacts
       DEF LinkRaises, EndsWith, WithoutOutput, renderOther, loopOther, TypeOK,
           RenderRecords
<1>18. ASSUME WorkerFinishes PROVE TypeOK'
    BY <1>18, IdleFacts
       DEF WorkerFinishes, RenderIdle, EventPopped, loopOther, TypeOK,
           RenderRecords
<1>19. ASSUME NEW j \in Jobs, FfmpegExits(j) PROVE TypeOK'
    BY <1>19 DEF FfmpegExits, renderOther, loopOther, TypeOK, RenderRecords
<1>20. ASSUME NEW S \in SUBSET rows, DeleteTimelapses(S) PROVE TypeOK'
    BY <1>20 DEF DeleteTimelapses, Unlinked, FilesOf, threadOther, TypeOK
<1>21. ASSUME NEW j \in Prints, DeletePrint(j) PROVE TypeOK'
    BY <1>21 DEF DeletePrint, FilesOf, threadOther, TypeOK
<1>22. ASSUME DeleteProfile PROVE TypeOK'
    BY <1>22 DEF DeleteProfile, Unlinked, threadOther, TypeOK
<1>23. ASSUME DeleteFiles PROVE TypeOK'
    BY <1>23 DEF DeleteFiles, DeletionIdle, threadOther, TypeOK
<1>24. ASSUME Restart PROVE TypeOK'
  <2>1. queue' \in Seq(Jobs) /\ pending' \in Seq(Jobs)
      BY <1>24 DEF Restart
  <2> QED
      BY <1>24, <2>1, IdleFacts
         DEF Restart, RenderIdle, DeletionIdle, TypeOK, RenderRecords
<1>25. ASSUME UNCHANGED vars PROVE TypeOK'
    BY <1>25 DEF vars, TypeOK
<1> QED
    BY <1>1, <1>2, <1>3, <1>4, <1>5, <1>6, <1>7, <1>8, <1>9, <1>10, <1>11,
       <1>12, <1>13, <1>14, <1>15, <1>16, <1>17, <1>18, <1>19, <1>20,
       <1>21, <1>22, <1>23, <1>24, <1>25
       DEF Next, Requests, Worker, Deletions

-----------------------------------------------------------------------------
(* The queue stays in order, and so do the cancel events *)

\* A step that leaves the queue alone and commits no row.
LEMMA QueueFrame ==
    ASSUME QueueInOrder, EventWhileAlive, rows' \subseteq rows,
           UNCHANGED <<queue, pending, events, current, used>>
    PROVE  QueueInOrder' /\ EventWhileAlive'
BY DEF QueueInOrder, EventWhileAlive

\* Every step keeps the order of the queue and the events of its jobs: only
\* enqueue_generation adds, and only the worker takes away.
LEMMA QueueNext ==
    ASSUME TypeOK, QueueInOrder, EventWhileAlive, Next \/ UNCHANGED vars
    PROVE  QueueInOrder' /\ EventWhileAlive'
<1>1. ASSUME NEW j \in Jobs, Enqueue(j) PROVE QueueInOrder' /\ EventWhileAlive'
  <2>1. j \notin used /\ ~Contains(queue, j) /\ ~Contains(pending, j)
      BY <1>1 DEF Enqueue, QueueInOrder
  <2>2. /\ Once(queue')
        /\ \A x : Contains(queue', x) <=> Contains(queue, x) \/ x = j
      BY <1>1, <2>1, AppendOnce DEF Enqueue, QueueInOrder, TypeOK
  <2>3. /\ Once(pending')
        /\ \A x : Contains(pending', x) <=> Contains(pending, x) \/ x = j
      BY <1>1, <2>1, AppendOnce DEF Enqueue, QueueInOrder, TypeOK
  <2>4. j # current /\ j \notin rows
      BY <2>1, IdleFacts DEF QueueInOrder
  <2>5. QueueInOrder'
      BY <1>1, <2>2, <2>3, <2>4 DEF Enqueue, QueueInOrder
  <2>6. EventWhileAlive'
      BY <1>1, <2>2 DEF Enqueue, EventWhileAlive, TypeOK
  <2> QED
      BY <2>5, <2>6
<1>2. ASSUME NEW j \in Jobs, CancelWaiting(j) PROVE QueueInOrder' /\ EventWhileAlive'
  <2>1. /\ Once(pending')
        /\ \A x : Contains(pending', x) => Contains(pending, x) /\ x # j
      BY <1>2, UnlistedOnce DEF CancelWaiting, QueueInOrder
  <2>2. QueueInOrder'
      BY <1>2, <2>1 DEF CancelWaiting, QueueInOrder
  <2>3. EventWhileAlive'
      BY <1>2 DEF CancelWaiting, CancelSets, EventWhileAlive, QueueInOrder
  <2> QED
      BY <2>2, <2>3
<1>3. ASSUME NEW j \in Jobs, CancelActive(j) PROVE QueueInOrder' /\ EventWhileAlive'
  <2>1. QueueInOrder'
      BY <1>3 DEF CancelActive, QueueInOrder
  <2>2. EventWhileAlive'
      BY <1>3 DEF CancelActive, CancelSets, EventWhileAlive
  <2> QED
      BY <2>1, <2>2
<1>4. ASSUME Dequeue PROVE QueueInOrder' /\ EventWhileAlive'
  <2> DEFINE j == Head(queue)
  <2>1. /\ j \in Jobs /\ Contains(queue, j)
        /\ Once(queue')
        /\ \A x : Contains(queue', x) <=> Contains(queue, x) /\ x # j
      BY <1>4, TailOnce DEF Dequeue, TypeOK, QueueInOrder
  <2> HIDE DEF j
  <2>2. /\ Once(pending')
        /\ \A x : Contains(pending', x) => Contains(pending, x) /\ x # j
      BY <1>4, UnlistedOnce DEF Dequeue, Skip, Begin, QueueInOrder, j
  <2>3. current = NoJob /\ rows' = rows /\ used' = used
      BY <1>4 DEF Dequeue, loopOther, TypeOK
  <2>4. CASE Skip(j)
    <3>1. events' = [events EXCEPT ![j] = "none"] /\ current' = current
        BY <2>4 DEF Skip, EventPopped
    <3> QED
        BY <2>1, <2>2, <2>3, <3>1 DEF QueueInOrder, EventWhileAlive, TypeOK
  <2>5. CASE Begin(j)
    <3>1. events' = events /\ current' = j
        BY <2>5 DEF Begin
    <3> QED
        BY <2>1, <2>2, <2>3, <3>1, IdleFacts DEF QueueInOrder, EventWhileAlive
  <2> QED
      BY <1>4, <2>4, <2>5 DEF Dequeue, j
<1>5. ASSUME Announced PROVE QueueInOrder' /\ EventWhileAlive'
    BY <1>5, QueueFrame DEF Announced, renderOther, loopOther
<1>6. ASSUME StageDone PROVE QueueInOrder' /\ EventWhileAlive'
    BY <1>6, QueueFrame DEF StageDone, renderOther, loopOther
<1>7. ASSUME Spawned PROVE QueueInOrder' /\ EventWhileAlive'
    BY <1>7, QueueFrame DEF Spawned, renderOther, loopOther
<1>8. ASSUME SpawnFails PROVE QueueInOrder' /\ EventWhileAlive'
    BY <1>8, QueueFrame DEF SpawnFails, renderOther, loopOther
<1>9. ASSUME Encoded PROVE QueueInOrder' /\ EventWhileAlive'
    BY <1>9, QueueFrame DEF Encoded, renderOther, loopOther
<1>10. ASSUME TimesOut PROVE QueueInOrder' /\ EventWhileAlive'
    BY <1>10, QueueFrame DEF TimesOut, renderOther, loopOther
<1>11. ASSUME Stopped PROVE QueueInOrder' /\ EventWhileAlive'
    BY <1>11, QueueFrame DEF Stopped, renderOther, loopOther
<1>12. ASSUME Probed PROVE QueueInOrder' /\ EventWhileAlive'
    BY <1>12, QueueFrame DEF Probed, renderOther, loopOther
<1>13. ASSUME RowCommits PROVE QueueInOrder' /\ EventWhileAlive'
  <2>1. current \in Jobs
      BY <1>13, CurrentIsJob DEF RowCommits
  <2>2. QueueInOrder'
      BY <1>13, <2>1, IdleFacts
         DEF RowCommits, renderOther, loopOther, QueueInOrder
  <2>3. EventWhileAlive'
      BY <1>13 DEF RowCommits, renderOther, EventWhileAlive
  <2> QED
      BY <2>2, <2>3
<1>14. ASSUME RowRefused PROVE QueueInOrder' /\ EventWhileAlive'
    BY <1>14, QueueFrame DEF RowRefused, renderOther, loopOther
<1>15. ASSUME RowRefreshed PROVE QueueInOrder' /\ EventWhileAlive'
        BY <1>15, QueueFrame DEF RowRefreshed, renderOther, loopOther
<1>16. ASSUME PrintLinked PROVE QueueInOrder' /\ EventWhileAlive'
    BY <1>16, QueueFrame DEF PrintLinked, loopOther
<1>17. ASSUME LinkRaises PROVE QueueInOrder' /\ EventWhileAlive'
    BY <1>17, QueueFrame DEF LinkRaises, renderOther, loopOther
<1>18. ASSUME WorkerFinishes PROVE QueueInOrder' /\ EventWhileAlive'
  <2>1. current \in Jobs
      BY <1>18, CurrentIsJob DEF WorkerFinishes
  <2>2. QueueInOrder'
      BY <1>18, <2>1, IdleFacts DEF WorkerFinishes, loopOther, QueueInOrder
  <2>3. EventWhileAlive'
      BY <1>18, <2>1, IdleFacts
         DEF WorkerFinishes, EventPopped, EventWhileAlive, QueueInOrder, TypeOK
  <2> QED
      BY <2>2, <2>3
<1>19. ASSUME NEW j \in Jobs, FfmpegExits(j) PROVE QueueInOrder' /\ EventWhileAlive'
    BY <1>19, QueueFrame DEF FfmpegExits, renderOther, loopOther
<1>20. ASSUME NEW S \in SUBSET rows, DeleteTimelapses(S) PROVE QueueInOrder' /\ EventWhileAlive'
    BY <1>20, QueueFrame DEF DeleteTimelapses, threadOther
<1>21. ASSUME NEW j \in Prints, DeletePrint(j) PROVE QueueInOrder' /\ EventWhileAlive'
    BY <1>21, QueueFrame DEF DeletePrint, threadOther
<1>22. ASSUME DeleteProfile PROVE QueueInOrder' /\ EventWhileAlive'
    BY <1>22, QueueFrame DEF DeleteProfile, threadOther
<1>23. ASSUME DeleteFiles PROVE QueueInOrder' /\ EventWhileAlive'
    BY <1>23, QueueFrame DEF DeleteFiles, threadOther
<1>24. ASSUME Restart PROVE QueueInOrder' /\ EventWhileAlive'
  <2>1. Len(<<>>) = 0
      OBVIOUS
  <2>2. \A x : ~Contains(<<>>, x)
      BY <2>1 DEF Contains
  <2>3. Once(<<>>)
      BY <2>1 DEF Once
  <2>4. QueueInOrder'
      BY <1>24, <2>2, <2>3 DEF Restart, QueueInOrder
  <2>5. EventWhileAlive'
      BY <1>24, <2>2, IdleFacts DEF Restart, EventWhileAlive
  <2> QED
      BY <2>4, <2>5
<1>25. ASSUME UNCHANGED vars PROVE QueueInOrder' /\ EventWhileAlive'
    BY <1>25, QueueFrame DEF vars
<1> QED
    BY <1>1, <1>2, <1>3, <1>4, <1>5, <1>6, <1>7, <1>8, <1>9, <1>10, <1>11,
       <1>12, <1>13, <1>14, <1>15, <1>16, <1>17, <1>18, <1>19, <1>20,
       <1>21, <1>22, <1>23, <1>24, <1>25
       DEF Next, Requests, Worker, Deletions

-----------------------------------------------------------------------------
(* One encoder *)

\* Every step keeps the running encoder the current one: it is killed or has
\* ended before the worker goes on.
LEMMA EncoderNext ==
    ASSUME TypeOK, OneEncoder, Next \/ UNCHANGED vars
    PROVE  OneEncoder'
<1>1. ASSUME NEW j \in Jobs, Enqueue(j) PROVE OneEncoder'
    BY <1>1 DEF Enqueue, OneEncoder
<1>2. ASSUME NEW j \in Jobs, CancelWaiting(j) PROVE OneEncoder'
    BY <1>2 DEF CancelWaiting, OneEncoder
<1>3. ASSUME NEW j \in Jobs, CancelActive(j) PROVE OneEncoder'
    BY <1>3 DEF CancelActive, OneEncoder
<1>4. ASSUME Dequeue PROVE OneEncoder'
    BY <1>4 DEF Dequeue, OneEncoder
<1>5. ASSUME Announced PROVE OneEncoder'
    BY <1>5 DEF Announced, OneEncoder
<1>6. ASSUME StageDone PROVE OneEncoder'
    BY <1>6 DEF StageDone, OneEncoder
<1>7. ASSUME Spawned PROVE OneEncoder'
    BY <1>7 DEF Spawned, renderOther, OneEncoder
<1>8. ASSUME SpawnFails PROVE OneEncoder'
    BY <1>8 DEF SpawnFails, OneEncoder
<1>9. ASSUME Encoded PROVE OneEncoder'
    BY <1>9 DEF Encoded, OneEncoder
<1>10. ASSUME TimesOut PROVE OneEncoder'
    BY <1>10 DEF TimesOut, Killed, TypeOK, OneEncoder
<1>11. ASSUME Stopped PROVE OneEncoder'
    BY <1>11 DEF Stopped, OneEncoder
<1>12. ASSUME Probed PROVE OneEncoder'
    BY <1>12 DEF Probed, OneEncoder
<1>13. ASSUME RowCommits PROVE OneEncoder'
    BY <1>13 DEF RowCommits, OneEncoder
<1>14. ASSUME RowRefused PROVE OneEncoder'
    BY <1>14 DEF RowRefused, OneEncoder
<1>15. ASSUME RowRefreshed PROVE OneEncoder'
    BY <1>15 DEF RowRefreshed, OneEncoder
<1>16. ASSUME PrintLinked PROVE OneEncoder'
    BY <1>16 DEF PrintLinked, OneEncoder
<1>17. ASSUME LinkRaises PROVE OneEncoder'
    BY <1>17 DEF LinkRaises, OneEncoder
<1>18. ASSUME WorkerFinishes PROVE OneEncoder'
    BY <1>18 DEF WorkerFinishes, OneEncoder
<1>19. ASSUME NEW j \in Jobs, FfmpegExits(j) PROVE OneEncoder'
    BY <1>19 DEF FfmpegExits, TypeOK, OneEncoder
<1>20. ASSUME NEW S \in SUBSET rows, DeleteTimelapses(S) PROVE OneEncoder'
    BY <1>20 DEF DeleteTimelapses, threadOther, OneEncoder
<1>21. ASSUME NEW j \in Prints, DeletePrint(j) PROVE OneEncoder'
    BY <1>21 DEF DeletePrint, threadOther, OneEncoder
<1>22. ASSUME DeleteProfile PROVE OneEncoder'
    BY <1>22 DEF DeleteProfile, threadOther, OneEncoder
<1>23. ASSUME DeleteFiles PROVE OneEncoder'
    BY <1>23 DEF DeleteFiles, threadOther, OneEncoder
<1>24. ASSUME Restart PROVE OneEncoder'
    BY <1>24 DEF Restart, OneEncoder
<1>25. ASSUME UNCHANGED vars PROVE OneEncoder'
    BY <1>25 DEF vars, OneEncoder
<1> QED
    BY <1>1, <1>2, <1>3, <1>4, <1>5, <1>6, <1>7, <1>8, <1>9, <1>10, <1>11,
       <1>12, <1>13, <1>14, <1>15, <1>16, <1>17, <1>18, <1>19, <1>20,
       <1>21, <1>22, <1>23, <1>24, <1>25
       DEF Next, Requests, Worker, Deletions

-----------------------------------------------------------------------------
(* Cancellations *)

BeforeCommit == BeforeLastLook \cup {"probing", "thumbnail"}

\* A render has no row before it commits one.
RowNotYet == render.pc \in BeforeCommit => current \notin rows

\* The worker will find the event of whoever was answered while waiting, and
\* the render that of whoever was answered before its last look.
CancelWillBeSeen ==
    /\ \A j \in Jobs : answered[j] = "waiting" =>
            /\ j \in used /\ j # current
            /\ Contains(queue, j) => events[j] = "set"
    /\ \A j \in Jobs : answered[j] = "rendering" =>
            /\ j \in used /\ ~Contains(queue, j)
            /\ j = current =>
                \/ render.pc = "reporting"
                \/ render.pc \in BeforeLastLook /\ events[j] = "set"

CancelInv == RowNotYet /\ CancelWillBeSeen /\ CancelHonoured

\* Every step keeps a set event where the worker or the render will find it.
LEMMA CancelNext ==
    ASSUME TypeOK, QueueInOrder, CancelInv, Next \/ UNCHANGED vars
    PROVE  CancelInv'
<1>1. ASSUME NEW j \in Jobs, Enqueue(j) PROVE CancelInv'
  <2>1. ~Contains(queue, j)
      BY <1>1 DEF Enqueue, QueueInOrder
  <2>2. \A x : Contains(queue', x) <=> Contains(queue, x) \/ x = j
      BY <1>1, <2>1, AppendOnce DEF Enqueue, TypeOK, QueueInOrder
  <2>3. j # current \/ current = NoJob
      BY <1>1 DEF Enqueue, QueueInOrder
  <2> QED
      BY <1>1, <2>2, <2>3
         DEF Enqueue, CancelInv, RowNotYet, CancelWillBeSeen, CancelHonoured
<1>2. ASSUME NEW j \in Jobs, CancelWaiting(j) PROVE CancelInv'
    BY <1>2
       DEF CancelWaiting, CancelSets, TypeOK, CancelInv, RowNotYet,
           CancelWillBeSeen, CancelHonoured, QueueInOrder
<1>3. ASSUME NEW j \in Jobs, CancelActive(j) PROVE CancelInv'
    BY <1>3
       DEF CancelActive, CancelSets, TypeOK, CancelInv, RowNotYet,
           CancelWillBeSeen, CancelHonoured, BeforeCommit, BeforeLastLook,
           QueueInOrder
<1>4. ASSUME Dequeue PROVE CancelInv'
  <2> DEFINE h == Head(queue)
  <2>1. /\ h \in Jobs /\ Contains(queue, h)
        /\ \A x : Contains(queue', x) <=> Contains(queue, x) /\ x # h
      BY <1>4, TailOnce DEF Dequeue, TypeOK, QueueInOrder
  <2> HIDE DEF h
  <2>2. current = NoJob
      BY <1>4 DEF Dequeue, TypeOK
  <2>3. CASE Skip(h)
      BY <1>4, <2>1, <2>2, <2>3
         DEF Dequeue, Skip, EventPopped, loopOther, CancelInv, RowNotYet,
             CancelWillBeSeen, CancelHonoured
  <2>4. CASE Begin(h)
    <3>1. h \notin rows /\ answered[h] \notin {"waiting", "rendering"}
        BY <2>1, <2>4
           DEF Begin, Cancelled, QueueInOrder, CancelInv, CancelWillBeSeen
    <3> QED
        BY <1>4, <2>1, <2>2, <2>4, <3>1
           DEF Dequeue, Begin, loopOther, CancelInv, RowNotYet,
               CancelWillBeSeen, CancelHonoured
  <2> QED
      BY <1>4, <2>3, <2>4 DEF Dequeue, h
<1>5. ASSUME Announced PROVE CancelInv'
    BY <1>5
       DEF Announced, EndsWith, GoesTo, renderOther, loopOther, CancelInv,
           RowNotYet, CancelWillBeSeen, CancelHonoured, BeforeCommit,
           BeforeLastLook
<1>6. ASSUME StageDone PROVE CancelInv'
    BY <1>6
       DEF StageDone, EndsWith, GoesTo, renderOther, loopOther, CancelInv,
           RowNotYet, CancelWillBeSeen, CancelHonoured, BeforeCommit,
           BeforeLastLook
<1>7. ASSUME Spawned PROVE CancelInv'
    BY <1>7
       DEF Spawned, renderOther, loopOther, CancelInv, RowNotYet,
           CancelWillBeSeen, CancelHonoured, BeforeCommit, BeforeLastLook
<1>8. ASSUME SpawnFails PROVE CancelInv'
    BY <1>8
       DEF SpawnFails, EndsWith, renderOther, loopOther, CancelInv, RowNotYet,
           CancelWillBeSeen, CancelHonoured, BeforeCommit, BeforeLastLook
<1>9. ASSUME Encoded PROVE CancelInv'
    BY <1>9
       DEF Encoded, EndsWith, renderOther, loopOther, CancelInv, RowNotYet,
           CancelWillBeSeen, CancelHonoured, BeforeCommit, BeforeLastLook,
           Cancelled
<1>10. ASSUME TimesOut PROVE CancelInv'
    BY <1>10
       DEF TimesOut, GoesTo, renderOther, loopOther, CancelInv, RowNotYet,
           CancelWillBeSeen, CancelHonoured, BeforeCommit, BeforeLastLook
<1>11. ASSUME Stopped PROVE CancelInv'
    BY <1>11
       DEF Stopped, EndsWith, renderOther, loopOther, CancelInv, RowNotYet,
           CancelWillBeSeen, CancelHonoured, BeforeCommit, BeforeLastLook
<1>12. ASSUME Probed PROVE CancelInv'
    BY <1>12
       DEF Probed, renderOther, loopOther, CancelInv, RowNotYet,
           CancelWillBeSeen, CancelHonoured, BeforeCommit, BeforeLastLook
<1>13. ASSUME RowCommits PROVE CancelInv'
    BY <1>13
       DEF RowCommits, GoesTo, renderOther, loopOther, CancelInv, RowNotYet,
           CancelWillBeSeen, CancelHonoured, BeforeCommit, BeforeLastLook
<1>14. ASSUME RowRefused PROVE CancelInv'
    BY <1>14
       DEF RowRefused, renderOther, loopOther, CancelInv, RowNotYet,
           CancelWillBeSeen, CancelHonoured, BeforeCommit, BeforeLastLook
<1>15. ASSUME RowRefreshed PROVE CancelInv'
    BY <1>15
       DEF RowRefreshed, EndsWith, GoesTo, renderOther, loopOther, CancelInv,
           RowNotYet, CancelWillBeSeen, CancelHonoured, BeforeCommit,
           BeforeLastLook
<1>16. ASSUME PrintLinked PROVE CancelInv'
    BY <1>16
       DEF PrintLinked, loopOther, CancelInv, RowNotYet, CancelWillBeSeen,
           CancelHonoured, BeforeCommit, BeforeLastLook
<1>17. ASSUME LinkRaises PROVE CancelInv'
    BY <1>17
       DEF LinkRaises, EndsWith, renderOther, loopOther, CancelInv, RowNotYet,
           CancelWillBeSeen, CancelHonoured, BeforeCommit, BeforeLastLook
<1>18. ASSUME WorkerFinishes PROVE CancelInv'
    BY <1>18, IdleFacts
       DEF WorkerFinishes, EventPopped, loopOther, TypeOK, CancelInv,
           RowNotYet, CancelWillBeSeen, CancelHonoured
<1>19. ASSUME NEW j \in Jobs, FfmpegExits(j) PROVE CancelInv'
    BY <1>19
       DEF FfmpegExits, renderOther, loopOther, CancelInv, RowNotYet,
           CancelWillBeSeen, CancelHonoured
<1>20. ASSUME NEW S \in SUBSET rows, DeleteTimelapses(S) PROVE CancelInv'
    BY <1>20
       DEF DeleteTimelapses, threadOther, CancelInv, RowNotYet,
           CancelWillBeSeen, CancelHonoured
<1>21. ASSUME NEW j \in Prints, DeletePrint(j) PROVE CancelInv'
    BY <1>21
       DEF DeletePrint, threadOther, CancelInv, RowNotYet, CancelWillBeSeen,
           CancelHonoured
<1>22. ASSUME DeleteProfile PROVE CancelInv'
    BY <1>22
       DEF DeleteProfile, threadOther, CancelInv, RowNotYet, CancelWillBeSeen,
           CancelHonoured
<1>23. ASSUME DeleteFiles PROVE CancelInv'
    BY <1>23
       DEF DeleteFiles, threadOther, CancelInv, RowNotYet, CancelWillBeSeen,
           CancelHonoured
<1>24. ASSUME Restart PROVE CancelInv'
  <2>1. \A x : ~Contains(queue', x)
      BY <1>24 DEF Restart, Contains
  <2> QED
      BY <1>24, <2>1, IdleFacts
         DEF Restart, TypeOK, CancelInv, RowNotYet, CancelWillBeSeen,
             CancelHonoured
<1>25. ASSUME UNCHANGED vars PROVE CancelInv'
    BY <1>25 DEF vars, CancelInv, RowNotYet, CancelWillBeSeen, CancelHonoured
<1> QED
    BY <1>1, <1>2, <1>3, <1>4, <1>5, <1>6, <1>7, <1>8, <1>9, <1>10, <1>11,
       <1>12, <1>13, <1>14, <1>15, <1>16, <1>17, <1>18, <1>19, <1>20,
       <1>21, <1>22, <1>23, <1>24, <1>25
       DEF Next, Requests, Worker, Deletions

-----------------------------------------------------------------------------
(* Outputs *)

OwnerInv ==
    /\ OutputHasOwner
    /\ deletion.pc = "idle" => deletion.files = {}

\* Every step leaves an output to its row, its render or a deletion.
LEMMA OwnerNext ==
    ASSUME TypeOK, OwnerInv, Next \/ UNCHANGED vars
    PROVE  OwnerInv'
<1>1. ASSUME NEW j \in Jobs, Enqueue(j) PROVE OwnerInv'
    BY <1>1 DEF Enqueue, OwnerInv, OutputHasOwner
<1>2. ASSUME NEW j \in Jobs, CancelWaiting(j) PROVE OwnerInv'
    BY <1>2 DEF CancelWaiting, OwnerInv, OutputHasOwner
<1>3. ASSUME NEW j \in Jobs, CancelActive(j) PROVE OwnerInv'
    BY <1>3 DEF CancelActive, OwnerInv, OutputHasOwner
<1>4. ASSUME Dequeue PROVE OwnerInv'
    BY <1>4, IdleFacts
       DEF Dequeue, Skip, Begin, EndsWith, WithoutOutput, loopOther, TypeOK,
           OwnerInv, OutputHasOwner
<1>5. ASSUME Announced PROVE OwnerInv'
    BY <1>5
       DEF Announced, EndsWith, WithoutOutput, GoesTo, renderOther, loopOther,
           OwnerInv, OutputHasOwner
<1>6. ASSUME StageDone PROVE OwnerInv'
    BY <1>6
       DEF StageDone, EndsWith, WithoutOutput, GoesTo, renderOther, loopOther,
           OwnerInv, OutputHasOwner
<1>7. ASSUME Spawned PROVE OwnerInv'
    BY <1>7 DEF Spawned, renderOther, loopOther, OwnerInv, OutputHasOwner
<1>8. ASSUME SpawnFails PROVE OwnerInv'
    BY <1>8
       DEF SpawnFails, EndsWith, WithoutOutput, renderOther, loopOther,
           OwnerInv, OutputHasOwner
<1>9. ASSUME Encoded PROVE OwnerInv'
    BY <1>9
       DEF Encoded, EndsWith, WithoutOutput, GoesTo, renderOther, loopOther,
           OwnerInv, OutputHasOwner
<1>10. ASSUME TimesOut PROVE OwnerInv'
    BY <1>10
       DEF TimesOut, GoesTo, renderOther, loopOther, OwnerInv, OutputHasOwner
<1>11. ASSUME Stopped PROVE OwnerInv'
    BY <1>11
       DEF Stopped, EndsWith, WithoutOutput, renderOther, loopOther, OwnerInv,
           OutputHasOwner
<1>12. ASSUME Probed PROVE OwnerInv'
    BY <1>12
       DEF Probed, GoesTo, renderOther, loopOther, OwnerInv, OutputHasOwner
<1>13. ASSUME RowCommits PROVE OwnerInv'
    BY <1>13
       DEF RowCommits, GoesTo, renderOther, loopOther, OwnerInv, OutputHasOwner
<1>14. ASSUME RowRefused PROVE OwnerInv'
    BY <1>14
       DEF RowRefused, EndsWith, WithoutOutput, renderOther, loopOther,
           OwnerInv, OutputHasOwner
<1>15. ASSUME RowRefreshed PROVE OwnerInv'
    BY <1>15
       DEF RowRefreshed, RefreshRaises, EndsWith, WithoutOutput, GoesTo,
           renderOther, loopOther, OwnerInv, OutputHasOwner
<1>16. ASSUME PrintLinked PROVE OwnerInv'
    BY <1>16 DEF PrintLinked, loopOther, OwnerInv, OutputHasOwner
<1>17. ASSUME LinkRaises PROVE OwnerInv'
    BY <1>17
       DEF LinkRaises, EndsWith, WithoutOutput, renderOther, loopOther,
           OwnerInv, OutputHasOwner
<1>18. ASSUME WorkerFinishes PROVE OwnerInv'
    BY <1>18 DEF WorkerFinishes, loopOther, OwnerInv, OutputHasOwner
<1>19. ASSUME NEW j \in Jobs, FfmpegExits(j) PROVE OwnerInv'
    BY <1>19 DEF FfmpegExits, renderOther, loopOther, OwnerInv, OutputHasOwner
<1>20. ASSUME NEW S \in SUBSET rows, DeleteTimelapses(S) PROVE OwnerInv'
    BY <1>20
       DEF DeleteTimelapses, FilesOf, threadOther, OwnerInv, OutputHasOwner
<1>21. ASSUME NEW j \in Prints, DeletePrint(j) PROVE OwnerInv'
    BY <1>21 DEF DeletePrint, FilesOf, threadOther, OwnerInv, OutputHasOwner
<1>22. ASSUME DeleteProfile PROVE OwnerInv'
    BY <1>22 DEF DeleteProfile, TypeOK, OwnerInv, OutputHasOwner
<1>23. ASSUME DeleteFiles PROVE OwnerInv'
    BY <1>23
       DEF DeleteFiles, DeletionIdle, threadOther, OwnerInv, OutputHasOwner
<1>24. ASSUME Restart PROVE OwnerInv'
    BY <1>24 DEF Restart, DeletionIdle, TypeOK, OwnerInv, OutputHasOwner
<1>25. ASSUME UNCHANGED vars PROVE OwnerInv'
    BY <1>25 DEF vars, OwnerInv, OutputHasOwner
<1> QED
    BY <1>1, <1>2, <1>3, <1>4, <1>5, <1>6, <1>7, <1>8, <1>9, <1>10, <1>11,
       <1>12, <1>13, <1>14, <1>15, <1>16, <1>17, <1>18, <1>19, <1>20,
       <1>21, <1>22, <1>23, <1>24, <1>25
       DEF Next, Requests, Worker, Deletions

-----------------------------------------------------------------------------
(* The invariant *)

IInv ==
    /\ TypeOK
    /\ QueueInOrder
    /\ EventWhileAlive
    /\ OneEncoder
    /\ CancelInv
    /\ OwnerInv

\* The invariant holds at boot.
LEMMA InitIInv == Init => IInv
<1> SUFFICES ASSUME Init PROVE IInv
    OBVIOUS
<1>1. TypeOK
    BY IdleFacts DEF Init, TypeOK, RenderIdle, DeletionIdle, RenderRecords
<1>2. \A x : ~Contains(<<>>, x)
    BY DEF Contains
<1>3. QueueInOrder /\ EventWhileAlive
    BY <1>2, IdleFacts DEF Init, QueueInOrder, EventWhileAlive, Once
<1>4. OneEncoder /\ CancelInv /\ OwnerInv
    BY DEF Init, OneEncoder, CancelInv, RowNotYet, CancelWillBeSeen,
           CancelHonoured, OwnerInv, OutputHasOwner, DeletionIdle
<1> QED
    BY <1>1, <1>3, <1>4 DEF IInv

\* Every step keeps it.
LEMMA NextIInv == IInv /\ [Next]_vars => IInv'
<1> SUFFICES ASSUME IInv, Next \/ UNCHANGED vars PROVE IInv'
    OBVIOUS
<1> QED
    BY TypeNext, QueueNext, EncoderNext, CancelNext, OwnerNext DEF IInv

\* The invariant holds in every run: what the worker, the requests, the
\* cancellations, the thread-pool deletions and a restart do keeps it.
THEOREM Invariance == Spec => []IInv
<1> QED
    BY InitIInv, NextIInv, PTL DEF Spec

\* The variables keep their shape in every run of every instance.
THEOREM TypeCorrect == Spec => []TypeOK
<1>1. IInv => TypeOK
    BY DEF IInv
<1> QED
    BY <1>1, Invariance, PTL

\* A job has a cancel event exactly while it is queued or running, so a running
\* job can always be cancelled and the registry does not grow
\* (generation_queue.py:102-171).
THEOREM EventsMatchJobs == Spec => []EventWhileAlive
<1>1. IInv => EventWhileAlive
    BY DEF IInv
<1> QED
    BY <1>1, Invariance, PTL

\* Two encoders never run at once, and the one that runs is the one a
\* cancellation kills, whichever way its predecessors ended
\* (timelapse.py:836-885).
THEOREM OnlyOneEncoder == Spec => []OneEncoder
<1>1. IInv => OneEncoder
    BY DEF IInv
<1> QED
    BY <1>1, Invariance, PTL

\* A cancellation answered before the last look at the event holds: the job
\* never has a row, however many requests wait and whatever else happens
\* (generation_queue.py:119-157, timelapse.py:515-517).
THEOREM CancellationsHold == Spec => []CancelHonoured
<1>1. IInv => CancelHonoured
    BY DEF IInv, CancelInv
<1> QED
    BY <1>1, Invariance, PTL

\* Until a restart, no output file is left to nobody: a render that fails, is
\* cancelled, times out or loses its profile unlinks what it wrote
\* (timelapse.py:373-384).
THEOREM OutputsOwned == Spec => []OutputHasOwner
<1>1. IInv => OutputHasOwner
    BY DEF IInv, OwnerInv
<1> QED
    BY <1>1, Invariance, PTL

-----------------------------------------------------------------------------
(* Rows and their files, when no print is deleted and no commit fails *)

Calm == Env \cap {"delete_print", "db_error"} = {}

\* What a deletion removes has no row, and the job being rendered is among it
\* only once its row was there to delete; what was reported is over.
RowsKept ==
    /\ \A j \in Prints : prints[j] # "deleted"
    /\ render.pc = "linking" => current \in Prints
    /\ deletion.files \cap rows = {}
    /\ profile => \A j \in deletion.files :
            /\ j \in used /\ ~Contains(queue, j)
            /\ j = current => render.pc \in {"committed", "linking", "reporting"}
    /\ profile /\ render.pc \in {"probing", "thumbnail"} => current \in files
    /\ \A j \in Jobs : reported[j] # "no" =>
            /\ j \in used /\ ~Contains(queue, j)
            /\ j = current => render.pc = "reporting"
    /\ RowHasOutput
    /\ ReportIsTrue

\* In calm surroundings every step keeps the rows with their files.
LEMMA RowsNext ==
    ASSUME Calm, TypeOK, QueueInOrder, RowNotYet, OwnerInv, RowsKept,
           Next \/ UNCHANGED vars
    PROVE  RowsKept'
<1>1. ASSUME NEW j \in Jobs, Enqueue(j) PROVE RowsKept'
  <2>1. ~Contains(queue, j)
      BY <1>1 DEF Enqueue, QueueInOrder
  <2>2. \A x : Contains(queue', x) <=> Contains(queue, x) \/ x = j
      BY <1>1, <2>1, AppendOnce DEF Enqueue, TypeOK, QueueInOrder
  <2> QED
      BY <1>1, <2>2 DEF Enqueue, RowsKept, RowHasOutput, ReportIsTrue
<1>2. ASSUME NEW j \in Jobs, CancelWaiting(j) PROVE RowsKept'
    BY <1>2 DEF CancelWaiting, RowsKept, RowHasOutput, ReportIsTrue
<1>3. ASSUME NEW j \in Jobs, CancelActive(j) PROVE RowsKept'
    BY <1>3 DEF CancelActive, RowsKept, RowHasOutput, ReportIsTrue
<1>4. ASSUME Dequeue PROVE RowsKept'
  <2> DEFINE h == Head(queue)
  <2>1. /\ h \in Jobs /\ Contains(queue, h)
        /\ \A x : Contains(queue', x) <=> Contains(queue, x) /\ x # h
      BY <1>4, TailOnce DEF Dequeue, TypeOK, QueueInOrder
  <2> HIDE DEF h
  <2>2. current = NoJob
      BY <1>4 DEF Dequeue, TypeOK
  <2>3. h \in used /\ h \notin rows
      BY <2>1 DEF QueueInOrder
  <2>4. CASE Skip(h)
      BY <1>4, <2>1, <2>2, <2>4
         DEF Dequeue, Skip, loopOther, RowsKept, RowHasOutput, ReportIsTrue
  <2>5. CASE Begin(h)
      BY <1>4, <2>1, <2>2, <2>3, <2>5
         DEF Dequeue, Begin, EndsWith, WithoutOutput, loopOther, TypeOK,
             RowsKept, RowHasOutput, ReportIsTrue
  <2> QED
      BY <1>4, <2>4, <2>5 DEF Dequeue, h
<1>5. ASSUME Announced PROVE RowsKept'
    BY <1>5
       DEF Announced, EndsWith, WithoutOutput, GoesTo, renderOther, loopOther,
           TypeOK, RowsKept, RowHasOutput, ReportIsTrue, RowNotYet,
           BeforeCommit, BeforeLastLook, QueueInOrder
<1>6. ASSUME StageDone PROVE RowsKept'
    BY <1>6
       DEF StageDone, EndsWith, WithoutOutput, GoesTo, renderOther, loopOther,
           TypeOK, RowsKept, RowHasOutput, ReportIsTrue, RowNotYet,
           BeforeCommit, BeforeLastLook, QueueInOrder
<1>7. ASSUME Spawned PROVE RowsKept'
    BY <1>7
       DEF Spawned, renderOther, loopOther, RowsKept, RowHasOutput,
           ReportIsTrue
<1>8. ASSUME SpawnFails PROVE RowsKept'
    BY <1>8
       DEF SpawnFails, EndsWith, WithoutOutput, renderOther, loopOther, TypeOK,
           RowsKept, RowHasOutput, ReportIsTrue, RowNotYet, BeforeCommit,
           BeforeLastLook, QueueInOrder
<1>9. ASSUME Encoded PROVE RowsKept'
    BY <1>9
       DEF Encoded, EndsWith, WithoutOutput, GoesTo, renderOther, loopOther,
           TypeOK, RowsKept, RowHasOutput, ReportIsTrue, RowNotYet,
           BeforeCommit, BeforeLastLook, QueueInOrder
<1>10. ASSUME TimesOut PROVE RowsKept'
    BY <1>10
       DEF TimesOut, GoesTo, renderOther, loopOther, RowsKept, RowHasOutput,
           ReportIsTrue
<1>11. ASSUME Stopped PROVE RowsKept'
    BY <1>11
       DEF Stopped, EndsWith, WithoutOutput, renderOther, loopOther, TypeOK,
           RowsKept, RowHasOutput, ReportIsTrue, RowNotYet, BeforeCommit,
           BeforeLastLook, QueueInOrder
<1>12. ASSUME Probed PROVE RowsKept'
    BY <1>12
       DEF Probed, GoesTo, renderOther, loopOther, RowsKept, RowHasOutput,
           ReportIsTrue
<1>13. ASSUME RowCommits PROVE RowsKept'
    BY <1>13
       DEF RowCommits, GoesTo, renderOther, loopOther, RowsKept, RowHasOutput,
           ReportIsTrue
<1>14. ASSUME RowRefused PROVE RowsKept'
    BY <1>14
       DEF RowRefused, EndsWith, WithoutOutput, renderOther, loopOther, TypeOK,
           RowsKept, RowHasOutput, ReportIsTrue, RowNotYet, BeforeCommit,
           QueueInOrder
<1>15. ASSUME RowRefreshed PROVE RowsKept'
    BY <1>15
       DEF RowRefreshed, RefreshRaises, EndsWith, WithoutOutput, GoesTo,
           renderOther, loopOther, TypeOK, RowsKept, RowHasOutput,
           ReportIsTrue, QueueInOrder
<1>16. ASSUME PrintLinked PROVE RowsKept'
    BY <1>16
       DEF PrintLinked, loopOther, RowsKept, RowHasOutput, ReportIsTrue,
           QueueInOrder
<1>17. ASSUME LinkRaises PROVE RowsKept'
    BY <1>17
       DEF Calm, LinkRaises, EndsWith, WithoutOutput, renderOther, loopOther,
           TypeOK, RowsKept, RowHasOutput, ReportIsTrue, QueueInOrder
<1>18. ASSUME WorkerFinishes PROVE RowsKept'
    BY <1>18, IdleFacts
       DEF WorkerFinishes, RenderIdle, loopOther, TypeOK, RowsKept,
           RowHasOutput, ReportIsTrue
<1>19. ASSUME NEW j \in Jobs, FfmpegExits(j) PROVE RowsKept'
    BY <1>19
       DEF FfmpegExits, renderOther, loopOther, RowsKept, RowHasOutput,
           ReportIsTrue
<1>20. ASSUME NEW S \in SUBSET rows, DeleteTimelapses(S) PROVE RowsKept'
  <2>1. ASSUME current \in S
        PROVE  render.pc \in {"committed", "linking", "reporting"}
      BY <2>1, IdleFacts
         DEF TypeOK, RenderRecords, RowNotYet, BeforeCommit, BeforeLastLook
  <2>2. \A j \in S : j \in Jobs /\ j \in used /\ ~Contains(queue, j)
      BY DEF TypeOK, QueueInOrder
  <2>3. \A j \in Prints : prints'[j] # "deleted"
      BY <1>20 DEF DeleteTimelapses, Unlinked, RowsKept
  <2> QED
      BY <1>20, <2>1, <2>2, <2>3
         DEF DeleteTimelapses, FilesOf, threadOther, RowsKept, RowHasOutput,
             ReportIsTrue
<1>21. ASSUME NEW j \in Prints, DeletePrint(j) PROVE RowsKept'
    BY <1>21 DEF Calm, DeletePrint
<1>22. ASSUME DeleteProfile PROVE RowsKept'
    BY <1>22
       DEF Unlinked, DeleteProfile, threadOther, RowsKept, RowHasOutput,
           ReportIsTrue
<1>23. ASSUME DeleteFiles PROVE RowsKept'
    BY <1>23
       DEF DeleteFiles, DeletionIdle, threadOther, RowsKept, RowHasOutput,
           ReportIsTrue
<1>24. ASSUME Restart PROVE RowsKept'
  <2>1. \A x : ~Contains(queue', x)
      BY <1>24 DEF Restart, Contains
  <2> QED
      BY <1>24, <2>1, IdleFacts
         DEF Restart, RenderIdle, DeletionIdle, RowsKept, RowHasOutput,
             ReportIsTrue
<1>25. ASSUME UNCHANGED vars PROVE RowsKept'
    BY <1>25 DEF vars, RowsKept, RowHasOutput, ReportIsTrue
<1> QED
    BY <1>1, <1>2, <1>3, <1>4, <1>5, <1>6, <1>7, <1>8, <1>9, <1>10, <1>11,
       <1>12, <1>13, <1>14, <1>15, <1>16, <1>17, <1>18, <1>19, <1>20,
       <1>21, <1>22, <1>23, <1>24, <1>25
       DEF Next, Requests, Worker, Deletions

\* In calm surroundings the invariant and its last layer hold in every run.
LEMMA RowsInv == Calm => (Spec => [](IInv /\ RowsKept))
<1> SUFFICES ASSUME Calm PROVE Spec => [](IInv /\ RowsKept)
    OBVIOUS
<1>1. ASSUME Init PROVE RowsKept
  <2>1. \A x : ~Contains(queue, x)
      BY <1>1 DEF Init, Contains
  <2> QED
      BY <1>1, <2>1
         DEF Init, RenderIdle, DeletionIdle, RowsKept, RowHasOutput,
             ReportIsTrue
<1>2. ASSUME IInv, RowsKept, [Next]_vars PROVE IInv' /\ RowsKept'
    BY <1>2, NextIInv, RowsNext DEF IInv, CancelInv
<1>3. Init => IInv /\ RowsKept
    BY <1>1, InitIInv
<1>4. IInv /\ RowsKept /\ [Next]_vars => (IInv /\ RowsKept)'
    BY <1>2
<1> QED
    BY <1>3, <1>4, PTL DEF Spec

\* While no print is deleted and no commit fails, every timelapse row has its
\* file: the deletions and the renders never take each other's output
\* (timelapses.py:136-145, timelapse.py:894-916).
THEOREM RowsHaveOutput == Calm => (Spec => []RowHasOutput)
<1> SUFFICES ASSUME Calm PROVE Spec => []RowHasOutput
    OBVIOUS
<1>1. IInv /\ RowsKept => RowHasOutput
    BY DEF RowsKept
<1> QED
    BY <1>1, RowsInv, PTL

\* Under the same conditions a job reported failed or cancelled has no row
\* (timelapse.py:918-945).
THEOREM ReportsAreTrue == Calm => (Spec => []ReportIsTrue)
<1> SUFFICES ASSUME Calm PROVE Spec => []ReportIsTrue
    OBVIOUS
<1>1. IInv /\ RowsKept => ReportIsTrue
    BY DEF RowsKept
<1> QED
    BY <1>1, RowsInv, PTL

-----------------------------------------------------------------------------
(* The list of the status endpoint *)

\* Steps that touch neither the queue nor the list, nor a waiting job's event.
LEMMA ListedFrame ==
    ASSUME ListedAsQueued, UNCHANGED <<queue, pending>>,
           \A j \in Jobs : Contains(queue, j) => events'[j] = events[j]
    PROVE  ListedAsQueued'
BY DEF ListedAsQueued

\* A request is listed when it enters the queue and unlisted when it is
\* withdrawn or leaves the queue, at its place.
LEMMA ListedNext ==
    ASSUME TypeOK, QueueInOrder, EventWhileAlive, ListedAsQueued,
           Next \/ UNCHANGED vars
    PROVE  ListedAsQueued'
<1>0. /\ queue \in Seq(Jobs) /\ pending \in Seq(Jobs)
      /\ Once(queue) /\ Once(pending)
      /\ events \in [Jobs -> {"none", "clear", "set"}]
    BY DEF TypeOK, QueueInOrder
<1>1. ASSUME NEW j \in Jobs, Enqueue(j) PROVE ListedAsQueued'
  <2>1. /\ queue' = Append(queue, j) /\ pending' = Append(pending, j)
        /\ events' = [events EXCEPT ![j] = "clear"]
      BY <1>1 DEF Enqueue
  <2>2. ~Contains(queue, j) /\ ~Contains(pending, j)
      BY <1>1 DEF Enqueue, QueueInOrder
  <2>3. /\ \A x : /\ Contains(queue', x) <=> Contains(queue, x) \/ x = j
                  /\ Contains(pending', x) <=> Contains(pending, x) \/ x = j
        /\ \A x, y :
              /\ Before(queue', x, y) <=>
                     Before(queue, x, y) \/ (Contains(queue, x) /\ y = j)
              /\ Before(pending', x, y) <=>
                     Before(pending, x, y) \/ (Contains(pending, x) /\ y = j)
      BY <1>0, <2>1, <2>2, AppendOnce
  <2>4. events'[j] = "clear" /\ \A x \in Jobs \ {j} : events'[x] = events[x]
      BY <1>0, <2>1
  <2> QED
      BY <2>3, <2>4 DEF ListedAsQueued
<1>2. ASSUME NEW j \in Jobs, CancelWaiting(j) PROVE ListedAsQueued'
  <2>1. /\ pending' = Unlisted(j) /\ queue' = queue
        /\ events'[j] = "set" /\ \A x \in Jobs \ {j} : events'[x] = events[x]
      BY <1>0, <1>2 DEF CancelWaiting, CancelSets
  <2>2. /\ \A x : Contains(pending', x) <=> Contains(pending, x) /\ x # j
        /\ \A x, y : Before(pending', x, y) => Before(pending, x, y)
      BY <2>1, UnlistedOnce DEF QueueInOrder
  <2> QED
      BY <2>1, <2>2 DEF ListedAsQueued
<1>3. ASSUME NEW j \in Jobs, CancelActive(j) PROVE ListedAsQueued'
    BY <1>0, <1>3, ListedFrame DEF CancelActive, CancelSets, QueueInOrder
<1>4. ASSUME Dequeue PROVE ListedAsQueued'
  <2> DEFINE h == Head(queue)
  <2>1. /\ h \in Jobs /\ queue' = Tail(queue)
        /\ \A x : Contains(queue', x) <=> Contains(queue, x) /\ x # h
        /\ \A x, y : Before(queue, x, y) =>
                         y # h /\ (x # h => Before(queue', x, y))
      BY <1>0, <1>4, TailOnce DEF Dequeue
  <2>2. /\ pending' = Unlisted(h)
        /\ \A x \in Jobs \ {h} : events'[x] = events[x]
      BY <1>0, <1>4 DEF Dequeue, Skip, Begin, EventPopped
  <2> HIDE DEF h
  <2>3. /\ \A x : Contains(pending', x) <=> Contains(pending, x) /\ x # h
        /\ \A x, y : Before(pending', x, y) => Before(pending, x, y)
      BY <2>2, UnlistedOnce DEF QueueInOrder
  <2>4. \A x, y : Before(pending', x, y) => Contains(pending', x)
      BY DEF Before, Contains
  <2> QED
      BY <2>1, <2>2, <2>3, <2>4 DEF ListedAsQueued
<1>5. ASSUME \/ Announced \/ StageDone \/ Spawned \/ SpawnFails \/ Encoded
             \/ TimesOut \/ Stopped \/ Probed \/ RowCommits \/ RowRefused
             \/ RowRefreshed \/ LinkRaises \/ \E j \in Jobs : FfmpegExits(j)
      PROVE  ListedAsQueued'
  <2>1. UNCHANGED renderOther
      BY <1>5 DEF Announced, StageDone, Spawned, SpawnFails, Encoded, TimesOut,
                  Stopped, Probed, RowCommits, RowRefused, RowRefreshed,
                  LinkRaises, FfmpegExits
  <2> QED
      BY <2>1, ListedFrame DEF renderOther
<1>6. ASSUME PrintLinked PROVE ListedAsQueued'
    BY <1>6, ListedFrame DEF PrintLinked
<1>7. ASSUME WorkerFinishes PROVE ListedAsQueued'
    BY <1>0, <1>7, ListedFrame DEF WorkerFinishes, EventPopped, QueueInOrder
<1>8. ASSUME Deletions PROVE ListedAsQueued'
  <2>1. UNCHANGED threadOther
      BY <1>8 DEF Deletions, DeleteTimelapses, DeletePrint, DeleteProfile,
                  DeleteFiles
  <2> QED
      BY <2>1, ListedFrame DEF threadOther
<1>9. ASSUME Restart PROVE ListedAsQueued'
    BY <1>9 DEF Restart, ListedAsQueued, Contains, Before
<1>10. ASSUME UNCHANGED vars PROVE ListedAsQueued'
    BY <1>10, ListedFrame DEF vars
<1> QED
    BY <1>1, <1>2, <1>3, <1>4, <1>5, <1>6, <1>7, <1>8, <1>9, <1>10
       DEF Next, Requests, Worker

LEMMA ListedInv == Spec => [](IInv /\ ListedAsQueued)
<1>1. Init => IInv /\ ListedAsQueued
    BY InitIInv DEF Init, ListedAsQueued, Contains, Before
<1>2. IInv /\ ListedAsQueued /\ [Next]_vars => (IInv /\ ListedAsQueued)'
    BY NextIInv, ListedNext DEF IInv
<1> QED
    BY <1>1, <1>2, PTL DEF Spec

\* The status endpoint lists the waiting requests that were not cancelled, each
\* once and in the order of the queue (generation_queue.py:119-165).
THEOREM ListIsTheQueue == Spec => []ListedAsQueued
BY ListedInv, PTL

-----------------------------------------------------------------------------
(***************************************************************************)
(* The refinement.  A request waits while it is listed, and it has ended   *)
(* once its outcome is reported, it was withdrawn, or a restart lost it.   *)
(***************************************************************************)

\* What has ended or was withdrawn waits no more; the running request has ended
\* exactly while its outcome is being reported, and was not withdrawn before.
EndsInOrder ==
    /\ \A j \in Jobs : reported[j] # "no" \/ answered[j] # "no" => j \in used
    /\ \A j \in Jobs : Contains(queue, j) => reported[j] = "no"
    /\ \A j \in Jobs : Contains(pending, j) => answered[j] = "no"
    /\ current # NoJob => /\ reported[current] = "no" <=> render.pc # "reporting"
                          /\ answered[current] # "waiting"

PromiseInv == IInv /\ ListedAsQueued /\ EndsInOrder

\* The abstract variables, by name.
Running == IF current # NoJob /\ reported[current] = "no" THEN current ELSE NoJob
Endings == [j \in Jobs |-> Ended(j)]

PromiseStep == [Promise!Next]_<<pending, Running, Endings>>

\* The steps in which nothing begins or ends.
LEMMA PromiseStutters ==
    ASSUME EndsInOrder,
           UNCHANGED <<queue, pending, current, reported, answered, used>>,
           render'.pc = "reporting" <=> render.pc = "reporting"
    PROVE  EndsInOrder' /\ PromiseStep
<1>1. EndsInOrder'
    BY DEF EndsInOrder
<1>2. \A j \in Jobs : Ended(j)' = Ended(j)
    BY DEF Ended
<1>3. UNCHANGED <<pending, Running, Endings>>
    BY <1>2 DEF Running, Endings
<1> QED
    BY <1>1, <1>3 DEF PromiseStep

\* The running request ends, in one of the four ways.
LEMMA PromiseEnds ==
    ASSUME TypeOK, QueueInOrder, EndsInOrder,
           UNCHANGED <<queue, pending, current, answered, used>>,
           render.pc \notin {"idle", "reporting"}, render'.pc = "reporting",
           NEW outcome \in {"complete", "cancelled", "failed"},
           reported' = [reported EXCEPT ![current] = outcome]
    PROVE  EndsInOrder' /\ PromiseStep
<1>1. /\ current \in Jobs /\ current # NoJob
      /\ reported \in [Jobs -> {"no", "complete", "cancelled", "failed"}]
    BY IdleFacts DEF TypeOK
<1>2. /\ reported'[current] = outcome
      /\ \A j \in Jobs \ {current} : reported'[j] = reported[j]
    BY <1>1
<1>3. EndsInOrder'
    BY <1>1, <1>2 DEF EndsInOrder, QueueInOrder
<1>4. Running = current /\ Running' = NoJob
    BY <1>1, <1>2 DEF Running, EndsInOrder
<1>5. Endings' = [Endings EXCEPT ![current] = outcome]
  <2>1. Ended(current)' = outcome
      BY <1>2 DEF Ended
  <2>2. \A j \in Jobs \ {current} : Ended(j)' = Ended(j)
      BY <1>2 DEF Ended
  <2> QED
      BY <1>1, <2>1, <2>2 DEF Endings
<1>6. Promise!End(outcome)
    BY <1>1, <1>4, <1>5 DEF Promise!End, Running, Endings
<1>7. outcome \in Promise!Ends \ {"lost"}
    BY DEF Promise!Ends
<1> QED
    BY <1>3, <1>6, <1>7 DEF PromiseStep, Promise!Next

\* A request is submitted.
LEMMA PromiseSubmits ==
    ASSUME TypeOK, QueueInOrder, EndsInOrder, NEW j \in Jobs, Enqueue(j)
    PROVE  EndsInOrder' /\ PromiseStep
<1>1. /\ j \notin used /\ used' = used \cup {j}
      /\ pending' = Append(pending, j) /\ queue' = Append(queue, j)
      /\ UNCHANGED <<current, render, reported, answered>>
    BY DEF Enqueue
<1>2. /\ ~Contains(queue, j) /\ ~Contains(pending, j) /\ current # j
      /\ reported[j] = "no" /\ answered[j] = "no"
    BY <1>1, IdleFacts DEF QueueInOrder, EndsInOrder
<1>3. /\ \A x : /\ Contains(queue', x) <=> Contains(queue, x) \/ x = j
                /\ Contains(pending', x) <=> Contains(pending, x) \/ x = j
    BY <1>1, <1>2, AppendOnce DEF TypeOK, QueueInOrder
<1>4. EndsInOrder'
    BY <1>1, <1>2, <1>3 DEF EndsInOrder
<1>5. \A x \in Jobs : Ended(x)' = Ended(x)
    BY <1>1, <1>2, <1>3 DEF Ended
<1>6. UNCHANGED <<Running, Endings>>
    BY <1>1, <1>5 DEF Running, Endings
<1>7. Ended(j) = "no" /\ Running # j
    BY <1>1, <1>2, IdleFacts DEF Ended, Running
<1>8. Promise!Submit(j)
    BY <1>1, <1>2, <1>6, <1>7 DEF Promise!Submit, Running, Endings, Contains,
                                       Promise!Contains
<1> QED
    BY <1>4, <1>8 DEF PromiseStep, Promise!Next

\* A waiting request is withdrawn.
LEMMA PromiseWithdraws ==
    ASSUME TypeOK, QueueInOrder, ListedAsQueued, EndsInOrder,
           NEW j \in Jobs, CancelWaiting(j)
    PROVE  EndsInOrder' /\ PromiseStep
<1>1. /\ Contains(pending, j) /\ pending' = Unlisted(j)
      /\ answered' = [answered EXCEPT ![j] = "waiting"]
      /\ UNCHANGED <<queue, current, render, reported, used>>
    BY DEF CancelWaiting
<1>2. /\ answered'[j] = "waiting"
      /\ \A x \in Jobs \ {j} : answered'[x] = answered[x]
    BY <1>1 DEF TypeOK
<1>3. /\ Contains(queue, j) /\ j \in used /\ j # current /\ reported[j] = "no"
    BY <1>1 DEF QueueInOrder, EndsInOrder
<1>4. /\ \A x : Contains(pending', x) <=> Contains(pending, x) /\ x # j
      /\ \E i \in 1 .. Len(pending) :
             pending[i] = j /\ pending' = RemoveAt(pending, i)
    BY <1>1, UnlistedOnce DEF QueueInOrder
<1>5. EndsInOrder'
  <2>1. current # NoJob => current \in Jobs \ {j}
      BY <1>3 DEF TypeOK
  <2> QED
      BY <1>1, <1>2, <1>3, <1>4, <2>1 DEF EndsInOrder
<1>6. Running' = Running
    BY <1>1 DEF Running
<1>7. Endings' = [Endings EXCEPT ![j] = "cancelled"]
  <2>1. Ended(j)' = "cancelled"
      BY <1>1, <1>2, <1>3 DEF Ended
  <2>2. \A x \in Jobs \ {j} : Ended(x)' = Ended(x)
      BY <1>1, <1>2, <1>4 DEF Ended
  <2> QED
      BY <2>1, <2>2 DEF Endings
<1>8. Promise!Withdraw(j)
    BY <1>4, <1>6, <1>7 DEF Promise!Withdraw, Running, Endings, RemoveAt,
                                   Promise!RemoveAt
<1> QED
    BY <1>5, <1>8 DEF PromiseStep, Promise!Next

\* The job the worker takes off the queue is the first of the list, unless it
\* was withdrawn.
LEMMA HeadIsListed ==
    ASSUME TypeOK, QueueInOrder, EventWhileAlive, ListedAsQueued,
           queue # <<>>, ~Cancelled(Head(queue))
    PROVE  /\ pending # <<>> /\ Head(pending) = Head(queue)
           /\ Unlisted(Head(queue)) = Tail(pending)
<1> DEFINE h == Head(queue)
<1>1. /\ queue \in Seq(Jobs) /\ pending \in Seq(Jobs)
      /\ h \in Jobs /\ Contains(queue, h)
      /\ \A x, y : Before(queue, x, y) => y # h
    BY TailOnce DEF TypeOK, QueueInOrder
<1> HIDE DEF h
<1>2. Contains(pending, h)
    BY <1>1 DEF EventWhileAlive, ListedAsQueued, Cancelled, TypeOK, h
<1>3. PICK k \in 1 .. Len(pending) : pending[k] = h
    BY <1>2 DEF Contains
<1>4. pending # <<>> /\ Len(pending) \in Nat /\ Head(pending) = pending[1]
    BY <1>1, <1>3, EmptySeq
<1>5. k = 1
  <2> SUFFICES ASSUME k > 1 PROVE FALSE
      BY <1>3, <1>4
  <2>1. 1 \in 1 .. Len(pending) /\ pending[1] \in Jobs
      BY <1>1, <1>3, <1>4, ElementOfSeq
  <2>2. Before(pending, pending[1], h)
      BY <1>3, <2>1 DEF Before
  <2> QED
      BY <1>1, <2>1, <2>2 DEF ListedAsQueued
<1> QED
    BY <1>3, <1>4, <1>5, UnlistedOnce DEF QueueInOrder, h

\* The worker takes the next job.
LEMMA PromiseBegins ==
    ASSUME TypeOK, QueueInOrder, EventWhileAlive, ListedAsQueued, EndsInOrder,
           Dequeue
    PROVE  EndsInOrder' /\ PromiseStep
<1>0. PICK h \in Jobs : h = Head(queue)
    BY TailOnce DEF Dequeue, TypeOK, QueueInOrder
<1>1. /\ Contains(queue, h)
      /\ \A x : Contains(queue', x) <=> Contains(queue, x) /\ x # h
    BY <1>0, TailOnce DEF Dequeue, TypeOK, QueueInOrder
<1>2. /\ current = NoJob /\ render.pc = "idle" /\ queue # <<>>
      /\ UNCHANGED <<used, answered>>
    BY DEF Dequeue, TypeOK, loopOther
<1>3. h \in used /\ reported[h] = "no"
    BY <1>1 DEF QueueInOrder, EndsInOrder
<1>4. CASE Skip(h)
  <2>1. /\ UNCHANGED <<current, reported, render>>
        /\ pending' = Unlisted(h) /\ ~Contains(pending, h)
      BY <1>1, <1>4 DEF Skip, Cancelled, ListedAsQueued
  <2>2. pending' = pending
      BY <2>1 DEF Unlisted
  <2>3. EndsInOrder'
      BY <1>1, <1>2, <2>1, <2>2 DEF EndsInOrder
  <2>4. \A x \in Jobs : Ended(x)' = Ended(x)
      BY <1>2, <2>1, <2>2 DEF Ended
  <2>5. UNCHANGED <<pending, Running, Endings>>
      BY <2>1, <2>2, <2>4 DEF Running, Endings
  <2> QED
      BY <2>3, <2>5 DEF PromiseStep
<1>5. CASE Begin(h)
  <2>1. /\ ~Cancelled(h) /\ current' = h /\ pending' = Unlisted(h)
        /\ \/ reported' = reported /\ render'.pc \in {"announcing", "frames"}
           \/ /\ reported' = [reported EXCEPT ![h] = "failed"]
              /\ render'.pc = "reporting"
      BY <1>5 DEF Begin, EndsWith
  <2>2. /\ pending # <<>> /\ Head(pending) = h /\ pending' = Tail(pending)
        /\ Contains(pending, h)
      BY <1>0, <1>1, <1>2, <2>1, HeadIsListed
         DEF EventWhileAlive, ListedAsQueued, Cancelled, TypeOK
  <2>3. /\ \A x : Contains(pending', x) <=> Contains(pending, x) /\ x # h
        /\ h # NoJob /\ answered[h] = "no"
    <3>1. \A x : Contains(Unlisted(h), x) <=> Contains(pending, x) /\ x # h
        BY UnlistedOnce DEF QueueInOrder
    <3>2. pending' = Unlisted(h)
        BY <2>1
    <3>3. h # NoJob /\ answered[h] = "no"
        BY <2>2, IdleFacts DEF EndsInOrder
    <3> QED
        BY <3>1, <3>2, <3>3
  <2>4. \A x \in Jobs \ {h} : reported'[x] = reported[x]
      BY <2>1 DEF TypeOK
  <2>5. /\ reported'[h] = "no" \/ reported'[h] = "failed"
        /\ reported'[h] = "no" <=> render'.pc # "reporting"
        /\ reported'[h] = "no" => reported' = reported
      BY <1>1, <1>3, <2>1 DEF TypeOK
  <2>6. EndsInOrder'
      BY <1>1, <1>2, <1>3, <2>1, <2>3, <2>4, <2>5 DEF EndsInOrder
  <2>7. Running = NoJob /\ Running' = IF reported'[h] = "no" THEN h ELSE NoJob
      BY <1>2, <2>1, <2>3 DEF Running
  <2>8. \A x \in Jobs \ {h} : Ended(x)' = Ended(x)
      BY <1>2, <2>1, <2>3, <2>4, IdleFacts DEF Ended
  <2>9. Ended(h) = "no" /\ Ended(h)' = reported'[h]
      BY <1>2, <1>3, <2>1, <2>2, <2>3, <2>5 DEF Ended
  <2>10. CASE reported'[h] = "no"
    <3>1. Running' = h /\ Endings' = Endings
        BY <2>7, <2>8, <2>9, <2>10 DEF Endings
    <3>2. Promise!Begin
        BY <2>2, <2>7, <3>1 DEF Promise!Begin, Running, Endings
    <3> QED
        BY <2>6, <3>2 DEF PromiseStep, Promise!Next
  <2>11. CASE reported'[h] = "failed"
    <3>1. /\ Running' = Running
          /\ Endings' = [Endings EXCEPT ![h] = "failed"]
        BY <2>7, <2>8, <2>9, <2>11 DEF Endings
    <3>2. Promise!BeginAndFail
        BY <2>2, <2>7, <3>1 DEF Promise!BeginAndFail, Running, Endings
    <3> QED
        BY <2>6, <3>2 DEF PromiseStep, Promise!Next
  <2> QED
      BY <2>5, <2>10, <2>11
<1> QED
    BY <1>0, <1>4, <1>5 DEF Dequeue

\* A restart loses what waits and what runs.
LEMMA PromiseLoses ==
    ASSUME TypeOK, QueueInOrder, ListedAsQueued, EndsInOrder, Restart
    PROVE  EndsInOrder' /\ PromiseStep
<1>1. /\ queue' = <<>> /\ pending' = <<>> /\ current' = NoJob
      /\ UNCHANGED <<used, reported, answered>>
    BY DEF Restart
<1>2. \A x : ~Contains(<<>>, x)
    BY DEF Contains
<1>3. EndsInOrder'
    BY <1>1, <1>2 DEF EndsInOrder
<1>4. Running' = NoJob
    BY <1>1 DEF Running
<1>5. \A j \in Jobs : Ended(j)' = IF j = Running \/ Contains(pending, j)
                                  THEN "lost" ELSE Ended(j)
  <2> SUFFICES ASSUME NEW j \in Jobs
               PROVE  Ended(j)' = IF j = Running \/ Contains(pending, j)
                                  THEN "lost" ELSE Ended(j)
      OBVIOUS
  <2>1. j # NoJob
      BY IdleFacts
  <2>2. CASE j = Running
    <3>1. j = current /\ reported[j] = "no" /\ answered[j] # "waiting"
          /\ j \in used
        BY <2>1, <2>2 DEF Running, EndsInOrder, QueueInOrder
    <3> QED
        BY <1>1, <1>2, <2>1, <2>2, <3>1 DEF Ended
  <2>3. CASE Contains(pending, j)
    <3>1. reported[j] = "no" /\ answered[j] = "no" /\ j \in used
        BY <2>3 DEF EndsInOrder, QueueInOrder
    <3> QED
        BY <1>1, <1>2, <2>1, <2>3, <3>1 DEF Ended
  <2>4. CASE j # Running /\ ~Contains(pending, j)
    <3>1. j = current => reported[j] # "no"
        BY <2>1, <2>4 DEF Running
    <3> QED
        BY <1>1, <1>2, <2>1, <2>4, <3>1 DEF Ended
  <2> QED
      BY <2>2, <2>3, <2>4
<1>6. Endings' = [j \in Jobs |-> IF j = Running \/ Contains(pending, j)
                                 THEN "lost" ELSE Endings[j]]
    BY <1>5 DEF Endings
<1>7. Promise!Lose
    BY <1>1, <1>4, <1>6 DEF Promise!Lose, Running, Endings, Contains,
                                   Promise!Contains
<1> QED
    BY <1>3, <1>7 DEF PromiseStep, Promise!Next

\* Every step of the queue is a step of its promise, or none.
LEMMA PromiseNext ==
    ASSUME TypeOK, QueueInOrder, EventWhileAlive, ListedAsQueued, EndsInOrder,
           Next \/ UNCHANGED vars
    PROVE  EndsInOrder' /\ PromiseStep
<1>1. ASSUME NEW j \in Jobs, CancelActive(j) PROVE EndsInOrder' /\ PromiseStep
  <2>1. /\ ~Contains(pending, j) /\ current = j /\ answered[j] = "no"
        /\ UNCHANGED <<queue, pending, current, render, reported, used>>
        /\ answered'[j] \in {"rendering", "late"}
        /\ \A x \in Jobs \ {j} : answered'[x] = answered[x]
      BY <1>1 DEF CancelActive, TypeOK
  <2>2. j \in used /\ j # NoJob
      BY <2>1, IdleFacts DEF QueueInOrder
  <2>3. EndsInOrder'
      BY <2>1, <2>2 DEF EndsInOrder
  <2>4. \A x \in Jobs : Ended(x)' = Ended(x)
      BY <2>1 DEF Ended
  <2>5. UNCHANGED <<pending, Running, Endings>>
      BY <2>1, <2>4 DEF Running, Endings
  <2> QED
      BY <2>3, <2>5 DEF PromiseStep
<1>2. ASSUME \/ Announced \/ StageDone \/ Spawned \/ SpawnFails \/ Encoded
             \/ TimesOut \/ Stopped \/ Probed \/ RowCommits \/ RowRefused
             \/ RowRefreshed \/ LinkRaises \/ \E j \in Jobs : FfmpegExits(j)
      PROVE  EndsInOrder' /\ PromiseStep
  <2>1. UNCHANGED <<queue, pending, current, answered, used>>
      BY <1>2 DEF Announced, StageDone, Spawned, SpawnFails, Encoded, TimesOut,
                  Stopped, Probed, RowCommits, RowRefused, RowRefreshed,
                  LinkRaises, FfmpegExits, renderOther, loopOther
  <2>2. \/ reported' = reported /\ (render'.pc = "reporting" <=> render.pc = "reporting")
        \/ /\ render.pc \notin {"idle", "reporting"} /\ render'.pc = "reporting"
           /\ \E outcome \in {"complete", "cancelled", "failed"} :
                  reported' = [reported EXCEPT ![current] = outcome]
      BY <1>2 DEF Announced, StageDone, Spawned, SpawnFails, Encoded, TimesOut,
                  Stopped, Probed, RowCommits, RowRefused, RowRefreshed,
                  LinkRaises, FfmpegExits, GoesTo, EndsWith
  <2> QED
      BY <2>1, <2>2, PromiseStutters, PromiseEnds
<1>3. ASSUME PrintLinked PROVE EndsInOrder' /\ PromiseStep
    BY <1>3, PromiseEnds DEF PrintLinked, loopOther
<1>4. ASSUME WorkerFinishes PROVE EndsInOrder' /\ PromiseStep
  <2>1. /\ render.pc = "reporting" /\ current' = NoJob /\ current # NoJob
        /\ UNCHANGED <<queue, pending, reported, answered, used>>
      BY <1>4 DEF WorkerFinishes, loopOther, TypeOK
  <2>2. reported[current] # "no"
      BY <2>1 DEF EndsInOrder
  <2>3. EndsInOrder'
      BY <2>1 DEF EndsInOrder
  <2>4. \A x \in Jobs : Ended(x)' = Ended(x)
      BY <2>1, <2>2, IdleFacts DEF Ended
  <2>5. UNCHANGED <<pending, Running, Endings>>
      BY <2>1, <2>2, <2>4 DEF Running, Endings
  <2> QED
      BY <2>3, <2>5 DEF PromiseStep
<1>5. ASSUME Deletions PROVE EndsInOrder' /\ PromiseStep
  <2>1. UNCHANGED threadOther
      BY <1>5 DEF Deletions, DeleteTimelapses, DeletePrint, DeleteProfile,
                  DeleteFiles
  <2> QED
      BY <2>1, PromiseStutters DEF threadOther
<1>6. ASSUME UNCHANGED vars PROVE EndsInOrder' /\ PromiseStep
    BY <1>6, PromiseStutters DEF vars
<1> QED
    BY <1>1, <1>2, <1>3, <1>4, <1>5, <1>6, PromiseSubmits, PromiseWithdraws,
       PromiseBegins, PromiseLoses
       DEF Next, Requests, Worker

\* The queue implements RenderRequests: one render at a time in the order of the
\* requests, each request ended once, none run that was withdrawn while it
\* waited, and nothing lost but by a restart (generation_queue.py:102-171).
THEOREM QueueKeepsPromise == Spec => KeepsPromise
<1>1. Init => PromiseInv /\ Promise!Init
  <2> SUFFICES ASSUME Init PROVE PromiseInv /\ Promise!Init
      OBVIOUS
  <2>1. \A x : ~Contains(<<>>, x)
      BY DEF Contains
  <2>2. PromiseInv
      BY <2>1, InitIInv
         DEF Init, PromiseInv, ListedAsQueued, EndsInOrder, Before
  <2>3. Running = NoJob /\ Endings = [j \in Jobs |-> "no"]
      BY <2>1 DEF Init, Running, Endings, Ended
  <2> QED
      BY <2>2, <2>3 DEF Init, Promise!Init, Running, Endings
<1>2. PromiseInv /\ [Next]_vars => PromiseInv' /\ [Promise!Next]_Promise!vars
  <2> SUFFICES ASSUME PromiseInv, Next \/ UNCHANGED vars
               PROVE  PromiseInv' /\ [Promise!Next]_Promise!vars
      OBVIOUS
  <2>1. PromiseInv' /\ PromiseStep
      BY NextIInv, ListedNext, PromiseNext DEF PromiseInv, IInv
  <2> QED
      BY <2>1 DEF PromiseStep, Promise!vars, Running, Endings
<1> QED
    BY <1>1, <1>2, PTL DEF Spec, KeepsPromise, Promise!Spec
=============================================================================
