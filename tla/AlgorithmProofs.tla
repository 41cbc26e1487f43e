-------------------------- MODULE AlgorithmProofs --------------------------
(***************************************************************************)
(* What the algorithms compute, for inputs of every length: the grid of    *)
(* the capture job, the days of a schedule, the image in a stream cut into *)
(* chunks, and the blended images.  Each is modelled as a process that     *)
(* takes its input step by step, so that what it computes in the end       *)
(* follows from an invariant of the steps.                                 *)
(***************************************************************************)
EXTENDS CaptureClock, CronDays, MjpegReader, MotionBlur,
        FiniteSetTheorems, SequenceTheorems, WellFoundedInduction, TLAPS

-----------------------------------------------------------------------------
(***************************************************************************)
(* The capture job. The invariant: the next run lies ahead and near; if    *)
(* the grid is one it is on it, and every tick of the grid inside the      *)
(* window up to then is a frame, or one no run is scheduled for.           *)
(***************************************************************************)

\* The library states nothing of division by a variable.
LEMMA Quotient ==
  ASSUME NEW a \in Int, NEW e \in Nat \ {0}
  PROVE  /\ a \div e \in Int /\ a % e \in 0 .. e - 1
         /\ a = (a \div e) * e + (a % e)
  <1>1. a \div e \in Int /\ a % e \in 0 .. e - 1
    OBVIOUS
  <1>2. a = e * (a \div e) + (a % e)
    BY Z3
  <1>3. e * (a \div e) = (a \div e) * e
    BY <1>1
  <1> QED
    BY <1>1, <1>2, <1>3

\* Products with one factor in common are that factor apart.
LEMMA FarApart ==
  ASSUME NEW m \in Int, NEW n \in Int, NEW e \in Nat \ {0}, m < n
  PROVE  m * e + e <= n * e
  <1>1. n - m - 1 \in Nat
    OBVIOUS
  <1>2. (n - m - 1) * e >= 0
    BY <1>1
  <1>3. (n - m - 1) * e = n * e - m * e - e
    OBVIOUS
  <1> QED
    BY <1>2, <1>3

\* A remainder of zero, as a witness the prover can calculate with
Multiple(a, e) == \E q \in Int : a = q * e

LEMMA MultipleIsMod ==
  ASSUME NEW a \in Int, NEW e \in Nat \ {0}
  PROVE  Multiple(a, e) <=> a % e = 0
  <1>1. /\ a \div e \in Int /\ a % e \in 0 .. e - 1
        /\ a = (a \div e) * e + (a % e)
    BY Quotient
  <1>2. ASSUME a % e = 0  PROVE Multiple(a, e)
    BY <1>1, <1>2 DEF Multiple
  <1>3. ASSUME Multiple(a, e)  PROVE a % e = 0
    <2>1. PICK q \in Int : a = q * e
      BY <1>3 DEF Multiple
    <2>2. PICK d \in Int, r \in 0 .. e - 1 : r = a % e /\ a = d * e + r
      BY Zenon, <1>1
    <2>3. CASE q < d
      BY <2>1, <2>2, <2>3, FarApart
    <2>4. CASE d < q
      <3>1. d * e + e <= q * e
        BY <2>4, FarApart
      <3>2. d * e \in Int /\ q * e \in Int
        OBVIOUS
      <3> QED
        BY <2>1, <2>2, <3>1, <3>2
    <2>5. CASE q = d
      <3>1. d * e \in Int
        OBVIOUS
      <3> QED
        BY <2>1, <2>2, <2>5, <3>1
    <2> QED
      BY <2>3, <2>4, <2>5
  <1> QED
    BY <1>2, <1>3

LEMMA MultiplesAdd ==
  ASSUME NEW a \in Int, NEW b \in Int, NEW e \in Int, Multiple(a, e), Multiple(b, e)
  PROVE  Multiple(a + b, e) /\ Multiple(a - b, e)
  <1>1. PICK p \in Int : a = p * e
    BY DEF Multiple
  <1>2. PICK q \in Int : b = q * e
    BY DEF Multiple
  <1>3. (p + q) * e = a + b /\ (p - q) * e = a - b
    BY <1>1, <1>2
  <1>4. p + q \in Int /\ p - q \in Int
    OBVIOUS
  <1> QED
    BY <1>3, <1>4 DEF Multiple

LEMMA MultipleOfMultiple ==
  ASSUME NEW a \in Int, NEW b \in Int, NEW e \in Int, Multiple(a, b), Multiple(b, e)
  PROVE  Multiple(a, e)
  <1>1. PICK p \in Int : a = p * b
    BY DEF Multiple
  <1>2. PICK q \in Int : b = q * e
    BY DEF Multiple
  <1>3. a = (p * q) * e
    BY <1>1, <1>2
  <1>4. p * q \in Int
    OBVIOUS
  <1> QED
    BY <1>3, <1>4 DEF Multiple

\* Two multiples less than e apart are one.
LEMMA MultiplesApart ==
  ASSUME NEW a \in Int, NEW b \in Int, NEW e \in Nat \ {0},
         Multiple(a, e), Multiple(b, e), a < b
  PROVE  a + e <= b
  <1>1. PICK p \in Int : a = p * e
    BY DEF Multiple
  <1>2. PICK q \in Int : b = q * e
    BY DEF Multiple
  <1>3. CASE p < q
    BY <1>1, <1>2, <1>3, FarApart
  <1>4. CASE q < p
    <2>1. q * e + e <= p * e
      BY <1>4, FarApart
    <2> QED
      BY <1>1, <1>2, <2>1
  <1>5. CASE p = q
    BY <1>1, <1>2, <1>5
  <1> QED
    BY <1>3, <1>4, <1>5

-----------------------------------------------------------------------------

LEMMA PlanTypes ==
  ASSUME NEW p \in Plans
  PROVE  /\ p.every \in Nat \ {0} /\ p.opening \in Nat
         /\ Steady(p) /\ p.mode = "manual" => Multiple(DaySlots, p.every)
         /\ Steady(p) /\ p.mode # "manual" => Multiple(HourSlots, p.every)
         /\ p.mode # "manual" => p.opening = 0
         /\ p.mode = "manual" => \E closing \in 0 .. DaySlots - 1 :
                                     p.windows = {<<p.opening, closing>>}
  <1> USE CaptureClockAssumption
  <1>1. p.every \in Paces
    BY DEF Plans
  <1>2. p.every \in Nat \ {0}
    BY <1>1
  <1>3. Steady(p) /\ p.mode = "manual" => Multiple(DaySlots, p.every)
    BY <1>2, MultipleIsMod DEF Steady
  <1>4. Steady(p) /\ p.mode # "manual" => Multiple(HourSlots, p.every)
    BY <1>2, MultipleIsMod DEF Steady
  <1>6. p.mode # "manual" => p.opening = 0
    BY DEF Plans
  <1>7. ASSUME p.mode = "manual"
        PROVE  \E w \in ManualWindows : p.opening = w[1] /\ p.windows = {w}
    BY <1>7 DEF Plans
  <1>8. ASSUME p.mode = "manual"
        PROVE  /\ p.opening \in Nat
               /\ \E closing \in 0 .. DaySlots - 1 : p.windows = {<<p.opening, closing>>}
    <2>1. PICK w \in (0 .. DaySlots - 1) \X (0 .. DaySlots - 1) :
              p.opening = w[1] /\ p.windows = {w}
      BY <1>7, <1>8
    <2>2. w = <<w[1], w[2]>> /\ w[1] \in 0 .. DaySlots - 1 /\ w[2] \in 0 .. DaySlots - 1
      BY <2>1
    <2> QED
      BY <2>1, <2>2
  <1> QED
    BY <1>2, <1>3, <1>4, <1>6, <1>8

\* A tick of the grid of a plan
OnTick(p, t) == (t - p.opening) % p.every = 0

\* The next run lies ahead, but no further than an interval or today's opening;
\* for a grid that is one it lies on it, and the ticks before it that fall in
\* the window are those the job defers.
LEMMA StartsOnTheGrid ==
  ASSUME NEW p \in Plans, NEW now \in Nat
  PROVE  /\ StartDate(p, now) \in Nat /\ StartDate(p, now) > now
         /\ \/ StartDate(p, now) <= now + p.every
            \/ p.mode = "manual" /\ StartDate(p, now) = Midnight(now) + p.opening
         /\ Defers(p, now) \subseteq now + 1 .. StartDate(p, now) - 1
         /\ Steady(p) =>
              /\ OnTick(p, StartDate(p, now))
              /\ \A t \in now + 1 .. StartDate(p, now) - 1 :
                     OnTick(p, t) /\ Within(p, t) => t \in Defers(p, now)
  <1> USE CaptureClockAssumption
  <1> DEFINE e == p.every
             anchor == IF p.mode = "manual" THEN Midnight(now) + p.opening
                       ELSE now - (now % HourSlots)
             start == StartDate(p, now)
  <1>1. /\ e \in Nat \ {0} /\ p.opening \in Nat
        /\ Steady(p) /\ p.mode = "manual" => Multiple(DaySlots, e)
        /\ Steady(p) /\ p.mode # "manual" => Multiple(HourSlots, e)
        /\ p.mode # "manual" => p.opening = 0
    BY PlanTypes
  <1>2. /\ Midnight(now) \in Nat /\ Multiple(Midnight(now), DaySlots)
        /\ Midnight(now) <= now /\ now < Midnight(now) + DaySlots
        /\ now - (now % HourSlots) \in Nat /\ Multiple(now - (now % HourSlots), HourSlots)
        /\ now - (now % HourSlots) <= now
    <2>1. \A b \in Nat \ {0} : /\ now - (now % b) \in Nat
                               /\ Multiple(now - (now % b), b)
                               /\ now - (now % b) <= now
                               /\ now < (now - (now % b)) + b
      <3> SUFFICES ASSUME NEW b \in Nat \ {0}
                   PROVE  /\ now - (now % b) \in Nat
                          /\ Multiple(now - (now % b), b)
                          /\ now - (now % b) <= now
                          /\ now < (now - (now % b)) + b
        OBVIOUS
      <3>1. PICK d \in Int, r \in 0 .. b - 1 : r = now % b /\ now = d * b + r
        <4>1. /\ now \div b \in Int /\ now % b \in 0 .. b - 1
              /\ now = (now \div b) * b + (now % b)
          BY Quotient
        <4> QED
          BY Zenon, <4>1
      <3>2. now - r = d * b
        BY <3>1
      <3>3. d \in Nat
        <4>1. CASE d < 0
          <5>1. d * b + b <= 0 * b
            BY <4>1, FarApart
          <5>2. d * b \in Int /\ 0 * b = 0
            OBVIOUS
          <5> QED
            BY <3>1, <5>1, <5>2
        <4> QED
          BY <4>1
      <3>4. d * b \in Nat
        BY <3>3
      <3>5. Multiple(now - r, b)
        BY <3>1, <3>2 DEF Multiple
      <3>6. now - r \in Nat /\ now - r <= now /\ now < (now - r) + b
        BY <3>1, <3>2, <3>4
      <3> QED
        BY <3>1, <3>5, <3>6
    <2> QED
      BY <2>1 DEF Midnight
  <1>3. anchor \in Nat /\ (Steady(p) => Multiple(anchor - p.opening, e))
    <2>1. CASE p.mode = "manual"
      <3>1. anchor - p.opening = Midnight(now)
        BY <1>1, <1>2, <2>1
      <3>2. Steady(p) => Multiple(Midnight(now), e)
        BY <1>1, <1>2, <2>1, MultipleOfMultiple
      <3> QED
        BY <1>1, <1>2, <2>1, <3>1, <3>2
    <2>2. CASE p.mode # "manual"
      <3>1. anchor - p.opening = now - (now % HourSlots)
        BY <1>1, <1>2, <2>2
      <3>2. Steady(p) => Multiple(now - (now % HourSlots), e)
        BY <1>1, <1>2, <2>2, MultipleOfMultiple
      <3> QED
        BY <1>1, <1>2, <2>2, <3>1, <3>2
    <2> QED
      BY <2>1, <2>2
  <1>4. start = IF anchor > now THEN anchor
                ELSE anchor + ((now - anchor) \div e + 1) * e
    BY DEF StartDate
  <1> HIDE DEF start, anchor, e
  <1>5. /\ start \in Nat /\ start > now
        /\ Steady(p) => Multiple(start - p.opening, e)
        /\ anchor <= now => start <= now + e
    <2>1. CASE anchor > now
      BY <1>3, <1>4, <2>1
    <2>2. CASE anchor <= now
      <3>1. PICK d \in Int, r \in 0 .. e - 1 :
                d = (now - anchor) \div e /\ now - anchor = d * e + r
        <4>1. now - anchor \in Int
          BY <1>3
        <4>2. /\ (now - anchor) \div e \in Int /\ (now - anchor) % e \in 0 .. e - 1
              /\ now - anchor = ((now - anchor) \div e) * e + ((now - anchor) % e)
          BY <1>1, <4>1, Quotient
        <4> QED
          BY Zenon, <4>2
      <3>2. start = anchor + (d + 1) * e
        BY <1>3, <1>4, <2>2, <3>1
      <3>3. (d + 1) * e = d * e + e /\ d * e \in Int
        BY <1>1
      <3>4. start = (now - r) + e
        BY <1>1, <1>3, <3>1, <3>2, <3>3
      <3>5. Multiple((d + 1) * e, e)
        BY DEF Multiple
      <3>6. Steady(p) => Multiple((anchor - p.opening) + (d + 1) * e, e)
        <4>1. (d + 1) * e \in Int /\ anchor - p.opening \in Int /\ e \in Int
          BY <1>1, <1>3
        <4> QED
          BY <1>3, <3>5, <4>1, MultiplesAdd
      <3>7. (anchor - p.opening) + (d + 1) * e = start - p.opening
        BY <1>1, <1>3, <3>2, <3>3
      <3> QED
        BY <1>1, <3>1, <3>4, <3>6, <3>7
    <2> QED
      BY <1>3, <2>1, <2>2
  <1>6. Steady(p) => OnTick(p, start)
    <2>1. start - p.opening \in Int
      BY <1>1, <1>5
    <2> QED
      BY <1>1, <1>5, <2>1, MultipleIsMod DEF OnTick, e
  <1>7. Defers(p, now) \subseteq now + 1 .. start - 1
    BY DEF Defers, start
  <1>8. ASSUME Steady(p), NEW t \in now + 1 .. start - 1, OnTick(p, t), Within(p, t)
        PROVE  t \in Defers(p, now)
    <2>1. t \in Int /\ now < t /\ t < start
      BY <1>5
    <2>2. anchor > now
      <3> SUFFICES ASSUME anchor <= now  PROVE FALSE
        BY <1>3
      <3>1. Multiple(t - p.opening, e)
        <4>1. t - p.opening \in Int
          BY <1>1, <2>1
        <4> QED
          BY <1>1, <1>8, <4>1, MultipleIsMod DEF OnTick, e
      <3>2. (t - p.opening) + e <= start - p.opening
        <4>1. t - p.opening \in Int /\ start - p.opening \in Int
               /\ t - p.opening < start - p.opening
          BY <1>1, <1>5, <2>1
        <4> QED
          BY <1>1, <1>5, <1>8, <3>1, <4>1, MultiplesApart
      <3> QED
        BY <1>1, <1>5, <2>1, <3>2
    <2>3. p.mode = "manual" /\ start = Midnight(now) + p.opening
      <3>1. start = anchor
        BY <1>4, <2>2
      <3> QED
        BY <1>2, <1>3, <2>2, <3>1 DEF anchor
    <2>4. PICK closing \in 0 .. DaySlots - 1 : p.windows = {<<p.opening, closing>>}
      BY <2>3, PlanTypes
    <2>5. p.opening \in 0 .. DaySlots - 1
      BY <2>3 DEF Plans
    <2>6. PICK m \in Nat : m = Midnight(now)
      BY <1>2
    <2>7. now % DaySlots = now - m
      BY <2>6 DEF Midnight
    <2>8. t % DaySlots = t - m
      <3>1. PICK q \in Int : m = q * DaySlots
        BY <1>2, <2>6 DEF Multiple
      <3>2. PICK d \in Int, r \in 0 .. DaySlots - 1 :
                r = t % DaySlots /\ t = d * DaySlots + r
        <4>1. /\ t \div DaySlots \in Int /\ t % DaySlots \in 0 .. DaySlots - 1
              /\ t = (t \div DaySlots) * DaySlots + (t % DaySlots)
          BY <2>1, Quotient
        <4> QED
          BY Zenon, <4>1
      <3>3. m <= t /\ t < m + DaySlots
        BY <1>2, <2>1, <2>3, <2>5, <2>6
      <3>4. CASE d < q
        <4>1. d * DaySlots + DaySlots <= q * DaySlots
          BY <3>4, FarApart
        <4> QED
          BY <2>1, <3>1, <3>2, <3>3, <4>1
      <3>5. CASE q < d
        <4>1. q * DaySlots + DaySlots <= d * DaySlots
          BY <3>5, FarApart
        <4> QED
          BY <2>1, <3>1, <3>2, <3>3, <4>1
      <3>6. CASE q = d
        BY <2>1, <3>1, <3>2, <3>6
      <3> QED
        BY <3>4, <3>5, <3>6
    <2>9. Inside(<<p.opening, closing>>, t - m)
      BY <1>8, <2>4, <2>8 DEF Within
    <2>10. Inside(<<p.opening, closing>>, now - m)
      BY <1>2, <2>1, <2>3, <2>5, <2>6, <2>9 DEF Inside
    <2>11. Within(p, now)
      BY <2>4, <2>7, <2>10 DEF Within
    <2> QED
      BY <1>8, <2>3, <2>11 DEF Defers, start
  <1>9. start <= now + e \/ (p.mode = "manual" /\ start = Midnight(now) + p.opening)
    <2>1. CASE anchor > now
      <3>1. start = anchor /\ p.mode = "manual"
        BY <1>2, <1>4, <2>1 DEF anchor
      <3> QED
        BY <3>1 DEF anchor
    <2>2. CASE ~(anchor > now)
      BY <1>3, <1>5, <2>2
    <2> QED
      BY <2>1, <2>2
  <1> QED
    BY <1>5, <1>6, <1>7, <1>8, <1>9 DEF start, e

-----------------------------------------------------------------------------

ClockTypes ==
    /\ time \in Nat /\ plan \in Plans /\ nextRun \in Nat
    /\ frames \subseteq Nat /\ deferred \subseteq Nat

NoJobYet == nextRun = 0 => time = 0 /\ frames = {}

\* The job runs next at a time that has not come yet and is near; on a grid that
\* is one it is a tick, and the ticks before it are outside the window or are
\* known not to be taken.
RunIsNext ==
    nextRun > 0 =>
        /\ nextRun > time /\ Near(nextRun)
        /\ Steady(plan) =>
             /\ OnTick(plan, nextRun)
             /\ \A t \in time + 1 .. nextRun - 1 :
                    OnTick(plan, t) /\ Within(plan, t) => t \in deferred

FramesAreTicks ==
    \A t \in frames :
        t \in 1 .. time /\ Within(plan, t) /\ (Steady(plan) => OnTick(plan, t))

TicksAreFrames ==
    Steady(plan) => \A t \in 1 .. time :
        OnTick(plan, t) /\ Within(plan, t) => t \in frames \cup deferred

ClockInv ==
    /\ ClockTypes
    /\ NoJobYet
    /\ RunIsNext
    /\ FramesAreTicks
    /\ TicksAreFrames

LEMMA InitClock == ClockInit => ClockInv
  <1> SUFFICES ASSUME ClockInit  PROVE ClockInv
    OBVIOUS
  <1>1. \E p \in Plans : p.mode = "always"
    <2>1. PICK i \in Paces : TRUE
      BY CaptureClockAssumption
    <2>2. [mode |-> "always", opening |-> 0, windows |-> {Always}, every |-> i] \in Plans
      BY <2>1 DEF Plans
    <2> QED
      BY <2>2
  <1>2. plan \in Plans
    BY <1>1 DEF ClockInit
  <1> QED
    BY <1>2
       DEF ClockInit, ClockInv, ClockTypes, NoJobYet, RunIsNext, FramesAreTicks,
           TicksAreFrames

\* Up to the opening it is still the same day.
LEMMA SameDay ==
  ASSUME NEW t \in Nat, NEW p \in Plans, p.mode = "manual",
         t + 1 < Midnight(t) + p.opening
  PROVE  Midnight(t + 1) = Midnight(t)
  <1> USE CaptureClockAssumption
  <1>1. p.opening \in 0 .. DaySlots - 1
    BY DEF Plans
  <1>2. PICK d \in Int, r \in 0 .. DaySlots - 1 :
            r = t % DaySlots /\ t = d * DaySlots + r
    <2>0. t \in Int /\ DaySlots \in Nat \ {0}
      OBVIOUS
    <2>1. /\ t \div DaySlots \in Int /\ t % DaySlots \in 0 .. DaySlots - 1
          /\ t = (t \div DaySlots) * DaySlots + (t % DaySlots)
      BY <2>0, Quotient
    <2> QED
      BY Zenon, <2>1
  <1>3. PICK c \in Int, q \in 0 .. DaySlots - 1 :
            q = (t + 1) % DaySlots /\ t + 1 = c * DaySlots + q
    <2>1. /\ (t + 1) \div DaySlots \in Int /\ (t + 1) % DaySlots \in 0 .. DaySlots - 1
          /\ t + 1 = ((t + 1) \div DaySlots) * DaySlots + ((t + 1) % DaySlots)
      BY Quotient
    <2> QED
      BY Zenon, <2>1
  <1>4. Midnight(t) = d * DaySlots /\ Midnight(t + 1) = c * DaySlots
    <2>1. d * DaySlots \in Int /\ c * DaySlots \in Int
      OBVIOUS
    <2>2. t - r = d * DaySlots /\ (t + 1) - q = c * DaySlots
      BY <1>2, <1>3, <2>1
    <2> QED
      BY <1>2, <1>3, <2>2 DEF Midnight
  <1>5. t + 1 < d * DaySlots + DaySlots /\ d * DaySlots \in Int /\ c * DaySlots \in Int
    BY <1>1, <1>2, <1>4
  <1>6. CASE d < c
    BY <1>3, <1>5, <1>6, FarApart
  <1>7. CASE c < d
    BY <1>2, <1>3, <1>5, <1>7, FarApart
  <1> QED
    BY <1>4, <1>6, <1>7

LEMMA NextClock == ClockInv /\ [ClockNext]_clockVars => ClockInv'
  <1> SUFFICES ASSUME ClockInv, [ClockNext]_clockVars  PROVE ClockInv'
    OBVIOUS
  <1> USE CaptureClockAssumption
  <1>1. CASE JobCreated
    <2>1. PICK p \in Plans, now \in 0 .. DaySlots - 1 :
              /\ plan' = p /\ time' = now
              /\ nextRun' = StartDate(p, now)
              /\ deferred' = (0 .. now) \cup Defers(p, now)
              /\ frames' = frames /\ nextRun = 0
      BY <1>1 DEF JobCreated
    <2>2. now \in Nat /\ frames' = {}
      BY <2>1 DEF ClockInv, NoJobYet
    <2>3. /\ nextRun' \in Nat /\ nextRun' > now
          /\ \/ nextRun' <= now + p.every
             \/ p.mode = "manual" /\ nextRun' = Midnight(now) + p.opening
          /\ Defers(p, now) \subseteq now + 1 .. nextRun' - 1
          /\ Steady(p) =>
                /\ OnTick(p, nextRun')
                /\ \A t \in now + 1 .. nextRun' - 1 :
                       OnTick(p, t) /\ Within(p, t) => t \in Defers(p, now)
      BY <2>1, <2>2, StartsOnTheGrid
    <2>4. deferred' \subseteq Nat
      <3>1. \A t \in now + 1 .. nextRun' - 1 : t \in Nat
        BY <2>2, <2>3
      <3>2. \A t \in Defers(p, now) : t \in Nat
        BY <2>3, <3>1
      <3> QED
        BY <2>1, <2>2, <3>2
    <2>5. RunIsNext'
      BY <2>1, <2>3 DEF RunIsNext, OnTick, Within, Steady, Near, Midnight
    <2>6. TicksAreFrames'
      BY <2>1, <2>2 DEF TicksAreFrames
    <2> QED
      BY <2>1, <2>2, <2>3, <2>4, <2>5, <2>6
         DEF ClockInv, ClockTypes, NoJobYet, FramesAreTicks
  <1>2. CASE ClockRuns
    <2>1. /\ nextRun > 0 /\ time' = time + 1 /\ plan' = plan /\ deferred' = deferred
          /\ nextRun' = IF nextRun = time + 1 THEN nextRun + plan.every ELSE nextRun
          /\ frames' = IF nextRun = time + 1 /\ Within(plan, time + 1)
                       THEN frames \cup {time + 1} ELSE frames
      BY <1>2 DEF ClockRuns
    <2>2. /\ time \in Nat /\ nextRun \in Nat /\ plan \in Plans
          /\ nextRun > time /\ Near(nextRun)
          /\ Steady(plan) =>
                /\ OnTick(plan, nextRun)
                /\ \A t \in time + 1 .. nextRun - 1 :
                       OnTick(plan, t) /\ Within(plan, t) => t \in deferred
      BY <2>1 DEF ClockInv, ClockTypes, RunIsNext
    <2>3. plan.every \in Nat \ {0} /\ plan.opening \in Nat
      BY <2>2, PlanTypes
    <2>4. /\ Steady(plan) <=> Steady(plan)'
          /\ \A t : /\ OnTick(plan, t) <=> OnTick(plan, t)'
                   /\ Within(plan, t) <=> Within(plan, t)'
      BY <2>1 DEF OnTick, Within, Steady
    <2>5. CASE nextRun = time + 1
      <3>1. nextRun' = nextRun + plan.every /\ nextRun' > time + 1 /\ nextRun' \in Nat
        BY <2>1, <2>2, <2>3, <2>5
      <3>2. Near(nextRun)'
        BY <2>1, <2>2, <2>3, <2>5, <3>1 DEF Near
      <3>3. ASSUME Steady(plan)
            PROVE  /\ OnTick(plan, nextRun')
                   /\ \A t \in nextRun + 1 .. nextRun' - 1 : ~OnTick(plan, t)
        <4>1. /\ Multiple(nextRun - plan.opening, plan.every)
              /\ nextRun - plan.opening \in Int
          BY <2>2, <2>3, <3>3, MultipleIsMod DEF OnTick
        <4>2. Multiple(plan.every, plan.every)
          <5>1. plan.every = 1 * plan.every
            BY <2>3
          <5> QED
            BY <5>1 DEF Multiple
        <4>3. Multiple((nextRun - plan.opening) + plan.every, plan.every)
          <5>1. plan.every \in Int
            BY <2>3
          <5> QED
            BY <4>1, <4>2, <5>1, MultiplesAdd
        <4>4. (nextRun - plan.opening) + plan.every = nextRun' - plan.opening
          BY <2>2, <2>3, <3>1
        <4>5. /\ nextRun' - plan.opening \in Int
              /\ Multiple(nextRun' - plan.opening, plan.every)
          BY <2>3, <3>1, <4>3, <4>4
        <4>6. OnTick(plan, nextRun')
          BY <2>3, <4>5, MultipleIsMod DEF OnTick
        <4>7. ASSUME NEW t \in nextRun + 1 .. nextRun' - 1, OnTick(plan, t)
              PROVE  FALSE
          <5>1. /\ t \in Int /\ t - plan.opening \in Int
                /\ nextRun - plan.opening < t - plan.opening
            BY <2>2, <2>3, <3>1
          <5>2. Multiple(t - plan.opening, plan.every)
            BY <2>3, <4>7, <5>1, MultipleIsMod DEF OnTick
          <5>3. (nextRun - plan.opening) + plan.every <= t - plan.opening
            BY <2>3, <4>1, <5>1, <5>2, MultiplesApart
          <5> QED
            BY <2>2, <2>3, <3>1, <5>1, <5>3
        <4> QED
          BY <4>6, <4>7
      <3>5. RunIsNext'
        <4>1. Steady(plan) => \A t \in time' + 1 .. nextRun' - 1 : ~OnTick(plan, t)
          BY <2>1, <2>5, <3>3
        <4> QED
          BY <2>1, <2>4, <3>1, <3>2, <3>3, <4>1 DEF RunIsNext, OnTick
      <3>6. frames' = IF Within(plan, nextRun) THEN frames \cup {nextRun} ELSE frames
        BY <2>1, <2>5
      <3>7. FramesAreTicks'
        <4> SUFFICES ASSUME NEW t \in frames'
                     PROVE  /\ t \in 1 .. time' /\ Within(plan, t)
                            /\ Steady(plan) => OnTick(plan, t)
          BY <2>1 DEF FramesAreTicks, OnTick, Within, Steady
        <4>1. CASE t \in frames
          BY <2>1, <2>2, <4>1 DEF ClockInv, FramesAreTicks
        <4>2. CASE t \notin frames
          BY <2>1, <2>2, <2>5, <3>6, <4>2
        <4> QED
          BY <4>1, <4>2
      <3>8. TicksAreFrames'
        <4> SUFFICES ASSUME Steady(plan), NEW t \in 1 .. time',
                            OnTick(plan, t), Within(plan, t)
                     PROVE  t \in frames' \cup deferred'
          BY <2>1 DEF TicksAreFrames, OnTick, Within, Steady
        <4>1. CASE t \in 1 .. time
          BY <2>1, <3>6, <4>1 DEF ClockInv, TicksAreFrames
        <4>2. CASE t = nextRun
          BY <3>6, <4>2
        <4> QED
          BY <2>1, <2>2, <2>5, <4>1, <4>2
      <3>9. frames' \subseteq Nat
        BY <2>2, <3>6 DEF ClockInv, ClockTypes
      <3> QED
        BY <2>1, <2>2, <3>1, <3>5, <3>7, <3>8, <3>9 DEF ClockInv, ClockTypes, NoJobYet
    <2>6. CASE nextRun # time + 1
      <3>1. nextRun' = nextRun /\ frames' = frames /\ nextRun > time + 1
        BY <2>1, <2>2, <2>6
      <3>2. RunIsNext'
        <4>1. Near(nextRun)'
          <5>1. CASE nextRun <= time + plan.every
            BY <2>1, <2>2, <2>3, <3>1, <5>1 DEF Near
          <5>2. CASE plan.mode = "manual" /\ nextRun = Midnight(time) + plan.opening
            <6>1. Midnight(time + 1) = Midnight(time)
              BY <2>2, <3>1, <5>2, SameDay
            <6> QED
              BY <2>1, <3>1, <5>2, <6>1 DEF Near, Midnight
          <5> QED
            BY <2>2, <5>1, <5>2 DEF Near
        <4> QED
          BY <2>1, <2>2, <2>4, <3>1, <4>1 DEF RunIsNext, OnTick, Within
      <3>3. FramesAreTicks'
        <4> SUFFICES ASSUME NEW t \in frames
                     PROVE  /\ t \in 1 .. time' /\ Within(plan, t)
                            /\ Steady(plan) => OnTick(plan, t)
          BY <2>1, <3>1 DEF FramesAreTicks, OnTick, Within, Steady
        <4> QED
          BY <2>1, <2>2 DEF ClockInv, FramesAreTicks
      <3>4. TicksAreFrames'
        <4> SUFFICES ASSUME Steady(plan), NEW t \in 1 .. time',
                            OnTick(plan, t), Within(plan, t)
                     PROVE  t \in frames \cup deferred
          BY <2>1, <3>1 DEF TicksAreFrames, OnTick, Within, Steady
        <4>1. CASE t \in 1 .. time
          BY <4>1 DEF ClockInv, TicksAreFrames
        <4>2. CASE t = time + 1
          BY <2>2, <3>1, <4>2
        <4> QED
          BY <2>1, <2>2, <4>1, <4>2
      <3> QED
        BY <2>1, <2>2, <3>1, <3>2, <3>3, <3>4 DEF ClockInv, ClockTypes, NoJobYet
    <2> QED
      BY <2>5, <2>6
  <1>3. CASE JobAdded
    <2>1. /\ nextRun > 0 /\ time' = time /\ plan' = plan /\ frames' = frames
          /\ nextRun' = StartDate(plan, time)
          /\ deferred' = deferred \cup Defers(plan, time)
      BY <1>3 DEF JobAdded
    <2>2. time \in Nat /\ plan \in Plans /\ deferred \subseteq Nat
      BY DEF ClockInv, ClockTypes
    <2>3. /\ nextRun' \in Nat /\ nextRun' > time /\ Near(nextRun')
          /\ Defers(plan, time) \subseteq time + 1 .. nextRun' - 1
          /\ Steady(plan) =>
                /\ OnTick(plan, nextRun')
                /\ \A t \in time + 1 .. nextRun' - 1 :
                       OnTick(plan, t) /\ Within(plan, t) => t \in Defers(plan, time)
      BY <2>1, <2>2, StartsOnTheGrid DEF Near
    <2>4. deferred' \subseteq Nat
      <3>1. \A t \in time + 1 .. nextRun' - 1 : t \in Nat
        BY <2>2, <2>3
      <3>2. \A t \in Defers(plan, time) : t \in Nat
        BY <2>3, <3>1
      <3> QED
        BY <2>1, <2>2, <3>2
    <2>5. RunIsNext'
      BY <2>1, <2>3 DEF RunIsNext, OnTick, Within, Steady, Near, Midnight
    <2>6. FramesAreTicks' /\ TicksAreFrames'
      BY <2>1 DEF ClockInv, FramesAreTicks, TicksAreFrames, OnTick, Within, Steady
    <2> QED
      BY <2>1, <2>2, <2>3, <2>4, <2>5, <2>6 DEF ClockInv, ClockTypes, NoJobYet
  <1>4. CASE UNCHANGED clockVars
    BY <1>4
       DEF clockVars, ClockInv, ClockTypes, NoJobYet, RunIsNext, FramesAreTicks,
           TicksAreFrames, OnTick, Within, Steady, Near, Midnight
  <1> QED
    BY <1>1, <1>2, <1>3, <1>4 DEF ClockNext

\* A job defers runs of the day that comes at most.
LEMMA DefersADay ==
  ASSUME NEW p \in Plans, NEW now \in Nat, NEW t \in Defers(p, now)
  PROVE  t \in Nat /\ t < now + DaySlots
  <1> USE CaptureClockAssumption
  <1>1. /\ p.mode = "manual" /\ StartDate(p, now) = Midnight(now) + p.opening
        /\ t \in now + 1 .. StartDate(p, now) - 1
    BY DEF Defers
  <1>2. p.opening \in 0 .. DaySlots - 1
    BY <1>1 DEF Plans
  <1>3. now % DaySlots \in 0 .. DaySlots - 1
    BY Quotient
  <1>4. Midnight(now) \in Int /\ Midnight(now) <= now
    BY <1>3 DEF Midnight
  <1> QED
    BY <1>1, <1>2, <1>4

\* Every variable of the clock keeps to its type.
LEMMA ClockTypesKept == ClockSpec => []ClockTypeOK
  <1> USE CaptureClockAssumption
  <1>0. DaySlots \in 1 .. MaxDays * DaySlots /\ (MaxDays + 1) * DaySlots = MaxDays * DaySlots + DaySlots
    <2>1. 1 * DaySlots <= MaxDays * DaySlots
      <3>1. MaxDays = 1 \/ 1 < MaxDays
        OBVIOUS
      <3> QED
        BY <3>1, FarApart
    <2> QED
      BY <2>1
  <1>1. ClockInit => ClockTypeOK
    <2> SUFFICES ASSUME ClockInit  PROVE ClockTypeOK
      OBVIOUS
    <2>1. plan \in Plans
      BY InitClock DEF ClockInv, ClockTypes
    <2> QED
      BY <1>0, <2>1 DEF ClockInit, ClockTypeOK
  <1>2. ClockInv /\ ClockInv' /\ ClockTypeOK /\ [ClockNext]_clockVars => ClockTypeOK'
    <2> SUFFICES ASSUME ClockInv, ClockInv', ClockTypeOK, [ClockNext]_clockVars
                 PROVE  ClockTypeOK'
      OBVIOUS
    <2> DEFINE span == MaxDays * DaySlots
               far == (MaxDays + 1) * DaySlots
    <2>1. /\ time \in 0 .. span /\ deferred \subseteq 0 .. far
          /\ frames \subseteq 1 .. span /\ resets \in 0 .. MaxResets
          /\ span \in Nat /\ far = span + DaySlots /\ DaySlots <= span
      BY <1>0 DEF ClockTypeOK
    <2>2. plan \in Plans /\ nextRun' \in Nat /\ plan' \in Plans
      BY DEF ClockInv, ClockTypes
    <2> HIDE DEF span, far
    <2>3. CASE JobCreated
      <3>1. PICK p \in Plans, now \in 0 .. DaySlots - 1 :
                /\ time' = now /\ deferred' = (0 .. now) \cup Defers(p, now)
                /\ frames' = frames /\ resets' = resets
        BY <2>3 DEF JobCreated
      <3>2. \A t \in Defers(p, now) : t \in 0 .. far
        BY <2>1, DefersADay
      <3>3. \A t \in 0 .. now : t \in 0 .. far
        BY <2>1
      <3> QED
        BY <2>1, <2>2, <3>1, <3>2, <3>3 DEF ClockTypeOK, span, far
    <2>4. CASE ClockRuns
      <3>1. /\ time < span /\ time' = time + 1
            /\ deferred' = deferred /\ resets' = resets
            /\ frames' \subseteq frames \cup {time + 1}
        BY <2>4 DEF ClockRuns, span
      <3>2. time + 1 \in 1 .. span /\ time + 1 \in 0 .. span
        BY <2>1, <3>1
      <3> QED
        BY <2>1, <2>2, <3>1, <3>2 DEF ClockTypeOK, span, far
    <2>5. CASE JobAdded
      <3>1. /\ time' = time /\ frames' = frames /\ resets' \in 0 .. MaxResets
            /\ deferred' = deferred \cup Defers(plan, time)
        BY <2>1, <2>5 DEF JobAdded
      <3>2. \A t \in Defers(plan, time) : t \in 0 .. far
        BY <2>1, <2>2, DefersADay
      <3> QED
        BY <2>1, <2>2, <3>1, <3>2 DEF ClockTypeOK, span, far
    <2>6. CASE UNCHANGED clockVars
      BY <2>6 DEF clockVars, ClockTypeOK
    <2> QED
      BY <2>3, <2>4, <2>5, <2>6 DEF ClockNext
  <1> QED
    BY <1>1, <1>2, InitClock, NextClock, PTL DEF ClockSpec

\* A profile of any interval and any window, restarted and rescheduled at any
\* times, has its next run at most one interval away, or at today's opening; and
\* if the interval divides the hour, or for a manual window the day, it has the
\* frames of a job that was never restarted, except for the rest of a window
\* that spans midnight (_compute_start_date, _is_within_active_window).
THEOREM RestartsKeepTheGrid == ClockSpec => []FramesOnTheGrid
  <1>1. ClockInv => FramesOnTheGrid
    <2> SUFFICES ASSUME ClockInv  PROVE FramesOnTheGrid
      OBVIOUS
    <2>1. nextRun > 0 => nextRun > time /\ Near(nextRun)
      BY DEF ClockInv, RunIsNext
    <2>2. ASSUME Steady(plan)
          PROVE  frames \cup deferred =
                     {t \in 1 .. time : Within(plan, t) /\ OnGrid(t)} \cup deferred
      BY <2>2 DEF ClockInv, FramesAreTicks, TicksAreFrames, OnGrid, OnTick
    <2> QED
      BY <2>1, <2>2 DEF FramesOnTheGrid
  <1> QED
    BY <1>1, InitClock, NextClock, PTL DEF ClockSpec

-----------------------------------------------------------------------------
(***************************************************************************)
(* The days of a schedule. The invariant: the days found so far are those  *)
(* of the tokens translated so far. What each token means follows by       *)
(* cases.                                                                  *)
(***************************************************************************)

FieldOfTokens == field \in Seq(Tokens) /\ jobDays.at \in Nat \ {0}

NothingYet == field = << >> => jobDays = [at |-> 1, days |-> {}, given |-> FALSE]

\* The days of the tokens translated so far
UnderWay ==
    ~jobDays.given =>
        /\ jobDays.at <= Len(field) + 1
        /\ \A n \in 1 .. jobDays.at - 1 : ~Wordy(field[n])
        /\ jobDays.days = UNION {Expands(field[n]) : n \in 1 .. jobDays.at - 1}

Translated ==
    /\ \A n \in 1 .. Len(field) : ~Wordy(field[n])
    /\ jobDays.days = UNION {Expands(field[n]) : n \in 1 .. Len(field)}

PassedOn ==
    /\ \E n \in 1 .. Len(field) : Wordy(field[n])
    /\ jobDays.days = UNION {AsGiven(field[n]) : n \in 1 .. Len(field)}

CronInv ==
    /\ FieldOfTokens
    /\ jobDays = [at |-> jobDays.at, days |-> jobDays.days, given |-> jobDays.given]
    /\ NothingYet
    /\ UnderWay
    /\ jobDays.given => Translated \/ PassedOn

\* A name and a bare star are read alike by cron and by APScheduler.
LEMMA WordsMeanTheSame ==
  ASSUME NEW token \in Tokens, Wordy(token)
  PROVE  AsGiven(token) = Means(token)
  <1>1. CASE token.kind = "name"
    <2>1. token.from \in 0 .. 6
      BY <1>1 DEF Tokens, WeekDays
    <2>2. token.from % 7 = token.from
      BY <2>1
    <2> QED
      BY <1>1, <2>2 DEF AsGiven, Means
  <1>2. CASE token.kind = "star" /\ token.step = 1
    <2>1. AsGiven(token) = {(d + 1) % 7 : d \in WeekDays}
      BY <1>2 DEF AsGiven, WeekDays
    <2>2. Means(token) = WeekDays
      BY <1>2 DEF Means, WeekDays
    <2>3. \A d \in WeekDays : (d + 1) % 7 \in WeekDays
      BY DEF WeekDays
    <2>4. \A d \in WeekDays : \E e \in WeekDays : (e + 1) % 7 = d
      <3> SUFFICES ASSUME NEW d \in WeekDays  PROVE \E e \in WeekDays : (e + 1) % 7 = d
        OBVIOUS
      <3>1. CASE d = 0
        BY <3>1 DEF WeekDays
      <3>2. CASE d # 0
        <4>1. d - 1 \in WeekDays /\ ((d - 1) + 1) % 7 = d
          BY <3>2 DEF WeekDays
        <4> QED
          BY <4>1
      <3> QED
        BY <3>1, <3>2
    <2> QED
      BY <2>1, <2>2, <2>3, <2>4
  <1> QED
    BY <1>1, <1>2 DEF Wordy

\* The walk from the first day of a range is as long as the range, but for the
\* whole week and a day over.
LEMMA RangeSpan ==
  ASSUME NEW from \in 0 .. 7, NEW to \in 0 .. 7, ~(from = 0 /\ to = 7)
  PROVE  ((to % 7) - (from % 7)) % 7
             = (IF to < from THEN to + 7 ELSE to) - from
  <1>1. CASE from = 7
    BY <1>1
  <1>2. CASE from # 7 /\ to = 7
    BY <1>2
  <1>3. CASE from # 7 /\ to # 7
    BY <1>3
  <1> QED
    BY <1>1, <1>2, <1>3

LEMMA NumbersAreTranslated ==
  ASSUME NEW token \in Tokens, ~Wordy(token), ~WholeWeek(token)
  PROVE  Expands(token) = Means(token)
  <1>1. CASE token.kind = "number"
    <2>1. token.from \in 0 .. 7 /\ token.step = 1
      BY <1>1 DEF Tokens
    <2>2. {k \in 0 .. 1 - 1 : k % token.step = 0} = {0}
      BY <2>1
    <2>3. ((token.from % 7) + 0) % 7 = token.from % 7
      BY <2>1
    <2>4. Expands(token) = {((token.from % 7) + 0) % 7}
      BY <1>1, <2>2 DEF Expands
    <2> QED
      BY <1>1, <2>3, <2>4 DEF Means
  <1>2. CASE token.kind = "star"
    <2> DEFINE marked == {k \in 0 .. 7 - 1 : k % token.step = 0}
    <2>1. Expands(token) = {(0 + o) % 7 : o \in marked}
      BY <1>2 DEF Expands
    <2>2. Means(token) = marked
      BY <1>2 DEF Means, WeekDays
    <2>3. \A o \in marked : (0 + o) % 7 = o
      OBVIOUS
    <2> QED
      BY <2>1, <2>2, <2>3
  <1>3. CASE token.kind = "range"
    <2> DEFINE from == token.from
               to == token.to
               step == token.step
               last == IF to < from THEN to + 7 ELSE to
               first == from % 7
               offsets == {k \in 0 .. last - from : k % step = 0}
    <2>1. from \in 0 .. 7 /\ to \in 0 .. 7 /\ ~(from = 0 /\ to = 7)
      BY <1>3 DEF Tokens, WholeWeek
    <2>2. ((to % 7) - first) % 7 = last - from
      BY <2>1, RangeSpan
    <2>3. Expands(token) = {(first + o) % 7 : o \in offsets}
      <3> DEFINE start == IF token.kind = "star" THEN 0 ELSE token.from % 7
                 span == CASE token.kind = "star"  -> 7
                           [] token.kind = "range" ->
                                  (((token.to % 7) - start) % 7) + 1
                           [] OTHER -> 1
      <3>2. Expands(token) =
                {(start + o) % 7 : o \in {k \in 0 .. span - 1 : k % token.step = 0}}
        BY Zenon DEF Expands
      <3>3. start = first /\ span = (((to % 7) - first) % 7) + 1
        BY <1>3
      <3> HIDE DEF start, span
      <3>4. span - 1 = last - from
        <4>1. span = (last - from) + 1
          BY <2>2, <3>3
        <4>2. last - from \in Int
          BY <2>1
        <4> HIDE DEF last
        <4> QED
          BY <4>1, <4>2
      <3> HIDE DEF first, last
      <3> QED
        BY Zenon, <3>2, <3>3, <3>4
    <2>4. Means(token) = {d \in WeekDays : \E k \in from .. last :
                              k % 7 = d /\ (k - from) % step = 0}
      BY <1>3 DEF Means
    <2> HIDE DEF from, to, step
    <2>5. \A o \in offsets : /\ (first + o) % 7 = (from + o) % 7
                             /\ (first + o) % 7 \in WeekDays
                             /\ from + o \in from .. last
                             /\ (from + o) - from = o
      <3> SUFFICES ASSUME NEW o \in 0 .. last - from
                   PROVE  /\ (first + o) % 7 = (from + o) % 7
                          /\ (first + o) % 7 \in WeekDays
                          /\ from + o \in from .. last
                          /\ (from + o) - from = o
        OBVIOUS
      <3>1. CASE from = 7
        BY <2>1, <3>1 DEF WeekDays
      <3>2. CASE from # 7
        BY <2>1, <3>2 DEF WeekDays
      <3> QED
        BY <3>1, <3>2
    <2>6. \A k \in from .. last : k - from \in 0 .. last - from /\ from + (k - from) = k
      BY <2>1
    <2>7. ASSUME NEW d \in Expands(token)  PROVE d \in Means(token)
      <3>1. PICK o \in offsets : d = (first + o) % 7
        BY <2>3
      <3>2. o % step = 0
        OBVIOUS
      <3> HIDE DEF offsets, first, last
      <3> QED
        BY <2>4, <2>5, <3>1, <3>2
    <2>8. ASSUME NEW d \in Means(token)  PROVE d \in Expands(token)
      <3>1. PICK k \in from .. last : k % 7 = d /\ (k - from) % step = 0
        BY <2>4
      <3>2. k - from \in offsets
        BY <2>6, <3>1
      <3> HIDE DEF offsets, first, last
      <3>3. (first + (k - from)) % 7 = d
        BY <2>5, <2>6, <3>1, <3>2
      <3> QED
        BY <2>3, <3>2, <3>3
    <2> QED
      BY <2>7, <2>8
  <1>4. token.kind \in {"number", "star", "range"}
    BY DEF Tokens, Wordy
  <1> QED
    BY <1>1, <1>2, <1>3, <1>4

LEMMA SeqOfLength ==
  ASSUME NEW S, NEW n \in Nat, NEW s \in [1 .. n -> S]
  PROVE  s \in Seq(S) /\ Len(s) = n
  OBVIOUS

LEMMA InitCron == CronInit => CronInv
  BY DEF CronInit, CronInv, FieldOfTokens, NothingYet, UnderWay

LEMMA NextCron == CronInv /\ [CronNext]_cronVars => CronInv'
  <1> SUFFICES ASSUME CronInv, [CronNext]_cronVars  PROVE CronInv'
    OBVIOUS
  <1> USE CronDaysAssumption
  <1>1. CASE FieldStored
    <2>1. /\ field = << >> /\ field' \in CronFields /\ jobDays' = jobDays
          /\ jobDays = [at |-> 1, days |-> {}, given |-> FALSE]
      BY <1>1 DEF FieldStored, CronInv, NothingYet
    <2>2. field' \in Seq(Tokens) /\ field' # << >>
      <3>1. CASE field' \in [1 .. 1 -> Tokens]
        <4>1. field' \in Seq(Tokens) /\ Len(field') = 1
          BY <3>1, SeqOfLength
        <4> QED
          BY <4>1
      <3>2. CASE field' \in UNION {[1 .. n -> Listed] : n \in 2 .. MaxTokens}
        <4>1. PICK n \in 2 .. MaxTokens : field' \in [1 .. n -> Listed]
          BY <3>2
        <4>2. field' \in [1 .. n -> Tokens] /\ n \in Nat
          BY <4>1
        <4>3. field' \in Seq(Tokens) /\ Len(field') = n
          BY <4>2
        <4> QED
          BY <4>3
      <3> QED
        BY <2>1, <3>1, <3>2 DEF CronFields
    <2> QED
      BY <2>1, <2>2 DEF CronInv, FieldOfTokens, NothingYet, UnderWay
  <1>2. CASE ExpandsToken
    <2>1. /\ ~jobDays.given /\ jobDays.at <= Len(field)
          /\ ~Wordy(field[jobDays.at]) /\ field' = field
          /\ jobDays' = [jobDays EXCEPT !.at = jobDays.at + 1,
                             !.days = jobDays.days \cup Expands(field[jobDays.at])]
      BY <1>2 DEF ExpandsToken, Token
    <2>2. /\ jobDays'.at = jobDays.at + 1
          /\ jobDays'.days = jobDays.days \cup Expands(field[jobDays.at])
          /\ jobDays'.given = jobDays.given
          /\ jobDays' = [at |-> jobDays'.at, days |-> jobDays'.days,
                         given |-> jobDays'.given]
      BY <2>1 DEF CronInv
    <2>3. field # << >>
      BY <2>1 DEF CronInv, FieldOfTokens
    <2>4. UnderWay'
      <3> DEFINE at == jobDays.at
      <3>1. at \in Nat \ {0} /\ Len(field) \in Nat
        BY DEF CronInv, FieldOfTokens
      <3>2. 1 .. jobDays'.at - 1 = (1 .. at - 1) \cup {at}
        BY <2>2, <3>1
      <3>3. /\ \A n \in 1 .. at - 1 : ~Wordy(field[n])
            /\ jobDays.days = UNION {Expands(field[n]) : n \in 1 .. at - 1}
        BY <2>1 DEF CronInv, UnderWay
      <3>4. jobDays'.days = UNION {Expands(field[n]) : n \in (1 .. at - 1) \cup {at}}
        BY <2>2, <3>3
      <3> QED
        BY <2>1, <2>2, <3>1, <3>2, <3>3, <3>4 DEF UnderWay
    <2> QED
      BY <2>1, <2>2, <2>3, <2>4 DEF CronInv, FieldOfTokens, NothingYet
  <1>3. CASE PassesThrough
    <2>1. /\ jobDays.at <= Len(field) /\ Wordy(field[jobDays.at]) /\ field' = field
          /\ jobDays' = [jobDays EXCEPT
                 !.days = UNION {AsGiven(field[n]) : n \in 1 .. Len(field)},
                 !.given = TRUE]
      BY <1>3 DEF PassesThrough, Token
    <2>2. /\ jobDays'.at = jobDays.at
          /\ jobDays'.days = UNION {AsGiven(field[n]) : n \in 1 .. Len(field)}
          /\ jobDays'.given
          /\ jobDays' = [at |-> jobDays'.at, days |-> jobDays'.days,
                         given |-> jobDays'.given]
      BY <2>1 DEF CronInv
    <2>3. field # << >> /\ jobDays.at \in 1 .. Len(field)
      BY <2>1 DEF CronInv, FieldOfTokens
    <2>4. PassedOn'
      BY <2>1, <2>2, <2>3 DEF PassedOn
    <2> QED
      BY <2>1, <2>2, <2>3, <2>4 DEF CronInv, FieldOfTokens, NothingYet, UnderWay
  <1>4. CASE JobGetsDays
    <2>1. /\ field # << >> /\ ~jobDays.given /\ jobDays.at > Len(field)
          /\ field' = field
          /\ jobDays' = [jobDays EXCEPT !.given = TRUE]
      BY <1>4 DEF JobGetsDays
    <2>2. /\ jobDays'.at = jobDays.at /\ jobDays'.days = jobDays.days
          /\ jobDays'.given
          /\ jobDays' = [at |-> jobDays'.at, days |-> jobDays'.days,
                         given |-> jobDays'.given]
      BY <2>1 DEF CronInv
    <2>3. jobDays.at - 1 = Len(field)
      BY <2>1 DEF CronInv, FieldOfTokens, UnderWay
    <2>4. Translated'
      BY <2>1, <2>2, <2>3 DEF CronInv, UnderWay, Translated
    <2> QED
      BY <2>1, <2>2, <2>4 DEF CronInv, FieldOfTokens, NothingYet, UnderWay
  <1>5. CASE UNCHANGED cronVars
    BY <1>5 DEF cronVars, CronInv, FieldOfTokens, NothingYet, UnderWay, Translated, PassedOn
  <1> QED
    BY <1>1, <1>2, <1>3, <1>4, <1>5 DEF CronNext

\* The days of a token, in either reading, are days of the week.
LEMMA DaysOfTheWeek ==
  ASSUME NEW token \in Tokens
  PROVE  Expands(token) \subseteq WeekDays /\ AsGiven(token) \subseteq WeekDays
  <1>1. \A n \in Int : n % 7 \in 0 .. 6
    OBVIOUS
  <1>2. token.from \in Int /\ token.to \in Int /\ token.step \in Nat
    BY CronDaysAssumption DEF Tokens, WeekDays
  <1>3. token.kind = "name" => token.from \in WeekDays
    BY DEF Tokens
  <1>4. Expands(token) \subseteq WeekDays
    <2> DEFINE first == IF token.kind = "star" THEN 0 ELSE token.from % 7
               span == CASE token.kind = "star"  -> 7
                         [] token.kind = "range" -> (((token.to % 7) - first) % 7) + 1
                         [] OTHER -> 1
    <2>1. first \in Int
      BY <1>1, <1>2
    <2>2. Expands(token) = {(first + o) % 7 : o \in {k \in 0 .. span - 1 : k % token.step = 0}}
      BY DEF Expands
    <2> HIDE DEF first, span
    <2>3. \A o \in 0 .. span - 1 : (first + o) % 7 \in 0 .. 6
      BY <1>1, <2>1
    <2> QED
      BY <2>2, <2>3 DEF WeekDays
  <1>5. AsGiven(token) \subseteq WeekDays
    <2>1. \A d \in Int : (d + 1) % 7 \in WeekDays
      BY <1>1 DEF WeekDays
    <2>2. CASE token.kind = "name"
      BY <1>3, <2>2 DEF AsGiven
    <2>3. CASE token.kind = "star"
      <3>1. AsGiven(token) = {(d + 1) % 7 : d \in {k \in WeekDays : k % token.step = 0}}
        BY <2>3 DEF AsGiven
      <3>2. \A d \in WeekDays : d \in Int
        BY DEF WeekDays
      <3> QED
        BY <2>1, <3>1, <3>2
    <2>4. CASE token.kind \notin {"name", "star"}
      <3> DEFINE last == IF token.kind = "range" THEN token.to ELSE token.from
      <3>1. AsGiven(token) =
                {(d + 1) % 7 : d \in {k \in token.from .. last :
                                         k \in WeekDays
                                           /\ (k - token.from) % token.step = 0}}
        BY <2>4 DEF AsGiven
      <3> HIDE DEF last
      <3>2. \A d \in WeekDays : d \in Int
        BY DEF WeekDays
      <3> QED
        BY <2>1, <3>1, <3>2
    <2> QED
      BY <2>2, <2>3, <2>4
  <1> QED
    BY <1>4, <1>5

\* Every variable of the schedule's field keeps to its type.
LEMMA CronTypesKept == CronSpec => []CronTypeOK
  <1> USE CronDaysAssumption
  <1>1. CronInit => CronTypeOK
    BY DEF CronInit, CronTypeOK
  <1>2. CronInv /\ CronTypeOK /\ [CronNext]_cronVars => CronTypeOK'
    <2> SUFFICES ASSUME CronInv, CronTypeOK, [CronNext]_cronVars  PROVE CronTypeOK'
      OBVIOUS
    <2>1. /\ field \in Seq(Tokens) /\ Len(field) \in 0 .. MaxTokens
          /\ jobDays \in [at : 1 .. MaxTokens + 1, days : SUBSET WeekDays, given : BOOLEAN]
      BY DEF CronTypeOK
    <2>2. \A n \in 1 .. Len(field) : field[n] \in Tokens
      BY <2>1
    <2>3. CASE FieldStored
      <3>1. field' \in CronFields /\ jobDays' = jobDays
        BY <2>3 DEF FieldStored
      <3>2. CASE field' \in [1 .. 1 -> Tokens]
        <4>1. field' \in Seq(Tokens) /\ Len(field') = 1
          BY <3>2, SeqOfLength
        <4> QED
          BY <2>1, <3>1, <4>1 DEF CronTypeOK
      <3>3. CASE field' \in UNION {[1 .. n -> Listed] : n \in 2 .. MaxTokens}
        <4>1. PICK n \in 2 .. MaxTokens : field' \in [1 .. n -> Listed]
          BY <3>3
        <4>2. field' \in [1 .. n -> Tokens] /\ n \in Nat
          BY <4>1
        <4>3. field' \in Seq(Tokens) /\ Len(field') = n
          BY <4>2
        <4> QED
          BY <2>1, <3>1, <4>3 DEF CronTypeOK
      <3> QED
        BY <3>1, <3>2, <3>3 DEF CronFields
    <2>4. CASE ExpandsToken
      <3>1. /\ jobDays.at <= Len(field) /\ field' = field
            /\ jobDays' = [jobDays EXCEPT !.at = jobDays.at + 1,
                               !.days = jobDays.days \cup Expands(field[jobDays.at])]
        BY <2>4 DEF ExpandsToken, Token
      <3>2. jobDays.at + 1 \in 1 .. MaxTokens + 1 /\ jobDays.at \in 1 .. Len(field)
        BY <2>1, <3>1
      <3>3. Expands(field[jobDays.at]) \subseteq WeekDays
        BY <2>2, <3>2, DaysOfTheWeek
      <3> QED
        BY <2>1, <3>1, <3>2, <3>3 DEF CronTypeOK
    <2>5. CASE PassesThrough
      <3>1. /\ field' = field
            /\ jobDays' = [jobDays EXCEPT
                   !.days = UNION {AsGiven(field[n]) : n \in 1 .. Len(field)},
                   !.given = TRUE]
        BY <2>5 DEF PassesThrough
      <3>2. UNION {AsGiven(field[n]) : n \in 1 .. Len(field)} \subseteq WeekDays
        BY <2>2, DaysOfTheWeek
      <3> QED
        BY <2>1, <3>1, <3>2 DEF CronTypeOK
    <2>6. CASE JobGetsDays
      BY <2>1, <2>6 DEF JobGetsDays, CronTypeOK
    <2>7. CASE UNCHANGED cronVars
      BY <2>7 DEF cronVars, CronTypeOK
    <2> QED
      BY <2>3, <2>4, <2>5, <2>6, <2>7 DEF CronNext
  <1> QED
    BY <1>1, <1>2, InitCron, NextCron, PTL DEF CronSpec

\* A field of any length, of words or of numbers, gives the job the days it
\* means in cron (normalize_cron_day_of_week).
THEOREM DaysAreThoseMeant == CronSpec => []DaysOfWeekKept
  <1>1. CronInv => DaysOfWeekKept
    <2> SUFFICES ASSUME CronInv, jobDays.given, Uniform,
                        \A n \in 1 .. Len(field) : ~WholeWeek(field[n])
                 PROVE  jobDays.days = UNION {Means(field[n]) : n \in 1 .. Len(field)}
      BY DEF DaysOfWeekKept
    <2>1. \A n \in 1 .. Len(field) : field[n] \in Tokens
      BY DEF CronInv, FieldOfTokens
    <2>2. CASE Translated
      <3>1. \A n \in 1 .. Len(field) : Expands(field[n]) = Means(field[n])
        BY <2>1, <2>2, NumbersAreTranslated DEF Translated
      <3> QED
        BY <2>2, <3>1 DEF Translated
    <2>3. CASE PassedOn
      <3>1. \A n \in 1 .. Len(field) : AsGiven(field[n]) = Means(field[n])
        BY <2>1, <2>3, WordsMeanTheSame DEF PassedOn, Uniform
      <3> QED
        BY <2>3, <3>1 DEF PassedOn
    <2> QED
      BY <2>2, <2>3 DEF CronInv
  <1> QED
    BY <1>1, InitCron, NextCron, PTL DEF CronSpec

-----------------------------------------------------------------------------
(***************************************************************************)
(* The image in a stream. The invariant: what is held is the end of what   *)
(* was received, from a place before which no image starts.                *)
(***************************************************************************)

\* Induction over the numbers, as the least element of a set of them.
LEMMA LeastExists ==
  ASSUME NEW S \in SUBSET Nat, S # {}
  PROVE  \E k \in S : \A l \in S : k <= l
  <1> DEFINE R == {p \in Nat \X Nat : p[1] < p[2]}
  <1>1. IsWellFoundedOn(R, Nat)
    BY NatLessThanWellFounded DEF OpToRel
  <1>2. \A k, l \in Nat : l < k => <<l, k>> \in R
    OBVIOUS
  <1> HIDE DEF R
  <1>3. PICK k \in S : \A l \in S : ~(<<l, k>> \in R)
    BY <1>1, WFMin
  <1>4. \A l \in S : ~(l < k)
    BY <1>2, <1>3
  <1> QED
    BY <1>4

LEMMA LeastIsLeast ==
  ASSUME NEW S \in SUBSET Nat, S # {}
  PROVE  Least(S) \in S /\ \A l \in S : Least(S) <= l
  BY LeastExists DEF Least

\* What is held is what was received, from a place on; no image starts before.
HeldFrom(off) ==
    /\ off \in 0 .. Len(received)
    /\ Len(received) = Len(held) + off
    /\ \A i \in 1 .. Len(held) : held[i] = received[i + off]
    /\ \A k \in Marks(received, "D8", 1) : k > off
    /\ off > 0 => held # << >>

HeldIsTheRest == reading.pc = "reading" => \E off \in Nat : HeldFrom(off)

NoneMissed ==
    reading.pc # "frame" => \A from, to \in 1 .. Len(received) : ~Image(from, to)

FrameIsFirst ==
    reading.pc = "frame" =>
        \E from, to \in 1 .. Len(received) :
            Image(from, to) /\ reading.frame = SubSeq(received, from, to + 1)

LimitPassed == reading.pc = "toolong" => Len(received) > MaxHeld

ReaderInv ==
    /\ ReaderTypeOK
    /\ reading = [pc |-> reading.pc, frame |-> reading.frame]
    /\ HeldIsTheRest
    /\ NoneMissed
    /\ FrameIsFirst
    /\ LimitPassed

\* A marker stands in what is held where it stands in what was received, moved
\* by the bytes let go.
LEMMA Shifted ==
  ASSUME NEW s \in Seq(Bytes), NEW r \in Seq(Bytes), NEW off \in Nat,
         Len(r) = Len(s) + off,
         \A i \in 1 .. Len(s) : s[i] = r[i + off],
         NEW m, NEW from \in Nat \ {0}, NEW k \in Int
  PROVE  k \in Marks(s, m, from) <=> k + off \in Marks(r, m, from + off)
  <1>1. Len(s) \in Nat /\ Len(r) \in Nat
    OBVIOUS
  <1>2. CASE k \in from .. Len(s) - 1
    <2>1. s[k] = r[k + off] /\ s[k + 1] = r[k + 1 + off]
      BY <1>1, <1>2
    <2>2. k + 1 + off = (k + off) + 1
      BY <1>2
    <2> QED
      BY <1>1, <1>2, <2>1, <2>2 DEF Marks
  <1>3. CASE k \notin from .. Len(s) - 1
    BY <1>1, <1>3 DEF Marks
  <1> QED
    BY <1>2, <1>3

LEMMA MarksArePlaces ==
  ASSUME NEW s \in Seq(Bytes), NEW m, NEW from \in Nat
  PROVE  Marks(s, m, from) \in SUBSET Nat
  BY DEF Marks

LEMMA NextReader == ReaderInv /\ [ReaderNext]_readerVars => ReaderInv'
  <1> SUFFICES ASSUME ReaderInv, [ReaderNext]_readerVars
               PROVE  ReaderInv'
    OBVIOUS
  <1> USE MjpegAssumption
  <1>1. ASSUME NEW chunk \in Chunks, ChunkArrives(chunk)
        PROVE  ReaderInv'
    <2> DEFINE s == held \o chunk
               starts == Marks(s, "D8", 1)
               ends == IF starts = {} THEN {} ELSE Marks(s, "D9", Least(starts) + 2)
    <2>1. /\ reading.pc = "reading"
          /\ received' = received \o chunk
          /\ IF ends # {}
             THEN /\ reading' = [pc |-> "frame",
                                 frame |-> SubSeq(s, Least(starts), Least(ends) + 1)]
                  /\ held' = s
             ELSE /\ held' = Trimmed(s)
                  /\ reading' = [reading EXCEPT !.pc =
                         IF Len(Trimmed(s)) > MaxHeld THEN "toolong" ELSE "reading"]
      BY <1>1 DEF ChunkArrives
    <2>2. chunk \in Seq(Bytes) /\ Len(chunk) > 0
      <3>1. PICK n \in 1 .. MaxChunk : chunk \in [1 .. n -> Bytes]
        BY DEF Chunks
      <3> QED
        BY <3>1
    <2>3. PICK off \in Nat : HeldFrom(off)
      BY <2>1 DEF ReaderInv, HeldIsTheRest
    <2>4. /\ received \in Seq(Bytes) /\ held \in Seq(Bytes)
          /\ received' \in Seq(Bytes) /\ s \in Seq(Bytes)
          /\ Len(received) = Len(held) + off
          /\ Len(received') = Len(received) + Len(chunk)
          /\ Len(s) = Len(held) + Len(chunk)
          /\ Len(held) \in Nat /\ Len(chunk) \in Nat
      <3>1. received \in Seq(Bytes) /\ held \in Seq(Bytes)
        BY DEF ReaderInv, ReaderTypeOK
      <3>2. s \in Seq(Bytes) /\ Len(s) = Len(held) + Len(chunk)
        BY <2>2, <3>1, ConcatProperties
      <3>3. /\ received' \in Seq(Bytes)
            /\ Len(received') = Len(received) + Len(chunk)
        BY <2>1, <2>2, <3>1, ConcatProperties
      <3>4. Len(received) = Len(held) + off
        BY <2>3 DEF HeldFrom
      <3> HIDE DEF s
      <3> QED
        BY <2>2, <3>1, <3>2, <3>3, <3>4
    <2>5. \A i \in 1 .. Len(s) : s[i] = received'[i + off]
      <3> SUFFICES ASSUME NEW i \in 1 .. Len(s)  PROVE s[i] = received'[i + off]
        OBVIOUS
      <3>1. CASE i <= Len(held)
        <4>1. s[i] = held[i] /\ held[i] = received[i + off]
          BY <2>3, <2>4, <2>2, <3>1 DEF HeldFrom
        <4>2. received'[i + off] = received[i + off]
          BY <2>1, <2>4, <2>2, <3>1
        <4> QED
          BY <4>1, <4>2
      <3>2. CASE i > Len(held)
        <4>1. s[i] = chunk[i - Len(held)]
          BY <2>4, <2>2, <3>2
        <4>2. received'[i + off] = chunk[i + off - Len(received)]
          <5>1. /\ i + off \in 1 .. Len(received) + Len(chunk)
                /\ ~(i + off <= Len(received))
            BY <2>4, <3>2
          <5>2. \A n \in 1 .. Len(received) + Len(chunk) :
                    (received \o chunk)[n] = IF n <= Len(received) THEN received[n]
                                             ELSE chunk[n - Len(received)]
            BY <2>2, <2>4, ConcatProperties
          <5> QED
            BY <2>1, <5>1, <5>2
        <4>3. i + off - Len(received) = i - Len(held)
          BY <2>4
        <4> QED
          BY <4>1, <4>2, <4>3
      <3> QED
        BY <2>4, <3>1, <3>2
    <2>6. \A k \in Marks(received', "D8", 1) : k > off
      <3> SUFFICES ASSUME NEW k \in Marks(received', "D8", 1), k <= off
                   PROVE  FALSE
        BY <2>4 DEF Marks
      <3>1. /\ k \in 1 .. Len(received') - 1
            /\ received'[k] = "FF" /\ received'[k + 1] = "D8"
        BY DEF Marks
      <3>2. off > 0 /\ Len(held) > 0
        BY <2>3, <2>4, <3>1 DEF HeldFrom
      <3>3. received'[k] = received[k] /\ received'[k + 1] = received[k + 1]
        <4>1. k \in 1 .. Len(received) /\ k + 1 \in 1 .. Len(received)
          BY <2>4, <3>1, <3>2
        <4>2. \A n \in 1 .. Len(received) + Len(chunk) :
                  (received \o chunk)[n] = IF n <= Len(received) THEN received[n]
                                           ELSE chunk[n - Len(received)]
          BY <2>2, <2>4, ConcatProperties
        <4>3. Len(received) \in Nat
          BY <2>4
        <4> QED
          BY <2>1, <2>2, <4>1, <4>2, <4>3
      <3>4. k \in Marks(received, "D8", 1)
        BY <2>4, <3>1, <3>2, <3>3 DEF Marks
      <3> QED
        BY <2>3, <3>1, <3>4 DEF HeldFrom
    <2> HIDE DEF s
    <2>7. \A m, from, k : from \in Nat \ {0} /\ k \in Int =>
              (k \in Marks(s, m, from) <=> k + off \in Marks(received', m, from + off))
      <3> SUFFICES ASSUME NEW m, NEW from \in Nat \ {0}, NEW k \in Int
                   PROVE  k \in Marks(s, m, from)
                              <=> k + off \in Marks(received', m, from + off)
        OBVIOUS
      <3>1. Len(received') = Len(s) + off
        BY <2>4
      <3> QED
        BY <2>4, <2>5, <3>1, Shifted
    <2>8. starts \in SUBSET Nat
      BY <2>4, MarksArePlaces
    <2>9. \A k \in Marks(received', "D8", 1) : k - off \in starts
      <3> SUFFICES ASSUME NEW k \in Marks(received', "D8", 1)  PROVE k - off \in starts
        OBVIOUS
      <3>1. k \in Nat /\ k > off /\ k \in Marks(received', "D8", 1 + off)
        BY <2>4, <2>6 DEF Marks
      <3>2. k - off \in Int /\ (k - off) + off = k
        BY <3>1
      <3> QED
        BY <2>7, <3>1, <3>2
    <2>10. \A k \in starts : k + off \in Marks(received', "D8", 1)
      <3> SUFFICES ASSUME NEW k \in starts  PROVE k + off \in Marks(received', "D8", 1)
        OBVIOUS
      <3>1. k + off \in Marks(received', "D8", 1 + off)
        BY <2>7, <2>8
      <3> QED
        BY <2>4, <3>1 DEF Marks
    <2>11. \A k \in starts : k \in 1 .. Len(s) - 1
      BY DEF Marks
    <2>12. CASE starts = {}
      <3>1. ends = {} /\ Trimmed(s) = s
        BY <2>12 DEF Trimmed
      <3>2. /\ held' = s
            /\ reading' = [reading EXCEPT !.pc =
                               IF Len(s) > MaxHeld THEN "toolong" ELSE "reading"]
        BY <2>1, <3>1
      <3>3. Marks(received', "D8", 1) = {}
        BY <2>9, <2>12
      <3>4. NoneMissed'
        BY <3>3 DEF NoneMissed, Image
      <3>5. /\ reading'.frame = reading.frame
            /\ reading'.pc = IF Len(s) > MaxHeld THEN "toolong" ELSE "reading"
            /\ reading' = [pc |-> reading'.pc, frame |-> reading'.frame]
        BY <3>2 DEF ReaderInv
      <3>6. HeldFrom(off)'
        <4>1. off \in 0 .. Len(received') /\ Len(received') = Len(s) + off
          BY <2>4
        <4>2. s # << >>
          BY <2>2, <2>4
        <4> QED
          BY <2>5, <2>6, <3>2, <4>1, <4>2 DEF HeldFrom
      <3>7. ReaderTypeOK'
        BY <2>4, <3>2, <3>5 DEF ReaderInv, ReaderTypeOK
      <3> QED
        BY <2>4, <3>4, <3>5, <3>6, <3>7
           DEF ReaderInv, HeldIsTheRest, FrameIsFirst, LimitPassed
    <2>13. CASE starts # {}
      <3>1. PICK from \in starts : from = Least(starts) /\ \A k \in starts : from <= k
        BY <2>8, <2>13, LeastIsLeast
      <3> HIDE DEF starts
      <3>2. from \in 1 .. Len(s) - 1
        BY <2>11, <3>1
      <3>3. /\ from + off \in Marks(received', "D8", 1)
            /\ \A k \in Marks(received', "D8", 1) : from + off <= k
        <4>1. \A k \in Marks(received', "D8", 1) : k \in Int
          BY <2>4 DEF Marks
        <4> QED
          BY <2>9, <2>10, <3>1, <3>2, <4>1
      <3>4. ends = Marks(s, "D9", from + 2)
        BY <2>13, <3>1
      <3>5. ends \in SUBSET Nat /\ \A k \in ends : k \in 1 .. Len(s) - 1
        <4>1. from + 2 \in Nat \ {0} /\ Len(s) \in Nat
          BY <2>4, <3>2
        <4> HIDE DEF ends
        <4>2. \A k \in ends : k \in from + 2 .. Len(s) - 1
          BY <3>4 DEF Marks
        <4> QED
          BY <4>1, <4>2
      <3>6. \A k \in Int : k \in ends
                <=> k + off \in Marks(received', "D9", (from + off) + 2)
        <4>1. from + 2 \in Nat \ {0} /\ (from + 2) + off = (from + off) + 2
          BY <3>2
        <4> QED
          BY <2>7, <3>4, <4>1
      <3>7. CASE ends = {}
        <4> DEFINE keep == SubSeq(s, from, Len(s))
        <4>1. Trimmed(s) = keep
          BY <2>13, <3>1 DEF Trimmed, starts
        <4>2. /\ held' = keep
              /\ reading' = [reading EXCEPT !.pc =
                                 IF Len(keep) > MaxHeld THEN "toolong" ELSE "reading"]
          BY <2>1, <3>7, <4>1
        <4>3. /\ keep \in Seq(Bytes) /\ Len(keep) = Len(s) - from + 1
              /\ \A i \in 1 .. Len(keep) : keep[i] = s[i + from - 1]
          BY <2>4, <3>2
        <4> HIDE DEF keep
        <4>4. /\ reading'.frame = reading.frame
              /\ reading'.pc = IF Len(keep) > MaxHeld THEN "toolong" ELSE "reading"
              /\ reading' = [pc |-> reading'.pc, frame |-> reading'.frame]
          BY <4>2 DEF ReaderInv
        <4>5. NoneMissed'
          <5> SUFFICES ASSUME NEW a \in 1 .. Len(received'), NEW b \in 1 .. Len(received'),
                              Image(a, b)'
                       PROVE  FALSE
            BY DEF NoneMissed
          <5>1. /\ a \in Marks(received', "D8", 1)
                /\ \A k \in Marks(received', "D8", 1) : a <= k
                /\ b \in Marks(received', "D9", a + 2)
            BY DEF Image
          <5>2. a = from + off
            BY <2>4, <3>2, <3>3, <5>1
          <5>3. b - off \in Int /\ (b - off) + off = b
            BY <2>4
          <5> QED
            BY <3>6, <3>7, <5>1, <5>2, <5>3
        <4>6. HeldFrom(off + from - 1)'
          <5>1. \A i \in 1 .. Len(keep) : keep[i] = received'[i + (off + from - 1)]
            <6> SUFFICES ASSUME NEW i \in 1 .. Len(keep)
                         PROVE  keep[i] = received'[i + (off + from - 1)]
              OBVIOUS
            <6>1. i + from - 1 \in 1 .. Len(s)
              BY <2>4, <3>2, <4>3
            <6>2. (i + from - 1) + off = i + (off + from - 1)
              BY <2>4, <3>2, <4>3
            <6> QED
              BY <2>5, <4>3, <6>1, <6>2
          <5>2. \A k \in Marks(received', "D8", 1) : k > off + from - 1
            BY <2>4, <3>2, <3>3 DEF Marks
          <5>3. /\ off + from - 1 \in 0 .. Len(received')
                /\ Len(received') = Len(keep) + (off + from - 1)
                /\ keep # << >>
            BY <2>4, <3>2, <4>3
          <5>4. held' = keep
            BY <4>2
          <5> QED
            BY <5>1, <5>2, <5>3, <5>4 DEF HeldFrom
        <4>7. off + from - 1 \in Nat
          BY <3>2
        <4>8. ReaderTypeOK'
          BY <2>4, <4>2, <4>3, <4>4 DEF ReaderInv, ReaderTypeOK
        <4>9. LimitPassed'
          <5>1. Len(keep) <= Len(received') /\ Len(keep) \in Nat /\ Len(received') \in Nat
            BY <2>4, <3>2, <4>3
          <5>2. reading'.pc = "toolong" => Len(keep) > MaxHeld
            BY <4>4
          <5> QED
            BY <5>1, <5>2 DEF LimitPassed
        <4> QED
          <5>1. HeldIsTheRest'
            BY <4>6, <4>7 DEF HeldIsTheRest
          <5>2. FrameIsFirst'
            BY <4>4 DEF FrameIsFirst
          <5> QED
            BY <4>4, <4>5, <4>8, <4>9, <5>1, <5>2 DEF ReaderInv
      <3>8. CASE ends # {}
        <4>1. PICK to \in ends : to = Least(ends) /\ \A k \in ends : to <= k
          BY <3>5, <3>8, LeastIsLeast
        <4>2. /\ reading' = [pc |-> "frame", frame |-> SubSeq(s, from, to + 1)]
              /\ held' = s
          BY <2>1, <3>1, <3>8, <4>1
        <4> HIDE DEF ends
        <4>3. to \in from + 2 .. Len(s) - 1
          BY <2>4, <3>2, <3>4, <4>1 DEF Marks
        <4>4. Image(from + off, to + off)'
          <5>1. to + off \in Marks(received', "D9", (from + off) + 2)
            BY <3>6, <4>1, <4>3
          <5>2. \A k \in Marks(received', "D9", (from + off) + 2) : to + off <= k
            <6> SUFFICES ASSUME NEW k \in Marks(received', "D9", (from + off) + 2)
                         PROVE  to + off <= k
              OBVIOUS
            <6>1. k \in Int
              BY <2>4 DEF Marks
            <6>2. k - off \in Int /\ (k - off) + off = k
              BY <6>1
            <6>3. k - off \in ends
              BY <3>6, <6>2
            <6> QED
              BY <4>1, <4>3, <6>1, <6>3
          <5> QED
            BY <3>3, <5>1, <5>2 DEF Image
        <4>5. SubSeq(s, from, to + 1) = SubSeq(received', from + off, (to + off) + 1)
          <5> DEFINE a == SubSeq(s, from, to + 1)
                     b == SubSeq(received', from + off, (to + off) + 1)
          <5>1. /\ a \in Seq(Bytes) /\ Len(a) = to + 2 - from
                /\ \A i \in 1 .. Len(a) : a[i] = s[from + i - 1]
            BY <2>4, <3>2, <4>3
          <5>2. /\ b \in Seq(Bytes) /\ Len(b) = to + 2 - from
                /\ \A i \in 1 .. Len(b) : b[i] = received'[(from + off) + i - 1]
            BY <2>4, <3>2, <4>3
          <5>3. \A i \in 1 .. Len(a) : a[i] = b[i]
            <6> SUFFICES ASSUME NEW i \in 1 .. Len(a)  PROVE a[i] = b[i]
              OBVIOUS
            <6>1. from + i - 1 \in 1 .. Len(s) /\ (from + i - 1) + off = (from + off) + i - 1
              BY <2>4, <3>2, <4>3, <5>1
            <6>2. a[i] = s[from + i - 1]
              BY <5>1
            <6>3. b[i] = received'[(from + off) + i - 1]
              BY <5>1, <5>2
            <6>4. s[from + i - 1] = received'[(from + off) + i - 1]
              BY <2>5, <6>1
            <6> QED
              BY <6>2, <6>3, <6>4
          <5> HIDE DEF a, b
          <5>4. a = b
            BY <5>1, <5>2, <5>3
          <5> QED
            BY <5>4 DEF a, b
        <4>6. SubSeq(s, from, to + 1) \in Seq(Bytes)
          BY <2>4, <3>2, <4>3
        <4>7. from + off \in 1 .. Len(received') /\ to + off \in 1 .. Len(received')
          BY <2>4, <3>2, <4>3
        <4>8. reading'.pc = "frame" /\ reading'.frame = SubSeq(s, from, to + 1)
          BY <4>2
        <4>9. reading'.frame = SubSeq(received', from + off, (to + off) + 1)
          BY <4>5, <4>8
        <4>10. FrameIsFirst'
          BY <4>4, <4>7, <4>9 DEF FrameIsFirst
        <4>11. ReaderTypeOK'
          BY <2>4, <4>2, <4>6, <4>8 DEF ReaderTypeOK
        <4>12. reading' = [pc |-> reading'.pc, frame |-> reading'.frame]
          BY <4>2
        <4> QED
          BY <4>8, <4>10, <4>11, <4>12
             DEF ReaderInv, HeldIsTheRest, NoneMissed, LimitPassed
      <3> QED
        BY <3>7, <3>8
    <2> QED
      BY <2>12, <2>13
  <1>2. CASE StreamEnds
    BY <1>2
       DEF StreamEnds, ReaderInv, ReaderTypeOK, HeldIsTheRest, NoneMissed,
           FrameIsFirst, LimitPassed, Image
  <1>3. CASE UNCHANGED readerVars
    BY <1>3
       DEF readerVars, ReaderInv, ReaderTypeOK, HeldIsTheRest, HeldFrom, NoneMissed,
           FrameIsFirst, LimitPassed, Image
  <1> QED
    BY <1>1, <1>2, <1>3 DEF ReaderNext

LEMMA InitReader == ReaderInit => ReaderInv
  <1> SUFFICES ASSUME ReaderInit  PROVE ReaderInv
    OBVIOUS
  <1>1. /\ received = << >> /\ held = << >>
        /\ reading = [pc |-> "reading", frame |-> << >>]
        /\ Len(received) = 0 /\ Len(held) = 0
    BY DEF ReaderInit
  <1>2. Marks(received, "D8", 1) = {}
    BY <1>1 DEF Marks
  <1>3. HeldFrom(0)
    BY <1>1, <1>2 DEF HeldFrom
  <1> QED
    BY <1>1, <1>3
       DEF ReaderInv, ReaderTypeOK, HeldIsTheRest, NoneMissed, FrameIsFirst, LimitPassed

\* Of a stream of any length, cut into chunks of any length, the reader returns
\* the first image as soon as it has arrived (grab_mjpeg_frame).
THEOREM FirstImageFound == ReaderSpec => []FirstImageReturned
  <1>1. ReaderInv => FirstImageReturned
    <2> SUFFICES ASSUME ReaderInv  PROVE FirstImageReturned
      OBVIOUS
    <2> DEFINE places == 1 .. Len(received)
               whole == {p \in places \X places : Image(p[1], p[2])}
    <2>1. ASSUME reading.pc = "frame"
          PROVE  \E p \in whole : reading.frame = SubSeq(received, p[1], p[2] + 1)
      <3>1. PICK from \in places, to \in places :
                Image(from, to) /\ reading.frame = SubSeq(received, from, to + 1)
        BY <2>1 DEF ReaderInv, FrameIsFirst
      <3>2. <<from, to>> \in whole
        BY <3>1
      <3> QED
        BY <3>1, <3>2
    <2>2. whole # {} => reading.pc = "frame"
      BY DEF ReaderInv, NoneMissed
    <2> QED
      BY <2>1, <2>2 DEF ReaderInv, LimitPassed, FirstImageReturned
  <1> QED
    BY <1>1, InitReader, NextReader, PTL DEF ReaderSpec

-----------------------------------------------------------------------------
(***************************************************************************)
(* The motion blur averages original images only, for renders of every     *)
(* length and every blend count. The invariant: what lies ahead on disk is *)
(* still original, what is in the cache is an original, and the cache      *)
(* holds the whole window of the image that was blended last, which is all *)
(* of the next window that has been replaced on disk.                      *)
(***************************************************************************)

AheadOriginal == \A i \in Images : i >= next => onDisk[i] = {i}

CacheOriginal == \A i \in DOMAIN decoded : decoded[i] = {i}

\* The window of the image that was blended last
Reached == {j \in Used : next - 1 - Half <= j /\ j <= next - 1 + Half}

CacheIsWindow == DOMAIN decoded = IF next = 0 THEN {} ELSE Reached

Blended == next > 0 /\ next - 1 \notin render.broken
               => blended = {{j} : j \in Window(next - 1) \ render.broken}

NotStarted == render.n = 0 => next = 0

BlurInv ==
    /\ BlurTypeOK
    /\ NotStarted
    /\ AheadOriginal
    /\ CacheOriginal
    /\ CacheIsWindow
    /\ Blended

-----------------------------------------------------------------------------

LEMMA HalfNat == BlurTypeOK => Half \in Nat
  <1>1. ASSUME NEW b \in Nat  PROVE b \div 2 \in Nat
    OBVIOUS
  <1>2. BlurTypeOK => render.blend \in Nat
    <2>1. Blends \cup {0} \subseteq Nat
      BY MotionBlurAssumption
    <2>2. BlurTypeOK => render.blend \in Blends \cup {0}
      BY DEF BlurTypeOK
    <2> QED
      BY <2>1, <2>2
  <1> QED
    BY <1>1, <1>2 DEF Half

LEMMA InitBlur == BlurInit => BlurInv
  <1> SUFFICES ASSUME BlurInit  PROVE BlurInv
    OBVIOUS
  <1> USE MotionBlurAssumption
  <1>1. /\ render.n = 0 /\ next = 0
        /\ decoded = [i \in {} |-> {}]
        /\ onDisk = [i \in Images |-> {i}]
    BY DEF BlurInit
  <1>2. BlurTypeOK
    <2>1. render \in [n : 0 .. MaxImages, blend : Blends \cup {0},
                      broken : SUBSET Images]
      BY DEF BlurInit
    <2>2. onDisk \in [Images -> SUBSET Images]
      BY <1>1
    <2>3. aborted \in BOOLEAN /\ blended \subseteq SUBSET Images
      BY DEF BlurInit
    <2> QED
      BY <1>1, <2>1, <2>2, <2>3 DEF BlurTypeOK
  <1> QED
    BY <1>1, <1>2
       DEF BlurInv, NotStarted, AheadOriginal, CacheOriginal, CacheIsWindow, Blended

\* The cache after image next was taken: its window, all of it original.
LEMMA WindowDecoded ==
  ASSUME BlurInv, next < render.n
  PROVE  /\ DOMAIN Decoded(next) = Window(next)
         /\ \A j \in Window(next) : Decoded(next)[j] = {j}
         /\ Window(next) \subseteq Images
  <1>1. /\ render.n \in 0 .. MaxImages /\ next \in Nat /\ MaxImages \in Nat
        /\ Half \in Nat
    BY HalfNat, MotionBlurAssumption DEF BlurInv, BlurTypeOK
  <1>2. Window(next) \subseteq Images
    BY <1>1 DEF Window, Used, Images
  <1>3. Kept(next) \subseteq Window(next)
    BY <1>1 DEF BlurInv, CacheIsWindow, Reached, Kept, Window, Used
  <1>4. \A j \in Window(next) : j \notin Kept(next) => j >= next
    BY <1>1 DEF BlurInv, CacheIsWindow, Reached, Kept, Window, Used
  <1>5. \A j \in Kept(next) : decoded[j] = {j}
    BY DEF BlurInv, CacheOriginal, Kept
  <1>6. \A j \in Window(next) : j \notin Kept(next) => onDisk[j] = {j}
    BY <1>2, <1>4 DEF BlurInv, AheadOriginal
  <1> QED
    BY <1>2, <1>3, <1>5, <1>6 DEF Decoded

LEMMA NextBlur == BlurInv /\ [BlurNext]_blurVars => BlurInv'
  <1> SUFFICES ASSUME BlurInv, [BlurNext]_blurVars
               PROVE  BlurInv'
    OBVIOUS
  <1> USE MotionBlurAssumption
  <1>1. CASE BlurStarts
    <2>1. /\ render' \in [n : 2 .. MaxImages, blend : Blends, broken : SUBSET Images]
          /\ next = 0 /\ next' = 0
          /\ UNCHANGED <<onDisk, decoded, blended, aborted>>
      BY <1>1 DEF BlurStarts, BlurInv, NotStarted
    <2>2. BlurTypeOK'
      BY <2>1 DEF BlurInv, BlurTypeOK
    <2> QED
      BY <2>1, <2>2
         DEF BlurInv, NotStarted, AheadOriginal, CacheOriginal, CacheIsWindow, Blended
  <1>2. CASE Blend
    <2> DEFINE parts == {Decoded(next)[j] : j \in Window(next) \ render.broken}
    <2>1. /\ next < render.n /\ next' = next + 1
          /\ decoded' = Decoded(next)
          /\ IF next \in render.broken THEN UNCHANGED <<onDisk, blended>>
             ELSE /\ blended' = parts
                  /\ onDisk' = [onDisk EXCEPT ![next] = UNION parts]
          /\ UNCHANGED <<render, aborted>>
      BY <1>2 DEF Blend
    <2>2. /\ render.n \in 0 .. MaxImages /\ next \in Nat /\ MaxImages \in Nat
          /\ Half \in Nat /\ next' - 1 = next
      BY <2>1, HalfNat DEF BlurInv, BlurTypeOK
    <2>3. /\ DOMAIN decoded' = Window(next)
          /\ \A j \in Window(next) : decoded'[j] = {j}
          /\ Window(next) \subseteq Images
      BY <2>1, WindowDecoded
    <2>4. parts = {{j} : j \in Window(next) \ render.broken}
      BY <2>1, <2>3
    <2> HIDE DEF parts
    <2>5. BlurTypeOK'
      <3>1. render' \in [n : 0 .. MaxImages, blend : Blends \cup {0},
                         broken : SUBSET Images]
        BY <2>1 DEF BlurInv, BlurTypeOK
      <3>2. /\ DOMAIN decoded' \subseteq Images
            /\ \A i \in DOMAIN decoded' : decoded'[i] \subseteq Images
        BY <2>3
      <3>3. parts \subseteq SUBSET Images /\ UNION parts \subseteq Images
        BY <2>3, <2>4
      <3>4. onDisk' \in [Images -> SUBSET Images] /\ blended' \subseteq SUBSET Images
        BY <2>1, <3>3 DEF BlurInv, BlurTypeOK
      <3>5. next' \in 0 .. MaxImages /\ aborted' \in BOOLEAN
        BY <2>1, <2>2 DEF BlurInv, BlurTypeOK
      <3> QED
        BY <3>1, <3>2, <3>4, <3>5 DEF BlurTypeOK
    <2>6. NotStarted' /\ CacheOriginal'
      BY <2>1, <2>2, <2>3 DEF NotStarted, CacheOriginal
    <2>7. AheadOriginal'
      BY <2>1, <2>2 DEF BlurInv, BlurTypeOK, AheadOriginal, Images
    <2>8. Half' = Half /\ Used' = Used
      BY <2>1 DEF Half, Used
    <2>9. CacheIsWindow'
      BY <2>1, <2>2, <2>3, <2>8 DEF CacheIsWindow, Reached, Window
    <2>10. Blended'
      BY <2>1, <2>2, <2>4, <2>8 DEF Blended, Window
    <2> QED
      BY <2>5, <2>6, <2>7, <2>9, <2>10 DEF BlurInv
  <1>3. CASE BlurCancelled
    BY <1>3
       DEF BlurCancelled, BlurInv, BlurTypeOK, NotStarted, AheadOriginal,
           CacheOriginal, CacheIsWindow, Reached, Blended, Window, Used, Half
  <1>4. CASE UNCHANGED blurVars
    BY <1>4
       DEF blurVars, BlurInv, BlurTypeOK, NotStarted, AheadOriginal,
           CacheOriginal, CacheIsWindow, Reached, Blended, Window, Used, Half
  <1> QED
    BY <1>1, <1>2, <1>3, <1>4 DEF BlurNext

LEMMA BlurInvariant == BlurSpec => []BlurInv
  BY InitBlur, NextBlur, PTL DEF BlurSpec

\* The cache never outgrows a window.
LEMMA CacheBounded == BlurInv => Cardinality(DOMAIN decoded) <= 2 * Half + 1
  <1> SUFFICES ASSUME BlurInv  PROVE Cardinality(DOMAIN decoded) <= 2 * Half + 1
    OBVIOUS
  <1>1. next \in Nat /\ Half \in Nat
    BY HalfNat DEF BlurInv, BlurTypeOK
  <1> DEFINE around == (next - 1 - Half) .. (next - 1 + Half)
  <1>2. IsFiniteSet(around) /\ Cardinality(around) = 2 * Half + 1
    BY <1>1, FS_Interval
  <1>3. DOMAIN decoded \subseteq around
    BY <1>1, MotionBlurAssumption
       DEF BlurInv, BlurTypeOK, CacheIsWindow, Reached, Used
  <1> QED
    BY <1>1, <1>2, <1>3, FS_Subset, FS_CardinalityType

\* In a render of any length, with any blend count and whatever images cannot
\* be decoded, each average is made of the original images of its window, and
\* the cache of decoded images holds no more than a window (apply_motion_blur).
THEOREM OriginalsBlended == BlurSpec => []BlurReadsOriginals
  <1>1. BlurInv => BlurReadsOriginals
    BY CacheBounded DEF BlurInv, Blended, BlurReadsOriginals
  <1> QED  BY <1>1, BlurInvariant, PTL
=============================================================================
