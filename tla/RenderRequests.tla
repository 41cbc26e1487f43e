--------------------------- MODULE RenderRequests ---------------------------
(***************************************************************************)
(* What the generation queue promises to those who ask for a timelapse:    *)
(* one render at a time, in the order of the requests; a request that was  *)
(* withdrawn while it waited never runs; each request ends once, in one    *)
(* way; a restart loses what waits and what runs.                          *)
(***************************************************************************)
EXTENDS Integers, Sequences, SequencesExt

CONSTANTS Jobs, NoJob

VARIABLES
    waiting, \* requests not begun, oldest first
    running, \* the request being rendered
    ended    \* how a request ended, "no" while it has not

vars == <<waiting, running, ended>>

Ends == {"complete", "cancelled", "failed", "lost"}

Init ==
    /\ waiting = <<>>
    /\ running = NoJob
    /\ ended = [j \in Jobs |-> "no"]

Submit(j) ==
    /\ ended[j] = "no" /\ j # running /\ ~Contains(waiting, j)
    /\ waiting' = Append(waiting, j)
    /\ UNCHANGED <<running, ended>>

Begin ==
    /\ running = NoJob /\ waiting # <<>>
    /\ running' = Head(waiting)
    /\ waiting' = Tail(waiting)
    /\ UNCHANGED ended

\* A request may fail in the step that begins it.
BeginAndFail ==
    /\ running = NoJob /\ waiting # <<>>
    /\ waiting' = Tail(waiting)
    /\ ended' = [ended EXCEPT ![Head(waiting)] = "failed"]
    /\ UNCHANGED running

End(outcome) ==
    /\ running # NoJob
    /\ ended' = [ended EXCEPT ![running] = outcome]
    /\ running' = NoJob
    /\ UNCHANGED waiting

Withdraw(j) ==
    /\ \E i \in 1 .. Len(waiting) :
           waiting[i] = j /\ waiting' = RemoveAt(waiting, i)
    /\ ended' = [ended EXCEPT ![j] = "cancelled"]
    /\ UNCHANGED running

Lose ==
    /\ ended' = [j \in Jobs |-> IF j = running \/ Contains(waiting, j)
                                THEN "lost" ELSE ended[j]]
    /\ waiting' = <<>>
    /\ running' = NoJob

Next ==
    \/ \E j \in Jobs : Submit(j) \/ Withdraw(j)
    \/ Begin
    \/ BeginAndFail
    \/ \E outcome \in Ends \ {"lost"} : End(outcome)
    \/ Lose

Spec == Init /\ [][Next]_vars
=============================================================================
