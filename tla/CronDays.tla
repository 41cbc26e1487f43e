------------------------------ MODULE CronDays ------------------------------
(***************************************************************************)
(* The day-of-week field of a schedule: written in the dialect of cron,    *)
(* translated for APScheduler, which numbers the week from Monday.  A      *)
(* field is translated when a job is added for it.                         *)
(*                                                                         *)
(* A field is a sequence of tokens; a day's name is kept as its number in  *)
(* the week of cron.                                                       *)
(***************************************************************************)
EXTENDS Integers, Sequences

CONSTANTS
    MaxTokens,  \* bound: tokens of a field
    MaxStep,    \* bound: the step of a token
    Listed      \* bound: tokens in a field of more than one

VARIABLES
    field,  \* the stored field
    jobDays \* the days APScheduler was given: where the translation stands

cronVars == <<field, jobDays>>

WeekDays == 0 .. 6

\* A number, a name, or a range of numbers or a star with a step.
Tokens ==
    [kind : {"number"}, from : 0 .. 7, to : {0}, step : {1}]
        \cup [kind : {"range"}, from : 0 .. 7, to : 0 .. 7, step : 1 .. MaxStep]
        \cup [kind : {"star"}, from : {0}, to : {0}, step : 1 .. MaxStep]
        \cup [kind : {"name"}, from : WeekDays, to : {0}, step : {1}]

ASSUME CronDaysAssumption ==
    /\ MaxTokens \in Nat \ {0} /\ MaxStep \in Nat \ {0}
    /\ Listed \subseteq Tokens

CronFields == [1 .. 1 -> Tokens]
                  \cup UNION {[1 .. n -> Listed] : n \in 2 .. MaxTokens}

\* A token without a digit; a star with a step of one is a bare star.
Wordy(token) ==
    token.kind = "name" \/ (token.kind = "star" /\ token.step = 1)

CronInit ==
    /\ field = << >>
    /\ jobDays = [at |-> 1, days |-> {}, given |-> FALSE]

\* A request stores a schedule.
FieldStored ==
    /\ field = << >>
    /\ field' \in CronFields
    /\ UNCHANGED jobDays

-----------------------------------------------------------------------------
(* normalize_cron_day_of_week *)

\* Mutant: the numbers of a token are kept as they are.
Expands_FromMonday(token) ==
    LET first == IF token.kind = "star" THEN 0 ELSE token.from % 7
        span  == CASE token.kind = "star"  -> 7
                   [] token.kind = "range" ->
                          (((token.to % 7) - first) % 7) + 1
                   [] OTHER -> 1
    IN  {(first + 1 + o) % 7 : o \in {k \in 0 .. span - 1 : k % token.step = 0}}

\* Mutant: the walk is not taken modulo the week.
Expands_Unfolded(token) ==
    LET first == IF token.kind = "star" THEN 0 ELSE token.from % 7
        span  == CASE token.kind = "star"  -> 7
                   [] token.kind = "range" ->
                          (((token.to % 7) - first) % 7) + 1
                   [] OTHER -> 1
    IN  {first + o : o \in {k \in 0 .. span - 1 : k % token.step = 0}}

\* _parse_dow folds 7 onto 0; from there the walk goes forward to the last day.
Expands(token) ==
    LET first == IF token.kind = "star" THEN 0 ELSE token.from % 7
        span  == CASE token.kind = "star"  -> 7
                   [] token.kind = "range" ->
                          (((token.to % 7) - first) % 7) + 1
                   [] OTHER -> 1
    IN  {(first + o) % 7 : o \in {k \in 0 .. span - 1 : k % token.step = 0}}

Token == field[jobDays.at]

ExpandsToken ==
    /\ ~jobDays.given /\ jobDays.at <= Len(field) /\ ~Wordy(Token)
    /\ jobDays' = [jobDays EXCEPT !.at = @ + 1, !.days = @ \cup Expands(Token)]
    /\ UNCHANGED field

\* What APScheduler makes of a token as it stands: its numbers begin with
\* Monday, and it refuses a 7 and a range that wraps.
AsGiven(token) ==
    IF token.kind = "name" THEN {token.from}
    ELSE IF token.kind = "star"
    THEN {(d + 1) % 7 : d \in {k \in WeekDays : k % token.step = 0}}
    ELSE LET last == IF token.kind = "range" THEN token.to ELSE token.from
         IN  {(d + 1) % 7 : d \in {k \in token.from .. last :
                                      k \in WeekDays
                                        /\ (k - token.from) % token.step = 0}}

\* The first token with no digit in it: the field is passed on as it stands.
PassesThrough ==
    /\ ~jobDays.given /\ jobDays.at <= Len(field) /\ Wordy(Token)
    /\ jobDays' = [jobDays EXCEPT
           !.days = UNION {AsGiven(field[n]) : n \in 1 .. Len(field)},
           !.given = TRUE]
    /\ UNCHANGED field

JobGetsDays ==
    /\ field # << >> /\ ~jobDays.given /\ jobDays.at > Len(field)
    /\ jobDays' = [jobDays EXCEPT !.given = TRUE]
    /\ UNCHANGED field

CronNext == FieldStored \/ ExpandsToken \/ PassesThrough \/ JobGetsDays

CronSpec == CronInit /\ [][CronNext]_cronVars

-----------------------------------------------------------------------------
(* Properties *)

\* Every variable keeps to its type.
CronTypeOK ==
    /\ field \in Seq(Tokens) /\ Len(field) \in 0 .. MaxTokens
    /\ jobDays \in [at : 1 .. MaxTokens + 1, days : SUBSET WeekDays,
                    given : BOOLEAN]

\* The days a token means in cron: 0 and 7 are both Sunday, and a range whose
\* end lies before its start runs on into the next week.
Means(token) ==
    CASE token.kind \in {"number", "name"} -> {token.from % 7}
      [] token.kind = "star" -> {d \in WeekDays : d % token.step = 0}
      [] token.kind = "range" ->
             LET last == IF token.to < token.from THEN token.to + 7 ELSE token.to
             IN  {d \in WeekDays : \E k \in token.from .. last :
                      k % 7 = d /\ (k - token.from) % token.step = 0}

Uniform == \/ \A n \in 1 .. Len(field) : Wordy(field[n])
           \/ \A n \in 1 .. Len(field) : ~Wordy(field[n])

\* The whole week and a day over, as in 0-7, ends on the day it begins with and
\* is taken for that day alone.
WholeWeek(token) == token.kind = "range" /\ token.from = 0 /\ token.to = 7

\* A schedule runs on the days its expression means in cron, with any range
\* that wraps and either number of Sunday ("sidesteps three incompatibilities
\* at once", cron_utils.py:19) - for a field of names or of numbers, 0-7 apart.
DaysOfWeekKept ==
    jobDays.given /\ Uniform /\ (\A n \in 1 .. Len(field) : ~WholeWeek(field[n]))
        => jobDays.days = UNION {Means(field[n]) : n \in 1 .. Len(field)}

\* The same for a field that mixes names and numbers, 0-7 apart ("so '0,sun'
\* collapses cleanly", cron_utils.py:48).  Not so: such a field is passed on as
\* it stands, and its numbers are off by a day.
MixedFieldsKept ==
    jobDays.given /\ (\A n \in 1 .. Len(field) : ~WholeWeek(field[n]))
        => jobDays.days = UNION {Means(field[n]) : n \in 1 .. Len(field)}
=============================================================================
