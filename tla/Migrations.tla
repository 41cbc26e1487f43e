---------------------------- MODULE Migrations ----------------------------
(***************************************************************************)
(* run_migrations at every boot: the files not yet recorded are executed   *)
(* statement by statement, each file ends with its record, and one commit  *)
(* ends the run.  A boot may be cut off at any statement and is repeated.  *)
(*                                                                         *)
(* Transactions are those of the sqlite3 driver: a statement that defines  *)
(* an object takes effect at once as long as no transaction is open; the   *)
(* first one that writes rows, the record of a file included, opens the    *)
(* transaction that covers everything up to the commit.                    *)
(***************************************************************************)
EXTENDS Integers, Sequences

CONSTANTS
    Files,     \* the files of the newest image: their statements in order
    MaxFailures  \* bound: boots that are cut off

ASSUME MigrationsAssumption ==
    /\ Files \in Seq(Seq({"object", "rows"})) /\ Files # << >>
    /\ MaxFailures \in Nat

VARIABLES
    image,     \* how many files the installed image has
    durable,   \* the database after a crash
    view,      \* the database as the open connection sees it
    inTx,      \* the connection has a transaction open
    boot,      \* run_migrations: the file and the statement it is at
    failed

migrationVars == <<image, durable, view, inTx, boot, failed>>

Statements == UNION {{f} \X (1 .. Len(Files[f])) : f \in 1 .. Len(Files)}

\* Which files are recorded, and how often each statement took effect.
Database == [recorded : SUBSET (1 .. Len(Files)), effects : [Statements -> Nat]]

Down == [pc |-> "down", file |-> 0, at |-> 0, todo |-> {}]

MigrationsInit ==
    /\ image = 1
    /\ durable = [recorded |-> {}, effects |-> [s \in Statements |-> 0]]
    /\ view = durable
    /\ inTx = FALSE
    /\ boot = [Down EXCEPT !.pc = "new"]
    /\ failed = 0

-----------------------------------------------------------------------------

\* f is the file to go on with, 0 if none is left: they are taken by number.
GoesOn(f, todo) ==
    \/ f = 0 /\ todo = {}
    \/ f \in todo /\ \A g \in todo : f <= g

\* Boot: the recorded files are read once, in autocommit.
BootStarts ==
    /\ boot.pc \in {"new", "down"}
    /\ LET todo == (1 .. image) \ durable.recorded
       IN  \E f \in todo \cup {0} :
               /\ GoesOn(f, todo)
               /\ boot' = [pc |-> "running", file |-> f, at |-> 1, todo |-> todo]
    /\ UNCHANGED <<image, durable, view, inTx, failed>>

\* What a statement leaves behind, if the transaction is open or not.
Becomes(db, open) ==
    /\ view' = db
    /\ inTx' = open
    /\ durable' = IF open THEN durable ELSE db

\* Mutant: a driver that opens no transaction of its own.
OpensTx_Never(kind) == FALSE

\* The driver's implicit BEGIN
OpensTx(kind) == inTx \/ kind = "rows"

\* Mutant: a statement replayed on its own effect fails like any other.
Tolerated_Not(s) == FALSE

\* "already exists", "duplicate column name", "no such column": the object is
\* in its target state, and the statement is passed over.
Tolerated(s) == view.effects[s] > 0

Executes ==
    /\ boot.pc = "running" /\ boot.file > 0
    /\ boot.at <= Len(Files[boot.file])
    /\ LET s == <<boot.file, boot.at>>
           kind == Files[boot.file][boot.at]
       IN  \/ /\ kind = "object" /\ view.effects[s] > 0 /\ Tolerated(s)
              /\ UNCHANGED <<durable, view, inTx>>
           \/ /\ kind = "rows" \/ view.effects[s] = 0
              /\ Becomes([view EXCEPT !.effects[s] = @ + 1], OpensTx(kind))
    /\ boot' = [boot EXCEPT !.at = @ + 1]
    /\ UNCHANGED <<image, failed>>

\* INSERT INTO _migrations
Records ==
    /\ boot.pc = "running" /\ boot.file > 0
    /\ boot.at = Len(Files[boot.file]) + 1
    /\ Becomes([view EXCEPT !.recorded = @ \cup {boot.file}], OpensTx("rows"))
    /\ \E f \in boot.todo \cup {0} :
           /\ GoesOn(f, boot.todo \ {boot.file})
           /\ boot' = [boot EXCEPT !.todo = @ \ {boot.file}, !.at = 1, !.file = f]
    /\ UNCHANGED <<image, failed>>

\* The end of engine.begin(); the application goes on to serve.
Commits ==
    /\ boot.pc = "running" /\ boot.todo = {}
    /\ durable' = view
    /\ inTx' = FALSE
    /\ boot' = [boot EXCEPT !.pc = "serving"]
    /\ UNCHANGED <<image, view, failed>>

\* A statement or the commit fails, or the process dies: the open transaction
\* is rolled back and the container starts over.
BootFails ==
    /\ boot.pc = "running" /\ failed < MaxFailures
    /\ failed' = failed + 1
    /\ view' = durable
    /\ inTx' = FALSE
    /\ boot' = Down
    /\ UNCHANGED <<image, durable>>

\* A restart, with the same image or one that has more files.
Upgrades ==
    /\ boot.pc = "serving"
    /\ image < Len(Files)
    /\ image' \in image + 1 .. Len(Files)
    /\ boot' = Down
    /\ UNCHANGED <<durable, view, inTx, failed>>

MigrationsNext ==
    \/ BootStarts
    \/ Executes
    \/ Records
    \/ Commits
    \/ BootFails
    \/ Upgrades

MigrationsSpec == MigrationsInit /\ [][MigrationsNext]_migrationVars

-----------------------------------------------------------------------------
(* Properties *)

\* Every variable keeps to its type.
MigrationsTypeOK ==
    /\ image \in 1 .. Len(Files)
    /\ durable \in Database /\ view \in Database
    /\ inTx \in BOOLEAN
    /\ boot \in [pc : {"new", "down", "running", "serving"},
                 file : 0 .. Len(Files), at : Nat, todo : SUBSET (1 .. Len(Files))]
    /\ failed \in 0 .. MaxFailures

\* Wherever boots were cut off: a file that is recorded has taken effect in
\* full, and one that is not has written no rows, so that the statements which
\* are not idempotent (004 clears the stream URLs, 029 rewrites the printer
\* settings) are executed once.
RecordedIsComplete ==
    \A s \in Statements :
        /\ s[1] \in durable.recorded => durable.effects[s] = 1
        /\ s[1] \notin durable.recorded /\ Files[s[1]][s[2]] = "rows"
               => durable.effects[s] = 0

\* A database left halfway by a boot that was cut off converges: a later boot
\* brings the application up ("lets it converge instead of boot-looping on the
\* already-applied prefix", runner.py:55-56).
BootConverges == boot.pc = "down" ~> boot.pc = "serving"
=============================================================================
