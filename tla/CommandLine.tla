---------------------------- MODULE CommandLine ----------------------------
(***************************************************************************)
(* The commands of ragpipe/cli.py: what each does in which order, which    *)
(* exceptions its except clauses catch, what it prints, its exit code, and *)
(* whether its connection pool is closed.  Several commands run at a time  *)
(* while the schema is migrated; syncs share the lock of SyncRuns.         *)
(*                                                                         *)
(* An exception is a value in "error" on its way to an except clause.  The *)
(* user may interrupt a command (KeyboardInterrupt) once, at any moment    *)
(* until it has ended, in an except clause and in finally as well.         *)
(***************************************************************************)
EXTENDS Integers, Sequences

CONSTANTS Procs,          \* processes
          Nobody,         \* the lock is free
          MaxCommands,    \* bound: commands that are started
          MaxMigrations   \* bound: changes of the schema

ASSUME NobodyIsNoProcess == Nobody \notin Procs

VARIABLES
  schema,      \* initialize() would accept the schema
  lock,        \* the process whose sync holds the lock
  cli,         \* what each process does
  started,     \* commands so far
  migrations   \* schema changes so far

CliVars == <<schema, lock, cli, started, migrations>>

Commands == {"sync", "search", "evaluate", "runs", "metrics",
             "serve-metrics", "status"}
Errors == {"none", "usage", "dataset", "schema", "busy", "failed",
           "interrupt", "other"}
Stages == {"new", "arguments", "settings", "dataset", "open", "initialize",
           "work", "syncing", "output", "handling", "closing", "exited"}

(* pool: none, open, closed, or abandoned by a close() that was            *)
(* interrupted; assigned: the variable store of the command has its value; *)
(* printed: the result is on standard output; stderr: what is on the       *)
(* other; committed: the sync changed the corpus.                          *)
Process == [command : Commands, stage : Stages,
            pool : {"none", "open", "closed", "abandoned"}, assigned : BOOLEAN,
            error : Errors, printed : BOOLEAN,
            stderr : {"empty", "report", "usage", "traceback"},
            committed : BOOLEAN, code : {0, 1, 2, 3, 4, 130}]

Begun(command) ==
  [command |-> command, stage |-> "arguments", pool |-> "none",
   assigned |-> FALSE, error |-> "none", printed |-> FALSE,
   stderr |-> "empty", committed |-> FALSE, code |-> 0]

(* The stages of a command that meets no exception.                        *)
Order(command) ==
  IF command = "evaluate"
  THEN <<"arguments", "settings", "dataset", "open", "initialize", "work", "output">>
  ELSE <<"arguments", "settings", "open", "initialize", "work", "output">>

StageAfter(r) ==
  LET order == Order(r.command)
      i == CHOOSE i \in DOMAIN order : order[i] = r.stage
  IN  order[i + 1]

(* The except clauses around everything that follows the settings.         *)
Catches(command) ==
  {"schema"} \cup CASE command = "sync" -> {"busy", "failed"}
                    [] command = "status" -> {}
                    [] command = "evaluate" -> {"dataset", "other"}
                    [] command = "serve-metrics" -> {"interrupt", "other"}
                    [] OTHER -> {"other"}

(* Mutant of Code: the two errors of a sync are taken for one another.     *)
CodeOfSiblings(error, caught) ==
  CASE error = "none" -> 0
    [] error \in {"usage", "schema"} -> 2
    [] error = "failed" -> 3
    [] error = "dataset" -> 4
    [] error = "interrupt" -> IF caught THEN 0 ELSE 130
    [] OTHER -> 1

(* typer turns a usage error into 2 and an interrupt into 130; an uncaught *)
(* exception ends Python with 1.                                           *)
Code(error, caught) ==
  CASE error = "none" -> 0
    [] error \in {"usage", "schema"} -> 2
    [] error = "busy" -> 3
    [] error = "dataset" -> 4
    [] error = "interrupt" -> IF caught THEN 0 ELSE 130
    [] OTHER -> 1

-----------------------------------------------------------------------------
CliInit ==
  /\ schema \in BOOLEAN
  /\ lock = Nobody
  /\ cli = [p \in Procs |-> [Begun("status") EXCEPT !.stage = "new"]]
  /\ started = 0
  /\ migrations = 0

Unstarted == UNCHANGED <<schema, started, migrations>>

Proceed(p, r) == cli' = [cli EXCEPT ![p] = r] /\ Unstarted

(* An exception: outside the try statement it ends the command.            *)
Raised(r, error) ==
  IF r.stage \in {"arguments", "settings"}
  THEN [r EXCEPT !.stage = "exited", !.error = error,
                 !.code = Code(error, FALSE),
                 !.stderr = IF error = "usage" THEN "usage" ELSE "traceback"]
  ELSE [r EXCEPT !.stage = "handling", !.error = error]

Passed(r) == [r EXCEPT !.stage = StageAfter(r)]

MigrateSchema ==
  /\ migrations < MaxMigrations
  /\ migrations' = migrations + 1
  /\ schema' = ~schema
  /\ UNCHANGED <<lock, cli, started>>

Start(p) ==
  /\ cli[p].stage \in {"new", "exited"} /\ started < MaxCommands
  /\ started' = started + 1
  /\ \E command \in Commands : cli' = [cli EXCEPT ![p] = Begun(command)]
  /\ UNCHANGED <<schema, lock, migrations>>

(* typer's parameters, and BadParameter of the commands; sync also makes a *)
(* client for S3, whose exceptions nobody catches.                         *)
CheckArguments(p) ==
  /\ cli[p].stage = "arguments"
  /\ \/ Proceed(p, Passed(cli[p]))
     \/ Proceed(p, Raised(cli[p], "usage"))
     \/ cli[p].command = "sync" /\ Proceed(p, Raised(cli[p], "other"))
  /\ UNCHANGED lock

(* Settings() and configure_logging(), before the try statement.           *)
LoadSettings(p) ==
  /\ cli[p].stage = "settings"
  /\ Proceed(p, Passed(cli[p])) \/ Proceed(p, Raised(cli[p], "other"))
  /\ UNCHANGED lock

LoadDataset(p) ==
  /\ cli[p].stage = "dataset"
  /\ Proceed(p, Passed(cli[p])) \/ Proceed(p, Raised(cli[p], "dataset"))
  /\ UNCHANGED lock

(* make_store: PgVectorStore(database_url) ...                             *)
OpenPool(p) ==
  /\ cli[p].stage = "open"
  /\ Proceed(p, [Passed(cli[p]) EXCEPT !.pool = "open"])
  /\ UNCHANGED lock

(* ... and initialize(), whose exceptions close the store.                 *)
Initialize(p) ==
  /\ cli[p].stage = "initialize"
  /\ schema
  /\ Proceed(p, [Passed(cli[p]) EXCEPT !.assigned = TRUE])
  /\ UNCHANGED lock

(* Mutant of AfterFailedInitialize: the store is not closed.               *)
LeftOpen(r) == r

AfterFailedInitialize(r) == [r EXCEPT !.pool = "closed"]

InitializeFails(p) ==
  /\ cli[p].stage = "initialize"
  /\ \E error \in {"other"} \cup (IF schema THEN {} ELSE {"schema"}) :
       Proceed(p, AfterFailedInitialize(Raised(cli[p], error)))
  /\ UNCHANGED lock

(* The call in the middle of the commands that only read.  serve-metrics   *)
(* does not return from it.                                                *)
Read(p) ==
  /\ cli[p].stage = "work" /\ cli[p].command # "sync"
  /\ \/ cli[p].command # "serve-metrics" /\ Proceed(p, Passed(cli[p]))
     \/ Proceed(p, Raised(cli[p], "other"))
  /\ UNCHANGED lock

(* SyncPipeline.sync: the lock is taken, or held by another process, or    *)
(* the attempt is an error of its own.                                     *)
StartSync(p) ==
  /\ cli[p].stage = "work" /\ cli[p].command = "sync"
  /\ \/ /\ lock = Nobody /\ lock' = p
        /\ Proceed(p, [cli[p] EXCEPT !.stage = "syncing"])
     \/ /\ lock # Nobody /\ UNCHANGED lock
        /\ Proceed(p, Raised(cli[p], "busy"))
     \/ UNCHANGED lock /\ Proceed(p, Raised(cli[p], "other"))

(* The lock after p has left sync_lock, or ended its session.              *)
Unlocked(p) == IF lock = p THEN Nobody ELSE lock

(* The sync returns its result or raises: SyncFailedError, also when the   *)
(* commit succeeded unseen, or the exception of an unlock that failed.     *)
EndSync(p) ==
  /\ cli[p].stage = "syncing"
  /\ \/ Proceed(p, [cli[p] EXCEPT !.stage = "output", !.committed = TRUE])
     \/ \E error \in {"failed", "other"}, committed \in BOOLEAN :
          Proceed(p, [Raised(cli[p], error) EXCEPT !.committed = committed])
  /\ lock' = Unlocked(p)

(* typer.echo of the result.                                               *)
PrintResult(p) ==
  /\ cli[p].stage = "output"
  /\ \/ Proceed(p, [cli[p] EXCEPT !.printed = TRUE, !.stage = "closing"])
     \/ Proceed(p, Raised(cli[p], "other"))
  /\ UNCHANGED lock

(* The session keeps the lock if the interrupt comes between               *)
(* pg_try_advisory_lock and the try statement after it, or in the unlock.  *)
LocksAfterInterrupt(p) ==
  IF \/ cli[p].stage = "syncing"
     \/ cli[p].stage = "work" /\ cli[p].command = "sync" /\ lock = Nobody
  THEN {Nobody, p} ELSE {lock}

(* KeyboardInterrupt is no Exception: make_store does not close the pool,  *)
(* sync() records no failure and sync_lock does not close the session.  A  *)
(* sync may have committed when it arrives.                                *)
Interrupt(p) ==
  /\ cli[p].stage \notin {"new", "handling", "closing", "exited"}
  /\ \E committed \in IF cli[p].stage = "syncing" THEN BOOLEAN
                      ELSE {cli[p].committed} :
       Proceed(p, [Raised(cli[p], "interrupt") EXCEPT !.committed = committed])
  /\ lock' \in LocksAfterInterrupt(p)

(* It comes while an except clause reports another exception ...           *)
InterruptHandler(p) ==
  /\ cli[p].stage = "handling" /\ cli[p].error # "interrupt"
  /\ Proceed(p, [cli[p] EXCEPT !.stage = "closing", !.error = "interrupt",
                   !.code = Code("interrupt", FALSE), !.stderr = "traceback"])
  /\ UNCHANGED lock

(* ... or in finally, where close() may not come to its end.               *)
InterruptClose(p) ==
  /\ cli[p].stage = "closing" /\ cli[p].error # "interrupt"
  /\ Proceed(p, [cli[p] EXCEPT !.stage = "exited", !.error = "interrupt",
                   !.code = Code("interrupt", FALSE), !.stderr = "traceback",
                   !.pool = IF cli[p].assigned THEN "abandoned" ELSE @])
  /\ UNCHANGED lock

(* The except clauses.                                                     *)
Handle(p) ==
  LET caught == cli[p].error \in Catches(cli[p].command)
  IN  /\ cli[p].stage = "handling"
      /\ Proceed(p, [cli[p] EXCEPT !.stage = "closing",
                       !.code = Code(cli[p].error, caught),
                       !.stderr = IF caught THEN "report" ELSE "traceback"])
      /\ UNCHANGED lock

(* finally: if store is not None, store.close(); it ends the sessions.     *)
Close(p) ==
  /\ cli[p].stage = "closing"
  /\ Proceed(p, [cli[p] EXCEPT !.stage = "exited",
                   !.pool = IF cli[p].assigned THEN "closed" ELSE @])
  /\ lock' = Unlocked(p)

CliNext ==
  \/ MigrateSchema
  \/ \E p \in Procs :
       \/ Start(p) \/ CheckArguments(p) \/ LoadSettings(p) \/ LoadDataset(p)
       \/ OpenPool(p) \/ Initialize(p) \/ InitializeFails(p)
       \/ Read(p) \/ StartSync(p) \/ EndSync(p) \/ PrintResult(p)
       \/ Interrupt(p) \/ InterruptHandler(p) \/ InterruptClose(p)
       \/ Handle(p) \/ Close(p)

CliSpec == CliInit /\ [][CliNext]_CliVars

-----------------------------------------------------------------------------
(* Types; a command works only with a store that initialize() accepted.    *)
CliTypeOK ==
  /\ schema \in BOOLEAN
  /\ lock \in Procs \cup {Nobody}
  /\ cli \in [Procs -> Process]
  /\ \A p \in Procs : cli[p].stage \in {"work", "syncing", "output"} =>
       cli[p].assigned /\ cli[p].pool = "open"

Exited(p) == cli[p].stage = "exited"

(* However a command ends, its pool is closed, unless it was interrupted   *)
(* while make_store was checking the schema, or close() was at work.       *)
PoolsAreClosed ==
  \A p \in Procs :
    /\ Exited(p) /\ cli[p].pool = "open" =>
         cli[p].error = "interrupt" /\ ~cli[p].assigned
    /\ cli[p].pool = "abandoned" => Exited(p) /\ cli[p].code = 130

(* Exit code 0: the whole result is on standard output and nothing on the  *)
(* other, and a sync has committed.  The exporter ends by an interrupt.    *)
ZeroMeansDone ==
  \A p \in Procs :
    (Exited(p) /\ cli[p].code = 0) =>
      IF cli[p].command = "serve-metrics" THEN cli[p].error = "interrupt"
      ELSE /\ cli[p].printed /\ cli[p].stderr = "empty"
           /\ cli[p].command = "sync" => cli[p].committed

(* Exit codes 2, 3 and 4 promise an orchestrator that nothing has changed: *)
(* docs/OPERATIONS.md:93, "a rejected attempt does not modify the corpus". *)
RefusedChangesNothing ==
  \A p \in Procs :
    (Exited(p) /\ cli[p].code \in {2, 3, 4}) => ~cli[p].committed

(* A mistake of the user is found before the database is reached.          *)
InvalidInputOpensNothing ==
  \A p \in Procs :
    cli[p].error \in {"usage", "dataset"} => cli[p].pool = "none"

(* A lock that is held belongs to a sync that is in progress, or to one    *)
(* that was interrupted and has still to close its pool, which it does     *)
(* before it ends: no interrupt leaves later syncs busy for ever.          *)
LockBelongsToSync ==
  lock # Nobody =>
    \/ cli[lock].stage = "syncing"
    \/ /\ cli[lock].stage \in {"handling", "closing"}
       /\ cli[lock].error = "interrupt"
       /\ cli[lock].assigned /\ cli[lock].pool = "open"

(* What the exit code promises holds. *)
ExitCodesAreRight == ZeroMeansDone /\ RefusedChangesNothing

(* The state invariant: types, and pools, locks and errors in their place. *)
CommandInv ==
  CliTypeOK /\ PoolsAreClosed /\ InvalidInputOpensNothing /\ LockBelongsToSync
=============================================================================
