--------------------------- MODULE SchedulerWorker ---------------------------
(***************************************************************************)
(* The scheduler of the AI service (app/scheduler/worker.py): rows of      *)
(* scheduled_tasks in SQLite, which survive a restart, and APScheduler     *)
(* jobs in memory, which do not.  REST handlers create, remove, pause and  *)
(* resume tasks; the jobs run the tasks' actions and write their outcome.  *)
(*                                                                         *)
(* All coroutines share one event loop, so an action is what happens       *)
(* between two awaits.  An ORM session reads a row with one await and      *)
(* writes back, with another one, only the columns it changed.             *)
(***************************************************************************)
EXTENDS Naturals, TLC

CONSTANTS Task,      \* task ids; each is created at most once
          Client,    \* concurrent REST requests
          MaxFires,  \* bound: runs of one task
          MaxStarts  \* bound: starts of the process

ASSUME SchedulerAssumption == MaxFires \in Nat /\ MaxStarts \in Nat

Trigger == {"recurring", "date", "invalid"}   \* cron and interval recur
Phase == {"future", "due", "past"}
Status == {"pending", "done", "failed", "paused"}

Rows == [enabled : BOOLEAN, status : Status, runs : 0..MaxFires]
NoRow == [enabled |-> FALSE]
Idle == [do |-> "idle"]

VARIABLES
    up,      \* the process is up
    starts,  \* how often it was started
    trigger, \* trigger[t]: the trigger t is (or will be) created with
    row,     \* row[t]: the row of scheduled_tasks
    job,     \* job[t]: "none", "active" or "paused" in the APScheduler store
    loaded,  \* the ids in _loaded
    used,    \* ids given out by create_task
    bornOff, \* tasks created with enabled = False and not paused since
    phase,   \* phase[t]: now against run_date: before it, at most
             \* misfire_grace_time after it, or later ("past")
    op,      \* op[c]: what REST request c has left to do
    raced,   \* tasks on which two requests were in progress at once
    run,     \* run[t]: the execution of _execute_task in progress
    fires    \* fires[t]: how often t's action was started

vars == <<up, starts, trigger, row, job, loaded, used, bornOff, phase, op, raced, run, fires>>
db == <<row, used>>
memory == <<job, loaded>>
world == <<starts, trigger, phase>>

Exists(t) == row[t] # NoRow

Init ==
    /\ up = FALSE
    /\ starts = 0
    /\ trigger \in [Task -> Trigger]
    /\ row = [t \in Task |-> NoRow]
    /\ job = [t \in Task |-> "none"]
    /\ loaded = {}
    /\ used = {}
    /\ bornOff = {}
    /\ phase \in [Task -> Phase]
    /\ op = [c \in Client |-> Idle]
    /\ raced = {}
    /\ run = [t \in Task |-> Idle]
    /\ fires = [t \in Task |-> 0]

-----------------------------------------------------------------------------
(* Lifecycle *)

\* start(): the scheduler is started and _reload_all() schedules every enabled
\* row; a row whose trigger cannot be built is skipped with a warning.
Reloadable(t) == Exists(t) /\ row[t].enabled /\ trigger[t] # "invalid"

Start ==
    /\ ~up
    /\ starts < MaxStarts
    /\ up' = TRUE
    /\ starts' = starts + 1
    /\ loaded' = {t \in Task : Reloadable(t)}
    /\ job' = [t \in Task |-> IF Reloadable(t) THEN "active" ELSE "none"]
    /\ UNCHANGED <<trigger, db, bornOff, phase, op, raced, run, fires>>

\* stop(), or a crash: requests and runs are gone, only the rows are left.
Stop ==
    /\ up
    /\ up' = FALSE
    /\ job' = [t \in Task |-> "none"]
    /\ loaded' = {}
    /\ op' = [c \in Client |-> Idle]
    /\ run' = [t \in Task |-> Idle]
    /\ UNCHANGED <<world, db, bornOff, raced, fires>>

-----------------------------------------------------------------------------
(* Requests *)

Settled(t) == \A c \in Client : op[c] # Idle => op[c].task # t

Begin(c, next) ==
    /\ up /\ op[c] = Idle
    /\ raced' = IF Settled(next.task) THEN raced ELSE raced \cup {next.task}
    /\ op' = [op EXCEPT ![c] = next]
    /\ UNCHANGED <<up, world, run, fires>>

\* add_task(), up to its commit.
AddCommit(c, t, on) ==
    /\ t \notin used
    /\ used' = used \cup {t}
    /\ bornOff' = IF on THEN bornOff ELSE bornOff \cup {t}
    /\ row' = [row EXCEPT ![t] = [enabled |-> on, status |-> "pending", runs |-> 0]]
    /\ Begin(c, [do |-> "schedule", task |-> t])
    /\ UNCHANGED memory

\* remove_task(), up to its commit; without a row it returns False.
RemoveCommit(c, t) ==
    /\ Exists(t)
    /\ row' = [row EXCEPT ![t] = NoRow]
    /\ Begin(c, [do |-> "drop", task |-> t])
    /\ UNCHANGED <<memory, used, bornOff>>

PausedRow == [status |-> "paused", enabled |-> FALSE]
ResumedRow == [status |-> "pending", enabled |-> TRUE]

\* Mutant of Switched: the state of the job is left alone.
SwitchedNot(j, to) == j

\* job.pause() and job.resume(), if there is a job
Switched(j, to) == IF j = "none" THEN j ELSE to

\* pause_task() and resume_task() change the job, ...
PauseJob(c, t) ==
    /\ t \in used
    /\ job' = [job EXCEPT ![t] = Switched(@, "paused")]
    /\ bornOff' = bornOff \ {t}
    /\ Begin(c, [do |-> "read", task |-> t, upd |-> PausedRow])
    /\ UNCHANGED <<db, loaded>>

ResumeJob(c, t) ==
    /\ t \in used
    /\ job' = [job EXCEPT ![t] = Switched(@, "active")]
    /\ Begin(c, [do |-> "read", task |-> t, upd |-> ResumedRow])
    /\ UNCHANGED <<db, loaded, bornOff>>

Ends(c) ==
    /\ op' = [op EXCEPT ![c] = Idle]
    /\ UNCHANGED <<up, world, bornOff, raced, run, fires>>

\* _schedule_job(): enabled or not; an invalid trigger raises and the request
\* fails, with the row already committed.
AddSchedule(c) ==
    /\ op[c].do = "schedule"
    /\ LET t == op[c].task IN
       IF trigger[t] # "invalid" /\ t \notin loaded
       THEN /\ job' = [job EXCEPT ![t] = "active"]
            /\ loaded' = loaded \cup {t}
       ELSE UNCHANGED memory
    /\ Ends(c)
    /\ UNCHANGED db

\* Mutant of RemoveDrop: the job is left in the scheduler.
RemoveDropLoadedOnly(c) ==
    /\ op[c].do = "drop"
    /\ loaded' = loaded \ {op[c].task}
    /\ Ends(c)
    /\ UNCHANGED <<db, job>>

RemoveDrop(c) ==
    /\ op[c].do = "drop"
    /\ job' = [job EXCEPT ![op[c].task] = "none"]
    /\ loaded' = loaded \ {op[c].task}
    /\ Ends(c)
    /\ UNCHANGED db

\* ... then read the row (without one they are done) ...
ReadRow(c) ==
    /\ op[c].do = "read"
    /\ LET t == op[c].task IN
       op' = [op EXCEPT ![c] =
                IF Exists(t)
                THEN [do |-> "write", task |-> t, upd |-> @.upd, old |-> row[t]]
                ELSE Idle]
    /\ UNCHANGED <<up, world, db, memory, bornOff, raced, run, fires>>

\* Mutant of Committed: every column is written back as it was read.
CommittedWhole(t, old, upd) == [row EXCEPT ![t] = upd @@ old]

\* Committing a session that read t's row as old and assigned the columns of
\* upd: the UPDATE sets the columns whose value differs from the one read, and
\* fails if the row was deleted meanwhile.
Committed(t, old, upd) ==
    LET set == {f \in DOMAIN upd : upd[f] # old[f]} IN
    IF Exists(t)
    THEN [row EXCEPT ![t] = [f \in DOMAIN @ |-> IF f \in set THEN upd[f] ELSE @[f]]]
    ELSE row

\* ... and write it back.
WriteRow(c) ==
    /\ op[c].do = "write"
    /\ row' = Committed(op[c].task, op[c].old, op[c].upd)
    /\ Ends(c)
    /\ UNCHANGED <<memory, used>>

-----------------------------------------------------------------------------
(* Runs *)

\* APScheduler starts the job; at most one run of a job at a time (its default
\* max_instances).
Fire(t) ==
    /\ up /\ job[t] = "active" /\ run[t] = Idle /\ fires[t] < MaxFires
    /\ fires' = [fires EXCEPT ![t] = @ + 1]
    /\ run' = [run EXCEPT ![t] = [do |-> "act"]]
    /\ UNCHANGED <<up, world, db, loaded, bornOff, op, raced>>

FireRecurring(t) ==
    /\ trigger[t] = "recurring"
    /\ Fire(t)
    /\ UNCHANGED job

\* A date job has no further fire time and is dropped, ...
FireDate(t) ==
    /\ trigger[t] = "date" /\ phase[t] = "due"
    /\ Fire(t)
    /\ job' = [job EXCEPT ![t] = "none"]

\* ... without a run if it is found later than misfire_grace_time.
MissDate(t) ==
    /\ up /\ job[t] = "active" /\ trigger[t] = "date" /\ phase[t] = "past"
    /\ job' = [job EXCEPT ![t] = "none"]
    /\ UNCHANGED <<up, world, db, loaded, bornOff, op, raced, run, fires>>

\* _execute_task(): the action ends, well or not ...
ActionEnds(t, outcome) ==
    /\ run[t].do = "act"
    /\ run' = [run EXCEPT ![t] = [do |-> "read", status |-> outcome]]
    /\ UNCHANGED <<up, world, db, memory, bornOff, op, raced, fires>>

\* ... the row is read, if it is still there ...
ReadRun(t) ==
    /\ run[t].do = "read"
    /\ run' = [run EXCEPT ![t] =
                 IF Exists(t)
                 THEN [do |-> "write", old |-> row[t],
                       upd |-> [status |-> @.status, runs |-> row[t].runs + 1]]
                 ELSE Idle]
    /\ UNCHANGED <<up, world, db, memory, bornOff, op, raced, fires>>

\* ... and its run_count and status are written back.
WriteRun(t) ==
    /\ run[t].do = "write"
    /\ row' = Committed(t, run[t].old, run[t].upd)
    /\ run' = [run EXCEPT ![t] = Idle]
    /\ UNCHANGED <<up, world, used, memory, bornOff, op, raced, fires>>

TimePasses(t) ==
    /\ phase[t] # "past"
    /\ phase' = [phase EXCEPT ![t] = IF @ = "future" THEN "due" ELSE "past"]
    /\ UNCHANGED <<up, starts, trigger, db, memory, bornOff, op, raced, run, fires>>

-----------------------------------------------------------------------------

Request(c) ==
    \/ \E t \in Task :
          \/ \E on \in BOOLEAN : AddCommit(c, t, on)
          \/ RemoveCommit(c, t)
          \/ PauseJob(c, t)
          \/ ResumeJob(c, t)
    \/ AddSchedule(c)
    \/ RemoveDrop(c)
    \/ ReadRow(c)
    \/ WriteRow(c)

Run(t) ==
    \/ FireRecurring(t)
    \/ FireDate(t)
    \/ MissDate(t)
    \/ \E outcome \in {"done", "failed"} : ActionEnds(t, outcome)
    \/ ReadRun(t)
    \/ WriteRun(t)

Next ==
    \/ Start
    \/ Stop
    \/ \E c \in Client : Request(c)
    \/ \E t \in Task : Run(t) \/ TimePasses(t)

Spec == Init /\ [][Next]_vars

-----------------------------------------------------------------------------
(* Properties *)

Upd == [status : {"paused"}, enabled : {FALSE}] \cup [status : {"pending"}, enabled : {TRUE}]
RunUpd == [status : {"done", "failed"}, runs : 1..MaxFires]

Ops == {Idle}
    \cup [do : {"schedule", "drop"}, task : Task]
    \cup [do : {"read"}, task : Task, upd : Upd]
    \cup [do : {"write"}, task : Task, upd : Upd, old : Rows]
Executions == {Idle, [do |-> "act"]}
    \cup [do : {"read"}, status : {"done", "failed"}]
    \cup [do : {"write"}, old : Rows, upd : RunUpd]

\* Every variable keeps its type.
TypeOK ==
    /\ up \in BOOLEAN
    /\ starts \in 0..MaxStarts
    /\ trigger \in [Task -> Trigger]
    /\ row \in [Task -> Rows \cup {NoRow}]
    /\ job \in [Task -> {"none", "active", "paused"}]
    /\ loaded \in SUBSET Task
    /\ used \in SUBSET Task
    /\ bornOff \in SUBSET used
    /\ phase \in [Task -> Phase]
    /\ op \in [Client -> Ops]
    /\ raced \in SUBSET Task
    /\ run \in [Task -> Executions]
    /\ fires \in [Task -> 0..MaxFires]

\* _loaded and the job store agree, whatever requests, runs and restarts
\* interleave: a job's id is in _loaded, and an id in _loaded has a job, except
\* that of a date task whose date has come: its job is dropped, its id is kept.
LoadedAgrees ==
    \A t \in Task :
        /\ job[t] # "none" => t \in loaded
        /\ t \in loaded => job[t] # "none" \/ (trigger[t] = "date" /\ phase[t] # "future")

\* Once the requests on a task are over, what is scheduled has a row, and one
\* that is enabled: a task that was removed or paused, in this process or an
\* earlier one, does not run again.  Only requests that overlapped could break
\* this; a task created as not enabled is scheduled all the same.
OffIsSilent ==
    \A t \in Task :
        Settled(t) /\ job[t] = "active" /\ t \notin raced
            => Exists(t) /\ (row[t].enabled \/ t \in bornOff)

\* No execution's count is lost to another session that read the row earlier:
\* within one process, run_count is the number of executions that ended.
RunsCounted ==
    \A t \in Task :
        starts = 1 /\ up /\ Exists(t) =>
            row[t].runs = fires[t] - (IF run[t] = Idle THEN 0 ELSE 1)

\* An enabled recurring task is scheduled: "schedules survive restarts".  One
\* whose row was disabled at the restart is not, once it is resumed: there is no
\* job to resume.
EnabledIsScheduled ==
    \A t \in Task :
        up /\ Settled(t) /\ Exists(t) /\ row[t].enabled /\ trigger[t] = "recurring"
            => job[t] = "active"

=============================================================================
