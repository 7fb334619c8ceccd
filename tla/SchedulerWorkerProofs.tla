------------------------ MODULE SchedulerWorkerProofs ------------------------
(***************************************************************************)
(* Proofs about the scheduler, for any number of tasks, concurrent         *)
(* requests, runs and restarts.                                            *)
(***************************************************************************)
EXTENDS SchedulerWorker, TLAPS

On(c, t) == op[c] # Idle /\ op[c].task = t

\* A task is given out before anything happens to it, and its executions.
Known(t) ==
    /\ t \notin used => row[t] = NoRow /\ fires[t] = 0 /\ run[t] = Idle /\ job[t] = "none"
                        /\ \A c \in Client : ~On(c, t)
    /\ ~up => run[t] = Idle /\ job[t] = "none" /\ t \notin loaded /\ \A c \in Client : ~On(c, t)

\* LoadedAgrees of one task.
Agrees(t) ==
    /\ job[t] # "none" => t \in loaded
    /\ t \in loaded => job[t] # "none" \/ (trigger[t] = "date" /\ phase[t] # "future")

\* The only session that writes a row's count is the one of the task's run.
Counted(t) ==
    /\ run[t].do = "write" => run[t].upd.runs = run[t].old.runs + 1
    /\ run[t].do = "write" /\ Exists(t) => row[t].runs = run[t].old.runs
    /\ run[t].do = "write" => run[t].old.runs < fires[t]
    /\ Exists(t) => row[t].runs <= fires[t] - (IF run[t] = Idle THEN 0 ELSE 1)
    /\ run[t] # Idle => fires[t] > 0
    /\ starts = 1 /\ up /\ Exists(t) => row[t].runs = fires[t] - (IF run[t] = Idle THEN 0 ELSE 1)

Alone(t) == \A c, d \in Client : On(c, t) /\ On(d, t) => c = d

\* While requests on a task do not overlap, each finds the row as the one before
\* it left it, and leaves job and row in agreement.
Orderly(t) ==
    /\ Alone(t)
    /\ Settled(t) /\ job[t] # "none" => Exists(t)
    /\ Settled(t) /\ job[t] = "active" => row[t].enabled \/ t \in bornOff
    /\ \A c \in Client : On(c, t) =>
         /\ op[c].do = "schedule" => Exists(t) /\ (row[t].enabled \/ t \in bornOff)
         /\ op[c].do = "drop" => ~Exists(t)
         /\ op[c].do \in {"read", "write"} =>
              /\ job[t] # "none" => Exists(t)
              /\ op[c].upd = PausedRow => job[t] # "active"
         /\ op[c].do = "write" => Exists(t) /\ op[c].old.enabled = row[t].enabled

TaskInv(t) == Known(t) /\ Agrees(t) /\ Counted(t) /\ (t \notin raced => Orderly(t))

IInv ==
    /\ TypeOK
    /\ starts = 0 => ~up /\ used = {}
    /\ \A t \in Task : TaskInv(t)

-----------------------------------------------------------------------------
(* Rows *)

LEMMA RowFacts ==
    /\ NoRow \notin Rows
    /\ \A r \in Rows : DOMAIN r = {"enabled", "status", "runs"}
    /\ PausedRow \in Upd /\ ResumedRow \in Upd
    /\ \A u \in Upd : DOMAIN u = {"enabled", "status"} /\ (u = PausedRow \/ u = ResumedRow)
    /\ \A u \in RunUpd : DOMAIN u = {"runs", "status"}
    /\ PausedRow.enabled = FALSE /\ ResumedRow.enabled = TRUE /\ PausedRow # ResumedRow
  <1>1. NoRow \notin Rows
    BY DEF NoRow, Rows
  <1>2. \A r \in Rows : DOMAIN r = {"enabled", "status", "runs"}
    BY DEF Rows
  <1>3. PausedRow \in Upd /\ ResumedRow \in Upd
    BY DEF PausedRow, ResumedRow, Upd
  <1>4. \A u \in Upd : DOMAIN u = {"enabled", "status"}
    BY DEF Upd
  <1>5. \A u \in Upd : u = PausedRow \/ u = ResumedRow
    <2>1. ASSUME NEW u \in [status : {"paused"}, enabled : {FALSE}] PROVE u = PausedRow
      <3>1. u = [status |-> u.status, enabled |-> u.enabled]
        OBVIOUS
      <3>2. u.status = "paused" /\ u.enabled = FALSE
        OBVIOUS
      <3>3. QED  BY <3>1, <3>2 DEF PausedRow
    <2>2. ASSUME NEW u \in [status : {"pending"}, enabled : {TRUE}] PROVE u = ResumedRow
      <3>1. u = [status |-> u.status, enabled |-> u.enabled]
        OBVIOUS
      <3>2. u.status = "pending" /\ u.enabled = TRUE
        OBVIOUS
      <3>3. QED  BY <3>1, <3>2 DEF ResumedRow
    <2>3. QED  BY <2>1, <2>2 DEF Upd
  <1>6. \A u \in RunUpd : DOMAIN u = {"runs", "status"}
    BY DEF RunUpd
  <1>7. PausedRow.enabled = FALSE /\ ResumedRow.enabled = TRUE /\ PausedRow # ResumedRow
    BY DEF PausedRow, ResumedRow
  <1>8. QED  BY <1>1, <1>2, <1>3, <1>4, <1>5, <1>6, <1>7

\* What the commit of a request leaves of a row, ...
LEMMA RequestCommits ==
    ASSUME NEW t \in Task, NEW u \in Upd, NEW old \in Rows, row \in [Task -> Rows \cup {NoRow}],
           row' = Committed(t, old, u)
    PROVE  /\ row' \in [Task -> Rows \cup {NoRow}]
           /\ \A x \in Task : x # t => row'[x] = row[x]
           /\ ~Exists(t) => row'[t] = row[t]
           /\ Exists(t) => /\ row'[t] \in Rows /\ row'[t].runs = row[t].runs
                           /\ row'[t].enabled = IF u.enabled # old.enabled THEN u.enabled ELSE row[t].enabled
  <1> DEFINE set == {f \in DOMAIN u : u[f] # old[f]}
             new == [f \in DOMAIN row[t] |-> IF f \in set THEN u[f] ELSE row[t][f]]
  <1>1. CASE ~Exists(t)
    BY <1>1 DEF Committed
  <1>2. CASE Exists(t)
    <2>1. row[t] \in Rows /\ DOMAIN row[t] = {"enabled", "status", "runs"}
      BY <1>2, RowFacts DEF Exists
    <2>2. new.enabled = (IF u.enabled # old.enabled THEN u.enabled ELSE row[t].enabled)
      BY <2>1, RowFacts
    <2>3. new.runs = row[t].runs
      BY <2>1, RowFacts
    <2>4. new \in Rows
      <3>1. u.enabled \in BOOLEAN /\ u.status \in Status
        BY DEF Upd, Status
      <3>2. row[t].enabled \in BOOLEAN /\ row[t].status \in Status /\ row[t].runs \in 0..MaxFires
        BY <2>1 DEF Rows
      <3>3. new.enabled \in BOOLEAN /\ new.status \in Status /\ new.runs \in 0..MaxFires
        BY <2>1, <2>2, <2>3, <3>1, <3>2
      <3>4. DOMAIN new = {"enabled", "status", "runs"}
        BY <2>1
      <3>5. new = [enabled |-> new.enabled, status |-> new.status, runs |-> new.runs]
        BY <3>4
      <3>6. [enabled |-> new.enabled, status |-> new.status, runs |-> new.runs] \in Rows
        BY <3>3 DEF Rows
      <3>7. QED  BY <3>5, <3>6
    <2>5. row' = [row EXCEPT ![t] = new]
      BY <1>2 DEF Committed
    <2>6. QED  BY <1>2, <2>2, <2>3, <2>4, <2>5
  <1>3. QED  BY <1>1, <1>2

\* ... and what the commit of a run does.
LEMMA RunCommits ==
    ASSUME NEW t \in Task, NEW u \in RunUpd, NEW old \in Rows, row \in [Task -> Rows \cup {NoRow}],
           row' = Committed(t, old, u)
    PROVE  /\ row' \in [Task -> Rows \cup {NoRow}]
           /\ \A x \in Task : x # t => row'[x] = row[x]
           /\ ~Exists(t) => row'[t] = row[t]
           /\ Exists(t) => /\ row'[t] \in Rows /\ row'[t].enabled = row[t].enabled
                           /\ row'[t].runs = IF u.runs # old.runs THEN u.runs ELSE row[t].runs
  <1> DEFINE set == {f \in DOMAIN u : u[f] # old[f]}
             new == [f \in DOMAIN row[t] |-> IF f \in set THEN u[f] ELSE row[t][f]]
  <1>1. CASE ~Exists(t)
    BY <1>1 DEF Committed
  <1>2. CASE Exists(t)
    <2>1. row[t] \in Rows /\ DOMAIN row[t] = {"enabled", "status", "runs"}
      BY <1>2, RowFacts DEF Exists
    <2>2. new.runs = (IF u.runs # old.runs THEN u.runs ELSE row[t].runs)
      BY <2>1, RowFacts
    <2>3. new.enabled = row[t].enabled
      BY <2>1, RowFacts
    <2>4. new \in Rows
      <3>1. u.runs \in 0..MaxFires /\ u.status \in Status
        BY SchedulerAssumption DEF RunUpd, Status
      <3>2. row[t].enabled \in BOOLEAN /\ row[t].status \in Status /\ row[t].runs \in 0..MaxFires
        BY <2>1 DEF Rows
      <3>3. new.enabled \in BOOLEAN /\ new.status \in Status /\ new.runs \in 0..MaxFires
        BY <2>1, <2>2, <2>3, <3>1, <3>2
      <3>4. DOMAIN new = {"enabled", "status", "runs"}
        BY <2>1
      <3>5. new = [enabled |-> new.enabled, status |-> new.status, runs |-> new.runs]
        BY <3>4
      <3>6. [enabled |-> new.enabled, status |-> new.status, runs |-> new.runs] \in Rows
        BY <3>3 DEF Rows
      <3>7. QED  BY <3>5, <3>6
    <2>5. row' = [row EXCEPT ![t] = new]
      BY <1>2 DEF Committed
    <2>6. QED  BY <1>2, <2>2, <2>3, <2>4, <2>5
  <1>3. QED  BY <1>1, <1>2

-----------------------------------------------------------------------------
(* What requests and executions are. *)

LEMMA OpFacts ==
    ASSUME op \in [Client -> Ops], NEW c \in Client
    PROVE  /\ op[c] # Idle => op[c].task \in Task /\ op[c].do \in {"schedule", "drop", "read", "write"}
           /\ op[c].do \in {"schedule", "drop", "read", "write"} => op[c] # Idle
           /\ op[c].do \in {"read", "write"} => op[c].upd \in Upd
           /\ op[c].do = "write" => op[c].old \in Rows
  BY DEF Ops, Idle

LEMMA RunIs ==
    ASSUME run \in [Task -> Executions], NEW t \in Task
    PROVE  /\ run[t] # Idle => run[t].do \in {"act", "read", "write"}
           /\ run[t].do \in {"act", "read", "write"} => run[t] # Idle
           /\ run[t].do = "read" => run[t].status \in {"done", "failed"}
           /\ run[t].do = "write" => run[t].old \in Rows /\ run[t].upd \in RunUpd
  BY DEF Executions, Idle

LEMMA InitIInv == Init => IInv
  <1> SUFFICES ASSUME Init PROVE IInv
    OBVIOUS
  <1>1. TypeOK
    <2>1. 0 \in 0..MaxStarts /\ 0 \in 0..MaxFires
      BY SchedulerAssumption
    <2>2. Idle \in Ops /\ Idle \in Executions
      BY DEF Ops, Executions
    <2>3. QED  BY <2>1, <2>2 DEF Init, TypeOK
  <1>2. ASSUME NEW t \in Task PROVE TaskInv(t)
    <2>1. /\ row[t] = NoRow /\ job[t] = "none" /\ run[t] = Idle /\ fires[t] = 0
          /\ t \notin used /\ t \notin loaded /\ ~Exists(t) /\ \A c \in Client : ~On(c, t)
      BY DEF Init, On, Exists
    <2>2. run[t].do # "write"
      BY <2>1 DEF Idle
    <2>3. Known(t) /\ Agrees(t)
      BY <2>1 DEF Known, Agrees
    <2>4. Counted(t)
      BY <2>1, <2>2 DEF Counted
    <2>5. Orderly(t)
      BY <2>1 DEF Orderly, Alone
    <2>6. QED  BY <2>3, <2>4, <2>5 DEF TaskInv
  <1>3. QED  BY <1>1, <1>2 DEF IInv, Init

-----------------------------------------------------------------------------
(* A step concerns one task. *)

Same(t) ==
    /\ UNCHANGED <<up, starts, trigger>> /\ (phase[t] # "future" => phase'[t] # "future")
    /\ row'[t] = row[t] /\ job'[t] = job[t] /\ run'[t] = run[t] /\ fires'[t] = fires[t]
    /\ (t \in loaded' <=> t \in loaded) /\ (t \in used' <=> t \in used)
    /\ (t \in bornOff' <=> t \in bornOff) /\ (t \in raced' <=> t \in raced)
    /\ \A c \in Client : (On(c, t)' <=> On(c, t)) /\ (On(c, t) => op'[c] = op[c])

LEMMA SameTask == ASSUME NEW t \in Task, TaskInv(t), Same(t) PROVE TaskInv(t)'
  <1>1. Known(t)'
    BY DEF TaskInv, Same, Known
  <1>2. Agrees(t)'
    BY DEF TaskInv, Same, Agrees
  <1>3. Counted(t)'
    BY DEF TaskInv, Same, Counted, Exists
  <1>4. ASSUME t \notin raced' PROVE Orderly(t)'
    <2>1. Orderly(t)
      BY <1>4 DEF TaskInv, Same
    <2>2. Settled(t)' <=> Settled(t)
      BY DEF Same, Settled, On
    <2>3. Alone(t)'
      BY <2>1 DEF Orderly, Alone, Same
    <2>4. QED  BY <2>1, <2>2, <2>3 DEF Same, Orderly, Exists
  <1>5. QED  BY <1>1, <1>2, <1>3, <1>4 DEF TaskInv

LEMMA TaskStep ==
    ASSUME IInv, NEW x \in Task, TypeOK', starts' = starts, up' = up, up \/ used' = used,
           TaskInv(x)', \A t \in Task \ {x} : Same(t)
    PROVE  IInv'
  <1>1. ASSUME NEW t \in Task PROVE TaskInv(t)'
    BY <1>1, SameTask DEF IInv
  <1>2. QED  BY <1>1 DEF IInv

\* A request on x begins, ...
LEMMA BeginFacts ==
    ASSUME TypeOK, NEW c \in Client, NEW x \in Task, NEW next \in Ops, next # Idle, next.task = x, Begin(c, next)
    PROVE  /\ op' \in [Client -> Ops] /\ raced' \in SUBSET Task /\ op'[c] = next
           /\ \A t \in Task \ {x} : /\ (t \in raced' <=> t \in raced)
                                    /\ \A d \in Client : (On(d, t)' <=> On(d, t)) /\ (On(d, t) => op'[d] = op[d])
           /\ \A d \in Client : On(d, x)' <=> d = c \/ On(d, x)
           /\ x \notin raced' => x \notin raced /\ Settled(x) /\ \A d \in Client : ~On(d, x)
  <1>1. op' \in [Client -> Ops] /\ op'[c] = next /\ \A d \in Client : d # c => op'[d] = op[d]
    BY DEF Begin, TypeOK
  <1>2. raced' \in SUBSET Task
    BY DEF Begin, TypeOK
  <1>3. \A d \in Client, t \in Task : On(d, t)' <=> IF d = c THEN t = x ELSE On(d, t)
    BY <1>1 DEF On
  <1>4. \A t \in Task : ~On(c, t)
    BY DEF Begin, On
  <1>5. x \notin raced' => x \notin raced /\ Settled(x) /\ \A d \in Client : ~On(d, x)
    BY DEF Begin, Settled, On
  <1>6. \A t \in Task \ {x} : (t \in raced' <=> t \in raced)
    BY DEF Begin
  <1>7. ASSUME NEW t \in Task \ {x}, NEW d \in Client PROVE (On(d, t)' <=> On(d, t)) /\ (On(d, t) => op'[d] = op[d])
    BY <1>1, <1>3, <1>4
  <1>8. ASSUME NEW d \in Client PROVE On(d, x)' <=> d = c \/ On(d, x)
    BY <1>3
  <1>9. QED  BY <1>1, <1>2, <1>5, <1>6, <1>7, <1>8

\* ... and ends.
LEMMA EndsFacts ==
    ASSUME TypeOK, NEW c \in Client, NEW x \in Task, On(c, x), op' = [op EXCEPT ![c] = Idle]
    PROVE  /\ op' \in [Client -> Ops]
           /\ \A t \in Task \ {x} : \A d \in Client : (On(d, t)' <=> On(d, t)) /\ (On(d, t) => op'[d] = op[d])
           /\ \A d \in Client : On(d, x)' => On(d, x)
           /\ Alone(x) => Settled(x)' /\ \A d \in Client : ~On(d, x)'
  <1>1. op' \in [Client -> Ops] /\ op'[c] = Idle /\ \A d \in Client : d # c => op'[d] = op[d]
    BY DEF TypeOK, Ops
  <1>2. \A d \in Client, t \in Task : On(d, t)' <=> d # c /\ On(d, t)
    BY <1>1 DEF On
  <1>3. \A t \in Task \ {x} : ~On(c, t)
    BY DEF On
  <1>4. Alone(x) => Settled(x)' /\ \A d \in Client : ~On(d, x)'
    BY <1>2 DEF Alone, Settled, On
  <1>5. ASSUME NEW t \in Task \ {x}, NEW d \in Client PROVE (On(d, t)' <=> On(d, t)) /\ (On(d, t) => op'[d] = op[d])
    BY <1>1, <1>2, <1>3
  <1>6. ASSUME NEW d \in Client PROVE On(d, x)' => On(d, x)
    BY <1>2
  <1>7. QED  BY <1>1, <1>4, <1>5, <1>6

-----------------------------------------------------------------------------
(* Requests *)

LEMMA AddCommitStep ==
    ASSUME IInv, NEW c \in Client, NEW x \in Task, NEW on \in BOOLEAN, AddCommit(c, x, on)
    PROVE  IInv'
  <1>1. TypeOK /\ TaskInv(x)
    BY DEF IInv
  <1> DEFINE next == [do |-> "schedule", task |-> x]
             new == [enabled |-> on, status |-> "pending", runs |-> 0]
  <1>2. next \in Ops /\ next # Idle /\ next.task = x /\ next.do = "schedule" /\ new \in Rows /\ new # NoRow
    BY SchedulerAssumption, RowFacts DEF Ops, Idle, Rows, Status
  <1>b. Begin(c, next)
    BY DEF AddCommit
  <1>4. /\ op' \in [Client -> Ops] /\ raced' \in SUBSET Task /\ op'[c] = next
        /\ \A t \in Task \ {x} : /\ (t \in raced' <=> t \in raced)
                                 /\ \A d \in Client : (On(d, t)' <=> On(d, t)) /\ (On(d, t) => op'[d] = op[d])
        /\ \A d \in Client : On(d, x)' <=> d = c \/ On(d, x)
        /\ x \notin raced' => x \notin raced /\ Settled(x) /\ \A d \in Client : ~On(d, x)
    BY <1>1, <1>2, <1>b, BeginFacts
  <1>5. /\ UNCHANGED <<up, starts, trigger, phase, run, fires, job, loaded>> /\ up
        /\ x \notin used /\ used' = used \cup {x} /\ row' = [row EXCEPT ![x] = new]
        /\ bornOff' = IF on THEN bornOff ELSE bornOff \cup {x}
    BY DEF AddCommit, Begin, memory, world
  <1>6. TypeOK'
    BY <1>1, <1>2, <1>4, <1>5 DEF TypeOK
  <1>7. \A t \in Task \ {x} : Same(t)
    BY <1>1, <1>4, <1>5 DEF Same, TypeOK
  <1>8. TaskInv(x)'
    <2>1. row'[x] = new
      BY <1>1, <1>5 DEF TypeOK
    <2>2. row[x] = NoRow /\ fires[x] = 0 /\ run[x] = Idle /\ job[x] = "none"
      BY <1>1, <1>5 DEF TaskInv, Known
    <2>3. Known(x)'
      BY <1>5 DEF Known
    <2>4. Agrees(x)'
      BY <1>1, <1>5 DEF TaskInv, Agrees
    <2>5. Counted(x)'
      BY <1>5, <2>1, <2>2 DEF Counted, Idle
    <2>6. ASSUME x \notin raced' PROVE Orderly(x)'
      <3>1. \A d \in Client : On(d, x)' <=> d = c
        BY <1>4, <2>6
      <3>2. Exists(x)' /\ (row'[x].enabled \/ x \in bornOff')
        BY <1>2, <1>5, <2>1 DEF Exists
      <3>3. QED
        BY <1>2, <1>4, <1>5, <2>2, <3>1, <3>2 DEF Orderly, Alone
    <2>7. QED  BY <2>3, <2>4, <2>5, <2>6 DEF TaskInv
  <1>9. QED  BY <1>5, <1>6, <1>7, <1>8, TaskStep

LEMMA RemoveCommitStep ==
    ASSUME IInv, NEW c \in Client, NEW x \in Task, RemoveCommit(c, x)
    PROVE  IInv'
  <1>1. TypeOK /\ TaskInv(x)
    BY DEF IInv
  <1> DEFINE next == [do |-> "drop", task |-> x]
  <1>2. next \in Ops /\ next # Idle /\ next.task = x /\ next.do = "drop"
    BY DEF Ops, Idle
  <1>b. Begin(c, next)
    BY DEF RemoveCommit
  <1>4. /\ op' \in [Client -> Ops] /\ raced' \in SUBSET Task /\ op'[c] = next
        /\ \A t \in Task \ {x} : /\ (t \in raced' <=> t \in raced)
                                 /\ \A d \in Client : (On(d, t)' <=> On(d, t)) /\ (On(d, t) => op'[d] = op[d])
        /\ \A d \in Client : On(d, x)' <=> d = c \/ On(d, x)
        /\ x \notin raced' => x \notin raced /\ Settled(x) /\ \A d \in Client : ~On(d, x)
    BY <1>1, <1>2, <1>b, BeginFacts
  <1>5. /\ UNCHANGED <<up, starts, trigger, phase, run, fires, job, loaded, used, bornOff>> /\ up
        /\ row[x] # NoRow /\ row' = [row EXCEPT ![x] = NoRow]
    BY DEF RemoveCommit, Begin, memory, world, Exists
  <1>6. TypeOK'
    BY <1>1, <1>2, <1>4, <1>5 DEF TypeOK
  <1>7. \A t \in Task \ {x} : Same(t)
    BY <1>1, <1>4, <1>5 DEF Same, TypeOK
  <1>8. TaskInv(x)'
    <2>1. row'[x] = NoRow /\ ~Exists(x)'
      BY <1>1, <1>5 DEF TypeOK, Exists
    <2>2. Known(x)'
      BY <1>1, <1>5 DEF TaskInv, Known
    <2>3. Agrees(x)'
      BY <1>1, <1>5 DEF TaskInv, Agrees
    <2>4. Counted(x)'
      BY <1>1, <1>5, <2>1 DEF TaskInv, Counted
    <2>5. ASSUME x \notin raced' PROVE Orderly(x)'
      <3>1. \A d \in Client : On(d, x)' <=> d = c
        BY <1>4, <2>5
      <3>2. ~Settled(x)'
        BY <1>2, <1>4 DEF Settled
      <3>3. QED
        BY <1>2, <1>4, <2>1, <3>1, <3>2 DEF Orderly, Alone
    <2>6. QED  BY <2>2, <2>3, <2>4, <2>5 DEF TaskInv
  <1>9. QED  BY <1>5, <1>6, <1>7, <1>8, TaskStep

\* Both requests change the job, if there is one, before they look at the row.
LEMMA SwitchStep ==
    ASSUME IInv, NEW c \in Client, NEW x \in Task, NEW u \in Upd, x \in used,
           NEW to \in {"active", "paused"}, u = PausedRow => to = "paused",
           job' = [job EXCEPT ![x] = Switched(@, to)],
           bornOff' = bornOff \/ bornOff' = bornOff \ {x},
           Begin(c, [do |-> "read", task |-> x, upd |-> u]), UNCHANGED <<row, used, loaded>>
    PROVE  IInv'
  <1>1. TypeOK /\ TaskInv(x)
    BY DEF IInv
  <1> DEFINE next == [do |-> "read", task |-> x, upd |-> u]
  <1>2. next \in Ops /\ next # Idle /\ next.task = x /\ next.do = "read" /\ next.upd = u
    BY DEF Ops, Idle
  <1>3. /\ op' \in [Client -> Ops] /\ raced' \in SUBSET Task /\ op'[c] = next
        /\ \A t \in Task \ {x} : /\ (t \in raced' <=> t \in raced)
                                 /\ \A d \in Client : (On(d, t)' <=> On(d, t)) /\ (On(d, t) => op'[d] = op[d])
        /\ \A d \in Client : On(d, x)' <=> d = c \/ On(d, x)
        /\ x \notin raced' => x \notin raced /\ Settled(x) /\ \A d \in Client : ~On(d, x)
    BY <1>1, <1>2, BeginFacts
  <1>4. UNCHANGED <<up, starts, trigger, phase, run, fires, row, loaded, used>> /\ up
    BY DEF Begin, world
  <1>j. /\ job' \in [Task -> {"none", "active", "paused"}]
        /\ job'[x] = IF job[x] = "none" THEN "none" ELSE to
        /\ \A t \in Task \ {x} : job'[t] = job[t]
    BY <1>1 DEF TypeOK, Switched
  <1>6. TypeOK'
    BY <1>1, <1>3, <1>4, <1>j DEF TypeOK
  <1>7. \A t \in Task \ {x} : Same(t)
    BY <1>1, <1>3, <1>4, <1>j DEF Same, TypeOK
  <1>8. TaskInv(x)'
    <2>1. Known(x)'
      BY <1>4 DEF Known
    <2>2. Agrees(x)'
      BY <1>1, <1>4, <1>j DEF TaskInv, Agrees
    <2>3. Counted(x)'
      BY <1>1, <1>4 DEF TaskInv, Counted, Exists
    <2>4. ASSUME x \notin raced' PROVE Orderly(x)'
      <3>1. \A d \in Client : On(d, x)' <=> d = c
        BY <1>3, <2>4
      <3>2. ~Settled(x)'
        BY <1>2, <1>3 DEF Settled
      <3>3. Orderly(x) /\ Settled(x)
        BY <1>1, <1>3, <2>4 DEF TaskInv
      <3>4. job'[x] # "none" => Exists(x)'
        BY <1>4, <1>j, <3>3 DEF Orderly, Exists
      <3>5. QED
        BY <1>2, <1>3, <1>j, <3>1, <3>2, <3>4 DEF Orderly, Alone
    <2>5. QED  BY <2>1, <2>2, <2>3, <2>4 DEF TaskInv
  <1>9. QED  BY <1>4, <1>6, <1>7, <1>8, TaskStep

LEMMA PauseResumeStep ==
    ASSUME IInv, NEW c \in Client, NEW x \in Task, PauseJob(c, x) \/ ResumeJob(c, x)
    PROVE  IInv'
  <1>1. CASE PauseJob(c, x)
    BY <1>1, SwitchStep, RowFacts DEF PauseJob, db
  <1>2. CASE ResumeJob(c, x)
    BY <1>2, SwitchStep, RowFacts DEF ResumeJob, db
  <1>3. QED  BY <1>1, <1>2

\* A request that is in progress finds the process up and its task given out.
LEMMA OpIs ==
    ASSUME IInv, NEW c \in Client, op[c].do \in {"schedule", "drop", "read", "write"}
    PROVE  op[c].task \in Task /\ On(c, op[c].task) /\ up /\ op[c].task \in used
  <1>1. op[c].task \in Task /\ On(c, op[c].task)
    BY OpFacts DEF IInv, TypeOK, On
  <1>2. Known(op[c].task)
    BY <1>1 DEF IInv, TaskInv
  <1>3. QED  BY <1>1, <1>2 DEF Known

LEMMA AddScheduleStep == ASSUME IInv, NEW c \in Client, AddSchedule(c) PROVE IInv'
  <1>1. PICK x \in Task : x = op[c].task /\ On(c, x) /\ up /\ x \in used
    BY OpIs DEF AddSchedule
  <1>2. TypeOK /\ TaskInv(x)
    BY <1>1 DEF IInv
  <1>3. /\ op' \in [Client -> Ops]
        /\ \A t \in Task \ {x} : \A d \in Client : (On(d, t)' <=> On(d, t)) /\ (On(d, t) => op'[d] = op[d])
        /\ \A d \in Client : On(d, x)' => On(d, x)
        /\ Alone(x) => Settled(x)' /\ \A d \in Client : ~On(d, x)'
    BY <1>2, <1>1, EndsFacts DEF AddSchedule, Ends
  <1>4. UNCHANGED <<up, starts, trigger, phase, run, fires, row, used, bornOff, raced>>
    BY DEF AddSchedule, Ends, world, db
  <1>j. /\ job' \in [Task -> {"none", "active", "paused"}] /\ loaded' \in SUBSET Task
        /\ \A t \in Task \ {x} : job'[t] = job[t] /\ (t \in loaded' <=> t \in loaded)
        /\ \/ job'[x] = job[x] /\ (x \in loaded' <=> x \in loaded)
           \/ job'[x] = "active" /\ x \in loaded'
    BY <1>2, <1>1 DEF TypeOK, AddSchedule, memory
  <1>6. TypeOK'
    BY <1>2, <1>3, <1>4, <1>j DEF TypeOK
  <1>7. \A t \in Task \ {x} : Same(t)
    BY <1>3, <1>4, <1>j DEF Same
  <1>8. TaskInv(x)'
    <2>1. Known(x)'
      BY <1>1, <1>4 DEF Known
    <2>2. Agrees(x)'
      BY <1>2, <1>4, <1>j DEF TaskInv, Agrees
    <2>3. Counted(x)'
      BY <1>2, <1>4 DEF TaskInv, Counted, Exists
    <2>4. ASSUME x \notin raced' PROVE Orderly(x)'
      <3>1. Orderly(x)
        BY <1>2, <1>4, <2>4 DEF TaskInv
      <3>2. Settled(x)' /\ \A d \in Client : ~On(d, x)'
        BY <1>3, <3>1 DEF Orderly
      <3>3. Exists(x)' /\ (row'[x].enabled \/ x \in bornOff')
        BY <1>1, <1>4, <3>1 DEF Orderly, Exists, AddSchedule
      <3>4. QED
        BY <3>2, <3>3 DEF Orderly, Alone
    <2>5. QED  BY <2>1, <2>2, <2>3, <2>4 DEF TaskInv
  <1>9. QED  BY <1>1, <1>4, <1>6, <1>7, <1>8, TaskStep

LEMMA RemoveDropStep == ASSUME IInv, NEW c \in Client, RemoveDrop(c) PROVE IInv'
  <1>1. PICK x \in Task : x = op[c].task /\ On(c, x) /\ up /\ x \in used
    BY OpIs DEF RemoveDrop
  <1>2. TypeOK /\ TaskInv(x)
    BY <1>1 DEF IInv
  <1>3. /\ op' \in [Client -> Ops]
        /\ \A t \in Task \ {x} : \A d \in Client : (On(d, t)' <=> On(d, t)) /\ (On(d, t) => op'[d] = op[d])
        /\ \A d \in Client : On(d, x)' => On(d, x)
        /\ Alone(x) => Settled(x)' /\ \A d \in Client : ~On(d, x)'
    BY <1>2, <1>1, EndsFacts DEF RemoveDrop, Ends
  <1>4. UNCHANGED <<up, starts, trigger, phase, run, fires, row, used, bornOff, raced>>
    BY DEF RemoveDrop, Ends, world, db
  <1>j. /\ job' \in [Task -> {"none", "active", "paused"}] /\ loaded' \in SUBSET Task
        /\ \A t \in Task \ {x} : job'[t] = job[t] /\ (t \in loaded' <=> t \in loaded)
        /\ job'[x] = "none" /\ x \notin loaded'
    BY <1>2, <1>1 DEF TypeOK, RemoveDrop
  <1>6. TypeOK'
    BY <1>2, <1>3, <1>4, <1>j DEF TypeOK
  <1>7. \A t \in Task \ {x} : Same(t)
    BY <1>3, <1>4, <1>j DEF Same
  <1>8. TaskInv(x)'
    <2>1. Known(x)'
      BY <1>1, <1>4 DEF Known
    <2>2. Agrees(x)'
      BY <1>j DEF Agrees
    <2>3. Counted(x)'
      BY <1>2, <1>4 DEF TaskInv, Counted, Exists
    <2>4. ASSUME x \notin raced' PROVE Orderly(x)'
      <3>1. Orderly(x)
        BY <1>2, <1>4, <2>4 DEF TaskInv
      <3>2. Settled(x)' /\ \A d \in Client : ~On(d, x)'
        BY <1>3, <3>1 DEF Orderly
      <3>3. QED
        BY <1>j, <3>2 DEF Orderly, Alone
    <2>5. QED  BY <2>1, <2>2, <2>3, <2>4 DEF TaskInv
  <1>9. QED  BY <1>1, <1>4, <1>6, <1>7, <1>8, TaskStep

\* Without a row the request is done; with one it keeps what it read.
LEMMA ReadRowStep == ASSUME IInv, NEW c \in Client, ReadRow(c) PROVE IInv'
  <1>1. PICK x \in Task : x = op[c].task /\ On(c, x) /\ up /\ x \in used
    BY OpIs DEF ReadRow
  <1>2. TypeOK /\ TaskInv(x)
    BY <1>1 DEF IInv
  <1>3. UNCHANGED <<up, starts, trigger, phase, run, fires, row, job, loaded, used, bornOff, raced>>
    BY DEF ReadRow, world, db, memory
  <1>u. op[c].do = "read" /\ op[c].upd \in Upd
    BY <1>2, OpFacts DEF ReadRow, TypeOK
  <1>5. CASE ~Exists(x)
    <2>1. op' = [op EXCEPT ![c] = Idle]
      BY <1>1, <1>5 DEF ReadRow
    <2>2. /\ op' \in [Client -> Ops]
          /\ \A t \in Task \ {x} : \A d \in Client : (On(d, t)' <=> On(d, t)) /\ (On(d, t) => op'[d] = op[d])
          /\ \A d \in Client : On(d, x)' => On(d, x)
          /\ Alone(x) => Settled(x)' /\ \A d \in Client : ~On(d, x)'
      BY <1>2, <1>1, <2>1, EndsFacts
    <2>3. TypeOK'
      BY <1>2, <1>3, <2>2 DEF TypeOK
    <2>4. \A t \in Task \ {x} : Same(t)
      BY <1>3, <2>2 DEF Same
    <2>5. Known(x)' /\ Agrees(x)' /\ Counted(x)'
      BY <1>2, <1>1, <1>3 DEF TaskInv, Known, Agrees, Counted, Exists
    <2>6. ASSUME x \notin raced' PROVE Orderly(x)'
      <3>1. Orderly(x)
        BY <1>2, <1>3, <2>6 DEF TaskInv
      <3>2. Settled(x)' /\ \A d \in Client : ~On(d, x)'
        BY <2>2, <3>1 DEF Orderly
      <3>3. job[x] = "none"
        BY <1>1, <1>5, <1>u, <3>1 DEF Orderly
      <3>4. QED  BY <1>3, <3>2, <3>3 DEF Orderly, Alone
    <2>7. QED  BY <1>3, <2>3, <2>4, <2>5, <2>6, TaskStep DEF TaskInv
  <1>6. CASE Exists(x)
    <2> DEFINE next == [do |-> "write", task |-> x, upd |-> op[c].upd, old |-> row[x]]
    <2>1. op' = [op EXCEPT ![c] = next] /\ row[x] \in Rows
      BY <1>2, <1>1, <1>6 DEF ReadRow, Exists, TypeOK
    <2>2. /\ next \in Ops /\ next # Idle /\ next.task = x /\ next.do = "write"
          /\ next.upd = op[c].upd /\ next.old = row[x]
      BY <1>u, <2>1 DEF Ops, Idle
    <2> HIDE DEF next
    <2>3. op' \in [Client -> Ops] /\ op'[c] = next /\ \A d \in Client : d # c => op'[d] = op[d]
      BY <1>2, <2>1, <2>2 DEF TypeOK
    <2>4. \A d \in Client, t \in Task : On(d, t)' <=> On(d, t)
      BY <1>1, <2>2, <2>3 DEF On
    <2>5. \A t \in Task \ {x} : ~On(c, t)
      BY <1>1 DEF On
    <2>6. TypeOK'
      BY <1>2, <1>3, <2>3 DEF TypeOK
    <2>7. \A t \in Task \ {x} : Same(t)
      BY <1>3, <2>3, <2>4, <2>5 DEF Same
    <2>8. Known(x)' /\ Agrees(x)' /\ Counted(x)'
      BY <1>2, <1>3, <2>4 DEF TaskInv, Known, Agrees, Counted, Exists
    <2>9. ASSUME x \notin raced' PROVE Orderly(x)'
      <3>1. Orderly(x)
        BY <1>2, <1>3, <2>9 DEF TaskInv
      <3>2. \A d \in Client : On(d, x)' <=> d = c
        BY <1>1, <2>4, <3>1 DEF Orderly, Alone
      <3>3. ~Settled(x)'
        BY <2>2, <2>3 DEF Settled
      <3>4. Exists(x)' /\ (op[c].upd = PausedRow => job[x] # "active")
        BY <1>1, <1>3, <1>6, <1>u, <3>1 DEF Orderly, Exists
      <3>5. QED
        BY <1>3, <2>2, <2>3, <3>2, <3>3, <3>4 DEF Orderly, Alone
    <2>10. QED  BY <1>3, <2>6, <2>7, <2>8, <2>9, TaskStep DEF TaskInv
  <1>7. QED  BY <1>5, <1>6

\* The row of a request that is alone is as the request read it, but for the
\* columns of a run.
LEMMA WriteRowStep == ASSUME IInv, NEW c \in Client, WriteRow(c) PROVE IInv'
  <1>1. PICK x \in Task : x = op[c].task /\ On(c, x) /\ up /\ x \in used
    BY OpIs DEF WriteRow
  <1>2. TypeOK /\ TaskInv(x)
    BY <1>1 DEF IInv
  <1>u. op[c].do = "write" /\ op[c].upd \in Upd /\ op[c].old \in Rows
    BY <1>2, OpFacts DEF WriteRow, TypeOK
  <1>4. /\ op' \in [Client -> Ops]
        /\ \A t \in Task \ {x} : \A d \in Client : (On(d, t)' <=> On(d, t)) /\ (On(d, t) => op'[d] = op[d])
        /\ \A d \in Client : On(d, x)' => On(d, x)
        /\ Alone(x) => Settled(x)' /\ \A d \in Client : ~On(d, x)'
    BY <1>2, <1>1, EndsFacts DEF WriteRow, Ends
  <1>5. UNCHANGED <<up, starts, trigger, phase, run, fires, job, loaded, used, bornOff, raced>>
    BY DEF WriteRow, Ends, world, memory
  <1>w. /\ row' \in [Task -> Rows \cup {NoRow}]
        /\ \A t \in Task : t # x => row'[t] = row[t]
        /\ ~Exists(x) => row'[x] = row[x]
        /\ Exists(x) => /\ row'[x] \in Rows /\ row'[x].runs = row[x].runs
                        /\ row'[x].enabled = IF op[c].upd.enabled # op[c].old.enabled
                                             THEN op[c].upd.enabled ELSE row[x].enabled
    BY <1>2, <1>1, <1>u, RequestCommits DEF WriteRow, TypeOK
  <1>e. Exists(x)' <=> Exists(x)
    BY <1>w, RowFacts DEF Exists
  <1>8. TypeOK'
    BY <1>2, <1>4, <1>5, <1>w DEF TypeOK
  <1>9. \A t \in Task \ {x} : Same(t)
    BY <1>4, <1>5, <1>w DEF Same
  <1>10. TaskInv(x)'
    <2>1. Known(x)'
      BY <1>1, <1>5 DEF Known
    <2>2. Agrees(x)'
      BY <1>2, <1>5 DEF TaskInv, Agrees
    <2>3. Counted(x)'
      BY <1>2, <1>5, <1>w, <1>e DEF TaskInv, Counted
    <2>4. ASSUME x \notin raced' PROVE Orderly(x)'
      <3>1. Orderly(x)
        BY <1>2, <1>5, <2>4 DEF TaskInv
      <3>2. Settled(x)' /\ \A d \in Client : ~On(d, x)'
        BY <1>4, <3>1 DEF Orderly
      <3>3. Exists(x) /\ op[c].old.enabled = row[x].enabled /\ (op[c].upd = PausedRow => job[x] # "active")
        BY <1>1, <1>u, <3>1 DEF Orderly
      <3>4. row'[x].enabled = op[c].upd.enabled
        BY <1>w, <3>3
      <3>5. job[x] = "active" => row'[x].enabled
        BY <1>u, <3>3, <3>4, RowFacts
      <3>6. QED
        BY <1>5, <1>e, <3>2, <3>3, <3>5 DEF Orderly, Alone
    <2>5. QED  BY <2>1, <2>2, <2>3, <2>4 DEF TaskInv
  <1>11. QED  BY <1>1, <1>5, <1>8, <1>9, <1>10, TaskStep

-----------------------------------------------------------------------------
(* Runs *)

LEMMA FireStep ==
    ASSUME IInv, NEW x \in Task, Fire(x),
           \/ job' = job
           \/ trigger[x] = "date" /\ phase[x] # "future" /\ job' = [job EXCEPT ![x] = "none"]
    PROVE  IInv'
  <1>1. TypeOK /\ TaskInv(x)
    BY DEF IInv
  <1>2. /\ UNCHANGED <<up, starts, trigger, phase, row, used, loaded, bornOff, op, raced>>
        /\ up /\ job[x] = "active" /\ run[x] = Idle /\ fires[x] < MaxFires
    BY DEF Fire, world, db
  <1>3. /\ fires' \in [Task -> 0..MaxFires] /\ fires'[x] = fires[x] + 1 /\ fires[x] \in Nat
        /\ run' \in [Task -> Executions] /\ run'[x] = [do |-> "act"] /\ run'[x] # Idle
        /\ \A t \in Task \ {x} : fires'[t] = fires[t] /\ run'[t] = run[t]
    BY <1>1, <1>2, SchedulerAssumption DEF Fire, TypeOK, Executions, Idle
  <1>4. /\ job' \in [Task -> {"none", "active", "paused"}]
        /\ job'[x] = job[x] \/ (trigger[x] = "date" /\ phase[x] # "future" /\ job'[x] = "none")
        /\ \A t \in Task \ {x} : job'[t] = job[t]
    BY <1>1 DEF TypeOK
  <1>5. TypeOK'
    BY <1>1, <1>2, <1>3, <1>4 DEF TypeOK
  <1>6. \A t \in Task \ {x} : Same(t)
    BY <1>2, <1>3, <1>4 DEF Same, On
  <1>7. TaskInv(x)'
    <2>1. Known(x)'
      BY <1>1, <1>2 DEF TaskInv, Known
    <2>2. Agrees(x)'
      BY <1>1, <1>2, <1>4 DEF TaskInv, Agrees
    <2>3. Counted(x)'
      <3>1. Exists(x) => row[x].runs \in Nat
        BY <1>1, SchedulerAssumption DEF Exists, TypeOK, Rows
      <3>2. QED
        BY <1>1, <1>2, <1>3, <3>1 DEF TaskInv, Counted, Exists
    <2>4. ASSUME x \notin raced' PROVE Orderly(x)'
      BY <1>1, <1>2, <1>4, <2>4 DEF TaskInv, Orderly, Alone, On, Settled, Exists
    <2>5. QED  BY <2>1, <2>2, <2>3, <2>4 DEF TaskInv
  <1>8. QED  BY <1>2, <1>5, <1>6, <1>7, TaskStep

LEMMA MissDateStep == ASSUME IInv, NEW x \in Task, MissDate(x) PROVE IInv'
  <1>1. TypeOK /\ TaskInv(x)
    BY DEF IInv
  <1>2. /\ UNCHANGED <<up, starts, trigger, phase, row, used, loaded, bornOff, op, raced, run, fires>>
        /\ up /\ trigger[x] = "date" /\ phase[x] # "future"
    BY DEF MissDate, world, db
  <1>3. /\ job' \in [Task -> {"none", "active", "paused"}]
        /\ job'[x] = "none"
        /\ \A t \in Task \ {x} : job'[t] = job[t]
    BY <1>1 DEF TypeOK, MissDate
  <1>4. TypeOK'
    BY <1>1, <1>2, <1>3 DEF TypeOK
  <1>5. \A t \in Task \ {x} : Same(t)
    BY <1>2, <1>3 DEF Same, On
  <1>6. TaskInv(x)'
    <2>1. Known(x)'
      BY <1>1, <1>2, <1>3 DEF TaskInv, Known, On
    <2>2. Agrees(x)'
      BY <1>2, <1>3 DEF Agrees
    <2>3. Counted(x)'
      BY <1>1, <1>2 DEF TaskInv, Counted, Exists
    <2>4. ASSUME x \notin raced' PROVE Orderly(x)'
      BY <1>1, <1>2, <1>3, <2>4 DEF TaskInv, Orderly, Alone, On, Settled, Exists
    <2>5. QED  BY <2>1, <2>2, <2>3, <2>4 DEF TaskInv
  <1>7. QED  BY <1>2, <1>4, <1>5, <1>6, TaskStep

\* A step of an execution that leaves the rows alone.
LEMMA RunMoves ==
    ASSUME IInv, NEW x \in Task, run[x] # Idle, NEW r \in Executions, run' = [run EXCEPT ![x] = r],
           r = Idle => ~Exists(x),
           r.do = "write" => /\ Exists(x) /\ r.old = row[x] /\ r.upd.runs = row[x].runs + 1
                             /\ row[x].runs < fires[x],
           UNCHANGED <<up, starts, trigger, phase, row, used, job, loaded, bornOff, op, raced, fires>>
    PROVE  IInv'
  <1>1. TypeOK /\ TaskInv(x)
    BY DEF IInv
  <1>2. run' \in [Task -> Executions] /\ run'[x] = r /\ \A t \in Task \ {x} : run'[t] = run[t]
    BY <1>1 DEF TypeOK
  <1>3. TypeOK'
    BY <1>1, <1>2 DEF TypeOK
  <1>4. \A t \in Task \ {x} : Same(t)
    BY <1>2 DEF Same, On
  <1>u. up /\ x \in used
    BY <1>1 DEF TaskInv, Known
  <1>6. TaskInv(x)'
    <2>1. Known(x)'
      BY <1>u DEF Known
    <2>2. Agrees(x)'
      BY <1>1 DEF TaskInv, Agrees
    <2>3. Counted(x)'
      BY <1>1, <1>2 DEF TaskInv, Counted, Exists
    <2>4. ASSUME x \notin raced' PROVE Orderly(x)'
      BY <1>1, <2>4 DEF TaskInv, Orderly, Alone, On, Settled, Exists
    <2>5. QED  BY <2>1, <2>2, <2>3, <2>4 DEF TaskInv
  <1>7. QED  BY <1>3, <1>4, <1>6, TaskStep

LEMMA ActionEndsStep ==
    ASSUME IInv, NEW x \in Task, NEW outcome \in {"done", "failed"}, ActionEnds(x, outcome)
    PROVE  IInv'
  <1>1. run \in [Task -> Executions]
    BY DEF IInv, TypeOK
  <1>2. [do |-> "read", status |-> outcome] \in Executions /\ [do |-> "read", status |-> outcome] # Idle
    BY DEF Executions, Idle
  <1>3. run[x] # Idle
    BY <1>1, RunIs DEF ActionEnds
  <1>4. QED
    BY <1>2, <1>3, RunMoves DEF ActionEnds, world, db, memory

LEMMA ReadRunStep == ASSUME IInv, NEW x \in Task, ReadRun(x) PROVE IInv'
  <1>1. TypeOK /\ TaskInv(x) /\ run \in [Task -> Executions]
    BY DEF IInv, TypeOK
  <1>2. run[x] # Idle /\ run[x].do = "read" /\ run[x].status \in {"done", "failed"}
    BY <1>1, RunIs DEF ReadRun
  <1>3. CASE ~Exists(x)
    BY <1>2, <1>3, RunMoves DEF ReadRun, world, db, memory, Executions, Idle
  <1>4. CASE Exists(x)
    <2> DEFINE u == [status |-> run[x].status, runs |-> row[x].runs + 1]
               r == [do |-> "write", old |-> row[x], upd |-> u]
    <2>1. row[x] \in Rows /\ row[x].runs \in Nat /\ fires[x] \in 0..MaxFires
      BY <1>1, <1>4, SchedulerAssumption DEF Exists, TypeOK, Rows
    <2>2. row[x].runs <= fires[x] - 1
      BY <1>1, <1>2, <1>4 DEF TaskInv, Counted
    <2>3. u \in RunUpd
      BY <1>2, <2>1, <2>2, SchedulerAssumption DEF RunUpd
    <2>4. r \in Executions /\ r # Idle /\ r.old = row[x] /\ r.upd.runs = row[x].runs + 1
      BY <2>1, <2>3 DEF Executions, Idle
    <2>5. run' = [run EXCEPT ![x] = r]
      BY <1>4 DEF ReadRun
    <2> HIDE DEF r, u
    <2>6. row[x].runs < fires[x]
      BY <2>1, <2>2, SchedulerAssumption
    <2>7. QED
      BY <1>2, <1>4, <2>4, <2>5, <2>6, RunMoves DEF ReadRun, world, db, memory
  <1>5. QED  BY <1>3, <1>4

LEMMA WriteRunStep == ASSUME IInv, NEW x \in Task, WriteRun(x) PROVE IInv'
  <1>1. TypeOK /\ TaskInv(x)
    BY DEF IInv
  <1>2. UNCHANGED <<up, starts, trigger, phase, used, job, loaded, bornOff, op, raced, fires>>
    BY DEF WriteRun, world, memory
  <1>3. run[x] # Idle /\ run[x].do = "write" /\ run[x].old \in Rows /\ run[x].upd \in RunUpd
    BY <1>1, RunIs DEF WriteRun, TypeOK
  <1>w. /\ row' \in [Task -> Rows \cup {NoRow}]
        /\ \A t \in Task : t # x => row'[t] = row[t]
        /\ ~Exists(x) => row'[x] = row[x]
        /\ Exists(x) => /\ row'[x] \in Rows /\ row'[x].enabled = row[x].enabled
                        /\ row'[x].runs = IF run[x].upd.runs # run[x].old.runs THEN run[x].upd.runs ELSE row[x].runs
    BY <1>1, <1>3, RunCommits DEF WriteRun, TypeOK
  <1>e. Exists(x)' <=> Exists(x)
    BY <1>w, RowFacts DEF Exists
  <1>r. run' \in [Task -> Executions] /\ run'[x] = Idle /\ \A t \in Task \ {x} : run'[t] = run[t]
    BY <1>1 DEF WriteRun, TypeOK, Executions
  <1>7. TypeOK'
    BY <1>1, <1>2, <1>w, <1>r DEF TypeOK
  <1>8. \A t \in Task \ {x} : Same(t)
    BY <1>2, <1>w, <1>r DEF Same, On
  <1>u. up /\ x \in used
    BY <1>1, <1>3 DEF TaskInv, Known
  <1>10. TaskInv(x)'
    <2>1. Known(x)'
      BY <1>2, <1>u DEF Known
    <2>2. Agrees(x)'
      BY <1>1, <1>2 DEF TaskInv, Agrees
    <2>3. Counted(x)'
      <3>1. /\ run[x].old.runs \in Nat /\ fires[x] \in Nat
            /\ Exists(x) => row[x].runs \in Nat
        BY <1>1, <1>3, SchedulerAssumption DEF Exists, TypeOK, Rows
      <3>2. run[x].upd.runs = run[x].old.runs + 1 /\ (Exists(x) => row[x].runs = run[x].old.runs)
            /\ (starts = 1 /\ up /\ Exists(x) => row[x].runs = fires[x] - 1) /\ run[x].old.runs < fires[x]
        BY <1>1, <1>3 DEF TaskInv, Counted
      <3>3. Exists(x) => row'[x].runs = run[x].old.runs + 1
        BY <1>w, <3>1, <3>2
      <3>4. QED
        BY <1>2, <1>e, <1>r, <3>1, <3>2, <3>3 DEF Counted, Idle
    <2>4. ASSUME x \notin raced' PROVE Orderly(x)'
      BY <1>1, <1>2, <1>w, <1>e, <2>4 DEF TaskInv, Orderly, Alone, On, Settled
    <2>5. QED  BY <2>1, <2>2, <2>3, <2>4 DEF TaskInv
  <1>11. QED  BY <1>2, <1>7, <1>8, <1>10, TaskStep

-----------------------------------------------------------------------------
(* The process *)

LEMMA StartStep == IInv /\ Start => IInv'
  <1> SUFFICES ASSUME IInv, Start PROVE IInv'
    OBVIOUS
  <1>1. TypeOK
    BY DEF IInv
  <1>2. /\ UNCHANGED <<trigger, row, used, bornOff, phase, op, raced, run, fires>>
        /\ ~up /\ up' = TRUE /\ starts' = starts + 1 /\ starts < MaxStarts /\ starts \in Nat
    BY <1>1, SchedulerAssumption DEF Start, db, TypeOK
  <1>3. /\ job' \in [Task -> {"none", "active", "paused"}] /\ loaded' \in SUBSET Task
        /\ \A t \in Task : job'[t] = (IF Reloadable(t) THEN "active" ELSE "none") /\ (t \in loaded' <=> Reloadable(t))
    BY DEF Start
  <1>4. TypeOK'
    BY <1>1, <1>2, <1>3, SchedulerAssumption DEF TypeOK
  <1>5. ASSUME NEW t \in Task PROVE TaskInv(t)'
    <2>1. TaskInv(t) /\ run[t] = Idle /\ \A c \in Client : ~On(c, t)
      BY <1>2 DEF IInv, TaskInv, Known
    <2>2. \A c \in Client : ~On(c, t)'
      BY <1>2, <2>1 DEF On
    <2>3. Known(t)'
      BY <1>2, <1>3, <2>1, <2>2 DEF TaskInv, Known, Reloadable, Exists
    <2>4. Agrees(t)'
      BY <1>3 DEF Agrees
    <2>5. Counted(t)'
      <3>1. starts' = 1 => used = {}
        BY <1>2 DEF IInv
      <3>2. starts' = 1 => ~Exists(t)
        BY <2>1, <3>1 DEF TaskInv, Known, Exists
      <3>3. QED  BY <1>2, <2>1, <3>2 DEF TaskInv, Counted, Exists
    <2>6. Orderly(t)'
      BY <1>2, <1>3, <2>2 DEF Orderly, Alone, Reloadable, Exists
    <2>7. QED  BY <2>3, <2>4, <2>5, <2>6 DEF TaskInv
  <1>6. QED  BY <1>2, <1>4, <1>5 DEF IInv

LEMMA StopStep == IInv /\ Stop => IInv'
  <1> SUFFICES ASSUME IInv, Stop PROVE IInv'
    OBVIOUS
  <1>1. TypeOK
    BY DEF IInv
  <1>2. /\ UNCHANGED <<starts, trigger, phase, row, used, bornOff, raced, fires>>
        /\ up /\ up' = FALSE /\ loaded' = {}
        /\ job' = [t \in Task |-> "none"] /\ run' = [t \in Task |-> Idle] /\ op' = [c \in Client |-> Idle]
    BY DEF Stop, world, db
  <1>3. Idle \in Ops /\ Idle \in Executions /\ Idle.do # "write"
    BY DEF Ops, Executions, Idle
  <1>4. TypeOK'
    BY <1>1, <1>2, <1>3 DEF TypeOK
  <1>5. ASSUME NEW t \in Task PROVE TaskInv(t)'
    <2>1. TaskInv(t) /\ fires[t] \in Nat /\ (Exists(t) => row[t].runs \in Nat)
      BY <1>1, SchedulerAssumption DEF IInv, TypeOK, Exists, Rows
    <2>2. /\ job'[t] = "none" /\ run'[t] = Idle /\ \A c \in Client : ~On(c, t)'
      BY <1>2 DEF On
    <2>3. Known(t)'
      BY <1>2, <2>1, <2>2 DEF TaskInv, Known
    <2>4. Agrees(t)'
      BY <1>2, <2>2 DEF Agrees
    <2>5. Counted(t)'
      BY <1>2, <1>3, <2>1, <2>2 DEF TaskInv, Counted, Exists
    <2>6. Orderly(t)'
      BY <2>2 DEF Orderly, Alone
    <2>7. QED  BY <2>3, <2>4, <2>5, <2>6 DEF TaskInv
  <1>6. QED  BY <1>2, <1>4, <1>5 DEF IInv

\* A step that changes nothing but time.
LEMMA Passes ==
    ASSUME IInv, phase' \in [Task -> Phase],
           \A t \in Task : phase[t] # "future" => phase'[t] # "future",
           UNCHANGED <<up, starts, trigger, row, used, job, loaded, bornOff, op, raced, run, fires>>
    PROVE  IInv'
  <1>1. TypeOK'
    BY DEF IInv, TypeOK
  <1>2. ASSUME NEW t \in Task PROVE TaskInv(t)'
    <2>1. Same(t)
      BY DEF Same, On
    <2>2. QED  BY <2>1, SameTask DEF IInv
  <1>3. QED  BY <1>1, <1>2 DEF IInv

-----------------------------------------------------------------------------

LEMMA NextIInv == IInv /\ [Next]_vars => IInv'
  <1> SUFFICES ASSUME IInv, [Next]_vars PROVE IInv'
    OBVIOUS
  <1>1. CASE UNCHANGED vars
    BY <1>1, Passes DEF vars, IInv, TypeOK
  <1>2. ASSUME NEW c \in Client, Request(c) PROVE IInv'
    BY <1>2, AddCommitStep, RemoveCommitStep, PauseResumeStep, AddScheduleStep, RemoveDropStep,
       ReadRowStep, WriteRowStep DEF Request
  <1>3. ASSUME NEW t \in Task, Run(t) PROVE IInv'
    <2>1. CASE FireRecurring(t)
      BY <2>1, FireStep DEF FireRecurring
    <2>2. CASE FireDate(t)
      BY <2>2, FireStep DEF FireDate
    <2>3. QED
      BY <1>3, <2>1, <2>2, MissDateStep, ActionEndsStep, ReadRunStep, WriteRunStep DEF Run
  <1>4. ASSUME NEW t \in Task, TimePasses(t) PROVE IInv'
    <2>1. /\ phase' \in [Task -> Phase]
          /\ \A q \in Task : phase[q] # "future" => phase'[q] # "future"
      BY <1>4 DEF TimePasses, IInv, TypeOK, Phase
    <2>2. QED
      BY <1>4, <2>1, Passes DEF TimePasses, db, memory
  <1>5. QED  BY <1>1, <1>2, <1>3, <1>4, StartStep, StopStep DEF Next

\* The inductive invariant holds in every state.
THEOREM SchedulerInvariant == Spec => []IInv
  BY InitIInv, NextIInv, PTL DEF Spec

\* Every variable keeps its type; in particular no run count exceeds the number
\* of executions.
THEOREM SchedulerTypeCorrect == Spec => []TypeOK
  <1>1. IInv => TypeOK
    BY DEF IInv
  <1>2. QED  BY <1>1, SchedulerInvariant, PTL

\* A job's id is in _loaded, and an id in _loaded has a job unless it is that of
\* a date task whose date has come, through every interleaving of requests, runs
\* and restarts (_schedule_job, remove_task, _reload_all).
THEOREM SchedulerLoadedAgrees == Spec => []LoadedAgrees
  <1>1. IInv => LoadedAgrees
    BY DEF IInv, TaskInv, Agrees, LoadedAgrees
  <1>2. QED  BY <1>1, SchedulerInvariant, PTL

\* What was removed or paused does not run again, unless two requests on the
\* task overlapped (pause_task, remove_task, resume_task).
THEOREM SchedulerOffIsSilent == Spec => []OffIsSilent
  <1>1. IInv => OffIsSilent
    BY DEF IInv, TaskInv, Orderly, OffIsSilent
  <1>2. QED  BY <1>1, SchedulerInvariant, PTL

\* Within one process run_count is the number of executions that ended, whatever
\* requests write the row meanwhile (_execute_task).
THEOREM SchedulerRunsCounted == Spec => []RunsCounted
  <1>1. IInv => RunsCounted
    BY DEF IInv, TaskInv, Counted, RunsCounted
  <1>2. QED  BY <1>1, SchedulerInvariant, PTL

=============================================================================
