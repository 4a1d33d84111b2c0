----------------------------- MODULE ScheduledJobs -----------------------------
(***************************************************************************)
(* One scheduled synchronisation of TradingAgents-CN, its runs and their   *)
(* records in scheduler_executions (app/services/scheduler_service.py,     *)
(* app/worker/tushare_sync_service.py).  APScheduler runs the job, at most *)
(* one run at a time; the end of a run is recorded by a task of its own;   *)
(* people trigger the job and cancel, fail or delete records; a check      *)
(* fails the records that have been running for too long.                  *)
(***************************************************************************)
EXTENDS Naturals, Sequences, FiniteSets

CONSTANTS Kinds,          \* "batches": basic information, asks _should_stop before every batch;
                          \* "items": financial data, calls update_job_progress every 20 stocks
          MatchWindow,    \* an end is matched with a running record at most so old (5 minutes)
          ZombieAge,      \* a running record older than this is a zombie (30 minutes)
          MaxRecords, MaxNow, MaxRuns, MaxActs   \* bounds

\* Five minutes and thirty (scheduler_service.py:846, 741).
AgesLeaveAGap == {MatchWindow, ZombieAge} \subseteq Nat /\ MatchWindow <= ZombieAge

VARIABLES
  kind,
  paused, due,    \* the job: next_run_time is None; next_run_time has come
  run,            \* the run of the job: idle, check, work or progress
  ending,         \* _record_job_execution of a run that ended: [status, record, pc]
  records,        \* scheduler_executions, by timestamp; "deleted" ones are gone
  trigger,        \* trigger_job has yet to insert its record
  asked,          \* what a person asked of a record, after its read: [op, record]
  zombies,        \* the records that _check_zombie_tasks found
  now,
  runs,           \* number of runs so far
  acts,           \* number of requests of people so far
  sawCancel,      \* history: this run has come across its cancellation
  decided         \* history: the records that a person has marked as failed

job == <<kind, paused, due>>
counters == <<runs, acts>>
history == <<sawCancel, decided>>
vars == <<job, run, ending, records, trigger, asked, zombies, now, counters, history>>

Nothing == [op |-> "none", record |-> 0]
NoEnd == [status |-> "none", record |-> 0, pc |-> "none"]

Init == /\ kind \in Kinds
        /\ paused \in BOOLEAN /\ due = FALSE
        /\ run = "idle"
        /\ ending = NoEnd
        /\ records = <<>>
        /\ trigger = FALSE
        /\ asked = Nothing
        /\ zombies = {}
        /\ now = 0 /\ runs = 0 /\ acts = 0
        /\ sawCancel = FALSE /\ decided = {}

With(statuses) == {i \in DOMAIN records : records[i].status \in statuses}
Latest(ids) == CHOOSE i \in ids : \A j \in ids : j <= i

Insert(status) ==
  /\ Len(records) < MaxRecords
  /\ records' = Append(records, [status |-> status, cancel |-> FALSE, timestamp |-> now])

SetStatus(i, status) ==
  records' = IF records[i].status = "deleted" THEN records
             ELSE [records EXCEPT ![i].status = status]

------------------------------------------------------------------------------
(* pause_job, resume_job, trigger_job *)

Request == acts < MaxActs /\ acts' = acts + 1

Pause ==
  /\ Request
  /\ ~paused /\ paused' = TRUE /\ due' = FALSE
  /\ UNCHANGED <<kind, run, ending, records, trigger, asked, zombies, now, runs, history>>

Resume ==
  /\ Request
  /\ paused /\ paused' = FALSE
  /\ UNCHANGED <<kind, due, run, ending, records, trigger, asked, zombies, now, runs, history>>

\* A paused job is resumed for good; the record comes after an await.
TriggerJob ==
  /\ Request
  /\ ~trigger
  /\ paused' = FALSE /\ due' = TRUE /\ trigger' = TRUE
  /\ UNCHANGED <<kind, run, ending, records, asked, zombies, now, runs, history>>

RecordTrigger ==
  /\ trigger /\ trigger' = FALSE
  /\ Insert("running")
  /\ UNCHANGED <<job, run, ending, asked, zombies, now, counters, history>>

\* The trigger of the job fires.
BecomeDue ==
  /\ ~paused /\ ~due /\ runs < MaxRuns
  /\ due' = TRUE
  /\ UNCHANGED <<kind, paused, run, ending, records, trigger, asked, zombies, now>>
  /\ UNCHANGED <<counters, history>>

------------------------------------------------------------------------------
(* A run *)

\* APScheduler drops a run for which the job has an instance running.
StartRun ==
  /\ due /\ due' = FALSE
  /\ IF run = "idle" /\ runs < MaxRuns
     THEN /\ run' = IF kind = "batches" THEN "check" ELSE "work"
          /\ runs' = runs + 1
          /\ sawCancel' = FALSE
     ELSE UNCHANGED <<run, runs, sawCancel>>
  /\ UNCHANGED <<kind, paused, ending, records, trigger, asked, zombies, now, acts, decided>>

\* _on_job_missed: too late; the record of the miss is always a new one.
MissRun ==
  /\ due /\ due' = FALSE
  /\ ending.pc = "none"
  /\ ending' = [status |-> "missed", record |-> 0, pc |-> "write"]
  /\ UNCHANGED <<kind, paused, run, records, trigger, asked, zombies, now, counters, history>>

\* The job returned or raised; an end is recorded before the next run can end.
EndsWith(status) ==
  /\ ending.pc = "none"
  /\ ending' = [status |-> status, record |-> 0, pc |-> "find"]
  /\ run' = "idle"

CancelSeen(ids) == ids # {} /\ records[Latest(ids)].cancel

\* _should_stop
ShouldStop ==
  /\ run = "check"
  /\ IF CancelSeen(With({"running"}))
     THEN EndsWith("success") /\ sawCancel' = TRUE
     ELSE run' = "work" /\ UNCHANGED <<ending, sawCancel>>
  /\ UNCHANGED <<job, records, trigger, asked, zombies, now, counters, decided>>

Work ==
  /\ run = "work"
  /\ run' = "progress"
  /\ UNCHANGED <<job, ending, records, trigger, asked, zombies, now, counters, history>>

\* _update_progress: the exception of a cancellation ends the run.
UpdateProgress ==
  /\ run = "progress" /\ kind = "batches"
  /\ IF CancelSeen(With({"running"}))
     THEN EndsWith("success") /\ sawCancel' = TRUE
     ELSE run' = "check" /\ UNCHANGED <<ending, sawCancel>>
  /\ UNCHANGED <<job, records, trigger, asked, zombies, now, counters, decided>>

\* update_job_progress: the exception is raised within the try whose handler logs it.
UpdateJobProgress ==
  LET ids == With({"running", "success", "failed"}) IN
  /\ run = "progress" /\ kind = "items"
  /\ run' = "work"
  /\ sawCancel' = (sawCancel \/ CancelSeen(ids))
  /\ IF ids = {} THEN Insert("running")
     ELSE IF CancelSeen(ids) THEN UNCHANGED records
     ELSE SetStatus(Latest(ids), "running")
  /\ UNCHANGED <<job, ending, trigger, asked, zombies, now, counters, decided>>

\* Everything is done, or the job raises.
EndRun == /\ run \in {"check", "work"}
          /\ \E status \in {"success", "failed"} : EndsWith(status)
          /\ UNCHANGED <<job, records, trigger, asked, zombies, now, counters, history>>

------------------------------------------------------------------------------
(* _record_job_execution of a run that ended *)

\* Fault: however old.
MutMatching == With({"running"})

Matching == {i \in With({"running"}) : records[i].timestamp >= now - MatchWindow}

FindRunning ==
  /\ ending.pc = "find"
  /\ ending' = [ending EXCEPT !.pc = "write",
                              !.record = IF Matching = {} THEN 0 ELSE Latest(Matching)]
  /\ UNCHANGED <<job, run, records, trigger, asked, zombies, now, counters, history>>

RecordEnd ==
  /\ ending.pc = "write"
  /\ IF ending.record = 0 THEN Insert(ending.status) ELSE SetStatus(ending.record, ending.status)
  /\ ending' = NoEnd
  /\ UNCHANGED <<job, run, trigger, asked, zombies, now, counters, history>>

------------------------------------------------------------------------------
(* cancel_job_execution, mark_execution_as_failed, delete_execution *)

ReadRecord(op, i) ==
  /\ Request
  /\ asked = Nothing
  /\ records[i].status # "deleted"
  /\ op = "cancel" => records[i].status = "running"
  /\ op = "delete" => records[i].status # "running"
  /\ asked' = [op |-> op, record |-> i]
  /\ UNCHANGED <<job, run, ending, records, trigger, zombies, now, runs, history>>

WriteRecord ==
  LET i == asked.record IN
  /\ asked # Nothing
  /\ CASE asked.op = "cancel" -> records' = [records EXCEPT ![i].cancel = TRUE]
       [] asked.op = "fail" -> SetStatus(i, "failed")
       [] asked.op = "delete" -> SetStatus(i, "deleted")
  /\ asked' = Nothing
  /\ decided' = IF asked.op = "fail" THEN decided \cup {i} ELSE decided
  /\ UNCHANGED <<job, run, ending, trigger, zombies, now, counters, sawCancel>>

\* _check_zombie_tasks
FindZombies ==
  /\ zombies = {}
  /\ zombies' = {i \in With({"running"}) : records[i].timestamp < now - ZombieAge}
  /\ zombies' # {}
  /\ UNCHANGED <<job, run, ending, records, trigger, asked, now, counters, history>>

FailZombie(i) ==
  /\ i \in zombies
  /\ SetStatus(i, "failed")
  /\ zombies' = zombies \ {i}
  /\ UNCHANGED <<job, run, ending, trigger, asked, now, counters, history>>

\* The process dies and starts again: jobs live in memory, paused as the settings say.
Restart ==
  /\ \/ run # "idle" \/ ending # NoEnd \/ trigger \/ asked # Nothing \/ zombies # {}
  /\ paused' \in BOOLEAN /\ due' = FALSE
  /\ run' = "idle" /\ ending' = NoEnd /\ trigger' = FALSE
  /\ asked' = Nothing /\ zombies' = {} /\ sawCancel' = FALSE
  /\ UNCHANGED <<kind, records, now, counters, decided>>

\* A call to MongoDB takes less than the time between the two ages.
Tick == /\ now < MaxNow
        /\ ending = NoEnd /\ zombies = {}
        /\ now' = now + 1
        /\ UNCHANGED <<job, run, ending, records, trigger, asked, zombies, counters, history>>

Next == \/ Pause \/ Resume \/ TriggerJob \/ RecordTrigger \/ BecomeDue
        \/ StartRun \/ MissRun \/ ShouldStop \/ Work \/ UpdateProgress \/ UpdateJobProgress
        \/ EndRun
        \/ FindRunning \/ RecordEnd
        \/ (\E i \in DOMAIN records, op \in {"cancel", "fail", "delete"} : ReadRecord(op, i))
        \/ WriteRecord
        \/ FindZombies \/ (\E i \in DOMAIN records : FailZombie(i))
        \/ Tick \/ Restart

Spec == Init /\ [][Next]_vars

------------------------------------------------------------------------------
TypeOK ==
  /\ kind \in Kinds
  /\ {paused, due, trigger, sawCancel} \subseteq BOOLEAN
  /\ run \in {"idle", "check", "work", "progress"}
  /\ ending \in [status : {"none", "success", "failed", "missed"},
                 record : {0} \cup DOMAIN records, pc : {"none", "find", "write"}]
  /\ records \in Seq([status : {"running", "success", "failed", "missed", "deleted"},
                      cancel : BOOLEAN, timestamp : 0..MaxNow])
  /\ asked \in [op : {"none", "cancel", "fail", "delete"}, record : {0} \cup DOMAIN records]
  /\ zombies \cup decided \subseteq DOMAIN records
  /\ now \in 0..MaxNow /\ runs \in 0..MaxRuns /\ acts \in 0..MaxActs

\* A synchronisation in batches never sees a finished record change (the end of a run never
\* overwrites what the zombie check decided, nor the reverse, and nothing reopens a record),
\* unless a person decides about that record.
FinishedIsFinal == [][\A i \in DOMAIN records :
  /\ kind = "batches"
  /\ records[i].status \in {"success", "failed", "missed"}
  => \/ records'[i].status \in {records[i].status, "deleted"}
     \/ i \in decided \cup decided']_vars

\* "任务将在下次检查时停止" (routers/scheduler.py:465): a run that comes across its
\* cancellation does no more work.
CancelledStops == sawCancel => run = "idle"

==============================================================================
