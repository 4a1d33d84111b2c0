---------------------------- MODULE AnalysisTasks ----------------------------
(***************************************************************************)
(* The analyses that the API process of TradingAgents-CN runs by itself    *)
(* (app/services/simple_analysis_service.py): a coroutine for each task, a *)
(* shared thread pool for the analyses, and the state of a task kept three *)
(* times: in memory (memory_state_manager.py, behind one lock), in MongoDB *)
(* (analysis_tasks) and by its progress tracker.  A step is one such write. *)
(* Administrators mark tasks failed, delete them and clean up the old ones  *)
(* while they run; the process may restart and lose what it has in memory.  *)
(***************************************************************************)
EXTENDS Naturals, Sequences, FiniteSets

CONSTANTS Tasks,
          Levels,       \* percentages of node_progress_map the graph may report
          PoolSize,     \* max_workers of the thread pool
          MaxMishaps,   \* bound on failed MongoDB calls, restarts and requests of
                        \* administrators, together
          None

ASSUME LevelsArePercentages == Levels \subseteq 21..99
ASSUME BoundsAreNatural == PoolSize \in Nat \ {0} /\ MaxMishaps \in Nat

VARIABLES
  at,        \* where the coroutine of each task is
  next,      \* its next write, in the stages that are a list of writes
  memory,    \* MemoryStateManager._tasks: [status, progress], None without an entry
  mongo,     \* analysis_tasks: [status, progress], None without a document
  reports,   \* analysis_reports
  tracker,   \* RedisProgressTracker: [status, percent], as it was saved last
  queue,     \* the tasks that wait for a thread of the pool
  admin,     \* the request of an administrator: [op, tasks]
  troubled,  \* history: tasks with a MongoDB call that failed
  touched,   \* history: tasks an administrator marked or cleaned up
  mishaps

stores == <<memory, mongo, reports, tracker>>
history == <<troubled, touched, mishaps>>
vars == <<at, next, stores, queue, admin, history>>

Quiet == [op |-> "none", tasks |-> {}]

Init == /\ at = [t \in Tasks |-> "absent"]
        /\ next = [t \in Tasks |-> 1]
        /\ memory = [t \in Tasks |-> None]
        /\ mongo = [t \in Tasks |-> None]
        /\ reports = {}
        /\ tracker = [t \in Tasks |-> None]
        /\ queue = <<>>
        /\ admin = Quiet
        /\ troubled = {} /\ touched = {}
        /\ mishaps = 0

Mishap == mishaps < MaxMishaps /\ mishaps' = mishaps + 1

GoTo(t, place) == at' = [at EXCEPT ![t] = place] /\ next' = [next EXCEPT ![t] = 1]

\* Fault: an entry that is gone is made again.
MutRemember(t, status, percent) ==
  memory' = [memory EXCEPT ![t] = [status |-> status, progress |-> percent]]

\* update_task_status: whatever the status was before, but only of a task that is there.
Remember(t, status, percent) ==
  memory' = IF memory[t] = None THEN memory
            ELSE [memory EXCEPT ![t] = [status |-> status, progress |-> percent]]

Track(t, status, percent) ==
  tracker' = [tracker EXCEPT ![t] = [status |-> status, percent |-> percent]]

\* Fault: update_one with upsert.
MutUpdated(t, status, percent) ==
  [mongo EXCEPT ![t] = [status |-> status, progress |-> percent]]

\* update_one: nothing without a document.
Updated(t, status, percent) ==
  IF mongo[t] = None THEN mongo
  ELSE [mongo EXCEPT ![t] = [status |-> status, progress |-> percent]]

StatusOf(t) == IF mongo[t] = None THEN None ELSE mongo[t].status

\* A MongoDB call whose exception is logged and forgotten.
Record(t, docs) ==
  \/ mongo' = docs /\ UNCHANGED history
  \/ /\ Mishap
     /\ troubled' = troubled \cup {t}
     /\ UNCHANGED <<mongo, touched>>

------------------------------------------------------------------------------
(* create_analysis_task *)

CreateTask(t) ==
  /\ at[t] = "absent"
  /\ GoTo(t, "insert")
  /\ memory' = [memory EXCEPT ![t] = [status |-> "pending", progress |-> 0]]
  /\ UNCHANGED <<mongo, reports, tracker, queue, admin, history>>

InsertTask(t) ==
  /\ at[t] = "insert"
  /\ GoTo(t, "ready")
  /\ Record(t, [mongo EXCEPT ![t] = [status |-> "pending", progress |-> 0]])
  /\ UNCHANGED <<memory, reports, tracker, queue, admin>>

------------------------------------------------------------------------------
(* execute_analysis_background and _run_analysis_sync *)

\* The code of the stock is invalid, or its validation raises: no tracker yet.
Validate(t) ==
  /\ at[t] = "ready"
  /\ GoTo(t, "starting") \/ GoTo(t, "failMemory")
  /\ UNCHANGED <<stores, queue, admin, history>>

Writes(percent, status) ==
  << <<"tracker", percent, "running">>, <<"memory", percent, "running">>,
     <<"mongo", percent, status>> >>

\* The writes of a stage; update_progress_sync leaves the status in MongoDB alone.
Stage(place) == CASE place = "starting" -> Writes(10, "processing") \o Writes(20, "processing")
                  [] place = "preparing" -> Writes(7, None) \o Writes(9, None) \o Writes(10, None)
                  [] place = "evaluating" -> Writes(90, None)
                  [] OTHER -> <<>>

AfterStage(place) == CASE place = "starting" -> "queued"
                       [] place = "preparing" -> "graph"
                       [] place = "evaluating" -> "finish"

Write(t) ==
  LET writes == Stage(at[t])
      w == writes[next[t]]
      status == IF w[3] = None THEN StatusOf(t) ELSE w[3] IN
  /\ writes # <<>>
  /\ IF next[t] < Len(writes)
     THEN next' = [next EXCEPT ![t] = @ + 1] /\ UNCHANGED at
     ELSE GoTo(t, AfterStage(at[t]))
  /\ queue' = IF at'[t] = "queued" THEN Append(queue, t) ELSE queue
  /\ CASE w[1] = "tracker" -> Track(t, w[3], w[2]) /\ UNCHANGED <<memory, mongo, history>>
       [] w[1] = "memory" -> Remember(t, w[3], w[2]) /\ UNCHANGED <<tracker, mongo, history>>
       [] w[1] = "mongo" -> Record(t, Updated(t, status, w[2])) /\ UNCHANGED <<tracker, memory>>
  /\ UNCHANGED <<reports, admin>>

\* Tasks whose analysis occupies a thread.
InThread ==
  {t \in Tasks : at[t] \in {"preparing", "graph", "callback", "callbackMemory", "evaluating"}}

\* Fault: the thread of an analysis that failed is not given back.
MutTakeThread(t) ==
  /\ queue # <<>> /\ t = Head(queue)
  /\ Cardinality(InThread \cup {u \in Tasks : at[u] = "done" /\ u \notin reports}) < PoolSize
  /\ queue' = Tail(queue)
  /\ GoTo(t, "preparing")
  /\ UNCHANGED <<stores, admin, history>>

TakeThread(t) ==
  /\ queue # <<>> /\ t = Head(queue)
  /\ Cardinality(InThread) < PoolSize
  /\ queue' = Tail(queue)
  /\ GoTo(t, "preparing")
  /\ UNCHANGED <<stores, admin, history>>

\* graph_progress_callback: a node that would lower the percentage changes a message only.
NodeDone(t, level) ==
  /\ at[t] = "graph"
  /\ level > tracker[t].percent
  /\ Track(t, "running", level)
  /\ GoTo(t, "callback")
  /\ UNCHANGED <<memory, mongo, reports, queue, admin, history>>

\* In a thread: MongoDB first; when that raises, the memory is not updated.
NodeToMongo(t) ==
  /\ at[t] = "callback"
  /\ Record(t, Updated(t, StatusOf(t), tracker[t].percent))
  /\ GoTo(t, IF mishaps' = mishaps THEN "callbackMemory" ELSE "graph")
  /\ UNCHANGED <<memory, reports, tracker, queue, admin>>

\* Fault: the memory is told the percentage before the last.
MutNodeToMemory(t) ==
  /\ at[t] = "callbackMemory"
  /\ GoTo(t, "graph")
  /\ UNCHANGED <<stores, queue, admin, history>>

NodeToMemory(t) ==
  /\ at[t] = "callbackMemory"
  /\ Remember(t, "running", tracker[t].percent)
  /\ GoTo(t, "graph")
  /\ UNCHANGED <<mongo, reports, tracker, queue, admin, history>>

GraphEnds(t) ==
  /\ at[t] = "graph"
  /\ GoTo(t, "evaluating")
  /\ UNCHANGED <<stores, queue, admin, history>>

\* The analysis raises, between two of its progress updates or after the last.
AnalysisFails(t) ==
  /\ \/ at[t] \in {"graph", "finish"}
     \/ at[t] \in {"preparing", "evaluating"} /\ Stage(at[t])[next[t]][1] = "tracker"
  /\ GoTo(t, "fail")
  /\ UNCHANGED <<stores, queue, admin, history>>

MarkTrackerCompleted(t) ==
  /\ at[t] = "finish"
  /\ Track(t, "completed", 100)
  /\ GoTo(t, "save")
  /\ UNCHANGED <<memory, mongo, reports, queue, admin, history>>

\* Fault: the task is announced when its report could not be saved, and before the next try.
MutSaveResults(t) ==
  /\ at[t] = "save"
  /\ GoTo(t, "announce")
  /\ UNCHANGED <<stores, queue, admin, history>>

\* _save_analysis_results_complete: a report that cannot be saved is only logged.
SaveResults(t) ==
  /\ at[t] = "save"
  /\ \/ reports' = reports \cup {t} /\ UNCHANGED history
     \/ /\ Mishap
        /\ troubled' = troubled \cup {t}
        /\ UNCHANGED <<reports, touched>>
  /\ GoTo(t, "announce")
  /\ UNCHANGED <<memory, mongo, tracker, queue, admin>>

Announce(t) ==
  /\ at[t] = "announce"
  /\ Remember(t, "completed", 100)
  /\ GoTo(t, "record")
  /\ UNCHANGED <<mongo, reports, tracker, queue, admin, history>>

RecordCompleted(t) ==
  /\ at[t] = "record"
  /\ Record(t, Updated(t, "completed", 100))
  /\ GoTo(t, "done")
  /\ UNCHANGED <<memory, reports, tracker, queue, admin>>

MarkTrackerFailed(t) ==
  /\ at[t] = "fail"
  /\ Track(t, "failed", tracker[t].percent)
  /\ GoTo(t, "failMemory")
  /\ UNCHANGED <<memory, mongo, reports, queue, admin, history>>

RememberFailed(t) ==
  /\ at[t] = "failMemory"
  /\ Remember(t, "failed", 0)
  /\ GoTo(t, "failRecord")
  /\ UNCHANGED <<mongo, reports, tracker, queue, admin, history>>

\* Fault: the progress is left as it was.
MutRecordFailed(t) ==
  /\ at[t] = "failRecord"
  /\ Record(t, Updated(t, "failed", IF mongo[t] = None THEN 0 ELSE mongo[t].progress))
  /\ GoTo(t, "done")
  /\ UNCHANGED <<memory, reports, tracker, queue, admin>>

RecordFailed(t) ==
  /\ at[t] = "failRecord"
  /\ Record(t, Updated(t, "failed", 0))
  /\ GoTo(t, "done")
  /\ UNCHANGED <<memory, reports, tracker, queue, admin>>

------------------------------------------------------------------------------
(* What administrators do, two writes each *)

Begin(op, tasks) ==
  /\ admin = Quiet
  /\ Mishap
  /\ admin' = [op |-> op, tasks |-> tasks]

Known(t) == at[t] \notin {"absent", "insert"}     \* its identifier was answered
KeepsProgress(entry) == [entry EXCEPT !.status = "failed"]

MarkFailed(t) ==
  /\ Known(t)
  /\ memory' = IF memory[t] = None THEN memory ELSE [memory EXCEPT ![t] = KeepsProgress(@)]
  /\ touched' = touched \cup {t}
  /\ Begin("mark", {t})
  /\ UNCHANGED <<at, next, mongo, reports, tracker, queue, troubled>>

MarkRecord ==
  /\ admin.op = "mark"
  /\ mongo' = [t \in Tasks |-> IF t \in admin.tasks /\ mongo[t] # None THEN KeepsProgress(mongo[t])
                              ELSE mongo[t]]
  /\ admin' = Quiet
  /\ UNCHANGED <<at, next, memory, reports, tracker, queue, history>>

DeleteTask(t) ==
  /\ Known(t)
  /\ memory' = [memory EXCEPT ![t] = None]
  /\ Begin("delete", {t})
  /\ UNCHANGED <<at, next, mongo, reports, tracker, queue, troubled, touched>>

DeleteRecord ==
  /\ admin.op = "delete"
  /\ mongo' = [t \in Tasks |-> IF t \in admin.tasks THEN None ELSE mongo[t]]
  /\ admin' = Quiet
  /\ UNCHANGED <<at, next, memory, reports, tracker, queue, history>>

\* Fault: the cleanup does not look at the status.
MutZombies(old) == {t \in old : memory[t] # None}

Zombies(old) == {t \in old : memory[t] # None /\ memory[t].status \in {"running", "pending"}}

\* old: the tasks created longer ago than max_running_hours.
CleanupZombies(old) ==
  /\ memory' = [t \in Tasks |-> IF t \in Zombies(old) THEN [status |-> "failed", progress |-> 0]
                               ELSE memory[t]]
  /\ touched' = touched \cup Zombies(old)
  /\ Begin("cleanup", old)
  /\ UNCHANGED <<at, next, mongo, reports, tracker, queue, troubled>>

\* MongoDB rejects the filter, whose second alternative asks for an operator named
\* started_at; the exception is answered as "0 cleaned".
CleanupRecords ==
  /\ admin.op = "cleanup"
  /\ admin' = Quiet
  /\ UNCHANGED <<at, next, stores, queue, history>>

\* The process restarts: what is left is in MongoDB and in the saved trackers.
Restart ==
  /\ Mishap
  /\ at' = [t \in Tasks |-> IF at[t] \in {"absent", "done"} THEN at[t] ELSE "lost"]
  /\ next' = [t \in Tasks |-> 1]
  /\ memory' = [t \in Tasks |-> None]
  /\ queue' = <<>>
  /\ admin' = Quiet
  /\ UNCHANGED <<mongo, reports, tracker, troubled, touched>>

------------------------------------------------------------------------------
Run(t) == \/ InsertTask(t) \/ Validate(t) \/ Write(t) \/ TakeThread(t)
          \/ \E level \in Levels : NodeDone(t, level)
          \/ NodeToMongo(t) \/ NodeToMemory(t) \/ GraphEnds(t) \/ AnalysisFails(t)
          \/ MarkTrackerCompleted(t) \/ SaveResults(t) \/ Announce(t) \/ RecordCompleted(t)
          \/ MarkTrackerFailed(t) \/ RememberFailed(t) \/ RecordFailed(t)

Administer == \/ \E t \in Tasks : MarkFailed(t) \/ DeleteTask(t)
              \/ (\E old \in SUBSET Tasks \ {{}} : CleanupZombies(old))
              \/ MarkRecord \/ DeleteRecord \/ CleanupRecords

Next == \/ \E t \in Tasks : CreateTask(t) \/ Run(t)
        \/ Administer
        \/ Restart

Spec == Init /\ [][Next]_vars

\* The event loop and the threads go on, and the graph ends (its recursion is limited).
FairSpec == Spec /\ \A t \in Tasks : WF_vars(Run(t))

------------------------------------------------------------------------------
Percentages == {0, 7, 9, 10, 20, 90, 100} \cup Levels
States == {"pending", "running", "processing", "completed", "failed"}

TypeOK ==
  /\ at \in [Tasks -> {"absent", "insert", "ready", "starting", "queued", "preparing", "graph",
                       "callback", "callbackMemory", "evaluating", "finish", "save", "announce",
                       "record", "fail", "failMemory", "failRecord", "done", "lost"}]
  /\ next \in [Tasks -> 1..9]
  /\ memory \in [Tasks -> [status : States \ {"processing"}, progress : Percentages] \cup {None}]
  /\ mongo \in [Tasks -> [status : States \ {"running"}, progress : Percentages] \cup {None}]
  /\ tracker \in [Tasks -> [status : {"running", "completed", "failed"},
                             percent : Percentages] \cup {None}]
  /\ \A i \in DOMAIN queue : at[queue[i]] = "queued"
  /\ reports \cup troubled \cup touched \subseteq Tasks
  /\ mishaps \in 0..MaxMishaps

\* What nobody but the task itself has written, and no failed call has left out.
OwnWork(t) == t \notin touched \cup troubled /\ memory[t] # None /\ mongo[t] # None

\* When the coroutine of a task has ended, by whatever path, memory and MongoDB say the same.
EndsAgree == \A t \in Tasks : at[t] = "done" /\ OwnWork(t) =>
  /\ memory[t] = mongo[t]
  /\ memory[t].status \in {"completed", "failed"}

\* Between two progress updates the task's three copies of the percentage are the same,
\* whether the event loop, the thread or a callback of the graph wrote them.
ProgressAgrees == \A t \in Tasks : at[t] \in {"queued", "graph"} /\ OwnWork(t) =>
  /\ memory[t].progress = tracker[t].percent
  /\ mongo[t].progress = tracker[t].percent

\* The copies of a task's state agree whenever they are not being written.
StoresAgree == EndsAgree /\ ProgressAgrees

\* What the status endpoint answers: memory, then MongoDB's task, then its report.
Shown(t) == CASE memory[t] # None -> memory[t].status
              [] memory[t] = None /\ mongo[t] # None -> mongo[t].status
              [] OTHER -> IF t \in reports THEN "completed" ELSE "unknown"

\* An analysis that is shown as completed has its report in MongoDB, before and after any
\* restart, unless saving it failed.
AnnouncedIsSaved == \A t \in Tasks : Shown(t) = "completed" => t \in reports \cup troubled

\* A completed analysis is not restarted, reset or failed by a late update, a cleanup or
\* anything else than a request about that very task (or the loss of the memory).
CompletedIsFinal(t) ==
  memory[t] # None /\ memory[t].status = "completed" =>
    \/ memory'[t] \in {None, memory[t]}
    \/ admin'.op = "mark" /\ t \in admin'.tasks

\* A task that was deleted, or was lost, is not brought back by the updates of the threads
\* that still work on it.
DeletedStaysDeleted(t) ==
  Known(t) => /\ memory[t] = None => memory'[t] = None
              /\ mongo[t] = None => mongo'[t] = None

\* No task is revived after its end, by any order of late updates and requests.
NothingIsRevived == [][\A t \in Tasks : CompletedIsFinal(t) /\ DeletedStaysDeleted(t)]_vars

\* Every analysis ends, however many wait for the threads of the pool, unless a restart
\* takes it.
EveryAnalysisEnds == \A t \in Tasks : at[t] = "insert" ~> at[t] \in {"done", "lost"}

==============================================================================
