----------------------------- MODULE AnalysisQueue -----------------------------
(***************************************************************************)
(* The queue of analysis tasks of TradingAgents-CN: QueueService over      *)
(* Redis (app/services/queue_service.py, queue/helpers.py), the workers    *)
(* that consume it (app/worker/analysis_worker.py) and the HTTP handlers   *)
(* that submit and cancel (app/routers/analysis.py).  Every Redis command  *)
(* is awaited by itself, so a step is one command and any other process,   *)
(* or coroutine of the same process, runs between two of them.  The user   *)
(* of a task never changes: an HGETALL of which only the user is used is   *)
(* part of the step before it.                                             *)
(***************************************************************************)
EXTENDS Naturals, FiniteSets, SequencesExt

CONSTANTS Users, Tasks, Batches,
          UserOf,       \* the user each task identifier is made for
          Submitters,   \* handlers of /analyze and /analyze/batch
          Cancellers,   \* handlers of /tasks/{id}/cancel
          Workers,      \* work loops, one for each worker process
          Cleaners,     \* cleanup loops
          ProcessOf,    \* the worker process a cleanup loop runs in
          UserLimit, GlobalLimit,
          Visibility,   \* visibility timeout, in seconds
          BatchSize,    \* bound on the symbols of a batch
          MaxTime,      \* bound on the clock
          MaxCrashes,   \* bound on the worker processes that are killed
          None

Procs == Submitters \cup Cancellers \cup Workers \cup Cleaners

ASSUME TasksHaveUsers == UserOf \in [Tasks -> Users]
ASSUME CleanersHaveWorkers == ProcessOf \in [Cleaners -> Workers]
ASSUME ProcsAreDistinct ==
  /\ Submitters \cap (Cancellers \cup Workers \cup Cleaners) = {}
  /\ Cancellers \cap (Workers \cup Cleaners) = {}
  /\ Workers \cap Cleaners = {}
ASSUME NumbersAreNatural ==
  {UserLimit, GlobalLimit, Visibility, BatchSize, MaxTime, MaxCrashes} \subseteq Nat
ASSUME NoneIsNew == None \notin Users \cup Tasks \cup Batches \cup Workers \cup Nat

VARIABLES
  task,            \* qa:task:*, the hash of each task: status, worker_id
  ready,           \* qa:ready: LPUSH puts at the head, RPOP takes the last
  processing,      \* qa:processing
  userProcessing,  \* qa:user_processing:*
  completed,       \* qa:completed
  failed,          \* qa:failed
  visibility,      \* qa:visibility:*: timeout_at, and when Redis drops the key
  batches,         \* qa:batch:* (submitted) and qa:batch_tasks:* (tasks)
  proc,            \* where each process is, the operation and the task it is at
  request,         \* what each submitter was asked for
  sweep,           \* the locals of cleanup_expired_tasks
  clock,           \* seconds; int(time.time())
  crashes,
  runs,            \* history: how often each task was handed to a worker
  answered         \* history: the batches that were answered without an error

redis == <<task, ready, processing, userProcessing, completed, failed, visibility, batches>>
locals == <<proc, request, sweep>>
history == <<runs, answered>>
slots == <<processing, userProcessing>>
outcomes == <<completed, failed>>
others == <<request, sweep, clock, crashes, history>>   \* all but redis and proc
vars == <<redis, locals, clock, crashes, history>>

NoTask == [status |-> "absent", worker |-> None]
NoTimeout == [at |-> None, expires |-> None]
NoBatch == [submitted |-> 0, tasks |-> {}]
Idle == [pc |-> "idle", op |-> "none", task |-> None, ok |-> FALSE]
NoRequest == [user |-> None, batch |-> None, left |-> 0]
NoSweep == [now |-> 0, keys |-> {}, expired |-> <<>>]

Init == /\ task = [t \in Tasks |-> NoTask]
        /\ ready = <<>>
        /\ processing = {}
        /\ userProcessing = [u \in Users |-> {}]
        /\ completed = {}
        /\ failed = {}
        /\ visibility = [t \in Tasks |-> NoTimeout]
        /\ batches = [b \in Batches |-> NoBatch]
        /\ proc = [p \in Procs |-> Idle]
        /\ request = [s \in Submitters |-> NoRequest]
        /\ sweep = [c \in Cleaners |-> NoSweep]
        /\ clock = 0
        /\ crashes = 0
        /\ runs = [t \in Tasks |-> 0]
        /\ answered = {}

At(p, pc) == proc[p].pc = pc
GoTo(p, pc) == proc' = [proc EXCEPT ![p].pc = pc]
Return(p) == proc' = [proc EXCEPT ![p] = Idle]

MutOneTooMany(u) == Cardinality(userProcessing[u]) <= UserLimit

UserHasSlot(u) == Cardinality(userProcessing[u]) < UserLimit

SystemHasSlot == Cardinality(processing) < GlobalLimit

------------------------------------------------------------------------------
(* enqueue_task, create_batch *)

SubmitOne(s, u) ==
  /\ At(s, "idle")
  /\ request' = [request EXCEPT ![s] = [user |-> u, batch |-> None, left |-> 1]]
  /\ GoTo(s, "checkUser")
  /\ UNCHANGED <<redis, sweep, clock, crashes, history>>

SubmitBatch(s, u, b, size) ==
  /\ At(s, "idle")
  /\ batches[b] = NoBatch
  /\ batches' = [batches EXCEPT ![b].submitted = size]
  /\ request' = [request EXCEPT ![s] = [user |-> u, batch |-> b, left |-> size]]
  /\ GoTo(s, "checkUser")
  /\ UNCHANGED <<task, ready, slots, outcomes, visibility, sweep, clock, crashes, history>>

\* ValueError: the tasks of the batch that are already queued stay queued.
Refuse(s) ==
  /\ Return(s)
  /\ request' = [request EXCEPT ![s] = NoRequest]
  /\ UNCHANGED <<redis, sweep, clock, crashes, history>>

CheckUser(s) ==
  /\ At(s, "checkUser")
  /\ UserHasSlot(request[s].user)
  /\ GoTo(s, "checkGlobal")
  /\ UNCHANGED <<redis, others>>

CheckGlobal(s) ==
  /\ At(s, "checkGlobal")
  /\ SystemHasSlot
  /\ GoTo(s, "save")
  /\ UNCHANGED <<redis, others>>

\* The identifiers a task may take: uuid4 never repeats one.
FreshTasks(u) == {t \in Tasks : task[t].status = "absent" /\ UserOf[t] = u}

RefuseTask(s) ==
  /\ \/ At(s, "checkUser") /\ ~UserHasSlot(request[s].user)
     \/ At(s, "checkGlobal") /\ ~SystemHasSlot
     \/ At(s, "save") /\ FreshTasks(request[s].user) = {}   \* bound: no identifier left
  /\ Refuse(s)

SaveTask(s) ==
  /\ At(s, "save")
  /\ \E t \in FreshTasks(request[s].user) :
       /\ task' = [task EXCEPT ![t] = [status |-> "queued", worker |-> None]]
       /\ proc' = [proc EXCEPT ![s] = [@ EXCEPT !.pc = "push", !.task = t]]
  /\ UNCHANGED <<ready, slots, outcomes, visibility, batches, others>>

PushTask(s) ==
  /\ At(s, "push")
  /\ ready' = <<proc[s].task>> \o ready
  /\ IF request[s].batch = None
     THEN Return(s) /\ request' = [request EXCEPT ![s] = NoRequest]
     ELSE GoTo(s, "addToBatch") /\ UNCHANGED request
  /\ UNCHANGED <<task, slots, outcomes, visibility, batches, sweep, clock, crashes, history>>

MutLastIsForgotten(s) ==
  LET b == request[s].batch IN
  /\ At(s, "addToBatch")
  /\ IF request[s].left > 1
     THEN /\ batches' = [batches EXCEPT ![b].tasks = @ \cup {proc[s].task}]
          /\ request' = [request EXCEPT ![s].left = @ - 1]
          /\ GoTo(s, "checkUser")
          /\ UNCHANGED answered
     ELSE /\ request' = [request EXCEPT ![s] = NoRequest]
          /\ Return(s)
          /\ answered' = answered \cup {b}
          /\ UNCHANGED batches
  /\ UNCHANGED <<task, ready, slots, outcomes, visibility, sweep, clock, crashes, runs>>

AddToBatch(s) ==
  LET b == request[s].batch IN
  /\ At(s, "addToBatch")
  /\ batches' = [batches EXCEPT ![b].tasks = @ \cup {proc[s].task}]
  /\ IF request[s].left > 1
     THEN /\ request' = [request EXCEPT ![s].left = @ - 1]
          /\ GoTo(s, "checkUser")
          /\ UNCHANGED answered
     ELSE /\ request' = [request EXCEPT ![s] = NoRequest]
          /\ Return(s)
          /\ answered' = answered \cup {b}
  /\ UNCHANGED <<task, ready, slots, outcomes, visibility, sweep, clock, crashes, runs>>

------------------------------------------------------------------------------
(* dequeue_task, called by the work loop *)

\* LINDEX in place of RPOP, the entry removed later.
MutPeek(w) ==
  /\ At(w, "idle")
  /\ ready # <<>>
  /\ proc' = [proc EXCEPT ![w] = [Idle EXCEPT !.pc = "check", !.task = Last(ready)]]
  /\ UNCHANGED <<redis, others>>

Pop(w) ==
  /\ At(w, "idle")
  /\ ready # <<>>
  /\ ready' = Front(ready)
  /\ proc' = [proc EXCEPT ![w] = [Idle EXCEPT !.pc = "check", !.task = Last(ready)]]
  /\ UNCHANGED <<task, slots, outcomes, visibility, batches, others>>

MutGiveUp(w) ==
  /\ At(w, "check")
  /\ IF UserHasSlot(UserOf[proc[w].task]) THEN GoTo(w, "markUser") ELSE Return(w)
  /\ UNCHANGED <<redis, others>>

\* check_user_concurrent_limit alone: the global limit is not looked at here.
CheckSlot(w) ==
  /\ At(w, "check")
  /\ GoTo(w, IF UserHasSlot(UserOf[proc[w].task]) THEN "markUser" ELSE "putBack")
  /\ UNCHANGED <<redis, others>>

MutNotPutBack(w) ==
  /\ At(w, "putBack")
  /\ Return(w)
  /\ UNCHANGED <<redis, others>>

PutBack(w) ==
  /\ At(w, "putBack")
  /\ ready' = <<proc[w].task>> \o ready
  /\ Return(w)
  /\ UNCHANGED <<task, slots, outcomes, visibility, batches, others>>

MarkUser(w) ==
  /\ At(w, "markUser")
  /\ userProcessing' = [userProcessing EXCEPT ![UserOf[proc[w].task]] = @ \cup {proc[w].task}]
  /\ GoTo(w, "markGlobal")
  /\ UNCHANGED <<task, ready, processing, outcomes, visibility, batches, others>>

MarkGlobal(w) ==
  /\ At(w, "markGlobal")
  /\ processing' = processing \cup {proc[w].task}
  /\ GoTo(w, "setTimeout")
  /\ UNCHANGED <<task, ready, userProcessing, outcomes, visibility, batches, others>>

\* HSET of the hash, which leaves a time to live it already has.
SetTimeout(w) ==
  /\ At(w, "setTimeout")
  /\ visibility' = [visibility EXCEPT ![proc[w].task].at = clock + Visibility]
  /\ GoTo(w, "expire")
  /\ UNCHANGED <<task, ready, slots, outcomes, batches, others>>

\* EXPIRE, which does nothing to a key that is gone.
SetExpire(w) ==
  LET t == proc[w].task IN
  /\ At(w, "expire")
  /\ visibility' = IF visibility[t].at = None THEN visibility
                   ELSE [visibility EXCEPT ![t].expires = clock + Visibility]
  /\ GoTo(w, "markTask")
  /\ UNCHANGED <<task, ready, slots, outcomes, batches, others>>

MarkTask(w) ==
  LET t == proc[w].task IN
  /\ At(w, "markTask")
  /\ task' = [task EXCEPT ![t] = [status |-> "processing", worker |-> w]]
  /\ runs' = [runs EXCEPT ![t] = @ + 1]
  /\ GoTo(w, "analyse")
  /\ UNCHANGED <<ready, slots, outcomes, visibility, batches, request, sweep, clock,
                 crashes, answered>>

------------------------------------------------------------------------------
(* ack_task, _handle_expired_task and cancel_task: what the three share *)

\* Unmark, clear the timeout, then go on as the operation does.
Unmark(p, op, t, ok) ==
  proc' = [proc EXCEPT ![p] = [pc |-> "unmarkUser", op |-> op, task |-> t, ok |-> ok]]

UnmarkUser(p) ==
  /\ At(p, "unmarkUser")
  /\ userProcessing' = [userProcessing EXCEPT ![UserOf[proc[p].task]] = @ \ {proc[p].task}]
  /\ GoTo(p, "unmarkGlobal")
  /\ UNCHANGED <<task, ready, processing, outcomes, visibility, batches, others>>

MutKeepsGlobalSlot(p) ==
  /\ At(p, "unmarkGlobal")
  /\ GoTo(p, "clear")
  /\ UNCHANGED <<redis, others>>

UnmarkGlobal(p) ==
  /\ At(p, "unmarkGlobal")
  /\ processing' = processing \ {proc[p].task}
  /\ GoTo(p, "clear")
  /\ UNCHANGED <<task, ready, userProcessing, outcomes, visibility, batches, others>>

MutTimeoutStays(p) ==
  /\ At(p, "clear")
  /\ GoTo(p, proc[p].op)
  /\ UNCHANGED <<redis, others>>

ClearTimeout(p) ==
  /\ At(p, "clear")
  /\ visibility' = [visibility EXCEPT ![proc[p].task] = NoTimeout]
  /\ GoTo(p, proc[p].op)
  /\ UNCHANGED <<task, ready, slots, outcomes, batches, others>>

------------------------------------------------------------------------------
(* _process_task: ack_task is called in its finally clause *)

FinishAnalysis(w, ok) ==
  /\ At(w, "analyse")
  /\ Unmark(w, "ack", proc[w].task, ok)
  /\ UNCHANGED <<redis, others>>

AckStatus(w) ==
  /\ At(w, "ack")
  /\ task' = [task EXCEPT ![proc[w].task].status = IF proc[w].ok THEN "completed" ELSE "failed"]
  /\ GoTo(w, "record")
  /\ UNCHANGED <<ready, slots, outcomes, visibility, batches, others>>

MutAlwaysCompleted(w) ==
  /\ At(w, "record")
  /\ completed' = completed \cup {proc[w].task}
  /\ Return(w)
  /\ UNCHANGED <<task, ready, slots, failed, visibility, batches, others>>

RecordOutcome(w) ==
  /\ At(w, "record")
  /\ IF proc[w].ok
     THEN completed' = completed \cup {proc[w].task} /\ UNCHANGED failed
     ELSE failed' = failed \cup {proc[w].task} /\ UNCHANGED completed
  /\ Return(w)
  /\ UNCHANGED <<task, ready, slots, visibility, batches, others>>

------------------------------------------------------------------------------
(* cleanup_expired_tasks *)

ListTimeouts(c) ==
  /\ At(c, "idle")
  /\ \E t \in Tasks : visibility[t] # NoTimeout
  /\ sweep' = [sweep EXCEPT ![c] =
                 [now |-> clock, keys |-> {t \in Tasks : visibility[t] # NoTimeout}, expired |-> <<>>]]
  /\ GoTo(c, "sweep")
  /\ UNCHANGED <<redis, request, clock, crashes, history>>

TimedOut(c, t) == /\ visibility[t] # NoTimeout
                  /\ sweep[c].now > visibility[t].at

ReadTimeout(c) ==
  /\ At(c, "sweep")
  /\ \E t \in sweep[c].keys :
       sweep' = [sweep EXCEPT ![c].keys = @ \ {t},
                              ![c].expired = IF TimedOut(c, t) THEN Append(@, t) ELSE @]
  /\ UNCHANGED <<redis, proc, request, clock, crashes, history>>

HandleExpired(c) ==
  /\ At(c, "sweep")
  /\ sweep[c].keys = {}
  /\ sweep[c].expired # <<>>
  /\ Unmark(c, "requeue", Head(sweep[c].expired), FALSE)
  /\ sweep' = [sweep EXCEPT ![c].expired = Tail(@)]
  /\ UNCHANGED <<redis, request, clock, crashes, history>>

PushExpired(c) ==
  /\ At(c, "requeue")
  /\ ready' = <<proc[c].task>> \o ready
  /\ GoTo(c, "markQueued")
  /\ UNCHANGED <<task, slots, outcomes, visibility, batches, others>>

MarkQueued(c) ==
  /\ At(c, "markQueued")
  /\ task' = [task EXCEPT ![proc[c].task] = [status |-> "queued", worker |-> None]]
  /\ proc' = [proc EXCEPT ![c] = [Idle EXCEPT !.pc = "sweep"]]
  /\ UNCHANGED <<ready, slots, outcomes, visibility, batches, others>>

EndSweep(c) ==
  /\ At(c, "sweep")
  /\ sweep[c].keys = {}
  /\ sweep[c].expired = <<>>
  /\ Return(c)
  /\ sweep' = [sweep EXCEPT ![c] = NoSweep]
  /\ UNCHANGED <<redis, request, clock, crashes, history>>

------------------------------------------------------------------------------
(* cancel_task *)

ReadStatus(x, t) ==
  LET status == task[t].status IN
  /\ At(x, "idle")
  /\ status # "absent"
  /\ CASE status = "processing" -> Unmark(x, "cancel", t, FALSE)
       [] status = "queued" -> proc' = [proc EXCEPT ![x] = [Idle EXCEPT !.pc = "remove", !.task = t]]
       [] OTHER -> proc' = [proc EXCEPT ![x] = [Idle EXCEPT !.pc = "cancel", !.task = t]]
  /\ UNCHANGED <<redis, others>>

\* s without the entries that are t, in their order (not SelectSeq, about which the
\* provers know nothing): the j-th entry kept has j - 1 kept entries before it.
Without(s, t) ==
  LET kept == {i \in DOMAIN s : s[i] # t}
      upTo(i) == {k \in kept : k <= i}
  IN [j \in 1..Cardinality(kept) |-> s[CHOOSE i \in kept : Cardinality(upTo(i)) = j]]

\* LREM with count 0 removes every copy.
RemoveReady(x) ==
  /\ At(x, "remove")
  /\ ready' = Without(ready, proc[x].task)
  /\ GoTo(x, "cancel")
  /\ UNCHANGED <<task, slots, outcomes, visibility, batches, others>>

CancelStatus(x) ==
  /\ At(x, "cancel")
  /\ task' = [task EXCEPT ![proc[x].task].status = "cancelled"]
  /\ Return(x)
  /\ UNCHANGED <<ready, slots, outcomes, visibility, batches, others>>

------------------------------------------------------------------------------
(* The environment *)

\* Redis keeps a key at least to its expiry second, and drops it in that second.
DropKey(t) ==
  /\ visibility[t].expires # None
  /\ clock >= visibility[t].expires
  /\ visibility' = [visibility EXCEPT ![t] = NoTimeout]
  /\ UNCHANGED <<task, ready, slots, outcomes, batches, locals, clock, crashes, history>>

Tick ==
  /\ clock < MaxTime
  /\ \A t \in Tasks : visibility[t].expires # clock
  /\ clock' = clock + 1
  /\ UNCHANGED <<redis, locals, crashes, history>>

\* A worker process is killed with its cleanup loop, and started again.
Crash(w) ==
  LET dead == {w} \cup {c \in Cleaners : ProcessOf[c] = w} IN
  /\ crashes < MaxCrashes
  /\ \E p \in dead : ~At(p, "idle")
  /\ crashes' = crashes + 1
  /\ proc' = [p \in Procs |-> IF p \in dead THEN Idle ELSE proc[p]]
  /\ sweep' = [c \in Cleaners |-> IF c \in dead THEN NoSweep ELSE sweep[c]]
  /\ UNCHANGED <<redis, request, clock, history>>

------------------------------------------------------------------------------
Submit(s) ==
  \/ \E u \in Users : \/ SubmitOne(s, u)
                      \/ \E b \in Batches, size \in 1..BatchSize : SubmitBatch(s, u, b, size)
  \/ CheckUser(s) \/ CheckGlobal(s) \/ RefuseTask(s)
  \/ SaveTask(s) \/ PushTask(s) \/ AddToBatch(s)

Release(p) == UnmarkUser(p) \/ UnmarkGlobal(p) \/ ClearTimeout(p)

WorkLoop(w) ==
  \/ Pop(w) \/ CheckSlot(w) \/ PutBack(w)
  \/ MarkUser(w) \/ MarkGlobal(w) \/ SetTimeout(w) \/ SetExpire(w) \/ MarkTask(w)
  \/ \E ok \in BOOLEAN : FinishAnalysis(w, ok)
  \/ Release(w) \/ AckStatus(w) \/ RecordOutcome(w)

CleanupLoop(c) ==
  \/ ListTimeouts(c) \/ ReadTimeout(c) \/ HandleExpired(c) \/ EndSweep(c)
  \/ Release(c) \/ PushExpired(c) \/ MarkQueued(c)

CancelStep(x) == Release(x) \/ RemoveReady(x) \/ CancelStatus(x)

Cancel(x) == (\E t \in Tasks : ReadStatus(x, t)) \/ CancelStep(x)

Next == \/ \E s \in Submitters : Submit(s)
        \/ \E w \in Workers : WorkLoop(w) \/ Crash(w)
        \/ \E c \in Cleaners : CleanupLoop(c)
        \/ \E x \in Cancellers : Cancel(x)
        \/ \E t \in Tasks : DropKey(t)
        \/ Tick

Spec == Init /\ [][Next]_vars

------------------------------------------------------------------------------
(* Properties *)

HeldBy(t, S) == \E p \in S : proc[p].task = t

\* Without timeouts and kills, RPOP hands a task to one worker, once: put back or
\* cancelled in between or not, no task is analysed twice (queue_service.py:104-137).
RunsOnce == \A t \in Tasks : runs[t] <= 1

\* Without kills, only the tasks a worker is at hold a slot of their user or of the
\* system: every path that ends an analysis, and a cancellation, gives it back.
SlotsAreInUse ==
  \A t \in Tasks : t \in processing \cup userProcessing[UserOf[t]] => HeldBy(t, Workers)

\* Without kills, a task that says it is queued can be reached: it is in the list, or a
\* process carries it there, or away.
QueuedIsReachable ==
  \A t \in Tasks : task[t].status = "queued" => \/ t \in ToSet(ready)
                                                \/ HeldBy(t, Procs)

\* Between two acknowledgements, the sets of finished tasks agree with the statuses, as
\* far as nobody cancelled a task that had finished.
OutcomesAgree ==
  \A t \in Tasks : ~HeldBy(t, Procs) =>
    /\ task[t].status = "completed" => t \in completed \ failed
    /\ task[t].status = "failed" => t \in failed \ completed
    /\ t \in completed \cup failed => task[t].status \in {"completed", "failed", "cancelled"}

\* A batch that was answered without an error holds as many tasks as it says were
\* submitted, however the workers overtake its submission (queue_service.py:179-192).
AnsweredBatchIsWhole ==
  \A b \in answered : Cardinality(batches[b].tasks) = batches[b].submitted

\* "每用户最多3个并发任务": no user has more tasks in progress than the limit.
UserLimitHolds == \A u \in Users : Cardinality(userProcessing[u]) <= UserLimit

\* With one cleanup loop, no task is twice in the list, whatever is killed.
NoDuplicates == IsInjective(ready)

\* "可见性超时: 防止任务丢失": a task in progress has a worker, or a cleanup loop that
\* puts it back, or a timeout a cleanup loop can still find.
ProcessingIsWatched ==
  \A t \in Tasks : task[t].status = "processing" => \/ HeldBy(t, Procs)
                                                    \/ visibility[t] # NoTimeout
                                                    \/ \E c \in Cleaners : t \in ToSet(sweep[c].expired)

\* Workers take and finish their steps, analyses included; a cancellation that was begun
\* is finished, and nobody is obliged to begin one.
FairSpec == /\ Spec
            /\ \A w \in Workers : WF_vars(WorkLoop(w))
            /\ \A x \in Cancellers : WF_vars(CancelStep(x))

\* When no worker is killed, every queued task is finished or cancelled: putting tasks
\* back at the limit starves none.
EveryTaskFinishes ==
  \A t \in Tasks : t \in ToSet(ready) ~> task[t].status \in {"completed", "failed", "cancelled"}

================================================================================
