-------------------------- MODULE AnalysisTasks_proofs --------------------------
(***************************************************************************)
(* The analyses within the API process for any number of tasks, levels,    *)
(* threads and mishaps: TLC checks them with one mishap, the theorems      *)
(* allow any mixture of failed calls, restarts and requests.               *)
(***************************************************************************)
EXTENDS AnalysisTasks, SequenceTheorems, TLAPS

Staged == {"starting", "preparing", "evaluating"}
Places == Staged \cup
  {"absent", "insert", "ready", "queued", "graph", "callback", "callbackMemory", "finish", "save",
   "announce", "record", "fail", "failMemory", "failRecord", "done", "lost"}
Tracked == {"queued", "preparing", "graph", "callback", "callbackMemory", "evaluating", "finish",
            "fail"}

MemoryRow == [status : States \ {"processing"}, progress : Percentages]
MongoRow == [status : States \ {"running"}, progress : Percentages]
TrackerRow == [status : {"running", "completed", "failed"}, percent : Percentages]

Types ==
  /\ at \in [Tasks -> Places]
  /\ next \in [Tasks -> 1..9]
  /\ memory \in [Tasks -> MemoryRow \cup {None}]
  /\ mongo \in [Tasks -> MongoRow \cup {None}]
  /\ tracker \in [Tasks -> TrackerRow \cup {None}]
  /\ reports \cup troubled \cup touched \subseteq Tasks
  /\ mishaps \in 0..MaxMishaps

\* Nobody waits twice, and who waits has not been given a thread.
QueueOK ==
  /\ queue \in Seq(Tasks)
  /\ \A i \in 1..Len(queue) : at[queue[i]] = "queued"
  /\ \A i, j \in 1..Len(queue) : queue[i] = queue[j] => i = j

\* The write a stage goes on with.
Due(t) == Stage(at[t])[next[t]]

\* The writes of a stage that were done; from the first on there is a tracker.
StageOK(t) ==
  /\ at[t] \in Staged => next[t] \in 1..Len(Stage(at[t]))
  /\ at[t] \in Tracked \/ (at[t] = "starting" /\ next[t] # 1) => tracker[t] \in TrackerRow
  /\ at[t] \in Staged /\ Due(t)[1] # "tracker" => tracker[t].percent = Due(t)[2]

TypeInv == Types /\ QueueOK /\ \A t \in Tasks : StageOK(t)

------------------------------------------------------------------------------
(* The writes of the stages *)

LEMMA StartingStage == Stage("starting") = Writes(10, "processing") \o Writes(20, "processing")
  BY Zenon DEF Stage

LEMMA PreparingStage ==
  Stage("preparing") = Writes(7, None) \o Writes(9, None) \o Writes(10, None)
  BY Zenon DEF Stage

LEMMA EvaluatingStage == Stage("evaluating") = Writes(90, None)
  BY Zenon DEF Stage

LEMMA StartingIs ==
  /\ Len(Stage("starting")) = 6
  /\ Stage("starting")[1] = <<"tracker", 10, "running">>
  /\ Stage("starting")[2] = <<"memory", 10, "running">>
  /\ Stage("starting")[3] = <<"mongo", 10, "processing">>
  /\ Stage("starting")[4] = <<"tracker", 20, "running">>
  /\ Stage("starting")[5] = <<"memory", 20, "running">>
  /\ Stage("starting")[6] = <<"mongo", 20, "processing">>
  BY StartingStage DEF Writes

LEMMA PreparingIs ==
  /\ Len(Stage("preparing")) = 9
  /\ Stage("preparing")[1] = <<"tracker", 7, "running">>
  /\ Stage("preparing")[2] = <<"memory", 7, "running">>
  /\ Stage("preparing")[3] = <<"mongo", 7, None>>
  /\ Stage("preparing")[4] = <<"tracker", 9, "running">>
  /\ Stage("preparing")[5] = <<"memory", 9, "running">>
  /\ Stage("preparing")[6] = <<"mongo", 9, None>>
  /\ Stage("preparing")[7] = <<"tracker", 10, "running">>
  /\ Stage("preparing")[8] = <<"memory", 10, "running">>
  /\ Stage("preparing")[9] = <<"mongo", 10, None>>
  BY PreparingStage DEF Writes

LEMMA EvaluatingIs ==
  /\ Len(Stage("evaluating")) = 3
  /\ Stage("evaluating")[1] = <<"tracker", 90, "running">>
  /\ Stage("evaluating")[2] = <<"memory", 90, "running">>
  /\ Stage("evaluating")[3] = <<"mongo", 90, None>>
  BY EvaluatingStage DEF Writes

\* What follows a write: the memory after the tracker, MongoDB after the memory, and then
\* the tracker, or nothing.
LEMMA StageRows ==
  ASSUME NEW place \in Staged, NEW k \in 1..Len(Stage(place)),
         NEW w, w = Stage(place)[k]
  PROVE  /\ Len(Stage(place)) \in {3, 6, 9} /\ Stage(place)[1][1] = "tracker"
         /\ w[1] \in {"tracker", "memory", "mongo"} /\ w[2] \in {7, 9, 10, 20, 90}
         /\ w[1] # "mongo" => /\ w[3] = "running"
                              /\ k < Len(Stage(place))
                              /\ Stage(place)[k + 1][2] = w[2]
         /\ w[1] = "tracker" => Stage(place)[k + 1][1] = "memory"
         /\ w[1] = "memory" => Stage(place)[k + 1][1] = "mongo"
         /\ w[1] = "mongo" => /\ w[3] \in {"processing", None}
                              /\ k < Len(Stage(place)) => Stage(place)[k + 1][1] = "tracker"
<1>1. CASE place = "starting"
  <2>1. k \in 1..6
    BY <1>1, StartingIs
  <2>2. k = 1 \/ k = 2 \/ k = 3 \/ k = 4 \/ k = 5 \/ k = 6
    BY <2>1
  <2>3. QED
    BY <1>1, <2>2, StartingIs, SMTT(60)
<1>2. CASE place = "preparing"
  <2>1. k \in 1..9
    BY <1>2, PreparingIs
  <2>2. \/ k = 1 \/ k = 2 \/ k = 3 \/ k = 4 \/ k = 5 \/ k = 6
        \/ k = 7 \/ k = 8 \/ k = 9
    BY <2>1
  <2>3. CASE k \in 1..3
    BY <1>2, <2>2, <2>3, PreparingIs, SMTT(60)
  <2>4. CASE k \in 4..6
    BY <1>2, <2>2, <2>4, PreparingIs, SMTT(60)
  <2>5. CASE k \in 7..9
    BY <1>2, <2>2, <2>5, PreparingIs, SMTT(60)
  <2>6. QED
    BY <2>1, <2>3, <2>4, <2>5
<1>3. CASE place = "evaluating"
  <2>1. k \in 1..3
    BY <1>3, EvaluatingIs
  <2>2. k = 1 \/ k = 2 \/ k = 3
    BY <2>1
  <2>3. QED
    BY <1>3, <2>2, EvaluatingIs
<1>4. QED
  BY <1>1, <1>2, <1>3 DEF Staged

LEMMA NoOtherStage ==
  ASSUME NEW place, place \notin Staged
  PROVE  Stage(place) = <<>>
<1>1. place # "starting" /\ place # "preparing" /\ place # "evaluating"
  BY DEF Staged
<1>2. QED
  BY <1>1, Zenon DEF Stage

LEMMA AfterIs == /\ AfterStage("starting") = "queued"
                 /\ AfterStage("preparing") = "graph"
                 /\ AfterStage("evaluating") = "finish"
  BY Zenon DEF AfterStage

\* One write of a stage, by the store it is for.
LEMMA WriteIs ==
  ASSUME NEW t \in Tasks, Write(t), NEW w, w = Due(t)
  PROVE  /\ at[t] \in Staged /\ UNCHANGED <<reports, admin>>
         /\ w[1] = "tracker" => Track(t, w[3], w[2]) /\ UNCHANGED <<memory, mongo, history>>
         /\ w[1] = "memory" => Remember(t, w[3], w[2]) /\ UNCHANGED <<tracker, mongo, history>>
         /\ w[1] = "mongo" =>
              /\ Record(t, Updated(t, IF w[3] = None THEN StatusOf(t) ELSE w[3], w[2]))
              /\ UNCHANGED <<tracker, memory>>
         /\ IF next[t] < Len(Stage(at[t]))
            THEN next' = [next EXCEPT ![t] = next[t] + 1] /\ UNCHANGED at
            ELSE GoTo(t, AfterStage(at[t]))
         /\ queue' = IF at'[t] = "queued" THEN Append(queue, t) ELSE queue
<1>1. at[t] \in Staged
  BY NoOtherStage DEF Write
<1>2. /\ UNCHANGED <<reports, admin>>
      /\ IF next[t] < Len(Stage(at[t]))
         THEN next' = [next EXCEPT ![t] = next[t] + 1] /\ UNCHANGED at
         ELSE GoTo(t, AfterStage(at[t]))
      /\ queue' = IF at'[t] = "queued" THEN Append(queue, t) ELSE queue
  BY Zenon DEF Write
<1>3. w[1] = "tracker" => Track(t, w[3], w[2]) /\ UNCHANGED <<memory, mongo, history>>
  BY Zenon DEF Write, Due
<1>4. w[1] = "memory" => Remember(t, w[3], w[2]) /\ UNCHANGED <<tracker, mongo, history>>
  <2>1. "memory" # "tracker"
    OBVIOUS
  <2>2. QED
    BY <2>1, Zenon DEF Write, Due
<1>5. w[1] = "mongo" =>
        /\ Record(t, Updated(t, IF w[3] = None THEN StatusOf(t) ELSE w[3], w[2]))
        /\ UNCHANGED <<tracker, memory>>
  <2>1. "mongo" # "tracker" /\ "mongo" # "memory"
    OBVIOUS
  <2>2. QED
    BY <2>1, Zenon DEF Write, Due
<1>6. QED
  BY <1>1, <1>2, <1>3, <1>4, <1>5

------------------------------------------------------------------------------
(* What a step of one task leaves alone *)

Same(u) == /\ at'[u] = at[u] /\ next'[u] = next[u]
           /\ memory'[u] = memory[u] /\ mongo'[u] = mongo[u] /\ tracker'[u] = tracker[u]
           /\ u \in reports' <=> u \in reports
           /\ u \in troubled' <=> u \in troubled

LEMMA WriteIsLocal ==
  ASSUME Types, NEW t \in Tasks, Write(t), at[t] \in Staged => next[t] \in 1..Len(Stage(at[t]))
  PROVE  (\A u \in Tasks \ {t} : Same(u)) /\ UNCHANGED <<admin, touched>>
<1>1. PICK w : w = Due(t)
  OBVIOUS
<1>2. w[1] \in {"tracker", "memory", "mongo"}
  BY <1>1, WriteIs, StageRows DEF Due
<1>3. \A u \in Tasks \ {t} : at'[u] = at[u] /\ next'[u] = next[u]
  BY <1>1, WriteIs DEF GoTo, Types
<1>4. UNCHANGED <<admin, reports>>
  BY <1>1, WriteIs
<1>5. CASE w[1] = "tracker"
  BY <1>1, <1>3, <1>4, <1>5, WriteIs DEF Same, Types, Track, history
<1>6. CASE w[1] = "memory"
  BY <1>1, <1>3, <1>4, <1>6, WriteIs DEF Same, Types, Remember, history
<1>7. CASE w[1] = "mongo"
  <2>1. PICK docs : docs = Updated(t, IF w[3] = None THEN StatusOf(t) ELSE w[3], w[2])
    OBVIOUS
  <2>2. \A u \in Tasks \ {t} : docs[u] = mongo[u]
    BY <2>1 DEF Updated, Types
  <2>3. Record(t, docs) /\ UNCHANGED <<tracker, memory>>
    BY <1>1, <1>7, <2>1, WriteIs
  <2>4. QED
    BY <1>3, <1>4, <2>2, <2>3 DEF Same, Record, history
<1>8. QED
  BY <1>2, <1>5, <1>6, <1>7

LEMMA RunIsLocal ==
  ASSUME Types, NEW t \in Tasks, CreateTask(t) \/ Run(t),
         at[t] \in Staged => next[t] \in 1..Len(Stage(at[t]))
  PROVE  (\A u \in Tasks \ {t} : Same(u)) /\ UNCHANGED <<admin, touched>>
<1> USE DEF Types, Same, GoTo, history, stores
<1>1. CASE CreateTask(t) \/ Validate(t) \/ TakeThread(t) \/ GraphEnds(t) \/ AnalysisFails(t)
  BY <1>1 DEF CreateTask, Validate, TakeThread, GraphEnds, AnalysisFails
<1>2. CASE InsertTask(t) \/ NodeToMongo(t) \/ RecordCompleted(t) \/ RecordFailed(t)
  BY <1>2 DEF InsertTask, NodeToMongo, RecordCompleted, RecordFailed, Record, Updated
<1>3. CASE (\E level \in Levels : NodeDone(t, level)) \/ MarkTrackerCompleted(t) \/ MarkTrackerFailed(t)
  BY <1>3 DEF NodeDone, MarkTrackerCompleted, MarkTrackerFailed, Track
<1>4. CASE NodeToMemory(t) \/ Announce(t) \/ RememberFailed(t)
  BY <1>4 DEF NodeToMemory, Announce, RememberFailed, Remember
<1>5. CASE SaveResults(t)
  BY <1>5 DEF SaveResults
<1>6. CASE Write(t)
  BY <1>6, WriteIsLocal
<1>7. QED
  BY <1>1, <1>2, <1>3, <1>4, <1>5, <1>6 DEF Run

------------------------------------------------------------------------------
(* The types, and the tracker that is there when it is asked *)

LEMMA WrittenValues ==
  /\ {7, 9, 10, 20, 90, 0, 100} \subseteq Percentages
  /\ \A p \in Percentages : /\ \A s \in {"pending", "running", "completed", "failed"} :
                                 [status |-> s, progress |-> p] \in MemoryRow
                            /\ \A s \in {"pending", "processing", "completed", "failed"} :
                                 [status |-> s, progress |-> p] \in MongoRow
                            /\ \A s \in {"running", "completed", "failed"} :
                                 [status |-> s, percent |-> p] \in TrackerRow
  BY DEF Percentages, MemoryRow, MongoRow, TrackerRow, States

\* The functions that write keep the types.
LEMMA WritesAreTyped ==
  ASSUME Types, NEW t \in Tasks, NEW p \in Percentages
  PROVE  /\ \A s \in {"pending", "running", "completed", "failed"} :
              Remember(t, s, p) => memory' \in [Tasks -> MemoryRow \cup {None}]
         /\ \A s \in {"running", "completed", "failed"} :
              Track(t, s, p) => /\ tracker' \in [Tasks -> TrackerRow \cup {None}]
                                /\ tracker'[t] = [status |-> s, percent |-> p]
         /\ \A s \in {"pending", "processing", "completed", "failed"} :
              Updated(t, s, p) \in [Tasks -> MongoRow \cup {None}]
         /\ Updated(t, StatusOf(t), p) \in [Tasks -> MongoRow \cup {None}]
<1>1. \A s \in {"pending", "running", "completed", "failed"} :
        Remember(t, s, p) => memory' \in [Tasks -> MemoryRow \cup {None}]
  <2> SUFFICES ASSUME NEW s \in {"pending", "running", "completed", "failed"}, Remember(t, s, p)
               PROVE  memory' \in [Tasks -> MemoryRow \cup {None}]
    OBVIOUS
  <2>1. PICK row \in MemoryRow : row = [status |-> s, progress |-> p]
    BY WrittenValues
  <2>2. memory' = IF memory[t] = None THEN memory ELSE [memory EXCEPT ![t] = row]
    BY <2>1 DEF Remember
  <2>3. QED
    BY <2>2 DEF Types
<1>2. \A s \in {"running", "completed", "failed"} :
        Track(t, s, p) => /\ tracker' \in [Tasks -> TrackerRow \cup {None}]
                          /\ tracker'[t] = [status |-> s, percent |-> p]
  <2> SUFFICES ASSUME NEW s \in {"running", "completed", "failed"}, Track(t, s, p)
               PROVE  /\ tracker' \in [Tasks -> TrackerRow \cup {None}]
                      /\ tracker'[t] = [status |-> s, percent |-> p]
    OBVIOUS
  <2>1. PICK row \in TrackerRow : row = [status |-> s, percent |-> p]
    BY WrittenValues
  <2>2. tracker' = [tracker EXCEPT ![t] = row]
    BY <2>1 DEF Track
  <2>3. QED
    BY <2>1, <2>2 DEF Types
<1>3. \A s \in {"pending", "processing", "completed", "failed"} :
        Updated(t, s, p) \in [Tasks -> MongoRow \cup {None}]
  BY WrittenValues DEF Updated, Types
<1>4. Updated(t, StatusOf(t), p) \in [Tasks -> MongoRow \cup {None}]
  <2>1. CASE mongo[t] = None
    BY <2>1 DEF Updated, Types
  <2>2. CASE mongo[t] # None
    <3>1. mongo[t] \in MongoRow /\ StatusOf(t) = mongo[t].status
      BY <2>2 DEF Types, StatusOf
    <3>2. [status |-> StatusOf(t), progress |-> p] \in MongoRow
      BY <3>1 DEF MongoRow
    <3>3. QED
      BY <2>2, <3>2 DEF Updated, Types
  <2>3. QED
    BY <2>1, <2>2
<1>5. QED
  BY <1>1, <1>2, <1>3, <1>4

LEMMA RecordIsTyped ==
  ASSUME Types, NEW t \in Tasks, NEW docs \in [Tasks -> MongoRow \cup {None}], Record(t, docs)
  PROVE  /\ mongo' \in [Tasks -> MongoRow \cup {None}]
         /\ troubled' \cup touched' \subseteq Tasks /\ mishaps' \in 0..MaxMishaps
  BY BoundsAreNatural DEF Types, Record, Mishap, history

\* A step of a task that does not wait.
LEMMA OthersWait ==
  ASSUME QueueOK, NEW t \in Tasks, at[t] # "queued", UNCHANGED queue,
         \A u \in Tasks \ {t} : at'[u] = at[u]
  PROVE  QueueOK'
  BY DEF QueueOK

LEMMA OthersStaged ==
  ASSUME NEW t \in Tasks, \A u \in Tasks : StageOK(u),
         \A u \in Tasks \ {t} : Same(u), StageOK(t)'
  PROVE  \A u \in Tasks : StageOK(u)'
<1>1. ASSUME NEW u \in Tasks \ {t} PROVE StageOK(u)'
  BY <1>1 DEF StageOK, Same, Due
<1>2. QED
  BY <1>1

LEMMA InitTyped == Init => TypeInv
<1> SUFFICES ASSUME Init PROVE TypeInv
  OBVIOUS
<1>1. Types
  BY BoundsAreNatural DEF Init, Types, Places, Staged
<1>2. QueueOK
  BY DEF Init, QueueOK
<1>3. \A t \in Tasks : StageOK(t)
  BY DEF Init, StageOK, Staged, Tracked
<1>4. QED
  BY <1>1, <1>2, <1>3 DEF TypeInv

LEMMA WriteTyped ==
  ASSUME TypeInv, NEW t \in Tasks, Write(t)
  PROVE  TypeInv'
<1>1. PICK w : w = Due(t)
  OBVIOUS
<1>2. PICK place \in Staged : place = at[t]
  BY <1>1, WriteIs
<1>3. PICK k \in 1..Len(Stage(place)) : k = next[t]
  BY <1>2 DEF TypeInv, StageOK
<1>4. w = Stage(place)[k]
  BY <1>1, <1>2, <1>3 DEF Due
<1>5. /\ Len(Stage(place)) \in {3, 6, 9} /\ Stage(place)[1][1] = "tracker"
      /\ w[1] \in {"tracker", "memory", "mongo"} /\ w[2] \in {7, 9, 10, 20, 90}
      /\ w[1] # "mongo" => /\ w[3] = "running"
                           /\ k < Len(Stage(place))
                           /\ Stage(place)[k + 1][2] = w[2]
      /\ w[1] = "tracker" => Stage(place)[k + 1][1] = "memory"
      /\ w[1] = "memory" => Stage(place)[k + 1][1] = "mongo"
      /\ w[1] = "mongo" => /\ w[3] \in {"processing", None}
                           /\ k < Len(Stage(place)) => Stage(place)[k + 1][1] = "tracker"
  BY <1>4, StageRows
<1>6. PICK p \in Percentages : p = w[2]
  BY <1>5 DEF Percentages
<1>7. (\A u \in Tasks \ {t} : Same(u)) /\ UNCHANGED <<admin, touched>>
  BY <1>2, <1>3, WriteIsLocal DEF TypeInv
<1>8. /\ memory' \in [Tasks -> MemoryRow \cup {None}]
      /\ mongo' \in [Tasks -> MongoRow \cup {None}]
      /\ tracker' \in [Tasks -> TrackerRow \cup {None}]
      /\ reports' \cup troubled' \cup touched' \subseteq Tasks
      /\ mishaps' \in 0..MaxMishaps
      /\ w[1] = "tracker" => tracker'[t] \in TrackerRow /\ tracker'[t].percent = w[2]
      /\ w[1] # "tracker" => tracker' = tracker
  <2>1. Types /\ reports' = reports
    BY <1>1, WriteIs DEF TypeInv
  <2>2. CASE w[1] = "tracker"
    <3>1. Track(t, "running", p) /\ UNCHANGED <<memory, mongo, history>>
      BY <1>1, <1>5, <1>6, <2>2, WriteIs
    <3>2. /\ tracker' \in [Tasks -> TrackerRow \cup {None}]
          /\ tracker'[t] = [status |-> "running", percent |-> p]
      BY <2>1, <3>1, WritesAreTyped
    <3>3. tracker'[t] \in TrackerRow /\ tracker'[t].percent = p
      BY <3>2 DEF TrackerRow
    <3>4. QED
      BY <1>6, <2>1, <2>2, <3>1, <3>2, <3>3 DEF Types, history
  <2>3. CASE w[1] = "memory"
    <3>1. Remember(t, "running", p) /\ UNCHANGED <<tracker, mongo, history>>
      BY <1>1, <1>5, <1>6, <2>3, WriteIs
    <3>2. memory' \in [Tasks -> MemoryRow \cup {None}]
      BY <2>1, <3>1, WritesAreTyped
    <3>3. QED
      BY <2>1, <2>3, <3>1, <3>2 DEF Types, history
  <2>4. CASE w[1] = "mongo"
    <3>1. PICK docs : docs = Updated(t, IF w[3] = None THEN StatusOf(t) ELSE w[3], p)
      OBVIOUS
    <3>2. docs \in [Tasks -> MongoRow \cup {None}]
      <4>1. CASE w[3] = None
        BY <2>1, <3>1, <4>1, WritesAreTyped
      <4>2. CASE w[3] # None
        BY <1>5, <2>1, <2>4, <3>1, <4>2, WritesAreTyped
      <4>3. QED
        BY <4>1, <4>2
    <3>3. Record(t, docs) /\ UNCHANGED <<tracker, memory>>
      BY <1>1, <1>6, <2>4, <3>1, WriteIs
    <3>4. /\ mongo' \in [Tasks -> MongoRow \cup {None}]
          /\ troubled' \cup touched' \subseteq Tasks /\ mishaps' \in 0..MaxMishaps
      BY <2>1, <3>2, <3>3, RecordIsTyped
    <3>5. QED
      BY <2>1, <2>4, <3>3, <3>4 DEF Types
  <2>5. QED
    BY <1>5, <2>2, <2>3, <2>4
<1>9. at[t] \in Tracked \/ (at[t] = "starting" /\ next[t] # 1) => tracker[t] \in TrackerRow
  BY DEF TypeInv, StageOK
<1>10. w[1] # "tracker" => tracker[t] \in TrackerRow /\ tracker[t].percent = w[2]
  <2>1. w[1] # "tracker" /\ place = "starting" => k # 1
    BY <1>4, <1>5
  <2>2. w[1] # "tracker" => tracker[t].percent = w[2]
    BY <1>1, <1>2 DEF TypeInv, StageOK
  <2>3. QED
    BY <1>2, <1>3, <1>9, <2>1, <2>2 DEF Staged, Tracked
<1>11. tracker'[t] \in TrackerRow /\ tracker'[t].percent = w[2]
  BY <1>8, <1>10
<1>12. CASE k < Len(Stage(place))
  <2>1. next'[t] = k + 1 /\ at' = at /\ next' \in [Tasks -> 1..9]
    BY <1>1, <1>2, <1>3, <1>5, <1>12, WriteIs DEF TypeInv, Types
  <2>2. UNCHANGED queue
    BY <1>1, <1>2, <2>1, WriteIs DEF Staged
  <2>3. Types'
    BY <1>8, <2>1 DEF TypeInv, Types
  <2>4. QueueOK'
    BY <2>1, <2>2 DEF TypeInv, QueueOK
  <2>5. k + 1 \in 1..Len(Stage(place))
    BY <1>5, <1>12
  <2>6. Due(t)' = Stage(place)[k + 1]
    BY <1>2, <2>1 DEF Due
  <2>7. Stage(place)[k + 1][1] # "tracker" => Stage(place)[k + 1][2] = w[2]
    BY <1>5, <1>12
  <2>8. StageOK(t)'
    BY <1>2, <1>11, <2>1, <2>5, <2>6, <2>7 DEF StageOK
  <2>9. QED
    BY <1>7, <2>3, <2>4, <2>8, OthersStaged DEF TypeInv
<1>13. CASE ~(k < Len(Stage(place)))
  <2>1. PICK after \in {"queued", "graph", "finish"} :
          after = AfterStage(place) /\ (after = "queued" <=> place = "starting")
    BY AfterIs DEF Staged
  <2>2. GoTo(t, after)
    BY <1>1, <1>2, <1>3, <1>13, <2>1, WriteIs
  <2>3. /\ at' \in [Tasks -> Places] /\ next' \in [Tasks -> 1..9] /\ at'[t] = after
    BY <2>2 DEF GoTo, TypeInv, Types, Places
  <2>4. Types'
    BY <1>8, <2>3 DEF TypeInv, Types
  <2>5. \A u \in Tasks \ {t} : at'[u] = at[u]
    BY <1>7 DEF Same
  <2>6. at[t] # "queued"
    BY <1>2 DEF Staged
  <2>7. QueueOK'
    <3>1. CASE after = "queued"
      <4>1. queue' = Append(queue, t)
        BY <1>1, <2>3, <3>1, WriteIs
      <4>2. queue \in Seq(Tasks)
        BY DEF TypeInv, QueueOK
      <4>3. /\ Len(queue) \in Nat /\ queue' \in Seq(Tasks) /\ Len(queue') = Len(queue) + 1
            /\ \A i \in 1..Len(queue) : queue'[i] = queue[i] /\ queue[i] \in Tasks
            /\ queue'[Len(queue) + 1] = t
        BY <4>1, <4>2, AppendProperties
      <4>4. \A i \in 1..Len(queue') : i \in 1..Len(queue) \/ i = Len(queue) + 1
        BY <4>3
      <4>5. \A i \in 1..Len(queue) : queue[i] # t /\ at[queue[i]] = "queued"
        BY <2>6 DEF TypeInv, QueueOK
      <4>6. \A i \in 1..Len(queue') : at'[queue'[i]] = "queued"
        BY <2>3, <2>5, <3>1, <4>3, <4>4, <4>5
      <4>7. \A i, j \in 1..Len(queue) : queue[i] = queue[j] => i = j
        BY DEF TypeInv, QueueOK
      <4>8. \A i, j \in 1..Len(queue') : queue'[i] = queue'[j] => i = j
        BY <4>3, <4>4, <4>5, <4>7
      <4>9. QED
        BY <4>3, <4>6, <4>8 DEF QueueOK
    <3>2. CASE after # "queued"
      <4>1. UNCHANGED queue
        BY <1>1, <2>3, <3>2, WriteIs
      <4>2. QED
        BY <2>5, <2>6, <4>1, OthersWait DEF TypeInv
    <3>3. QED
      BY <3>1, <3>2
  <2>8. StageOK(t)'
    BY <1>11, <2>3 DEF StageOK, Staged
  <2>9. QED
    BY <1>7, <2>4, <2>7, <2>8, OthersStaged DEF TypeInv
<1>14. QED
  BY <1>12, <1>13

\* The queue, when its first task is given a thread.
LEMMA TakeTyped ==
  ASSUME TypeInv, NEW t \in Tasks, TakeThread(t)
  PROVE  TypeInv'
<1>1. /\ queue \in Seq(Tasks) /\ queue # <<>> /\ t = Head(queue) /\ queue' = Tail(queue)
      /\ GoTo(t, "preparing") /\ UNCHANGED <<stores, admin, history>>
  BY DEF TakeThread, TypeInv, QueueOK
<1>2. /\ Len(queue) \in Nat /\ Len(queue) # 0 /\ queue[1] = t
      /\ queue' \in Seq(Tasks) /\ Len(queue') = Len(queue) - 1
      /\ \A i \in 1..Len(queue') : queue'[i] = queue[i + 1]
  BY <1>1, EmptySeq, HeadTailProperties
<1>3. \A i \in 1..Len(queue') : i + 1 \in 1..Len(queue) /\ i + 1 # 1
  BY <1>2
<1>4. 1 \in 1..Len(queue)
  BY <1>2
<1>5. at[t] = "queued"
  BY <1>2, <1>4 DEF TypeInv, QueueOK
<1>6. /\ at' \in [Tasks -> Places] /\ next' \in [Tasks -> 1..9]
      /\ at'[t] = "preparing" /\ next'[t] = 1
      /\ \A u \in Tasks \ {t} : at'[u] = at[u]
  BY <1>1 DEF GoTo, TypeInv, Types, Places, Staged
<1>7. Types'
  BY <1>1, <1>6 DEF TypeInv, Types, stores, history
<1>8. QueueOK'
  <2>1. \A i \in 1..Len(queue') : queue'[i] # t /\ queue'[i] \in Tasks
    BY <1>2, <1>3, <1>4 DEF TypeInv, QueueOK
  <2>2. \A i \in 1..Len(queue') : at'[queue'[i]] = "queued"
    BY <1>2, <1>3, <1>6, <2>1 DEF TypeInv, QueueOK
  <2>3. ASSUME NEW i \in 1..Len(queue'), NEW j \in 1..Len(queue'), queue'[i] = queue'[j]
        PROVE  i = j
    <3>1. i + 1 = j + 1
      BY <1>2, <1>3, <2>3 DEF TypeInv, QueueOK
    <3>2. QED
      BY <3>1
  <2>4. QED
    BY <1>2, <2>2, <2>3 DEF QueueOK
<1>9. \A u \in Tasks \ {t} : Same(u)
  BY <1>1 DEF Same, GoTo, TypeInv, Types, stores, history
<1>10. StageOK(t)'
  <2>1. tracker[t] \in TrackerRow
    BY <1>5 DEF TypeInv, StageOK, Tracked
  <2>2. 1 \in 1..Len(Stage("preparing")) /\ Stage("preparing")[1][1] = "tracker"
    BY PreparingIs
  <2>3. QED
    BY <1>1, <1>6, <2>1, <2>2 DEF StageOK, Due, stores, Staged
<1>11. QED
  BY <1>7, <1>8, <1>9, <1>10, OthersStaged DEF TypeInv

\* The steps of a task that neither waits nor writes what a stage lists.
LEMMA RunTyped ==
  ASSUME TypeInv, NEW t \in Tasks, CreateTask(t) \/ Run(t)
  PROVE  TypeInv'
<1>1. Types /\ (at[t] \in Staged => next[t] \in 1..Len(Stage(at[t])))
  BY DEF TypeInv, StageOK
<1>2. \A u \in Tasks \ {t} : Same(u)
  BY <1>1, RunIsLocal
<1>3. ASSUME Types', at[t] # "queued", UNCHANGED queue, StageOK(t)' PROVE TypeInv'
  BY <1>2, <1>3, OthersWait, OthersStaged DEF TypeInv, Same
<1>4. Percentages # {} /\ {0, 100} \subseteq Percentages /\ Levels \subseteq Percentages
  BY DEF Percentages
<1>5. ASSUME NEW place \in Places, GoTo(t, place)
      PROVE  /\ at' \in [Tasks -> Places] /\ next' \in [Tasks -> 1..9]
             /\ at'[t] = place /\ next'[t] = 1
  BY <1>1, <1>5 DEF GoTo, Types
<1>6. ASSUME NEW place \in Places \ (Staged \cup Tracked), GoTo(t, place)
      PROVE  StageOK(t)'
  BY <1>5, <1>6 DEF StageOK, Staged
<1>7. ASSUME NEW place \in Tracked \ Staged, GoTo(t, place), tracker'[t] \in TrackerRow
      PROVE  StageOK(t)'
  BY <1>5, <1>7 DEF StageOK, Tracked, Places, Staged
<1>8. at[t] \in Tracked => tracker[t] \in TrackerRow
  BY DEF TypeInv, StageOK
<1>9. CASE CreateTask(t)
  <2>1. /\ at[t] = "absent" /\ UNCHANGED <<queue, mongo, tracker, reports, history>> /\ GoTo(t, "insert")
        /\ memory' = [memory EXCEPT ![t] = [status |-> "pending", progress |-> 0]]
    BY <1>9 DEF CreateTask
  <2>2. memory' \in [Tasks -> MemoryRow \cup {None}]
    <3>1. PICK row \in MemoryRow : row = [status |-> "pending", progress |-> 0]
      BY <1>4, WrittenValues
    <3>2. QED
      BY <1>1, <2>1, <3>1 DEF Types
  <2>3. QED
    BY <1>1, <1>3, <1>5, <1>6, <2>1, <2>2 DEF Types, history, Places, Staged, Tracked
<1>10. CASE InsertTask(t)
  <2>1. PICK docs : docs = [mongo EXCEPT ![t] = [status |-> "pending", progress |-> 0]]
    OBVIOUS
  <2>2. /\ at[t] = "insert" /\ UNCHANGED <<queue, memory, tracker, reports>> /\ GoTo(t, "ready")
        /\ Record(t, docs)
    BY <1>10, <2>1 DEF InsertTask
  <2>3. docs \in [Tasks -> MongoRow \cup {None}]
    <3>1. PICK row \in MongoRow : row = [status |-> "pending", progress |-> 0]
      BY <1>4, WrittenValues
    <3>2. QED
      BY <1>1, <2>1, <3>1 DEF Types
  <2>4. QED
    BY <1>1, <1>3, <1>5, <1>6, <2>2, <2>3, RecordIsTyped DEF Types, Places, Staged, Tracked
<1>11. CASE Validate(t)
  <2>1. at[t] = "ready" /\ UNCHANGED <<stores, queue, history>>
    BY <1>11 DEF Validate
  <2>2. CASE GoTo(t, "starting")
    <3>1. at'[t] = "starting" /\ next'[t] = 1 /\ at' \in [Tasks -> Places] /\ next' \in [Tasks -> 1..9]
      BY <1>5, <2>2 DEF Places, Staged
    <3>2. StageOK(t)'
      BY <3>1, StartingIs DEF StageOK, Due, Tracked
    <3>3. QED
      BY <1>1, <1>3, <2>1, <3>1, <3>2 DEF Types, stores, history
  <2>3. CASE GoTo(t, "failMemory")
    BY <1>1, <1>3, <1>5, <1>6, <2>1, <2>3 DEF Types, stores, history, Places, Staged, Tracked
  <2>4. QED
    BY <1>11, <2>2, <2>3 DEF Validate
<1>12. CASE \E level \in Levels : NodeDone(t, level)
  <2>1. PICK level \in Levels : NodeDone(t, level)
    BY <1>12
  <2>2. /\ at[t] = "graph" /\ GoTo(t, "callback") /\ Track(t, "running", level)
        /\ UNCHANGED <<memory, mongo, reports, queue, history>>
    BY <2>1 DEF NodeDone
  <2>3. /\ tracker' \in [Tasks -> TrackerRow \cup {None}]
        /\ tracker'[t] = [status |-> "running", percent |-> level]
    BY <1>1, <1>4, <2>2, WritesAreTyped
  <2>4. tracker'[t] \in TrackerRow
    BY <1>4, <2>3 DEF TrackerRow
  <2>5. QED
    BY <1>1, <1>3, <1>5, <1>7, <2>2, <2>3, <2>4 DEF Types, history, Places, Staged, Tracked
<1>13. CASE NodeToMongo(t)
  <2>1. PICK docs : docs = Updated(t, StatusOf(t), tracker[t].percent)
    OBVIOUS
  <2>2. PICK place \in {"callbackMemory", "graph"} :
          /\ at[t] = "callback" /\ GoTo(t, place) /\ Record(t, docs)
          /\ UNCHANGED <<memory, reports, tracker, queue>>
    BY <1>13, <2>1 DEF NodeToMongo
  <2>3. tracker[t] \in TrackerRow
    BY <1>8, <2>2 DEF Tracked
  <2>4. docs \in [Tasks -> MongoRow \cup {None}]
    BY <1>1, <2>1, <2>3, WritesAreTyped DEF TrackerRow
  <2>5. StageOK(t)'
    BY <1>7, <2>2, <2>3 DEF Tracked, Staged
  <2>6. QED
    BY <1>1, <1>3, <1>5, <2>2, <2>4, <2>5, RecordIsTyped DEF Types, Places, Staged
<1>14. CASE NodeToMemory(t)
  <2>1. /\ at[t] = "callbackMemory" /\ GoTo(t, "graph") /\ Remember(t, "running", tracker[t].percent)
        /\ UNCHANGED <<mongo, reports, tracker, queue, history>>
    BY <1>14 DEF NodeToMemory
  <2>2. tracker[t] \in TrackerRow
    BY <1>8, <2>1 DEF Tracked
  <2>3. memory' \in [Tasks -> MemoryRow \cup {None}]
    BY <1>1, <2>1, <2>2, WritesAreTyped DEF TrackerRow
  <2>4. QED
    BY <1>1, <1>3, <1>5, <1>7, <2>1, <2>2, <2>3 DEF Types, history, Places, Staged, Tracked
<1>15. CASE GraphEnds(t)
  <2>1. at[t] = "graph" /\ GoTo(t, "evaluating") /\ UNCHANGED <<stores, queue, history>>
    BY <1>15 DEF GraphEnds
  <2>2. /\ at'[t] = "evaluating" /\ next'[t] = 1
        /\ at' \in [Tasks -> Places] /\ next' \in [Tasks -> 1..9]
    BY <1>5, <2>1 DEF Places, Staged
  <2>3. StageOK(t)'
    BY <1>8, <2>1, <2>2, EvaluatingIs DEF StageOK, Due, Tracked, stores
  <2>4. QED
    BY <1>1, <1>3, <2>1, <2>2, <2>3 DEF Types, stores, history
<1>16. CASE AnalysisFails(t)
  <2>1. /\ at[t] \in {"graph", "finish", "preparing", "evaluating"}
        /\ GoTo(t, "fail") /\ UNCHANGED <<stores, queue, history>>
    BY <1>16 DEF AnalysisFails
  <2>2. tracker'[t] \in TrackerRow
    BY <1>8, <2>1 DEF Tracked, stores
  <2>3. QED
    BY <1>1, <1>3, <1>5, <1>7, <2>1, <2>2 DEF Types, stores, history, Places, Staged, Tracked
<1>17. CASE MarkTrackerCompleted(t)
  <2>1. /\ at[t] = "finish" /\ GoTo(t, "save") /\ Track(t, "completed", 100)
        /\ UNCHANGED <<memory, mongo, reports, queue, history>>
    BY <1>17 DEF MarkTrackerCompleted
  <2>2. tracker' \in [Tasks -> TrackerRow \cup {None}]
    BY <1>1, <1>4, <2>1, WritesAreTyped
  <2>3. QED
    BY <1>1, <1>3, <1>5, <1>6, <2>1, <2>2 DEF Types, history, Places, Staged, Tracked
<1>18. CASE SaveResults(t)
  <2>1. /\ at[t] = "save" /\ GoTo(t, "announce") /\ UNCHANGED <<memory, mongo, tracker, queue>>
        /\ reports' \cup troubled' \cup touched' \subseteq Tasks /\ mishaps' \in 0..MaxMishaps
    BY <1>1, <1>18, BoundsAreNatural DEF SaveResults, Types, Mishap, history
  <2>2. QED
    BY <1>1, <1>3, <1>5, <1>6, <2>1 DEF Types, Places, Staged, Tracked
<1>19. CASE Announce(t)
  <2>1. /\ at[t] = "announce" /\ GoTo(t, "record") /\ Remember(t, "completed", 100)
        /\ UNCHANGED <<mongo, reports, tracker, queue, history>>
    BY <1>19 DEF Announce
  <2>2. memory' \in [Tasks -> MemoryRow \cup {None}]
    BY <1>1, <1>4, <2>1, WritesAreTyped
  <2>3. QED
    BY <1>1, <1>3, <1>5, <1>6, <2>1, <2>2 DEF Types, history, Places, Staged, Tracked
<1>22. CASE RememberFailed(t)
  <2>1. /\ at[t] = "failMemory" /\ GoTo(t, "failRecord") /\ Remember(t, "failed", 0)
        /\ UNCHANGED <<mongo, reports, tracker, queue, history>>
    BY <1>22 DEF RememberFailed
  <2>2. memory' \in [Tasks -> MemoryRow \cup {None}]
    BY <1>1, <1>4, <2>1, WritesAreTyped
  <2>3. QED
    BY <1>1, <1>3, <1>5, <1>6, <2>1, <2>2 DEF Types, history, Places, Staged, Tracked
<1>20. CASE RecordCompleted(t) \/ RecordFailed(t)
  <2>1. PICK s \in {"completed", "failed"}, p \in {0, 100} :
          /\ at[t] # "queued" /\ GoTo(t, "done") /\ Record(t, Updated(t, s, p))
          /\ UNCHANGED <<memory, reports, tracker, queue>>
    BY <1>20 DEF RecordCompleted, RecordFailed
  <2>2. Updated(t, s, p) \in [Tasks -> MongoRow \cup {None}]
    <3>1. Types /\ p \in Percentages /\ s \in {"pending", "processing", "completed", "failed"}
      BY <1>1, <1>4
    <3>2. QED
      BY <3>1, WritesAreTyped
  <2>3. /\ mongo' \in [Tasks -> MongoRow \cup {None}]
        /\ troubled' \cup touched' \subseteq Tasks /\ mishaps' \in 0..MaxMishaps
    BY <1>1, <2>1, <2>2, RecordIsTyped
  <2>4. QED
    BY <1>1, <1>3, <1>5, <1>6, <2>1, <2>3 DEF Types, Places, Staged, Tracked
<1>21. CASE MarkTrackerFailed(t)
  <2>1. /\ at[t] = "fail" /\ GoTo(t, "failMemory") /\ Track(t, "failed", tracker[t].percent)
        /\ UNCHANGED <<memory, mongo, reports, queue, history>>
    BY <1>21 DEF MarkTrackerFailed
  <2>2. tracker' \in [Tasks -> TrackerRow \cup {None}]
    BY <1>1, <1>8, <2>1, WritesAreTyped DEF Tracked, TrackerRow
  <2>3. QED
    BY <1>1, <1>3, <1>5, <1>6, <2>1, <2>2 DEF Types, history, Places, Staged, Tracked
<1>23. QED
  BY <1>9, <1>10, <1>11, <1>12, <1>13, <1>14, <1>15, <1>16, <1>17, <1>18, <1>19, <1>20, <1>21, <1>22,
     WriteTyped, TakeTyped DEF Run

LEMMA MarkedRows ==
  /\ \A r \in MemoryRow : KeepsProgress(r) \in MemoryRow
  /\ \A r \in MongoRow : KeepsProgress(r) \in MongoRow
  BY DEF KeepsProgress, MemoryRow, MongoRow, States

\* What administrators and restarts do, with the places of the tasks.
LEMMA AdministerTyped ==
  ASSUME TypeInv, Administer
  PROVE  TypeInv'
<1>1. UNCHANGED <<at, next, tracker, queue, reports>>
  BY DEF Administer, MarkFailed, DeleteTask, CleanupZombies, MarkRecord, DeleteRecord,
         CleanupRecords, stores
<1>2. Types
  BY DEF TypeInv
<1>3. ASSUME memory' \in [Tasks -> MemoryRow \cup {None}], mongo' \in [Tasks -> MongoRow \cup {None}],
             troubled' \cup touched' \subseteq Tasks, mishaps' \in 0..MaxMishaps
      PROVE  TypeInv'
  <2>1. Types' /\ QueueOK'
    BY <1>1, <1>2, <1>3 DEF Types, TypeInv, QueueOK
  <2>2. \A t \in Tasks : StageOK(t)'
    BY <1>1 DEF TypeInv, StageOK, Due
  <2>3. QED
    BY <2>1, <2>2 DEF TypeInv
<1>4. ASSUME Mishap PROVE mishaps' \in 0..MaxMishaps
  BY <1>2, <1>4, BoundsAreNatural DEF Mishap, Types
<1>5. CASE \E t \in Tasks : MarkFailed(t)
  <2>1. PICK t \in Tasks : MarkFailed(t)
    BY <1>5
  <2>2. memory' \in [Tasks -> MemoryRow \cup {None}]
    BY <1>2, <2>1, MarkedRows DEF MarkFailed, Types
  <2>3. QED
    BY <1>2, <1>3, <1>4, <2>1, <2>2 DEF MarkFailed, Begin, Types
<1>6. CASE \E t \in Tasks : DeleteTask(t)
  BY <1>2, <1>3, <1>4, <1>6 DEF DeleteTask, Begin, Types
<1>7. CASE \E old \in SUBSET Tasks \ {{}} : CleanupZombies(old)
  <2>1. PICK old \in SUBSET Tasks : CleanupZombies(old)
    BY <1>7
  <2>2. [status |-> "failed", progress |-> 0] \in MemoryRow
    BY DEF MemoryRow, States, Percentages
  <2>3. memory' \in [Tasks -> MemoryRow \cup {None}]
    BY <1>2, <2>1, <2>2 DEF CleanupZombies, Types
  <2>4. QED
    BY <1>2, <1>3, <1>4, <2>1, <2>3 DEF CleanupZombies, Zombies, Begin, Types
<1>8. CASE MarkRecord
  <2>1. mongo' \in [Tasks -> MongoRow \cup {None}]
    BY <1>2, <1>8, MarkedRows DEF MarkRecord, Types
  <2>2. QED
    BY <1>2, <1>3, <1>8, <2>1 DEF MarkRecord, Types, history
<1>9. CASE DeleteRecord
  <2>1. mongo' \in [Tasks -> MongoRow \cup {None}]
    BY <1>2, <1>9 DEF DeleteRecord, Types
  <2>2. QED
    BY <1>2, <1>3, <1>9, <2>1 DEF DeleteRecord, Types, history
<1>10. CASE CleanupRecords
  BY <1>2, <1>3, <1>10 DEF CleanupRecords, Types, history, stores
<1>11. QED
  BY <1>5, <1>6, <1>7, <1>8, <1>9, <1>10 DEF Administer

LEMMA RestartTyped ==
  ASSUME TypeInv, Restart
  PROVE  TypeInv'
<1>1. Types /\ \A t \in Tasks : StageOK(t)
  BY DEF TypeInv
<1>2. /\ at' \in [Tasks -> Places] /\ next' \in [Tasks -> 1..9]
      /\ \A t \in Tasks : at'[t] \in {"absent", "done", "lost"}
  BY <1>1 DEF Restart, Types, Places
<1>3. Types'
  BY <1>1, <1>2, BoundsAreNatural DEF Restart, Types, Mishap
<1>4. QueueOK'
  BY DEF Restart, QueueOK
<1>5. \A t \in Tasks : StageOK(t)'
  BY <1>2 DEF StageOK, Staged, Tracked
<1>6. QED
  BY <1>3, <1>4, <1>5 DEF TypeInv

LEMMA NextTyped == TypeInv /\ [Next]_vars => TypeInv'
<1> SUFFICES ASSUME TypeInv, [Next]_vars PROVE TypeInv'
  OBVIOUS
<1>1. CASE UNCHANGED vars
  <2>1. Types' /\ QueueOK'
    BY <1>1 DEF vars, stores, history, TypeInv, Types, QueueOK
  <2>2. \A t \in Tasks : StageOK(t)'
    BY <1>1 DEF vars, stores, TypeInv, StageOK, Due
  <2>3. QED
    BY <2>1, <2>2 DEF TypeInv
<1>2. QED
  BY <1>1, RunTyped, AdministerTyped, RestartTyped DEF Next

\* The three stores have the rows the code writes, and exactly the tasks that wait for a
\* thread are in the queue of the pool, each once.
THEOREM TypeCorrect == Spec => []TypeOK
<1>1. TypeInv => TypeOK
  <2>1. SUFFICES ASSUME TypeInv PROVE TypeOK
    OBVIOUS
  <2>2. \A i \in DOMAIN queue : at[queue[i]] = "queued"
    BY <2>1 DEF TypeInv, QueueOK
  <2>3. QED
    BY <2>1, <2>2 DEF TypeInv, Types, TypeOK, Places, Staged, MemoryRow, MongoRow, TrackerRow
<1>2. QED
  BY <1>1, InitTyped, NextTyped, PTL DEF Spec

------------------------------------------------------------------------------
(* A completed analysis has its report, and only its own coroutine can complete it *)

Saved(t) == t \in reports \cup troubled

Completed(entry) == entry # None /\ entry.status = "completed"

SavedOnce(t) ==
  /\ at[t] \in {"announce", "record"} => Saved(t)
  /\ Completed(memory[t]) => Saved(t) /\ at[t] \in {"record", "done"}
  /\ Completed(mongo[t]) => Saved(t)

CompletedIsSaved == \A t \in Tasks : SavedOnce(t)

LEMMA OthersSaved ==
  ASSUME NEW t \in Tasks, CompletedIsSaved, \A u \in Tasks \ {t} : Same(u), SavedOnce(t)'
  PROVE  CompletedIsSaved'
<1>1. ASSUME NEW u \in Tasks \ {t} PROVE SavedOnce(u)'
  BY <1>1 DEF CompletedIsSaved, SavedOnce, Same, Saved, Completed
<1>2. QED
  BY <1>1 DEF CompletedIsSaved

\* A MongoDB call, made or failed.
LEMMA RecordIs ==
  ASSUME NEW t \in Tasks, NEW docs, Record(t, docs)
  PROVE  /\ troubled \subseteq troubled' /\ touched' = touched
         /\ mongo' = docs \/ (mongo' = mongo /\ t \in troubled')
  BY DEF Record, history

LEMMA WriteSaved ==
  ASSUME TypeInv, NEW t \in Tasks, SavedOnce(t), Write(t)
  PROVE  SavedOnce(t)'
<1>1. PICK w : w = Due(t)
  OBVIOUS
<1>2. Types /\ at[t] \in Staged /\ next[t] \in 1..Len(Stage(at[t])) /\ UNCHANGED reports
  BY <1>1, WriteIs DEF TypeInv, StageOK
<1>3. /\ w[1] \in {"tracker", "memory", "mongo"}
      /\ w[1] # "mongo" => w[3] = "running"
      /\ w[1] = "mongo" => w[3] \in {"processing", None}
  BY <1>1, <1>2, StageRows DEF Due
<1>4. at'[t] \in Staged \cup {"queued", "graph", "finish"}
  BY <1>1, <1>2, WriteIs, AfterIs DEF GoTo, Staged, Types
<1>5. ~Completed(memory[t])
  BY <1>2 DEF SavedOnce, Staged
<1>6. CASE w[1] = "tracker"
  <2>1. UNCHANGED <<memory, mongo, troubled>>
    BY <1>1, <1>6, WriteIs DEF history
  <2>2. QED
    BY <1>2, <1>4, <1>5, <2>1 DEF SavedOnce, Staged, Saved, Completed
<1>7. CASE w[1] = "memory"
  <2>1. Remember(t, "running", w[2]) /\ UNCHANGED <<mongo, troubled>>
    BY <1>1, <1>3, <1>7, WriteIs DEF history
  <2>2. ~Completed(memory'[t])
    BY <1>2, <2>1 DEF Remember, Types, Completed
  <2>3. QED
    BY <1>2, <1>4, <2>1, <2>2 DEF SavedOnce, Staged, Saved
<1>8. CASE w[1] = "mongo"
  <2>1. PICK s : s = IF w[3] = None THEN StatusOf(t) ELSE w[3]
    OBVIOUS
  <2>2. Record(t, Updated(t, s, w[2])) /\ UNCHANGED memory
    BY <1>1, <1>8, <2>1, WriteIs
  <2>3. /\ troubled \subseteq troubled'
        /\ mongo' = Updated(t, s, w[2]) \/ mongo' = mongo
    BY <2>2, RecordIs
  <2>4. mongo[t] # None /\ s = "completed" => Completed(mongo[t])
    BY <1>3, <1>8, <2>1 DEF StatusOf, Completed
  <2>5. Completed(mongo'[t]) => Completed(mongo[t])
    <3>1. CASE mongo' = Updated(t, s, w[2])
      <4>1. CASE mongo[t] = None
        BY <1>2, <3>1, <4>1 DEF Updated, Types, Completed
      <4>2. CASE mongo[t] # None
        <5>1. mongo'[t].status = s
          BY <1>2, <3>1, <4>2 DEF Updated, Types
        <5>2. QED
          BY <2>4, <4>2, <5>1 DEF Completed
      <4>3. QED
        BY <4>1, <4>2
    <3>2. CASE mongo' = mongo
      BY <3>2
    <3>3. QED
      BY <2>3, <3>1, <3>2
  <2>6. QED
    BY <1>2, <1>4, <1>5, <2>2, <2>3, <2>5 DEF SavedOnce, Staged, Saved, Completed
<1>9. QED
  BY <1>3, <1>6, <1>7, <1>8

LEMMA RunSaved ==
  ASSUME TypeInv, NEW t \in Tasks, SavedOnce(t), CreateTask(t) \/ Run(t)
  PROVE  SavedOnce(t)'
<1>1. Types
  BY DEF TypeInv
<1>2. ASSUME NEW place, GoTo(t, place) PROVE at'[t] = place
  BY <1>1, <1>2 DEF GoTo, Types
<1>3. CASE CreateTask(t)
  <2>1. memory'[t] = [status |-> "pending", progress |-> 0] /\ at'[t] = "insert"
    BY <1>1, <1>2, <1>3 DEF CreateTask, Types
  <2>2. QED
    BY <1>3, <2>1 DEF CreateTask, SavedOnce, Saved, Completed, history
<1>4. CASE InsertTask(t)
  <2>1. PICK docs : docs = [mongo EXCEPT ![t] = [status |-> "pending", progress |-> 0]]
    OBVIOUS
  <2>2. docs[t].status = "pending"
    BY <1>1, <2>1 DEF Types
  <2>3. /\ at[t] = "insert" /\ at'[t] = "ready" /\ UNCHANGED <<memory, reports>>
        /\ Record(t, docs)
    BY <1>2, <1>4, <2>1 DEF InsertTask
  <2>4. QED
    BY <2>2, <2>3, RecordIs DEF SavedOnce, Saved, Completed
<1>5. CASE Validate(t) \/ TakeThread(t) \/ GraphEnds(t) \/ AnalysisFails(t)
  <2>1. /\ at[t] \notin {"announce", "record", "done"} /\ at'[t] \notin {"announce", "record", "done"}
        /\ UNCHANGED <<memory, mongo, reports, troubled>>
    <3>1. CASE TakeThread(t)
      <4>1. queue[1] = t /\ 1 \in 1..Len(queue)
        BY <3>1, EmptySeq, HeadTailProperties DEF TakeThread, TypeInv, QueueOK
      <4>2. at[t] = "queued"
        BY <4>1 DEF TypeInv, QueueOK
      <4>3. QED
        BY <1>2, <3>1, <4>2 DEF TakeThread, stores, history
    <3>2. CASE Validate(t) \/ GraphEnds(t) \/ AnalysisFails(t)
      BY <1>2, <3>2 DEF Validate, GraphEnds, AnalysisFails, stores, history
    <3>3. QED
      BY <1>5, <3>1, <3>2
  <2>2. QED
    BY <2>1 DEF SavedOnce, Saved, Completed
<1>6. CASE \/ (\E level \in Levels : NodeDone(t, level))
           \/ MarkTrackerCompleted(t) \/ MarkTrackerFailed(t)
  BY <1>2, <1>6 DEF NodeDone, MarkTrackerCompleted, MarkTrackerFailed, SavedOnce, Saved, Completed,
                    history
<1>7. CASE NodeToMongo(t)
  <2>1. PICK s, p : s = StatusOf(t) /\ p = tracker[t].percent
    OBVIOUS
  <2>2. /\ at[t] = "callback" /\ at'[t] \in {"callbackMemory", "graph"}
        /\ UNCHANGED <<memory, reports>> /\ Record(t, Updated(t, s, p))
    BY <1>2, <1>7, <2>1 DEF NodeToMongo
  <2>3. Completed(mongo'[t]) => Completed(mongo[t])
    <3>1. CASE mongo' = Updated(t, s, p)
      <4>1. mongo[t] # None => mongo'[t].status = s /\ s = mongo[t].status
        BY <1>1, <2>1, <3>1 DEF Updated, Types, StatusOf
      <4>2. mongo[t] = None => mongo'[t] = None
        BY <1>1, <3>1 DEF Updated, Types
      <4>3. QED
        BY <4>1, <4>2 DEF Completed
    <3>2. QED
      BY <2>2, <3>1, RecordIs
  <2>4. QED
    BY <2>2, <2>3, RecordIs DEF SavedOnce, Saved, Completed
<1>8. CASE NodeToMemory(t) \/ RememberFailed(t)
  <2>1. PICK s, p :
          /\ s \in {"running", "failed"}
          /\ Remember(t, s, p) /\ at[t] \notin {"record", "done", "announce"}
          /\ at'[t] \notin {"record", "done", "announce"}
          /\ UNCHANGED <<mongo, reports, troubled>>
    BY <1>2, <1>8 DEF NodeToMemory, RememberFailed, history
  <2>2. ~Completed(memory'[t])
    BY <1>1, <2>1 DEF Updated, Remember, Types, Completed
  <2>3. QED
    BY <2>1, <2>2 DEF SavedOnce, Saved
<1>9. CASE SaveResults(t)
  <2>1. /\ at[t] = "save" /\ at'[t] = "announce" /\ UNCHANGED <<memory, mongo>>
        /\ t \in reports' \cup troubled' /\ reports \subseteq reports' /\ troubled \subseteq troubled'
    BY <1>2, <1>9 DEF SaveResults, history
  <2>2. QED
    BY <2>1 DEF SavedOnce, Saved, Completed
<1>10. CASE Announce(t)
  BY <1>2, <1>10 DEF Announce, SavedOnce, Saved, history
<1>11. CASE RecordCompleted(t)
  <2>1. /\ at[t] = "record" /\ at'[t] = "done" /\ UNCHANGED <<memory, reports>>
        /\ troubled \subseteq troubled'
    BY <1>2, <1>11, RecordIs DEF RecordCompleted
  <2>2. QED
    BY <2>1 DEF SavedOnce, Saved, Completed
<1>12. CASE RecordFailed(t)
  <2>1. PICK docs : docs = Updated(t, "failed", 0)
    OBVIOUS
  <2>2. /\ at[t] = "failRecord" /\ at'[t] = "done" /\ UNCHANGED <<memory, reports>>
        /\ Record(t, docs)
    BY <1>2, <1>12, <2>1 DEF RecordFailed
  <2>3. ~Completed(docs[t])
    BY <1>1, <2>1 DEF Updated, Remember, Types, Completed
  <2>4. QED
    BY <2>2, <2>3, RecordIs DEF SavedOnce, Saved, Completed
<1>13. CASE Write(t)
  BY <1>13, WriteSaved
<1>14. QED
  BY <1>3, <1>4, <1>5, <1>6, <1>7, <1>8, <1>9, <1>10, <1>11, <1>12, <1>13 DEF Run

LEMMA MarkedIsFailed ==
  /\ \A r \in MemoryRow : KeepsProgress(r).status = "failed"
  /\ \A r \in MongoRow : KeepsProgress(r).status = "failed"
  BY DEF KeepsProgress, MemoryRow, MongoRow

\* What an administrator's two writes leave of an entry and of a document.
LEMMA AdministerIs ==
  ASSUME Types, Administer, NEW t \in Tasks
  PROVE  /\ UNCHANGED <<at, next, tracker, reports, troubled>>
         /\ touched \subseteq touched'
         /\ memory'[t] = memory[t] \/ memory'[t] = None \/ memory'[t].status = "failed"
         /\ mongo'[t] = mongo[t] \/ mongo'[t] = None \/ mongo'[t].status = "failed"
<1> USE MarkedIsFailed DEF Types
<1>1. CASE \E u \in Tasks : MarkFailed(u)
  <2>1. PICK u \in Tasks : MarkFailed(u)
    BY <1>1
  <2>2. memory'[t] = memory[t] \/ memory'[t] = None \/ memory'[t].status = "failed"
    BY <2>1 DEF MarkFailed
  <2>3. QED
    BY <2>1, <2>2 DEF MarkFailed
<1>2. CASE \E u \in Tasks : DeleteTask(u)
  BY <1>2 DEF DeleteTask
<1>3. CASE \E old \in SUBSET Tasks \ {{}} : CleanupZombies(old)
  <2>1. PICK old \in SUBSET Tasks : CleanupZombies(old)
    BY <1>3
  <2>2. memory'[t] = memory[t] \/ memory'[t].status = "failed"
    BY <2>1 DEF CleanupZombies
  <2>3. QED
    BY <2>1, <2>2 DEF CleanupZombies
<1>4. CASE MarkRecord
  <2>1. mongo'[t] = mongo[t] \/ mongo'[t].status = "failed"
    BY <1>4 DEF MarkRecord
  <2>2. QED
    BY <1>4, <2>1 DEF MarkRecord, history
<1>5. CASE DeleteRecord
  BY <1>5 DEF DeleteRecord, history
<1>6. CASE CleanupRecords
  BY <1>6 DEF CleanupRecords, history, stores
<1>7. QED
  BY <1>1, <1>2, <1>3, <1>4, <1>5, <1>6 DEF Administer

LEMMA NextSaved ==
  ASSUME TypeInv, CompletedIsSaved, [Next]_vars
  PROVE  CompletedIsSaved'
<1>1. Types
  BY DEF TypeInv
<1>2. ASSUME NEW t \in Tasks, CreateTask(t) \/ Run(t) PROVE CompletedIsSaved'
  <2>1. SavedOnce(t)'
    BY <1>2, RunSaved DEF CompletedIsSaved
  <2>2. \A u \in Tasks \ {t} : Same(u)
    BY <1>1, <1>2, RunIsLocal DEF TypeInv, StageOK
  <2>3. QED
    BY <2>1, <2>2, OthersSaved
<1>3. CASE Administer
  <2>1. ASSUME NEW t \in Tasks PROVE SavedOnce(t)'
    BY <1>1, <1>3, AdministerIs DEF CompletedIsSaved, SavedOnce, Saved, Completed
  <2>2. QED
    BY <2>1 DEF CompletedIsSaved
<1>4. CASE Restart
  <2>1. ASSUME NEW t \in Tasks PROVE SavedOnce(t)'
    BY <1>4 DEF Restart, CompletedIsSaved, SavedOnce, Saved, Completed
  <2>2. QED
    BY <2>1 DEF CompletedIsSaved
<1>5. CASE UNCHANGED vars
  BY <1>5 DEF vars, stores, history, CompletedIsSaved, SavedOnce, Saved, Completed
<1>6. QED
  BY <1>2, <1>3, <1>4, <1>5 DEF Next

LEMMA InitSaved == Init => CompletedIsSaved
  BY DEF Init, CompletedIsSaved, SavedOnce, Completed

LEMMA ShownIs ==
  ASSUME NEW t \in Tasks
  PROVE  /\ memory[t] # None => Shown(t) = memory[t].status
         /\ memory[t] = None /\ mongo[t] # None => Shown(t) = mongo[t].status
         /\ memory[t] = None /\ mongo[t] = None =>
              Shown(t) = IF t \in reports THEN "completed" ELSE "unknown"
<1>1. memory[t] # None => Shown(t) = memory[t].status
  BY Zenon DEF Shown
<1>2. memory[t] = None /\ mongo[t] # None => Shown(t) = mongo[t].status
  BY Zenon DEF Shown
<1>3. memory[t] = None /\ mongo[t] = None =>
        Shown(t) = IF t \in reports THEN "completed" ELSE "unknown"
  BY Zenon DEF Shown
<1>4. QED
  BY <1>1, <1>2, <1>3

\* An analysis the status endpoint shows as completed, from memory, from MongoDB or from
\* its report, before or after any restart, has its report, unless saving it failed
\* (simple_analysis_service.py:938-967: the results are saved before the announcement).
THEOREM AnnouncedWasSaved == Spec => []AnnouncedIsSaved
<1> DEFINE Inv == TypeInv /\ CompletedIsSaved
<1>1. Init => Inv
  BY InitTyped, InitSaved
<1>2. Inv /\ [Next]_vars => Inv'
  BY NextTyped, NextSaved
<1>3. Inv => AnnouncedIsSaved
  <2> SUFFICES ASSUME CompletedIsSaved, NEW t \in Tasks, Shown(t) = "completed"
               PROVE  t \in reports \cup troubled
    BY DEF AnnouncedIsSaved
  <2>1. CASE memory[t] # None
    BY <2>1, ShownIs DEF CompletedIsSaved, SavedOnce, Completed, Saved
  <2>2. CASE memory[t] = None /\ mongo[t] # None
    BY <2>2, ShownIs DEF CompletedIsSaved, SavedOnce, Completed, Saved
  <2>3. CASE memory[t] = None /\ mongo[t] = None
    BY <2>3, ShownIs
  <2>4. QED
    BY <2>1, <2>2, <2>3
<1>4. QED
  BY <1>1, <1>2, <1>3, PTL DEF Spec

------------------------------------------------------------------------------
(* Nothing is revived *)

LEMMA RunRevivesNone ==
  ASSUME TypeInv, CompletedIsSaved, NEW t \in Tasks, CreateTask(t) \/ Run(t)
  PROVE  CompletedIsFinal(t) /\ DeletedStaysDeleted(t)
<1>1. Types
  BY DEF TypeInv
<1>2. CASE CreateTask(t)
  BY <1>2 DEF CreateTask, CompletedIsFinal, DeletedStaysDeleted, Known, CompletedIsSaved,
              SavedOnce, Completed
<1>3. CASE InsertTask(t)
  BY <1>3 DEF InsertTask, CompletedIsFinal, DeletedStaysDeleted, Known
<1>4. CASE Validate(t) \/ TakeThread(t) \/ GraphEnds(t) \/ AnalysisFails(t) \/ SaveResults(t)
  BY <1>4 DEF Validate, TakeThread, GraphEnds, AnalysisFails, SaveResults, stores,
              CompletedIsFinal, DeletedStaysDeleted
<1>5. CASE \/ (\E level \in Levels : NodeDone(t, level))
           \/ MarkTrackerCompleted(t) \/ MarkTrackerFailed(t)
  BY <1>5 DEF NodeDone, MarkTrackerCompleted, MarkTrackerFailed, CompletedIsFinal,
              DeletedStaysDeleted
<1>6. CASE NodeToMongo(t) \/ RecordCompleted(t) \/ RecordFailed(t)
  <2>1. PICK s, p : Record(t, Updated(t, s, p)) /\ UNCHANGED memory
    BY <1>6 DEF NodeToMongo, RecordCompleted, RecordFailed
  <2>2. mongo[t] = None => mongo'[t] = None
    BY <2>1 DEF Record, Updated
  <2>3. QED
    BY <2>1, <2>2 DEF CompletedIsFinal, DeletedStaysDeleted
<1>7. CASE NodeToMemory(t) \/ Announce(t) \/ RememberFailed(t)
  <2>1. PICK s, p : Remember(t, s, p) /\ UNCHANGED mongo
    BY <1>7 DEF NodeToMemory, Announce, RememberFailed
  <2>2. memory[t] = None => memory'[t] = None
    BY <2>1 DEF Remember
  <2>3. at[t] \notin {"record", "done"}
    BY <1>7 DEF NodeToMemory, Announce, RememberFailed
  <2>4. QED
    BY <2>1, <2>2, <2>3
       DEF CompletedIsFinal, DeletedStaysDeleted, CompletedIsSaved, SavedOnce, Completed
<1>8. CASE Write(t)
  <2>1. PICK w : w = Due(t)
    OBVIOUS
  <2>2. at[t] \in Staged /\ w[1] \in {"tracker", "memory", "mongo"}
    BY <1>8, <2>1, WriteIs, StageRows DEF TypeInv, StageOK, Due
  <2>3. ~Completed(memory[t])
    BY <2>2 DEF CompletedIsSaved, SavedOnce, Staged
  <2>4. memory[t] = None => memory'[t] = None
    <3>1. CASE w[1] = "memory"
      <4>1. Remember(t, w[3], w[2])
        BY <1>8, <2>1, <3>1, WriteIs
      <4>2. QED
        BY <4>1 DEF Remember
    <3>2. CASE w[1] # "memory"
      BY <1>8, <2>1, <2>2, <3>2, WriteIs
    <3>3. QED
      BY <3>1, <3>2
  <2>5. mongo[t] = None => mongo'[t] = None
    <3>1. CASE w[1] = "mongo"
      <4>1. PICK s, p : Record(t, Updated(t, s, p))
        BY <1>8, <2>1, <3>1, WriteIs
      <4>2. QED
        BY <4>1 DEF Record, Updated
    <3>2. CASE w[1] # "mongo"
      BY <1>8, <2>1, <2>2, <3>2, WriteIs
    <3>3. QED
      BY <3>1, <3>2
  <2>6. QED
    BY <2>3, <2>4, <2>5 DEF CompletedIsFinal, DeletedStaysDeleted, Completed
<1>9. QED
  BY <1>2, <1>3, <1>4, <1>5, <1>6, <1>7, <1>8 DEF Run

LEMMA NextRevivesNone ==
  ASSUME TypeInv, CompletedIsSaved, Next, NEW t \in Tasks
  PROVE  CompletedIsFinal(t) /\ DeletedStaysDeleted(t)
<1>1. Types
  BY DEF TypeInv
<1>2. ASSUME NEW u \in Tasks, CreateTask(u) \/ Run(u)
      PROVE  CompletedIsFinal(t) /\ DeletedStaysDeleted(t)
  <2>1. CASE u = t
    BY <1>2, <2>1, RunRevivesNone
  <2>2. CASE u # t
    <3>1. memory'[t] = memory[t] /\ mongo'[t] = mongo[t]
      BY <1>1, <1>2, <2>2, RunIsLocal DEF TypeInv, StageOK, Same
    <3>2. QED
      BY <3>1 DEF CompletedIsFinal, DeletedStaysDeleted
  <2>3. QED
    BY <2>1, <2>2
<1>3. CASE Administer
  <2>1. CASE \E u \in Tasks : MarkFailed(u)
    <3>1. PICK u \in Tasks : MarkFailed(u)
      BY <2>1
    <3>2. /\ u # t => memory'[t] = memory[t]
          /\ memory[t] = None => memory'[t] = None
          /\ admin' = [op |-> "mark", tasks |-> {u}] /\ UNCHANGED mongo
      BY <1>1, <3>1 DEF MarkFailed, Begin, Types
    <3>3. QED
      BY <3>2 DEF CompletedIsFinal, DeletedStaysDeleted
  <2>2. CASE \E u \in Tasks : DeleteTask(u)
    BY <1>1, <2>2 DEF DeleteTask, CompletedIsFinal, DeletedStaysDeleted, Types
  <2>3. CASE \E old \in SUBSET Tasks \ {{}} : CleanupZombies(old)
    BY <1>1, <2>3 DEF CleanupZombies, Zombies, CompletedIsFinal, DeletedStaysDeleted, Types
  <2>4. CASE MarkRecord \/ DeleteRecord \/ CleanupRecords
    BY <1>1, <2>4
       DEF MarkRecord, DeleteRecord, CleanupRecords, stores, CompletedIsFinal, DeletedStaysDeleted
  <2>5. QED
    BY <1>3, <2>1, <2>2, <2>3, <2>4 DEF Administer
<1>4. CASE Restart
  BY <1>4 DEF Restart, CompletedIsFinal, DeletedStaysDeleted
<1>5. QED
  BY <1>2, <1>3, <1>4 DEF Next

\* A completed analysis stays so, and a task that was deleted or lost does not come back,
\* whatever the threads that still work on it, the cleanup and the requests about other
\* tasks write (memory_state_manager.py:194-203, simple_analysis_service.py:2337-2340).
THEOREM NothingRevived == Spec => NothingIsRevived
<1> DEFINE Inv == TypeInv /\ CompletedIsSaved
           Step == \A t \in Tasks : CompletedIsFinal(t) /\ DeletedStaysDeleted(t)
<1>1. Init => Inv
  BY InitTyped, InitSaved
<1>2. Inv /\ [Next]_vars => Inv'
  BY NextTyped, NextSaved
<1>3. Inv /\ [Next]_vars => [Step]_vars
  BY NextRevivesNone
<1>4. QED
  BY <1>1, <1>2, <1>3, PTL DEF Spec, NothingIsRevived

------------------------------------------------------------------------------
(* The stores agree *)

\* What the places of the coroutine say of the three stores, when only the task wrote them.
PlaceAgrees(t) ==
  /\ at[t] \in Staged /\ Due(t)[1] = "mongo" => memory[t].progress = Due(t)[2]
  /\ at[t] \in {"queued", "graph"} => memory[t].progress = tracker[t].percent
  /\ at[t] \in {"queued", "graph", "callbackMemory"} => mongo[t].progress = tracker[t].percent
  /\ at[t] = "record" => memory[t] = [status |-> "completed", progress |-> 100]
  /\ at[t] = "failRecord" => memory[t] = [status |-> "failed", progress |-> 0]
  /\ at[t] = "done" => /\ memory[t] = mongo[t]
                       /\ memory[t].status \in {"completed", "failed"}

Agrees(t) == OwnWork(t) => PlaceAgrees(t)

CopiesAgree == (\A t \in Tasks : Agrees(t)) /\ (admin.op = "mark" => admin.tasks \subseteq touched)

LEMMA OthersAgree ==
  ASSUME NEW t \in Tasks, CopiesAgree, \A u \in Tasks \ {t} : Same(u),
         UNCHANGED <<admin, touched>>, Agrees(t)'
  PROVE  CopiesAgree'
<1>1. ASSUME NEW u \in Tasks \ {t} PROVE Agrees(u)'
  <2>1. Same(u)
    OBVIOUS
  <2>2. Due(u)' = Due(u)
    BY <2>1 DEF Same, Due
  <2>3. OwnWork(u)' <=> OwnWork(u)
    BY <2>1 DEF Same, OwnWork
  <2>4. QED
    BY <2>1, <2>2, <2>3 DEF CopiesAgree, Agrees, PlaceAgrees, Same
<1>2. QED
  BY <1>1 DEF CopiesAgree

\* A MongoDB call of a task whose calls have not failed.
LEMMA RecordOwn ==
  ASSUME NEW t \in Tasks, NEW docs, Record(t, docs), t \notin troubled'
  PROVE  mongo' = docs /\ UNCHANGED history
  BY DEF Record

LEMMA WriteAgrees ==
  ASSUME TypeInv, NEW t \in Tasks, Agrees(t), Write(t)
  PROVE  Agrees(t)'
<1> SUFFICES ASSUME OwnWork(t)' PROVE PlaceAgrees(t)'
  BY DEF Agrees
<1>1. PICK w : w = Due(t)
  OBVIOUS
<1>2. PICK place \in Staged : place = at[t]
  BY <1>1, WriteIs
<1>3. PICK k \in 1..Len(Stage(place)) : k = next[t]
  BY <1>2 DEF TypeInv, StageOK
<1>4. w = Stage(place)[k] /\ Types
  BY <1>1, <1>2, <1>3 DEF Due, TypeInv
<1>5. /\ w[1] \in {"tracker", "memory", "mongo"}
      /\ w[1] # "mongo" => k < Len(Stage(place)) /\ Stage(place)[k + 1][2] = w[2]
      /\ w[1] = "tracker" => Stage(place)[k + 1][1] = "memory"
      /\ w[1] = "mongo" /\ k < Len(Stage(place)) => Stage(place)[k + 1][1] = "tracker"
  BY <1>4, StageRows
<1>6. w[1] # "tracker" => tracker[t].percent = w[2]
  BY <1>1, <1>2 DEF TypeInv, StageOK
<1>7. CASE k < Len(Stage(place))
  <2>1. at'[t] = place /\ next'[t] = k + 1
    BY <1>1, <1>2, <1>3, <1>4, <1>7, WriteIs DEF Types
  <2>2. Due(t)' = Stage(place)[k + 1]
    BY <2>1 DEF Due
  <2>3. CASE w[1] # "memory"
    BY <1>2, <1>5, <1>7, <2>1, <2>2, <2>3 DEF PlaceAgrees, Staged
  <2>4. CASE w[1] = "memory"
    <3>1. PICK p : p = w[2]
      OBVIOUS
    <3>2. PICK s : Remember(t, s, p)
      BY <1>1, <2>4, <3>1, WriteIs
    <3>3. memory'[t].progress = p
      BY <1>4, <3>2 DEF Remember, Types, OwnWork
    <3>4. QED
      BY <1>2, <1>5, <2>1, <2>2, <2>4, <3>1, <3>3 DEF PlaceAgrees, Staged
  <2>5. QED
    BY <2>3, <2>4
<1>8. CASE ~(k < Len(Stage(place)))
  <2>1. w[1] = "mongo"
    BY <1>5, <1>8
  <2>2. at'[t] \in {"queued", "graph", "finish"}
    BY <1>1, <1>2, <1>3, <1>4, <1>8, WriteIs, AfterIs DEF GoTo, Types, Staged
  <2>3. PICK s, p : p = w[2] /\ Record(t, Updated(t, s, p)) /\ UNCHANGED <<tracker, memory>>
    BY <1>1, <2>1, WriteIs
  <2>4. mongo' = Updated(t, s, p) /\ UNCHANGED history
    BY <2>3, RecordOwn DEF OwnWork
  <2>5. mongo[t] # None /\ mongo'[t].progress = p
    BY <1>4, <2>4 DEF Updated, Types, OwnWork
  <2>6. OwnWork(t)
    BY <2>3, <2>4, <2>5 DEF OwnWork, history
  <2>7. memory[t].progress = w[2]
    BY <1>1, <1>2, <2>1, <2>6 DEF Agrees, PlaceAgrees
  <2>8. QED
    BY <1>6, <2>1, <2>2, <2>3, <2>5, <2>7 DEF PlaceAgrees, Staged
<1>9. QED
  BY <1>7, <1>8

LEMMA RunAgrees ==
  ASSUME TypeInv, NEW t \in Tasks, Agrees(t), CreateTask(t) \/ Run(t)
  PROVE  Agrees(t)'
<1> SUFFICES ASSUME OwnWork(t)' PROVE PlaceAgrees(t)'
  BY DEF Agrees
<1>1. Types /\ (at[t] \in Tracked => tracker[t] \in TrackerRow)
  BY DEF TypeInv, StageOK
<1>2. ASSUME NEW place, GoTo(t, place) PROVE at'[t] = place /\ next'[t] = 1
  BY <1>1, <1>2 DEF GoTo, Types
\* The places of which nothing is said.
<1>3. ASSUME NEW place \in Places \ (Staged \cup {"queued", "graph", "callbackMemory", "record",
                                                 "failRecord", "done"}),
             GoTo(t, place)
      PROVE  PlaceAgrees(t)'
  BY <1>2, <1>3 DEF PlaceAgrees
<1>4. ASSUME NEW place \in Staged, GoTo(t, place)
      PROVE  PlaceAgrees(t)'
  <2>1. Stage(place)[1][1] = "tracker"
    BY StartingIs, PreparingIs, EvaluatingIs DEF Staged
  <2>2. at'[t] = place /\ Due(t)' = Stage(place)[1]
    BY <1>2, <1>4 DEF Due
  <2>3. QED
    BY <2>1, <2>2 DEF PlaceAgrees, Staged
<1>5. CASE CreateTask(t)
  BY <1>3, <1>5 DEF CreateTask, Places, Staged
<1>6. CASE InsertTask(t) \/ AnalysisFails(t) \/ MarkTrackerCompleted(t) \/ MarkTrackerFailed(t) \/ SaveResults(t)
  BY <1>3, <1>6 DEF InsertTask, AnalysisFails, MarkTrackerCompleted, MarkTrackerFailed, SaveResults,
                    Places, Staged
<1>7. CASE \E level \in Levels : NodeDone(t, level)
  BY <1>3, <1>7 DEF NodeDone, Places, Staged
<1>8. CASE Validate(t) \/ TakeThread(t) \/ GraphEnds(t)
  BY <1>3, <1>4, <1>8 DEF Validate, TakeThread, GraphEnds, Places, Staged
<1>9. CASE NodeToMongo(t)
  <2>1. PICK s, p : p = tracker[t].percent /\ Record(t, Updated(t, s, p)) /\ UNCHANGED <<memory, tracker>>
    BY <1>9 DEF NodeToMongo
  <2>2. mongo' = Updated(t, s, p) /\ UNCHANGED history
    BY <2>1, RecordOwn DEF OwnWork
  <2>3. at'[t] = "callbackMemory"
    BY <1>2, <1>9, <2>2 DEF NodeToMongo, history
  <2>4. mongo'[t].progress = p
    BY <1>1, <2>2 DEF Updated, Types, OwnWork
  <2>5. QED
    BY <2>1, <2>3, <2>4 DEF PlaceAgrees, Staged
<1>10. CASE NodeToMemory(t)
  <2>1. PICK p : p = tracker[t].percent
    OBVIOUS
  <2>2. /\ at[t] = "callbackMemory" /\ at'[t] = "graph" /\ Remember(t, "running", p)
        /\ UNCHANGED <<mongo, tracker, history>>
    BY <1>2, <1>10, <2>1 DEF NodeToMemory
  <2>3. memory[t] # None /\ memory'[t].progress = p
    BY <1>1, <2>2 DEF Remember, Types, OwnWork
  <2>4. OwnWork(t)
    BY <2>2, <2>3 DEF OwnWork, history
  <2>5. mongo[t].progress = p
    BY <2>1, <2>2, <2>4 DEF Agrees, PlaceAgrees
  <2>6. QED
    BY <2>1, <2>2, <2>3, <2>5 DEF PlaceAgrees, Staged
<1>11. CASE Announce(t)
  <2>1. at'[t] = "record" /\ Remember(t, "completed", 100)
    BY <1>2, <1>11 DEF Announce
  <2>2. memory'[t] = [status |-> "completed", progress |-> 100]
    BY <1>1, <2>1 DEF Remember, Types, OwnWork
  <2>3. QED
    BY <2>1, <2>2 DEF PlaceAgrees, Staged
<1>12. CASE RememberFailed(t)
  <2>1. at'[t] = "failRecord" /\ Remember(t, "failed", 0)
    BY <1>2, <1>12 DEF RememberFailed
  <2>2. memory'[t] = [status |-> "failed", progress |-> 0]
    BY <1>1, <2>1 DEF Remember, Types, OwnWork
  <2>3. QED
    BY <2>1, <2>2 DEF PlaceAgrees, Staged
<1>13. CASE RecordCompleted(t)
  <2>1. /\ at[t] = "record" /\ at'[t] = "done" /\ UNCHANGED memory
        /\ Record(t, Updated(t, "completed", 100))
    BY <1>2, <1>13 DEF RecordCompleted
  <2>2. mongo' = Updated(t, "completed", 100) /\ UNCHANGED history
    BY <2>1, RecordOwn DEF OwnWork
  <2>3. mongo[t] # None /\ mongo'[t] = [status |-> "completed", progress |-> 100]
    BY <1>1, <2>2 DEF Updated, Types, OwnWork
  <2>4. memory[t] = [status |-> "completed", progress |-> 100]
    BY <2>1, <2>2, <2>3 DEF Agrees, PlaceAgrees, OwnWork, history
  <2>5. QED
    BY <2>1, <2>3, <2>4 DEF PlaceAgrees, Staged
<1>14. CASE RecordFailed(t)
  <2>1. /\ at[t] = "failRecord" /\ at'[t] = "done" /\ UNCHANGED memory
        /\ Record(t, Updated(t, "failed", 0))
    BY <1>2, <1>14 DEF RecordFailed
  <2>2. mongo' = Updated(t, "failed", 0) /\ UNCHANGED history
    BY <2>1, RecordOwn DEF OwnWork
  <2>3. mongo[t] # None /\ mongo'[t] = [status |-> "failed", progress |-> 0]
    BY <1>1, <2>2 DEF Updated, Types, OwnWork
  <2>4. memory[t] = [status |-> "failed", progress |-> 0]
    BY <2>1, <2>2, <2>3 DEF Agrees, PlaceAgrees, OwnWork, history
  <2>5. QED
    BY <2>1, <2>3, <2>4 DEF PlaceAgrees, Staged
<1>15. CASE Write(t)
  BY <1>15, WriteAgrees DEF Agrees
<1>16. QED
  BY <1>5, <1>6, <1>7, <1>8, <1>9, <1>10, <1>11, <1>12, <1>13, <1>14, <1>15 DEF Run

\* A step of an administrator: a task that is still its own work has what it had.
LEMMA AdministerAgrees ==
  ASSUME TypeInv, CopiesAgree, Administer
  PROVE  CopiesAgree'
<1>1. Types
  BY DEF TypeInv
<1>2. admin'.op = "mark" => admin'.tasks \subseteq touched'
  BY DEF Administer, MarkFailed, DeleteTask, CleanupZombies, MarkRecord, DeleteRecord,
         CleanupRecords, Begin, Quiet
<1>3. ASSUME NEW t \in Tasks, OwnWork(t)'
      PROVE  /\ t \notin touched \cup troubled
             /\ memory'[t] = memory[t] /\ mongo'[t] = mongo[t]
  <2>1. t \notin touched \cup troubled
    BY <1>1, <1>3, AdministerIs DEF OwnWork
  <2>2. CASE \E u \in Tasks : MarkFailed(u)
    BY <1>1, <1>3, <2>1, <2>2 DEF MarkFailed, OwnWork, Types
  <2>3. CASE \E u \in Tasks : DeleteTask(u)
    BY <1>1, <1>3, <2>1, <2>3 DEF DeleteTask, OwnWork, Types
  <2>4. CASE \E old \in SUBSET Tasks \ {{}} : CleanupZombies(old)
    BY <1>1, <1>3, <2>1, <2>4 DEF CleanupZombies, OwnWork, Types
  <2>5. CASE MarkRecord
    BY <1>1, <1>3, <2>1, <2>5 DEF MarkRecord, CopiesAgree, Types
  <2>6. CASE DeleteRecord
    BY <1>1, <1>3, <2>1, <2>6 DEF DeleteRecord, OwnWork, Types
  <2>7. CASE CleanupRecords
    BY <2>1, <2>7 DEF CleanupRecords, stores
  <2>8. QED
    BY <2>2, <2>3, <2>4, <2>5, <2>6, <2>7, <2>1 DEF Administer
<1>4. ASSUME NEW t \in Tasks PROVE Agrees(t)'
  <2> SUFFICES ASSUME OwnWork(t)' PROVE PlaceAgrees(t)'
    BY DEF Agrees
  <2>1. UNCHANGED <<at, next, tracker>>
    BY <1>1, AdministerIs
  <2>2. OwnWork(t)
    BY <1>3 DEF OwnWork
  <2>3. PlaceAgrees(t) /\ Due(t)' = Due(t)
    BY <2>1, <2>2 DEF CopiesAgree, Agrees, Due
  <2>4. QED
    BY <1>3, <2>1, <2>3 DEF PlaceAgrees
<1>5. QED
  BY <1>2, <1>4 DEF CopiesAgree

LEMMA NextAgrees ==
  ASSUME TypeInv, CopiesAgree, [Next]_vars
  PROVE  CopiesAgree'
<1>1. ASSUME NEW t \in Tasks, CreateTask(t) \/ Run(t) PROVE CopiesAgree'
  <2>1. Agrees(t)'
    BY <1>1, RunAgrees DEF CopiesAgree
  <2>2. (\A u \in Tasks \ {t} : Same(u)) /\ UNCHANGED <<admin, touched>>
    BY <1>1, RunIsLocal DEF TypeInv, StageOK
  <2>3. QED
    BY <2>1, <2>2, OthersAgree
<1>2. CASE Restart
  BY <1>2 DEF Restart, CopiesAgree, Agrees, OwnWork, Quiet
<1>3. CASE UNCHANGED vars
  BY <1>3 DEF vars, stores, history, CopiesAgree, Agrees, OwnWork, PlaceAgrees, Due
<1>4. QED
  BY <1>1, <1>2, <1>3, AdministerAgrees DEF Next

\* However the event loop, the threads, the callbacks of the graph and the requests of
\* administrators interleave, an analysis that ended says the same in memory and in MongoDB,
\* and between two updates the three copies of its percentage are one, unless an
\* administrator or a failed call changed one of them (simple_analysis_service.py:1078-1135).
THEOREM StoresStayTogether == Spec => []StoresAgree
<1> DEFINE Inv == TypeInv /\ CopiesAgree
<1>1. Init => Inv
  BY InitTyped DEF Init, CopiesAgree, Agrees, OwnWork, Quiet
<1>2. Inv /\ [Next]_vars => Inv'
  BY NextTyped, NextAgrees
<1>3. Inv => StoresAgree
  BY DEF CopiesAgree, Agrees, PlaceAgrees, StoresAgree, EndsAgree, ProgressAgrees
<1>4. QED
  BY <1>1, <1>2, <1>3, PTL DEF Spec

================================================================================
