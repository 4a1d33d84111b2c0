-------------------------- MODULE AnalysisQueue_proofs --------------------------
(***************************************************************************)
(* The queue for any number of users, tasks, batches and processes.        *)
(* Batches are whole whatever happens, and the slots of a user are bounded *)
(* by their limit and the number of workers.  The other theorems name what *)
(* they do not hold without: one cleanup loop for one copy in the list, no *)
(* kills for slots that are given back, neither kills nor cleanup loops    *)
(* for one analysis, one outcome and queued tasks that stay reachable.     *)
(***************************************************************************)
EXTENDS AnalysisQueue, FiniteSetTheorems, SequenceTheorems, TLAPS

Statuses == {"absent", "queued", "processing", "completed", "failed", "cancelled"}

\* Where each kind of process can be.
ReleasePcs == {"unmarkUser", "unmarkGlobal", "clear"}
SubmitPcs == {"checkUser", "checkGlobal", "save", "push", "addToBatch"}
DequeuePcs == {"check", "putBack", "markUser", "markGlobal", "setTimeout"}
StartPcs == DequeuePcs \cup {"expire", "markTask"}
WorkPcs == StartPcs \cup ReleasePcs \cup {"analyse", "ack", "record"}
RequeuePcs == ReleasePcs \cup {"requeue", "markQueued"}
CancelPcs == ReleasePcs \cup {"remove", "cancel"}
Pcs == SubmitPcs \cup WorkPcs \cup RequeuePcs \cup CancelPcs \cup {"idle", "sweep"}

TaskRow == [status : Statuses, worker : Workers \cup {None}]
TimeoutRow == [at : Nat \cup {None}, expires : Nat \cup {None}]
BatchRow == [submitted : Nat, tasks : SUBSET Tasks]
Local == [pc : Pcs, op : {"none", "ack", "requeue", "cancel"}, task : Tasks \cup {None},
          ok : BOOLEAN]
RequestRow == [user : Users \cup {None}, batch : Batches \cup {None}, left : Nat]
SweepRow == [now : Nat, keys : SUBSET Tasks, expired : Seq(Tasks)]

TaskStore == /\ task \in [Tasks -> TaskRow]
             /\ ready \in Seq(Tasks)
             /\ visibility \in [Tasks -> TimeoutRow]
             /\ batches \in [Batches -> BatchRow]

TaskSets == /\ userProcessing \in [Users -> SUBSET Tasks]
            /\ processing \in SUBSET Tasks
            /\ completed \in SUBSET Tasks
            /\ failed \in SUBSET Tasks

Counts == /\ clock \in Nat
          /\ crashes \in Nat
          /\ runs \in [Tasks -> Nat]
          /\ answered \in SUBSET Batches

\* What a process of each kind knows at each of its stages.
Submits(l) == /\ l.pc \in SubmitPcs \cup {"idle"}
              /\ l.pc \in {"push", "addToBatch"} => l.task \in Tasks

Works(l) == /\ l.pc \in WorkPcs \cup {"idle"}
            /\ l.pc # "idle" => l.task \in Tasks
            /\ l.pc \in ReleasePcs => l.op = "ack"

Cleans(l) == /\ l.pc \in RequeuePcs \cup {"idle", "sweep"}
             /\ l.pc \in RequeuePcs => l.task \in Tasks
             /\ l.pc \in ReleasePcs => l.op = "requeue"

Cancels(l) == /\ l.pc \in CancelPcs \cup {"idle"}
              /\ l.pc # "idle" => l.task \in Tasks
              /\ l.pc \in ReleasePcs => l.op = "cancel"

Placed(p, l) == /\ p \in Submitters => Submits(l)
                /\ p \in Workers => Works(l)
                /\ p \in Cleaners => Cleans(l)
                /\ p \in Cancellers => Cancels(l)

Locals == /\ proc \in [Procs -> Local]
          /\ \A p \in Procs : Placed(p, proc[p])
          /\ request \in [Submitters -> RequestRow]
          /\ \A s \in Submitters : At(s, "addToBatch") => request[s].batch \in Batches
          /\ sweep \in [Cleaners -> SweepRow]

TypeOK == TaskStore /\ TaskSets /\ Counts /\ Locals

------------------------------------------------------------------------------
(* The inductive invariants *)

Exists(t) == task[t].status # "absent"

\* A task a submitter has made and not yet handed over completely.
Making(s, t) == proc[s].pc \in {"push", "addToBatch"} /\ proc[s].task = t

HasRequest(b) == \E s \in Submitters : request[s].batch = b

BatchRows ==
  \A b \in Batches :
    /\ IsFiniteSet(batches[b].tasks)
    /\ \A t \in batches[b].tasks : Exists(t)
    /\ batches[b] = NoBatch => b \notin answered /\ ~HasRequest(b)
    /\ b \in answered => Cardinality(batches[b].tasks) = batches[b].submitted /\ ~HasRequest(b)

\* A batch that is being submitted is that of one handler, which knows what is left.
OpenBatches ==
  \A s \in Submitters : request[s].batch \in Batches =>
    LET b == request[s].batch IN
    /\ request[s].left > 0
    /\ Cardinality(batches[b].tasks) + request[s].left = batches[b].submitted
    /\ \A r \in Submitters : request[r].batch = b => r = s

TasksInMaking ==
  \A s \in Submitters, t \in Tasks : Making(s, t) =>
    /\ Exists(t)
    /\ \A b \in Batches : t \notin batches[b].tasks
    /\ \A r \in Submitters : Making(r, t) => r = s

BatchesAreFilled == BatchRows /\ OpenBatches /\ TasksInMaking

\* Workers that passed the check of the user's limit and have not marked their task.
Marking(u) == {w \in Workers : At(w, "markUser") /\ UserOf[proc[w].task] = u}

SlotsAreBounded ==
  \A u \in Users :
    /\ IsFiniteSet(userProcessing[u])
    /\ Cardinality(userProcessing[u]) + Cardinality(Marking(u)) <= UserLimit + Cardinality(Workers) - 1

\* The copy of a task that is on its way into the list, or out of it.
Carries(p, t) ==
  /\ proc[p].task = t
  /\ \/ p \in Submitters /\ At(p, "push")
     \/ p \in Workers /\ proc[p].pc \in DequeuePcs
     \/ p \in Cleaners /\ proc[p].pc \in ReleasePcs \cup {"requeue"}

IsExpired(t) == \E c \in Cleaners : t \in ToSet(sweep[c].expired)

OneCopy ==
  /\ IsInjective(ready)
  /\ \A t \in Tasks : t \in ToSet(ready) =>
       visibility[t] = NoTimeout /\ ~IsExpired(t) /\ \A p \in Procs : ~Carries(p, t)
  /\ \A t \in Tasks, p \in Procs : Carries(p, t) =>
       /\ ~IsExpired(t)
       /\ visibility[t] = NoTimeout \/ (p \in Cleaners /\ proc[p].pc \in ReleasePcs)
       /\ \A q \in Procs : Carries(q, t) => q = p
  /\ \A t \in Tasks : ~Exists(t) =>
       /\ visibility[t] = NoTimeout /\ ~IsExpired(t)
       /\ t \notin ToSet(ready) /\ \A p \in Procs : ~Carries(p, t)
  /\ \A c \in Cleaners : /\ IsInjective(sweep[c].expired)
                         /\ sweep[c].keys \cap ToSet(sweep[c].expired) = {}

\* A worker is at the task, at one of the stages.
WorksAt(t, pcs) == \E w \in Workers : proc[w].pc \in pcs /\ proc[w].task = t

\* The stages at which a task has a slot of the system, and of its user.
GlobalPcs == {"setTimeout", "expire", "markTask", "analyse", "unmarkUser", "unmarkGlobal"}
UserPcs == {"markGlobal", "setTimeout", "expire", "markTask", "analyse", "unmarkUser"}

SlotsAreHeld ==
  \A t \in Tasks : /\ t \in processing => WorksAt(t, GlobalPcs)
                   /\ t \in userProcessing[UserOf[t]] => WorksAt(t, UserPcs)

\* A submitter, or a cancellation, has the task in its hands.
PushedTo(t) == \E s \in Submitters : At(s, "push") /\ proc[s].task = t
CancelledBy(t) == \E x \in Cancellers : At(x, "cancel") /\ proc[x].task = t

QueuedIsCarried ==
  \A t \in Tasks : task[t].status = "queued" =>
    t \in ToSet(ready) \/ PushedTo(t) \/ WorksAt(t, StartPcs) \/ CancelledBy(t)

Has(p, t) == /\ proc[p].task = t
             /\ \/ p \in Submitters /\ At(p, "push")
                \/ p \in Workers /\ ~At(p, "idle")

EarlyPcs == StartPcs \cup {"push"}

\* Of each task there is one copy: in the list, with a submitter or with a worker; and
\* as long as its analysis has not begun, it was never begun.
OneHolder ==
  /\ IsInjective(ready)
  /\ \A t \in Tasks : t \in ToSet(ready) => Exists(t) /\ \A p \in Procs : ~Has(p, t)
  /\ \A t \in Tasks, p \in Procs : Has(p, t) => Exists(t) /\ \A q \in Procs : Has(q, t) => q = p
  /\ \A t \in Tasks :
       /\ runs[t] <= 1
       /\ ~Exists(t) \/ t \in ToSet(ready) => runs[t] = 0
       /\ \A p \in Procs : Has(p, t) /\ proc[p].pc \in EarlyPcs => runs[t] = 0

Outcome(ok) == IF ok THEN "completed" ELSE "failed"

\* The acknowledgement has set the status, and the outcome is not yet recorded.
Recording(t, ok) == \E w \in Workers : At(w, "record") /\ proc[w].task = t /\ proc[w].ok = ok

OutcomeOf(t) ==
  /\ task[t].status = "completed" => t \in completed \ failed \/ Recording(t, TRUE)
  /\ task[t].status = "failed" => t \in failed \ completed \/ Recording(t, FALSE)
  /\ t \in completed \cup failed => /\ task[t].status \in {"completed", "failed", "cancelled"}
                                    /\ t \notin ToSet(ready)
                                    /\ \A p \in Procs : ~Has(p, t)
  /\ \A w \in Workers : At(w, "record") /\ proc[w].task = t =>
       task[t].status \in {Outcome(proc[w].ok), "cancelled"}

OneOutcome == \A t \in Tasks : OutcomeOf(t)

------------------------------------------------------------------------------
(* Sequences as lists of tasks *)

\* What a sequence over S is, as a function.
LEMMA SeqIsFunction ==
  ASSUME NEW S, NEW s \in Seq(S)
  PROVE  /\ Len(s) \in Nat /\ DOMAIN s = 1..Len(s)
         /\ \A i \in 1..Len(s) : s[i] \in S
         /\ ToSet(s) \subseteq S
         /\ \A x : x \in ToSet(s) <=> \E i \in 1..Len(s) : s[i] = x
         /\ IsInjective(s) <=> \A i, j \in 1..Len(s) : s[i] = s[j] => i = j
<1>1. Len(s) \in Nat /\ DOMAIN s = 1..Len(s) /\ \A i \in 1..Len(s) : s[i] \in S
  OBVIOUS
<1>2. QED
  BY <1>1 DEF ToSet, IsInjective

\* LPUSH.
LEMMA PushAtHead ==
  ASSUME NEW S, NEW s \in Seq(S), NEW t \in S
  PROVE  /\ <<t>> \o s \in Seq(S)
         /\ ToSet(<<t>> \o s) = ToSet(s) \cup {t}
         /\ IsInjective(s) /\ t \notin ToSet(s) => IsInjective(<<t>> \o s)
<1> DEFINE r == <<t>> \o s
<1>1. Len(s) \in Nat /\ r \in Seq(S) /\ Len(r) = Len(s) + 1
  BY SeqIsFunction
<1>2. \A i \in 1..Len(r) : r[i] = IF i = 1 THEN t ELSE s[i - 1]
  BY <1>1
<1>3. r[1] = t /\ \A i \in 1..Len(s) : r[i + 1] = s[i]
  BY <1>1, <1>2
<1> HIDE DEF r
<1>4. \A x : x \in ToSet(r) <=> \E i \in 1..Len(r) : r[i] = x
  BY <1>1, SeqIsFunction
<1>5. \A x : x \in ToSet(s) <=> \E i \in 1..Len(s) : s[i] = x
  BY SeqIsFunction
<1>6. ASSUME NEW x
      PROVE  x \in ToSet(r) <=> x \in ToSet(s) \cup {t}
  <2>1. ASSUME x \in ToSet(r) PROVE x \in ToSet(s) \cup {t}
    <3>1. PICK i \in 1..Len(r) : r[i] = x
      BY <1>4, <2>1
    <3>2. i = 1 \/ i - 1 \in 1..Len(s)
      BY <1>1
    <3>3. QED
      BY <1>2, <1>5, <3>1, <3>2
  <2>2. ASSUME x \in ToSet(s) PROVE x \in ToSet(r)
    <3>1. PICK i \in 1..Len(s) : s[i] = x
      BY <1>5, <2>2
    <3>2. i + 1 \in 1..Len(r) /\ r[i + 1] = x
      BY <1>1, <1>3, <3>1
    <3>3. QED
      BY <1>4, <3>2
  <2>3. t \in ToSet(r)
    BY <1>1, <1>3, <1>4
  <2>4. QED
    BY <2>1, <2>2, <2>3
<1>7. ASSUME IsInjective(s), t \notin ToSet(s)
      PROVE  IsInjective(r)
  <2>1. \A i, j \in 1..Len(s) : s[i] = s[j] => i = j
    BY <1>7, SeqIsFunction
  <2>2. \A i \in 1..Len(s) : s[i] # t
    BY <1>5, <1>7
  <2>3. ASSUME NEW i \in 1..Len(r), NEW j \in 1..Len(r), r[i] = r[j] PROVE i = j
    <3>1. /\ i = 1 \/ i - 1 \in 1..Len(s)
          /\ j = 1 \/ j - 1 \in 1..Len(s)
      BY <1>1
    <3>2. QED
      BY <1>2, <2>1, <2>2, <2>3, <3>1
  <2>4. QED
    BY <1>1, <2>3, SeqIsFunction
<1>8. QED
  BY <1>1, <1>6, <1>7 DEF r

\* RPOP.
LEMMA PopAtTail ==
  ASSUME NEW S, NEW s \in Seq(S), s # <<>>
  PROVE  /\ Front(s) \in Seq(S) /\ Last(s) \in S
         /\ Last(s) \in ToSet(s)
         /\ ToSet(s) = ToSet(Front(s)) \cup {Last(s)}
         /\ IsInjective(s) => IsInjective(Front(s)) /\ Last(s) \notin ToSet(Front(s))
<1> DEFINE r == Front(s)
<1>1. Len(s) \in Nat \ {0} /\ Last(s) = s[Len(s)]
  BY EmptySeq DEF Last
<1>2. \A i \in 1..Len(s) : s[i] \in S
  BY SeqIsFunction
<1>3. /\ r \in Seq(S) /\ Len(r) = Len(s) - 1
      /\ \A i \in 1..Len(s) - 1 : r[i] = s[i]
  <2>1. r = SubSeq(s, 1, Len(s) - 1)
    BY DEF Front
  <2>2. 1 \in Int /\ Len(s) - 1 \in Int /\ \A i \in 1..Len(s) - 1 : s[i] \in S
    BY <1>1, <1>2
  <2>3. /\ r \in Seq(S)
        /\ Len(r) = IF 1 <= Len(s) - 1 THEN (Len(s) - 1) - 1 + 1 ELSE 0
        /\ \A i \in 1..(Len(s) - 1) - 1 + 1 : r[i] = s[1 + i - 1]
    BY <2>1, <2>2, SubSeqProperties
  <2>4. \A n \in Nat \ {0} : /\ (n - 1) - 1 + 1 = n - 1
                             /\ ~(1 <= n - 1) => n - 1 = 0
                             /\ \A i \in 1..n - 1 : 1 + i - 1 = i
    OBVIOUS
  <2>5. QED
    BY <1>1, <2>3, <2>4
<1> HIDE DEF r
<1>4. /\ \A x : x \in ToSet(r) <=> \E i \in 1..Len(r) : r[i] = x
      /\ \A x : x \in ToSet(s) <=> \E i \in 1..Len(s) : s[i] = x
  BY <1>3, SeqIsFunction
<1>5. \A i \in 1..Len(s) : i = Len(s) \/ i \in 1..Len(s) - 1
  BY <1>1
<1>6. Last(s) \in S /\ Last(s) \in ToSet(s) /\ Len(s) \in 1..Len(s)
  BY <1>1, <1>2, <1>4
<1>7. \A i \in 1..Len(s) - 1 : i \in 1..Len(s) /\ i # Len(s)
  BY <1>1
<1>8. ToSet(s) = ToSet(r) \cup {Last(s)}
  BY <1>1, <1>3, <1>4, <1>5, <1>6, <1>7
<1>9. ASSUME IsInjective(s) PROVE IsInjective(r) /\ Last(s) \notin ToSet(r)
  <2>1. \A i, j \in 1..Len(s) : s[i] = s[j] => i = j
    BY <1>9, SeqIsFunction
  <2>2. \A i, j \in 1..Len(r) : r[i] = r[j] => i = j
    BY <1>3, <1>7, <2>1
  <2>3. IsInjective(r)
    BY <1>3, <2>2, SeqIsFunction
  <2>4. QED
    BY <1>1, <1>3, <1>4, <1>6, <1>7, <2>1, <2>3, SMTT(60)
<1>10. QED
  BY <1>3, <1>6, <1>8, <1>9 DEF r

LEMMA AppendAtEnd ==
  ASSUME NEW S, NEW s \in Seq(S), NEW t \in S
  PROVE  /\ Append(s, t) \in Seq(S)
         /\ ToSet(Append(s, t)) = ToSet(s) \cup {t}
         /\ IsInjective(s) /\ t \notin ToSet(s) => IsInjective(Append(s, t))
<1> DEFINE r == Append(s, t)
<1>1. /\ Len(s) \in Nat /\ r \in Seq(S) /\ Len(r) = Len(s) + 1
      /\ \A i \in 1..Len(s) : r[i] = s[i]
      /\ r[Len(s) + 1] = t
  BY SeqIsFunction, AppendProperties
<1> HIDE DEF r
<1>2. \A i \in 1..Len(r) : i = Len(s) + 1 \/ i \in 1..Len(s)
  BY <1>1
<1>3. \A i \in 1..Len(s) : i \in 1..Len(r)
  BY <1>1
<1>4. Len(s) + 1 \in 1..Len(r)
  BY <1>1
<1>5. /\ \A x : x \in ToSet(r) <=> \E i \in 1..Len(r) : r[i] = x
      /\ \A x : x \in ToSet(s) <=> \E i \in 1..Len(s) : s[i] = x
  BY <1>1, SeqIsFunction
<1>6. ToSet(r) = ToSet(s) \cup {t}
  BY <1>1, <1>2, <1>3, <1>4, <1>5
<1>7. ASSUME IsInjective(s), t \notin ToSet(s)
      PROVE  IsInjective(r)
  <2>1. \A i, j \in 1..Len(s) : s[i] = s[j] => i = j
    BY <1>7, SeqIsFunction
  <2>2. \A i \in 1..Len(s) : s[i] # t
    BY <1>5, <1>7
  <2>3. \A i, j \in 1..Len(r) : r[i] = r[j] => i = j
    BY <1>1, <1>2, <2>1, <2>2
  <2>4. QED
    BY <1>1, <2>3, SeqIsFunction
<1>8. QED
  BY <1>1, <1>6, <1>7 DEF r

LEMMA TakeHead ==
  ASSUME NEW S, NEW s \in Seq(S), s # <<>>
  PROVE  /\ Tail(s) \in Seq(S) /\ Head(s) \in S
         /\ Head(s) \in ToSet(s)
         /\ ToSet(Tail(s)) \subseteq ToSet(s)
         /\ IsInjective(s) => IsInjective(Tail(s)) /\ Head(s) \notin ToSet(Tail(s))
<1> DEFINE r == Tail(s)
<1>1. /\ Len(s) \in Nat \ {0} /\ r \in Seq(S) /\ Len(r) = Len(s) - 1
      /\ \A i \in 1..Len(r) : r[i] = s[i + 1]
      /\ Head(s) = s[1] /\ Head(s) \in S
  BY EmptySeq, HeadTailProperties
<1> HIDE DEF r
<1>2. \A i \in 1..Len(r) : i + 1 \in 1..Len(s) /\ i + 1 # 1
  BY <1>1
<1>3. 1 \in 1..Len(s)
  BY <1>1
<1>4. /\ \A x : x \in ToSet(r) <=> \E i \in 1..Len(r) : r[i] = x
      /\ \A x : x \in ToSet(s) <=> \E i \in 1..Len(s) : s[i] = x
  BY <1>1, SeqIsFunction
<1>5. Head(s) \in ToSet(s) /\ ToSet(r) \subseteq ToSet(s)
  BY <1>1, <1>2, <1>3, <1>4
<1>6. ASSUME IsInjective(s)
      PROVE  IsInjective(r) /\ Head(s) \notin ToSet(r)
  <2>1. \A i, j \in 1..Len(s) : s[i] = s[j] => i = j
    BY <1>6, SeqIsFunction
  <2>2. ASSUME NEW i \in 1..Len(r), NEW j \in 1..Len(r), r[i] = r[j] PROVE i = j
    <3>1. i + 1 = j + 1
      BY <1>1, <1>2, <2>1, <2>2
    <3>2. QED
      BY <3>1
  <2>3. IsInjective(r)
    BY <1>1, <2>2, SeqIsFunction
  <2>4. QED
    BY <1>1, <1>2, <1>3, <1>4, <2>1, <2>3
<1>7. QED
  BY <1>1, <1>5, <1>6 DEF r

LEMMA NothingInEmpty == ToSet(<<>>) = {} /\ IsInjective(<<>>) /\ \A S : <<>> \in Seq(S)
  BY DEF ToSet, IsInjective

\* LREM: the entries that are kept are counted by their rank.
LEMMA RanksAreAll ==
  ASSUME NEW n \in Nat, NEW K \in SUBSET (1..n)
  PROVE  /\ Cardinality(K) \in Nat
         /\ \A j \in 1..Cardinality(K) : \E i \in K : Cardinality({k \in K : k <= i}) = j
         /\ \A i \in K : Cardinality({k \in K : k <= i}) \in 1..Cardinality(K)
         /\ \A i, j \in K :
              Cardinality({k \in K : k <= i}) = Cardinality({k \in K : k <= j}) => i = j
<1> DEFINE upTo(i) == {k \in K : k <= i}
           rank == [i \in K |-> Cardinality(upTo(i))]
           c == Cardinality(K)
<1>1. IsFiniteSet(K) /\ c \in Nat
  <2>1. IsFiniteSet(1..n)
    BY FS_Interval
  <2>2. IsFiniteSet(K)
    BY <2>1, FS_Subset
  <2>3. QED
    BY <2>2, FS_CardinalityType
<1>2. \A i \in K : IsFiniteSet(upTo(i)) /\ Cardinality(upTo(i)) \in 1..c
  <2>1. SUFFICES ASSUME NEW i \in K
                 PROVE  IsFiniteSet(upTo(i)) /\ Cardinality(upTo(i)) \in 1..c
    OBVIOUS
  <2>2. upTo(i) \in SUBSET K /\ i \in upTo(i)
    OBVIOUS
  <2>3. IsFiniteSet(upTo(i)) /\ Cardinality(upTo(i)) <= c
    BY <1>1, <2>2, FS_Subset
  <2>4. Cardinality(upTo(i)) \in Nat /\ Cardinality(upTo(i)) # 0
    BY <2>2, <2>3, FS_CardinalityType, FS_EmptySet
  <2>5. QED
    BY <1>1, <2>3, <2>4
<1>3. ASSUME NEW i \in K, NEW j \in K, Cardinality(upTo(i)) = Cardinality(upTo(j))
      PROVE  i = j
  <2>1. i \in Int /\ j \in Int
    OBVIOUS
  <2>2. upTo(i) \in SUBSET upTo(j) \/ upTo(j) \in SUBSET upTo(i)
    <3>1. \A k \in K : k \in Int
      OBVIOUS
    <3>2. ASSUME NEW a \in K, NEW b \in K, a <= b PROVE upTo(a) \subseteq upTo(b)
      <4>1. \A k \in K : k <= a => k <= b
        BY <3>1, <3>2
      <4>2. QED
        BY <4>1
    <3>3. i <= j \/ j <= i
      BY <2>1
    <3>4. QED
      BY <3>2, <3>3
  <2>3. upTo(i) = upTo(j)
    BY <1>2, <1>3, <2>2, FS_Subset
  <2>4. i \in upTo(j) /\ j \in upTo(i)
    BY <2>1, <2>3
  <2>5. QED
    BY <2>1, <2>4
<1>4. rank \in Injection(K, 1..c)
  BY <1>2, <1>3 DEF Injection, IsInjective
<1>5. IsFiniteSet(1..c) /\ Cardinality(1..c) = c
  BY <1>1, FS_Interval
<1>6. rank \in Surjection(K, 1..c)
  BY <1>4, <1>5, FS_Injection
<1>7. \A j \in 1..c : \E i \in K : Cardinality(upTo(i)) = j
  BY <1>6 DEF Surjection
<1>8. QED
  BY <1>1, <1>2, <1>3, <1>7

LEMMA WithoutOne ==
  ASSUME NEW S, NEW s \in Seq(S), NEW t
  PROVE  /\ Without(s, t) \in Seq(S)
         /\ ToSet(Without(s, t)) = ToSet(s) \ {t}
         /\ IsInjective(s) => IsInjective(Without(s, t))
<1> DEFINE K == {i \in DOMAIN s : s[i] # t}
           rank(i) == Cardinality({k \in K : k <= i})
           nth(j) == CHOOSE i \in K : rank(i) = j
           c == Cardinality(K)
           r == Without(s, t)
<1>1. /\ Len(s) \in Nat /\ DOMAIN s = 1..Len(s)
      /\ \A i \in 1..Len(s) : s[i] \in S
      /\ K \in SUBSET (1..Len(s))
  BY SeqIsFunction
<1>2. r = [j \in 1..c |-> s[nth(j)]]
  BY DEF Without
<1>3. /\ c \in Nat
      /\ \A j \in 1..c : \E i \in K : rank(i) = j
      /\ \A i \in K : rank(i) \in 1..c
      /\ \A i, j \in K : rank(i) = rank(j) => i = j
  BY <1>1, RanksAreAll
<1>4. \A i \in 1..Len(s) : i \in K <=> s[i] # t
  BY <1>1
<1> HIDE DEF K, rank, r
<1>5. \A j \in 1..c : nth(j) \in K /\ rank(nth(j)) = j
  BY <1>3
<1>6. \A i \in K : nth(rank(i)) = i
  BY <1>3, <1>5
<1> HIDE DEF nth, c
<1>7. \A j \in 1..c : nth(j) \in 1..Len(s) /\ s[nth(j)] # t /\ s[nth(j)] \in S
  BY <1>1, <1>4, <1>5
<1>8. r \in Seq(S) /\ Len(r) = c /\ \A j \in 1..c : r[j] = s[nth(j)]
  BY <1>2, <1>3, <1>7
<1>9. /\ \A x : x \in ToSet(r) <=> \E i \in 1..c : r[i] = x
      /\ \A x : x \in ToSet(s) <=> \E i \in 1..Len(s) : s[i] = x
  BY <1>8, SeqIsFunction
<1>10. ASSUME NEW x \in ToSet(s) \ {t} PROVE x \in ToSet(r)
  <2>1. PICK i \in 1..Len(s) : s[i] = x
    BY <1>9
  <2>2. i \in K
    BY <1>4, <2>1
  <2>3. rank(i) \in 1..c /\ r[rank(i)] = x
    BY <1>3, <1>6, <1>8, <2>1, <2>2
  <2>4. QED
    BY <1>9, <2>3
<1>11. ToSet(r) = ToSet(s) \ {t}
  BY <1>7, <1>8, <1>9, <1>10
<1>12. ASSUME IsInjective(s) PROVE IsInjective(r)
  <2>1. \A i, j \in 1..Len(s) : s[i] = s[j] => i = j
    BY <1>12, SeqIsFunction
  <2>2. \A i, j \in 1..c : r[i] = r[j] => i = j
    BY <1>5, <1>7, <1>8, <2>1
  <2>3. QED
    BY <1>8, <2>2, SeqIsFunction
<1>13. QED
  BY <1>8, <1>11, <1>12 DEF r

------------------------------------------------------------------------------
(* Changes of one process *)

LEMMA KindsAreDistinct ==
  /\ \A s \in Submitters : s \in Procs /\ s \notin Workers \cup Cleaners \cup Cancellers
  /\ \A w \in Workers : w \in Procs /\ w \notin Submitters \cup Cleaners \cup Cancellers
  /\ \A c \in Cleaners : c \in Procs /\ c \notin Submitters \cup Workers \cup Cancellers
  /\ \A x \in Cancellers : x \in Procs /\ x \notin Submitters \cup Workers \cup Cleaners
  BY ProcsAreDistinct DEF Procs

LEMMA IdleIs == Idle \in Local /\ Idle.pc = "idle" /\ \A p : Placed(p, Idle)
  BY DEF Idle, Local, Pcs, Placed, Submits, Works, Cleans, Cancels, ReleasePcs, RequeuePcs

\* One process gets new locals.
LEMMA Becomes ==
  ASSUME Locals, NEW p \in Procs, NEW l \in Local, Placed(p, l),
         proc' = [proc EXCEPT ![p] = l],
         p \in Submitters /\ l.pc = "addToBatch" => request[p].batch \in Batches,
         UNCHANGED <<request, sweep>>
  PROVE  Locals'
<1>1. proc' \in [Procs -> Local] /\ \A q \in Procs : Placed(q, proc'[q])
  BY DEF Locals
<1>2. \A s \in Submitters : proc'[s].pc = "addToBatch" => request[s].batch \in Batches
  BY KindsAreDistinct DEF Locals, At
<1>3. QED
  BY <1>1, <1>2 DEF Locals, At

LEMMA Returns ==
  ASSUME Locals, NEW p \in Procs, Return(p), UNCHANGED <<request, sweep>>
  PROVE  Locals'
  BY IdleIs, Becomes DEF Return

LEMMA GoesTo ==
  ASSUME Locals, NEW p \in Procs, NEW pc \in Pcs, GoTo(p, pc),
         Placed(p, [proc[p] EXCEPT !.pc = pc]),
         p \in Submitters /\ pc = "addToBatch" => request[p].batch \in Batches,
         UNCHANGED <<request, sweep>>
  PROVE  Locals'
<1> DEFINE l == [proc[p] EXCEPT !.pc = pc]
<1>1. l \in Local /\ l.pc = pc
  BY DEF Locals, Local
<1>2. proc' = [proc EXCEPT ![p] = l]
  BY DEF GoTo
<1>3. QED
  BY <1>1, <1>2, Becomes

LEMMA WorkerGoes ==
  ASSUME Locals, NEW w \in Workers, NEW pc \in WorkPcs \ ReleasePcs, GoTo(w, pc),
         ~At(w, "idle"), UNCHANGED <<request, sweep>>
  PROVE  Locals'
<1>1. w \in Procs /\ w \notin Submitters \cup Cleaners \cup Cancellers
  BY KindsAreDistinct
<1>2. proc[w] \in Local /\ Works(proc[w])
  BY <1>1 DEF Locals, Placed
<1>3. Works([proc[w] EXCEPT !.pc = pc]) /\ pc \in Pcs
  BY <1>2 DEF Works, At, Local, Pcs
<1>4. QED
  BY <1>1, <1>3, GoesTo DEF Placed

LEMMA SubmitterGoes ==
  ASSUME Locals, NEW s \in Submitters, NEW pc \in SubmitPcs, GoTo(s, pc),
         pc \in {"push", "addToBatch"} => proc[s].task \in Tasks,
         pc = "addToBatch" => request[s].batch \in Batches,
         UNCHANGED <<request, sweep>>
  PROVE  Locals'
<1>1. s \in Procs /\ s \notin Workers \cup Cleaners \cup Cancellers
  BY KindsAreDistinct
<1>2. proc[s] \in Local
  BY <1>1 DEF Locals
<1>3. Submits([proc[s] EXCEPT !.pc = pc]) /\ pc \in Pcs
  BY <1>2 DEF Submits, Local, Pcs
<1>4. QED
  BY <1>1, <1>3, GoesTo DEF Placed

\* A process that begins to give back the slots of a task.
LEMMA BeginsRelease ==
  ASSUME Locals, NEW p \in Procs, NEW op, NEW t \in Tasks, NEW ok \in BOOLEAN,
         Unmark(p, op, t, ok), UNCHANGED <<request, sweep>>,
         \/ p \in Workers /\ op = "ack"
         \/ p \in Cleaners /\ op = "requeue"
         \/ p \in Cancellers /\ op = "cancel"
  PROVE  Locals'
<1> DEFINE l == [pc |-> "unmarkUser", op |-> op, task |-> t, ok |-> ok]
<1>1. l \in Local
  BY DEF Local, Pcs, RequeuePcs, ReleasePcs
<1>2. Placed(p, l)
  BY KindsAreDistinct
     DEF Placed, Submits, Works, Cleans, Cancels, WorkPcs, RequeuePcs, CancelPcs, ReleasePcs
<1>3. QED
  BY <1>1, <1>2, Becomes, KindsAreDistinct DEF Unmark

LEMMA ReleaseGoes ==
  ASSUME Locals, NEW p \in Procs, proc[p].pc \in ReleasePcs, UNCHANGED <<request, sweep>>,
         \/ \E pc \in ReleasePcs : GoTo(p, pc)
         \/ GoTo(p, proc[p].op)
  PROVE  Locals'
<1>1. proc[p] \in Local /\ Placed(p, proc[p])
  BY DEF Locals
<1>2. p \notin Submitters /\ p \in Workers \cup Cleaners \cup Cancellers
  BY <1>1 DEF Placed, Submits, ReleasePcs, SubmitPcs, Procs
<1>3. \A pc \in ReleasePcs \cup {proc[p].op} : pc \in Pcs /\ Placed(p, [proc[p] EXCEPT !.pc = pc])
  BY <1>1, <1>2, KindsAreDistinct
     DEF Placed, Works, Cleans, Cancels, WorkPcs, RequeuePcs, CancelPcs, ReleasePcs, Local, Pcs
<1>4. QED
  BY <1>2, <1>3, GoesTo

\* A submitter goes to its next check, with a new request or none.
LEMMA RequestChanges ==
  ASSUME Locals, NEW s \in Submitters, GoTo(s, "checkUser"), UNCHANGED sweep,
         request' \in [Submitters -> RequestRow],
         \A r \in Submitters : r # s => request'[r] = request[r]
  PROVE  Locals'
<1> DEFINE l == [proc[s] EXCEPT !.pc = "checkUser"]
<1>1. s \in Procs /\ l \in Local /\ l.pc = "checkUser" /\ proc' = [proc EXCEPT ![s] = l]
  BY KindsAreDistinct, SMTT(60) DEF GoTo, Locals, Local, Pcs, SubmitPcs
<1>2. Placed(s, l)
  BY <1>1, KindsAreDistinct DEF Placed, Submits, SubmitPcs
<1>3. proc' \in [Procs -> Local] /\ \A q \in Procs : Placed(q, proc'[q])
  BY <1>1, <1>2 DEF Locals
<1>4. \A r \in Submitters : proc'[r].pc = "addToBatch" => request'[r].batch \in Batches
  BY <1>1, KindsAreDistinct DEF Locals, At
<1>5. QED
  BY <1>3, <1>4 DEF Locals, At

LEMMA RequestReturns ==
  ASSUME Locals, NEW s \in Submitters, Return(s), UNCHANGED sweep,
         request' \in [Submitters -> RequestRow],
         \A r \in Submitters : r # s => request'[r] = request[r]
  PROVE  Locals'
<1>1. s \in Procs /\ proc' = [proc EXCEPT ![s] = Idle]
  BY KindsAreDistinct DEF Return
<1>2. proc' \in [Procs -> Local] /\ \A q \in Procs : Placed(q, proc'[q])
  BY <1>1, IdleIs DEF Locals
<1>3. \A r \in Submitters : proc'[r].pc = "addToBatch" => request'[r].batch \in Batches
  BY <1>1, IdleIs, KindsAreDistinct DEF Locals, At
<1>4. QED
  BY <1>2, <1>3 DEF Locals, At

\* A step of a cleanup loop that also changes its locals.
LEMMA SweepGoes ==
  ASSUME Locals, NEW c \in Cleaners, NEW l \in Local, Placed(c, l),
         proc' = [proc EXCEPT ![c] = l],
         sweep' \in [Cleaners -> SweepRow], UNCHANGED request
  PROVE  Locals'
<1>1. proc' \in [Procs -> Local] /\ \A q \in Procs : Placed(q, proc'[q])
  BY KindsAreDistinct DEF Locals
<1>2. \A s \in Submitters : proc'[s] = proc[s]
  BY KindsAreDistinct DEF Locals
<1>3. QED
  BY <1>1, <1>2 DEF Locals, At

------------------------------------------------------------------------------
(* Type correctness *)

LEMMA InitTyped == Init => TypeOK
<1> SUFFICES ASSUME Init PROVE TypeOK
  OBVIOUS
<1>1. TaskStore
  BY NothingInEmpty
     DEF Init, TaskStore, TaskRow, TimeoutRow, BatchRow, NoTask, NoTimeout, NoBatch, Statuses
<1>2. TaskSets /\ Counts
  BY DEF Init, TaskSets, Counts
<1>3. Locals
  <2>1. NoRequest \in RequestRow /\ NoSweep \in SweepRow
    BY NothingInEmpty DEF NoRequest, NoSweep, RequestRow, SweepRow
  <2>2. QED
    BY <2>1, IdleIs DEF Init, Locals, At, Procs
<1>4. QED
  BY <1>1, <1>2, <1>3 DEF TypeOK

LEMMA SubmitTyped ==
  ASSUME TypeOK, NEW s \in Submitters, Submit(s)
  PROVE  TypeOK'
<1> s \in Procs
  BY KindsAreDistinct
<1>1. ASSUME NEW u \in Users, SubmitOne(s, u) PROVE TypeOK'
  <2>1. [user |-> u, batch |-> None, left |-> 1] \in RequestRow
    BY DEF RequestRow
  <2>2. request' \in [Submitters -> RequestRow]
    BY <1>1, <2>1 DEF SubmitOne, TypeOK, Locals
  <2>3. QED
    BY <1>1, <2>2, RequestChanges
       DEF SubmitOne, TypeOK, TaskStore, TaskSets, Counts, redis, slots, outcomes, history
<1>2. ASSUME NEW u \in Users, NEW b \in Batches, NEW size \in 1..BatchSize,
             SubmitBatch(s, u, b, size)
      PROVE  TypeOK'
  <2>1. size \in Nat
    BY NumbersAreNatural
  <2>2. request' \in [Submitters -> RequestRow]
    BY <1>2, <2>1 DEF SubmitBatch, TypeOK, Locals, RequestRow
  <2>3. [batches[b] EXCEPT !.submitted = size] \in BatchRow
    BY <2>1 DEF TypeOK, TaskStore, BatchRow
  <2>4. batches' \in [Batches -> BatchRow]
    BY <1>2, <2>3 DEF SubmitBatch, TypeOK, TaskStore
  <2>5. QED
    BY <1>2, <2>2, <2>4, RequestChanges
       DEF SubmitBatch, TypeOK, TaskStore, TaskSets, Counts, slots, outcomes, history
<1>3. CASE CheckUser(s) \/ CheckGlobal(s)
  <2>1. Locals'
    BY <1>3, SubmitterGoes DEF CheckUser, CheckGlobal, others, TypeOK, SubmitPcs
  <2>2. QED
    BY <1>3, <2>1 DEF CheckUser, CheckGlobal, others, history, redis, slots, outcomes,
                      TypeOK, TaskStore, TaskSets, Counts
<1>4. CASE RefuseTask(s)
  <2>1. NoRequest \in RequestRow
    BY DEF NoRequest, RequestRow
  <2>2. request' \in [Submitters -> RequestRow] /\ Return(s)
    BY <1>4, <2>1 DEF RefuseTask, Refuse, TypeOK, Locals
  <2>3. QED
    BY <1>4, <2>2, RequestReturns
       DEF RefuseTask, Refuse, TypeOK, TaskStore, TaskSets, Counts, redis, slots, outcomes, history
<1>5. CASE SaveTask(s)
  <2>1. PICK t \in Tasks :
          /\ task' = [task EXCEPT ![t] = [status |-> "queued", worker |-> None]]
          /\ proc' = [proc EXCEPT ![s] = [proc[s] EXCEPT !.pc = "push", !.task = t]]
    BY <1>5 DEF SaveTask, FreshTasks
  <2>2. task' \in [Tasks -> TaskRow]
    <3>1. [status |-> "queued", worker |-> None] \in TaskRow
      BY DEF TaskRow, Statuses
    <3>2. QED
      BY <2>1, <3>1 DEF TypeOK, TaskStore
  <2>3. Locals'
    <3> DEFINE l == [proc[s] EXCEPT !.pc = "push", !.task = t]
    <3>1. l \in Local /\ l.pc = "push" /\ l.task = t
      BY DEF TypeOK, Locals, Local, Pcs, SubmitPcs
    <3>2. Placed(s, l)
      BY <3>1, KindsAreDistinct DEF Placed, Submits, SubmitPcs
    <3>3. QED
      BY <1>5, <2>1, <3>1, <3>2, Becomes DEF TypeOK, SaveTask, others
  <2>4. QED
    BY <1>5, <2>2, <2>3 DEF SaveTask, others, history, slots, outcomes, TypeOK, TaskStore,
                            TaskSets, Counts
<1>6. CASE PushTask(s)
  <2>1. proc[s].task \in Tasks /\ Submits(proc[s])
    BY <1>6 DEF PushTask, At, TypeOK, Locals, Placed, Submits
  <2>2. ready' \in Seq(Tasks)
    BY <1>6, <2>1, PushAtHead DEF PushTask, TypeOK, TaskStore
  <2>3. Locals'
    <3>1. CASE request[s].batch = None
      <4>1. NoRequest \in RequestRow
        BY DEF NoRequest, RequestRow
      <4>2. request' \in [Submitters -> RequestRow] /\ Return(s)
        BY <1>6, <3>1, <4>1 DEF PushTask, TypeOK, Locals
      <4>3. QED
        BY <1>6, <4>2, RequestReturns DEF PushTask, TypeOK
    <3>2. CASE request[s].batch # None
      <4>1. request[s] \in RequestRow
        BY DEF TypeOK, Locals
      <4>2. request[s].batch \in Batches
        BY <3>2, <4>1 DEF RequestRow
      <4>3. QED
        BY <1>6, <2>1, <3>2, <4>2, SubmitterGoes DEF PushTask, TypeOK, SubmitPcs
    <3>3. QED
      BY <3>1, <3>2
  <2>4. QED
    BY <1>6, <2>2, <2>3 DEF PushTask, history, slots, outcomes, TypeOK, TaskStore, TaskSets, Counts
<1>7. CASE AddToBatch(s)
  <2> DEFINE b == request[s].batch
  <2>1. b \in Batches /\ proc[s].task \in Tasks /\ request[s] \in RequestRow
    BY <1>7 DEF AddToBatch, At, TypeOK, Locals, Placed, Submits
  <2>2. batches' \in [Batches -> BatchRow]
    <3>1. [batches[b] EXCEPT !.tasks = @ \cup {proc[s].task}] \in BatchRow
      BY <2>1 DEF TypeOK, TaskStore, BatchRow
    <3>2. batches' = [batches EXCEPT ![b] = [batches[b] EXCEPT !.tasks = @ \cup {proc[s].task}]]
      BY <1>7 DEF AddToBatch
    <3>3. QED
      BY <3>1, <3>2 DEF TypeOK, TaskStore
  <2>3. Locals' /\ answered' \in SUBSET Batches
    <3>1. CASE request[s].left > 1
      <4>1. [request[s] EXCEPT !.left = @ - 1] \in RequestRow
        BY <2>1, <3>1 DEF RequestRow
      <4>2. request' \in [Submitters -> RequestRow]
        BY <1>7, <3>1, <4>1 DEF AddToBatch, TypeOK, Locals
      <4>3. QED
        BY <1>7, <3>1, <4>2, RequestChanges DEF AddToBatch, TypeOK, Counts
    <3>2. CASE ~(request[s].left > 1)
      <4>1. NoRequest \in RequestRow
        BY DEF NoRequest, RequestRow
      <4>2. request' \in [Submitters -> RequestRow] /\ Return(s)
        BY <1>7, <3>2, <4>1 DEF AddToBatch, TypeOK, Locals
      <4>3. QED
        BY <1>7, <2>1, <3>2, <4>2, RequestReturns DEF AddToBatch, TypeOK, Counts
    <3>3. QED
      BY <3>1, <3>2
  <2>4. QED
    BY <1>7, <2>2, <2>3 DEF AddToBatch, slots, outcomes, TypeOK, TaskStore, TaskSets, Counts
<1>8. QED
  BY <1>1, <1>2, <1>3, <1>4, <1>5, <1>6, <1>7 DEF Submit

LEMMA DequeueTyped ==
  ASSUME TypeOK, NEW w \in Workers,
         \/ Pop(w) \/ CheckSlot(w) \/ PutBack(w) \/ MarkUser(w) \/ MarkGlobal(w)
         \/ SetTimeout(w) \/ SetExpire(w) \/ MarkTask(w)
  PROVE  TypeOK'
<1> DEFINE t == proc[w].task
<1> USE DEF WorkPcs, StartPcs, DequeuePcs, ReleasePcs
<1>1. w \in Procs /\ Works(proc[w]) /\ (~At(w, "idle") => t \in Tasks)
  BY KindsAreDistinct DEF TypeOK, Locals, Placed, Works, At
<1>2. CASE Pop(w)
  <2>1. Last(ready) \in Tasks /\ ready' \in Seq(Tasks)
    BY <1>2, PopAtTail DEF Pop, TypeOK, TaskStore
  <2>2. Locals'
    <3> DEFINE l == [Idle EXCEPT !.pc = "check", !.task = Last(ready)]
    <3>1. l \in Local /\ Placed(w, l)
      BY <2>1, KindsAreDistinct DEF Idle, Local, Pcs, Placed, Works
    <3>2. QED
      BY <1>1, <1>2, <3>1, Becomes, KindsAreDistinct DEF Pop, others, TypeOK
  <2>3. QED
    BY <1>2, <2>1, <2>2 DEF Pop, others, history, slots, outcomes, TypeOK, TaskStore, TaskSets, Counts
<1>3. CASE CheckSlot(w)
  <2>1. Locals'
    BY <1>3, WorkerGoes DEF CheckSlot, others, At, TypeOK
  <2>2. QED
    BY <1>3, <2>1 DEF CheckSlot, others, history, redis, slots, outcomes, TypeOK, TaskStore,
                      TaskSets, Counts
<1>4. CASE PutBack(w)
  <2>1. ready' \in Seq(Tasks)
    BY <1>1, <1>4, PushAtHead DEF PutBack, At, TypeOK, TaskStore
  <2>2. Locals'
    BY <1>1, <1>4, Returns DEF PutBack, others, TypeOK
  <2>3. QED
    BY <1>4, <2>1, <2>2 DEF PutBack, others, history, slots, outcomes, TypeOK, TaskStore,
                            TaskSets, Counts
<1>5. CASE MarkUser(w)
  <2>1. UserOf[t] \in Users /\ t \in Tasks
    BY <1>1, <1>5, TasksHaveUsers DEF MarkUser, At
  <2>2. userProcessing' \in [Users -> SUBSET Tasks]
    BY <1>5, <2>1 DEF MarkUser, TypeOK, TaskSets
  <2>3. Locals'
    BY <1>5, WorkerGoes DEF MarkUser, others, At, TypeOK
  <2>4. QED
    BY <1>5, <2>2, <2>3 DEF MarkUser, others, history, outcomes, TypeOK, TaskStore, TaskSets, Counts
<1>6. CASE MarkGlobal(w)
  <2>1. processing' \in SUBSET Tasks
    BY <1>1, <1>6 DEF MarkGlobal, At, TypeOK, TaskSets
  <2>2. Locals'
    BY <1>6, WorkerGoes DEF MarkGlobal, others, At, TypeOK
  <2>3. QED
    BY <1>6, <2>1, <2>2 DEF MarkGlobal, others, history, outcomes, TypeOK, TaskStore, TaskSets, Counts
<1>7. CASE SetTimeout(w)
  <2>1. clock + Visibility \in Nat
    BY NumbersAreNatural DEF TypeOK, Counts
  <2>2. [visibility[t] EXCEPT !.at = clock + Visibility] \in TimeoutRow
    BY <1>1, <1>7, <2>1 DEF SetTimeout, At, TypeOK, TaskStore, TimeoutRow
  <2>3. visibility' \in [Tasks -> TimeoutRow]
    BY <1>1, <1>7, <2>2 DEF SetTimeout, At, TypeOK, TaskStore
  <2>4. Locals'
    BY <1>7, WorkerGoes DEF SetTimeout, others, At, TypeOK
  <2>5. QED
    BY <1>7, <2>3, <2>4 DEF SetTimeout, others, history, slots, outcomes, TypeOK, TaskStore,
                            TaskSets, Counts
<1>8. CASE SetExpire(w)
  <2>1. clock + Visibility \in Nat
    BY NumbersAreNatural DEF TypeOK, Counts
  <2>2. [visibility[t] EXCEPT !.expires = clock + Visibility] \in TimeoutRow
    BY <1>1, <1>8, <2>1 DEF SetExpire, At, TypeOK, TaskStore, TimeoutRow
  <2>3. visibility' \in [Tasks -> TimeoutRow]
    BY <1>1, <1>8, <2>2 DEF SetExpire, At, TypeOK, TaskStore
  <2>4. Locals'
    BY <1>8, WorkerGoes DEF SetExpire, others, At, TypeOK
  <2>5. QED
    BY <1>8, <2>3, <2>4 DEF SetExpire, others, history, slots, outcomes, TypeOK, TaskStore,
                            TaskSets, Counts
<1>9. CASE MarkTask(w)
  <2>1. [status |-> "processing", worker |-> w] \in TaskRow /\ runs[t] + 1 \in Nat
    BY <1>1, <1>9 DEF MarkTask, At, TaskRow, Statuses, TypeOK, Counts
  <2>2. task' \in [Tasks -> TaskRow] /\ runs' \in [Tasks -> Nat]
    BY <1>1, <1>9, <2>1 DEF MarkTask, At, TypeOK, TaskStore, Counts
  <2>3. Locals'
    BY <1>9, WorkerGoes DEF MarkTask, At, TypeOK
  <2>4. QED
    BY <1>9, <2>2, <2>3 DEF MarkTask, slots, outcomes, TypeOK, TaskStore, TaskSets, Counts
<1>10. QED
  BY <1>2, <1>3, <1>4, <1>5, <1>6, <1>7, <1>8, <1>9

LEMMA ReleaseTyped ==
  ASSUME TypeOK, NEW p \in Procs, Release(p)
  PROVE  TypeOK'
<1> DEFINE t == proc[p].task
<1>1. proc[p].pc \in ReleasePcs
  BY DEF Release, UnmarkUser, UnmarkGlobal, ClearTimeout, At, ReleasePcs
<1>2. t \in Tasks
  BY <1>1 DEF TypeOK, Locals, Placed, Works, Cleans, Cancels, Submits, ReleasePcs, SubmitPcs,
              RequeuePcs, Procs
<1>3. Locals'
  BY <1>1, ReleaseGoes
     DEF Release, UnmarkUser, UnmarkGlobal, ClearTimeout, others, TypeOK, ReleasePcs
<1>4. CASE UnmarkUser(p)
  <2>1. UserOf[t] \in Users
    BY <1>2, TasksHaveUsers
  <2>2. userProcessing' \in [Users -> SUBSET Tasks]
    BY <1>4, <2>1 DEF UnmarkUser, TypeOK, TaskSets
  <2>3. QED
    BY <1>3, <1>4, <2>2
       DEF UnmarkUser, others, history, outcomes, TypeOK, TaskStore, TaskSets, Counts
<1>5. CASE UnmarkGlobal(p)
  BY <1>3, <1>5 DEF UnmarkGlobal, others, history, outcomes, TypeOK, TaskStore, TaskSets, Counts
<1>6. CASE ClearTimeout(p)
  <2>1. visibility' \in [Tasks -> TimeoutRow]
    BY <1>2, <1>6 DEF ClearTimeout, TypeOK, TaskStore, TimeoutRow, NoTimeout
  <2>2. QED
    BY <1>3, <1>6, <2>1
       DEF ClearTimeout, others, history, slots, outcomes, TypeOK, TaskStore, TaskSets, Counts
<1>7. QED
  BY <1>4, <1>5, <1>6 DEF Release

LEMMA FinishTyped ==
  ASSUME TypeOK, NEW w \in Workers,
         \/ \E ok \in BOOLEAN : FinishAnalysis(w, ok)
         \/ AckStatus(w) \/ RecordOutcome(w)
  PROVE  TypeOK'
<1> DEFINE t == proc[w].task
<1>1. w \in Procs /\ (~At(w, "idle") => t \in Tasks)
  BY KindsAreDistinct DEF TypeOK, Locals, Placed, Works, At
<1>2. ASSUME NEW ok \in BOOLEAN, FinishAnalysis(w, ok) PROVE TypeOK'
  <2>1. Locals'
    BY <1>1, <1>2, BeginsRelease DEF FinishAnalysis, others, At, TypeOK
  <2>2. QED
    BY <1>2, <2>1 DEF FinishAnalysis, others, history, redis, slots, outcomes, TypeOK, TaskStore,
                      TaskSets, Counts
<1>3. CASE AckStatus(w)
  <2>1. [task[t] EXCEPT !.status = IF proc[w].ok THEN "completed" ELSE "failed"] \in TaskRow
    BY <1>1, <1>3 DEF AckStatus, At, TypeOK, TaskStore, TaskRow, Statuses
  <2>2. task' \in [Tasks -> TaskRow]
    BY <1>1, <1>3, <2>1 DEF AckStatus, At, TypeOK, TaskStore
  <2>3. Locals'
    BY <1>3, WorkerGoes DEF AckStatus, others, At, TypeOK, WorkPcs, ReleasePcs
  <2>4. QED
    BY <1>3, <2>2, <2>3
       DEF AckStatus, others, history, slots, outcomes, TypeOK, TaskStore, TaskSets, Counts
<1>4. CASE RecordOutcome(w)
  <2>1. completed' \in SUBSET Tasks /\ failed' \in SUBSET Tasks
    BY <1>1, <1>4 DEF RecordOutcome, At, TypeOK, TaskSets
  <2>2. Locals'
    BY <1>1, <1>4, Returns DEF RecordOutcome, others, TypeOK
  <2>3. QED
    BY <1>4, <2>1, <2>2
       DEF RecordOutcome, others, history, slots, TypeOK, TaskStore, TaskSets, Counts
<1>5. QED
  BY <1>2, <1>3, <1>4

LEMMA CleanupTyped ==
  ASSUME TypeOK, NEW c \in Cleaners,
         \/ ListTimeouts(c) \/ ReadTimeout(c) \/ HandleExpired(c) \/ EndSweep(c)
         \/ PushExpired(c) \/ MarkQueued(c)
  PROVE  TypeOK'
<1> DEFINE t == proc[c].task
<1>1. /\ c \in Procs /\ c \notin Submitters \cup Workers \cup Cancellers
      /\ Cleans(proc[c]) /\ proc[c] \in Local /\ sweep[c] \in SweepRow
  BY KindsAreDistinct DEF TypeOK, Locals, Placed
<1>2. CASE ListTimeouts(c)
  <2> DEFINE row == [now |-> clock, keys |-> {k \in Tasks : visibility[k] # NoTimeout},
                     expired |-> <<>>]
  <2>1. row \in SweepRow
    BY NothingInEmpty DEF SweepRow, TypeOK, Counts
  <2>2. sweep' \in [Cleaners -> SweepRow]
    BY <1>2, <2>1 DEF ListTimeouts, TypeOK, Locals
  <2>3. Placed(c, [proc[c] EXCEPT !.pc = "sweep"]) /\ "sweep" \in Pcs
    BY <1>1 DEF Placed, Cleans, Local, Pcs, RequeuePcs, ReleasePcs
  <2>4. QED
    BY <1>1, <1>2, <2>2, <2>3, SweepGoes
       DEF ListTimeouts, GoTo, redis, slots, outcomes, history, TypeOK, TaskStore, TaskSets, Counts,
           Locals, Local
<1>3. CASE ReadTimeout(c)
  <2>1. PICK k \in sweep[c].keys :
          sweep' = [sweep EXCEPT ![c].keys = @ \ {k},
                                 ![c].expired = IF TimedOut(c, k) THEN Append(@, k) ELSE @]
    BY <1>3 DEF ReadTimeout
  <2> DEFINE row == [sweep[c] EXCEPT !.keys = @ \ {k},
                                     !.expired = IF TimedOut(c, k) THEN Append(@, k) ELSE @]
  <2>2. k \in Tasks /\ sweep[c].expired \in Seq(Tasks)
    BY <1>1 DEF SweepRow
  <2>3. Append(sweep[c].expired, k) \in Seq(Tasks)
    BY <2>2, AppendAtEnd
  <2>4. row \in SweepRow
    BY <1>1, <2>2, <2>3 DEF SweepRow
  <2>5. sweep' = [sweep EXCEPT ![c] = row]
    BY <2>1
  <2>6. sweep' \in [Cleaners -> SweepRow]
    BY <2>4, <2>5 DEF TypeOK, Locals
  <2>7. QED
    BY <1>3, <2>6
       DEF ReadTimeout, redis, slots, outcomes, history, TypeOK, TaskStore, TaskSets, Counts, Locals, At
<1>4. CASE HandleExpired(c)
  <2>1. sweep[c].expired \in Seq(Tasks) /\ sweep[c].expired # <<>>
    BY <1>1, <1>4 DEF HandleExpired, SweepRow
  <2>2. Head(sweep[c].expired) \in Tasks /\ Tail(sweep[c].expired) \in Seq(Tasks)
    BY <2>1, TakeHead
  <2>3. [sweep[c] EXCEPT !.expired = Tail(@)] \in SweepRow
    BY <1>1, <2>2 DEF SweepRow
  <2>4. sweep' \in [Cleaners -> SweepRow]
    BY <1>4, <2>3 DEF HandleExpired, TypeOK, Locals
  <2> DEFINE l == [pc |-> "unmarkUser", op |-> "requeue", task |-> Head(sweep[c].expired),
                   ok |-> FALSE]
  <2>5. l \in Local /\ Placed(c, l)
    BY <1>1, <2>2 DEF Local, Pcs, Placed, Cleans, RequeuePcs, ReleasePcs
  <2>6. QED
    BY <1>1, <1>4, <2>4, <2>5, SweepGoes
       DEF HandleExpired, Unmark, redis, slots, outcomes, history, TypeOK, TaskStore, TaskSets,
           Counts
<1>5. CASE EndSweep(c)
  <2>1. NoSweep \in SweepRow
    BY NothingInEmpty DEF NoSweep, SweepRow
  <2>2. sweep' \in [Cleaners -> SweepRow]
    BY <1>5, <2>1 DEF EndSweep, TypeOK, Locals
  <2>3. QED
    BY <1>1, <1>5, <2>2, IdleIs, SweepGoes
       DEF EndSweep, Return, redis, slots, outcomes, history, TypeOK, TaskStore, TaskSets, Counts
<1>6. CASE PushExpired(c)
  <2>1. t \in Tasks
    BY <1>1, <1>6 DEF PushExpired, At, Cleans, RequeuePcs
  <2>2. ready' \in Seq(Tasks)
    BY <1>6, <2>1, PushAtHead DEF PushExpired, TypeOK, TaskStore
  <2>3. Placed(c, [proc[c] EXCEPT !.pc = "markQueued"]) /\ "markQueued" \in Pcs
    BY <1>1, <2>1 DEF Placed, Cleans, Local, Pcs, RequeuePcs, ReleasePcs
  <2>4. Locals'
    BY <1>1, <1>6, <2>3, GoesTo DEF PushExpired, others, TypeOK
  <2>5. QED
    BY <1>6, <2>2, <2>4
       DEF PushExpired, others, history, slots, outcomes, TypeOK, TaskStore, TaskSets, Counts
<1>7. CASE MarkQueued(c)
  <2>1. t \in Tasks
    BY <1>1, <1>7 DEF MarkQueued, At, Cleans, RequeuePcs
  <2>2. [status |-> "queued", worker |-> None] \in TaskRow
    BY DEF TaskRow, Statuses
  <2>3. task' \in [Tasks -> TaskRow]
    BY <1>7, <2>1, <2>2 DEF MarkQueued, TypeOK, TaskStore
  <2> DEFINE l == [Idle EXCEPT !.pc = "sweep"]
  <2>4. l \in Local /\ Placed(c, l)
    BY <1>1 DEF Idle, Local, Pcs, Placed, Cleans, RequeuePcs, ReleasePcs
  <2>5. Locals'
    BY <1>1, <1>7, <2>4, Becomes DEF MarkQueued, others, TypeOK
  <2>6. QED
    BY <1>7, <2>3, <2>5
       DEF MarkQueued, others, history, slots, outcomes, TypeOK, TaskStore, TaskSets, Counts
<1>8. QED
  BY <1>2, <1>3, <1>4, <1>5, <1>6, <1>7

LEMMA CancelTyped ==
  ASSUME TypeOK, NEW x \in Cancellers,
         \/ \E t \in Tasks : ReadStatus(x, t)
         \/ RemoveReady(x) \/ CancelStatus(x)
  PROVE  TypeOK'
<1>1. /\ x \in Procs /\ x \notin Submitters \cup Workers \cup Cleaners
      /\ Cancels(proc[x]) /\ proc[x] \in Local
  BY KindsAreDistinct DEF TypeOK, Locals, Placed
<1>2. ASSUME NEW t \in Tasks, ReadStatus(x, t) PROVE TypeOK'
  <2> DEFINE l(pc) == [Idle EXCEPT !.pc = pc, !.task = t]
  <2>1. \/ Unmark(x, "cancel", t, FALSE)
        \/ proc' = [proc EXCEPT ![x] = l("remove")]
        \/ proc' = [proc EXCEPT ![x] = l("cancel")]
    BY <1>2 DEF ReadStatus
  <2>2. \A pc \in {"remove", "cancel"} : l(pc) \in Local /\ Placed(x, l(pc))
    BY <1>1 DEF Idle, Local, Pcs, Placed, Cancels, CancelPcs, ReleasePcs
  <2>3. UNCHANGED <<request, sweep>>
    BY <1>2 DEF ReadStatus, others
  <2>4. Locals'
    <3>1. CASE Unmark(x, "cancel", t, FALSE)
      BY <1>1, <2>3, <3>1, BeginsRelease DEF TypeOK
    <3>2. ASSUME NEW pc \in {"remove", "cancel"}, proc' = [proc EXCEPT ![x] = l(pc)]
          PROVE  Locals'
      BY <1>1, <2>2, <2>3, <3>2, Becomes DEF TypeOK
    <3>3. QED
      BY <2>1, <3>1, <3>2
  <2>5. QED
    BY <1>2, <2>4 DEF ReadStatus, others, history, redis, slots, outcomes, TypeOK, TaskStore,
                      TaskSets, Counts
<1>3. CASE RemoveReady(x)
  <2>1. ready' \in Seq(Tasks)
    BY <1>3, WithoutOne DEF RemoveReady, TypeOK, TaskStore
  <2>2. Placed(x, [proc[x] EXCEPT !.pc = "cancel"]) /\ "cancel" \in Pcs
    BY <1>1, <1>3 DEF RemoveReady, At, Placed, Cancels, Local, Pcs, CancelPcs, ReleasePcs
  <2>3. Locals'
    BY <1>1, <1>3, <2>2, GoesTo DEF RemoveReady, others, TypeOK
  <2>4. QED
    BY <1>3, <2>1, <2>3
       DEF RemoveReady, others, history, slots, outcomes, TypeOK, TaskStore, TaskSets, Counts
<1>4. CASE CancelStatus(x)
  <2>1. [task[proc[x].task] EXCEPT !.status = "cancelled"] \in TaskRow
    BY <1>1, <1>4 DEF CancelStatus, At, Cancels, TypeOK, TaskStore, TaskRow, Statuses
  <2>2. task' \in [Tasks -> TaskRow]
    BY <1>1, <1>4, <2>1 DEF CancelStatus, At, Cancels, TypeOK, TaskStore
  <2>3. Locals'
    BY <1>1, <1>4, Returns DEF CancelStatus, others, TypeOK
  <2>4. QED
    BY <1>4, <2>2, <2>3
       DEF CancelStatus, others, history, slots, outcomes, TypeOK, TaskStore, TaskSets, Counts
<1>5. QED
  BY <1>2, <1>3, <1>4

LEMMA EnvironmentTyped ==
  ASSUME TypeOK, Tick \/ (\E t \in Tasks : DropKey(t)) \/ \E w \in Workers : Crash(w)
  PROVE  TypeOK'
<1>1. CASE Tick
  BY <1>1 DEF Tick, redis, locals, history, slots, outcomes, TypeOK, TaskStore, TaskSets, Counts, Locals,
              At
<1>2. ASSUME NEW t \in Tasks, DropKey(t) PROVE TypeOK'
  <2>1. visibility' \in [Tasks -> TimeoutRow]
    BY <1>2 DEF DropKey, TypeOK, TaskStore, TimeoutRow, NoTimeout
  <2>2. QED
    BY <1>2, <2>1
       DEF DropKey, locals, history, slots, outcomes, TypeOK, TaskStore, TaskSets, Counts, Locals, At
<1>3. ASSUME NEW w \in Workers, Crash(w) PROVE TypeOK'
  <2>1. sweep' \in [Cleaners -> SweepRow]
    <3>1. NoSweep \in SweepRow
      BY NothingInEmpty DEF NoSweep, SweepRow
    <3>2. QED
      BY <1>3, <3>1 DEF Crash, TypeOK, Locals
  <2>2. \A s \in Submitters : proc'[s] = proc[s]
    BY <1>3, KindsAreDistinct DEF Crash, TypeOK, Locals
  <2>3. proc' \in [Procs -> Local] /\ \A p \in Procs : Placed(p, proc'[p])
    BY <1>3, IdleIs DEF Crash, TypeOK, Locals
  <2>4. Locals'
    BY <1>3, <2>1, <2>2, <2>3 DEF Crash, TypeOK, Locals, At
  <2>5. QED
    BY <1>3, <2>4 DEF Crash, redis, slots, outcomes, history, TypeOK, TaskStore, TaskSets, Counts
<1>4. QED
  BY <1>1, <1>2, <1>3

LEMMA StutterTyped ==
  ASSUME TypeOK, UNCHANGED vars
  PROVE  TypeOK'
  BY DEF vars, redis, locals, history, slots, outcomes, TypeOK, TaskStore, TaskSets, Counts, Locals,
         At

LEMMA NextTyped ==
  ASSUME TypeOK, [Next]_vars
  PROVE  TypeOK'
<1>1. ASSUME NEW s \in Submitters, Submit(s) PROVE TypeOK'
  BY <1>1, SubmitTyped
<1>2. ASSUME NEW w \in Workers, WorkLoop(w) PROVE TypeOK'
  BY <1>2, DequeueTyped, ReleaseTyped, FinishTyped, KindsAreDistinct DEF WorkLoop
<1>3. ASSUME NEW c \in Cleaners, CleanupLoop(c) PROVE TypeOK'
  BY <1>3, CleanupTyped, ReleaseTyped, KindsAreDistinct DEF CleanupLoop
<1>4. ASSUME NEW x \in Cancellers, Cancel(x) PROVE TypeOK'
  BY <1>4, CancelTyped, ReleaseTyped, KindsAreDistinct DEF Cancel, CancelStep
<1>5. QED
  BY <1>1, <1>2, <1>3, <1>4, EnvironmentTyped, StutterTyped DEF Next

\* Every variable has its type, and every process has at each stage what the stage
\* uses: a task where it moves one, the operation it returns to (queue_service.py).
THEOREM TypeCorrect == Spec => []TypeOK
<1>1. Init => TypeOK
  BY InitTyped
<1>2. TypeOK /\ [Next]_vars => TypeOK'
  BY NextTyped
<1>3. QED
  BY <1>1, <1>2, PTL DEF Spec

------------------------------------------------------------------------------
(* Where a step takes its process *)

\* From one stage to another, with the task and the outcome it has.
Step(p, from, to) ==
  /\ proc[p].pc = from /\ proc'[p].pc = to
  /\ proc'[p].task = proc[p].task /\ proc'[p].ok = proc[p].ok

LEMMA GoToStage ==
  ASSUME TypeOK, NEW p \in Procs, NEW from, NEW to, At(p, from), GoTo(p, to)
  PROVE  Step(p, from, to)
<1>1. proc \in [Procs -> Local] /\ proc[p] \in Local
  BY DEF TypeOK, Locals
<1>2. QED
  BY <1>1 DEF At, GoTo, Step, Local

LEMMA WorkerStages ==
  ASSUME TypeOK, NEW w \in Workers
  PROVE  /\ Pop(w) => /\ proc[w].pc = "idle" /\ proc'[w].pc = "check"
                      /\ proc'[w].task = Last(ready)
         /\ CheckSlot(w) => Step(w, "check", "markUser") \/ Step(w, "check", "putBack")
         /\ PutBack(w) => proc[w].pc = "putBack" /\ proc'[w].pc = "idle"
         /\ MarkUser(w) => Step(w, "markUser", "markGlobal")
         /\ MarkGlobal(w) => Step(w, "markGlobal", "setTimeout")
         /\ SetTimeout(w) => Step(w, "setTimeout", "expire")
         /\ SetExpire(w) => Step(w, "expire", "markTask")
         /\ MarkTask(w) => Step(w, "markTask", "analyse")
         /\ \A ok \in BOOLEAN : FinishAnalysis(w, ok) =>
              /\ proc[w].pc = "analyse" /\ proc'[w].pc = "unmarkUser"
              /\ proc'[w].task = proc[w].task
         /\ UnmarkUser(w) => Step(w, "unmarkUser", "unmarkGlobal")
         /\ UnmarkGlobal(w) => Step(w, "unmarkGlobal", "clear")
         /\ ClearTimeout(w) => Step(w, "clear", "ack")
         /\ AckStatus(w) => Step(w, "ack", "record")
         /\ RecordOutcome(w) => proc[w].pc = "record" /\ proc'[w].pc = "idle"
<1>1. w \in Procs /\ proc \in [Procs -> Local] /\ proc[w] \in Local /\ Works(proc[w])
  BY KindsAreDistinct DEF TypeOK, Locals, Placed
<1>2. Pop(w) => /\ proc[w].pc = "idle" /\ proc'[w].pc = "check"
                /\ proc'[w].task = Last(ready)
  BY <1>1 DEF Pop, At, Idle
<1>3. CheckSlot(w) => Step(w, "check", "markUser") \/ Step(w, "check", "putBack")
  <2>1. ASSUME CheckSlot(w), UserHasSlot(UserOf[proc[w].task])
        PROVE  Step(w, "check", "markUser")
    BY <1>1, <2>1, GoToStage DEF CheckSlot
  <2>2. ASSUME CheckSlot(w), ~UserHasSlot(UserOf[proc[w].task])
        PROVE  Step(w, "check", "putBack")
    BY <1>1, <2>2, GoToStage DEF CheckSlot
  <2>3. QED
    BY <2>1, <2>2
<1>4. /\ PutBack(w) => proc[w].pc = "putBack" /\ proc'[w].pc = "idle"
      /\ RecordOutcome(w) => proc[w].pc = "record" /\ proc'[w].pc = "idle"
  BY <1>1 DEF PutBack, RecordOutcome, At, Return, Idle
<1>5. /\ MarkUser(w) => Step(w, "markUser", "markGlobal")
      /\ MarkGlobal(w) => Step(w, "markGlobal", "setTimeout")
      /\ SetTimeout(w) => Step(w, "setTimeout", "expire")
      /\ SetExpire(w) => Step(w, "expire", "markTask")
      /\ MarkTask(w) => Step(w, "markTask", "analyse")
      /\ AckStatus(w) => Step(w, "ack", "record")
      /\ UnmarkUser(w) => Step(w, "unmarkUser", "unmarkGlobal")
      /\ UnmarkGlobal(w) => Step(w, "unmarkGlobal", "clear")
  BY <1>1, GoToStage
     DEF MarkUser, MarkGlobal, SetTimeout, SetExpire, MarkTask, AckStatus, UnmarkUser, UnmarkGlobal
<1>6. \A ok \in BOOLEAN : FinishAnalysis(w, ok) =>
              /\ proc[w].pc = "analyse" /\ proc'[w].pc = "unmarkUser"
              /\ proc'[w].task = proc[w].task
  BY <1>1 DEF FinishAnalysis, At, Unmark
<1>7. ClearTimeout(w) => Step(w, "clear", "ack")
  <2>1. At(w, "clear") => proc[w].op = "ack"
    BY <1>1 DEF At, Works, ReleasePcs
  <2>2. QED
    BY <1>1, <2>1, GoToStage DEF ClearTimeout
<1>8. QED
  BY <1>2, <1>3, <1>4, <1>5, <1>6, <1>7

LEMMA CleanerStages ==
  ASSUME TypeOK, NEW c \in Cleaners
  PROVE  /\ ListTimeouts(c) => proc[c].pc = "idle" /\ proc'[c].pc = "sweep"
         /\ ReadTimeout(c) => proc[c].pc = "sweep" /\ proc' = proc
         /\ HandleExpired(c) => /\ proc[c].pc = "sweep" /\ proc'[c].pc = "unmarkUser"
                                /\ proc'[c].task = Head(sweep[c].expired)
         /\ EndSweep(c) => proc[c].pc = "sweep" /\ proc'[c].pc = "idle"
         /\ UnmarkUser(c) => Step(c, "unmarkUser", "unmarkGlobal")
         /\ UnmarkGlobal(c) => Step(c, "unmarkGlobal", "clear")
         /\ ClearTimeout(c) => Step(c, "clear", "requeue")
         /\ PushExpired(c) => Step(c, "requeue", "markQueued")
         /\ MarkQueued(c) => proc[c].pc = "markQueued" /\ proc'[c].pc = "sweep"
<1>1. c \in Procs /\ proc \in [Procs -> Local] /\ proc[c] \in Local /\ Cleans(proc[c])
  BY KindsAreDistinct DEF TypeOK, Locals, Placed
<1>2. /\ ListTimeouts(c) => proc[c].pc = "idle" /\ proc'[c].pc = "sweep"
      /\ UnmarkUser(c) => Step(c, "unmarkUser", "unmarkGlobal")
      /\ UnmarkGlobal(c) => Step(c, "unmarkGlobal", "clear")
      /\ PushExpired(c) => Step(c, "requeue", "markQueued")
  BY <1>1, GoToStage DEF ListTimeouts, UnmarkUser, UnmarkGlobal, PushExpired, Step
<1>3. HandleExpired(c) => /\ proc[c].pc = "sweep" /\ proc'[c].pc = "unmarkUser"
                          /\ proc'[c].task = Head(sweep[c].expired)
  BY <1>1 DEF HandleExpired, At, Unmark
<1>4. /\ EndSweep(c) => proc[c].pc = "sweep" /\ proc'[c].pc = "idle"
      /\ MarkQueued(c) => proc[c].pc = "markQueued" /\ proc'[c].pc = "sweep"
      /\ ReadTimeout(c) => proc[c].pc = "sweep" /\ proc' = proc
  BY <1>1 DEF EndSweep, MarkQueued, ReadTimeout, At, Return, Idle
<1>5. ClearTimeout(c) => Step(c, "clear", "requeue")
  <2>1. At(c, "clear") => proc[c].op = "requeue"
    BY <1>1 DEF At, Cleans, ReleasePcs
  <2>2. QED
    BY <1>1, <2>1, GoToStage DEF ClearTimeout
<1>6. QED
  BY <1>2, <1>3, <1>4, <1>5

LEMMA SubmitterStages ==
  ASSUME TypeOK, NEW s \in Submitters
  PROVE  /\ \A u \in Users : SubmitOne(s, u) => proc'[s].pc = "checkUser"
         /\ \A u \in Users, b \in Batches, size \in 1..BatchSize :
              SubmitBatch(s, u, b, size) => proc'[s].pc = "checkUser"
         /\ CheckUser(s) => proc'[s].pc = "checkGlobal"
         /\ CheckGlobal(s) => proc'[s].pc = "save"
         /\ RefuseTask(s) => proc'[s].pc = "idle"
         /\ SaveTask(s) => /\ proc[s].pc = "save" /\ proc'[s].pc = "push"
                           /\ proc'[s].task \in Tasks /\ ~Exists(proc'[s].task)
                           /\ task' = [task EXCEPT ![proc'[s].task] =
                                         [status |-> "queued", worker |-> None]]
         /\ PushTask(s) => proc[s].pc = "push" /\ proc'[s].pc \in {"addToBatch", "idle"}
         /\ AddToBatch(s) => proc'[s].pc \in {"checkUser", "idle"}
<1>1. s \in Procs /\ proc \in [Procs -> Local] /\ proc[s] \in Local
  BY KindsAreDistinct DEF TypeOK, Locals
<1>2. /\ \A u \in Users : SubmitOne(s, u) => proc'[s].pc = "checkUser"
      /\ \A u \in Users, b \in Batches, size \in 1..BatchSize :
           SubmitBatch(s, u, b, size) => proc'[s].pc = "checkUser"
      /\ CheckUser(s) => proc'[s].pc = "checkGlobal"
      /\ CheckGlobal(s) => proc'[s].pc = "save"
  BY <1>1 DEF SubmitOne, SubmitBatch, CheckUser, CheckGlobal, GoTo, Local
<1>3. RefuseTask(s) => proc'[s].pc = "idle"
  BY <1>1 DEF RefuseTask, Refuse, Return, Idle
<1>4. SaveTask(s) => /\ proc[s].pc = "save" /\ proc'[s].pc = "push"
                     /\ proc'[s].task \in Tasks /\ ~Exists(proc'[s].task)
                     /\ task' = [task EXCEPT ![proc'[s].task] =
                                   [status |-> "queued", worker |-> None]]
  <2> SUFFICES ASSUME SaveTask(s)
               PROVE  /\ proc[s].pc = "save" /\ proc'[s].pc = "push"
                      /\ proc'[s].task \in Tasks /\ ~Exists(proc'[s].task)
                      /\ task' = [task EXCEPT ![proc'[s].task] =
                                    [status |-> "queued", worker |-> None]]
    OBVIOUS
  <2>1. PICK t \in Tasks :
          /\ ~Exists(t)
          /\ task' = [task EXCEPT ![t] = [status |-> "queued", worker |-> None]]
          /\ proc' = [proc EXCEPT ![s] = [proc[s] EXCEPT !.pc = "push", !.task = t]]
    BY DEF SaveTask, FreshTasks, Exists
  <2>2. proc'[s].pc = "push" /\ proc'[s].task = t
    BY <1>1, <2>1 DEF Local
  <2>3. QED
    BY <2>1, <2>2 DEF SaveTask, At
<1>5. PushTask(s) => proc[s].pc = "push" /\ proc'[s].pc \in {"addToBatch", "idle"}
  BY <1>1 DEF PushTask, At, Return, GoTo, Idle, Local
<1>6. AddToBatch(s) => proc'[s].pc \in {"checkUser", "idle"}
  BY <1>1 DEF AddToBatch, Return, GoTo, Idle, Local
<1>7. QED
  BY <1>2, <1>3, <1>4, <1>5, <1>6

LEMMA SubmitterMoves ==
  ASSUME TypeOK, NEW s \in Submitters, Submit(s)
  PROVE  /\ \A q \in Procs : q # s => proc'[q] = proc[q]
         /\ UNCHANGED <<processing, userProcessing, completed, failed, visibility, sweep, runs>>
         /\ \A t \in Tasks : Exists(t) => Exists(t)'
<1>1. proc \in [Procs -> Local] /\ s \in Procs
  BY KindsAreDistinct DEF TypeOK, Locals
<1>2. \A q \in Procs : q # s => proc'[q] = proc[q]
  BY <1>1 DEF Submit, SubmitOne, SubmitBatch, CheckUser, CheckGlobal, RefuseTask, Refuse,
              SaveTask, PushTask, AddToBatch, GoTo, Return
<1>3. UNCHANGED <<processing, userProcessing, completed, failed, visibility, sweep, runs>>
  BY DEF Submit, SubmitOne, SubmitBatch, CheckUser, CheckGlobal, RefuseTask, Refuse,
         SaveTask, PushTask, AddToBatch, redis, slots, outcomes, others, history
<1>4. UNCHANGED task \/ SaveTask(s)
  BY DEF Submit, SubmitOne, SubmitBatch, CheckUser, CheckGlobal, RefuseTask, Refuse,
         SaveTask, PushTask, AddToBatch, redis
<1>5. QED
  BY <1>2, <1>3, <1>4, SubmitterStages DEF Exists, TypeOK, TaskStore

\* A process of the others leaves the locals of everybody else alone.
LEMMA WorkerMoves ==
  ASSUME TypeOK, NEW w \in Workers, WorkLoop(w)
  PROVE  /\ \A q \in Procs : q # w => proc'[q] = proc[q]
         /\ UNCHANGED <<batches, answered, request, sweep, crashes>>
         /\ \A t \in Tasks : Exists(t) => Exists(t)'
<1>1. proc \in [Procs -> Local] /\ w \in Procs
  BY KindsAreDistinct DEF TypeOK, Locals
<1>2. \A q \in Procs : q # w => proc'[q] = proc[q]
  BY <1>1 DEF WorkLoop, Pop, CheckSlot, PutBack, MarkUser, MarkGlobal, SetTimeout, SetExpire,
              MarkTask, FinishAnalysis, Release, UnmarkUser, UnmarkGlobal, ClearTimeout,
              AckStatus, RecordOutcome, GoTo, Return, Unmark
<1>3. UNCHANGED <<batches, answered, request, sweep, crashes>>
  BY DEF WorkLoop, Pop, CheckSlot, PutBack, MarkUser, MarkGlobal, SetTimeout, SetExpire,
         MarkTask, FinishAnalysis, Release, UnmarkUser, UnmarkGlobal, ClearTimeout,
         AckStatus, RecordOutcome, redis, others, history
<1>4. \/ UNCHANGED task
      \/ task' = [task EXCEPT ![proc[w].task] = [status |-> "processing", worker |-> w]]
      \/ task' = [task EXCEPT ![proc[w].task].status =
                    IF proc[w].ok THEN "completed" ELSE "failed"]
  BY DEF WorkLoop, Pop, CheckSlot, PutBack, MarkUser, MarkGlobal, SetTimeout, SetExpire,
         MarkTask, FinishAnalysis, Release, UnmarkUser, UnmarkGlobal, ClearTimeout,
         AckStatus, RecordOutcome, redis
<1>5. QED
  BY <1>2, <1>3, <1>4 DEF Exists, TypeOK, TaskStore, TaskRow

LEMMA CleanerMoves ==
  ASSUME TypeOK, NEW c \in Cleaners, CleanupLoop(c)
  PROVE  /\ \A q \in Procs : q # c => proc'[q] = proc[q]
         /\ UNCHANGED <<batches, answered, request, crashes>>
         /\ \A t \in Tasks : Exists(t) => Exists(t)'
<1>1. proc \in [Procs -> Local] /\ c \in Procs
  BY KindsAreDistinct DEF TypeOK, Locals
<1>2. \A q \in Procs : q # c => proc'[q] = proc[q]
  BY <1>1 DEF CleanupLoop, ListTimeouts, ReadTimeout, HandleExpired, EndSweep, PushExpired,
              MarkQueued, Release, UnmarkUser, UnmarkGlobal, ClearTimeout, GoTo, Return, Unmark
<1>3. UNCHANGED <<batches, answered, request, crashes>>
  BY DEF CleanupLoop, ListTimeouts, ReadTimeout, HandleExpired, EndSweep, PushExpired,
         MarkQueued, Release, UnmarkUser, UnmarkGlobal, ClearTimeout, redis, others, history
<1>4. \/ UNCHANGED task
      \/ task' = [task EXCEPT ![proc[c].task] = [status |-> "queued", worker |-> None]]
  BY DEF CleanupLoop, ListTimeouts, ReadTimeout, HandleExpired, EndSweep, PushExpired,
         MarkQueued, Release, UnmarkUser, UnmarkGlobal, ClearTimeout, redis
<1>5. QED
  BY <1>2, <1>3, <1>4 DEF Exists, TypeOK, TaskStore, TaskRow

LEMMA CancellerMoves ==
  ASSUME TypeOK, NEW x \in Cancellers, Cancel(x)
  PROVE  /\ \A q \in Procs : q # x => proc'[q] = proc[q]
         /\ UNCHANGED <<batches, answered, request, sweep, crashes>>
         /\ \A t \in Tasks : Exists(t) => Exists(t)'
<1>1. proc \in [Procs -> Local] /\ x \in Procs
  BY KindsAreDistinct DEF TypeOK, Locals
<1>2. \A q \in Procs : q # x => proc'[q] = proc[q]
  <2>1. ASSUME NEW t \in Tasks, ReadStatus(x, t)
        PROVE  \E l : proc' = [proc EXCEPT ![x] = l]
    BY <2>1 DEF ReadStatus, Unmark
  <2>2. CASE CancelStep(x)
    BY <1>1, <2>2 DEF CancelStep, Release, UnmarkUser, UnmarkGlobal, ClearTimeout, RemoveReady,
                      CancelStatus, GoTo, Return
  <2>3. QED
    BY <1>1, <2>1, <2>2 DEF Cancel
<1>3. UNCHANGED <<batches, answered, request, sweep, crashes>>
  BY DEF Cancel, CancelStep, ReadStatus, Release, UnmarkUser, UnmarkGlobal, ClearTimeout,
         RemoveReady, CancelStatus, redis, others, history
<1>4. \/ UNCHANGED task
      \/ task' = [task EXCEPT ![proc[x].task].status = "cancelled"]
  BY DEF Cancel, CancelStep, ReadStatus, Release, UnmarkUser, UnmarkGlobal, ClearTimeout,
         RemoveReady, CancelStatus, redis
<1>5. QED
  BY <1>2, <1>3, <1>4 DEF Exists, TypeOK, TaskStore, TaskRow

------------------------------------------------------------------------------
(* Batches *)

LEMMA InitFilled == Init => BatchesAreFilled
<1> SUFFICES ASSUME Init PROVE BatchesAreFilled
  OBVIOUS
<1>1. BatchRows
  BY FS_EmptySet, NoneIsNew DEF Init, BatchRows, NoBatch, HasRequest, NoRequest
<1>2. OpenBatches
  BY NoneIsNew DEF Init, OpenBatches, NoRequest
<1>3. TasksInMaking
  BY DEF Init, TasksInMaking, Making, Idle, Procs
<1>4. QED
  BY <1>1, <1>2, <1>3 DEF BatchesAreFilled

\* A step that fills no batch and makes no task; it may drop a request.
LEMMA BatchesStay ==
  ASSUME BatchesAreFilled, UNCHANGED <<batches, answered>>,
         \A s \in Submitters : request'[s] = request[s] \/ request'[s].batch = None,
         \A t \in Tasks : Exists(t) => Exists(t)',
         \A s \in Submitters, t \in Tasks : Making(s, t)' => Making(s, t),
         TypeOK
  PROVE  BatchesAreFilled'
<1>1. \A b \in Batches : HasRequest(b)' => HasRequest(b)
  BY NoneIsNew DEF HasRequest
<1>2. BatchRows'
  BY <1>1 DEF BatchesAreFilled, BatchRows, TypeOK, TaskStore, BatchRow
<1>3. OpenBatches'
  BY NoneIsNew DEF BatchesAreFilled, OpenBatches
<1>4. TasksInMaking'
  BY DEF BatchesAreFilled, TasksInMaking
<1>5. QED
  BY <1>2, <1>3, <1>4 DEF BatchesAreFilled

\* Everybody but the submitters.
LEMMA OthersFill ==
  ASSUME TypeOK, BatchesAreFilled, UNCHANGED <<batches, answered, request>>,
         \A s \in Submitters : proc'[s] = proc[s],
         \A t \in Tasks : Exists(t) => Exists(t)'
  PROVE  BatchesAreFilled'
  BY BatchesStay DEF Making

LEMMA SubmitFilled ==
  ASSUME TypeOK, BatchesAreFilled, NEW s \in Submitters, Submit(s)
  PROVE  BatchesAreFilled'
<1>1. /\ s \in Procs /\ \A r \in Submitters : r \in Procs
      /\ proc \in [Procs -> Local] /\ request \in [Submitters -> RequestRow]
  BY KindsAreDistinct DEF TypeOK, Locals
<1>2. ASSUME NEW pc \in {"checkUser", "checkGlobal", "idle"},
             \A r \in Submitters : r # s => proc'[r] = proc[r],
             proc'[s].pc = pc
      PROVE  \A r \in Submitters, t \in Tasks : Making(r, t)' => Making(r, t) /\ r # s
  BY <1>2 DEF Making
<1>3. \A r \in Submitters : r # s => proc'[r] = proc[r]
  BY <1>1 DEF Submit, SubmitOne, SubmitBatch, CheckUser, CheckGlobal, RefuseTask, Refuse,
              SaveTask, PushTask, AddToBatch, GoTo, Return
<1>4. ASSUME NEW u \in Users, SubmitOne(s, u) PROVE BatchesAreFilled'
  BY <1>1, <1>2, <1>3, <1>4, BatchesStay
     DEF SubmitOne, redis, history, GoTo, Local, RequestRow, Exists
<1>5. ASSUME NEW u \in Users, NEW b \in Batches, NEW size \in 1..BatchSize,
             SubmitBatch(s, u, b, size)
      PROVE  BatchesAreFilled'
  <2>1. /\ size \in Nat \ {0}
        /\ batches[b] = NoBatch /\ batches' = [batches EXCEPT ![b].submitted = size]
        /\ request' = [request EXCEPT ![s] = [user |-> u, batch |-> b, left |-> size]]
        /\ proc'[s].pc = "checkUser" /\ UNCHANGED <<task, answered>>
    BY <1>1, <1>5, NumbersAreNatural DEF SubmitBatch, GoTo, Local, history
  <2>2. /\ batches'[b].submitted = size /\ batches'[b].tasks = {}
        /\ \A d \in Batches : d # b => batches'[d] = batches[d]
        /\ request'[s].batch = b /\ request'[s].left = size
        /\ \A r \in Submitters : r # s => request'[r] = request[r]
    BY <1>1, <2>1 DEF NoBatch, TypeOK, TaskStore, BatchRow
  <2>3. b \notin answered /\ \A r \in Submitters : request[r].batch # b
    BY <2>1 DEF BatchesAreFilled, BatchRows, HasRequest
  <2>4. BatchRows'
    <3>1. ASSUME NEW d \in Batches, d # b, HasRequest(d)' PROVE HasRequest(d)
      BY <2>2, <3>1 DEF HasRequest
    <3>2. batches'[b] # NoBatch
      BY <2>1, <2>2 DEF NoBatch
    <3>3. /\ IsFiniteSet(batches'[b].tasks) /\ \A k \in batches'[b].tasks : Exists(k)'
          /\ b \notin answered'
      BY <2>1, <2>2, <2>3, FS_EmptySet
    <3>4. ASSUME NEW d \in Batches, d # b
          PROVE  /\ IsFiniteSet(batches'[d].tasks)
                 /\ \A k \in batches'[d].tasks : Exists(k)'
                 /\ batches'[d] = NoBatch => d \notin answered' /\ ~HasRequest(d)'
                 /\ d \in answered' => /\ Cardinality(batches'[d].tasks) = batches'[d].submitted
                                       /\ ~HasRequest(d)'
      BY <2>1, <2>2, <3>1, <3>4 DEF BatchesAreFilled, BatchRows, Exists
    <3>5. QED
      BY <3>2, <3>3, <3>4 DEF BatchRows
  <2>5. OpenBatches'
    <3>1. Cardinality({}) + size = size /\ size > 0
      BY <2>1, FS_EmptySet
    <3>2. ASSUME NEW r \in Submitters, r # s, request'[r].batch \in Batches
          PROVE  LET d == request'[r].batch IN
                 /\ request'[r].left > 0
                 /\ Cardinality(batches'[d].tasks) + request'[r].left = batches'[d].submitted
                 /\ \A q \in Submitters : request'[q].batch = d => q = r
      BY <2>2, <2>3, <3>2 DEF BatchesAreFilled, OpenBatches
    <3>3. \A q \in Submitters : request'[q].batch = b => q = s
      BY <2>2, <2>3
    <3>4. QED
      BY <2>2, <3>1, <3>2, <3>3 DEF OpenBatches
  <2>6. TasksInMaking'
    BY <1>2, <1>3, <2>1, <2>2 DEF BatchesAreFilled, TasksInMaking, Exists
  <2>7. QED
    BY <2>4, <2>5, <2>6 DEF BatchesAreFilled
<1>6. CASE CheckUser(s) \/ CheckGlobal(s)
  <2>1. \A r \in Submitters, t \in Tasks : Making(r, t)' => Making(r, t)
    BY <1>1, <1>3, <1>6 DEF CheckUser, CheckGlobal, GoTo, Local, Making
  <2>2. QED
    BY <1>6, <2>1, BatchesStay DEF CheckUser, CheckGlobal, redis, others, history, Exists
<1>7. CASE RefuseTask(s)
  BY <1>1, <1>2, <1>3, <1>7, BatchesStay
     DEF RefuseTask, Refuse, redis, history, Return, Idle, NoRequest, Exists
<1>8. CASE SaveTask(s)
  <2>1. PICK t \in Tasks :
          /\ ~Exists(t)
          /\ task' = [task EXCEPT ![t] = [status |-> "queued", worker |-> None]]
          /\ proc' = [proc EXCEPT ![s] = [proc[s] EXCEPT !.pc = "push", !.task = t]]
    BY <1>8 DEF SaveTask, FreshTasks, Exists
  <2>2. UNCHANGED <<batches, answered, request>>
    BY <1>8 DEF SaveTask, others, history
  <2>3. Exists(t)' /\ \A k \in Tasks : Exists(k) => Exists(k)'
    BY <2>1 DEF Exists, TypeOK, TaskStore
  <2>4. /\ \A r \in Submitters : ~Making(r, t)
        /\ \A b \in Batches : t \notin batches[b].tasks
    BY <2>1 DEF BatchesAreFilled, BatchRows, TasksInMaking
  <2>5. \A r \in Submitters, k \in Tasks : Making(r, k)' => IF r = s THEN k = t ELSE Making(r, k)
    BY <1>1, <1>3, <2>1 DEF Making, Local
  <2>6. BatchRows' /\ OpenBatches'
    BY <2>2, <2>3 DEF BatchesAreFilled, BatchRows, OpenBatches, HasRequest, TypeOK, TaskStore,
                      BatchRow
  <2>7. TasksInMaking'
    BY <2>2, <2>3, <2>4, <2>5 DEF BatchesAreFilled, TasksInMaking
  <2>8. QED
    BY <2>6, <2>7 DEF BatchesAreFilled
<1>9. CASE PushTask(s)
  <2>1. \A r \in Submitters, t \in Tasks : Making(r, t)' => Making(r, t)
    BY <1>1, <1>3, <1>9 DEF PushTask, At, GoTo, Return, Idle, Local, Making
  <2>2. QED
    BY <1>1, <1>9, <2>1, BatchesStay DEF PushTask, history, NoRequest, Exists
<1>10. CASE AddToBatch(s)
  <2>0. PICK b \in Batches, t \in Tasks, n \in Nat :
          /\ b = request[s].batch /\ t = proc[s].task /\ n = request[s].left
          /\ proc[s].pc = "addToBatch"
    BY <1>1, <1>10 DEF AddToBatch, At, TypeOK, Locals, Placed, Submits, RequestRow
  <2>1. /\ b \in Batches /\ t \in Tasks /\ n \in Nat /\ Making(s, t)
        /\ b = request[s].batch /\ t = proc[s].task /\ n = request[s].left
        /\ batches[b] \in BatchRow
    BY <2>0 DEF TypeOK, TaskStore, Making
  <2>2. /\ n > 0
        /\ Cardinality(batches[b].tasks) + n = batches[b].submitted
        /\ \A r \in Submitters : request[r].batch = b => r = s
        /\ b \notin answered /\ IsFiniteSet(batches[b].tasks)
        /\ Exists(t) /\ t \notin batches[b].tasks
        /\ batches[b] # NoBatch
    BY <2>1 DEF BatchesAreFilled, BatchRows, OpenBatches, TasksInMaking, HasRequest
  <2>3. /\ \A d \in Batches : d # b => batches'[d] = batches[d]
        /\ batches'[b].tasks = batches[b].tasks \cup {t}
        /\ batches'[b].submitted = batches[b].submitted
        /\ UNCHANGED task
    BY <1>10, <2>1 DEF AddToBatch, TypeOK, TaskStore, BatchRow
  <2>4. /\ Cardinality(batches[b].tasks) \in Nat /\ batches[b].submitted \in Nat
        /\ IsFiniteSet(batches'[b].tasks)
        /\ Cardinality(batches'[b].tasks) = Cardinality(batches[b].tasks) + 1
    BY <2>1, <2>2, <2>3, FS_AddElement, FS_CardinalityType DEF BatchRow
  <2>5. proc'[s].pc \in {"checkUser", "idle"}
    BY <1>1, <1>10 DEF AddToBatch, GoTo, Return, Idle, Local
  <2>6. TasksInMaking'
    <3>1. \A r \in Submitters, k \in Tasks : Making(r, k)' => Making(r, k) /\ k # t
      BY <1>2, <1>3, <2>1, <2>5 DEF BatchesAreFilled, TasksInMaking
    <3>2. QED
      BY <2>3, <3>1 DEF BatchesAreFilled, TasksInMaking, Exists
  <2>7. /\ \A r \in Submitters : r # s => request'[r] = request[r]
        /\ IF n > 1 THEN /\ request'[s].batch = b /\ request'[s].left = n - 1
                         /\ answered' = answered
                    ELSE request'[s].batch = None /\ answered' = answered \cup {b}
    BY <1>1, <1>10, <2>1 DEF AddToBatch, RequestRow, NoRequest
  <2>8. \A d \in Batches : HasRequest(d)' => HasRequest(d)
    BY <2>1, <2>7, NoneIsNew DEF HasRequest
  <2>9. OpenBatches'
    <3>1. \A r \in Submitters : r # s => request[r].batch # b
      BY <2>2
    <3>2. n > 1 => n - 1 > 0 /\ Cardinality(batches'[b].tasks) + (n - 1) = batches'[b].submitted
      BY <2>1, <2>2, <2>3, <2>4
    <3>3. ASSUME NEW r \in Submitters, r # s, request'[r].batch \in Batches
          PROVE  LET d == request'[r].batch IN
                 /\ request'[r].left > 0
                 /\ Cardinality(batches'[d].tasks) + request'[r].left = batches'[d].submitted
                 /\ \A q \in Submitters : request'[q].batch = d => q = r
      BY <2>3, <2>7, <3>1, <3>3, NoneIsNew DEF BatchesAreFilled, OpenBatches
    <3>4. n > 1 => \A q \in Submitters : request'[q].batch = b => q = s
      BY <2>7, <3>1
    <3>5. ASSUME request'[s].batch \in Batches
          PROVE  LET d == request'[s].batch IN
                 /\ request'[s].left > 0
                 /\ Cardinality(batches'[d].tasks) + request'[s].left = batches'[d].submitted
                 /\ \A q \in Submitters : request'[q].batch = d => q = s
      BY <2>7, <3>2, <3>4, <3>5, NoneIsNew
    <3>6. QED
      BY <3>3, <3>5 DEF OpenBatches
  <2>10. BatchRows'
    <3>1. ASSUME NEW d \in Batches, d # b
          PROVE  /\ IsFiniteSet(batches'[d].tasks)
                 /\ \A k \in batches'[d].tasks : Exists(k)'
                 /\ batches'[d] = NoBatch => d \notin answered' /\ ~HasRequest(d)'
                 /\ d \in answered' => /\ Cardinality(batches'[d].tasks) = batches'[d].submitted
                                       /\ ~HasRequest(d)'
      BY <2>3, <2>7, <2>8, <3>1 DEF BatchesAreFilled, BatchRows, Exists
    <3>2. /\ \A k \in batches'[b].tasks : Exists(k)'
          /\ batches'[b] # NoBatch
      BY <2>1, <2>2, <2>3 DEF BatchesAreFilled, BatchRows, Exists, NoBatch
    <3>3. b \in answered' => /\ Cardinality(batches'[b].tasks) = batches'[b].submitted
                             /\ ~HasRequest(b)'
      <4>1. CASE n > 1
        BY <2>2, <2>7, <4>1
      <4>2. CASE ~(n > 1)
        <5>1. n = 1
          BY <2>1, <2>2, <4>2
        <5>2. ~HasRequest(b)'
          <6>1. \A r \in Submitters : r # s => request[r].batch # b
            BY <2>2
          <6>2. request'[s].batch # b
            BY <2>1, <2>7, <4>2, NoneIsNew
          <6>3. QED
            BY <2>7, <6>1, <6>2 DEF HasRequest
        <5>3. QED
          BY <2>2, <2>3, <2>4, <5>1, <5>2
      <4>3. QED
        BY <4>1, <4>2
    <3>4. /\ IsFiniteSet(batches'[b].tasks)
          /\ batches'[b] = NoBatch => b \notin answered' /\ ~HasRequest(b)'
      BY <2>4, <3>2
    <3>5. QED
      BY <3>1, <3>2, <3>3, <3>4 DEF BatchRows
  <2>11. QED
    BY <2>6, <2>9, <2>10 DEF BatchesAreFilled
<1>11. QED
  BY <1>4, <1>5, <1>6, <1>7, <1>8, <1>9, <1>10 DEF Submit

LEMMA NextFilled ==
  ASSUME TypeOK, BatchesAreFilled, [Next]_vars
  PROVE  BatchesAreFilled'
<1> \A s \in Submitters : s \in Procs /\ s \notin Workers \cup Cleaners \cup Cancellers
  BY KindsAreDistinct
<1>1. ASSUME NEW s \in Submitters, Submit(s) PROVE BatchesAreFilled'
  BY <1>1, SubmitFilled
<1>2. ASSUME NEW w \in Workers, WorkLoop(w) PROVE BatchesAreFilled'
  BY <1>2, WorkerMoves, OthersFill
<1>3. ASSUME NEW w \in Workers, Crash(w) PROVE BatchesAreFilled'
  BY <1>3, OthersFill DEF Crash, redis, history, Exists
<1>4. ASSUME NEW c \in Cleaners, CleanupLoop(c) PROVE BatchesAreFilled'
  BY <1>4, CleanerMoves, OthersFill
<1>5. ASSUME NEW x \in Cancellers, Cancel(x) PROVE BatchesAreFilled'
  BY <1>5, CancellerMoves, OthersFill
<1>6. CASE Tick \/ (\E t \in Tasks : DropKey(t)) \/ UNCHANGED vars
  BY <1>6, OthersFill DEF Tick, DropKey, vars, redis, locals, history, Exists
<1>7. QED
  BY <1>1, <1>2, <1>3, <1>4, <1>5, <1>6 DEF Next

\* A batch that was answered without an error has all its tasks, whatever the workers,
\* the cancellations, the cleanup loops and the kills do meanwhile
\* (queue_service.py:179-192: the tasks are added one command at a time).
THEOREM BatchesAreWhole == Spec => []AnsweredBatchIsWhole
<1> DEFINE Inv == TypeOK /\ BatchesAreFilled
<1>1. Init => Inv
  BY InitTyped, InitFilled
<1>2. Inv /\ [Next]_vars => Inv'
  BY NextTyped, NextFilled
<1>3. Inv => AnsweredBatchIsWhole
  BY DEF BatchesAreFilled, BatchRows, AnsweredBatchIsWhole, TypeOK, Counts
<1>4. QED
  BY <1>1, <1>2, <1>3, PTL DEF Spec

------------------------------------------------------------------------------
(* The slots of a user *)

\* A step that gives no slot, and after which no new worker has passed the check.
LEMMA SlotsShrink ==
  ASSUME SlotsAreBounded, IsFiniteSet(Workers),
         \A u \in Users : userProcessing'[u] \subseteq userProcessing[u],
         \A u \in Users : Marking(u)' \subseteq Marking(u)
  PROVE  SlotsAreBounded'
<1> SUFFICES ASSUME NEW u \in Users
             PROVE  /\ IsFiniteSet(userProcessing'[u])
                    /\ Cardinality(userProcessing'[u]) + Cardinality(Marking(u)')
                         <= UserLimit + Cardinality(Workers) - 1
  BY DEF SlotsAreBounded
<1>1. IsFiniteSet(Marking(u))
  BY FS_Subset DEF Marking
<1>2. /\ Cardinality(Marking(u)') <= Cardinality(Marking(u))
      /\ Cardinality(Marking(u)') \in Nat /\ Cardinality(Marking(u)) \in Nat
  BY <1>1, FS_Subset, FS_CardinalityType
<1>3. /\ IsFiniteSet(userProcessing[u])
      /\ Cardinality(userProcessing[u]) + Cardinality(Marking(u))
           <= UserLimit + Cardinality(Workers) - 1
  BY DEF SlotsAreBounded
<1>4. /\ IsFiniteSet(userProcessing'[u])
      /\ Cardinality(userProcessing'[u]) <= Cardinality(userProcessing[u])
      /\ Cardinality(userProcessing'[u]) \in Nat /\ Cardinality(userProcessing[u]) \in Nat
  BY <1>3, FS_Subset, FS_CardinalityType
<1>5. UserLimit \in Nat /\ Cardinality(Workers) \in Nat
  BY NumbersAreNatural, FS_CardinalityType
<1>6. QED
  BY <1>2, <1>3, <1>4, <1>5

\* Who passes the check saw a free slot: the others that passed it are fewer than all.
LEMMA CheckBounded ==
  ASSUME TypeOK, SlotsAreBounded, IsFiniteSet(Workers), NEW w \in Workers, CheckSlot(w)
  PROVE  SlotsAreBounded'
<1>1. /\ w \in Procs /\ \A v \in Workers : v # w => proc'[v] = proc[v]
      /\ proc'[w].task = proc[w].task
      /\ proc'[w].pc = IF UserHasSlot(UserOf[proc[w].task]) THEN "markUser" ELSE "putBack"
      /\ UNCHANGED userProcessing
  BY KindsAreDistinct DEF CheckSlot, GoTo, TypeOK, Locals, Local, redis, slots
<1>2. ASSUME NEW u \in Users, u = UserOf[proc[w].task], UserHasSlot(u)
      PROVE  Cardinality(userProcessing[u]) + Cardinality(Marking(u)')
               <= UserLimit + Cardinality(Workers) - 1
  <2>1. Cardinality(Marking(u)') <= Cardinality(Workers)
    BY FS_Subset DEF Marking
  <2>2. /\ Cardinality(Marking(u)') \in Nat /\ Cardinality(Workers) \in Nat
        /\ Cardinality(userProcessing[u]) \in Nat /\ UserLimit \in Nat
    <3>1. IsFiniteSet(Marking(u)')
      BY FS_Subset DEF Marking
    <3>2. QED
      BY <3>1, NumbersAreNatural, FS_CardinalityType DEF SlotsAreBounded
  <2>3. QED
    BY <1>2, <2>1, <2>2 DEF UserHasSlot
<1>3. ASSUME NEW u \in Users, ~(u = UserOf[proc[w].task] /\ UserHasSlot(u))
      PROVE  Marking(u)' \subseteq Marking(u)
  BY <1>1, <1>3 DEF Marking, At
<1>4. ASSUME NEW u \in Users, Marking(u)' \subseteq Marking(u)
      PROVE  Cardinality(userProcessing[u]) + Cardinality(Marking(u)')
               <= UserLimit + Cardinality(Workers) - 1
  <2>1. IsFiniteSet(Marking(u))
    BY FS_Subset DEF Marking
  <2>2. /\ Cardinality(Marking(u)') <= Cardinality(Marking(u))
        /\ Cardinality(Marking(u)') \in Nat /\ Cardinality(Marking(u)) \in Nat
    BY <1>4, <2>1, FS_Subset, FS_CardinalityType
  <2>3. /\ Cardinality(userProcessing[u]) \in Nat
        /\ UserLimit \in Nat /\ Cardinality(Workers) \in Nat
    BY NumbersAreNatural, FS_CardinalityType DEF SlotsAreBounded
  <2>4. QED
    BY <2>2, <2>3 DEF SlotsAreBounded
<1>5. QED
  BY <1>1, <1>2, <1>3, <1>4 DEF SlotsAreBounded

LEMMA MarkBounded ==
  ASSUME TypeOK, SlotsAreBounded, IsFiniteSet(Workers), NEW w \in Workers, MarkUser(w)
  PROVE  SlotsAreBounded'
<1>1. PICK t \in Tasks, o \in Users : t = proc[w].task /\ o = UserOf[t]
  BY KindsAreDistinct, TasksHaveUsers DEF MarkUser, At, TypeOK, Locals, Placed, Works
<1>2. /\ \A v \in Workers : v # w => proc'[v] = proc[v]
      /\ proc[w].pc = "markUser" /\ proc'[w].pc = "markGlobal"
      /\ userProcessing'[o] = userProcessing[o] \cup {t}
      /\ \A u \in Users : u # o => userProcessing'[u] = userProcessing[u]
  BY <1>1, KindsAreDistinct DEF MarkUser, At, GoTo, TypeOK, Locals, Local, TaskSets
<1>3. /\ w \in Marking(o) /\ Marking(o)' = Marking(o) \ {w}
      /\ \A u \in Users : u # o => Marking(u)' = Marking(u)
  BY <1>1, <1>2 DEF Marking, At
<1>4. /\ IsFiniteSet(userProcessing'[o])
      /\ Cardinality(userProcessing'[o]) + Cardinality(Marking(o)')
           <= UserLimit + Cardinality(Workers) - 1
  <2>1. IsFiniteSet(Marking(o)) /\ IsFiniteSet(userProcessing[o])
    BY FS_Subset DEF Marking, SlotsAreBounded
  <2>2. Cardinality(Marking(o)') = Cardinality(Marking(o)) - 1
    BY <1>3, <2>1, FS_RemoveElement
  <2>3. /\ IsFiniteSet(userProcessing'[o])
        /\ \/ Cardinality(userProcessing'[o]) = Cardinality(userProcessing[o])
           \/ Cardinality(userProcessing'[o]) = Cardinality(userProcessing[o]) + 1
    BY <1>2, <2>1, FS_AddElement
  <2>4. /\ Cardinality(Marking(o)) \in Nat /\ Cardinality(userProcessing[o]) \in Nat
        /\ UserLimit \in Nat /\ Cardinality(Workers) \in Nat
    BY <2>1, NumbersAreNatural, FS_CardinalityType
  <2>5. Cardinality(userProcessing[o]) + Cardinality(Marking(o))
          <= UserLimit + Cardinality(Workers) - 1
    BY DEF SlotsAreBounded
  <2>6. QED
    BY <2>2, <2>3, <2>4, <2>5
<1>5. QED
  BY <1>2, <1>3, <1>4 DEF SlotsAreBounded

LEMMA UnmarkBounded ==
  ASSUME TypeOK, SlotsAreBounded, IsFiniteSet(Workers), NEW p \in Procs, Release(p)
  PROVE  SlotsAreBounded'
<1>1. \A u \in Users : userProcessing'[u] \subseteq userProcessing[u]
  BY DEF Release, UnmarkUser, UnmarkGlobal, ClearTimeout, TypeOK, TaskSets, slots
<1>2. /\ \A q \in Procs : q # p => proc'[q] = proc[q]
      /\ proc'[p].pc # "markUser"
  <2>1. /\ proc[p] \in Local /\ proc[p].pc \in ReleasePcs
        /\ proc[p].op \in {"ack", "requeue", "cancel"}
    BY KindsAreDistinct
       DEF Release, UnmarkUser, UnmarkGlobal, ClearTimeout, At, ReleasePcs, TypeOK, Locals, Placed,
           Submits, SubmitPcs, Works, Cleans, Cancels, Procs
  <2>2. QED
    BY <2>1 DEF Release, UnmarkUser, UnmarkGlobal, ClearTimeout, GoTo, TypeOK, Locals, Local
<1>3. \A u \in Users : Marking(u)' \subseteq Marking(u)
  BY <1>2, KindsAreDistinct DEF Marking, At
<1>4. QED
  BY <1>1, <1>3, SlotsShrink

LEMMA NextBounded ==
  ASSUME TypeOK, SlotsAreBounded, IsFiniteSet(Workers), [Next]_vars
  PROVE  SlotsAreBounded'
<1>1. ASSUME UNCHANGED userProcessing,
             \A v \in Workers : proc'[v] = proc[v] \/ proc'[v].pc # "markUser"
      PROVE  SlotsAreBounded'
  BY <1>1, SlotsShrink DEF Marking, At
<1>2. proc \in [Procs -> Local] /\ \A v \in Workers : v \in Procs
  BY KindsAreDistinct DEF TypeOK, Locals
<1>3. ASSUME NEW s \in Submitters, Submit(s) PROVE SlotsAreBounded'
  BY <1>1, <1>3, SubmitterMoves, KindsAreDistinct
<1>4. ASSUME NEW w \in Workers, WorkLoop(w) PROVE SlotsAreBounded'
  <2>1. CASE CheckSlot(w)
    BY <2>1, CheckBounded
  <2>2. CASE MarkUser(w)
    BY <2>2, MarkBounded
  <2>3. CASE Release(w)
    BY <2>3, <1>2, UnmarkBounded
  <2>4. CASE \/ Pop(w) \/ PutBack(w) \/ MarkGlobal(w) \/ SetTimeout(w) \/ SetExpire(w)
             \/ MarkTask(w) \/ AckStatus(w) \/ RecordOutcome(w)
    <3>1. UNCHANGED userProcessing
      BY <2>4 DEF Pop, PutBack, MarkGlobal, SetTimeout, SetExpire, MarkTask, AckStatus,
                  RecordOutcome, slots
    <3>2. proc'[w].pc # "markUser"
      BY <2>4, WorkerStages DEF Step
    <3>3. QED
      BY <1>1, <1>2, <1>4, <3>1, <3>2, WorkerMoves
  <2>5. ASSUME NEW ok \in BOOLEAN, FinishAnalysis(w, ok) PROVE SlotsAreBounded'
    <3>1. UNCHANGED userProcessing /\ proc'[w].pc # "markUser"
      BY <1>2, <2>5 DEF FinishAnalysis, Unmark, redis, slots
    <3>2. QED
      BY <1>1, <1>2, <1>4, <3>1, WorkerMoves
  <2>6. QED
    BY <1>4, <2>1, <2>2, <2>3, <2>4, <2>5 DEF WorkLoop
<1>5. ASSUME NEW w \in Workers, Crash(w) PROVE SlotsAreBounded'
  BY <1>1, <1>2, <1>5 DEF Crash, Idle, redis, slots
<1>6. ASSUME NEW c \in Cleaners, CleanupLoop(c) PROVE SlotsAreBounded'
  <2>1. CASE Release(c)
    BY <2>1, UnmarkBounded, KindsAreDistinct
  <2>2. CASE ~Release(c)
    <3>1. UNCHANGED userProcessing
      BY <1>6, <2>2 DEF CleanupLoop, ListTimeouts, ReadTimeout, HandleExpired, EndSweep,
                        PushExpired, MarkQueued, redis, slots
    <3>2. QED
      BY <1>1, <1>2, <1>6, <3>1, CleanerMoves, KindsAreDistinct
  <2>3. QED
    BY <2>1, <2>2
<1>7. ASSUME NEW x \in Cancellers, Cancel(x) PROVE SlotsAreBounded'
  <2>1. CASE Release(x)
    BY <2>1, UnmarkBounded, KindsAreDistinct
  <2>2. CASE ~Release(x)
    <3>1. UNCHANGED userProcessing
      BY <1>7, <2>2 DEF Cancel, CancelStep, ReadStatus, RemoveReady, CancelStatus, redis, slots
    <3>2. QED
      BY <1>1, <1>2, <1>7, <3>1, CancellerMoves, KindsAreDistinct
  <2>3. QED
    BY <2>1, <2>2
<1>8. CASE Tick \/ (\E t \in Tasks : DropKey(t)) \/ UNCHANGED vars
  BY <1>1, <1>8 DEF Tick, DropKey, vars, redis, locals, slots
<1>9. QED
  BY <1>3, <1>4, <1>5, <1>6, <1>7, <1>8 DEF Next

LEMMA InitBounded ==
  ASSUME Init, IsFiniteSet(Workers), Workers # {}
  PROVE  SlotsAreBounded
<1> SUFFICES ASSUME NEW u \in Users
             PROVE  /\ IsFiniteSet(userProcessing[u])
                    /\ Cardinality(userProcessing[u]) + Cardinality(Marking(u))
                         <= UserLimit + Cardinality(Workers) - 1
  BY DEF SlotsAreBounded
<1>1. userProcessing[u] = {} /\ Marking(u) = {}
  BY KindsAreDistinct DEF Init, Marking, At, Idle
<1>2. Cardinality(Workers) \in Nat /\ Cardinality(Workers) # 0 /\ UserLimit \in Nat
  BY FS_CardinalityType, FS_EmptySet, NumbersAreNatural
<1>3. Cardinality({}) = 0 /\ IsFiniteSet({})
  BY FS_EmptySet
<1>4. QED
  BY <1>1, <1>2, <1>3

\* The limit of a user is exceeded by less than the number of workers, kills, cleanup
\* loops and cancellations included: each worker checks before it marks
\* (queue_service.py:116-124).
THEOREM UsersAreBounded ==
  ASSUME IsFiniteSet(Workers), Workers # {}
  PROVE  Spec => [](\A u \in Users : Cardinality(userProcessing[u])
                                       <= UserLimit + Cardinality(Workers) - 1)
<1> DEFINE Inv == TypeOK /\ SlotsAreBounded
           Bound == \A u \in Users : Cardinality(userProcessing[u])
                                       <= UserLimit + Cardinality(Workers) - 1
<1>1. Init => Inv
  BY InitTyped, InitBounded
<1>2. Inv /\ [Next]_vars => Inv'
  BY NextTyped, NextBounded
<1>3. Inv => Bound
  <2> SUFFICES ASSUME SlotsAreBounded, NEW u \in Users
               PROVE  Cardinality(userProcessing[u]) <= UserLimit + Cardinality(Workers) - 1
    OBVIOUS
  <2>1. IsFiniteSet(Marking(u)) /\ IsFiniteSet(userProcessing[u])
    BY FS_Subset DEF Marking, SlotsAreBounded
  <2>2. /\ Cardinality(Marking(u)) \in Nat /\ Cardinality(userProcessing[u]) \in Nat
        /\ UserLimit \in Nat /\ Cardinality(Workers) \in Nat
    BY <2>1, FS_CardinalityType, NumbersAreNatural
  <2>3. QED
    BY <2>2 DEF SlotsAreBounded
<1>4. QED
  BY <1>1, <1>2, <1>3, PTL DEF Spec

\* With one worker process no user has more tasks in progress than the limit, whatever
\* is killed and requeued.
THEOREM OneWorkerKeepsLimit ==
  ASSUME Cardinality(Workers) = 1, IsFiniteSet(Workers)
  PROVE  Spec => []UserLimitHolds
<1> DEFINE Bound == \A u \in Users : Cardinality(userProcessing[u])
                                       <= UserLimit + Cardinality(Workers) - 1
<1>1. Workers # {}
  BY FS_EmptySet
<1>2. Spec => []Bound
  BY <1>1, UsersAreBounded
<1>3. Bound => UserLimitHolds
  BY NumbersAreNatural DEF UserLimitHolds
<1>4. QED
  BY <1>2, <1>3, PTL

------------------------------------------------------------------------------
(* Slots that are given back, when nothing is killed *)

NoKills == MaxCrashes = 0

LEMMA NothingCrashes ==
  ASSUME NoKills, TypeOK
  PROVE  \A w \in Workers : ~Crash(w)
  BY DEF NoKills, TypeOK, Counts, Crash

\* A step that gives no slot, by somebody who holds none.
LEMMA SlotsStay ==
  ASSUME SlotsAreHeld, TypeOK, processing' \subseteq processing,
         \A u \in Users : userProcessing'[u] \subseteq userProcessing[u],
         \A v \in Workers : proc[v].pc \in GlobalPcs \cup UserPcs => proc'[v] = proc[v]
  PROVE  SlotsAreHeld'
  BY TasksHaveUsers DEF SlotsAreHeld, WorksAt

LEMMA WorkerHeld ==
  ASSUME TypeOK, SlotsAreHeld, NEW w \in Workers, WorkLoop(w)
  PROVE  SlotsAreHeld'
<1> USE DEF GlobalPcs, UserPcs
<1>1. /\ w \in Procs /\ proc \in [Procs -> Local] /\ \A v \in Workers : v \in Procs
      /\ \A v \in Workers : v # w => proc'[v] = proc[v]
  BY KindsAreDistinct, WorkerMoves DEF TypeOK, Locals
<1>2. CASE Pop(w) \/ CheckSlot(w) \/ PutBack(w) \/ ClearTimeout(w) \/ AckStatus(w) \/ RecordOutcome(w)
  <2>1. UNCHANGED <<processing, userProcessing>>
    BY <1>2 DEF Pop, CheckSlot, PutBack, ClearTimeout, AckStatus, RecordOutcome, redis, slots
  <2>2. proc[w].pc \notin GlobalPcs \cup UserPcs
    BY <1>2, WorkerStages DEF Step
  <2>3. QED
    BY <1>1, <2>1, <2>2, SlotsStay
<1>3. PICK t \in Tasks \cup {None} : t = proc[w].task
  BY <1>1 DEF Local
<1>4. CASE MarkUser(w)
  <2>1. /\ \A k \in Tasks : k \in userProcessing'[UserOf[k]] =>
                              k \in userProcessing[UserOf[k]] \/ k = t
        /\ UNCHANGED processing
        /\ proc[w].pc = "markUser" /\ proc'[w].pc = "markGlobal" /\ proc'[w].task = t
    BY <1>1, <1>3, <1>4, TasksHaveUsers DEF MarkUser, At, GoTo, Local, TypeOK, TaskSets
  <2>2. \A k \in Tasks \ {t}, pcs \in {GlobalPcs, UserPcs} : WorksAt(k, pcs) => WorksAt(k, pcs)'
    BY <1>1, <1>3 DEF WorksAt
  <2>3. /\ WorksAt(t, UserPcs)'
        /\ WorksAt(t, GlobalPcs) => WorksAt(t, GlobalPcs)'
    BY <1>1, <2>1 DEF WorksAt
  <2>4. QED
    BY <2>1, <2>2, <2>3 DEF SlotsAreHeld
<1>5. CASE MarkGlobal(w)
  <2>1. /\ processing' = processing \cup {t} /\ UNCHANGED userProcessing
        /\ proc[w].pc = "markGlobal" /\ proc'[w].pc = "setTimeout" /\ proc'[w].task = t
    BY <1>1, <1>3, <1>5 DEF MarkGlobal, At, GoTo, Local
  <2>2. \A k \in Tasks \ {t}, pcs \in {GlobalPcs, UserPcs} : WorksAt(k, pcs) => WorksAt(k, pcs)'
    BY <1>1, <1>3 DEF WorksAt
  <2>3. WorksAt(t, UserPcs)' /\ WorksAt(t, GlobalPcs)'
    BY <1>1, <2>1 DEF WorksAt
  <2>4. QED
    BY <2>1, <2>2, <2>3 DEF SlotsAreHeld
<1>6. CASE SetTimeout(w) \/ SetExpire(w) \/ MarkTask(w) \/ \E ok \in BOOLEAN : FinishAnalysis(w, ok)
  <2>1. UNCHANGED <<processing, userProcessing>>
    BY <1>6 DEF SetTimeout, SetExpire, MarkTask, FinishAnalysis, redis, slots
  <2>2. /\ proc[w].pc \in GlobalPcs /\ proc'[w].pc \in GlobalPcs
        /\ proc[w].pc \in UserPcs /\ proc'[w].pc \in UserPcs
        /\ proc'[w].task = t
    BY <1>3, <1>6, WorkerStages DEF Step
  <2>3. \A k \in Tasks, pcs \in {GlobalPcs, UserPcs} : WorksAt(k, pcs) => WorksAt(k, pcs)'
    BY <1>1, <1>3, <2>1, <2>2 DEF WorksAt
  <2>4. QED
    BY <2>1, <2>3 DEF SlotsAreHeld
<1>7. CASE UnmarkUser(w)
  <2>1. /\ \A k \in Tasks : k \in userProcessing'[UserOf[k]] =>
                              k \in userProcessing[UserOf[k]] /\ k # t
        /\ UNCHANGED processing
        /\ proc[w].pc = "unmarkUser" /\ proc'[w].pc = "unmarkGlobal" /\ proc'[w].task = t
    BY <1>1, <1>3, <1>7, TasksHaveUsers DEF UnmarkUser, At, GoTo, Local, TypeOK, TaskSets
  <2>2. \A k \in Tasks \ {t} : WorksAt(k, UserPcs) => WorksAt(k, UserPcs)'
    BY <1>1, <1>3 DEF WorksAt
  <2>3. \A k \in Tasks : WorksAt(k, GlobalPcs) => WorksAt(k, GlobalPcs)'
    BY <1>1, <1>3, <2>1 DEF WorksAt
  <2>4. QED
    BY <2>1, <2>2, <2>3 DEF SlotsAreHeld
<1>8. CASE UnmarkGlobal(w)
  <2>1. /\ processing' = processing \ {t} /\ UNCHANGED userProcessing
        /\ proc[w].pc = "unmarkGlobal"
    BY <1>3, <1>8 DEF UnmarkGlobal, At
  <2>2. \A k \in Tasks \ {t} : WorksAt(k, GlobalPcs) => WorksAt(k, GlobalPcs)'
    BY <1>1, <1>3 DEF WorksAt
  <2>3. \A k \in Tasks : WorksAt(k, UserPcs) => WorksAt(k, UserPcs)'
    BY <1>1, <2>1 DEF WorksAt
  <2>4. QED
    BY <2>1, <2>2, <2>3 DEF SlotsAreHeld
<1>9. QED
  BY <1>2, <1>4, <1>5, <1>6, <1>7, <1>8 DEF WorkLoop, Release

LEMMA NextHeld ==
  ASSUME NoKills, TypeOK, SlotsAreHeld, [Next]_vars
  PROVE  SlotsAreHeld'
<1>1. proc \in [Procs -> Local] /\ \A v \in Workers : v \in Procs
  BY KindsAreDistinct DEF TypeOK, Locals
<1>2. ASSUME NEW s \in Submitters, Submit(s) PROVE SlotsAreHeld'
  BY <1>2, SubmitterMoves, SlotsStay, KindsAreDistinct
<1>3. ASSUME NEW p \in Procs, Release(p)
      PROVE  /\ processing' \subseteq processing
             /\ \A u \in Users : userProcessing'[u] \subseteq userProcessing[u]
  BY <1>3 DEF Release, UnmarkUser, UnmarkGlobal, ClearTimeout, slots, TypeOK, TaskSets
<1>4. ASSUME NEW c \in Cleaners, CleanupLoop(c) PROVE SlotsAreHeld'
  <2>1. \/ UNCHANGED <<processing, userProcessing>>
        \/ Release(c)
    BY <1>4 DEF CleanupLoop, ListTimeouts, ReadTimeout, HandleExpired, EndSweep, PushExpired,
                MarkQueued, redis, slots
  <2>2. \A v \in Workers : proc'[v] = proc[v]
    BY <1>4, CleanerMoves, KindsAreDistinct
  <2>3. QED
    BY <1>3, <2>1, <2>2, SlotsStay, KindsAreDistinct
<1>5. ASSUME NEW x \in Cancellers, Cancel(x) PROVE SlotsAreHeld'
  <2>1. \/ UNCHANGED <<processing, userProcessing>>
        \/ Release(x)
    BY <1>5 DEF Cancel, CancelStep, ReadStatus, RemoveReady, CancelStatus, redis, slots
  <2>2. \A v \in Workers : proc'[v] = proc[v]
    BY <1>5, CancellerMoves, KindsAreDistinct
  <2>3. QED
    BY <1>3, <2>1, <2>2, SlotsStay, KindsAreDistinct
<1>6. CASE Tick \/ (\E t \in Tasks : DropKey(t)) \/ UNCHANGED vars
  BY <1>6, SlotsStay DEF Tick, DropKey, vars, redis, locals, slots
<1>7. QED
  BY <1>2, <1>4, <1>5, <1>6, WorkerHeld, NothingCrashes DEF Next

\* When no worker is killed, a slot of the system or of a user is held only by a task a
\* worker is at: the paths through put-back, acknowledgement, cancellation and requeueing
\* all give it back (queue/helpers.py:31-42).
THEOREM SlotsAreGivenBack == NoKills => (Spec => []SlotsAreInUse)
<1> SUFFICES ASSUME NoKills PROVE Spec => []SlotsAreInUse
  OBVIOUS
<1> DEFINE Inv == TypeOK /\ SlotsAreHeld
<1>1. Init => Inv
  BY InitTyped, TasksHaveUsers DEF Init, SlotsAreHeld
<1>2. Inv /\ [Next]_vars => Inv'
  BY NextTyped, NextHeld
<1>3. Inv => SlotsAreInUse
  BY DEF SlotsAreHeld, SlotsAreInUse, WorksAt, HeldBy
<1>4. QED
  BY <1>1, <1>2, <1>3, PTL DEF Spec

------------------------------------------------------------------------------
(* Queued tasks, when nothing is killed or requeued *)

NoCleanup == MaxCrashes = 0 /\ Cleaners = {}

LEMMA StepsWithoutCleanup ==
  ASSUME NoCleanup, TypeOK, [Next]_vars
  PROVE  \/ \E s \in Submitters : Submit(s)
         \/ \E w \in Workers : WorkLoop(w)
         \/ \E x \in Cancellers : Cancel(x)
         \/ Tick \/ (\E t \in Tasks : DropKey(t)) \/ UNCHANGED vars
  BY NothingCrashes DEF NoCleanup, NoKills, Next

LEMMA SubmitCarried ==
  ASSUME TypeOK, QueuedIsCarried, NEW s \in Submitters, Submit(s)
  PROVE  QueuedIsCarried'
<1>1. /\ s \in Procs /\ \A p \in Workers \cup Cancellers \cup Submitters : p \in Procs
      /\ \A p \in Workers \cup Cancellers : p # s
      /\ \A q \in Procs : q # s => proc'[q] = proc[q]
  BY KindsAreDistinct, SubmitterMoves
<1>2. \A t \in Tasks : /\ WorksAt(t, StartPcs) => WorksAt(t, StartPcs)'
                       /\ CancelledBy(t) => CancelledBy(t)'
  BY <1>1 DEF WorksAt, CancelledBy, At
<1>3. CASE PushTask(s)
  <2>1. PICK k \in Tasks : k = proc[s].task
    BY <1>1, <1>3 DEF PushTask, At, TypeOK, Locals, Placed, Submits
  <2>2. ToSet(ready') = ToSet(ready) \cup {k} /\ UNCHANGED task
    BY <1>3, <2>1, PushAtHead DEF PushTask, TypeOK, TaskStore
  <2>3. \A t \in Tasks : PushedTo(t) => PushedTo(t)' \/ t = k
    BY <1>1, <2>1 DEF PushedTo, At
  <2>4. QED
    BY <1>2, <2>2, <2>3 DEF QueuedIsCarried
<1>4. CASE SaveTask(s)
  <2>1. PICK k \in Tasks : k = proc'[s].task
    BY <1>4, SubmitterStages
  <2>2. /\ PushedTo(k)'
        /\ \A t \in Tasks : t # k => task'[t] = task[t]
        /\ UNCHANGED ready
    BY <1>4, <2>1, SubmitterStages DEF PushedTo, At, SaveTask, TypeOK, TaskStore
  <2>3. \A t \in Tasks : PushedTo(t) => PushedTo(t)'
    BY <1>1, <1>4, SubmitterStages DEF PushedTo, At
  <2>4. QED
    BY <1>2, <2>2, <2>3 DEF QueuedIsCarried
<1>5. CASE ~PushTask(s) /\ ~SaveTask(s)
  <2>1. UNCHANGED <<task, ready>> /\ ~At(s, "push")
    BY <1>5 DEF Submit, SubmitOne, SubmitBatch, CheckUser, CheckGlobal, RefuseTask, Refuse,
                AddToBatch, At, redis
  <2>2. \A t \in Tasks : PushedTo(t) => PushedTo(t)'
    BY <1>1, <2>1 DEF PushedTo, At
  <2>3. QED
    BY <1>2, <2>1, <2>2 DEF QueuedIsCarried
<1>6. QED
  BY <1>3, <1>4, <1>5

LEMMA WorkCarried ==
  ASSUME TypeOK, QueuedIsCarried, NEW w \in Workers, WorkLoop(w)
  PROVE  QueuedIsCarried'
<1> USE DEF StartPcs, DequeuePcs
<1>1. /\ w \in Procs /\ \A p \in Workers \cup Cancellers \cup Submitters : p \in Procs
      /\ \A p \in Submitters \cup Cancellers : p # w
      /\ \A q \in Procs : q # w => proc'[q] = proc[q]
  BY KindsAreDistinct, WorkerMoves
<1>2. \A t \in Tasks : /\ PushedTo(t) => PushedTo(t)'
                       /\ CancelledBy(t) => CancelledBy(t)'
  BY <1>1 DEF PushedTo, CancelledBy, At
<1>3. PICK k : k = proc[w].task
  OBVIOUS
<1>4. \A t \in Tasks : WorksAt(t, StartPcs) => WorksAt(t, StartPcs)' \/ t = k
  BY <1>1, <1>3 DEF WorksAt
<1>5. CASE Pop(w)
  <2>1. PICK e \in Tasks : e = Last(ready)
    BY <1>5, PopAtTail DEF Pop, TypeOK, TaskStore
  <2>2. ToSet(ready) = ToSet(ready') \cup {e} /\ UNCHANGED task
    BY <1>5, <2>1, PopAtTail DEF Pop, TypeOK, TaskStore
  <2>3. /\ proc[w].pc = "idle" /\ proc'[w].pc = "check" /\ proc'[w].task = e
    BY <1>5, <2>1, WorkerStages
  <2>4. WorksAt(e, StartPcs)'
    BY <2>3 DEF WorksAt
  <2>5. \A t \in Tasks : WorksAt(t, StartPcs) => WorksAt(t, StartPcs)'
    BY <1>1, <2>3 DEF WorksAt
  <2>6. QED
    BY <1>2, <2>2, <2>4, <2>5 DEF QueuedIsCarried
<1>6. CASE PutBack(w)
  <2>1. k \in Tasks
    BY <1>1, <1>3, <1>6 DEF PutBack, At, TypeOK, Locals, Placed, Works
  <2>2. ToSet(ready') = ToSet(ready) \cup {k} /\ UNCHANGED task
    BY <1>3, <1>6, <2>1, PushAtHead DEF PutBack, TypeOK, TaskStore
  <2>3. QED
    BY <1>2, <1>4, <2>2 DEF QueuedIsCarried
<1>7. CASE CheckSlot(w) \/ MarkUser(w) \/ MarkGlobal(w) \/ SetTimeout(w) \/ SetExpire(w)
  <2>1. /\ proc'[w].task = k /\ proc'[w].pc \in StartPcs
        /\ UNCHANGED <<task, ready>>
    BY <1>3, <1>7, WorkerStages
       DEF Step, CheckSlot, MarkUser, MarkGlobal, SetTimeout, SetExpire, redis
  <2>2. \A t \in Tasks : WorksAt(t, StartPcs) => WorksAt(t, StartPcs)'
    BY <1>1, <1>3, <2>1 DEF WorksAt
  <2>3. QED
    BY <1>2, <2>1, <2>2 DEF QueuedIsCarried
<1>8. CASE MarkTask(w) \/ AckStatus(w)
  <2>1. /\ \A t \in Tasks : task'[t] = task[t] \/ (t = k /\ task'[t].status # "queued")
        /\ k \in Tasks /\ task'[k].status # "queued"
        /\ UNCHANGED ready
    BY <1>1, <1>3, <1>8
       DEF MarkTask, AckStatus, At, TypeOK, TaskStore, TaskRow, Locals, Placed, Works
  <2>2. QED
    BY <1>2, <1>4, <2>1 DEF QueuedIsCarried
<1>9. CASE Release(w) \/ RecordOutcome(w) \/ \E ok \in BOOLEAN : FinishAnalysis(w, ok)
  <2>1. UNCHANGED <<task, ready>>
    BY <1>9 DEF Release, UnmarkUser, UnmarkGlobal, ClearTimeout, RecordOutcome, FinishAnalysis,
                redis
  <2>2. proc[w].pc \notin StartPcs
    BY <1>9, WorkerStages DEF Step, Release
  <2>3. \A t \in Tasks : WorksAt(t, StartPcs) => WorksAt(t, StartPcs)'
    BY <1>1, <2>2 DEF WorksAt
  <2>4. QED
    BY <1>2, <2>1, <2>3 DEF QueuedIsCarried
<1>10. QED
  BY <1>5, <1>6, <1>7, <1>8, <1>9 DEF WorkLoop

LEMMA CancelCarried ==
  ASSUME TypeOK, QueuedIsCarried, NEW x \in Cancellers, Cancel(x)
  PROVE  QueuedIsCarried'
<1>1. /\ x \in Procs /\ \A p \in Workers \cup Cancellers \cup Submitters : p \in Procs
      /\ \A p \in Submitters \cup Workers : p # x
      /\ \A q \in Procs : q # x => proc'[q] = proc[q]
      /\ proc \in [Procs -> Local] /\ proc[x] \in Local
  BY KindsAreDistinct, CancellerMoves DEF TypeOK, Locals
<1>2. \A t \in Tasks : /\ PushedTo(t) => PushedTo(t)'
                       /\ WorksAt(t, StartPcs) => WorksAt(t, StartPcs)'
  BY <1>1 DEF PushedTo, WorksAt, At
<1>3. PICK k : k = proc[x].task
  OBVIOUS
<1>4. CASE RemoveReady(x)
  <2>1. ToSet(ready') = ToSet(ready) \ {k} /\ UNCHANGED task
    BY <1>3, <1>4, WithoutOne DEF RemoveReady, TypeOK, TaskStore
  <2>2. /\ CancelledBy(k)'
        /\ \A t \in Tasks : CancelledBy(t) => CancelledBy(t)'
    BY <1>1, <1>3, <1>4 DEF RemoveReady, CancelledBy, At, GoTo, Local
  <2>3. QED
    BY <1>2, <2>1, <2>2 DEF QueuedIsCarried
<1>5. CASE CancelStatus(x)
  <2>1. /\ \A t \in Tasks : t # k => task'[t] = task[t]
        /\ k \in Tasks => task'[k].status = "cancelled"
        /\ UNCHANGED ready
    BY <1>3, <1>5 DEF CancelStatus, TypeOK, TaskStore, TaskRow
  <2>2. \A t \in Tasks : CancelledBy(t) => CancelledBy(t)' \/ t = k
    BY <1>1, <1>3 DEF CancelledBy, At
  <2>3. QED
    BY <1>2, <2>1, <2>2 DEF QueuedIsCarried
<1>6. CASE Release(x) \/ \E t \in Tasks : ReadStatus(x, t)
  <2>1. UNCHANGED <<task, ready>> /\ ~At(x, "cancel")
    BY <1>6 DEF Release, UnmarkUser, UnmarkGlobal, ClearTimeout, ReadStatus, At, redis
  <2>2. \A t \in Tasks : CancelledBy(t) => CancelledBy(t)'
    BY <1>1, <2>1 DEF CancelledBy, At
  <2>3. QED
    BY <1>2, <2>1, <2>2 DEF QueuedIsCarried
<1>7. QED
  BY <1>4, <1>5, <1>6 DEF Cancel, CancelStep

\* Without kills and cleanup loops, a task that says it is queued is in the list, or
\* somebody carries it there or is about to cancel it (queue_service.py:71-137, 331-356).
THEOREM QueuedStaysReachable == NoCleanup => (Spec => []QueuedIsReachable)
<1> SUFFICES ASSUME NoCleanup PROVE Spec => []QueuedIsReachable
  OBVIOUS
<1> DEFINE Inv == TypeOK /\ QueuedIsCarried
<1>1. Init => Inv
  BY InitTyped DEF Init, QueuedIsCarried, NoTask
<1>2. Inv /\ [Next]_vars => Inv'
  <2> SUFFICES ASSUME TypeOK, QueuedIsCarried, [Next]_vars PROVE QueuedIsCarried'
    BY NextTyped
  <2>1. CASE Tick \/ (\E t \in Tasks : DropKey(t)) \/ UNCHANGED vars
    BY <2>1 DEF Tick, DropKey, vars, redis, locals, QueuedIsCarried, PushedTo, CancelledBy,
                WorksAt, At
  <2>2. QED
    BY <2>1, StepsWithoutCleanup, SubmitCarried, WorkCarried, CancelCarried
<1>3. Inv => QueuedIsReachable
  BY KindsAreDistinct
     DEF QueuedIsCarried, QueuedIsReachable, PushedTo, CancelledBy, WorksAt, HeldBy
<1>4. QED
  BY <1>1, <1>2, <1>3, PTL DEF Spec

------------------------------------------------------------------------------
(* One analysis of each task, when nothing is killed or requeued *)

\* A step after which nobody has a task who had it not before.
LEMMA HoldersStay ==
  ASSUME OneHolder, UNCHANGED runs, IsInjective(ready'), ToSet(ready') \subseteq ToSet(ready),
         \A t \in Tasks : Exists(t) => Exists(t)',
         \A p \in Procs, t \in Tasks : Has(p, t)' => Has(p, t),
         \A p \in Procs, t \in Tasks :
           Has(p, t)' /\ proc'[p].pc \in EarlyPcs => proc[p].pc \in EarlyPcs
  PROVE  OneHolder'
  BY DEF OneHolder

\* LPUSH of the task a process has, which then has none.
LEMMA HandsIn ==
  ASSUME TypeOK, OneHolder, NEW p \in Procs, NEW k \in Tasks, Has(p, k), proc[p].pc \in EarlyPcs,
         ready' = <<k>> \o ready, UNCHANGED <<runs, task>>,
         \A q \in Procs : q # p => proc'[q] = proc[q],
         \A t \in Tasks : ~Has(p, t)'
  PROVE  OneHolder'
<1>1. /\ ToSet(ready') = ToSet(ready) \cup {k}
      /\ k \notin ToSet(ready)
      /\ IsInjective(ready')
  BY PushAtHead DEF OneHolder, TypeOK, TaskStore
<1>2. \A q \in Procs, t \in Tasks : Has(q, t)' => Has(q, t) /\ t # k /\ proc'[q] = proc[q]
  BY DEF OneHolder, Has, At
<1>3. Exists(k) /\ runs[k] = 0
  BY DEF OneHolder
<1>4. \A t \in Tasks : Exists(t)' <=> Exists(t)
  BY DEF Exists
<1>5. QED
  BY <1>1, <1>2, <1>3, <1>4 DEF OneHolder

LEMMA SubmitOnce ==
  ASSUME TypeOK, OneHolder, NEW s \in Submitters, Submit(s)
  PROVE  OneHolder'
<1>1. /\ s \in Procs /\ s \notin Workers
      /\ \A q \in Procs : q # s => proc'[q] = proc[q]
      /\ UNCHANGED runs /\ \A t \in Tasks : Exists(t) => Exists(t)'
  BY KindsAreDistinct, SubmitterMoves
<1>2. CASE PushTask(s)
  <2>1. PICK k \in Tasks : k = proc[s].task
    BY <1>1, <1>2 DEF PushTask, At, TypeOK, Locals, Placed, Submits
  <2>2. /\ Has(s, k) /\ proc[s].pc \in EarlyPcs
        /\ ready' = <<k>> \o ready /\ UNCHANGED task
    BY <1>2, <2>1 DEF PushTask, Has, At, EarlyPcs
  <2>3. \A t \in Tasks : ~Has(s, t)'
    BY <1>1, <1>2, SubmitterStages DEF Has, At
  <2>4. QED
    BY <1>1, <2>2, <2>3, HandsIn
<1>3. CASE SaveTask(s)
  <2>1. PICK k \in Tasks :
          /\ k = proc'[s].task /\ ~Exists(k)
          /\ task' = [task EXCEPT ![k] = [status |-> "queued", worker |-> None]]
    BY <1>3, SubmitterStages
  <2>2. ~Exists(k) /\ Exists(k)' /\ UNCHANGED ready
    BY <1>3, <2>1 DEF SaveTask, Exists, TypeOK, TaskStore
  <2>3. k \notin ToSet(ready) /\ runs[k] = 0 /\ \A p \in Procs : ~Has(p, k)
    BY <2>2 DEF OneHolder
  <2>4. /\ \A p \in Procs, t \in Tasks : Has(p, t)' => (p = s /\ t = k) \/ (p # s /\ Has(p, t))
        /\ Has(s, k)'
    BY <1>1, <1>3, <2>1, SubmitterStages DEF Has, At
  <2>5. QED
    BY <1>1, <2>2, <2>3, <2>4 DEF OneHolder
<1>4. CASE ~PushTask(s) /\ ~SaveTask(s)
  <2>1. UNCHANGED ready /\ \A t \in Tasks : ~Has(s, t)'
    BY <1>1, <1>4, SubmitterStages
       DEF Submit, SubmitOne, SubmitBatch, CheckUser, CheckGlobal, RefuseTask, Refuse,
           AddToBatch, Has, At, redis
  <2>2. \A p \in Procs, t \in Tasks : Has(p, t)' => Has(p, t) /\ proc'[p] = proc[p]
    BY <1>1, <2>1 DEF Has, At
  <2>3. QED
    BY <1>1, <2>1, <2>2, HoldersStay DEF OneHolder
<1>5. QED
  BY <1>2, <1>3, <1>4

LEMMA WorkOnce ==
  ASSUME TypeOK, OneHolder, NEW w \in Workers, WorkLoop(w)
  PROVE  OneHolder'
<1> USE DEF StartPcs, DequeuePcs, EarlyPcs
<1>1. /\ w \in Procs /\ w \notin Submitters
      /\ \A q \in Procs : q # w => proc'[q] = proc[q]
      /\ \A t \in Tasks : Exists(t) => Exists(t)'
  BY KindsAreDistinct, WorkerMoves
<1>2. PICK k \in Tasks \cup {None} : k = proc[w].task
  BY <1>1 DEF TypeOK, Locals, Local
<1>3. proc[w].pc # "idle" => k \in Tasks
  BY <1>1, <1>2 DEF TypeOK, Locals, Placed, Works
<1>4. CASE Pop(w)
  <2>1. PICK e \in Tasks : e = Last(ready)
    BY <1>4, PopAtTail DEF Pop, TypeOK, TaskStore
  <2>2. /\ ToSet(ready) = ToSet(ready') \cup {e}
        /\ IsInjective(ready') /\ e \notin ToSet(ready')
        /\ UNCHANGED <<task, runs>>
    BY <1>4, <2>1, PopAtTail DEF Pop, OneHolder, TypeOK, TaskStore, others, history
  <2>3. Exists(e) /\ runs[e] = 0 /\ \A p \in Procs : ~Has(p, e)
    BY <2>2 DEF OneHolder
  <2>4. /\ \A p \in Procs, t \in Tasks : Has(p, t)' => (p = w /\ t = e) \/ (p # w /\ Has(p, t))
        /\ Has(w, e)'
    BY <1>1, <1>4, <2>1, WorkerStages DEF Has, At
  <2>5. QED
    BY <1>1, <2>2, <2>3, <2>4 DEF OneHolder, Exists
<1>5. CASE PutBack(w)
  <2>1. /\ Has(w, k) /\ proc[w].pc \in EarlyPcs /\ k \in Tasks
        /\ ready' = <<k>> \o ready /\ UNCHANGED <<task, runs>>
    BY <1>2, <1>3, <1>5 DEF PutBack, Has, At, others, history
  <2>2. \A t \in Tasks : ~Has(w, t)'
    BY <1>1, <1>5, WorkerStages DEF Has, At
  <2>3. QED
    BY <1>1, <2>1, <2>2, HandsIn
<1>6. CASE MarkTask(w)
  <2>1. /\ k \in Tasks /\ proc[w].pc = "markTask"
        /\ proc'[w].pc = "analyse" /\ proc'[w].task = k
        /\ runs' = [runs EXCEPT ![k] = @ + 1] /\ UNCHANGED ready
    BY <1>2, <1>3, <1>6, WorkerStages DEF MarkTask, Step
  <2>2. Has(w, k) /\ runs[k] = 0
    BY <1>1, <1>2, <2>1 DEF OneHolder, Has, At
  <2>3. runs'[k] = 1 /\ \A t \in Tasks : t # k => runs'[t] = runs[t]
    BY <2>1, <2>2 DEF TypeOK, Counts
  <2>4. /\ \A p \in Procs, t \in Tasks : Has(p, t)' => Has(p, t)
        /\ \A p \in Procs, t \in Tasks : Has(p, t)' /\ p # w => t # k /\ proc'[p] = proc[p]
        /\ \A t \in Tasks : Has(w, t)' => t = k
    BY <1>1, <1>2, <2>1, <2>2 DEF OneHolder, Has, At
  <2>5. \A t \in Tasks : ~Exists(t)' \/ t \in ToSet(ready') => runs'[t] = 0
    BY <1>1, <2>1, <2>2, <2>3 DEF OneHolder
  <2>6. \A p \in Procs, t \in Tasks : Has(p, t)' /\ proc'[p].pc \in EarlyPcs => runs'[t] = 0
    BY <2>1, <2>3, <2>4 DEF OneHolder
  <2>7. QED
    BY <1>1, <2>1, <2>3, <2>4, <2>5, <2>6 DEF OneHolder
<1>7. CASE ~Pop(w) /\ ~PutBack(w) /\ ~MarkTask(w)
  <2>1. UNCHANGED <<ready, runs>>
    BY <1>7 DEF WorkLoop, CheckSlot, MarkUser, MarkGlobal, SetTimeout, SetExpire, FinishAnalysis,
                Release, UnmarkUser, UnmarkGlobal, ClearTimeout, AckStatus, RecordOutcome,
                redis, others, history
  <2>2. /\ proc[w].pc # "idle"
        /\ proc'[w].pc = "idle" \/ proc'[w].task = proc[w].task
        /\ proc'[w].pc \in EarlyPcs => proc[w].pc \in EarlyPcs
    BY <1>7, WorkerStages DEF WorkLoop, Release, Step
  <2>3. \A p \in Procs, t \in Tasks : Has(p, t)' => Has(p, t)
    BY <1>1, <2>2 DEF Has, At
  <2>4. \A p \in Procs : proc'[p].pc \in EarlyPcs => proc[p].pc \in EarlyPcs
    BY <1>1, <2>2
  <2>5. QED
    BY <1>1, <2>1, <2>3, <2>4, HoldersStay DEF OneHolder
<1>8. QED
  BY <1>4, <1>5, <1>6, <1>7

LEMMA CancelOnce ==
  ASSUME TypeOK, OneHolder, NEW x \in Cancellers, Cancel(x)
  PROVE  OneHolder'
<1>1. /\ x \in Procs /\ x \notin Submitters \cup Workers
      /\ \A q \in Procs : q # x => proc'[q] = proc[q]
      /\ \A t \in Tasks : Exists(t) => Exists(t)'
  BY KindsAreDistinct, CancellerMoves
<1>2. \A p \in Procs, t \in Tasks : Has(p, t)' => Has(p, t) /\ proc'[p] = proc[p]
  BY <1>1 DEF Has, At
<1>3. UNCHANGED runs
  BY DEF Cancel, CancelStep, ReadStatus, Release, UnmarkUser, UnmarkGlobal, ClearTimeout,
         RemoveReady, CancelStatus, redis, others, history
<1>4. IsInjective(ready') /\ ToSet(ready') \subseteq ToSet(ready)
  <2>1. CASE RemoveReady(x)
    BY <2>1, WithoutOne DEF RemoveReady, OneHolder, TypeOK, TaskStore
  <2>2. CASE ~RemoveReady(x)
    BY <2>2 DEF Cancel, CancelStep, ReadStatus, Release, UnmarkUser, UnmarkGlobal, ClearTimeout,
                CancelStatus, redis, OneHolder
  <2>3. QED
    BY <2>1, <2>2
<1>5. QED
  BY <1>1, <1>2, <1>3, <1>4, HoldersStay

LEMMA NextOnce ==
  ASSUME NoCleanup, TypeOK, OneHolder, [Next]_vars
  PROVE  OneHolder'
<1>1. CASE Tick \/ (\E t \in Tasks : DropKey(t)) \/ UNCHANGED vars
  <2>1. UNCHANGED <<task, ready, runs, proc>>
    BY <1>1 DEF Tick, DropKey, vars, redis, locals, history
  <2>2. QED
    BY <2>1 DEF OneHolder, Has, At, Exists
<1>2. QED
  BY <1>1, StepsWithoutCleanup, SubmitOnce, WorkOnce, CancelOnce

LEMMA InitOnce == Init => OneHolder
<1> SUFFICES ASSUME Init PROVE OneHolder
  OBVIOUS
<1>1. \A p \in Procs, t \in Tasks : ~Has(p, t)
  BY DEF Init, Has, At, Idle
<1>2. QED
  BY <1>1, NothingInEmpty DEF Init, OneHolder, Exists, NoTask

\* Without kills and cleanup loops RPOP hands a task to one worker, once, however often
\* it is put back or cancelled on its way (queue_service.py:104-137).
THEOREM TasksRunOnce == NoCleanup => (Spec => []RunsOnce)
<1> SUFFICES ASSUME NoCleanup PROVE Spec => []RunsOnce
  OBVIOUS
<1> DEFINE Inv == TypeOK /\ OneHolder
<1>1. Init => Inv
  BY InitTyped, InitOnce
<1>2. Inv /\ [Next]_vars => Inv'
  BY NextTyped, NextOnce
<1>3. Inv => RunsOnce
  BY DEF OneHolder, RunsOnce
<1>4. QED
  BY <1>1, <1>2, <1>3, PTL DEF Spec

------------------------------------------------------------------------------
(* One outcome of each task *)

\* Nothing about the task, or of who has it, changes.
LEMMA OutcomeStays ==
  ASSUME NEW t \in Tasks, OutcomeOf(t), task'[t] = task[t], UNCHANGED <<completed, failed>>,
         t \in completed \cup failed =>
           t \notin ToSet(ready') /\ \A p \in Procs : ~Has(p, t)',
         \A w \in Workers : \/ proc'[w] = proc[w]
                            \/ proc[w].pc # "record" /\ proc'[w].pc # "record"
  PROVE  OutcomeOf(t)'
<1>1. \A ok : Recording(t, ok) <=> Recording(t, ok)'
  BY DEF Recording, At
<1>2. \A w \in Workers : At(w, "record")' => At(w, "record") /\ proc'[w] = proc[w]
  BY DEF At
<1>3. QED
  BY <1>1, <1>2 DEF OutcomeOf

\* A step that hands a task to somebody hands on one that has no outcome yet.
LEMMA HandsOn ==
  ASSUME OneHolder, OneOutcome, UNCHANGED <<completed, failed>>,
         NEW k, \A t \in Tasks : t # k => task'[t] = task[t],
         \A t \in Tasks : t # k /\ t \in ToSet(ready') => t \in ToSet(ready),
         \A p \in Procs, t \in Tasks : t # k /\ Has(p, t)' => Has(p, t),
         \A w \in Workers : \/ proc'[w] = proc[w]
                            \/ proc[w].pc # "record" /\ proc'[w].pc # "record",
         k \in Tasks => OutcomeOf(k)'
  PROVE  OneOutcome'
<1> SUFFICES ASSUME NEW t \in Tasks, t # k PROVE OutcomeOf(t)'
  BY DEF OneOutcome
<1>1. OutcomeOf(t)
  BY DEF OneOutcome
<1>2. t \in completed \cup failed =>
        t \notin ToSet(ready') /\ \A p \in Procs : ~Has(p, t)'
  BY <1>1 DEF OutcomeOf
<1>3. QED
  BY <1>1, <1>2, OutcomeStays

\* A task that is in the list, with somebody, or not made yet has no outcome.
LEMMA NoOutcomeYet ==
  ASSUME OneOutcome, NEW k \in Tasks,
         \/ ~Exists(k)
         \/ k \in ToSet(ready)
         \/ \E p \in Procs : Has(p, k)
  PROVE  k \notin completed \cup failed
  BY DEF OneOutcome, OutcomeOf, Exists

LEMMA SubmitOutcome ==
  ASSUME TypeOK, OneHolder, OneOutcome, NEW s \in Submitters, Submit(s)
  PROVE  OneOutcome'
<1>1. /\ s \in Procs /\ s \notin Workers /\ \A w \in Workers : w \in Procs
      /\ \A q \in Procs : q # s => proc'[q] = proc[q]
      /\ UNCHANGED <<completed, failed>>
  BY KindsAreDistinct, SubmitterMoves
<1>2. \A w \in Workers : proc'[w] = proc[w]
  BY <1>1
<1>3. CASE PushTask(s)
  <2>1. PICK k \in Tasks : k = proc[s].task
    BY <1>1, <1>3 DEF PushTask, At, TypeOK, Locals, Placed, Submits
  <2>2. ToSet(ready') = ToSet(ready) \cup {k} /\ UNCHANGED task
    BY <1>3, <2>1, PushAtHead DEF PushTask, TypeOK, TaskStore
  <2>3. Has(s, k) /\ \A t \in Tasks : ~Has(s, t)'
    BY <1>1, <1>3, <2>1, SubmitterStages DEF PushTask, Has, At
  <2>4. \A p \in Procs, t \in Tasks : Has(p, t)' => Has(p, t)
    BY <1>1, <2>3 DEF Has, At
  <2>5. k \notin completed \cup failed
    BY <1>1, <2>3, NoOutcomeYet
  <2>6. OutcomeOf(k)'
    BY <1>1, <1>2, <2>2, <2>5, OutcomeStays DEF OneOutcome
  <2>7. QED
    BY <1>1, <1>2, <2>2, <2>4, <2>6, HandsOn
<1>4. CASE SaveTask(s)
  <2>1. PICK k \in Tasks :
          /\ k = proc'[s].task /\ ~Exists(k)
          /\ task' = [task EXCEPT ![k] = [status |-> "queued", worker |-> None]]
    BY <1>4, SubmitterStages
  <2>2. k \notin completed \cup failed /\ \A p \in Procs : ~Has(p, k)
    BY <2>1, NoOutcomeYet DEF OneHolder
  <2>3. /\ task'[k].status = "queued" /\ \A t \in Tasks : t # k => task'[t] = task[t]
        /\ UNCHANGED ready
    BY <1>4, <2>1 DEF SaveTask, TypeOK, TaskStore
  <2>4. \A p \in Procs, t \in Tasks : t # k /\ Has(p, t)' => Has(p, t)
    BY <1>1, <2>1 DEF Has, At
  <2>5. \A w \in Workers : proc'[w].task = k => proc'[w].pc # "record"
    BY <1>1, <1>2, <2>2 DEF Has, At
  <2>6. OutcomeOf(k)'
    BY <1>1, <2>2, <2>3, <2>5 DEF OutcomeOf, At
  <2>7. QED
    BY <1>1, <1>2, <2>3, <2>4, <2>6, HandsOn
<1>5. CASE ~PushTask(s) /\ ~SaveTask(s)
  <2>1. UNCHANGED <<task, ready>> /\ \A t \in Tasks : ~Has(s, t)'
    BY <1>1, <1>5, SubmitterStages
       DEF Submit, SubmitOne, SubmitBatch, CheckUser, CheckGlobal, RefuseTask, Refuse,
           AddToBatch, Has, At, redis
  <2>2. \A p \in Procs, t \in Tasks : Has(p, t)' => Has(p, t)
    BY <1>1, <2>1 DEF Has, At
  <2>3. ASSUME NEW t \in Tasks PROVE OutcomeOf(t)'
    BY <1>1, <1>2, <2>1, <2>2, OutcomeStays DEF OneOutcome, OutcomeOf
  <2>4. QED
    BY <2>3 DEF OneOutcome
<1>6. QED
  BY <1>3, <1>4, <1>5

LEMMA WorkOutcome ==
  ASSUME TypeOK, OneHolder, OneOutcome, NEW w \in Workers, WorkLoop(w)
  PROVE  OneOutcome'
<1>1. /\ w \in Procs /\ w \notin Submitters /\ \A v \in Workers : v \in Procs
      /\ \A q \in Procs : q # w => proc'[q] = proc[q]
  BY KindsAreDistinct, WorkerMoves
<1>2. PICK k \in Tasks \cup {None} : k = proc[w].task
  BY <1>1 DEF TypeOK, Locals, Local
<1>3. proc[w].pc # "idle" => /\ k \in Tasks /\ Has(w, k)
                             /\ k \notin completed \cup failed
                             /\ \A q \in Procs : q # w => ~Has(q, k)
                             /\ \A v \in Workers : v # w /\ proc[v].pc # "idle" => proc[v].task # k
  <2> SUFFICES ASSUME proc[w].pc # "idle"
               PROVE  /\ k \in Tasks /\ Has(w, k)
                      /\ k \notin completed \cup failed
                      /\ \A q \in Procs : q # w => ~Has(q, k)
                      /\ \A v \in Workers : v # w /\ proc[v].pc # "idle" => proc[v].task # k
    OBVIOUS
  <2>1. k \in Tasks /\ Has(w, k)
    BY <1>1, <1>2 DEF TypeOK, Locals, Placed, Works, Has, At
  <2>2. k \notin completed \cup failed /\ \A q \in Procs : q # w => ~Has(q, k)
    BY <1>1, <2>1, NoOutcomeYet DEF OneHolder
  <2>3. QED
    BY <1>1, <2>1, <2>2 DEF Has, At
<1>4. CASE Pop(w)
  <2>1. PICK e \in Tasks : e = Last(ready)
    BY <1>4, PopAtTail DEF Pop, TypeOK, TaskStore
  <2>2. /\ ToSet(ready) = ToSet(ready') \cup {e}
        /\ UNCHANGED <<task, completed, failed>>
    BY <1>4, <2>1, PopAtTail DEF Pop, TypeOK, TaskStore, outcomes
  <2>3. proc[w].pc = "idle" /\ proc'[w].pc = "check" /\ proc'[w].task = e
    BY <1>4, <2>1, WorkerStages
  <2>4. e \notin completed \cup failed
    BY <2>2, NoOutcomeYet
  <2>5. \A p \in Procs, t \in Tasks : t # e /\ Has(p, t)' => Has(p, t)
    BY <1>1, <2>3 DEF Has, At
  <2>6. \A v \in Workers : \/ proc'[v] = proc[v]
                           \/ proc[v].pc # "record" /\ proc'[v].pc # "record"
    BY <1>1, <2>3
  <2>7. OutcomeOf(e)'
    BY <2>2, <2>4, <2>6, OutcomeStays DEF OneOutcome
  <2>8. QED
    BY <2>2, <2>5, <2>6, <2>7, HandsOn
<1>5. CASE PutBack(w)
  <2>1. /\ proc[w].pc = "putBack" /\ proc'[w].pc = "idle" /\ k \in Tasks
        /\ UNCHANGED <<task, completed, failed>>
    BY <1>3, <1>5, WorkerStages DEF PutBack, outcomes
  <2>2. ToSet(ready') = ToSet(ready) \cup {k}
    BY <1>2, <1>5, <2>1, PushAtHead DEF PutBack, TypeOK, TaskStore
  <2>3. \A p \in Procs, t \in Tasks : Has(p, t)' => Has(p, t)
    BY <1>1, <2>1 DEF Has, At
  <2>4. \A v \in Workers : \/ proc'[v] = proc[v]
                           \/ proc[v].pc # "record" /\ proc'[v].pc # "record"
    BY <1>1, <2>1
  <2>5. OutcomeOf(k)'
    BY <1>3, <2>1, <2>4, OutcomeStays DEF OneOutcome
  <2>6. QED
    BY <2>1, <2>2, <2>3, <2>4, <2>5, HandsOn
<1>6. CASE MarkTask(w)
  <2>1. /\ proc[w].pc = "markTask" /\ proc'[w].pc = "analyse" /\ proc'[w].task = k
    BY <1>2, <1>6, WorkerStages DEF Step
  <2>2. /\ k \in Tasks /\ task'[k].status = "processing"
        /\ \A t \in Tasks : t # k => task'[t] = task[t]
        /\ UNCHANGED <<ready, completed, failed>>
    BY <1>2, <1>3, <1>6, <2>1 DEF MarkTask, outcomes, TypeOK, TaskStore
  <2>3. \A p \in Procs, t \in Tasks : t # k /\ Has(p, t)' => Has(p, t)
    BY <1>1, <2>1 DEF Has, At
  <2>4. \A v \in Workers : \/ proc'[v] = proc[v]
                           \/ proc[v].pc # "record" /\ proc'[v].pc # "record"
    BY <1>1, <2>1
  <2>5. OutcomeOf(k)'
    <3>1. \A v \in Workers : proc'[v].task = k => proc'[v].pc # "record"
      BY <1>1, <1>3, <2>1
    <3>2. QED
      BY <1>3, <2>1, <2>2, <3>1 DEF OutcomeOf, At
  <2>6. QED
    BY <2>2, <2>3, <2>4, <2>5, HandsOn
<1>7. CASE AckStatus(w)
  <2>1. /\ proc[w].pc = "ack" /\ proc'[w].pc = "record" /\ proc'[w].task = k
        /\ proc'[w].ok = proc[w].ok
    BY <1>2, <1>7, WorkerStages DEF Step
  <2>2. /\ k \in Tasks /\ task'[k].status = Outcome(proc[w].ok)
        /\ \A t \in Tasks : t # k => task'[t] = task[t]
        /\ UNCHANGED <<ready, completed, failed>>
    BY <1>2, <1>3, <1>7, <2>1 DEF AckStatus, Outcome, outcomes, TypeOK, TaskStore, TaskRow
  <2>3. OutcomeOf(k)'
    <3>1. \A v \in Workers : v # w /\ proc'[v].task = k => proc'[v].pc # "record"
      BY <1>1, <1>3, <2>1
    <3>2. proc'[w].ok \in BOOLEAN /\ Recording(k, proc[w].ok)'
      BY <1>1, <2>1 DEF Recording, At, TypeOK, Locals, Local
    <3>3. QED
      BY <1>3, <2>1, <2>2, <3>1, <3>2 DEF OutcomeOf, Outcome, At
  <2>4. ASSUME NEW t \in Tasks, t # k PROVE OutcomeOf(t)'
    <3>1. \A p \in Procs : Has(p, t)' => Has(p, t)
      BY <1>1, <2>1, <2>4 DEF Has, At
    <3>2. \A v \in Workers : proc'[v].task = t => proc'[v] = proc[v]
      BY <1>1, <2>1, <2>4
    <3>3. \A v \in Workers : proc[v].task = t => proc'[v] = proc[v]
      BY <1>1, <1>2, <2>4
    <3>4. \A ok : Recording(t, ok) => Recording(t, ok)'
      BY <3>3 DEF Recording, At
    <3>5. QED
      BY <2>2, <2>4, <3>1, <3>2, <3>4 DEF OneOutcome, OutcomeOf, At
  <2>5. QED
    BY <2>3, <2>4 DEF OneOutcome
<1>8. CASE RecordOutcome(w)
  <2>1. proc[w].pc = "record" /\ proc'[w].pc = "idle" /\ k \in Tasks
    BY <1>3, <1>8, WorkerStages
  <2>2. /\ UNCHANGED <<task, ready>>
        /\ IF proc[w].ok THEN completed' = completed \cup {k} /\ failed' = failed
                         ELSE failed' = failed \cup {k} /\ completed' = completed
    BY <1>2, <1>8 DEF RecordOutcome
  <2>3. \A p \in Procs, t \in Tasks : Has(p, t)' => Has(p, t) /\ t # k
    BY <1>1, <1>3, <2>1 DEF Has, At
  <2>4. \A v \in Workers : At(v, "record")' => v # w /\ proc'[v] = proc[v]
    BY <1>1, <2>1 DEF At
  <2>5. OutcomeOf(k)'
    <3>1. task[k].status \in {Outcome(proc[w].ok), "cancelled"} /\ proc[w].ok \in BOOLEAN
      BY <1>1, <1>2, <2>1 DEF OneOutcome, OutcomeOf, At, TypeOK, Locals, Local
    <3>2. k \notin ToSet(ready)
      BY <1>1, <1>3, <2>1 DEF OneHolder
    <3>3. \A v \in Workers : ~(At(v, "record")' /\ proc'[v].task = k)
      BY <1>3, <2>1, <2>4 DEF At
    <3>4. QED
      BY <1>3, <2>1, <2>2, <2>3, <3>1, <3>2, <3>3 DEF OutcomeOf, Outcome
  <2>6. ASSUME NEW t \in Tasks, t # k PROVE OutcomeOf(t)'
    <3>1. \A ok : Recording(t, ok) => Recording(t, ok)'
      BY <1>1, <1>2, <2>6 DEF Recording, At
    <3>2. OutcomeOf(t)
      BY DEF OneOutcome
    <3>3. QED
      BY <2>2, <2>3, <2>4, <2>6, <3>1, <3>2 DEF OutcomeOf, At
  <2>7. QED
    BY <2>5, <2>6 DEF OneOutcome
<1>9. CASE /\ ~Pop(w) /\ ~PutBack(w) /\ ~MarkTask(w)
           /\ ~AckStatus(w) /\ ~RecordOutcome(w)
  <2>1. UNCHANGED <<task, ready, completed, failed>>
    BY <1>9 DEF WorkLoop, CheckSlot, MarkUser, MarkGlobal, SetTimeout, SetExpire, FinishAnalysis,
                Release, UnmarkUser, UnmarkGlobal, ClearTimeout, redis, outcomes
  <2>2. /\ proc[w].pc \notin {"idle", "record"} /\ proc'[w].pc # "record"
        /\ proc'[w].task = proc[w].task
    BY <1>9, WorkerStages DEF WorkLoop, Release, Step
  <2>3. \A p \in Procs, t \in Tasks : Has(p, t)' => Has(p, t)
    BY <1>1, <2>2 DEF Has, At
  <2>4. ASSUME NEW t \in Tasks PROVE OutcomeOf(t)'
    BY <1>1, <2>1, <2>2, <2>3, OutcomeStays DEF OneOutcome, OutcomeOf
  <2>5. QED
    BY <2>4 DEF OneOutcome
<1>10. QED
  BY <1>4, <1>5, <1>6, <1>7, <1>8, <1>9

LEMMA CancelOutcome ==
  ASSUME TypeOK, OneHolder, OneOutcome, NEW x \in Cancellers, Cancel(x)
  PROVE  OneOutcome'
<1>1. /\ x \in Procs /\ x \notin Submitters \cup Workers /\ \A w \in Workers : w \in Procs
      /\ \A q \in Procs : q # x => proc'[q] = proc[q]
      /\ proc[x] \in Local
  BY KindsAreDistinct, CancellerMoves DEF TypeOK, Locals
<1>2. \A p \in Procs, t \in Tasks : Has(p, t)' => Has(p, t)
  BY <1>1 DEF Has, At
<1>3. \A w \in Workers : proc'[w] = proc[w]
  BY <1>1
<1>4. UNCHANGED <<completed, failed>>
  BY DEF Cancel, CancelStep, ReadStatus, Release, UnmarkUser, UnmarkGlobal, ClearTimeout,
         RemoveReady, CancelStatus, redis, outcomes
<1>5. ToSet(ready') \subseteq ToSet(ready)
  <2>1. CASE RemoveReady(x)
    BY <2>1, WithoutOne DEF RemoveReady, TypeOK, TaskStore
  <2>2. CASE ~RemoveReady(x)
    BY <2>2 DEF Cancel, CancelStep, ReadStatus, Release, UnmarkUser, UnmarkGlobal, ClearTimeout,
                CancelStatus, redis
  <2>3. QED
    BY <2>1, <2>2
<1>6. ASSUME NEW t \in Tasks PROVE task'[t] = task[t] \/ task'[t].status = "cancelled"
  BY DEF Cancel, CancelStep, ReadStatus, Release, UnmarkUser, UnmarkGlobal, ClearTimeout,
         RemoveReady, CancelStatus, redis, TypeOK, TaskStore, TaskRow
<1>7. ASSUME NEW t \in Tasks PROVE OutcomeOf(t)'
  <2>1. OutcomeOf(t)
    BY DEF OneOutcome
  <2>2. CASE task'[t] = task[t]
    BY <1>2, <1>3, <1>4, <1>5, <2>1, <2>2, OutcomeStays DEF OutcomeOf
  <2>3. CASE task'[t].status = "cancelled"
    BY <1>2, <1>3, <1>4, <1>5, <2>1, <2>3 DEF OutcomeOf, At
  <2>4. QED
    BY <1>6, <2>2, <2>3
<1>8. QED
  BY <1>7 DEF OneOutcome

LEMMA NextOutcome ==
  ASSUME NoCleanup, TypeOK, OneHolder, OneOutcome, [Next]_vars
  PROVE  OneOutcome'
<1>1. CASE Tick \/ (\E t \in Tasks : DropKey(t)) \/ UNCHANGED vars
  <2>1. UNCHANGED <<task, ready, completed, failed, proc>>
    BY <1>1 DEF Tick, DropKey, vars, redis, locals, outcomes
  <2>2. QED
    BY <2>1 DEF OneOutcome, OutcomeOf, Recording, Has, At
<1>2. QED
  BY <1>1, StepsWithoutCleanup, SubmitOutcome, WorkOutcome, CancelOutcome

\* Without kills and cleanup loops, between two acknowledgements a finished task is in
\* the set of its outcome and in no other, unless its cancellation came after its end
\* (queue_service.py:143-175).
THEOREM OutcomesStayTrue == NoCleanup => (Spec => []OutcomesAgree)
<1> SUFFICES ASSUME NoCleanup PROVE Spec => []OutcomesAgree
  OBVIOUS
<1> DEFINE Inv == TypeOK /\ OneHolder /\ OneOutcome
<1>1. Init => Inv
  <2>1. Init => OneOutcome
    <3>1. SUFFICES ASSUME Init, NEW t \in Tasks PROVE OutcomeOf(t)
      BY DEF OneOutcome
    <3>2. \A w \in Workers : ~At(w, "record")
      BY <3>1, KindsAreDistinct DEF Init, At, Idle
    <3>3. task[t].status = "absent" /\ completed = {} /\ failed = {}
      BY <3>1 DEF Init, NoTask
    <3>4. QED
      BY <3>2, <3>3 DEF OutcomeOf
  <2>2. QED
    BY <2>1, InitTyped, InitOnce
<1>2. Inv /\ [Next]_vars => Inv'
  BY NextTyped, NextOnce, NextOutcome
<1>3. Inv => OutcomesAgree
  BY KindsAreDistinct DEF OneOutcome, OutcomeOf, OutcomesAgree, Recording, HeldBy
<1>4. QED
  BY <1>1, <1>2, <1>3, PTL DEF Spec

------------------------------------------------------------------------------
(* One copy in the list, with one cleanup loop and any kills *)

OneLoop == \A c, d \in Cleaners : c = d

SweepIsOnce(c) == /\ IsInjective(sweep[c].expired)
                  /\ sweep[c].keys \cap ToSet(sweep[c].expired) = {}

\* A step that makes no copy: nothing is new in the list, in a process's hands or in a
\* sweep, and no timeout is set that was not set before.
LEMMA CopiesStay ==
  ASSUME OneCopy, IsInjective(ready'), ToSet(ready') \subseteq ToSet(ready),
         \A t \in Tasks : Exists(t) => Exists(t)',
         \A t \in Tasks : visibility[t] = NoTimeout => visibility'[t] = NoTimeout,
         \A t \in Tasks : IsExpired(t)' => IsExpired(t),
         \A p \in Procs, t \in Tasks : Carries(p, t)' => Carries(p, t),
         \A p \in Procs, t \in Tasks : Carries(p, t)' /\ proc[p].pc \in ReleasePcs =>
                                         visibility'[t] = NoTimeout \/ proc'[p].pc \in ReleasePcs,
         \A c \in Cleaners : SweepIsOnce(c)'
  PROVE  OneCopy'
<1>1. \A t \in Tasks : t \in ToSet(ready') =>
        visibility'[t] = NoTimeout /\ ~IsExpired(t)' /\ \A p \in Procs : ~Carries(p, t)'
  BY DEF OneCopy
<1>2. \A t \in Tasks, p \in Procs : Carries(p, t)' =>
        /\ ~IsExpired(t)'
        /\ visibility'[t] = NoTimeout \/ (p \in Cleaners /\ proc'[p].pc \in ReleasePcs)
        /\ \A q \in Procs : Carries(q, t)' => q = p
  BY DEF OneCopy
<1>3. \A t \in Tasks : ~Exists(t)' =>
        /\ visibility'[t] = NoTimeout /\ ~IsExpired(t)'
        /\ t \notin ToSet(ready') /\ \A p \in Procs : ~Carries(p, t)'
  BY DEF OneCopy
<1>4. QED
  BY <1>1, <1>2, <1>3 DEF OneCopy, SweepIsOnce

\* LPUSH of the task a process carries, which then carries none.
LEMMA PushesIn ==
  ASSUME TypeOK, OneCopy, NEW p \in Procs, NEW k \in Tasks, Carries(p, k),
         visibility[k] = NoTimeout, ready' = <<k>> \o ready, UNCHANGED <<task, visibility, sweep>>,
         \A q \in Procs : q # p => proc'[q] = proc[q],
         \A t \in Tasks : ~Carries(p, t)'
  PROVE  OneCopy'
<1>1. ToSet(ready') = ToSet(ready) \cup {k} /\ k \notin ToSet(ready) /\ IsInjective(ready')
  BY PushAtHead DEF OneCopy, TypeOK, TaskStore
<1>2. \A q \in Procs, t \in Tasks : Carries(q, t)' => Carries(q, t) /\ t # k /\ proc'[q] = proc[q]
  BY DEF OneCopy, Carries, At
<1>3. /\ \A t \in Tasks : (Exists(t)' <=> Exists(t)) /\ (IsExpired(t)' <=> IsExpired(t))
      /\ Exists(k) /\ ~IsExpired(k)
  BY DEF Exists, IsExpired, OneCopy
<1>4. \A t \in Tasks : t \in ToSet(ready') =>
        visibility'[t] = NoTimeout /\ ~IsExpired(t)' /\ \A q \in Procs : ~Carries(q, t)'
  BY <1>1, <1>2, <1>3 DEF OneCopy
<1>5. \A t \in Tasks, q \in Procs : Carries(q, t)' =>
        /\ ~IsExpired(t)'
        /\ visibility'[t] = NoTimeout \/ (q \in Cleaners /\ proc'[q].pc \in ReleasePcs)
        /\ \A r \in Procs : Carries(r, t)' => r = q
  BY <1>2, <1>3 DEF OneCopy
<1>6. \A t \in Tasks : ~Exists(t)' =>
        /\ visibility'[t] = NoTimeout /\ ~IsExpired(t)'
        /\ t \notin ToSet(ready') /\ \A q \in Procs : ~Carries(q, t)'
  BY <1>1, <1>2, <1>3 DEF OneCopy
<1>7. QED
  BY <1>1, <1>4, <1>5, <1>6 DEF OneCopy

\* A process begins to carry a task no other has, that is neither listed nor swept.
LEMMA PicksUp ==
  ASSUME TypeOK, OneCopy, NEW p \in Procs, NEW k \in Tasks,
         \A q \in Procs : ~Carries(q, k),
         Carries(p, k)', Exists(k)', ~IsExpired(k)', k \notin ToSet(ready'),
         visibility'[k] = NoTimeout \/ (p \in Cleaners /\ proc'[p].pc \in ReleasePcs),
         IsInjective(ready'), ToSet(ready') \subseteq ToSet(ready), UNCHANGED visibility,
         \A t \in Tasks : Exists(t) => Exists(t)',
         \A t \in Tasks : IsExpired(t)' => IsExpired(t),
         \A c \in Cleaners : SweepIsOnce(c)',
         \A q \in Procs : q # p => proc'[q] = proc[q]
  PROVE  OneCopy'
<1>1. \A q \in Procs, t \in Tasks : q # p => (Carries(q, t)' <=> Carries(q, t))
  BY DEF Carries, At
<1>2. \A t \in Tasks : Carries(p, t)' => t = k
  BY DEF Carries
<1>3. \A q \in Procs : Carries(q, k)' => q = p
  BY <1>1
<1>4. \A t \in Tasks : t \in ToSet(ready') =>
        visibility'[t] = NoTimeout /\ ~IsExpired(t)' /\ \A q \in Procs : ~Carries(q, t)'
  BY <1>1, <1>2 DEF OneCopy
<1>5. \A t \in Tasks, q \in Procs : Carries(q, t)' =>
        /\ ~IsExpired(t)'
        /\ visibility'[t] = NoTimeout \/ (q \in Cleaners /\ proc'[q].pc \in ReleasePcs)
        /\ \A r \in Procs : Carries(r, t)' => r = q
  BY <1>1, <1>2, <1>3 DEF OneCopy
<1>6. \A t \in Tasks : ~Exists(t)' =>
        /\ visibility'[t] = NoTimeout /\ ~IsExpired(t)'
        /\ t \notin ToSet(ready') /\ \A q \in Procs : ~Carries(q, t)'
  BY <1>1, <1>2 DEF OneCopy
<1>7. QED
  BY <1>4, <1>5, <1>6 DEF OneCopy, SweepIsOnce

LEMMA SweepsStay ==
  ASSUME OneCopy, UNCHANGED sweep
  PROVE  /\ \A c \in Cleaners : SweepIsOnce(c)'
         /\ \A t \in Tasks : IsExpired(t)' <=> IsExpired(t)
  BY DEF OneCopy, SweepIsOnce, IsExpired

LEMMA SubmitCopies ==
  ASSUME TypeOK, OneCopy, NEW s \in Submitters, Submit(s)
  PROVE  OneCopy'
<1>1. /\ s \in Procs /\ s \notin Workers \cup Cleaners
      /\ \A q \in Procs : q # s => proc'[q] = proc[q]
      /\ UNCHANGED <<visibility, sweep>> /\ \A t \in Tasks : Exists(t) => Exists(t)'
  BY KindsAreDistinct, SubmitterMoves
<1>2. /\ \A c \in Cleaners : SweepIsOnce(c)'
      /\ \A t \in Tasks : IsExpired(t)' <=> IsExpired(t)
  BY <1>1, SweepsStay
<1>3. CASE PushTask(s)
  <2>1. PICK k \in Tasks : k = proc[s].task
    BY <1>1, <1>3 DEF PushTask, At, TypeOK, Locals, Placed, Submits
  <2>2. Carries(s, k) /\ ready' = <<k>> \o ready /\ UNCHANGED task
    BY <1>3, <2>1 DEF PushTask, Carries
  <2>3. visibility[k] = NoTimeout
    BY <1>1, <2>2 DEF OneCopy
  <2>4. \A t \in Tasks : ~Carries(s, t)'
    BY <1>1, <1>3, SubmitterStages DEF Carries, At
  <2>5. QED
    BY <1>1, <2>2, <2>3, <2>4, PushesIn
<1>4. CASE SaveTask(s)
  <2>1. PICK k \in Tasks :
          /\ k = proc'[s].task /\ ~Exists(k)
          /\ task' = [task EXCEPT ![k] = [status |-> "queued", worker |-> None]]
    BY <1>4, SubmitterStages
  <2>2. Exists(k)' /\ UNCHANGED ready
    BY <1>4, <2>1 DEF SaveTask, Exists, TypeOK, TaskStore
  <2>3. /\ \A q \in Procs : ~Carries(q, k)
        /\ visibility[k] = NoTimeout /\ ~IsExpired(k) /\ k \notin ToSet(ready)
        /\ IsInjective(ready)
    BY <2>1 DEF OneCopy
  <2>4. Carries(s, k)'
    BY <1>4, <2>1, SubmitterStages DEF Carries, At
  <2>5. QED
    BY <1>1, <1>2, <2>2, <2>3, <2>4, PicksUp
<1>5. CASE ~PushTask(s) /\ ~SaveTask(s)
  <2>1. UNCHANGED ready /\ \A t \in Tasks : ~Carries(s, t)'
    BY <1>1, <1>5, SubmitterStages, SMTT(60)
       DEF Submit, SubmitOne, SubmitBatch, CheckUser, CheckGlobal, RefuseTask, Refuse,
           AddToBatch, Carries, At, redis
  <2>2. \A p \in Procs, t \in Tasks : Carries(p, t)' => Carries(p, t) /\ proc'[p] = proc[p]
    BY <1>1, <2>1 DEF Carries, At
  <2>3. IsInjective(ready') /\ ToSet(ready') \subseteq ToSet(ready)
    BY <2>1 DEF OneCopy
  <2>4. QED
    BY <1>1, <1>2, <2>2, <2>3, CopiesStay
<1>6. QED
  BY <1>3, <1>4, <1>5

LEMMA WorkCopies ==
  ASSUME TypeOK, OneCopy, NEW w \in Workers, WorkLoop(w)
  PROVE  OneCopy'
<1> USE DEF DequeuePcs
<1>1. /\ w \in Procs /\ w \notin Submitters \cup Cleaners
      /\ \A q \in Procs : q # w => proc'[q] = proc[q]
      /\ UNCHANGED sweep /\ \A t \in Tasks : Exists(t) => Exists(t)'
  BY KindsAreDistinct, WorkerMoves
<1>2. /\ \A c \in Cleaners : SweepIsOnce(c)'
      /\ \A t \in Tasks : IsExpired(t)' <=> IsExpired(t)
  BY <1>1, SweepsStay
<1>3. CASE Pop(w)
  <2>1. PICK e \in Tasks : e = Last(ready)
    BY <1>3, PopAtTail DEF Pop, TypeOK, TaskStore
  <2>2. /\ ToSet(ready) = ToSet(ready') \cup {e}
        /\ IsInjective(ready') /\ e \notin ToSet(ready')
        /\ UNCHANGED <<task, visibility>>
    BY <1>3, <2>1, PopAtTail DEF Pop, OneCopy, TypeOK, TaskStore
  <2>3. /\ Exists(e) /\ visibility[e] = NoTimeout /\ ~IsExpired(e)
        /\ \A q \in Procs : ~Carries(q, e)
    BY <2>2 DEF OneCopy
  <2>4. Carries(w, e)'
    BY <1>1, <1>3, <2>1, WorkerStages DEF Carries, At
  <2>5. QED
    BY <1>1, <1>2, <2>2, <2>3, <2>4, PicksUp
<1>4. CASE PutBack(w)
  <2>1. PICK k \in Tasks : k = proc[w].task
    BY <1>1, <1>4 DEF PutBack, At, TypeOK, Locals, Placed, Works
  <2>2. Carries(w, k) /\ ready' = <<k>> \o ready /\ UNCHANGED <<task, visibility>>
    BY <1>4, <2>1 DEF PutBack, Carries, At
  <2>3. visibility[k] = NoTimeout
    BY <1>1, <2>2 DEF OneCopy
  <2>4. \A t \in Tasks : ~Carries(w, t)'
    BY <1>1, <1>4, WorkerStages DEF Carries, At
  <2>5. QED
    BY <1>1, <2>2, <2>3, <2>4, PushesIn
<1>5. CASE SetTimeout(w)
  <2>1. PICK k \in Tasks : k = proc[w].task
    BY <1>1, <1>5 DEF SetTimeout, At, TypeOK, Locals, Placed, Works
  <2>2. /\ Carries(w, k) /\ UNCHANGED <<ready, task>>
        /\ \A t \in Tasks : t # k => visibility'[t] = visibility[t]
    BY <1>5, <2>1 DEF SetTimeout, Carries, At, TypeOK, TaskStore
  <2>3. \A t \in Tasks : ~Carries(w, t)'
    BY <1>1, <1>5, WorkerStages DEF Carries, At, Step
  <2>4. /\ \A q \in Procs, t \in Tasks : Carries(q, t)' => Carries(q, t) /\ t # k /\ proc'[q] = proc[q]
        /\ \A t \in Tasks : Exists(t)' <=> Exists(t)
        /\ Exists(k) /\ k \notin ToSet(ready)
    BY <1>1, <2>2, <2>3 DEF OneCopy, Carries, At, Exists
  <2>5. \A t \in Tasks : t \in ToSet(ready') =>
          visibility'[t] = NoTimeout /\ ~IsExpired(t)' /\ \A q \in Procs : ~Carries(q, t)'
    BY <1>2, <2>2, <2>4 DEF OneCopy
  <2>6. \A t \in Tasks, q \in Procs : Carries(q, t)' =>
          /\ ~IsExpired(t)'
          /\ visibility'[t] = NoTimeout \/ (q \in Cleaners /\ proc'[q].pc \in ReleasePcs)
          /\ \A r \in Procs : Carries(r, t)' => r = q
    BY <1>2, <2>2, <2>4 DEF OneCopy
  <2>7. \A t \in Tasks : ~Exists(t)' =>
          /\ visibility'[t] = NoTimeout /\ ~IsExpired(t)'
          /\ t \notin ToSet(ready') /\ \A q \in Procs : ~Carries(q, t)'
    BY <1>2, <2>2, <2>4 DEF OneCopy
  <2>8. QED
    BY <1>2, <2>2, <2>5, <2>6, <2>7 DEF OneCopy, SweepIsOnce
<1>6. CASE ~Pop(w) /\ ~PutBack(w) /\ ~SetTimeout(w)
  <2>1. UNCHANGED ready
    BY <1>6 DEF WorkLoop, CheckSlot, MarkUser, MarkGlobal, SetExpire, MarkTask, FinishAnalysis,
                Release, UnmarkUser, UnmarkGlobal, ClearTimeout, AckStatus, RecordOutcome, redis
  <2>2. \A t \in Tasks : visibility[t] = NoTimeout => visibility'[t] = NoTimeout
    <3>1. CASE SetExpire(w)
      BY <3>1 DEF SetExpire, NoTimeout, TypeOK, TaskStore
    <3>2. CASE ClearTimeout(w)
      BY <3>2 DEF ClearTimeout, TypeOK, TaskStore
    <3>3. CASE ~SetExpire(w) /\ ~ClearTimeout(w)
      BY <1>6, <3>3
         DEF WorkLoop, CheckSlot, MarkUser, MarkGlobal, MarkTask, FinishAnalysis, Release,
             UnmarkUser, UnmarkGlobal, AckStatus, RecordOutcome, redis
    <3>4. QED
      BY <3>1, <3>2, <3>3
  <2>3. proc'[w].pc \in DequeuePcs => proc[w].pc \in DequeuePcs /\ proc'[w].task = proc[w].task
    BY <1>6, WorkerStages DEF WorkLoop, Release, Step
  <2>4. \A p \in Procs, t \in Tasks : Carries(p, t)' => Carries(p, t)
    BY <1>1, <2>3 DEF Carries, At
  <2>5. \A p \in Procs, t \in Tasks : Carries(p, t)' /\ proc[p].pc \in ReleasePcs =>
                                        proc'[p].pc \in ReleasePcs
    BY <1>1, <2>3 DEF Carries, At, ReleasePcs
  <2>6. QED
    BY <1>1, <1>2, <2>1, <2>2, <2>4, <2>5, CopiesStay DEF OneCopy
<1>7. QED
  BY <1>3, <1>4, <1>5, <1>6

LEMMA CleanCopies ==
  ASSUME OneLoop, TypeOK, OneCopy, NEW c \in Cleaners, CleanupLoop(c)
  PROVE  OneCopy'
<1> USE DEF ReleasePcs
<1>1. /\ c \in Procs /\ c \notin Submitters \cup Workers
      /\ \A q \in Procs : q # c => proc'[q] = proc[q]
      /\ \A t \in Tasks : Exists(t) => Exists(t)'
      /\ \A d \in Cleaners : d = c
      /\ sweep \in [Cleaners -> SweepRow] /\ sweep[c] \in SweepRow
  BY KindsAreDistinct, CleanerMoves DEF OneLoop, TypeOK, Locals
<1>2. \A t \in Tasks : IsExpired(t) <=> t \in ToSet(sweep[c].expired)
  BY <1>1 DEF IsExpired
<1>3. \A t \in Tasks : IsExpired(t)' <=> t \in ToSet(sweep'[c].expired)
  BY <1>1 DEF IsExpired
<1>4. SweepIsOnce(c)' => \A d \in Cleaners : SweepIsOnce(d)'
  BY <1>1 DEF SweepIsOnce
<1>5. IsInjective(ready) /\ SweepIsOnce(c)
  BY DEF OneCopy, SweepIsOnce
<1>6. CASE ListTimeouts(c) \/ EndSweep(c)
  <2>1. /\ sweep'[c].expired = <<>>
        /\ UNCHANGED <<task, ready, visibility>>
        /\ proc'[c].pc \in {"sweep", "idle"}
    BY <1>1, <1>6, CleanerStages DEF ListTimeouts, EndSweep, NoSweep, redis
  <2>2. SweepIsOnce(c)' /\ \A t \in Tasks : ~IsExpired(t)'
    BY <1>3, <2>1, NothingInEmpty DEF SweepIsOnce
  <2>3. \A p \in Procs, t \in Tasks : Carries(p, t)' => Carries(p, t) /\ proc'[p] = proc[p]
    BY <1>1, <2>1 DEF Carries, At
  <2>4. QED
    BY <1>1, <1>4, <1>5, <2>1, <2>2, <2>3, CopiesStay
<1>7. CASE ReadTimeout(c)
  <2>1. PICK k \in sweep[c].keys :
          sweep' = [sweep EXCEPT ![c].keys = @ \ {k},
                                 ![c].expired = IF TimedOut(c, k) THEN Append(@, k) ELSE @]
    BY <1>7 DEF ReadTimeout
  <2>2. /\ k \in Tasks /\ proc[c].pc = "sweep"
        /\ UNCHANGED <<task, ready, visibility, proc>>
    BY <1>1, <1>7 DEF ReadTimeout, At, redis, SweepRow
  <2>3. \A p \in Procs, t \in Tasks : Carries(p, t)' <=> Carries(p, t)
    BY <2>2 DEF Carries, At
  <2>4. CASE TimedOut(c, k)
    <3>1. /\ sweep'[c].keys = sweep[c].keys \ {k}
          /\ sweep'[c].expired = Append(sweep[c].expired, k)
          /\ sweep[c].expired \in Seq(Tasks)
      BY <1>1, <2>1, <2>4 DEF SweepRow
    <3>2. k \notin ToSet(sweep[c].expired)
      BY <1>5 DEF SweepIsOnce
    <3>3. ToSet(sweep'[c].expired) = ToSet(sweep[c].expired) \cup {k}
      BY <2>2, <3>1, AppendAtEnd
    <3>4. SweepIsOnce(c)'
      BY <1>5, <2>2, <3>1, <3>2, <3>3, AppendAtEnd DEF SweepIsOnce
    <3>5. visibility[k] # NoTimeout
      BY <2>4 DEF TimedOut
    <3>6. k \notin ToSet(ready) /\ Exists(k) /\ \A p \in Procs : ~Carries(p, k)
      BY <1>1, <2>2, <3>5 DEF OneCopy
    <3>7. \A t \in Tasks : IsExpired(t)' => IsExpired(t) \/ t = k
      BY <1>2, <1>3, <3>3
    <3>8. \A t \in Tasks : Exists(t)' <=> Exists(t)
      BY <2>2 DEF Exists
    <3>9. QED
      BY <1>4, <2>2, <2>3, <3>4, <3>6, <3>7, <3>8 DEF OneCopy, SweepIsOnce
  <2>5. CASE ~TimedOut(c, k)
    <3>1. /\ sweep'[c].keys = sweep[c].keys \ {k}
          /\ sweep'[c].expired = sweep[c].expired
      BY <1>1, <2>1, <2>5 DEF SweepRow
    <3>2. SweepIsOnce(c)'
      BY <1>5, <3>1 DEF SweepIsOnce
    <3>3. \A t \in Tasks : IsExpired(t)' => IsExpired(t)
      BY <1>2, <1>3, <3>1
    <3>4. QED
      BY <1>1, <1>4, <1>5, <2>2, <2>3, <3>2, <3>3, CopiesStay
  <2>6. QED
    BY <2>4, <2>5
<1>8. CASE HandleExpired(c)
  <2>1. /\ sweep[c].expired \in Seq(Tasks) /\ sweep[c].expired # <<>>
        /\ sweep'[c].expired = Tail(sweep[c].expired)
        /\ sweep'[c].keys = sweep[c].keys
        /\ UNCHANGED <<task, ready, visibility>>
    BY <1>1, <1>8 DEF HandleExpired, SweepRow, redis
  <2>2. PICK k \in Tasks : k = Head(sweep[c].expired)
    BY <2>1, TakeHead
  <2>3. /\ k \in ToSet(sweep[c].expired)
        /\ ToSet(sweep'[c].expired) \subseteq ToSet(sweep[c].expired)
        /\ IsInjective(sweep'[c].expired) /\ k \notin ToSet(sweep'[c].expired)
    BY <1>5, <2>1, <2>2, TakeHead DEF SweepIsOnce
  <2>4. SweepIsOnce(c)'
    BY <1>5, <2>1, <2>3 DEF SweepIsOnce
  <2>5. /\ \A t \in Tasks : IsExpired(t)' => IsExpired(t)
        /\ IsExpired(k) /\ ~IsExpired(k)'
    BY <1>2, <1>3, <2>3
  <2>6. Exists(k) /\ k \notin ToSet(ready) /\ \A q \in Procs : ~Carries(q, k)
    BY <2>5 DEF OneCopy
  <2>7. proc'[c].pc \in ReleasePcs /\ Carries(c, k)'
    BY <1>8, <2>2, CleanerStages DEF Carries
  <2>8. QED
    BY <1>1, <1>4, <1>5, <2>1, <2>4, <2>5, <2>6, <2>7, PicksUp
<1>9. CASE PushExpired(c)
  <2>1. PICK k \in Tasks : k = proc[c].task
    BY <1>1, <1>9 DEF PushExpired, At, TypeOK, Locals, Placed, Cleans, RequeuePcs
  <2>2. /\ Carries(c, k) /\ proc[c].pc \notin ReleasePcs
        /\ ready' = <<k>> \o ready /\ UNCHANGED <<task, visibility, sweep>>
    BY <1>9, <2>1 DEF PushExpired, Carries, At, others
  <2>3. visibility[k] = NoTimeout
    BY <1>1, <2>2 DEF OneCopy
  <2>4. \A t \in Tasks : ~Carries(c, t)'
    BY <1>1, <1>9, CleanerStages DEF Carries, At, Step
  <2>5. QED
    BY <1>1, <2>2, <2>3, <2>4, PushesIn
<1>10. CASE Release(c) \/ MarkQueued(c)
  <2>1. UNCHANGED <<ready, sweep>>
    BY <1>10 DEF Release, UnmarkUser, UnmarkGlobal, ClearTimeout, MarkQueued, others
  <2>2. /\ \A d \in Cleaners : SweepIsOnce(d)'
        /\ \A t \in Tasks : IsExpired(t)' <=> IsExpired(t)
    BY <2>1, SweepsStay
  <2>3. \A t \in Tasks : visibility[t] = NoTimeout => visibility'[t] = NoTimeout
    BY <1>10 DEF Release, UnmarkUser, UnmarkGlobal, ClearTimeout, MarkQueued, TypeOK, TaskStore
  <2>4. \/ proc'[c].pc = "sweep"
        \/ /\ proc[c].pc \in ReleasePcs /\ proc'[c].pc \in ReleasePcs \cup {"requeue"}
           /\ proc'[c].task = proc[c].task
    BY <1>10, CleanerStages DEF Release, Step
  <2>5. \A p \in Procs, t \in Tasks : Carries(p, t)' => Carries(p, t)
    BY <1>1, <2>4 DEF Carries, At
  <2>6. ASSUME NEW p \in Procs, NEW t \in Tasks, Carries(p, t)', proc[p].pc \in ReleasePcs
        PROVE  visibility'[t] = NoTimeout \/ proc'[p].pc \in ReleasePcs
    <3>1. CASE p # c
      BY <1>1, <2>6, <3>1
    <3>2. CASE p = c /\ ClearTimeout(c)
      <4>1. proc[c].task = t
        BY <2>6, <3>2, CleanerStages DEF Carries, Step
      <4>2. visibility' = [visibility EXCEPT ![t] = NoTimeout]
        BY <3>2, <4>1 DEF ClearTimeout
      <4>3. QED
        BY <4>2 DEF TypeOK, TaskStore
    <3>3. CASE p = c /\ ~ClearTimeout(c)
      BY <1>10, <2>6, <3>3, CleanerStages DEF Release, Step
    <3>4. QED
      BY <3>1, <3>2, <3>3
  <2>7. QED
    BY <1>1, <1>5, <2>1, <2>2, <2>3, <2>5, <2>6, CopiesStay
<1>11. QED
  BY <1>6, <1>7, <1>8, <1>9, <1>10 DEF CleanupLoop

LEMMA CancelCopies ==
  ASSUME TypeOK, OneCopy, NEW x \in Cancellers, Cancel(x)
  PROVE  OneCopy'
<1>1. /\ x \in Procs /\ x \notin Submitters \cup Workers \cup Cleaners
      /\ \A q \in Procs : q # x => proc'[q] = proc[q]
      /\ UNCHANGED sweep /\ \A t \in Tasks : Exists(t) => Exists(t)'
  BY KindsAreDistinct, CancellerMoves
<1>2. \A p \in Procs, t \in Tasks : Carries(p, t)' => Carries(p, t) /\ proc'[p] = proc[p]
  BY <1>1 DEF Carries, At
<1>3. IsInjective(ready') /\ ToSet(ready') \subseteq ToSet(ready)
  <2>1. CASE RemoveReady(x)
    BY <2>1, WithoutOne DEF RemoveReady, OneCopy, TypeOK, TaskStore
  <2>2. CASE ~RemoveReady(x)
    BY <2>2 DEF Cancel, CancelStep, ReadStatus, Release, UnmarkUser, UnmarkGlobal, ClearTimeout,
                CancelStatus, redis, OneCopy
  <2>3. QED
    BY <2>1, <2>2
<1>4. \A t \in Tasks : visibility[t] = NoTimeout => visibility'[t] = NoTimeout
  BY DEF Cancel, CancelStep, ReadStatus, Release, UnmarkUser, UnmarkGlobal, ClearTimeout,
         RemoveReady, CancelStatus, redis, TypeOK, TaskStore
<1>5. QED
  BY <1>1, <1>2, <1>3, <1>4, SweepsStay, CopiesStay

\* A kill drops copies, and makes none.
LEMMA CrashCopies ==
  ASSUME TypeOK, OneCopy, NEW w \in Workers, Crash(w)
  PROVE  OneCopy'
<1> DEFINE dead == {w} \cup {c \in Cleaners : ProcessOf[c] = w}
<1>1. /\ \A p \in Procs : proc'[p] = Idle \/ proc'[p] = proc[p]
      /\ \A c \in Cleaners : sweep'[c] = NoSweep \/ sweep'[c] = sweep[c]
      /\ UNCHANGED <<task, ready, visibility>>
  BY DEF Crash, redis
<1>2. \A p \in Procs, t \in Tasks : Carries(p, t)' => Carries(p, t) /\ proc'[p] = proc[p]
  BY <1>1 DEF Carries, At, Idle, DequeuePcs, ReleasePcs
<1>3. \A t \in Tasks : IsExpired(t)' => IsExpired(t)
  BY <1>1, NothingInEmpty DEF IsExpired, NoSweep
<1>4. \A c \in Cleaners : SweepIsOnce(c)'
  BY <1>1, NothingInEmpty DEF SweepIsOnce, NoSweep, OneCopy
<1>5. IsInjective(ready') /\ ToSet(ready') \subseteq ToSet(ready)
  BY <1>1 DEF OneCopy
<1>6. \A t \in Tasks : Exists(t) => Exists(t)'
  BY <1>1 DEF Exists
<1>7. QED
  BY <1>1, <1>2, <1>3, <1>4, <1>5, <1>6, CopiesStay

LEMMA NextCopies ==
  ASSUME OneLoop, TypeOK, OneCopy, [Next]_vars
  PROVE  OneCopy'
<1>1. CASE Tick \/ (\E t \in Tasks : DropKey(t)) \/ UNCHANGED vars
  <2>1. UNCHANGED <<task, ready, sweep, proc>>
    BY <1>1 DEF Tick, DropKey, vars, redis, locals
  <2>2. \A t \in Tasks : visibility[t] = NoTimeout => visibility'[t] = NoTimeout
    BY <1>1 DEF Tick, DropKey, vars, redis, TypeOK, TaskStore
  <2>3. \A p \in Procs, t \in Tasks : Carries(p, t)' <=> Carries(p, t)
    BY <2>1 DEF Carries, At
  <2>4. IsInjective(ready') /\ ToSet(ready') = ToSet(ready) /\ \A t \in Tasks : Exists(t)' <=> Exists(t)
    BY <2>1 DEF OneCopy, Exists
  <2>5. QED
    BY <2>1, <2>2, <2>3, <2>4, SweepsStay, CopiesStay
<1>2. QED
  BY <1>1, SubmitCopies, WorkCopies, CleanCopies, CancelCopies, CrashCopies DEF Next

\* With at most one cleanup loop no task is twice in the list, whatever is killed and
\* whenever Redis drops a timeout (queue_service.py:273-328).
THEOREM OneCopyInList == OneLoop => (Spec => []NoDuplicates)
<1> SUFFICES ASSUME OneLoop PROVE Spec => []NoDuplicates
  OBVIOUS
<1> DEFINE Inv == TypeOK /\ OneCopy
<1>1. Init => Inv
  <2>1. SUFFICES ASSUME Init PROVE OneCopy
    BY InitTyped
  <2>2. \A p \in Procs, t \in Tasks : ~Carries(p, t)
    BY <2>1 DEF Init, Carries, At, Idle, DequeuePcs, ReleasePcs
  <2>3. /\ \A t \in Tasks : ~IsExpired(t) /\ visibility[t] = NoTimeout
        /\ ToSet(ready) = {} /\ IsInjective(ready)
        /\ \A c \in Cleaners : SweepIsOnce(c)
    BY <2>1, NothingInEmpty DEF Init, IsExpired, NoSweep, SweepIsOnce
  <2>4. QED
    BY <2>2, <2>3 DEF OneCopy, SweepIsOnce
<1>2. Inv /\ [Next]_vars => Inv'
  BY NextTyped, NextCopies
<1>3. Inv => NoDuplicates
  BY DEF OneCopy, NoDuplicates
<1>4. QED
  BY <1>1, <1>2, <1>3, PTL DEF Spec

================================================================================
