-------------------------- MODULE ServicesCodes_proofs ------------------------
(***************************************************************************)
(* The limits of the verification codes and who is let in by one, for any  *)
(* number of requests, targets and codes and any times and limits.  An     *)
(* allowance that is checked at one await and spent at a later one is      *)
(* counted with the requests in between: what is spent and the requests    *)
(* that may still spend stay within the limit and one for each handler     *)
(* that overlaps.                                                          *)
(***************************************************************************)
EXTENDS Services, FiniteSetTheorems, WellFoundedInduction, TLAPS

(* The codes in the sum of the parts *)

LEMMA CodesRun == [AnyNext]_allVars => [Code!Next]_(Code!vars)
BY DEF AnyNext, allVars, codeVars, Code!vars

LEMMA CodesStart == AnyInit => Code!Init
BY DEF AnyInit

\* The number of elements of a set, by the module the codes are specified in and by this one.
LEMMA SameNumber == \A S : Code!Cardinality(S) = Cardinality(S)
BY DEF Code!Cardinality, Cardinality

LEMMA RacingIs ==
  /\ Code!Racing = IF collided THEN Cardinality(Handlers) ELSE 1
  /\ Code!Racing' = IF collided' THEN Cardinality(Handlers) ELSE 1
BY SameNumber DEF Code!Racing

------------------------------------------------------------------------------
CodeRow == [target : Targets, ip : BOOLEAN, created : 0..MaxClock, expires : Nat,
            used : BOOLEAN, fails : Nat]
Tally == [ok : Nat, invalid : Nat]
Issued == DOMAIN codes

Serving == [pc : {"waiting", "latest", "count", "insert", "read", "right", "wrong"},
            target : Targets \cup {None}, ip : BOOLEAN, row : Nat, known : Nat]

\* Each row has its tally, and who has read a row has read one of the target.
CodeTypeInv ==
  /\ codes \in Seq(CodeRow)
  /\ answers \in Seq(Tally) /\ Len(answers) = Len(codes)
  /\ caller \in [Handlers -> Serving]
  /\ \A c \in Handlers :
       /\ caller[c].row \in {0} \cup Issued
       /\ ~Code!At(c, "waiting") => caller[c].target \in Targets
       /\ Code!At(c, "right") \/ Code!At(c, "wrong") =>
            caller[c].row \in Issued /\ codes[caller[c].row].target = caller[c].target
  /\ clock \in 0..MaxClock
  /\ collided \in BOOLEAN

\* Numbers up to a bound have a largest one.
LEMMA SomeIsLargest ==
  ASSUME NEW n \in Nat, NEW S \in SUBSET (0..n), S # {}
  PROVE  \E i \in S : \A j \in S : j <= i
<1> DEFINE back == {k \in Nat : \E i \in S : k = n - i}
           R == OpToRel(<, Nat)
<1>1. PICK i \in S : TRUE
  OBVIOUS
<1>2. i \in 0..n
  BY <1>1
<1>3. n - i \in back
  BY <1>1, <1>2
<1>4. back \subseteq Nat /\ back # {}
  BY <1>3
<1>5. PICK x \in back : \A y \in back : ~ (<<y, x>> \in R)
  <2> HIDE DEF back, R
  <2>1. IsWellFoundedOn(R, Nat)
    BY NatLessThanWellFounded DEF R
  <2>2. QED
    BY <1>4, <2>1, WFMin
<1>6. \A y \in back : ~ (y < x)
  BY <1>4, <1>5 DEF OpToRel
<1>7. PICK k \in S : x = n - k
  BY <1>5
<1>8. ASSUME NEW j \in S PROVE j <= k
  <2>1. j \in 0..n /\ k \in 0..n
    BY <1>7, <1>8
  <2>2. n - j \in back
    BY <2>1, <1>8
  <2>3. ~ (n - j < n - k)
    BY <1>6, <1>7, <2>2
  <2>4. QED
    BY <2>1, <2>3
<1>9. QED
  BY <1>7, <1>8

------------------------------------------------------------------------------
(* What a step does to the rows and to the request that takes it *)

Others(c) == \A d \in Handlers \ {c} : caller'[d] = caller[d]

Arrives(c) ==
  /\ Code!At(c, "waiting")
  /\ \E pc \in {"latest", "read"}, t \in Targets, ip \in BOOLEAN :
       caller'[c] = [pc |-> pc, target |-> t, ip |-> ip, row |-> 0, known |-> Len(codes)]
  /\ collided' = (collided \/ \E other \in Handlers \ {c} : ~Code!At(other, "waiting"))
  /\ UNCHANGED <<codes, clock, answers>>

Looks(c) ==
  /\ Code!At(c, "latest") /\ ~Code!TooSoon(caller[c].target)
  /\ caller'[c] = [caller[c] EXCEPT !.pc = IF caller[c].ip THEN "count" ELSE "insert"]
  /\ UNCHANGED <<codes, clock, answers, collided>>

Counts(c) ==
  /\ Code!At(c, "count") /\ ~Code!IpLimited
  /\ caller'[c] = [caller[c] EXCEPT !.pc = "insert"]
  /\ UNCHANGED <<codes, clock, answers, collided>>

Reads(c) ==
  /\ Code!At(c, "read") /\ Code!RowsOf(caller[c].target) # {}
  /\ ~Code!Refused(codes[Code!Latest(caller[c].target)])
  /\ \E hash \in {"right", "wrong"} :
       caller'[c] = [caller[c] EXCEPT !.row = Code!Latest(caller[c].target), !.pc = hash]
  /\ UNCHANGED <<codes, clock, answers, collided>>

Leaves(c) == caller'[c] = Code!Waiting /\ UNCHANGED <<codes, clock, answers, collided>>

Inserts(c) ==
  /\ Code!InsertCode(c)
  /\ Len(codes') = Len(codes) + 1 /\ Issued' = Issued \cup {Len(codes) + 1}
  /\ codes'[Len(codes) + 1] = [target |-> caller[c].target, ip |-> caller[c].ip,
                               created |-> clock, expires |-> clock + Expiry,
                               used |-> FALSE, fails |-> 0]
  /\ answers'[Len(codes) + 1] = [ok |-> 0, invalid |-> 0]
  /\ \A i \in Issued : codes'[i] = codes[i] /\ answers'[i] = answers[i]
  /\ caller'[c] = Code!Waiting /\ UNCHANGED <<clock, collided>>

LEMMA InsertIs ==
  ASSUME CodeTypeInv, Code!TimesAreNatural, NEW c \in Handlers, Code!InsertCode(c)
  PROVE  Inserts(c) /\ codes' \in Seq(CodeRow) /\ answers' \in Seq(Tally)
<1> DEFINE row == [target |-> caller[c].target, ip |-> caller[c].ip,
                   created |-> clock, expires |-> clock + Expiry, used |-> FALSE, fails |-> 0]
           tally == [ok |-> 0, invalid |-> 0]
<1>1. codes' = Append(codes, row) /\ answers' = Append(answers, tally)
  BY DEF Code!InsertCode
<1>2. clock + Expiry \in Nat
  BY DEF Code!TimesAreNatural, CodeTypeInv
<1>3. caller[c].target \in Targets /\ caller[c].ip \in BOOLEAN
  BY DEF CodeTypeInv, Code!InsertCode, Code!At, Serving
<1>4. row \in CodeRow /\ tally \in Tally
  BY <1>2, <1>3 DEF CodeTypeInv, CodeRow, Tally
<1>5. codes \in Seq(CodeRow) /\ answers \in Seq(Tally) /\ Len(answers) = Len(codes)
  BY DEF CodeTypeInv
<1> HIDE DEF row, tally
<1>6. /\ codes' \in Seq(CodeRow) /\ answers' \in Seq(Tally)
      /\ Len(codes') = Len(codes) + 1 /\ Issued' = Issued \cup {Len(codes) + 1}
      /\ codes'[Len(codes) + 1] = row /\ answers'[Len(codes) + 1] = tally
      /\ \A i \in Issued : codes'[i] = codes[i] /\ answers'[i] = answers[i]
  BY <1>1, <1>4, <1>5 DEF Issued
<1>7. QED
  BY <1>6 DEF Inserts, row, tally, Code!InsertCode, Code!Answer, CodeTypeInv

\* A guess or a use changes one row and its tally.
Presents(c) ==
  LET i == caller[c].row IN
  /\ i \in Issued /\ Issued' = Issued /\ Len(codes') = Len(codes) /\ Len(answers') = Len(answers)
  /\ \A j \in Issued \ {i} : codes'[j] = codes[j] /\ answers'[j] = answers[j]
  /\ \/ /\ Code!MarkUsed(c)
        /\ codes'[i] = [codes[i] EXCEPT !.used = TRUE]
        /\ answers'[i] = [answers[i] EXCEPT !.ok = @ + 1]
     \/ /\ Code!CountFailure(c)
        /\ codes'[i] = [codes[i] EXCEPT !.fails = @ + 1]
        /\ answers'[i] = [answers[i] EXCEPT !.invalid = @ + 1]
  /\ caller'[c] = Code!Waiting /\ UNCHANGED <<clock, collided>>

LEMMA PresentIs ==
  ASSUME CodeTypeInv, NEW c \in Handlers, Code!MarkUsed(c) \/ Code!CountFailure(c)
  PROVE  Presents(c) /\ codes' \in Seq(CodeRow) /\ answers' \in Seq(Tally)
<1> DEFINE i == caller[c].row
<1>1. i \in Issued /\ codes \in Seq(CodeRow) /\ answers \in Seq(Tally) /\ Len(answers) = Len(codes)
  BY DEF CodeTypeInv, Code!MarkUsed, Code!CountFailure, Code!RowsOf, Issued
<1>2. codes[i] \in CodeRow /\ answers[i] \in Tally
  BY <1>1 DEF Issued
<1>3. PICK row \in CodeRow, tally \in Tally :
        /\ codes' = [codes EXCEPT ![i] = row] /\ answers' = [answers EXCEPT ![i] = tally]
        /\ \/ /\ Code!MarkUsed(c)
              /\ row = [codes[i] EXCEPT !.used = TRUE]
              /\ tally = [answers[i] EXCEPT !.ok = @ + 1]
           \/ /\ Code!CountFailure(c)
              /\ row = [codes[i] EXCEPT !.fails = @ + 1]
              /\ tally = [answers[i] EXCEPT !.invalid = @ + 1]
  <2>1. CASE Code!MarkUsed(c)
    <3>1. [codes[i] EXCEPT !.used = TRUE] \in CodeRow
      BY <1>2, Zenon DEF CodeRow
    <3>2. [answers[i] EXCEPT !.ok = @ + 1] \in Tally
      BY <1>2 DEF Tally
    <3>3. QED
      BY <2>1, <3>1, <3>2 DEF Code!MarkUsed
  <2>2. CASE Code!CountFailure(c)
    <3>1. [codes[i] EXCEPT !.fails = @ + 1] \in CodeRow
      BY <1>2 DEF CodeRow
    <3>2. [answers[i] EXCEPT !.invalid = @ + 1] \in Tally
      BY <1>2 DEF Tally
    <3>3. QED
      BY <2>2, <3>1, <3>2 DEF Code!CountFailure
  <2>3. QED
    BY <2>1, <2>2
<1>4. /\ codes' \in Seq(CodeRow) /\ answers' \in Seq(Tally)
      /\ Issued' = Issued /\ Len(codes') = Len(codes) /\ Len(answers') = Len(answers)
      /\ \A j \in Issued \ {i} : codes'[j] = codes[j] /\ answers'[j] = answers[j]
      /\ codes'[i] = row /\ answers'[i] = tally
  BY <1>1, <1>3 DEF Issued
<1>5. caller'[c] = Code!Waiting /\ UNCHANGED <<clock, collided>>
  BY DEF Code!MarkUsed, Code!CountFailure, Code!Answer, CodeTypeInv
<1>6. QED
  BY <1>1, <1>3, <1>4, <1>5 DEF Presents

Passes == UNCHANGED <<codes, caller, answers, collided>> /\ clock' \in {clock, clock + 1}

\* A step is one of one request, or time passes.
LEMMA StepIs ==
  ASSUME CodeTypeInv, Code!TimesAreNatural, [Code!Next]_(Code!vars)
  PROVE  \/ Passes
         \/ \E c \in Handlers :
              /\ Others(c)
              /\ \/ Arrives(c) \/ Looks(c) \/ Counts(c) \/ Reads(c)
                 \/ Inserts(c) \/ Presents(c) \/ Leaves(c)
<1>1. CASE Code!Tick \/ UNCHANGED Code!vars
  BY <1>1 DEF Code!Tick, Code!vars, Passes
<1>2. ASSUME NEW c \in Handlers, Code!Handle(c) \/ \E t \in Targets : Code!VerifyCode(c, t)
                                          \/ \E ip \in BOOLEAN : Code!SendCode(c, t, ip)
      PROVE  Others(c)
  BY <1>2
     DEF Code!Handle, Code!VerifyCode, Code!SendCode, Code!Arrive, Code!ReadLatest,
         Code!CountIp, Code!InsertCode, Code!ReadCode, Code!CountFailure, Code!MarkUsed,
         Code!Abort, Code!Answer, Code!GoTo, CodeTypeInv, Others
<1>3. ASSUME NEW c \in Handlers, Code!Handle(c)
      PROVE  Looks(c) \/ Counts(c) \/ Reads(c) \/ Inserts(c) \/ Presents(c) \/ Leaves(c)
  <2>1. CASE Code!ReadLatest(c)
    BY <2>1 DEF Code!ReadLatest, Code!Answer, Code!GoTo, Looks, Leaves, CodeTypeInv
  <2>2. CASE Code!CountIp(c)
    BY <2>2 DEF Code!CountIp, Code!Answer, Code!GoTo, Counts, Leaves, CodeTypeInv
  <2>3. CASE Code!ReadCode(c)
    BY <2>3 DEF Code!ReadCode, Code!Answer, Reads, Leaves, CodeTypeInv
  <2>4. CASE Code!InsertCode(c)
    BY <2>4, InsertIs
  <2>5. CASE Code!CountFailure(c) \/ Code!MarkUsed(c)
    BY <2>5, PresentIs
  <2>6. CASE Code!Abort(c)
    BY <2>6 DEF Code!Abort, Code!Answer, Leaves, CodeTypeInv
  <2>7. QED
    BY <1>3, <2>1, <2>2, <2>3, <2>4, <2>5, <2>6 DEF Code!Handle
<1>4. ASSUME NEW c \in Handlers, NEW t \in Targets, Code!VerifyCode(c, t) PROVE Arrives(c)
  <2>1. caller'[c] = [pc |-> "read", target |-> t, ip |-> FALSE, row |-> 0, known |-> Len(codes)]
    BY <1>4 DEF Code!VerifyCode, Code!Arrive, Code!Waiting, CodeTypeInv
  <2>2. QED
    BY <1>4, <2>1 DEF Code!VerifyCode, Code!Arrive, Arrives
<1>5. ASSUME NEW c \in Handlers, NEW t \in Targets, NEW ip \in BOOLEAN, Code!SendCode(c, t, ip)
      PROVE  Arrives(c)
  <2>1. caller'[c] = [pc |-> "latest", target |-> t, ip |-> ip, row |-> 0, known |-> Len(codes)]
    BY <1>5 DEF Code!SendCode, Code!Arrive, Code!Waiting, CodeTypeInv
  <2>2. QED
    BY <1>5, <2>1 DEF Code!SendCode, Code!Arrive, Arrives
<1>6. QED
  BY <1>1, <1>2, <1>3, <1>4, <1>5 DEF Code!Next

LEMMA CallerStep ==
  ASSUME CodeTypeInv, Code!TimesAreNatural, [Code!Next]_(Code!vars), NEW c \in Handlers
  PROVE  \/ caller'[c] = caller[c] \/ caller'[c] = Code!Waiting
         \/ Arrives(c) \/ Looks(c) \/ Counts(c) \/ Reads(c)
BY StepIs DEF Passes, Others, Inserts, Presents, Leaves

LEMMA CodeStep ==
  ASSUME CodeTypeInv, Code!TimesAreNatural, [Code!Next]_(Code!vars)
  PROVE  \/ UNCHANGED <<codes, answers>>
         \/ \E c \in Handlers : Inserts(c) \/ Presents(c)
BY StepIs DEF Passes, Arrives, Looks, Counts, Reads, Leaves

------------------------------------------------------------------------------
(* Types, and the newest code *)

LEMMA CodeInitTyped == Code!TimesAreNatural /\ Code!Init => CodeTypeInv
<1> SUFFICES ASSUME Code!TimesAreNatural, Code!Init PROVE CodeTypeInv
  OBVIOUS
<1>1. Code!Waiting \in Serving
  BY DEF Code!Waiting, Serving
<1>2. caller \in [Handlers -> Serving] /\ \A c \in Handlers : caller[c] = Code!Waiting
  BY <1>1 DEF Code!Init
<1>3. clock \in 0..MaxClock
  BY DEF Code!Init, Code!TimesAreNatural
<1>4. codes = <<>> /\ answers = <<>> /\ collided \in BOOLEAN
  BY DEF Code!Init
<1>5. QED
  BY <1>2, <1>3, <1>4 DEF CodeTypeInv, Code!Waiting, Code!At

LEMMA LatestIsLast ==
  ASSUME CodeTypeInv, NEW t, Code!RowsOf(t) # {}
  PROVE  Code!Latest(t) \in Code!RowsOf(t) /\ \A j \in Code!RowsOf(t) : j <= Code!Latest(t)
<1>1. Len(codes) \in Nat /\ Code!RowsOf(t) \in SUBSET (0..Len(codes))
  BY DEF CodeTypeInv, Code!RowsOf
<1>2. \E i \in Code!RowsOf(t) : \A j \in Code!RowsOf(t) : j <= i
  BY <1>1, SomeIsLargest
<1>3. QED
  BY <1>2 DEF Code!Latest

\* The rows there were keep their target, their address and their time.
LEMMA RowsStay ==
  ASSUME CodeTypeInv, Code!TimesAreNatural, [Code!Next]_(Code!vars), NEW i \in Issued
  PROVE  /\ i \in Issued' /\ codes'[i].target = codes[i].target
         /\ codes'[i].ip = codes[i].ip /\ codes'[i].created = codes[i].created
<1>1. CASE UNCHANGED <<codes, answers>>
  BY <1>1 DEF Issued
<1>2. ASSUME NEW c \in Handlers, Inserts(c) PROVE codes'[i] = codes[i] /\ i \in Issued'
  BY <1>2 DEF Inserts
<1>3. ASSUME NEW c \in Handlers, Presents(c)
      PROVE  /\ i \in Issued' /\ codes'[i].target = codes[i].target
             /\ codes'[i].ip = codes[i].ip /\ codes'[i].created = codes[i].created
  <2>1. codes[i] \in CodeRow
    BY DEF CodeTypeInv, Issued
  <2>2. i \in Issued'
    BY <1>3 DEF Presents
  <2>3. \/ codes'[i] = codes[i]
        \/ codes'[i] = [codes[i] EXCEPT !.used = TRUE]
        \/ codes'[i] = [codes[i] EXCEPT !.fails = @ + 1]
    BY <1>3 DEF Presents
  <2>4. QED
    BY <2>1, <2>2, <2>3 DEF CodeRow
<1>4. QED
  BY <1>1, <1>2, <1>3, CodeStep

LEMMA CodesTyped ==
  ASSUME CodeTypeInv, Code!TimesAreNatural, [Code!Next]_(Code!vars)
  PROVE  CodeTypeInv'
<1>1. /\ codes' \in Seq(CodeRow) /\ answers' \in Seq(Tally) /\ Len(answers') = Len(codes')
      /\ Issued \subseteq Issued'
  <2>1. CASE UNCHANGED <<codes, answers>>
    BY <2>1 DEF CodeTypeInv, Issued
  <2>2. ASSUME NEW c \in Handlers, Code!InsertCode(c)
        PROVE  codes' \in Seq(CodeRow) /\ answers' \in Seq(Tally) /\ Len(answers') = Len(codes')
    <3>1. Len(answers') = Len(answers) + 1
      BY <2>2 DEF Code!InsertCode, CodeTypeInv
    <3>2. QED
      BY <2>2, <3>1, InsertIs DEF Inserts, CodeTypeInv
  <2>3. ASSUME NEW c \in Handlers, Code!MarkUsed(c) \/ Code!CountFailure(c)
        PROVE  codes' \in Seq(CodeRow) /\ answers' \in Seq(Tally) /\ Len(answers') = Len(codes')
    BY <2>3, PresentIs DEF Presents, CodeTypeInv
  <2>4. \/ UNCHANGED <<codes, answers>>
        \/ \E c \in Handlers : Code!InsertCode(c) \/ Code!MarkUsed(c) \/ Code!CountFailure(c)
    BY CodeStep DEF Inserts, Presents
  <2>5. QED
    BY <2>1, <2>2, <2>3, <2>4, RowsStay
<1>2. ASSUME NEW c \in Handlers
      PROVE  /\ caller'[c] \in Serving
             /\ caller'[c].row \in {0} \cup Issued'
             /\ ~Code!At(c, "waiting")' => caller'[c].target \in Targets
             /\ Code!At(c, "right")' \/ Code!At(c, "wrong")' =>
                  caller'[c].row \in Issued' /\ codes'[caller'[c].row].target = caller'[c].target
  <2>1. caller[c] \in Serving
    BY DEF CodeTypeInv
  <2>2. CASE caller'[c] = caller[c]
    BY <1>1, <2>1, <2>2, RowsStay DEF CodeTypeInv, Code!At, Code!RowsOf, Issued
  <2>3. CASE caller'[c] = Code!Waiting
    BY <2>3 DEF Code!Waiting, Serving, Code!At
  <2>4. CASE Arrives(c)
    <3>1. Len(codes) \in Nat
      BY DEF CodeTypeInv
    <3>2. PICK pc \in {"latest", "read"}, t \in Targets, ip \in BOOLEAN :
            caller'[c] = [pc |-> pc, target |-> t, ip |-> ip, row |-> 0, known |-> Len(codes)]
      BY <2>4 DEF Arrives
    <3>3. QED
      BY <3>1, <3>2 DEF Serving, Code!At
  <2>5. CASE Looks(c) \/ Counts(c)
    <3>1. PICK pc \in {"count", "insert"} : caller'[c] = [caller[c] EXCEPT !.pc = pc]
      BY <2>5 DEF Looks, Counts
    <3>2. ~Code!At(c, "waiting")
      BY <2>5 DEF Looks, Counts, Code!At
    <3>3. QED
      BY <1>1, <2>1, <3>1, <3>2 DEF Serving, Code!At, CodeTypeInv
  <2>6. CASE Reads(c)
    <3>1. PICK hash \in {"right", "wrong"} :
            caller'[c] = [caller[c] EXCEPT !.row = Code!Latest(caller[c].target), !.pc = hash]
      BY <2>6 DEF Reads
    <3>2. Code!Latest(caller[c].target) \in Code!RowsOf(caller[c].target) /\ ~Code!At(c, "waiting")
      BY <2>6, LatestIsLast DEF Reads, Code!At
    <3>3. Code!Latest(caller[c].target) \in Nat /\ Code!Latest(caller[c].target) \in Issued
      BY <3>2 DEF Code!RowsOf, Issued, CodeTypeInv
    <3>4. caller'[c] \in Serving
      BY <2>1, <3>1, <3>3 DEF Serving
    <3>5. codes' = codes /\ Issued' = Issued
      BY <2>6 DEF Reads, Issued
    <3>6. /\ caller'[c].row = Code!Latest(caller[c].target) /\ caller'[c].target = caller[c].target
      BY <2>1, <3>1 DEF Serving
    <3>7. caller[c].target \in Targets
      BY <3>2 DEF CodeTypeInv
    <3>8. QED
      BY <3>2, <3>3, <3>4, <3>5, <3>6, <3>7 DEF Code!RowsOf
  <2>7. QED
    BY <2>2, <2>3, <2>4, <2>5, <2>6, CallerStep
<1>3. caller' \in [Handlers -> Serving]
  <2>1. DOMAIN caller' = Handlers /\ \E f : caller' = [c \in Handlers |-> f[c]]
    BY DEF CodeTypeInv, Code!Next, Code!SendCode, Code!VerifyCode, Code!Arrive, Code!Handle,
           Code!ReadLatest, Code!CountIp, Code!InsertCode, Code!ReadCode, Code!CountFailure,
           Code!MarkUsed, Code!Abort, Code!Answer, Code!GoTo, Code!Tick, Code!vars
  <2>2. QED
    BY <1>2, <2>1
<1>4. clock' \in 0..MaxClock
  <2>1. clock' = clock \/ Code!Tick
    BY DEF Code!Next, Code!SendCode, Code!VerifyCode, Code!Arrive, Code!Handle,
           Code!ReadLatest, Code!CountIp, Code!InsertCode, Code!ReadCode, Code!CountFailure,
           Code!MarkUsed, Code!Abort, Code!vars
  <2>2. QED
    BY <2>1 DEF Code!Tick, CodeTypeInv, Code!TimesAreNatural
<1>5. collided' \in BOOLEAN
  BY DEF CodeTypeInv, Code!Next, Code!SendCode, Code!VerifyCode, Code!Arrive, Code!Handle,
         Code!ReadLatest, Code!CountIp, Code!InsertCode, Code!ReadCode, Code!CountFailure,
         Code!MarkUsed, Code!Abort, Code!Tick, Code!vars
<1>6. QED
  BY <1>1, <1>2, <1>3, <1>4, <1>5 DEF CodeTypeInv

\* What a handler knows of the rows: none is newer than when it arrived, and the one it is
\* let in by was the newest when it was read.
Informed == \A c \in Handlers :
  /\ caller[c].known <= Len(codes)
  /\ Code!At(c, "right") => \A i \in Issued :
       codes[i].target = caller[c].target /\ i <= caller[c].known => i <= caller[c].row

LEMMA StaysInformed ==
  ASSUME CodeTypeInv, Code!TimesAreNatural, Informed, [Code!Next]_(Code!vars)
  PROVE  Informed'
<1> SUFFICES ASSUME NEW c \in Handlers
             PROVE  /\ caller'[c].known <= Len(codes')
                    /\ Code!At(c, "right")' => \A i \in Issued' :
                         codes'[i].target = caller'[c].target /\ i <= caller'[c].known
                           => i <= caller'[c].row
  BY DEF Informed
<1>1. /\ Len(codes) \in Nat /\ Issued = 1..Len(codes)
      /\ caller[c] \in Serving /\ caller[c].known \in Nat
  BY DEF CodeTypeInv, Serving, Issued
<1>2. Len(codes') \in Nat /\ Issued' = 1..Len(codes')
  <2>1. codes' \in Seq(CodeRow)'
    BY CodesTyped DEF CodeTypeInv
  <2>2. QED
    BY <2>1 DEF Issued
<1>3. Len(codes) <= Len(codes')
  <2>1. CASE UNCHANGED codes
    BY <1>1, <2>1
  <2>2. ASSUME NEW d \in Handlers, Inserts(d) \/ Presents(d) PROVE Len(codes) <= Len(codes')
    BY <1>1, <2>2 DEF Inserts, Presents
  <2>3. QED
    BY <2>1, <2>2, CodeStep
<1>4. CASE caller'[c] = caller[c]
  <2>1. ASSUME Code!At(c, "right"), NEW i \in Issued', codes'[i].target = caller[c].target,
               i <= caller[c].known
        PROVE  i <= caller[c].row
    <3>1. i \in Issued
      BY <1>1, <1>2, <2>1 DEF Informed
    <3>2. codes[i].target = caller[c].target
      BY <2>1, <3>1, RowsStay
    <3>3. QED
      BY <2>1, <3>1, <3>2 DEF Informed
  <2>2. caller[c].known <= Len(codes')
    BY <1>1, <1>2, <1>3 DEF Informed
  <2>3. QED
    BY <1>4, <2>1, <2>2 DEF Code!At
<1>5. CASE caller'[c] = Code!Waiting
  BY <1>2, <1>5 DEF Code!Waiting, Code!At
<1>6. CASE Arrives(c)
  BY <1>1, <1>6 DEF Arrives, Code!At
<1>7. CASE Looks(c) \/ Counts(c)
  <2>1. PICK pc \in {"count", "insert"} : caller'[c] = [caller[c] EXCEPT !.pc = pc]
    BY <1>7 DEF Looks, Counts
  <2>2. codes' = codes
    BY <1>7 DEF Looks, Counts
  <2>3. QED
    BY <1>1, <2>1, <2>2 DEF Informed, Code!At, Serving
<1>8. CASE Reads(c)
  <2>1. PICK hash \in {"right", "wrong"} :
          caller'[c] = [caller[c] EXCEPT !.row = Code!Latest(caller[c].target), !.pc = hash]
    BY <1>8 DEF Reads
  <2>2. \A i \in Code!RowsOf(caller[c].target) : i <= Code!Latest(caller[c].target)
    BY <1>8, LatestIsLast DEF Reads
  <2>3. /\ caller'[c].known = caller[c].known /\ caller'[c].target = caller[c].target
        /\ caller'[c].row = Code!Latest(caller[c].target)
    BY <1>1, <2>1 DEF Serving
  <2>4. codes' = codes /\ Issued' = Issued
    BY <1>8 DEF Reads, Issued
  <2>5. QED
    BY <1>1, <2>2, <2>3, <2>4 DEF Informed, Code!RowsOf, Issued
<1>9. QED
  BY <1>4, <1>5, <1>6, <1>7, <1>8, CallerStep
------------------------------------------------------------------------------
(* Limits *)

Busy == {c \in Handlers : ~Code!At(c, "waiting")}
Using(i) == {c \in Handlers : Code!At(c, "right") /\ caller[c].row = i}
Guessing(i) == {c \in Handlers : Code!At(c, "wrong") /\ caller[c].row = i}

\* The rows of a target in an interval, and the requests that may still add one.
SentTo(t, s) ==
  {j \in Issued : codes[j].target = t /\ codes[j].created \in s..(s + SendInterval - 1)}
SendingTo(t, s) ==
  {c \in Handlers : (Code!At(c, "count") \/ Code!At(c, "insert")) /\ caller[c].target = t
                   /\ clock < s + SendInterval}

\* The rows of the address in a minute, and the requests that may still add one.
SentFrom(s) == {j \in Issued : codes[j].ip /\ codes[j].created \in s..(s + Minute - 1)}
SendingFrom(s) == {c \in Handlers : Code!At(c, "insert") /\ caller[c].ip /\ clock < s + Minute}

Apart == collided \/ \A c, d \in Busy : c = d

InOrder == \A i \in Issued :
  /\ codes[i].created <= clock
  /\ \A j \in Issued : i <= j => codes[i].created <= codes[j].created

UsesCounted == \A i \in Issued :
  /\ ~codes[i].used => answers[i].ok = 0
  /\ answers[i].ok + Cardinality(Using(i)) <= Code!Racing

GuessesCounted == \A i \in Issued :
  /\ answers[i].invalid = codes[i].fails
  /\ answers[i].invalid + Cardinality(Guessing(i)) <= (MaxFailCount - 1) + Code!Racing

SendingCounted == \A s \in Nat, t \in Targets :
  Cardinality(SentTo(t, s)) + Cardinality(SendingTo(t, s)) <= Code!Racing

AddressCounted == \A s \in Nat :
  Cardinality(SentFrom(s)) + Cardinality(SendingFrom(s)) <= (IpLimit - 1) + Code!Racing

\* An allowance of b and one for each of r requests is kept when a request of P spends what
\* it was counted for, and when what is spent is within b and at most q requests are counted.
LEMMA AllowanceKept ==
  ASSUME NEW n \in Nat, NEW m \in Nat, NEW b \in Nat, NEW r \in Nat, NEW q \in Nat,
         NEW P, NEW Q, IsFiniteSet(P), IsFiniteSet(Q),
         n + Cardinality(P) <= b + r, Cardinality(Q) <= q, r <= q,
         \/ m <= b
         \/ m <= n /\ Q \subseteq P
         \/ m <= n + 1 /\ \E c \in P : Q \subseteq P \ {c}
  PROVE  m + Cardinality(Q) <= b + q
<1>1. Cardinality(P) \in Nat /\ Cardinality(Q) \in Nat
  BY FS_CardinalityType
<1>2. CASE m <= b
  BY <1>1, <1>2
<1>3. CASE m <= n /\ Q \subseteq P
  <2>1. Cardinality(Q) <= Cardinality(P)
    BY <1>3, FS_Subset
  <2>2. QED
    BY <1>1, <1>3, <2>1
<1>4. CASE m <= n + 1 /\ \E c \in P : Q \subseteq P \ {c}
  <2>1. PICK c \in P : Q \subseteq P \ {c}
    BY <1>4
  <2>2. IsFiniteSet(P \ {c}) /\ Cardinality(P \ {c}) = Cardinality(P) - 1
    BY FS_RemoveElement
  <2>3. Cardinality(Q) <= Cardinality(P) - 1
    BY <2>1, <2>2, FS_Subset
  <2>4. QED
    BY <1>1, <1>4, <2>3
<1>5. QED
  BY <1>2, <1>3, <1>4

LEMMA OneMore ==
  ASSUME NEW S, IsFiniteSet(S), NEW x, NEW T \in SUBSET (S \cup {x})
  PROVE  Cardinality(T) <= Cardinality(S) + 1
<1>1. IsFiniteSet(S \cup {x}) /\ Cardinality(S \cup {x}) <= Cardinality(S) + 1
  <2>1. Cardinality(S) \in Nat
    BY FS_CardinalityType
  <2>2. /\ IsFiniteSet(S \cup {x})
        /\ Cardinality(S \cup {x}) = IF x \in S THEN Cardinality(S) ELSE Cardinality(S) + 1
    BY FS_AddElement, Zenon
  <2>3. QED
    BY <2>1, <2>2
<1>2. Cardinality(T) <= Cardinality(S \cup {x})
  BY <1>1, FS_Subset
<1>3. IsFiniteSet(T) /\ Cardinality(T) \in Nat /\ Cardinality(S \cup {x}) \in Nat
      /\ Cardinality(S) \in Nat
  BY <1>1, FS_Subset, FS_CardinalityType
<1>4. QED
  BY <1>1, <1>2, <1>3

\* When requests do not overlap there is at most one.
LEMMA FewAreBusy ==
  ASSUME IsFiniteSet(Handlers), NEW busy \in SUBSET Handlers, NEW hit \in BOOLEAN,
         hit \/ \A c, d \in busy : c = d, NEW S \in SUBSET busy
  PROVE  /\ IsFiniteSet(S)
         /\ Cardinality(S) <= IF hit THEN Cardinality(Handlers) ELSE 1
<1>1. IsFiniteSet(S) /\ Cardinality(S) <= Cardinality(Handlers)
  BY FS_Subset
<1>2. CASE ~hit
  <2>1. CASE S = {}
    BY <2>1, <1>2, FS_EmptySet
  <2>2. ASSUME NEW c \in S PROVE Cardinality(S) = 1
    <3>1. S = {c}
      BY <1>2
    <3>2. QED
      BY <3>1, FS_Singleton
  <2>3. QED
    BY <1>1, <1>2, <2>1, <2>2
<1>3. QED
  BY <1>1, <1>2

LEMMA StaysApart ==
  ASSUME CodeTypeInv, Code!TimesAreNatural, IsFiniteSet(Handlers), Apart, [Code!Next]_(Code!vars)
  PROVE  /\ Apart'
         /\ Code!Racing \in Nat /\ Code!Racing' \in Nat /\ Code!Racing <= Code!Racing'
         /\ \A S \in SUBSET Busy' : IsFiniteSet(S) /\ Cardinality(S) <= Code!Racing'
<1>1. Cardinality(Handlers) \in Nat
  BY FS_CardinalityType
<1>2. \A c \in Handlers : Cardinality(Handlers) >= 1
  BY <1>1, FS_EmptySet
<1>3. collided \in BOOLEAN /\ collided' \in BOOLEAN
  BY CodesTyped DEF CodeTypeInv
<1>4. Code!Racing \in Nat /\ Code!Racing' \in Nat
  BY <1>1, RacingIs
<1>5. Apart' /\ Code!Racing <= Code!Racing'
  <2>1. CASE Passes
    BY <1>4, <2>1, RacingIs DEF Passes, Apart, Busy, Code!At
  <2>2. ASSUME NEW c \in Handlers, Others(c), Arrives(c) PROVE Apart' /\ Code!Racing <= Code!Racing'
    <3>1. collided => collided'
      BY <2>2 DEF Arrives
    <3>2. Code!Racing <= Code!Racing'
      BY <1>1, <1>2, <3>1, RacingIs
    <3>3. ASSUME ~collided', NEW d \in Busy' PROVE d = c
      BY <2>2, <3>3 DEF Arrives, Others, Busy, Code!At
    <3>4. QED
      BY <3>2, <3>3 DEF Apart
  <2>3. ASSUME NEW c \in Handlers, Others(c),
               \/ Looks(c) \/ Counts(c) \/ Reads(c)
               \/ Inserts(c) \/ Presents(c) \/ Leaves(c)
        PROVE  Apart' /\ Code!Racing <= Code!Racing'
    <3>1. collided' = collided
      BY <2>3 DEF Looks, Counts, Reads, Inserts, Presents, Leaves
    <3>2. Code!At(c, "waiting") => caller'[c] = Code!Waiting
      BY <2>3 DEF Looks, Counts, Reads, Inserts, Presents, Leaves, Code!At
    <3>3. Busy' \subseteq Busy
      BY <2>3, <3>2 DEF Others, Busy, Code!At, Code!Waiting
    <3>4. QED
      BY <1>4, <3>1, <3>3, RacingIs DEF Apart
  <2>4. QED
    BY <2>1, <2>2, <2>3, StepIs
<1>6. ASSUME NEW S \in SUBSET Busy' PROVE IsFiniteSet(S) /\ Cardinality(S) <= Code!Racing'
  <2>1. Busy' \in SUBSET Handlers
    BY DEF Busy
  <2>2. collided' \/ \A c, d \in Busy' : c = d
    BY <1>5 DEF Apart
  <2>3. QED
    BY <1>3, <2>1, <2>2, FewAreBusy, RacingIs
<1>7. QED
  BY <1>4, <1>5, <1>6

LEMMA StaysInOrder ==
  ASSUME CodeTypeInv, Code!TimesAreNatural, InOrder, [Code!Next]_(Code!vars)
  PROVE  InOrder'
<1>1. /\ clock \in Nat /\ clock' \in Nat /\ clock <= clock'
      /\ Len(codes) \in Nat /\ Issued = 1..Len(codes)
      /\ \A i \in Issued : codes[i].created \in Nat
  <2>1. clock \in Nat /\ clock' \in {clock, clock + 1}
    <3>1. clock \in Nat
      BY DEF CodeTypeInv, Code!TimesAreNatural
    <3>2. Passes \/ clock' = clock
      BY StepIs DEF Arrives, Looks, Counts, Reads, Inserts, Presents, Leaves
    <3>3. QED
      BY <3>1, <3>2 DEF Passes
  <2>2. Len(codes) \in Nat /\ Issued = 1..Len(codes) /\ \A i \in Issued : codes[i] \in CodeRow
    BY DEF CodeTypeInv, Issued
  <2>3. \A i \in Issued : codes[i].created \in Nat
    BY <2>2 DEF CodeRow, Code!TimesAreNatural
  <2>4. QED
    BY <2>1, <2>2, <2>3
<1>2. CASE Issued' = Issued
  BY <1>1, <1>2, RowsStay DEF InOrder
<1>3. ASSUME NEW c \in Handlers, Inserts(c) PROVE InOrder'
  <2>1. /\ Issued' = Issued \cup {Len(codes) + 1}
        /\ codes'[Len(codes) + 1].created = clock /\ clock' = clock
        /\ \A i \in Issued : codes'[i] = codes[i]
    BY <1>3 DEF Inserts
  <2>2. ASSUME NEW i \in Issued', NEW j \in Issued', i <= j
        PROVE  codes'[i].created <= clock' /\ codes'[i].created <= codes'[j].created
    <3>1. CASE i \in Issued /\ j \in Issued
      BY <1>1, <2>1, <2>2, <3>1 DEF InOrder
    <3>2. CASE j = Len(codes) + 1 /\ i \in Issued
      BY <1>1, <2>1, <3>2 DEF InOrder
    <3>3. CASE i = Len(codes) + 1
      <4>1. j = i
        BY <1>1, <2>1, <2>2, <3>3
      <4>2. QED
        BY <1>1, <2>1, <3>3, <4>1
    <3>4. QED
      BY <2>1, <3>1, <3>2, <3>3
  <2>3. \A i \in Issued' : i <= i
    BY <1>1, <2>1
  <2>4. QED
    BY <2>2, <2>3 DEF InOrder
<1>4. QED
  BY <1>2, <1>3, CodeStep DEF Presents, Issued

LEMMA NewPlace ==
  ASSUME CodeTypeInv, NEW c \in Handlers
  PROVE  /\ Inserts(c) \/ Presents(c) \/ Leaves(c) => caller'[c].pc = "waiting"
         /\ Arrives(c) => caller'[c].pc \in {"latest", "read"}
         /\ Looks(c) => /\ caller'[c].pc = IF caller[c].ip THEN "count" ELSE "insert"
                        /\ caller'[c].target = caller[c].target /\ caller'[c].ip = caller[c].ip
         /\ Counts(c) => /\ caller'[c].pc = "insert"
                         /\ caller'[c].target = caller[c].target /\ caller'[c].ip = caller[c].ip
         /\ Reads(c) => /\ caller'[c].pc \in {"right", "wrong"}
                        /\ caller'[c].row = Code!Latest(caller[c].target)
<1>1. caller[c] \in Serving
  BY DEF CodeTypeInv
<1>2. Inserts(c) \/ Presents(c) \/ Leaves(c) => caller'[c].pc = "waiting"
  BY DEF Inserts, Presents, Leaves, Code!Waiting
<1>3. Arrives(c) => caller'[c].pc \in {"latest", "read"}
  BY DEF Arrives
<1>4. Looks(c) => /\ caller'[c].pc = IF caller[c].ip THEN "count" ELSE "insert"
                  /\ caller'[c].target = caller[c].target /\ caller'[c].ip = caller[c].ip
  BY <1>1 DEF Looks, Serving
<1>5. Counts(c) => /\ caller'[c].pc = "insert"
                   /\ caller'[c].target = caller[c].target /\ caller'[c].ip = caller[c].ip
  BY <1>1 DEF Counts, Serving
<1>6. Reads(c) => /\ caller'[c].pc \in {"right", "wrong"}
                  /\ caller'[c].row = Code!Latest(caller[c].target)
  BY <1>1 DEF Reads, Serving
<1>7. QED
  BY <1>2, <1>3, <1>4, <1>5, <1>6

\* Who is about to present a row was so before, or has read it now.
LEMMA UsesStayCounted ==
  ASSUME CodeTypeInv, Code!TimesAreNatural, IsFiniteSet(Handlers), Apart, UsesCounted,
         [Code!Next]_(Code!vars)
  PROVE  UsesCounted'
<1> SUFFICES ASSUME NEW i \in Issued'
             PROVE  /\ ~codes'[i].used => answers'[i].ok = 0
                    /\ answers'[i].ok + Cardinality(Using(i)') <= Code!Racing'
  BY DEF UsesCounted
<1> DEFINE P == Using(i)
           Q == Using(i)'
<1>1. /\ Code!Racing \in Nat /\ Code!Racing' \in Nat /\ Code!Racing <= Code!Racing'
      /\ IsFiniteSet(Q) /\ Cardinality(Q) <= Code!Racing'
      /\ IsFiniteSet(P)
  <2>1. Q \in SUBSET Busy'
    BY DEF Using, Busy, Code!At
  <2>2. P \in SUBSET Handlers
    BY DEF Using
  <2>3. QED
    BY <2>1, <2>2, StaysApart, FS_Subset
<1>2. CASE i \notin Issued
  <2>1. PICK c \in Handlers : Inserts(c) /\ Others(c)
    BY <1>2, StepIs DEF Issued, Passes, Arrives, Looks, Counts, Reads, Presents, Leaves
  <2>2. i = Len(codes) + 1 /\ answers'[i].ok = 0
    BY <1>2, <2>1 DEF Inserts
  <2>3. ASSUME NEW d \in Handlers, Code!At(d, "right")' PROVE caller'[d].row # i
    BY <1>2, <2>1, <2>3 DEF Inserts, Others, Code!At, Code!Waiting, CodeTypeInv
  <2>4. Q = {}
    BY <2>3 DEF Using
  <2>5. Cardinality(Q) = 0
    BY <2>4, FS_EmptySet
  <2>6. QED
    BY <1>1, <2>2, <2>5
<1>3. CASE i \in Issued
  <2>1. /\ answers[i] \in Tally /\ answers'[i] \in Tally /\ codes[i] \in CodeRow
    BY <1>3, CodesTyped DEF CodeTypeInv, Issued
  <2>2. answers[i].ok \in Nat /\ answers'[i].ok \in Nat
    BY <2>1 DEF Tally
  <2>3. answers[i].ok + Cardinality(P) <= 0 + Code!Racing /\ (~codes[i].used => answers[i].ok = 0)
    BY <1>1, <1>3, <2>2, FS_CardinalityType DEF UsesCounted
  <2>4. SUFFICES /\ ~codes'[i].used => answers'[i].ok = 0
                 /\ \/ answers'[i].ok <= 0
                    \/ answers'[i].ok <= answers[i].ok /\ Q \subseteq P
                    \/ answers'[i].ok <= answers[i].ok + 1 /\ \E c \in P : Q \subseteq P \ {c}
    <3> DEFINE n == answers[i].ok
               m == answers'[i].ok
               r == Code!Racing
               q == Code!Racing'
    <3>1. /\ n \in Nat /\ m \in Nat /\ r \in Nat /\ q \in Nat
          /\ IsFiniteSet(P) /\ IsFiniteSet(Q) /\ n + Cardinality(P) <= 0 + r
          /\ Cardinality(Q) <= q /\ r <= q
          /\ m <= 0 \/ (m <= n /\ Q \subseteq P) \/ (m <= n + 1 /\ \E c \in P : Q \subseteq P \ {c})
      BY <1>1, <2>2, <2>3, <2>4
    <3> HIDE DEF P, Q, n, m, r, q
    <3>2. m + Cardinality(Q) <= 0 + q
      BY <3>1, AllowanceKept
    <3>3. m + Cardinality(Q) <= q
      BY <3>1, <3>2, FS_CardinalityType
    <3>4. QED
      BY <2>4, <3>3 DEF Q, m, q
  <2>5. CASE Passes
    BY <2>2, <2>3, <2>5 DEF Passes, Using, Code!At
  <2>6. ASSUME NEW c \in Handlers, Others(c), Reads(c)
        PROVE  /\ ~codes'[i].used => answers'[i].ok = 0
               /\ \/ answers'[i].ok <= 0
                  \/ answers'[i].ok <= answers[i].ok /\ Q \subseteq P
    <3>1. codes' = codes /\ answers' = answers
      BY <2>6 DEF Reads
    <3>2. caller'[c].row = Code!Latest(caller[c].target)
      BY <2>6 DEF Reads, CodeTypeInv, Serving
    <3>3. CASE Code!Latest(caller[c].target) = i
      <4>1. ~codes[i].used
        BY <2>6, <3>3 DEF Reads, Code!Refused
      <4>2. QED
        BY <2>3, <3>1, <4>1
    <3>4. CASE Code!Latest(caller[c].target) # i
      <4>1. Q \subseteq P
        BY <2>6, <3>2, <3>4 DEF Using, Others, Code!At
      <4>2. QED
        BY <2>2, <2>3, <3>1, <4>1
    <3>5. QED
      BY <3>3, <3>4
  <2>7. ASSUME NEW c \in Handlers, Others(c), Presents(c)
        PROVE  /\ ~codes'[i].used => answers'[i].ok = 0
               /\ \/ answers'[i].ok <= answers[i].ok /\ Q \subseteq P
                  \/ answers'[i].ok <= answers[i].ok + 1 /\ \E d \in P : Q \subseteq P \ {d}
    <3>1. Q \subseteq P \ {c}
      BY <2>7 DEF Presents, Using, Others, Code!At, Code!Waiting
    <3>2. CASE caller[c].row # i
      BY <1>3, <2>2, <2>3, <2>7, <3>1, <3>2 DEF Presents
    <3>3. CASE caller[c].row = i /\ Code!CountFailure(c)
      <4>1. ~Code!MarkUsed(c)
        BY <3>3 DEF Code!CountFailure, Code!MarkUsed, Code!At
      <4>2. codes'[i].used = codes[i].used /\ answers'[i].ok = answers[i].ok
        BY <2>1, <2>7, <3>3, <4>1 DEF Presents, CodeRow, Tally
      <4>3. QED
        BY <2>2, <2>3, <3>1, <4>2
    <3>4. CASE caller[c].row = i /\ Code!MarkUsed(c)
      <4>1. ~Code!CountFailure(c)
        BY <3>4 DEF Code!CountFailure, Code!MarkUsed, Code!At
      <4>2. codes'[i].used = TRUE /\ answers'[i].ok = answers[i].ok + 1
        BY <2>1, <2>7, <3>4, <4>1 DEF Presents, CodeRow, Tally
      <4>3. c \in P
        BY <3>4 DEF Code!MarkUsed, Using
      <4>4. QED
        BY <2>2, <3>1, <4>2, <4>3
    <3>5. QED
      BY <2>7, <3>2, <3>3, <3>4 DEF Presents
  <2>8. ASSUME NEW c \in Handlers, Others(c),
               Arrives(c) \/ Looks(c) \/ Counts(c) \/ Inserts(c) \/ Leaves(c)
        PROVE  /\ ~codes'[i].used => answers'[i].ok = 0
               /\ answers'[i].ok <= answers[i].ok /\ Q \subseteq P
    <3>1. codes'[i] = codes[i] /\ answers'[i] = answers[i]
      BY <1>3, <2>8 DEF Arrives, Looks, Counts, Inserts, Leaves
    <3>2. caller'[c].pc # "right"
      BY <2>8, NewPlace
    <3>3. Q \subseteq P
      BY <2>8, <3>2 DEF Others, Using, Code!At
    <3>4. QED
      BY <2>2, <2>3, <3>1, <3>3
  <2>9. QED
    BY <2>5, <2>6, <2>7, <2>8, StepIs
<1>4. QED
  BY <1>2, <1>3

LEMMA GuessesStayCounted ==
  ASSUME CodeTypeInv, Code!TimesAreNatural, Code!LimitsArePositive, IsFiniteSet(Handlers), Apart,
         GuessesCounted, [Code!Next]_(Code!vars)
  PROVE  GuessesCounted'
<1> SUFFICES ASSUME NEW i \in Issued'
             PROVE  /\ answers'[i].invalid = codes'[i].fails
                    /\ answers'[i].invalid + Cardinality(Guessing(i)')
                         <= (MaxFailCount - 1) + Code!Racing'
  BY DEF GuessesCounted
<1> DEFINE P == Guessing(i)
           Q == Guessing(i)'
           b == MaxFailCount - 1
<1>1. /\ Code!Racing \in Nat /\ Code!Racing' \in Nat /\ Code!Racing <= Code!Racing'
      /\ IsFiniteSet(Q) /\ Cardinality(Q) <= Code!Racing'
      /\ IsFiniteSet(P)
      /\ b \in Nat
  <2>1. Q \in SUBSET Busy'
    BY DEF Guessing, Busy, Code!At
  <2>2. P \in SUBSET Handlers
    BY DEF Guessing
  <2>3. b \in Nat
    BY DEF Code!LimitsArePositive
  <2>4. QED
    BY <2>1, <2>2, <2>3, StaysApart, FS_Subset
<1>2. CASE i \notin Issued
  <2>1. PICK c \in Handlers : Inserts(c) /\ Others(c)
    BY <1>2, StepIs DEF Issued, Passes, Arrives, Looks, Counts, Reads, Presents, Leaves
  <2>2. i = Len(codes) + 1 /\ answers'[i].invalid = 0 /\ codes'[i].fails = 0
    BY <1>2, <2>1 DEF Inserts
  <2>3. ASSUME NEW d \in Handlers, Code!At(d, "wrong")' PROVE caller'[d].row # i
    BY <1>2, <2>1, <2>3 DEF Inserts, Others, Code!At, Code!Waiting, CodeTypeInv
  <2>4. Q = {}
    BY <2>3 DEF Guessing
  <2>5. Cardinality(Q) = 0
    BY <2>4, FS_EmptySet
  <2>6. QED
    BY <1>1, <2>2, <2>5
<1>3. CASE i \in Issued
  <2>1. /\ answers[i] \in Tally /\ answers'[i] \in Tally /\ codes[i] \in CodeRow
    BY <1>3, CodesTyped DEF CodeTypeInv, Issued
  <2>2. answers[i].invalid \in Nat /\ answers'[i].invalid \in Nat /\ codes[i].fails \in Nat
    BY <2>1 DEF Tally, CodeRow
  <2>3. /\ answers[i].invalid + Cardinality(P) <= b + Code!Racing
        /\ answers[i].invalid = codes[i].fails
    BY <1>3 DEF GuessesCounted
  <2>4. SUFFICES /\ answers'[i].invalid = codes'[i].fails
                 /\ \/ answers'[i].invalid <= b
                    \/ answers'[i].invalid <= answers[i].invalid /\ Q \subseteq P
                    \/ /\ answers'[i].invalid <= answers[i].invalid + 1
                       /\ \E c \in P : Q \subseteq P \ {c}
    <3> DEFINE n == answers[i].invalid
               m == answers'[i].invalid
               r == Code!Racing
               q == Code!Racing'
    <3>1. /\ n \in Nat /\ m \in Nat /\ r \in Nat /\ q \in Nat /\ b \in Nat
          /\ IsFiniteSet(P) /\ IsFiniteSet(Q) /\ n + Cardinality(P) <= b + r
          /\ Cardinality(Q) <= q /\ r <= q
          /\ m <= b \/ (m <= n /\ Q \subseteq P) \/ (m <= n + 1 /\ \E c \in P : Q \subseteq P \ {c})
      BY <1>1, <2>2, <2>3, <2>4
    <3> HIDE DEF P, Q, n, m, r, q, b
    <3>2. m + Cardinality(Q) <= b + q
      BY <3>1, AllowanceKept
    <3>3. QED
      BY <2>4, <3>2 DEF Q, m, q, b
  <2>5. CASE Passes
    BY <2>2, <2>3, <2>5 DEF Passes, Guessing, Code!At
  <2>6. ASSUME NEW c \in Handlers, Others(c), Reads(c)
        PROVE  /\ answers'[i].invalid = codes'[i].fails
               /\ \/ answers'[i].invalid <= b
                  \/ answers'[i].invalid <= answers[i].invalid /\ Q \subseteq P
    <3>1. codes' = codes /\ answers' = answers
      BY <2>6 DEF Reads
    <3>2. caller'[c].row = Code!Latest(caller[c].target)
      BY <2>6, NewPlace
    <3>3. CASE Code!Latest(caller[c].target) = i
      <4>1. ~ (codes[i].fails >= MaxFailCount)
        BY <2>6, <3>3 DEF Reads, Code!Refused
      <4>2. codes[i].fails <= b
        BY <2>2, <4>1 DEF Code!LimitsArePositive
      <4>3. QED
        BY <2>3, <3>1, <4>2
    <3>4. CASE Code!Latest(caller[c].target) # i
      <4>1. Q \subseteq P
        BY <2>6, <3>2, <3>4 DEF Guessing, Others, Code!At
      <4>2. QED
        BY <2>2, <2>3, <3>1, <4>1
    <3>5. QED
      BY <3>3, <3>4
  <2>7. ASSUME NEW c \in Handlers, Others(c), Presents(c)
        PROVE  /\ answers'[i].invalid = codes'[i].fails
               /\ \/ answers'[i].invalid <= answers[i].invalid /\ Q \subseteq P
                  \/ /\ answers'[i].invalid <= answers[i].invalid + 1
                     /\ \E d \in P : Q \subseteq P \ {d}
    <3>1. Q \subseteq P \ {c}
      BY <2>7 DEF Presents, Guessing, Others, Code!At, Code!Waiting
    <3>2. CASE caller[c].row # i
      BY <1>3, <2>2, <2>3, <2>7, <3>1, <3>2 DEF Presents
    <3>3. CASE caller[c].row = i /\ Code!CountFailure(c)
      <4>1. ~Code!MarkUsed(c)
        BY <3>3 DEF Code!CountFailure, Code!MarkUsed, Code!At
      <4>2. codes'[i].fails = codes[i].fails + 1 /\ answers'[i].invalid = answers[i].invalid + 1
        BY <2>1, <2>7, <3>3, <4>1 DEF Presents, CodeRow, Tally
      <4>3. c \in P
        BY <3>3 DEF Code!CountFailure, Guessing
      <4>4. QED
        BY <2>2, <2>3, <3>1, <4>2, <4>3
    <3>4. CASE caller[c].row = i /\ Code!MarkUsed(c)
      <4>1. ~Code!CountFailure(c)
        BY <3>4 DEF Code!CountFailure, Code!MarkUsed, Code!At
      <4>2. codes'[i].fails = codes[i].fails /\ answers'[i].invalid = answers[i].invalid
        BY <2>1, <2>7, <3>4, <4>1 DEF Presents, CodeRow, Tally
      <4>3. QED
        BY <2>2, <2>3, <3>1, <4>2
    <3>5. QED
      BY <2>7, <3>2, <3>3, <3>4 DEF Presents
  <2>8. ASSUME NEW c \in Handlers, Others(c),
               Arrives(c) \/ Looks(c) \/ Counts(c) \/ Inserts(c) \/ Leaves(c)
        PROVE  /\ answers'[i].invalid = codes'[i].fails
               /\ answers'[i].invalid <= answers[i].invalid /\ Q \subseteq P
    <3>1. codes'[i] = codes[i] /\ answers'[i] = answers[i]
      BY <1>3, <2>8 DEF Arrives, Looks, Counts, Inserts, Leaves
    <3>2. caller'[c].pc # "wrong"
      BY <2>8, NewPlace
    <3>3. Q \subseteq P
      BY <2>8, <3>2 DEF Others, Guessing, Code!At
    <3>4. QED
      BY <2>2, <2>3, <3>1, <3>3
  <2>9. QED
    BY <2>5, <2>6, <2>7, <2>8, StepIs
<1>4. QED
  BY <1>2, <1>3

LEMMA RowsAre ==
  ASSUME CodeTypeInv, Code!TimesAreNatural, [Code!Next]_(Code!vars)
  PROVE  /\ Len(codes) \in Nat /\ Issued = 1..Len(codes)
         /\ IsFiniteSet(Issued) /\ IsFiniteSet(Issued')
         /\ \A i \in Issued : codes[i].created \in Nat /\ codes[i].ip \in BOOLEAN
         /\ clock \in Nat
<1>1. Len(codes) \in Nat /\ Issued = 1..Len(codes)
  BY DEF CodeTypeInv, Issued
<1>2. Len(codes') \in Nat /\ Issued' = 1..Len(codes')
  <2>1. codes' \in Seq(CodeRow)
    BY CodesTyped DEF CodeTypeInv, CodeRow
  <2>2. QED
    BY <2>1 DEF Issued
<1>3. IsFiniteSet(Issued) /\ IsFiniteSet(Issued')
  BY <1>1, <1>2, FS_Interval
<1>4. \A i \in Issued : codes[i].created \in Nat /\ codes[i].ip \in BOOLEAN
  <2>1. \A i \in Issued : codes[i] \in CodeRow
    BY DEF CodeTypeInv, Issued
  <2>2. QED
    BY <2>1 DEF CodeRow, Code!TimesAreNatural
<1>5. clock \in Nat
  BY DEF CodeTypeInv, Code!TimesAreNatural
<1>6. QED
  BY <1>1, <1>3, <1>4, <1>5

\* Rows are sent at the time of the clock, and the clock does not go back.
LEMMA SendingStaysCounted ==
  ASSUME CodeTypeInv, Code!TimesAreNatural, IsFiniteSet(Handlers), Apart, InOrder, SendingCounted,
         [Code!Next]_(Code!vars)
  PROVE  SendingCounted'
<1> SUFFICES ASSUME NEW s \in Nat, NEW t \in Targets
             PROVE  Cardinality(SentTo(t, s)') + Cardinality(SendingTo(t, s)') <= Code!Racing'
  BY DEF SendingCounted
<1> DEFINE rows == SentTo(t, s)
           rowsAfter == SentTo(t, s)'
           P == SendingTo(t, s)
           Q == SendingTo(t, s)'
<1>1. /\ Code!Racing \in Nat /\ Code!Racing' \in Nat /\ Code!Racing <= Code!Racing'
      /\ IsFiniteSet(Q) /\ Cardinality(Q) <= Code!Racing'
      /\ IsFiniteSet(P)
  <2>1. Q \in SUBSET Busy'
    BY DEF SendingTo, Busy, Code!At
  <2>2. P \in SUBSET Handlers
    BY DEF SendingTo
  <2>3. QED
    BY <2>1, <2>2, StaysApart, FS_Subset
<1>2. /\ IsFiniteSet(rows) /\ IsFiniteSet(rowsAfter)
      /\ Cardinality(rows) \in Nat /\ Cardinality(rowsAfter) \in Nat
      /\ Len(codes) \in Nat /\ Issued = 1..Len(codes)
      /\ \A i \in Issued : codes[i].created \in Nat
      /\ clock \in Nat /\ SendInterval \in Nat
  <2>1. rows \in SUBSET Issued /\ rowsAfter \in SUBSET Issued'
    BY DEF SentTo
  <2>2. IsFiniteSet(rows) /\ IsFiniteSet(rowsAfter)
    BY <2>1, RowsAre, FS_Subset
  <2>3. QED
    BY <2>2, RowsAre, FS_CardinalityType DEF Code!TimesAreNatural
<1>3. Cardinality(rows) + Cardinality(P) <= 0 + Code!Racing
  BY <1>1, <1>2, FS_CardinalityType DEF SendingCounted
<1>4. SUFFICES \/ Cardinality(rowsAfter) <= 0
               \/ Cardinality(rowsAfter) <= Cardinality(rows) /\ Q \subseteq P
               \/ /\ Cardinality(rowsAfter) <= Cardinality(rows) + 1
                  /\ \E c \in P : Q \subseteq P \ {c}
  <2> DEFINE n == Cardinality(rows)
             m == Cardinality(rowsAfter)
             r == Code!Racing
             q == Code!Racing'
  <2>1. /\ n \in Nat /\ m \in Nat /\ r \in Nat /\ q \in Nat
        /\ IsFiniteSet(P) /\ IsFiniteSet(Q) /\ n + Cardinality(P) <= 0 + r
        /\ Cardinality(Q) <= q /\ r <= q
        /\ m <= 0 \/ (m <= n /\ Q \subseteq P) \/ (m <= n + 1 /\ \E c \in P : Q \subseteq P \ {c})
    BY <1>1, <1>2, <1>3, <1>4
  <2> HIDE DEF P, Q, n, m, r, q, rows, rowsAfter
  <2>2. m + Cardinality(Q) <= 0 + q
    BY <2>1, AllowanceKept
  <2>3. m + Cardinality(Q) <= q
    BY <2>1, <2>2, FS_CardinalityType
  <2>4. QED
    BY <2>3 DEF Q, m, q, rowsAfter
<1>5. ASSUME Issued' = Issued
      PROVE  rowsAfter = rows /\ Cardinality(rowsAfter) <= Cardinality(rows)
  <2>1. rowsAfter = rows
    BY <1>5, RowsStay DEF SentTo
  <2>2. QED
    BY <1>2, <2>1
<1>6. CASE Passes
  <2>1. Issued' = Issued /\ caller' = caller /\ clock <= clock' /\ clock' \in Nat
    BY <1>2, <1>6 DEF Passes, Issued
  <2>2. Q \subseteq P
    BY <1>2, <2>1 DEF SendingTo, Code!At
  <2>3. QED
    BY <1>5, <2>1, <2>2
<1>7. ASSUME NEW c \in Handlers, Others(c), Looks(c)
      PROVE  \/ Cardinality(rowsAfter) <= 0
             \/ Cardinality(rowsAfter) <= Cardinality(rows) /\ Q \subseteq P
  <2>1. codes' = codes /\ Issued' = Issued /\ clock' = clock
    BY <1>7 DEF Looks, Issued
  <2>2. /\ caller'[c].target = caller[c].target
    BY <1>7, NewPlace
  <2>3. CASE caller[c].target # t \/ ~ (clock < s + SendInterval)
    <3>1. Q \subseteq P
      BY <1>7, <2>1, <2>2, <2>3 DEF SendingTo, Others, Code!At
    <3>2. QED
      BY <1>5, <2>1, <3>1
  <2>4. CASE caller[c].target = t /\ clock < s + SendInterval
    <3>1. ASSUME NEW j \in rows PROVE FALSE
      <4>1. /\ j \in Issued /\ j \in Code!RowsOf(t)
            /\ codes[j].created >= s /\ codes[j].created \in Nat
        BY <1>2, <3>1 DEF SentTo, Code!RowsOf, Issued
      <4>2. Code!Latest(t) \in Issued /\ j <= Code!Latest(t)
        BY <4>1, LatestIsLast DEF Code!RowsOf, Issued
      <4>3. ~ (clock - codes[Code!Latest(t)].created < SendInterval)
        BY <1>7, <2>4, <4>1 DEF Looks, Code!TooSoon
      <4>4. /\ codes[j].created <= codes[Code!Latest(t)].created
            /\ codes[Code!Latest(t)].created \in Nat
        BY <1>2, <4>1, <4>2 DEF InOrder
      <4>5. QED
        BY <1>2, <2>4, <4>1, <4>3, <4>4
    <3>2. rowsAfter = {}
      BY <1>5, <2>1, <3>1
    <3>3. QED
      BY <3>2, FS_EmptySet
  <2>5. QED
    BY <2>3, <2>4
<1>8. ASSUME NEW c \in Handlers, Others(c), Inserts(c)
      PROVE  \/ Cardinality(rowsAfter) <= Cardinality(rows) /\ Q \subseteq P
             \/ /\ Cardinality(rowsAfter) <= Cardinality(rows) + 1
                /\ \E d \in P : Q \subseteq P \ {d}
  <2> DEFINE new == Len(codes) + 1
  <2>1. /\ clock' = clock /\ Issued' = Issued \cup {new}
        /\ codes'[new].target = caller[c].target /\ codes'[new].created = clock
        /\ \A i \in Issued : codes'[i] = codes[i]
    BY <1>8 DEF Inserts
  <2>2. Code!At(c, "insert") /\ caller'[c].pc = "waiting"
    BY <1>8, NewPlace DEF Inserts, Code!InsertCode
  <2>3. Q \subseteq P \ {c}
    BY <1>8, <2>2, <2>1 DEF SendingTo, Others, Code!At
  <2>4. CASE caller[c].target = t /\ clock < s + SendInterval
    <3>1. c \in P
      BY <2>2, <2>4 DEF SendingTo
    <3>2. rowsAfter \in SUBSET (rows \cup {new})
      BY <2>1 DEF SentTo
    <3>3. Cardinality(rowsAfter) <= Cardinality(rows) + 1
      <4>1. IsFiniteSet(rows)
        BY <1>2
      <4> HIDE DEF rows, rowsAfter, new
      <4>2. QED
        BY <3>2, <4>1, OneMore
    <3>4. QED
      BY <2>3, <3>1, <3>3
  <2>5. CASE caller[c].target # t \/ ~ (clock < s + SendInterval)
    <3>1. rowsAfter = rows
      <4>1. new \notin rowsAfter
        BY <1>2, <2>1, <2>5 DEF SentTo
      <4>2. \A j \in Issued : j \in rowsAfter <=> j \in rows
        BY <2>1 DEF SentTo
      <4>3. rows \subseteq Issued /\ rowsAfter \subseteq Issued \cup {new}
        BY <2>1 DEF SentTo
      <4>4. QED
        BY <4>1, <4>2, <4>3
    <3>2. QED
      BY <1>2, <2>3, <3>1
  <2>6. QED
    BY <2>4, <2>5
<1>9. ASSUME NEW c \in Handlers, Others(c),
             Arrives(c) \/ Counts(c) \/ Reads(c) \/ Presents(c) \/ Leaves(c)
      PROVE  Cardinality(rowsAfter) <= Cardinality(rows) /\ Q \subseteq P
  <2>1. Issued' = Issued /\ clock' = clock
    BY <1>9 DEF Arrives, Counts, Reads, Presents, Leaves, Issued
  <2>2. \/ caller'[c].pc \notin {"count", "insert"}
        \/ Code!At(c, "count") /\ caller'[c].target = caller[c].target
    BY <1>9, NewPlace DEF Counts
  <2>3. Q \subseteq P
    BY <1>9, <2>1, <2>2 DEF SendingTo, Others, Code!At
  <2>4. QED
    BY <1>5, <2>1, <2>3
<1>10. QED
  BY <1>6, <1>7, <1>8, <1>9, StepIs

LEMMA AddressStaysCounted ==
  ASSUME CodeTypeInv, Code!TimesAreNatural, Code!LimitsArePositive, IsFiniteSet(Handlers),
         Apart, InOrder, AddressCounted, [Code!Next]_(Code!vars)
  PROVE  AddressCounted'
<1> SUFFICES ASSUME NEW s \in Nat
             PROVE  Cardinality(SentFrom(s)') + Cardinality(SendingFrom(s)')
                      <= (IpLimit - 1) + Code!Racing'
  BY DEF AddressCounted
<1> DEFINE rows == SentFrom(s)
           rowsAfter == SentFrom(s)'
           P == SendingFrom(s)
           Q == SendingFrom(s)'
           b == IpLimit - 1
<1>1. /\ Code!Racing \in Nat /\ Code!Racing' \in Nat /\ Code!Racing <= Code!Racing'
      /\ IsFiniteSet(Q) /\ Cardinality(Q) <= Code!Racing'
      /\ IsFiniteSet(P)
      /\ b \in Nat
  <2>1. Q \in SUBSET Busy'
    BY DEF SendingFrom, Busy, Code!At
  <2>2. P \in SUBSET Handlers
    BY DEF SendingFrom
  <2>3. b \in Nat
    BY DEF Code!LimitsArePositive
  <2>4. QED
    BY <2>1, <2>2, <2>3, StaysApart, FS_Subset
<1>2. /\ IsFiniteSet(rows) /\ IsFiniteSet(rowsAfter)
      /\ Cardinality(rows) \in Nat /\ Cardinality(rowsAfter) \in Nat
      /\ Len(codes) \in Nat /\ Issued = 1..Len(codes)
      /\ \A i \in Issued : codes[i].created \in Nat
      /\ clock \in Nat /\ Minute \in Nat
  <2>1. rows \in SUBSET Issued /\ rowsAfter \in SUBSET Issued'
    BY DEF SentFrom
  <2>2. IsFiniteSet(rows) /\ IsFiniteSet(rowsAfter)
    BY <2>1, RowsAre, FS_Subset
  <2>3. QED
    BY <2>2, RowsAre, FS_CardinalityType DEF Code!TimesAreNatural
<1>3. Cardinality(rows) + Cardinality(P) <= b + Code!Racing
  BY <1>1, <1>2, FS_CardinalityType DEF AddressCounted
<1>4. SUFFICES \/ Cardinality(rowsAfter) <= b
               \/ Cardinality(rowsAfter) <= Cardinality(rows) /\ Q \subseteq P
               \/ /\ Cardinality(rowsAfter) <= Cardinality(rows) + 1
                  /\ \E c \in P : Q \subseteq P \ {c}
  <2> DEFINE n == Cardinality(rows)
             m == Cardinality(rowsAfter)
             r == Code!Racing
             q == Code!Racing'
  <2>1. /\ n \in Nat /\ m \in Nat /\ r \in Nat /\ q \in Nat /\ b \in Nat
        /\ IsFiniteSet(P) /\ IsFiniteSet(Q) /\ n + Cardinality(P) <= b + r
        /\ Cardinality(Q) <= q /\ r <= q
        /\ m <= b \/ (m <= n /\ Q \subseteq P) \/ (m <= n + 1 /\ \E c \in P : Q \subseteq P \ {c})
    BY <1>1, <1>2, <1>3, <1>4
  <2> HIDE DEF P, Q, n, m, r, q, b, rows, rowsAfter
  <2>2. m + Cardinality(Q) <= b + q
    BY <2>1, AllowanceKept
  <2>3. QED
    BY <2>2 DEF Q, m, q, b, rowsAfter
<1>5. ASSUME Issued' = Issued
      PROVE  rowsAfter = rows /\ Cardinality(rowsAfter) <= Cardinality(rows)
  <2>1. rowsAfter = rows
    BY <1>5, RowsStay DEF SentFrom
  <2>2. QED
    BY <1>2, <2>1
<1>6. CASE Passes
  <2>1. Issued' = Issued /\ caller' = caller /\ clock <= clock' /\ clock' \in Nat
    BY <1>2, <1>6 DEF Passes, Issued
  <2>2. Q \subseteq P
    BY <1>2, <2>1 DEF SendingFrom, Code!At
  <2>3. QED
    BY <1>5, <2>1, <2>2
<1>7. ASSUME NEW c \in Handlers, Others(c), Counts(c)
      PROVE  \/ Cardinality(rowsAfter) <= b
             \/ Cardinality(rowsAfter) <= Cardinality(rows) /\ Q \subseteq P
  <2>1. codes' = codes /\ Issued' = Issued /\ clock' = clock
    BY <1>7 DEF Counts, Issued
  <2>2. CASE ~ (clock < s + Minute)
    <3>1. Q \subseteq P
      BY <2>1, <2>2 DEF SendingFrom
    <3>2. QED
      BY <1>5, <2>1, <3>1
  <2>3. CASE clock < s + Minute
    <3> DEFINE recent == {i \in DOMAIN codes : Code!Recent(i)}
    <3>1. rows \in SUBSET recent
      BY <1>2, <2>3 DEF SentFrom, Code!Recent, Issued
    <3>2. IsFiniteSet(recent)
      <4>1. recent \in SUBSET Issued
        BY DEF Issued
      <4>2. QED
        BY <4>1, RowsAre, FS_Subset
    <3>3. Cardinality(rows) <= Cardinality(recent) /\ Cardinality(recent) \in Nat
      <4> HIDE DEF rows, recent
      <4>1. QED
        BY <3>1, <3>2, FS_Subset, FS_CardinalityType
    <3>4. ~ (Cardinality(recent) >= IpLimit)
      BY <1>7, SameNumber DEF Counts, Code!IpLimited
    <3>5. rowsAfter = rows
      BY <1>5, <2>1
    <3>6. QED
      BY <1>2, <3>3, <3>4, <3>5 DEF Code!LimitsArePositive
  <2>4. QED
    BY <2>2, <2>3
<1>8. ASSUME NEW c \in Handlers, Others(c), Inserts(c)
      PROVE  \/ Cardinality(rowsAfter) <= Cardinality(rows) /\ Q \subseteq P
             \/ /\ Cardinality(rowsAfter) <= Cardinality(rows) + 1
                /\ \E d \in P : Q \subseteq P \ {d}
  <2> DEFINE new == Len(codes) + 1
  <2>1. /\ clock' = clock /\ Issued' = Issued \cup {new}
        /\ codes'[new].ip = caller[c].ip /\ codes'[new].created = clock
        /\ \A i \in Issued : codes'[i] = codes[i]
    BY <1>8 DEF Inserts
  <2>2. Code!At(c, "insert") /\ caller'[c].pc = "waiting"
    BY <1>8, NewPlace DEF Inserts, Code!InsertCode
  <2>3. Q \subseteq P \ {c}
    BY <1>8, <2>2, <2>1 DEF SendingFrom, Others, Code!At
  <2>4. CASE caller[c].ip /\ clock < s + Minute
    <3>1. c \in P
      BY <2>2, <2>4 DEF SendingFrom
    <3>2. rowsAfter \in SUBSET (rows \cup {new})
      BY <2>1 DEF SentFrom
    <3>3. Cardinality(rowsAfter) <= Cardinality(rows) + 1
      <4>1. IsFiniteSet(rows)
        BY <1>2
      <4> HIDE DEF rows, rowsAfter, new
      <4>2. QED
        BY <3>2, <4>1, OneMore
    <3>4. QED
      BY <2>3, <3>1, <3>3
  <2>5. CASE ~caller[c].ip \/ ~ (clock < s + Minute)
    <3>1. rowsAfter = rows
      <4>1. new \notin rowsAfter
        BY <1>2, <2>1, <2>5 DEF SentFrom
      <4>2. \A j \in Issued : j \in rowsAfter <=> j \in rows
        BY <2>1 DEF SentFrom
      <4>3. rows \subseteq Issued /\ rowsAfter \subseteq Issued \cup {new}
        BY <2>1 DEF SentFrom
      <4>4. QED
        BY <4>1, <4>2, <4>3
    <3>2. QED
      BY <1>2, <2>3, <3>1
  <2>6. QED
    BY <2>4, <2>5
<1>9. ASSUME NEW c \in Handlers, Others(c),
             Arrives(c) \/ Looks(c) \/ Reads(c) \/ Presents(c) \/ Leaves(c)
      PROVE  Cardinality(rowsAfter) <= Cardinality(rows) /\ Q \subseteq P
  <2>1. Issued' = Issued /\ clock' = clock
    BY <1>9 DEF Arrives, Looks, Reads, Presents, Leaves, Issued
  <2>2. ~ (caller'[c].pc = "insert" /\ caller'[c].ip)
    BY <1>9, NewPlace
  <2>3. Q \subseteq P
    BY <1>9, <2>1, <2>2 DEF SendingFrom, Others, Code!At
  <2>4. QED
    BY <1>5, <2>1, <2>3
<1>10. QED
  BY <1>6, <1>7, <1>8, <1>9, StepIs

LimitInv ==
  /\ CodeTypeInv /\ Apart /\ InOrder
  /\ UsesCounted /\ GuessesCounted /\ SendingCounted /\ AddressCounted

LEMMA NothingIsCounted ==
  ASSUME Code!TimesAreNatural, Code!LimitsArePositive, Code!Init
  PROVE  LimitInv
<1>1. CodeTypeInv
  BY CodeInitTyped
<1>2. Issued = {} /\ \A c \in Handlers : Code!At(c, "waiting")
  BY DEF Code!Init, Issued, Code!At, Code!Waiting
<1>3. Apart /\ InOrder /\ UsesCounted /\ GuessesCounted
  BY <1>2 DEF Apart, Busy, InOrder, UsesCounted, GuessesCounted
<1>4. Code!Racing = 1
  BY RacingIs DEF Code!Init
<1>5. SendingCounted
  <2> SUFFICES ASSUME NEW s \in Nat, NEW t \in Targets
               PROVE  Cardinality(SentTo(t, s)) + Cardinality(SendingTo(t, s)) <= Code!Racing
    BY DEF SendingCounted
  <2>1. SentTo(t, s) = {} /\ SendingTo(t, s) = {}
    BY <1>2 DEF SentTo, SendingTo, Code!At
  <2>2. QED
    BY <1>4, <2>1, FS_EmptySet
<1>6. AddressCounted
  <2> SUFFICES ASSUME NEW s \in Nat
               PROVE  Cardinality(SentFrom(s)) + Cardinality(SendingFrom(s))
                        <= (IpLimit - 1) + Code!Racing
    BY DEF AddressCounted
  <2>1. SentFrom(s) = {} /\ SendingFrom(s) = {}
    BY <1>2 DEF SentFrom, SendingFrom, Code!At
  <2>2. QED
    BY <1>4, <2>1, FS_EmptySet DEF Code!LimitsArePositive
<1>7. QED
  BY <1>1, <1>3, <1>5, <1>6 DEF LimitInv

LEMMA LimitsFollow ==
  ASSUME Code!TimesAreNatural, Code!LimitsArePositive, IsFiniteSet(Handlers), LimitInv
  PROVE  Code!LimitsHold
<1>1. Cardinality(Handlers) \in Nat /\ Code!Racing \in Nat
  BY RacingIs, FS_CardinalityType DEF LimitInv, CodeTypeInv
<1> SUFFICES ASSUME NEW i \in Issued
             PROVE  /\ answers[i].ok <= Code!Racing
                    /\ answers[i].invalid <= MaxFailCount + Code!Racing - 1
                    /\ Cardinality(SentTo(codes[i].target, codes[i].created)) <= Code!Racing
                    /\ Cardinality(SentFrom(codes[i].created)) <= IpLimit + Code!Racing - 1
  BY SameNumber DEF Code!LimitsHold, Code!CodeIsUsedUp, Code!GuessesAreLimited,
                    Code!CodesAreSpacedOut, Code!IpIsLimited, SentTo, SentFrom, Code!RowsOf, Issued
<1>2. codes[i] \in CodeRow /\ answers[i] \in Tally
  BY DEF LimitInv, CodeTypeInv, Issued
<1>3. /\ codes[i].target \in Targets /\ codes[i].created \in Nat
      /\ answers[i].ok \in Nat /\ answers[i].invalid \in Nat
      /\ MaxFailCount \in Nat /\ IpLimit \in Nat
  BY <1>2 DEF CodeRow, Tally, Code!TimesAreNatural, Code!LimitsArePositive
<1>4. \A S \in SUBSET Handlers : Cardinality(S) \in Nat
  BY FS_Subset, FS_CardinalityType
<1>5. answers[i].ok <= Code!Racing
  <2>1. Cardinality(Using(i)) \in Nat
    BY <1>4 DEF Using
  <2>2. QED
    BY <1>1, <1>3, <2>1 DEF LimitInv, UsesCounted
<1>6. answers[i].invalid <= MaxFailCount + Code!Racing - 1
  <2>1. Cardinality(Guessing(i)) \in Nat
    BY <1>4 DEF Guessing
  <2>2. answers[i].invalid + Cardinality(Guessing(i)) <= (MaxFailCount - 1) + Code!Racing
    BY DEF LimitInv, GuessesCounted
  <2>3. QED
    BY <1>1, <1>3, <2>1, <2>2
<1>7. ASSUME NEW S \in SUBSET Issued PROVE Cardinality(S) \in Nat
  <2>1. Len(codes) \in Nat /\ Issued = 1..Len(codes)
    BY DEF LimitInv, CodeTypeInv, Issued
  <2>2. IsFiniteSet(Issued)
    BY <2>1, FS_Interval
  <2>3. IsFiniteSet(S)
    BY <2>2, FS_Subset
  <2>4. QED
    BY <2>3, FS_CardinalityType
<1>8. Cardinality(SentTo(codes[i].target, codes[i].created)) <= Code!Racing
  <2> DEFINE t == codes[i].target
             s == codes[i].created
  <2>1. Cardinality(SendingTo(t, s)) \in Nat /\ Cardinality(SentTo(t, s)) \in Nat
    BY <1>4, <1>7 DEF SendingTo, SentTo
  <2>2. Cardinality(SentTo(t, s)) + Cardinality(SendingTo(t, s)) <= Code!Racing
    BY <1>3 DEF LimitInv, SendingCounted
  <2>3. QED
    BY <1>1, <2>1, <2>2
<1>9. Cardinality(SentFrom(codes[i].created)) <= IpLimit + Code!Racing - 1
  <2> DEFINE s == codes[i].created
  <2>1. Cardinality(SendingFrom(s)) \in Nat /\ Cardinality(SentFrom(s)) \in Nat
    BY <1>4, <1>7 DEF SendingFrom, SentFrom
  <2>2. Cardinality(SentFrom(s)) + Cardinality(SendingFrom(s)) <= (IpLimit - 1) + Code!Racing
    BY <1>3 DEF LimitInv, AddressCounted
  <2>3. QED
    BY <1>1, <1>3, <2>1, <2>2
<1>10. QED
  BY <1>5, <1>6, <1>8, <1>9

LEMMA LimitInvKept ==
  ASSUME Code!TimesAreNatural, Code!LimitsArePositive, IsFiniteSet(Handlers), LimitInv,
         [Code!Next]_(Code!vars)
  PROVE  LimitInv'
<1>1. CodeTypeInv' /\ Apart' /\ InOrder'
  BY CodesTyped, StaysApart, StaysInOrder DEF LimitInv
<1>2. UsesCounted' /\ GuessesCounted'
  BY UsesStayCounted, GuessesStayCounted DEF LimitInv
<1>3. SendingCounted' /\ AddressCounted'
  BY SendingStaysCounted, AddressStaysCounted DEF LimitInv
<1>4. QED
  BY <1>1, <1>2, <1>3 DEF LimitInv

\* However the requests interleave, a code is used once, guessed MaxFailCount times, sent once
\* to a target in an interval and IpLimit times from an address in a minute, or once more
\* for each other handler when requests overlapped (sendCode, verifyCode).
THEOREM LimitsAlwaysHold ==
  Code!TimesAreNatural /\ Code!LimitsArePositive /\ IsFiniteSet(Handlers)
    => (AnySpec => []LimitsHold)
<1> SUFFICES ASSUME Code!TimesAreNatural, Code!LimitsArePositive, IsFiniteSet(Handlers)
             PROVE  AnySpec => []LimitsHold
  OBVIOUS
<1>1. AnyInit => LimitInv
  BY CodesStart, NothingIsCounted
<1>2. LimitInv /\ [AnyNext]_allVars => LimitInv'
  BY CodesRun, LimitInvKept
<1>3. LimitInv => LimitsHold
  BY LimitsFollow DEF LimitsHold
<1>4. QED
  BY <1>1, <1>2, <1>3, PTL DEF AnySpec

\* Whatever requests are on their way, a request is let in by the newest code its target had
\* when it arrived, or by a newer one (sendCode, verifyCode).
THEOREM OnlyTheNewestAlwaysCounts == Code!TimesAreNatural => (AnySpec => []OnlyTheNewestCounts)
<1> SUFFICES ASSUME Code!TimesAreNatural PROVE AnySpec => []OnlyTheNewestCounts
  OBVIOUS
<1>1. AnyInit => CodeTypeInv /\ Informed
  <2> SUFFICES ASSUME Code!Init PROVE CodeTypeInv /\ Informed
    BY CodesStart
  <2>1. CodeTypeInv
    BY CodeInitTyped
  <2>2. codes = <<>> /\ \A c \in Handlers : caller[c].known = 0 /\ ~Code!At(c, "right")
    BY DEF Code!Init, Code!Waiting, Code!At
  <2>3. Len(codes) = 0
    BY <2>2
  <2>4. QED
    BY <2>1, <2>2, <2>3 DEF Informed
<1>2. CodeTypeInv /\ Informed /\ [AnyNext]_allVars => CodeTypeInv' /\ Informed'
  BY CodesRun, CodesTyped, StaysInformed
<1>3. CodeTypeInv /\ Informed => OnlyTheNewestCounts
  BY DEF Informed, OnlyTheNewestCounts, Code!OnlyTheNewestCounts, Code!RowsOf, Issued
<1>4. QED
  BY <1>1, <1>2, <1>3, PTL DEF AnySpec
================================================================================
