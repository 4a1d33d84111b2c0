---------------------------- MODULE VerificationCode ----------------------------
(***************************************************************************)
(* The verification codes of apps/backend (verification.service.ts): codes *)
(* sent to a phone or mailbox, each a row of auth_verification_codes, and  *)
(* the requests that present them.  Every SQL statement is awaited by      *)
(* itself, outside a transaction, and what it read is used after the next  *)
(* await.                                                                  *)
(***************************************************************************)
EXTENDS Integers, Sequences, FiniteSets

CONSTANTS Targets,       \* (target, channel, biz_type)
          Callers,       \* requests in progress
          SendInterval, Expiry, Minute,       \* in ticks of the clock
          MaxFailCount, IpLimit,
          MaxClock, MaxCodes,                 \* bounds
          None

TimesAreNatural == {SendInterval, Expiry, Minute, MaxClock} \subseteq Nat
LimitsArePositive == {MaxFailCount, IpLimit} \subseteq Nat \ {0}

VARIABLES codes,      \* the rows, by created_at
          caller,     \* the locals of each request
          clock,
          answers,    \* history: how often each row was answered ok and code_invalid
          collided    \* history: two requests overlapped

vars == <<codes, caller, clock, answers, collided>>

\* known: how many rows there were when the request arrived (history).
Waiting == [pc |-> "waiting", target |-> None, ip |-> FALSE, row |-> 0, known |-> 0]

Init == /\ codes = <<>> /\ answers = <<>>
        /\ caller = [c \in Callers |-> Waiting]
        /\ clock = 0
        /\ collided = FALSE

At(c, pc) == caller[c].pc = pc
Answer(c) == caller' = [caller EXCEPT ![c] = Waiting]
GoTo(c, pc) == caller' = [caller EXCEPT ![c].pc = pc]

RowsOf(target) == {i \in DOMAIN codes : codes[i].target = target}

\* Fault: in ascending order.
MutLatest(target) == CHOOSE i \in RowsOf(target) : \A j \in RowsOf(target) : i <= j

\* ORDER BY created_at DESC LIMIT 1
Latest(target) == CHOOSE i \in RowsOf(target) : \A j \in RowsOf(target) : j <= i

Arrive(c, request) ==
  /\ At(c, "waiting")
  /\ caller' = [caller EXCEPT ![c] = [request EXCEPT !.known = Len(codes)]]
  /\ collided' = (collided \/ \E other \in Callers \ {c} : ~At(other, "waiting"))
  /\ UNCHANGED <<codes, clock, answers>>

SendCode(c, target, ip) == Arrive(c, [Waiting EXCEPT !.pc = "latest", !.target = target, !.ip = ip])

VerifyCode(c, target) == Arrive(c, [Waiting EXCEPT !.pc = "read", !.target = target])

------------------------------------------------------------------------------
(* sendCode *)

\* Fault: a code that was used does not count.
MutTooSoon(target) ==
  /\ RowsOf(target) # {} /\ ~codes[Latest(target)].used
  /\ clock - codes[Latest(target)].created < SendInterval

TooSoon(target) == RowsOf(target) # {} /\ clock - codes[Latest(target)].created < SendInterval

ReadLatest(c) ==
  /\ At(c, "latest")
  /\ IF TooSoon(caller[c].target) THEN Answer(c)
     ELSE GoTo(c, IF caller[c].ip THEN "count" ELSE "insert")
  /\ UNCHANGED <<codes, clock, answers, collided>>

Recent(i) == codes[i].ip /\ codes[i].created > clock - Minute

\* Fault: one too many.
MutIpLimited == Cardinality({i \in DOMAIN codes : Recent(i)}) > IpLimit

IpLimited == Cardinality({i \in DOMAIN codes : Recent(i)}) >= IpLimit

CountIp(c) ==
  /\ At(c, "count")
  /\ IF IpLimited THEN Answer(c) ELSE GoTo(c, "insert")
  /\ UNCHANGED <<codes, clock, answers, collided>>

\* The INSERT; whether provider.send then succeeds changes nothing but the answer.
InsertCode(c) ==
  /\ At(c, "insert")
  /\ Len(codes) < MaxCodes
  /\ codes' = Append(codes, [target |-> caller[c].target, ip |-> caller[c].ip,
                             created |-> clock, expires |-> clock + Expiry,
                             used |-> FALSE, fails |-> 0])
  /\ answers' = Append(answers, [ok |-> 0, invalid |-> 0])
  /\ Answer(c)
  /\ UNCHANGED <<clock, collided>>

------------------------------------------------------------------------------
(* verifyCode: the code that is presented has the hash of the row, or it has not *)

\* Fault: used_at is not looked at.
MutReusable(row) == row.expires < clock \/ row.fails >= MaxFailCount

Refused(row) == row.used \/ row.expires < clock \/ row.fails >= MaxFailCount

ReadCode(c) ==
  LET i == Latest(caller[c].target) IN
  /\ At(c, "read")
  /\ IF RowsOf(caller[c].target) = {} \/ Refused(codes[i]) THEN Answer(c)
     ELSE \E hash \in {"right", "wrong"} :
            caller' = [caller EXCEPT ![c].row = i, ![c].pc = hash]
  /\ UNCHANGED <<codes, clock, answers, collided>>

CountFailure(c) ==
  /\ At(c, "wrong")
  /\ codes' = [codes EXCEPT ![caller[c].row].fails = @ + 1]
  /\ answers' = [answers EXCEPT ![caller[c].row].invalid = @ + 1]
  /\ Answer(c)
  /\ UNCHANGED <<clock, collided>>

MarkUsed(c) ==
  /\ At(c, "right")
  /\ codes' = [codes EXCEPT ![caller[c].row].used = TRUE]
  /\ answers' = [answers EXCEPT ![caller[c].row].ok = @ + 1]
  /\ Answer(c)
  /\ UNCHANGED <<clock, collided>>

\* The connection to the database is lost.
Abort(c) ==
  /\ ~At(c, "waiting")
  /\ Answer(c)
  /\ UNCHANGED <<codes, clock, answers, collided>>

Tick == clock < MaxClock /\ clock' = clock + 1 /\ UNCHANGED <<codes, caller, answers, collided>>

Handle(c) == \/ ReadLatest(c) \/ CountIp(c) \/ InsertCode(c)
             \/ ReadCode(c) \/ CountFailure(c) \/ MarkUsed(c) \/ Abort(c)

Next == \/ \E c \in Callers :
             \/ \E t \in Targets, ip \in BOOLEAN : SendCode(c, t, ip)
             \/ \E t \in Targets : VerifyCode(c, t)
             \/ Handle(c)
        \/ Tick

Spec == Init /\ [][Next]_vars

------------------------------------------------------------------------------
TypeOK ==
  /\ codes \in Seq([target : Targets, ip : BOOLEAN, created : 0..MaxClock,
                    expires : Nat, used : BOOLEAN, fails : Nat])
  /\ answers \in [DOMAIN codes -> [ok : Nat, invalid : Nat]]
  /\ \A c \in Callers :
       /\ caller[c].pc \in {"waiting", "latest", "count", "insert", "read", "right", "wrong"}
       /\ caller[c].row \in {0} \cup DOMAIN codes
  /\ clock \in 0..MaxClock
  /\ collided \in BOOLEAN

Racing == IF collided THEN Cardinality(Callers) ELSE 1

\* A code lets one request in, or, when requests overlap between the read of used_at and
\* its UPDATE, as many as there are handlers, and none that reads it later.
CodeIsUsedUp == \A i \in DOMAIN codes : answers[i].ok <= Racing

\* "code_locked": a code can be guessed MaxFailCount times; requests that overlap add at
\* most one guess for each other handler.
GuessesAreLimited == \A i \in DOMAIN codes : answers[i].invalid <= MaxFailCount + Racing - 1

\* A target is sent one code in any interval, or one for each handler when they overlap.
CodesAreSpacedOut == \A i \in DOMAIN codes :
  Cardinality({j \in RowsOf(codes[i].target) :
                 codes[j].created \in codes[i].created..(codes[i].created + SendInterval - 1)})
    <= Racing

\* An address has IpLimit codes sent in any minute, for whatever targets, and when requests
\* overlap one more for each other handler.
IpIsLimited == \A i \in DOMAIN codes :
  Cardinality({j \in DOMAIN codes : codes[j].ip /\
                 codes[j].created \in codes[i].created..(codes[i].created + Minute - 1)})
    <= IpLimit + Racing - 1

\* The limits of uses, guesses, codes of a target and codes of an address hold, and what
\* overlapping requests add to them is bounded by the number of handlers.
LimitsHold == CodeIsUsedUp /\ GuessesAreLimited /\ CodesAreSpacedOut /\ IpIsLimited

\* A request is let in by the newest code its target had when it arrived, or by a newer
\* one: sending a code takes the older ones out of use, whatever requests are on their way.
OnlyTheNewestCounts == \A c \in Callers : At(c, "right") =>
  \A i \in RowsOf(caller[c].target) : i <= caller[c].known => i <= caller[c].row
==============================================================================
