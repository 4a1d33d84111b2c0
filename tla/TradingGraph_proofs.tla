---------------------------- MODULE TradingGraph_proofs -------------------------
(***************************************************************************)
(* TradingGraph for every selection of analysts, every number of rounds    *)
(* and every answer of the models.  Two invariants are inductive: Loops,   *)
(* which counts the visits and steps of the analyst whose turn it is, and  *)
(* Talks, which relates the last speaker to who spoke how often.           *)
(***************************************************************************)
EXTENDS TradingGraph, TLAPS

\* Six steps for an analyst, two speeches and three for a round, and three decisions.
LimitSuffices ==
  \A selected \in Selections, r \in Rounds :
    6 * Len(selected) + 2 * r[1] + 3 * r[2] + 2 < RecursionLimit

Parameters == SelectionsAreChoices /\ RoundsArePositive /\ RecursionLimit \in Nat

AnalystNodes == {"analyst", "tools", "clear"}
Ended == {"END", "failed"}

------------------------------------------------------------------------------
(* The analysts *)

Before == 6 * (turn - 1)

\* The longest way to where the analyst is now.
InTurn ==
  LET visits == toolCalls[analyst] IN
  IF analyst = "fundamentals"
  THEN /\ node = "analyst" => /\ visits = 0
                              /\ steps <= Before + 2
                              /\ ~messages.results => steps <= Before
       /\ node = "tools" => visits = 0 /\ steps <= Before + 1
       /\ node = "clear" => steps <= Before + 3
  ELSE /\ node = "analyst" => visits <= 2 /\ steps <= Before + 2 * visits
       /\ node = "tools" => visits \in 1..2 /\ steps < Before + 2 * visits
       /\ node = "clear" => steps <= Before + 5

Reported(i) == report[setup.selected[i]] # "none"

\* An analyst whose turn is over has reported, one whose turn has not come neither called nor
\* reported.
Loops ==
  /\ TypeOK
  /\ node \in AnalystNodes => InTurn
  /\ \A i \in DOMAIN setup.selected :
       /\ i > turn => toolCalls[setup.selected[i]] = 0 /\ ~Reported(i)
       /\ (i < turn \/ node \notin AnalystNodes \cup {"failed"}) => Reported(i)
  /\ node = "clear" => Reported(turn)
  /\ node \notin {"tools", "clear", "failed"} => ~messages.calls

------------------------------------------------------------------------------
(* The debates *)

TalkOK(talk, team) ==
  /\ talk.count \in Nat
  /\ talk \in [count : Nat, last : team \cup {"nobody"}, spoken : [team -> Nat]]

AfterTheDebate == {"Research Manager", "Trader", "Risk Judge", "END"} \cup RiskTeam

DebateTurns ==
  LET bull == debate.spoken["Bull"]
      bear == debate.spoken["Bear"] IN
  /\ debate.count = bull + bear
  /\ bull = IF debate.last = "Bull" THEN bear + 1 ELSE bear
  /\ node \in AnalystNodes => debate.count = 0
  /\ node = "Bull" => debate.last # "Bull"
  /\ node = "Bear" => debate.last = "Bull"
  /\ node \in Researchers => debate.count < 2 * setup.debate
  /\ node \in AfterTheDebate => debate.count = 2 * setup.debate

RiskTurns ==
  LET risky == risk.spoken["Risky"]
      safe == risk.spoken["Safe"]
      neutral == risk.spoken["Neutral"] IN
  /\ risk.count = risky + safe + neutral
  /\ risky = IF risk.last \in {"Risky", "Safe"} THEN neutral + 1 ELSE neutral
  /\ safe = IF risk.last = "Safe" THEN neutral + 1 ELSE neutral
  /\ node \notin RiskTeam \cup {"Risk Judge", "END", "failed"} =>
       risk.count = 0 /\ risk.last \notin {"Risky", "Safe"}
  /\ node = "Risky" => risk.last \notin {"Risky", "Safe"}
  /\ node = "Safe" => risk.last = "Risky"
  /\ node = "Neutral" => risk.last = "Safe"
  /\ node \in RiskTeam => risk.count < 3 * setup.risk
  /\ node \in {"Risk Judge", "END"} => risk.count = 3 * setup.risk

Talks == /\ TalkOK(debate, Researchers) /\ TalkOK(risk, RiskTeam)
         /\ DebateTurns /\ RiskTurns
         /\ <<setup.debate, setup.risk>> \in Rounds

AnalystSteps == 6 * Len(setup.selected)
DebateSteps == 2 * setup.debate
RiskSteps == 3 * setup.risk

\* The steps of the analysts, then one for each speech and each decision.
Paces ==
  /\ node \in Researchers => steps <= AnalystSteps + debate.count
  /\ node = "Research Manager" => steps <= AnalystSteps + DebateSteps
  /\ node = "Trader" => steps <= AnalystSteps + DebateSteps + 1
  /\ node \in RiskTeam => steps <= AnalystSteps + DebateSteps + 2 + risk.count
  /\ node = "Risk Judge" => steps <= AnalystSteps + DebateSteps + 2 + RiskSteps

------------------------------------------------------------------------------
(* What the nodes do, without the cases of their definitions *)

LEMMA Chosen ==
  ASSUME Parameters, TypeOK
  PROVE  /\ Len(setup.selected) \in Nat \ {0}
         /\ DOMAIN setup.selected = 1..Len(setup.selected)
         /\ turn \in 1..Len(setup.selected)
         /\ \A i \in DOMAIN setup.selected : setup.selected[i] \in Analysts
         /\ \A i, j \in DOMAIN setup.selected :
              setup.selected[i] = setup.selected[j] => i = j
<1>1. setup.selected \in Selections
  BY DEF TypeOK
<1>2. /\ setup.selected \in Seq(Analysts)
      /\ setup.selected # <<>>
      /\ \A i, j \in DOMAIN setup.selected :
           setup.selected[i] = setup.selected[j] => i = j
  BY <1>1 DEF Parameters, SelectionsAreChoices, Analysts
<1>3. ASSUME NEW s \in Seq(Analysts), s # <<>>
      PROVE  /\ Len(s) \in Nat \ {0}
             /\ DOMAIN s = 1..Len(s)
             /\ \A i \in DOMAIN s : s[i] \in Analysts
  <2>1. s \in [1..Len(s) -> Analysts] /\ Len(s) \in Nat
    OBVIOUS
  <2>2. QED
    BY <2>1, <1>3
<1>4. turn \in DOMAIN setup.selected
  BY DEF TypeOK
<1>5. QED
  BY <1>2, <1>3, <1>4

LEMMA StepsAre ==
  ASSUME Parameters, TypeOK
  PROVE  steps \in Nat /\ RecursionLimit \in Nat
<1>1. RecursionLimit \in Nat
  BY DEF Parameters
<1>2. steps \in 0..RecursionLimit
  BY DEF TypeOK
<1>3. QED
  BY <1>1, <1>2

LEMMA AnswersAre ==
  ASSUME TypeOK, NEW answer \in Answers, analyst \in Analysts
  PROVE  /\ answer.calls \in BOOLEAN /\ answer.results \in BOOLEAN
         /\ answer.report \in Contents \cup {"none"}
         /\ \/ answer.report # "none"
            \/ analyst = "fundamentals" /\ answer.calls /\ ~messages.results
<1>1. Kept \subseteq BOOLEAN /\ report \in [Analysts -> Contents \cup {"none"}]
  BY DEF TypeOK, Kept
<1>2. CASE analyst = "market"
  BY <1>1, <1>2 DEF Answers, MarketAnswers, GoogleAnswers, Answering, Texts, Contents
<1>3. CASE analyst = "social"
  BY <1>1, <1>3 DEF Answers, SocialAnswers, GoogleAnswers, Answering, Texts, Contents
<1>4. CASE analyst = "news"
  BY <1>1, <1>4 DEF Answers, NewsAnswers, Answering, Texts, Contents
<1>5. CASE analyst = "fundamentals"
  BY <1>1, <1>5 DEF Answers, FundamentalsAnswers, Answering, Texts, Contents, Analysts
<1>6. QED
  BY <1>2, <1>3, <1>4, <1>5 DEF Analysts

LEMMA SpokenIs ==
  ASSUME NEW talk, NEW team, TalkOK(talk, team), NEW speaker \in team
  PROVE  /\ TalkOK(Spoken(talk, speaker), team)
         /\ Spoken(talk, speaker).count = talk.count + 1
         /\ Spoken(talk, speaker).last = speaker
         /\ Spoken(talk, speaker).spoken[speaker] = talk.spoken[speaker] + 1
         /\ \A s \in team \ {speaker} :
              Spoken(talk, speaker).spoken[s] = talk.spoken[s]
<1>1. /\ talk.count \in Nat
      /\ talk.spoken \in [team -> Nat]
  BY DEF TalkOK
<1>2. QED
  BY <1>1 DEF TalkOK, Spoken

------------------------------------------------------------------------------
(* Loops is inductive *)

LEMMA InitLoops == Parameters /\ Init => Loops
<1> SUFFICES ASSUME Parameters, Init PROVE Loops
  OBVIOUS
<1>1. /\ setup.selected \in Selections
      /\ setup \in [selected : Selections, debate : Nat, risk : Nat, google : BOOLEAN]
  <2>1. PICK s \in Selections, r \in Rounds, g \in BOOLEAN :
          setup = [selected |-> s, debate |-> r[1], risk |-> r[2], google |-> g]
    BY DEF Init
  <2>2. r[1] \in Nat /\ r[2] \in Nat
    BY DEF Parameters, RoundsArePositive
  <2>3. QED
    BY <2>1, <2>2
<1>2. setup.selected \in Seq(Analysts) /\ setup.selected # <<>>
  BY <1>1 DEF Parameters, SelectionsAreChoices, Analysts
<1>3. 1 \in DOMAIN setup.selected
  BY <1>2
<1>4. TypeOK
  BY <1>1, <1>3 DEF Init, TypeOK, NoMessages, Parameters, Texts, Contents, Analysts
<1>5. analyst \in Analysts
  BY <1>4, Chosen DEF analyst, TypeOK
<1>6. \A i \in DOMAIN setup.selected : toolCalls[setup.selected[i]] = 0 /\ ~Reported(i)
  BY <1>4, Chosen DEF Init, Reported
<1>7. InTurn
  BY <1>5 DEF Init, InTurn, Before, NoMessages
<1>8. QED
  BY <1>4, <1>6, <1>7, Chosen DEF Init, Loops, AnalystNodes, NoMessages

LEMMA AnalystLoops ==
  ASSUME Parameters, Loops, Analyst
  PROVE  Loops'
<1> DEFINE a == analyst
           sel == setup.selected
<1>1. TypeOK /\ InTurn /\ node = "analyst" /\ ~messages.calls
  BY DEF Analyst, Loops, AnalystNodes
<1>2. /\ a \in Analysts /\ turn \in DOMAIN sel
      /\ \A i \in DOMAIN sel : sel[i] \in Analysts
      /\ \A i \in DOMAIN sel : i # turn => sel[i] # a
      /\ turn \in Nat /\ DOMAIN sel \subseteq Nat
  BY <1>1, Chosen DEF analyst
<1>3. PICK answer \in Answers :
        /\ Step(AfterAnalyst(answer, CallsSoFar))
        /\ messages' = [calls |-> answer.calls, results |-> answer.results]
        /\ report' = [report EXCEPT ![a] = answer.report]
        /\ toolCalls' = [toolCalls EXCEPT ![a] = CallsSoFar]
  BY DEF Analyst
<1>4. /\ answer.calls \in BOOLEAN /\ answer.results \in BOOLEAN
      /\ answer.report \in Contents \cup {"none"}
      /\ answer.report # "none" \/ (a = "fundamentals" /\ answer.calls /\ ~messages.results)
  BY <1>1, <1>2, AnswersAre
<1>5. /\ UNCHANGED <<setup, turn>>
      /\ steps' = steps + 1 /\ steps \in Nat /\ steps' \in 0..RecursionLimit
      /\ node' = AfterAnalyst(answer, CallsSoFar)
      /\ node' \in {"clear", "tools"}
  BY <1>1, <1>3 DEF Analyst, Step, AfterAnalyst, TypeOK, Parameters
<1>6. toolCalls[a] \in 0..3 /\ CallsSoFar \in 0..3
  BY <1>1, <1>2 DEF CallsSoFar, TypeOK, InTurn
<1>7. /\ toolCalls' \in [Analysts -> 0..3] /\ toolCalls'[a] = CallsSoFar
      /\ report' \in [Analysts -> Contents \cup {"none"}] /\ report'[a] = answer.report
      /\ \A b \in Analysts \ {a} : toolCalls'[b] = toolCalls[b] /\ report'[b] = report[b]
  BY <1>1, <1>2, <1>3, <1>4, <1>6 DEF TypeOK
<1>8. TypeOK'
  BY <1>1, <1>3, <1>4, <1>5, <1>7 DEF TypeOK
<1>9. InTurn'
  BY <1>1, <1>2, <1>3, <1>4, <1>5, <1>6, <1>7
     DEF InTurn, Before, AfterAnalyst, OutOfCalls, CallsSoFar, analyst, Texts
<1>10. node' = "clear" => Reported(turn)'
  BY <1>1, <1>2, <1>4, <1>5, <1>6, <1>7
     DEF Reported, AfterAnalyst, OutOfCalls, CallsSoFar, analyst, Texts, InTurn
<1>11. \A i \in DOMAIN sel : /\ i > turn => toolCalls'[sel[i]] = 0 /\ ~Reported(i)'
                             /\ i < turn => Reported(i)'
  BY <1>2, <1>5, <1>7 DEF Loops, Reported
<1>12. QED
  BY <1>5, <1>8, <1>9, <1>10, <1>11 DEF Loops, AnalystNodes

LEMMA ToolsLoops ==
  ASSUME Parameters, Loops, Tools
  PROVE  Loops'
<1>1. TypeOK /\ InTurn
  BY DEF Tools, Loops, AnalystNodes
<1>2. /\ analyst \in Analysts /\ analyst' = analyst /\ turn \in Nat
      /\ toolCalls[analyst] \in Nat
  BY <1>1, Chosen DEF analyst, Tools, Step, TypeOK
<1>3. /\ node = "tools" /\ node' = "analyst" /\ steps' = steps + 1 /\ steps \in Nat
      /\ messages' = [calls |-> FALSE, results |-> TRUE]
      /\ UNCHANGED <<setup, turn, report, toolCalls>>
      /\ steps' \in 0..RecursionLimit
  BY <1>1 DEF Tools, Step, TypeOK, Parameters
<1>4. TypeOK'
  BY <1>1, <1>3 DEF TypeOK
<1>5. InTurn'
  BY <1>1, <1>2, <1>3 DEF InTurn, Before
<1>6. QED
  BY <1>3, <1>4, <1>5 DEF Loops, Reported, AnalystNodes

LEMMA ClearLoops ==
  ASSUME Parameters, Loops, Clear
  PROVE  Loops'
<1> DEFINE sel == setup.selected
<1>1. TypeOK /\ InTurn /\ Reported(turn)
  BY DEF Clear, Loops, AnalystNodes
<1>2. /\ turn \in 1..Len(sel) /\ Len(sel) \in Nat /\ DOMAIN sel = 1..Len(sel)
      /\ \A i \in DOMAIN sel : sel[i] \in Analysts
  BY <1>1, Chosen
<1>3. /\ steps' = steps + 1 /\ steps \in Nat /\ steps' \in 0..RecursionLimit
      /\ messages' = NoMessages
      /\ UNCHANGED <<setup, report, toolCalls>>
      /\ steps <= Before + 5
      /\ \/ turn < Len(sel) /\ node' = "analyst" /\ turn' = turn + 1
         \/ turn = Len(sel) /\ node' = "Bull" /\ turn' = turn
  <2>1. node = "clear" /\ steps < RecursionLimit /\ steps \in Nat /\ RecursionLimit \in Nat
    BY <1>1 DEF Clear, Step, TypeOK, Parameters
  <2>2. steps <= Before + 5
    BY <1>1, <1>2, <2>1 DEF InTurn, Before
  <2>3. QED
    BY <1>2, <2>1, <2>2 DEF Clear, Step
<1>4. TypeOK'
  <2>1. turn' \in DOMAIN setup'.selected
    BY <1>2, <1>3
  <2>2. messages' \in [calls : BOOLEAN, results : BOOLEAN]
    BY <1>3 DEF NoMessages
  <2>3. node' \in {"analyst"} \cup Researchers
    BY <1>3 DEF Researchers
  <2>4. QED
    BY <1>1, <1>3, <2>1, <2>2, <2>3 DEF TypeOK
<1>5. node' = "analyst" => InTurn'
  <2> SUFFICES ASSUME node' = "analyst" PROVE InTurn'
    OBVIOUS
  <2>1. turn' = turn + 1 /\ turn' \in DOMAIN sel /\ toolCalls[sel[turn']] = 0
    BY <1>2, <1>3 DEF Loops
  <2>2. steps' <= 6 * (turn' - 1)
    BY <1>2, <1>3, <2>1 DEF Before
  <2>3. QED
    BY <1>2, <1>3, <2>1, <2>2 DEF InTurn, Before, analyst
<1>6. \A i \in DOMAIN sel : Reported(i)' <=> Reported(i)
  BY <1>3 DEF Reported
<1>7. \A i \in DOMAIN sel : /\ i > turn' => toolCalls'[sel[i]] = 0 /\ ~Reported(i)'
                            /\ i < turn' \/ node' \notin AnalystNodes => Reported(i)'
  BY <1>1, <1>2, <1>3, <1>6 DEF Loops, AnalystNodes
<1>8. ~messages'.calls
  BY <1>3 DEF NoMessages
<1>9. QED
  BY <1>3, <1>4, <1>5, <1>7, <1>8 DEF Loops, AnalystNodes

\* The rest of the graph goes on without the analysts.
Later == \/ \E speaker \in Researchers : Research(speaker)
         \/ ResearchManager \/ Trader
         \/ \E speaker \in RiskTeam : DiscussRisk(speaker)
         \/ RiskJudge \/ Fail

LEMMA LaterLoops ==
  ASSUME Parameters, Loops, Later
  PROVE  Loops'
<1>1. /\ UNCHANGED <<setup, turn, messages, report, toolCalls>>
      /\ steps < RecursionLimit /\ steps' = steps + 1
  BY DEF Later, Research, ResearchManager, Trader, DiscussRisk, RiskJudge, Fail, Step, graphState
<1>2. \/ node' = "failed"
      \/ /\ node \notin AnalystNodes \cup {"failed"}
         /\ node' \in {"Research Manager", "Trader", "Risk Judge", "END"}
                       \cup Researchers \cup RiskTeam
  BY DEF Later, Research, ResearchManager, Trader, DiscussRisk, RiskJudge, Fail, Step, graphState,
         AfterDebate, AfterRisk, Researchers, RiskTeam, AnalystNodes
<1>3. TypeOK'
  <2>1. TypeOK
    BY DEF Loops
  <2>2. steps \in Nat /\ RecursionLimit \in Nat
    BY <2>1, StepsAre
  <2>3. steps' \in 0..RecursionLimit
    BY <1>1, <2>2
  <2>4. node' \in {"analyst", "tools", "clear", "Research Manager", "Trader", "Risk Judge",
                   "END", "failed"} \cup Researchers \cup RiskTeam
    BY <1>2
  <2>5. QED
    BY <1>1, <2>1, <2>3, <2>4 DEF TypeOK
<1>4. \A i \in DOMAIN setup.selected : Reported(i)' <=> Reported(i)
  BY <1>1 DEF Reported
<1>5. QED
  BY <1>1, <1>2, <1>3, <1>4 DEF Loops, AnalystNodes, Researchers, RiskTeam

LEMMA StepLoops == Parameters /\ Loops /\ [Next]_vars => Loops'
<1> SUFFICES ASSUME Parameters, Loops, [Next]_vars PROVE Loops'
  OBVIOUS
<1>1. CASE Next
  BY <1>1, AnalystLoops, ToolsLoops, ClearLoops, LaterLoops DEF Next, Later
<1>2. CASE UNCHANGED vars
  BY <1>2 DEF vars, graphState, Loops, TypeOK, InTurn, Before, analyst, Reported
<1>3. QED
  BY <1>1, <1>2

------------------------------------------------------------------------------
(* Talks and Paces are inductive *)

LEMMA RoundsAre ==
  ASSUME Parameters, Talks
  PROVE  setup.debate \in Nat \ {0} /\ setup.risk \in Nat \ {0}
  BY DEF Parameters, RoundsArePositive, Talks

LEMMA InitTalks == Parameters /\ Init => Talks
<1> SUFFICES ASSUME Parameters, Init PROVE Talks
  OBVIOUS
<1>1. PICK s \in Selections, r \in Rounds, g \in BOOLEAN :
        setup = [selected |-> s, debate |-> r[1], risk |-> r[2], google |-> g]
  BY DEF Init
<1>2. <<setup.debate, setup.risk>> \in Rounds
  BY <1>1 DEF Parameters, RoundsArePositive
<1>3. QED
  BY <1>2 DEF Init, Talks, TalkOK, Silence, DebateTurns, RiskTurns, AnalystNodes, Researchers,
              RiskTeam, AfterTheDebate

LEMMA AnalystsTalks ==
  ASSUME Parameters, Talks, Analyst \/ Tools \/ Clear
  PROVE  Talks'
<1>1. /\ UNCHANGED <<setup, debate, risk>>
      /\ node \in AnalystNodes
      /\ node' \in AnalystNodes \cup {"Bull"}
  BY DEF Analyst, Tools, Clear, Step, AfterAnalyst, AnalystNodes
<1>2. debate.count = 0 /\ debate.last # "Bull" /\ 0 < 2 * setup.debate
  BY <1>1, RoundsAre DEF Talks, DebateTurns, TalkOK, Researchers
<1>3. DebateTurns'
  BY <1>1, <1>2 DEF Talks, DebateTurns, AnalystNodes, Researchers, AfterTheDebate, RiskTeam
<1>4. RiskTurns'
  BY <1>1 DEF Talks, RiskTurns, AnalystNodes, RiskTeam
<1>5. QED
  BY <1>1, <1>3, <1>4 DEF Talks, TalkOK

LEMMA ResearchTalks ==
  ASSUME Parameters, Talks, NEW speaker \in Researchers, Research(speaker)
  PROVE  Talks'
<1>1. /\ UNCHANGED <<setup, risk>>
      /\ node = speaker
      /\ debate' = Spoken(debate, speaker)
      /\ node' = AfterDebate(debate')
  BY DEF Research, Step
<1>2. TalkOK(debate, Researchers)
  BY DEF Talks
<1>3. /\ TalkOK(debate', Researchers)
      /\ debate'.count = debate.count + 1
      /\ debate'.last = speaker
      /\ debate'.spoken[speaker] = debate.spoken[speaker] + 1
      /\ \A s \in Researchers \ {speaker} : debate'.spoken[s] = debate.spoken[s]
  BY <1>1, <1>2, SpokenIs
<1>4. /\ debate.count \in Nat /\ \A s \in Researchers : debate.spoken[s] \in Nat
      /\ setup.debate \in Nat
  BY <1>2, RoundsAre DEF TalkOK
<1>5. node' = IF debate.count + 1 >= 2 * setup.debate THEN "Research Manager"
              ELSE IF speaker = "Bull" THEN "Bear" ELSE "Bull"
  BY <1>1, <1>3 DEF AfterDebate
<1>6. DebateTurns'
  <2>1. CASE speaker = "Bull"
    <3>1. /\ debate.count = debate.spoken["Bull"] + debate.spoken["Bear"]
          /\ debate.spoken["Bull"] = debate.spoken["Bear"]
          /\ debate.count < 2 * setup.debate
      BY <1>1, <2>1 DEF Talks, DebateTurns, Researchers
    <3>2. /\ debate'.spoken["Bull"] = debate.spoken["Bull"] + 1
          /\ debate'.spoken["Bear"] = debate.spoken["Bear"]
      BY <1>3, <2>1 DEF Researchers
    <3>3. /\ debate'.count = debate.count + 1 /\ debate'.last = speaker
          /\ setup'.debate = setup.debate
          /\ debate.count \in Nat /\ setup.debate \in Nat
          /\ debate.spoken["Bull"] \in Nat /\ debate.spoken["Bear"] \in Nat
      BY <1>1, <1>3, <1>4 DEF Researchers
    <3>4. QED
      <4>1. debate.count + 1 < 2 * setup.debate
        BY <3>1, <3>3
      <4>2. ~(debate.count + 1 >= 2 * setup.debate)
        BY <3>3, <4>1
      <4>3. node' = "Bear"
        BY <1>5, <2>1, <4>2
      <4>4. QED
        BY <2>1, <3>1, <3>2, <3>3, <4>1, <4>3
           DEF DebateTurns, AnalystNodes, Researchers, AfterTheDebate, RiskTeam
  <2>2. CASE speaker = "Bear"
    <3>1. /\ debate.count = debate.spoken["Bull"] + debate.spoken["Bear"]
          /\ debate.spoken["Bull"] = debate.spoken["Bear"] + 1
          /\ debate.count < 2 * setup.debate
      BY <1>1, <2>2 DEF Talks, DebateTurns, Researchers
    <3>2. /\ debate'.spoken["Bear"] = debate.spoken["Bear"] + 1
          /\ debate'.spoken["Bull"] = debate.spoken["Bull"]
      BY <1>3, <2>2 DEF Researchers
    <3>3. /\ debate'.count = debate.count + 1 /\ debate'.last = speaker
          /\ setup'.debate = setup.debate
          /\ debate.count \in Nat /\ setup.debate \in Nat
          /\ debate.spoken["Bull"] \in Nat /\ debate.spoken["Bear"] \in Nat
      BY <1>1, <1>3, <1>4 DEF Researchers
    <3>4. QED
      <4>1. CASE debate.count + 1 >= 2 * setup.debate
        <5>1. debate'.count = 2 * setup'.debate
          BY <3>1, <3>3, <4>1
        <5>2. node' = "Research Manager"
          BY <1>5, <4>1
        <5>3. debate'.count = debate'.spoken["Bull"] + debate'.spoken["Bear"]
          BY <3>1, <3>2, <3>3
        <5>4. QED
          BY <2>2, <3>1, <3>2, <3>3, <5>1, <5>2, <5>3
             DEF DebateTurns, AnalystNodes, Researchers, AfterTheDebate, RiskTeam
      <4>2. CASE ~(debate.count + 1 >= 2 * setup.debate)
        <5>1. node' = "Bull"
          BY <1>5, <2>2, <4>2
        <5>2. debate.count + 1 < 2 * setup.debate
          BY <3>3, <4>2
        <5>3. QED
          BY <2>2, <3>1, <3>2, <3>3, <5>1, <5>2
             DEF DebateTurns, AnalystNodes, Researchers, AfterTheDebate, RiskTeam
      <4>3. QED
        BY <4>1, <4>2
  <2>3. QED
    BY <2>1, <2>2 DEF Researchers
<1>7. RiskTurns'
  BY <1>1, <1>5 DEF Talks, RiskTurns, Researchers, RiskTeam
<1>8. QED
  BY <1>1, <1>3, <1>6, <1>7 DEF Talks, TalkOK

LEMMA DiscussRiskTalks ==
  ASSUME Parameters, Talks, NEW speaker \in RiskTeam, DiscussRisk(speaker)
  PROVE  Talks'
<1>1. /\ UNCHANGED <<setup, debate>>
      /\ node = speaker
      /\ risk' = Spoken(risk, speaker)
      /\ node' = AfterRisk(risk')
  BY DEF DiscussRisk, Step
<1>2. TalkOK(risk, RiskTeam)
  BY DEF Talks
<1>3. /\ TalkOK(risk', RiskTeam)
      /\ risk'.count = risk.count + 1
      /\ risk'.last = speaker
      /\ risk'.spoken[speaker] = risk.spoken[speaker] + 1
      /\ \A s \in RiskTeam \ {speaker} : risk'.spoken[s] = risk.spoken[s]
  BY <1>1, <1>2, SpokenIs
<1>4. /\ risk.count \in Nat /\ \A s \in RiskTeam : risk.spoken[s] \in Nat
      /\ setup.risk \in Nat
  BY <1>2, RoundsAre DEF TalkOK
<1>5. node' = IF risk.count + 1 >= 3 * setup.risk THEN "Risk Judge"
              ELSE IF speaker = "Risky" THEN "Safe"
              ELSE IF speaker = "Safe" THEN "Neutral" ELSE "Risky"
  BY <1>1, <1>3, Zenon DEF AfterRisk
<1>6. RiskTurns'
  <2>0. /\ risk.count = risk.spoken["Risky"] + risk.spoken["Safe"] + risk.spoken["Neutral"]
        /\ risk.count < 3 * setup.risk
    BY <1>1 DEF Talks, RiskTurns, RiskTeam
  <2>5. /\ risk'.count = risk.count + 1 /\ risk'.last = speaker
        /\ setup'.risk = setup.risk
        /\ risk.count \in Nat /\ setup.risk \in Nat
        /\ \A s \in RiskTeam : risk.spoken[s] \in Nat
    BY <1>1, <1>3, <1>4
  <2>1. CASE speaker = "Risky"
    <3>1. /\ risk.spoken["Risky"] = risk.spoken["Neutral"]
          /\ risk.spoken["Safe"] = risk.spoken["Neutral"]
      BY <1>1, <2>1 DEF Talks, RiskTurns
    <3>2. /\ risk'.spoken["Risky"] = risk.spoken["Risky"] + 1
          /\ risk'.spoken["Safe"] = risk.spoken["Safe"]
          /\ risk'.spoken["Neutral"] = risk.spoken["Neutral"]
      BY <1>3, <2>1 DEF RiskTeam
    <3>3. QED
      <4>1. risk.count + 1 < 3 * setup.risk /\ ~(risk.count + 1 >= 3 * setup.risk)
        BY <2>0, <2>5, <3>1 DEF RiskTeam
      <4>2. node' = "Safe"
        BY <1>5, <2>1, <4>1
      <4>3. QED
        BY <2>0, <2>5, <2>1, <3>1, <3>2, <4>1, <4>2 DEF RiskTurns, RiskTeam
  <2>2. CASE speaker = "Safe"
    <3>1. /\ risk.spoken["Risky"] = risk.spoken["Neutral"] + 1
          /\ risk.spoken["Safe"] = risk.spoken["Neutral"]
      BY <1>1, <2>2 DEF Talks, RiskTurns
    <3>2. /\ risk'.spoken["Risky"] = risk.spoken["Risky"]
          /\ risk'.spoken["Safe"] = risk.spoken["Safe"] + 1
          /\ risk'.spoken["Neutral"] = risk.spoken["Neutral"]
      BY <1>3, <2>2 DEF RiskTeam
    <3>3. QED
      <4>1. risk.count + 1 < 3 * setup.risk /\ ~(risk.count + 1 >= 3 * setup.risk)
        BY <2>0, <2>5, <3>1 DEF RiskTeam
      <4>2. node' = "Neutral"
        BY <1>5, <2>2, <4>1
      <4>3. QED
        BY <2>0, <2>5, <2>2, <3>1, <3>2, <4>1, <4>2 DEF RiskTurns, RiskTeam
  <2>3. CASE speaker = "Neutral"
    <3>1. /\ risk.spoken["Risky"] = risk.spoken["Neutral"] + 1
          /\ risk.spoken["Safe"] = risk.spoken["Neutral"] + 1
      BY <1>1, <2>3 DEF Talks, RiskTurns
    <3>2. /\ risk'.spoken["Risky"] = risk.spoken["Risky"]
          /\ risk'.spoken["Safe"] = risk.spoken["Safe"]
          /\ risk'.spoken["Neutral"] = risk.spoken["Neutral"] + 1
      BY <1>3, <2>3 DEF RiskTeam
    <3>3. risk'.count = risk'.spoken["Risky"] + risk'.spoken["Safe"] + risk'.spoken["Neutral"]
      BY <2>0, <2>5, <3>2 DEF RiskTeam
    <3>4. /\ risk'.spoken["Risky"] = risk'.spoken["Neutral"]
          /\ risk'.spoken["Safe"] = risk'.spoken["Neutral"]
          /\ risk'.last = "Neutral"
      BY <2>3, <2>5, <3>1, <3>2
    <3>5. CASE risk.count + 1 >= 3 * setup.risk
      <4>1. risk'.count = 3 * setup'.risk
        BY <2>0, <2>5, <3>5
      <4>2. node' = "Risk Judge"
        BY <1>5, <3>5
      <4>3. QED
        BY <3>3, <3>4, <4>1, <4>2 DEF RiskTurns, RiskTeam
    <3>6. CASE ~(risk.count + 1 >= 3 * setup.risk)
      <4>1. risk'.count < 3 * setup'.risk
        BY <2>5, <3>6
      <4>2. node' = "Risky"
        BY <1>5, <2>3, <3>6
      <4>3. QED
        BY <3>3, <3>4, <4>1, <4>2 DEF RiskTurns, RiskTeam
    <3>7. QED
      BY <3>5, <3>6
  <2>4. QED
    BY <2>1, <2>2, <2>3 DEF RiskTeam
<1>7. DebateTurns'
  BY <1>1, <1>5 DEF Talks, DebateTurns, AnalystNodes, Researchers, AfterTheDebate, RiskTeam
<1>8. QED
  BY <1>1, <1>3, <1>6, <1>7 DEF Talks, TalkOK

LEMMA DecisionTalks ==
  ASSUME Parameters, Talks, ResearchManager \/ Trader \/ RiskJudge \/ Fail
  PROVE  Talks'
<1>1. /\ UNCHANGED <<setup, debate, risk>>
      /\ \/ node = "Research Manager" /\ node' = "Trader"
         \/ node = "Trader" /\ node' = "Risky"
         \/ node = "Risk Judge" /\ node' = "END"
         \/ node' = "failed"
  BY DEF ResearchManager, Trader, RiskJudge, Fail, Step, graphState
<1>2. DebateTurns'
  BY <1>1 DEF Talks, DebateTurns, AnalystNodes, Researchers, AfterTheDebate, RiskTeam
<1>3. setup.risk \in Nat \ {0} /\ risk.count \in Nat
  BY RoundsAre DEF Talks, TalkOK
<1>4. RiskTurns'
  <2>1. CASE node = "Trader" /\ node' = "Risky"
    <3>1. risk.count = 0 /\ risk.last \notin {"Risky", "Safe"}
      BY <2>1 DEF Talks, RiskTurns, RiskTeam
    <3>2. QED
      BY <1>1, <1>3, <2>1, <3>1 DEF Talks, RiskTurns, RiskTeam
  <2>2. CASE node' # "Risky"
    BY <1>1, <2>2 DEF Talks, RiskTurns, RiskTeam
  <2>3. QED
    BY <1>1, <2>1, <2>2
<1>5. QED
  BY <1>1, <1>2, <1>4 DEF Talks, TalkOK

LEMMA StepTalks == Parameters /\ Talks /\ [Next]_vars => Talks'
<1> SUFFICES ASSUME Parameters, Talks, [Next]_vars PROVE Talks'
  OBVIOUS
<1>1. CASE Next
  BY <1>1, AnalystsTalks, ResearchTalks, DiscussRiskTalks, DecisionTalks DEF Next
<1>2. CASE UNCHANGED vars
  <2>1. UNCHANGED <<setup, node, debate, risk>>
    BY <1>2 DEF vars, graphState
  <2>2. DebateTurns'
    BY <2>1 DEF Talks, DebateTurns
  <2>3. RiskTurns'
    BY <2>1 DEF Talks, RiskTurns
  <2>4. QED
    BY <2>1, <2>2, <2>3 DEF Talks, TalkOK
<1>3. QED
  BY <1>1, <1>2

LEMMA InitPaces == Init => Paces
  BY DEF Init, Paces, Researchers, RiskTeam

LEMMA BudgetsAre ==
  ASSUME Parameters, Loops, Talks
  PROVE  /\ AnalystSteps \in Nat /\ DebateSteps \in Nat /\ RiskSteps \in Nat
         /\ steps \in Nat /\ RecursionLimit \in Nat
         /\ debate.count \in Nat /\ risk.count \in Nat
         /\ node \in Researchers => debate.count < DebateSteps
         /\ node \in AfterTheDebate => debate.count = DebateSteps
         /\ node \in RiskTeam => risk.count < RiskSteps
         /\ node = "Risk Judge" => risk.count = RiskSteps
         /\ node = "Trader" => risk.count = 0
<1>1. Len(setup.selected) \in Nat /\ setup.debate \in Nat /\ setup.risk \in Nat
  BY Chosen, RoundsAre DEF Loops
<1>2. steps \in Nat /\ RecursionLimit \in Nat /\ debate.count \in Nat /\ risk.count \in Nat
  BY StepsAre DEF Loops, Talks, TalkOK
<1>3. /\ node \in Researchers => debate.count < DebateSteps
      /\ node \in AfterTheDebate => debate.count = DebateSteps
  BY DEF Talks, DebateTurns, DebateSteps
<1>4. /\ node \in RiskTeam => risk.count < RiskSteps
      /\ node = "Risk Judge" => risk.count = RiskSteps
      /\ node = "Trader" => risk.count = 0
  BY DEF Talks, RiskTurns, RiskSteps, RiskTeam
<1>5. AnalystSteps \in Nat
  BY <1>1 DEF AnalystSteps
<1>6. DebateSteps \in Nat /\ RiskSteps \in Nat
  BY <1>1 DEF DebateSteps, RiskSteps
<1>7. QED
  BY <1>2, <1>3, <1>4, <1>5, <1>6

\* An analyst and the clearing of its messages take six steps at most.
LEMMA TurnEnds ==
  ASSUME Parameters, Loops, node \in AnalystNodes
  PROVE  steps < 6 * turn /\ 6 * turn <= AnalystSteps
<1>1. TypeOK /\ InTurn
  BY DEF Loops
<1>2. /\ turn \in Nat /\ Len(setup.selected) \in Nat /\ turn <= Len(setup.selected)
      /\ analyst \in Analysts
  BY <1>1, Chosen DEF analyst
<1>3. steps \in Nat /\ toolCalls[analyst] \in 0..3
  BY <1>1, <1>2, StepsAre DEF TypeOK
<1>4. \/ steps <= Before + 3
      \/ steps <= Before + 5
  BY <1>1, <1>2, <1>3 DEF InTurn, AnalystNodes, Before
<1>5. steps < 6 * turn
  BY <1>2, <1>3, <1>4 DEF Before
<1>6. 6 * turn <= AnalystSteps
  BY <1>2 DEF AnalystSteps
<1>7. QED
  BY <1>5, <1>6

LEMMA StepPaces == Parameters /\ Loops /\ Talks /\ Paces /\ [Next]_vars => Paces'
<1> SUFFICES ASSUME Parameters, Loops, Talks, Paces, [Next]_vars PROVE Paces'
  OBVIOUS
<1>1. /\ AnalystSteps \in Nat /\ DebateSteps \in Nat /\ RiskSteps \in Nat
      /\ steps \in Nat /\ debate.count \in Nat /\ risk.count \in Nat
  BY BudgetsAre
<1>2. setup' = setup => UNCHANGED <<AnalystSteps, DebateSteps, RiskSteps>>
  BY DEF AnalystSteps, DebateSteps, RiskSteps
<1>3. CASE Analyst \/ Tools
  BY <1>3 DEF Analyst, Tools, Step, AfterAnalyst, Paces, Researchers, RiskTeam
<1>4. CASE Clear
  <2>1. CASE node' = "analyst"
    BY <2>1 DEF Paces, Researchers, RiskTeam
  <2>2. CASE node' # "analyst"
    <3>1. /\ node = "clear" /\ node' = "Bull"
          /\ steps' = steps + 1 /\ UNCHANGED <<setup, debate>>
          /\ ~(turn < Len(setup.selected))
      BY <1>4, <2>2 DEF Clear, Step
    <3>2. steps < 6 * turn /\ turn \in Nat /\ turn = Len(setup.selected)
      BY <3>1, TurnEnds, Chosen DEF AnalystNodes, Loops
    <3>3. steps < AnalystSteps
      BY <3>2 DEF AnalystSteps
    <3>4. steps' <= AnalystSteps + debate.count
      BY <1>1, <3>1, <3>3
    <3>5. QED
      BY <1>2, <3>1, <3>4 DEF Paces, Researchers, RiskTeam
  <2>3. QED
    BY <2>1, <2>2
<1>5. ASSUME NEW speaker \in Researchers, Research(speaker)
      PROVE  Paces'
  <2>1. /\ node = speaker /\ steps' = steps + 1 /\ UNCHANGED setup
        /\ debate' = Spoken(debate, speaker)
        /\ node' \in Researchers \cup {"Research Manager"}
    BY <1>5 DEF Research, Step, AfterDebate, Researchers
  <2>2. debate'.count = debate.count + 1
    BY <2>1, SpokenIs DEF Talks
  <2>3. steps <= AnalystSteps + debate.count
    BY <2>1 DEF Paces
  <2>4. steps' <= AnalystSteps + debate'.count
    <3>1. steps' = steps + 1
      BY <2>1
    <3>2. QED
      BY <1>1, <2>2, <2>3, <3>1
  <2>5. node' = "Research Manager" => debate'.count = DebateSteps'
    BY <1>5, ResearchTalks DEF Talks, DebateTurns, AfterTheDebate, DebateSteps
  <2>6. QED
    BY <1>2, <2>1, <2>4, <2>5 DEF Paces, Researchers, RiskTeam
<1>6. CASE ResearchManager
  <2>1. /\ node = "Research Manager" /\ node' = "Trader"
        /\ steps' = steps + 1 /\ UNCHANGED setup
    BY <1>6 DEF ResearchManager, Step
  <2>2. steps <= AnalystSteps + DebateSteps
    BY <2>1 DEF Paces
  <2>3. steps' <= AnalystSteps + DebateSteps + 1
    <3>1. steps' = steps + 1
      BY <2>1
    <3>2. QED
      BY <1>1, <2>2, <3>1
  <2>4. QED
    BY <1>2, <2>1, <2>3 DEF Paces, Researchers, RiskTeam
<1>7. CASE Trader
  <2>1. /\ node = "Trader" /\ node' = "Risky"
        /\ steps' = steps + 1 /\ UNCHANGED <<setup, risk>>
    BY <1>7 DEF Trader, Step, graphState
  <2>2. steps <= AnalystSteps + DebateSteps + 1
    BY <2>1 DEF Paces
  <2>3. steps' <= AnalystSteps + DebateSteps + 2 + risk.count
    <3>1. steps' = steps + 1 /\ risk.count = 0
      BY <2>1, BudgetsAre
    <3>2. QED
      BY <1>1, <2>2, <3>1
  <2>4. QED
    BY <1>2, <2>1, <2>3 DEF Paces, Researchers, RiskTeam
<1>8. ASSUME NEW speaker \in RiskTeam, DiscussRisk(speaker)
      PROVE  Paces'
  <2>1. /\ node = speaker /\ steps' = steps + 1 /\ UNCHANGED setup
        /\ risk' = Spoken(risk, speaker)
        /\ node' \in RiskTeam \cup {"Risk Judge"}
    BY <1>8 DEF DiscussRisk, Step, AfterRisk, RiskTeam
  <2>2. risk'.count = risk.count + 1
    BY <2>1, SpokenIs DEF Talks
  <2>3. steps <= AnalystSteps + DebateSteps + 2 + risk.count
    BY <2>1 DEF Paces
  <2>4. steps' <= AnalystSteps + DebateSteps + 2 + risk'.count
    <3>1. steps' = steps + 1
      BY <2>1
    <3>2. QED
      BY <1>1, <2>2, <2>3, <3>1
  <2>5. node' = "Risk Judge" => risk'.count = RiskSteps'
    BY <1>8, DiscussRiskTalks DEF Talks, RiskTurns, RiskSteps
  <2>6. QED
    BY <1>2, <2>1, <2>4, <2>5 DEF Paces, Researchers, RiskTeam
<1>9. CASE RiskJudge \/ Fail
  BY <1>9 DEF RiskJudge, Fail, Step, Paces, Researchers, RiskTeam
<1>10. CASE UNCHANGED vars
  BY <1>2, <1>10 DEF vars, graphState, Paces
<1>11. QED
  BY <1>3, <1>4, <1>5, <1>6, <1>7, <1>8, <1>9, <1>10 DEF Next

------------------------------------------------------------------------------
(* What holds of every run *)

\* The variables keep their types, and no analyst is visited more than three times.
THEOREM TypeOKAlways == Parameters => (Spec => []TypeOK)
<1> SUFFICES ASSUME Parameters PROVE Spec => []TypeOK
  OBVIOUS
<1>1. Loops => TypeOK
  BY DEF Loops
<1>2. QED
  BY <1>1, InitLoops, StepLoops, PTL DEF Spec

\* Whatever analysts are selected and whatever the models answer, calls and empty texts
\* included, the analysts report in the order of the selection, the researchers start when
\* each has, and no message asks for a tool that is not run.
THEOREM ReportsComeFirstAlways == Parameters => (Spec => []ReportsComeFirst)
<1> SUFFICES ASSUME Parameters PROVE Spec => []ReportsComeFirst
  OBVIOUS
<1>1. Loops => ReportsComeFirst
  BY DEF Loops, ReportsComeFirst, NoDanglingCalls, AllHaveReported, Reported, AnalystNodes,
         Researchers
<1>2. QED
  BY <1>1, InitLoops, StepLoops, PTL DEF Spec

\* For any number of rounds the two researchers speak as often as one another, and so do
\* the three of the risk team.
THEOREM SidesAreHeardAlikeAlways == Parameters => (Spec => []SidesAreHeardAlike)
<1> SUFFICES ASSUME Parameters PROVE Spec => []SidesAreHeardAlike
  OBVIOUS
<1>1. Talks => SidesAreHeardAlike
  <2> SUFFICES ASSUME Talks PROVE SidesAreHeardAlike
    OBVIOUS
  <2>1. /\ setup.debate \in Nat /\ setup.risk \in Nat
        /\ \A s \in Researchers : debate.spoken[s] \in Nat
        /\ \A s \in RiskTeam : risk.spoken[s] \in Nat
    BY RoundsAre DEF Talks, TalkOK
  <2>9. setup.debate \in Nat
    BY <2>1
  <2>2. /\ \/ debate.spoken["Bull"] = debate.spoken["Bear"]
           \/ debate.spoken["Bull"] = debate.spoken["Bear"] + 1
        /\ debate.count = debate.spoken["Bull"] + debate.spoken["Bear"]
    BY DEF Talks, DebateTurns
  <2>3. \A s, u \in Researchers : debate.spoken[s] <= debate.spoken[u] + 1
    BY <2>1, <2>2 DEF Researchers
  <2>4. node \in {"Trader", "Research Manager"} =>
          \A s \in Researchers : debate.spoken[s] = setup.debate
    <3>1. node \in {"Trader", "Research Manager"} => debate.count = 2 * setup.debate
      BY DEF Talks, DebateTurns, AfterTheDebate
    <3>2. /\ debate.spoken["Bull"] \in Nat /\ debate.spoken["Bear"] \in Nat
      BY <2>1 DEF Researchers
    <3>3. ASSUME NEW bull \in Nat, NEW bear \in Nat, NEW rounds \in Nat,
                 bull + bear = 2 * rounds, bull = bear \/ bull = bear + 1
          PROVE  bull = rounds /\ bear = rounds
      BY <3>3
    <3>4. QED
      BY <2>2, <2>9, <3>1, <3>2, <3>3 DEF Researchers
  <2>5. /\ risk.count = risk.spoken["Risky"] + risk.spoken["Safe"] + risk.spoken["Neutral"]
        /\ \/ risk.spoken["Risky"] = risk.spoken["Neutral"]
           \/ risk.spoken["Risky"] = risk.spoken["Neutral"] + 1
        /\ \/ risk.spoken["Safe"] = risk.spoken["Neutral"]
           \/ risk.spoken["Safe"] = risk.spoken["Risky"]
    BY DEF Talks, RiskTurns
  <2>6. \A s, u \in RiskTeam : risk.spoken[s] <= risk.spoken[u] + 1
    BY <2>1, <2>5 DEF RiskTeam
  <2>7. node \in {"Risk Judge", "END"} => \A s \in RiskTeam : risk.spoken[s] = setup.risk
    <3>1. node \in {"Risk Judge", "END"} => risk.count = 3 * setup.risk
      BY DEF Talks, RiskTurns
    <3>2. /\ risk.spoken["Risky"] \in Nat /\ risk.spoken["Safe"] \in Nat
          /\ risk.spoken["Neutral"] \in Nat
      BY <2>1 DEF RiskTeam
    <3>3. risk.count = 3 * setup.risk =>
            /\ risk.spoken["Risky"] = setup.risk /\ risk.spoken["Safe"] = setup.risk
            /\ risk.spoken["Neutral"] = setup.risk
      BY <2>1, <2>5, <3>2
    <3>4. QED
      BY <3>1, <3>3 DEF RiskTeam
  <2>8. QED
    BY <2>3, <2>4, <2>6, <2>7 DEF SidesAreHeardAlike
<1>2. QED
  BY <1>1, InitTalks, StepTalks, PTL DEF Spec

\* A recursion limit above six steps for each analyst, two and three for the rounds and
\* three is never reached: 42 steps for four analysts and three rounds, of the 100 the
\* program allows.
THEOREM NeverGivesUpAlways == Parameters /\ LimitSuffices => (Spec => []NeverGivesUp)
<1> SUFFICES ASSUME Parameters, LimitSuffices PROVE Spec => []NeverGivesUp
  OBVIOUS
<1>1. Loops /\ Talks /\ Paces => NeverGivesUp
  <2> SUFFICES ASSUME Loops, Talks, Paces PROVE NeverGivesUp
    OBVIOUS
  <2>1. AnalystSteps + DebateSteps + RiskSteps + 2 < RecursionLimit
    <3>1. setup.selected \in Selections /\ <<setup.debate, setup.risk>> \in Rounds
      BY DEF Loops, TypeOK, Talks
    <3>2. QED
      BY <3>1 DEF LimitSuffices, AnalystSteps, DebateSteps, RiskSteps
  <2>2. /\ AnalystSteps \in Nat /\ DebateSteps \in Nat /\ RiskSteps \in Nat
        /\ steps \in Nat /\ RecursionLimit \in Nat
        /\ debate.count \in Nat /\ risk.count \in Nat
    BY BudgetsAre
  <2>3. CASE node \in AnalystNodes
    <3>1. turn \in Nat /\ steps < 6 * turn /\ 6 * turn <= AnalystSteps
      BY <2>3, TurnEnds, Chosen DEF Loops
    <3>2. steps < AnalystSteps
      BY <2>2, <3>1
    <3>3. QED
      BY <2>1, <2>2, <3>2 DEF NeverGivesUp
  <2>4. CASE node \in Researchers
    <3>1. debate.count < DebateSteps /\ steps <= AnalystSteps + debate.count
      BY <2>4, BudgetsAre DEF Paces
    <3>2. QED
      BY <2>1, <2>2, <3>1 DEF NeverGivesUp
  <2>5. CASE node \in {"Research Manager", "Trader", "Risk Judge"}
    <3>1. \/ steps <= AnalystSteps + DebateSteps
          \/ steps <= AnalystSteps + DebateSteps + 1
          \/ steps <= AnalystSteps + DebateSteps + 2 + RiskSteps
      BY <2>5 DEF Paces
    <3>2. QED
      BY <2>1, <2>2, <3>1 DEF NeverGivesUp
  <2>6. CASE node \in RiskTeam
    <3>1. risk.count < RiskSteps /\ steps <= AnalystSteps + DebateSteps + 2 + risk.count
      BY <2>6, BudgetsAre DEF Paces
    <3>2. QED
      BY <2>1, <2>2, <3>1 DEF NeverGivesUp
  <2>7. QED
    BY <2>3, <2>4, <2>5, <2>6 DEF Loops, TypeOK, AnalystNodes, NeverGivesUp
<1>2. QED
  BY <1>1, InitLoops, StepLoops, InitTalks, StepTalks, InitPaces, StepPaces, PTL DEF Spec
================================================================================
