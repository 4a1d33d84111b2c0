------------------------------ MODULE TradingGraph ------------------------------
(***************************************************************************)
(* The graph of agents of tradingagents: its nodes and conditional edges   *)
(* (graph/setup.py, graph/conditional_logic.py) and what each node writes  *)
(* to the state that the edges read (agents/).  The analysts call tools in *)
(* a loop, the researchers and the risk team take turns, and LangGraph     *)
(* gives up after a number of steps.  What a language model answers is any *)
(* of the answers the nodes tell apart.                                    *)
(***************************************************************************)
EXTENDS Naturals, Sequences, FiniteSets

CONSTANTS Selections,       \* choices of analysts: sequences without repetition
          Rounds,           \* pairs of debate rounds and risk rounds (research depths)
          RecursionLimit

\* Each analyst is a node of the graph, which setup_graph refuses to add twice.
SelectionsAreChoices ==
  /\ Selections \subseteq Seq({"market", "social", "news", "fundamentals"}) \ {<<>>}
  /\ \A selected \in Selections : \A i, j \in DOMAIN selected :
       selected[i] = selected[j] => i = j
RoundsArePositive == Rounds \subseteq (Nat \ {0}) \X (Nat \ {0})

VARIABLES
  setup,      \* the configuration of the run: [selected, debate, risk, google]
  node,       \* the node that runs next
  turn,       \* which of the selected analysts it is
  messages,   \* the last one has tool_calls; there are results of tools
  report,     \* of each analyst, "none" until its node writes one; a text is long when it
              \* has more than 100 characters, blank when it has none
  toolCalls,  \* the tool_call_count of each analyst
  debate,     \* investment_debate_state
  risk,       \* risk_debate_state
  steps

graphState == <<messages, report, toolCalls, debate, risk>>
vars == <<setup, node, turn, graphState, steps>>

Analysts == {"market", "social", "news", "fundamentals"}
Texts == {"short", "long"}
Contents == Texts \cup {"blank"}     \* of the message of a model, which may be empty
Researchers == {"Bull", "Bear"}
RiskTeam == {"Risky", "Safe", "Neutral"}
Silence(team) == [count |-> 0, last |-> "nobody", spoken |-> [s \in team |-> 0]]
NoMessages == [calls |-> FALSE, results |-> FALSE]

\* create_initial_state
Init == /\ \E selected \in Selections, r \in Rounds, google \in BOOLEAN :
             setup = [selected |-> selected, debate |-> r[1], risk |-> r[2], google |-> google]
        /\ node = "analyst"
        /\ turn = 1
        /\ messages = NoMessages
        /\ report = [a \in Analysts |-> "none"]
        /\ toolCalls = [a \in Analysts |-> 0]
        /\ debate = Silence(Researchers)
        /\ risk = Silence(RiskTeam)
        /\ steps = 0

analyst == setup.selected[turn]

Step(next) == /\ steps < RecursionLimit
              /\ node' = next
              /\ steps' = steps + 1
              /\ UNCHANGED setup

\* The answers with one of the texts, and with a call or results where they are possible.
Answering(texts, calls, results) == [report : texts, calls : calls, results : results]
Kept == {messages.results}

\* handle_google_tool_calls: the tools are run, and a report is made of their results when
\* the model makes none; without a call the report is what the model answered.
GoogleAnswers == Answering(Contents, {FALSE}, Kept) \cup Answering(Texts, {TRUE}, Kept)

\* market_analyst: the tools are run within the node; when they fail the call is left to the
\* tools node, with a text about the failure.
MarketAnswers ==
  IF setup.google THEN GoogleAnswers
  ELSE Answering(Contents, {FALSE}, Kept \cup {TRUE}) \cup Answering(Texts, {TRUE}, Kept)

\* social_media_analyst: no report together with a call.
SocialAnswers ==
  IF setup.google THEN GoogleAnswers
  ELSE Answering(Contents, {FALSE}, Kept) \cup Answering({"blank"}, {TRUE}, Kept)

\* news_analyst: a clean message, whatever the model called; the report is the content of
\* its answer even when that is a call, which as a rule has none.
NewsAnswers == Answering(Contents, {FALSE}, Kept)

\* Fault: the answer to a second call is not forced.
MutFundamentalsAnswers ==
  Answering(Contents, {FALSE}, Kept)
  \cup IF setup.google THEN {} ELSE Answering({report["fundamentals"]}, {TRUE}, Kept)

\* fundamentals_analyst: with results of tools a report is forced, which may be empty.
FundamentalsAnswers ==
  Answering(Contents, {FALSE}, Kept)
  \cup IF setup.google \/ messages.results THEN {}
       ELSE Answering({report["fundamentals"]}, {TRUE}, {FALSE})

Answers == CASE analyst = "market" -> MarketAnswers
             [] analyst = "social" -> SocialAnswers
             [] analyst = "news" -> NewsAnswers
             [] analyst = "fundamentals" -> FundamentalsAnswers

\* Visits of the node, except that fundamentals counts the results it finds.
CallsSoFar == IF analyst # "fundamentals" THEN toolCalls[analyst] + 1
              ELSE IF messages.results /\ toolCalls[analyst] = 0 THEN 1 ELSE toolCalls[analyst]

\* Fault: no bound on the calls.
MutOutOfCalls(count) == FALSE
\* Fault: one call more.
MutOneCallMore(count) == count > IF analyst = "fundamentals" THEN 1 ELSE 3

OutOfCalls(count) == count >= IF analyst = "fundamentals" THEN 1 ELSE 3

\* should_continue_market, _social, _news, _fundamentals
AfterAnalyst(answer, count) ==
  IF OutOfCalls(count) \/ answer.report = "long" \/ ~answer.calls THEN "clear" ELSE "tools"

Analyst ==
  /\ node = "analyst"
  /\ \E answer \in Answers :
       /\ Step(AfterAnalyst(answer, CallsSoFar))
       /\ messages' = [calls |-> answer.calls, results |-> answer.results]
       /\ report' = [report EXCEPT ![analyst] = answer.report]
       /\ toolCalls' = [toolCalls EXCEPT ![analyst] = CallsSoFar]
  /\ UNCHANGED <<turn, debate, risk>>

Tools ==
  /\ node = "tools"
  /\ Step("analyst")
  /\ messages' = [calls |-> FALSE, results |-> TRUE]
  /\ UNCHANGED <<turn, report, toolCalls, debate, risk>>

\* Fault: the messages are kept.
MutClear ==
  /\ node = "clear"
  /\ IF turn < Len(setup.selected) THEN Step("analyst") /\ turn' = turn + 1
     ELSE Step("Bull") /\ UNCHANGED turn
  /\ UNCHANGED graphState

\* create_msg_delete, and the edge to the next analyst or to the researchers
Clear ==
  /\ node = "clear"
  /\ IF turn < Len(setup.selected) THEN Step("analyst") /\ turn' = turn + 1
     ELSE Step("Bull") /\ UNCHANGED turn
  /\ messages' = NoMessages
  /\ UNCHANGED <<report, toolCalls, debate, risk>>

Spoken(talk, speaker) ==
  [count |-> talk.count + 1, last |-> speaker,
   spoken |-> [talk.spoken EXCEPT ![speaker] = @ + 1]]

\* Fault: rounds are counted, not speeches.
MutAfterDebate(talk) ==
  IF talk.count >= setup.debate THEN "Research Manager"
  ELSE IF talk.last = "Bull" THEN "Bear" ELSE "Bull"

\* should_continue_debate
AfterDebate(talk) ==
  IF talk.count >= 2 * setup.debate THEN "Research Manager"
  ELSE IF talk.last = "Bull" THEN "Bear" ELSE "Bull"

Research(speaker) ==
  /\ node = speaker
  /\ debate' = Spoken(debate, speaker)
  /\ Step(AfterDebate(debate'))
  /\ UNCHANGED <<turn, messages, report, toolCalls, risk>>

ResearchManager == node = "Research Manager" /\ Step("Trader") /\ UNCHANGED <<turn, graphState>>
Trader == node = "Trader" /\ Step("Risky") /\ UNCHANGED <<turn, graphState>>

\* should_continue_risk_analysis
AfterRisk(talk) ==
  IF talk.count >= 3 * setup.risk THEN "Risk Judge"
  ELSE CASE talk.last = "Risky" -> "Safe" [] talk.last = "Safe" -> "Neutral" [] OTHER -> "Risky"

DiscussRisk(speaker) ==
  /\ node = speaker
  /\ risk' = Spoken(risk, speaker)
  /\ Step(AfterRisk(risk'))
  /\ UNCHANGED <<turn, messages, report, toolCalls, debate>>

\* The judge decides with a default when the model does not answer.
RiskJudge == node = "Risk Judge" /\ Step("END") /\ UNCHANGED <<turn, graphState>>

\* A call of a language model or a tool raises, and propagate with it.
Fail == /\ node \notin {"END", "failed", "Risk Judge"}
        /\ Step("failed")
        /\ UNCHANGED <<turn, graphState>>

Next == \/ Analyst \/ Tools \/ Clear
        \/ (\E speaker \in Researchers : Research(speaker))
        \/ ResearchManager \/ Trader
        \/ (\E speaker \in RiskTeam : DiscussRisk(speaker))
        \/ RiskJudge \/ Fail

Spec == Init /\ [][Next]_vars

------------------------------------------------------------------------------
TypeOK ==
  /\ setup \in [selected : Selections, debate : Nat, risk : Nat, google : BOOLEAN]
  /\ node \in {"analyst", "tools", "clear", "Research Manager", "Trader", "Risk Judge", "END",
               "failed"} \cup Researchers \cup RiskTeam
  /\ turn \in DOMAIN setup.selected
  /\ messages \in [calls : BOOLEAN, results : BOOLEAN]
  /\ report \in [Analysts -> Contents \cup {"none"}]
  /\ toolCalls \in [Analysts -> 0..3]
  /\ steps \in 0..RecursionLimit

\* The limits of the tool loops and of the rounds keep every run below the recursion limit,
\* where LangGraph raises GraphRecursionError, whatever the models answer.
NeverGivesUp == node \notin {"END", "failed"} => steps < RecursionLimit

\* No analyst and no researcher is handed a conversation whose last message is a tool call
\* without its result, which the providers refuse.
NoDanglingCalls == node \in {"analyst", "Bull", "Trader"} => ~messages.calls

\* The analysts write their reports one after the other, in the order of the selection, and
\* none is passed over, fundamentals included, which writes nothing when it calls its tool:
\* when the next one starts, or the debate, each before it has written one (maybe an empty
\* one: the nodes pass on what the model answers), and none after it has.
AllHaveReported == node \in {"analyst"} \cup Researchers => \A i \in DOMAIN setup.selected :
  LET written == report[setup.selected[i]] # "none" IN
  /\ (i < turn \/ node \in Researchers) => written
  /\ i > turn => ~written

\* Nobody is passed over, and every turn starts from an answered conversation.
ReportsComeFirst == NoDanglingCalls /\ AllHaveReported

\* The manager hears both sides as often as rounds were asked for, the judge all three, and
\* on the way nobody is more than one speech ahead.
SidesAreHeardAlike ==
  /\ \A s, u \in Researchers : debate.spoken[s] <= debate.spoken[u] + 1
  /\ \A s, u \in RiskTeam : risk.spoken[s] <= risk.spoken[u] + 1
  /\ node \in {"Trader", "Research Manager"} =>
       \A s \in Researchers : debate.spoken[s] = setup.debate
  /\ node \in {"Risk Judge", "END"} => \A s \in RiskTeam : risk.spoken[s] = setup.risk
==============================================================================
