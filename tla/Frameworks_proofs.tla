------------------------- MODULE Frameworks_proofs -------------------------
(***************************************************************************)
(* Proofs about Frameworks, for any callers, tools, calls of LangChain,    *)
(* agents, invocations and wrappers: telemetry errors never replace an     *)
(* outcome, and the runs that calls open of themselves are ended, however  *)
(* the agent is built; a governed tool runs only if permitted; every call  *)
(* has its own span; and the types.  GatewayModel_proofs has the promises  *)
(* of GatewayModel, which is about sequences and takes an induction.       *)
(***************************************************************************)
EXTENDS GatewayModel_proofs

\* guard() and run(): a tool that ran is what is due, and a context names the
\* run of a call only while the call lasts, or where its end was cut off.
CallsInv ==
  /\ DOMAIN pc = Callers /\ DOMAIN due = Callers /\ DOMAIN ran = Callers
  /\ DOMAIN current = Callers /\ DOMAIN saved = Callers
  /\ DOMAIN inBlock = Callers /\ DOMAIN implicit = Callers /\ DOMAIN cut = Callers
  /\ \A c \in Callers :
       /\ pc[c] \in {"idle", "let_in", "checking", "tool"} => ran[c] = "none"
       /\ ran[c] # "none" /\ pc[c] # "end" => due[c] = ran[c]
       /\ pc[c] = "idle" => ~implicit[c]
       /\ ~implicit[c] /\ ~inBlock[c] => current[c] \in {"none", "stale"}
       /\ saved[c] \in {"none", "stale"}
       /\ current[c] = "stale" \/ saved[c] = "stale" => cut[c]

LEMMA CallsKept == CallsInv /\ [GuardNext]_vars => CallsInv'
<1> SUFFICES ASSUME CallsInv, [GuardNext]_vars PROVE CallsInv'
  OBVIOUS
<1> USE DEF CallsInv, runVars, endVars, spanVars, Goto, Set, CutOff
<1>1. ASSUME NEW c \in Callers, Blocks(c) PROVE CallsInv'
  BY <1>1 DEF Blocks, EnterRun, EnterRaises, LeaveRun
<1>2. ASSUME NEW c \in Callers, Call(c) \/ CallRaises(c) PROVE CallsInv'
  BY <1>2 DEF Call, CallRaises
<1>3. ASSUME NEW c \in Callers, Before(c) PROVE CallsInv'
  BY <1>3 DEF Before, LetIn, Refused, Check, Decide
<1>4. ASSUME NEW c \in Callers, RunTool(c) PROVE CallsInv'
  BY <1>4 DEF RunTool, ToolEnds
<1>5. ASSUME NEW c \in Callers, Record(c) \/ RecordAgain(c) PROVE CallsInv'
  BY <1>5 DEF Record, RecordAgain
<1>6. ASSUME NEW c \in Callers, LeaveCall(c) PROVE CallsInv'
  BY <1>6 DEF LeaveCall, Over
<1>7. ASSUME NEW c \in Callers, EndImplicit(c) PROVE CallsInv'
  BY <1>7 DEF EndImplicit, Over
<1>8. CASE StoreError \/ TakenElsewhere
  BY <1>8 DEF StoreError, TakenElsewhere
<1>9. CASE UNCHANGED vars
  BY <1>9 DEF vars
<1>10. QED
  BY <1>1, <1>2, <1>3, <1>4, <1>5, <1>6, <1>7, <1>8, <1>9 DEF GuardNext, After

-----------------------------------------------------------------------------
\* The LangChain handler: whoever is registered has a run to land in, and a
\* run it opened is closed or still owned, but for what was lost.
RunsBegun == opened \cup {n \in LC!Nodes : <<n, "open">> \in lost}
RunsClosed == closed \cup {n \in LC!Nodes : <<n, "close">> \in lost}
LangChainInv ==
  /\ DOMAIN at = LC!Nodes /\ DOMAIN landed = LC!Nodes
  /\ ~LC!Is("attached") => DOMAIN rootOf = {}
  /\ LC!Is("attached") =>
       \A n \in LC!Nodes : at[n] \in {"called", "inner", "body", "over"} => n \in DOMAIN rootOf
  /\ \A n \in DOMAIN rootOf :
       /\ n \in LC!Nodes /\ at[n] \in {"called", "inner", "body", "over", "dropped"}
       /\ IF LC!Is("ambient") THEN rootOf[n] = 0 ELSE rootOf[n] \in RunsBegun
  /\ owned \cup calls \subseteq DOMAIN rootOf /\ opened \ RunsClosed \subseteq owned
  /\ LC!Is("ambient") => opened = {}
  /\ \A n \in LC!Nodes :
       /\ LC!Is("ambient") => landed[n] \subseteq {0}
       /\ LC!Is("attached") /\ ~LC!Is("ambient") => landed[n] \subseteq RunsBegun

\* What a submission leaves of the runs, and where its span lands.
LEMMA EventsSubmitted ==
  ASSUME NEW n \in LC!Nodes, NEW events, LC!Submit(n, events), DOMAIN landed = LC!Nodes
  PROVE  /\ opened \subseteq opened' /\ RunsBegun \subseteq RunsBegun' /\ RunsClosed \subseteq RunsClosed'
         /\ opened' \subseteq IF "open" \in events THEN opened \cup {n} ELSE opened
         /\ "open" \in events => n \in RunsBegun'
         /\ "close" \in events => n \in RunsClosed'
         /\ DOMAIN landed' = LC!Nodes
         /\ \A m \in LC!Nodes : landed'[m] \subseteq
              IF m = n /\ "span" \in events THEN landed[m] \cup {LC!RunOf(n)} ELSE landed[m]
<1>1. PICK sent_ \in SUBSET events :
        /\ lost' = lost \cup ({n} \X (events \ sent_))
        /\ IF "span" \in sent_ THEN landed' = [landed EXCEPT ![n] = @ \cup {LC!RunOf(n)}]
                               ELSE landed' = landed
        /\ opened' = IF "open" \in sent_ THEN opened \cup {n} ELSE opened
        /\ closed' = IF "close" \in sent_ THEN closed \cup {n} ELSE closed
  BY DEF LC!Submit
<1>2. lost \subseteq lost' /\ \A e \in events \ sent_ : <<n, e>> \in lost'
  BY <1>1
<1>3. /\ opened \subseteq opened' /\ RunsBegun \subseteq RunsBegun' /\ RunsClosed \subseteq RunsClosed'
      /\ opened' \subseteq IF "open" \in events THEN opened \cup {n} ELSE opened
      /\ "open" \in events => n \in RunsBegun'
      /\ "close" \in events => n \in RunsClosed'
  BY <1>1, <1>2 DEF RunsBegun, RunsClosed
<1>4. /\ DOMAIN landed' = LC!Nodes
      /\ \A m \in LC!Nodes : landed'[m] \subseteq
           IF m = n /\ "span" \in events THEN landed[m] \cup {LC!RunOf(n)} ELSE landed[m]
  BY <1>1
<1>5. QED BY <1>3, <1>4

LEMMA LangChainKept == LangChainInv /\ [LC!LCNext]_langchain => LangChainInv'
<1> SUFFICES ASSUME LangChainInv, [LC!LCNext]_langchain PROVE LangChainInv'
  OBVIOUS
<1> USE FrameworksAssumption
    DEF LangChainInv, LC!Is, LC!lcRule, LC!lcTables, LC!lcSeen, LC!Goto
<1>0. UNCHANGED LC!lcSeen => RunsBegun' = RunsBegun /\ RunsClosed' = RunsClosed
  BY DEF RunsBegun, RunsClosed
<1>1. ASSUME NEW n \in LC!Nodes, LC!Start(n) PROVE LangChainInv'
  <2>1. PICK p, w : /\ \/ /\ IF LC!Is("attached") THEN LC!Register(n, p, w)
                                                ELSE UNCHANGED <<LC!lcTables, LC!lcSeen>>
                          /\ LC!Goto(n, IF w \in Wrapped THEN "called" ELSE "body")
                       \/ /\ LC!Goto(n, "refused")
                          /\ UNCHANGED <<LC!lcTables, LC!lcSeen>>
    BY <1>1 DEF LC!Start
  <2>2. at[n] = "unborn" /\ n \notin DOMAIN rootOf /\ setup' = setup
    BY <1>1 DEF LC!Start
  <2>3. CASE UNCHANGED <<LC!lcTables, LC!lcSeen>> /\ (LC!Is("attached") => LC!Goto(n, "refused"))
    BY <1>0, <2>1, <2>2, <2>3
  <2>4. CASE LC!Is("attached") /\ LC!Register(n, p, w)
             /\ LC!Goto(n, IF w \in Wrapped THEN "called" ELSE "body")
    <3>1. n # 0
      BY DEF LC!Nodes
    <3> DEFINE run == LC!RootFor(n, p)
    <3>2. /\ LC!Is("ambient") => run = 0
          /\ ~LC!Is("ambient") => run \in RunsBegun \cup {n}
      BY DEF LC!RootFor, LC!Ambient
    <3>3. /\ DOMAIN rootOf' = DOMAIN rootOf \cup {n} /\ rootOf'[n] = run
          /\ \A m \in DOMAIN rootOf : rootOf'[m] = rootOf[m]
          /\ calls' \subseteq calls \cup {n}
          /\ \/ run = n /\ owned' = owned \cup {n} /\ LC!Submit(n, {"open"})
             \/ run # n /\ UNCHANGED <<owned, LC!lcSeen>>
      BY <2>2, <2>4 DEF LC!Register
    <3> HIDE DEF run
    <3>4. /\ RunsBegun \subseteq RunsBegun' /\ RunsClosed \subseteq RunsClosed'
          /\ opened' \subseteq opened \cup (IF run = n THEN {n} ELSE {})
          /\ run = n => n \in RunsBegun'
          /\ DOMAIN landed' = LC!Nodes /\ \A m \in LC!Nodes : landed'[m] \subseteq landed[m]
      BY <1>0, <3>3, EventsSubmitted
    <3>5. \A m \in LC!Nodes \ {n} : at'[m] = at[m]
      BY <2>4
    <3>6. at'[n] \in {"called", "body"} /\ DOMAIN at' = LC!Nodes
      BY <2>4
    <3>7. opened' \ RunsClosed' \subseteq owned' /\ owned' \subseteq DOMAIN rootOf'
      BY <3>3, <3>4
    <3>8. LC!Is("ambient") => opened' = {}
      BY <3>1, <3>2, <3>4
    <3>9. \A m \in DOMAIN rootOf' :
            IF LC!Is("ambient") THEN rootOf'[m] = 0 ELSE rootOf'[m] \in RunsBegun'
      BY <3>2, <3>3, <3>4
    <3>10. QED BY <2>2, <2>4, <3>3, <3>4, <3>5, <3>6, <3>7, <3>8, <3>9
  <2>5. QED BY <2>1, <2>3, <2>4
<1>2. ASSUME NEW n \in LC!Nodes, at[n] \in {"called", "inner", "body", "over"},
             NEW l \in {"called", "inner", "body", "over", "dropped"}, LC!Goto(n, l),
             LC!Submit(n, {"span"}) \/ UNCHANGED LC!lcSeen,
             UNCHANGED <<setup, rootOf, owned, calls>>
      PROVE  LangChainInv'
  <2>1. /\ LC!Is("ambient") => LC!RunOf(n) = 0
        /\ LC!Is("attached") /\ ~LC!Is("ambient") => LC!RunOf(n) \in RunsBegun
    BY <1>2 DEF LC!RunOf, LC!Ambient
  <2>2. /\ RunsBegun \subseteq RunsBegun' /\ RunsClosed \subseteq RunsClosed' /\ opened' = opened
        /\ DOMAIN landed' = LC!Nodes
        /\ \A m \in LC!Nodes : landed'[m] \subseteq landed[m] \cup (IF m = n THEN {LC!RunOf(n)} ELSE {})
    <3>1. CASE LC!Submit(n, {"span"})
      <4>1. /\ RunsBegun \subseteq RunsBegun' /\ RunsClosed \subseteq RunsClosed' /\ opened \subseteq opened'
            /\ opened' \subseteq opened /\ DOMAIN landed' = LC!Nodes
            /\ \A m \in LC!Nodes :
                 landed'[m] \subseteq IF m = n THEN landed[m] \cup {LC!RunOf(n)} ELSE landed[m]
        BY <3>1, EventsSubmitted
      <4>2. QED BY <4>1
    <3>2. CASE UNCHANGED LC!lcSeen
      BY <1>0, <3>2
    <3>3. QED BY <1>2, <3>1, <3>2
  <2>3. \A m \in LC!Nodes \ {n} : at'[m] = at[m]
    BY <1>2
  <2>4. at'[n] = l /\ DOMAIN at' = LC!Nodes
    BY <1>2
  <2>5. QED BY <1>2, <2>1, <2>2, <2>3, <2>4
<1>3. ASSUME NEW n \in LC!Nodes,
             LC!StepAside(n) \/ LC!Observe(n) \/ LC!Allowed(n) \/ LC!Denied(n)
               \/ LC!Failed(n) \/ LC!Inner(n) \/ LC!BodyEnds(n) \/ LC!Cancelled(n)
      PROVE  LangChainInv'
  <2>1. CASE LC!StepAside(n) \/ LC!Failed(n) \/ LC!Denied(n)
    BY <1>2, <2>1 DEF LC!StepAside, LC!Failed, LC!Denied
  <2>2. CASE LC!Observe(n) \/ LC!Allowed(n)
    <3>1. PICK l \in {"body", "inner"} : LC!Goto(n, l)
      BY <2>2 DEF LC!Observe, LC!Allowed, LC!EnterBody
    <3>2. QED BY <1>2, <2>2, <3>1 DEF LC!Observe, LC!Allowed
  <2>3. CASE LC!Inner(n)
    BY <1>2, <2>3 DEF LC!Inner
  <2>4. CASE LC!BodyEnds(n) \/ LC!Cancelled(n)
    BY <1>2, <2>4 DEF LC!BodyEnds, LC!Cancelled, LC!Leave
  <2>5. QED BY <1>3, <2>1, <2>2, <2>3, <2>4
<1>4. ASSUME NEW n \in LC!Nodes, LC!End(n) PROVE LangChainInv'
  <2>1. at[n] = "over" /\ at' = [at EXCEPT ![n] = "done"] /\ setup' = setup
    BY <1>4 DEF LC!End
  <2>2. CASE ~LC!Is("attached")
    BY <1>0, <1>4, <2>1, <2>2 DEF LC!End
  <2>3. CASE LC!Is("attached")
    <3> DEFINE events == {e \in {"span", "close"} : IF e = "span" THEN LC!Untold(n) ELSE n \in owned}
    <3>1. /\ DOMAIN rootOf' = DOMAIN rootOf \ {n}
          /\ \A m \in DOMAIN rootOf' : rootOf'[m] = rootOf[m]
          /\ calls' = calls \ {n} /\ owned' = owned \ {n}
          /\ LC!Submit(n, events)
      BY <1>4, <2>3 DEF LC!End, LC!Ended
    <3>2. /\ LC!Is("ambient") => LC!RunOf(n) = 0
          /\ ~LC!Is("ambient") => LC!RunOf(n) \in RunsBegun
      BY <2>1, <2>3 DEF LC!RunOf, LC!Ambient
    <3>3. "open" \notin events /\ (n \in owned => "close" \in events)
      OBVIOUS
    <3> HIDE DEF events
    <3>4. /\ RunsBegun \subseteq RunsBegun' /\ RunsClosed \subseteq RunsClosed' /\ opened' = opened
          /\ n \in owned => n \in RunsClosed'
          /\ DOMAIN landed' = LC!Nodes
          /\ \A m \in LC!Nodes : landed'[m] \subseteq landed[m] \cup (IF m = n THEN {LC!RunOf(n)} ELSE {})
      BY <3>1, <3>3, EventsSubmitted
    <3>5. opened' \ RunsClosed' \subseteq owned'
      BY <3>1, <3>4
    <3>6. QED BY <2>1, <2>3, <3>1, <3>2, <3>4, <3>5
  <2>4. QED BY <2>2, <2>3
<1>5. CASE LC!Rest \/ UNCHANGED langchain
  BY <1>0, <1>5 DEF LC!Rest, LC!lcVars, LC!lcTree, langchain
<1>6. QED BY <1>1, <1>3, <1>4, <1>5 DEF LC!LCNext

-----------------------------------------------------------------------------
\* The ADK plugin: of two model calls of one invocation that are out together
\* both are mixed up, and any other finds its own previous run filed.
AdkInv ==
  /\ DOMAIN serves = Agents /\ DOMAIN bound = Agents /\ asks \subseteq Agents
  /\ \A a \in asks : serves[a] # Nowhere
  /\ \A a, b \in asks : a # b /\ serves[a] = serves[b] => a \in mixed
  /\ \A a \in asks \ mixed :
       IF a \in answered THEN bound[a] = Nowhere /\ serves[a] \notin DOMAIN previousRun
       ELSE serves[a] \in DOMAIN previousRun /\ previousRun[serves[a]] = Nowhere
  /\ answered \subseteq asks
  /\ Adk!AdkRunRestored

LEMMA AdkKept == AdkInv /\ [Adk!AdkNext]_adk => AdkInv'
<1> SUFFICES ASSUME AdkInv, [Adk!AdkNext]_adk PROVE AdkInv'
  OBVIOUS
<1> USE DEF AdkInv, Adk!AdkRunRestored, Adk!adkModel, Adk!adkRuns, Adk!adkTools
<1>1. CASE UNCHANGED <<serves, Adk!adkModel>>
  BY <1>1
<1>2. ASSUME NEW a \in Agents, Adk!Join(a) \/ Adk!Part(a) PROVE AdkInv'
  <2>1. a \notin asks /\ UNCHANGED Adk!adkModel
    BY <1>2 DEF Adk!Join, Adk!Part
  <2>2. DOMAIN serves' = Agents /\ \A b \in Agents \ {a} : serves'[b] = serves[b]
    BY <1>2 DEF Adk!Join, Adk!Part
  <2>3. QED BY <2>1, <2>2
<1>3. ASSUME NEW a \in Agents, Adk!Cancel(a) PROVE AdkInv'
  BY <1>3 DEF Adk!Cancel
<1>4. ASSUME NEW a \in Agents, Adk!BeforeModel(a) PROVE AdkInv'
  <2> DEFINE i == serves[a]
             met == {b \in asks : serves[b] = i}
  <2>1. /\ i # Nowhere /\ a \notin asks /\ asks' = asks \cup {a} /\ serves' = serves
        /\ mixed' = mixed \cup met \cup (IF met = {} THEN {} ELSE {a})
        /\ bound' = [bound EXCEPT ![a] = i] /\ answered' = answered
    BY <1>4 DEF Adk!BeforeModel
  <2>2. /\ DOMAIN previousRun' = DOMAIN previousRun \cup {i}
        /\ previousRun'[i] = bound[a]
        /\ \A j \in DOMAIN previousRun \ {i} : previousRun'[j] = previousRun[j]
    BY <1>4 DEF Adk!BeforeModel, Adk!Filed
  <2>3. QED BY <2>1, <2>2
<1>5. ASSUME NEW a \in Agents, Adk!AfterModel(a) \/ Adk!PartialAnswer(a) PROVE AdkInv'
  <2> DEFINE i == serves[a]
  <2>1. /\ a \in asks /\ UNCHANGED <<serves, mixed>>
        /\ bound' = Adk!Restored(a, i)
        /\ \/ asks' = asks \ {a} /\ answered' = answered \ {a}
           \/ asks' = asks /\ answered' = answered \cup {a}
    BY <1>5 DEF Adk!AfterModel, Adk!PartialAnswer, Adk!Answer
  <2>2. /\ DOMAIN previousRun' = DOMAIN previousRun \ {i}
        /\ \A j \in DOMAIN previousRun' : previousRun'[j] = previousRun[j]
    BY <1>5 DEF Adk!AfterModel, Adk!PartialAnswer, Adk!Answer, Adk!Popped, Adk!Restrict
  <2>3. /\ DOMAIN bound' = Agents /\ \A b \in Agents \ {a} : bound'[b] = bound[b]
        /\ a \notin mixed => bound'[a] = Nowhere
    BY <2>1 DEF Adk!Restored
  <2>4. QED BY <2>1, <2>2, <2>3
<1>6. QED
  BY <1>1, <1>2, <1>3, <1>4, <1>5
     DEF Adk!AdkNext, Adk!AdkRest, Adk!BeforeRun, Adk!AfterRun, Adk!ToolRuns, Adk!ToolShort,
         Adk!AfterTool, Adk!NoAfterTool, Adk!adkVars, adk

-----------------------------------------------------------------------------
\* A wrapped call: what it has sent so far, by where it is.
WrappedInv ==
  /\ DOMAIN step = Wrappers /\ DOMAIN form = Wrappers /\ DOMAIN inRun = Wrappers
  /\ DOMAIN end = Wrappers /\ DOMAIN outcome = Wrappers
  /\ DOMAIN sent = Wrappers /\ eaten \in [Wrappers -> Nat]
  /\ WT!WTOutcomeKept
  /\ \A w \in Wrappers :
       /\ step[w] \in {"check", "body"} => sent[w] = {}
       /\ inRun[w] => "open" \notin sent[w] /\ step[w] # "open"
       /\ step[w] \in {"leave", "idle"} /\ "open" \in sent[w] =>
            "close" \in sent[w] \/ eaten[w] > 0

LEMMA WrappedKept == WrappedInv /\ [WT!WTNext]_wrappers => WrappedInv'
<1> SUFFICES ASSUME WrappedInv, [WT!WTNext]_wrappers PROVE WrappedInv'
  OBVIOUS
<1> USE DEF WrappedInv, WT!WTOutcomeKept, WT!Back, WT!Goto
<1>1. ASSUME NEW w \in Wrappers, WT!Call(w) PROVE WrappedInv'
  BY <1>1 DEF WT!Call
<1>2. ASSUME NEW w \in Wrappers, WT!Refused(w) \/ WT!Allowed(w) \/ WT!NoResponse(w)
      PROVE  WrappedInv'
  BY <1>2 DEF WT!Refused, WT!Allowed, WT!NoResponse
<1>3. ASSUME NEW w \in Wrappers, WT!Denied(w) \/ WT!Body(w) PROVE WrappedInv'
  BY <1>3 DEF WT!Denied, WT!Body, WT!Report
<1>4. ASSUME NEW w \in Wrappers, WT!Open(w) PROVE WrappedInv'
  BY <1>4 DEF WT!Open, WT!Event
<1>5. ASSUME NEW w \in Wrappers, WT!Span(w) PROVE WrappedInv'
  BY <1>5 DEF WT!Span, WT!Event
<1>6. ASSUME NEW w \in Wrappers, WT!Close(w) PROVE WrappedInv'
  BY <1>6 DEF WT!Close, WT!Event
<1>7. ASSUME NEW w \in Wrappers, WT!Leave(w) PROVE WrappedInv'
  BY <1>7 DEF WT!Leave
<1>8. CASE WT!FlushFails \/ WT!TakenElsewhere \/ UNCHANGED wrappers
  BY <1>8 DEF WT!FlushFails, WT!TakenElsewhere, wrappers
<1>9. QED BY <1>1, <1>2, <1>3, <1>4, <1>5, <1>6, <1>7, <1>8 DEF WT!WTNext

-----------------------------------------------------------------------------
(* The agent *)

AgentInv == CallsInv /\ LangChainInv /\ AdkInv /\ WrappedInv

LEMMA AgentKept == AgentSpec => []AgentInv
<1>1. AgentInit => AgentInv
  <2> SUFFICES ASSUME AgentInit PROVE AgentInv
    OBVIOUS
  <2> USE DEF AgentInit
  <2>1. CallsInv
    BY DEF GuardInit, CallsInv
  <2>2. LangChainInv
    BY DEF LC!LCInit, LangChainInv
  <2>3. AdkInv
    BY DEF Adk!AdkInit, AdkInv, Adk!AdkRunRestored
  <2>4. WrappedInv
    BY DEF WT!WTInit, WrappedInv, WT!WTOutcomeKept, WT!Back
  <2>5. QED BY <2>1, <2>2, <2>3, <2>4 DEF AgentInv
<1>2. AgentInv /\ [AgentNext]_agentVars => AgentInv'
  <2> SUFFICES ASSUME AgentInv, [AgentNext]_agentVars PROVE AgentInv'
    OBVIOUS
  <2>1. /\ [GuardNext]_vars /\ [LC!LCNext]_langchain /\ [Adk!AdkNext]_adk
        /\ [WT!WTNext]_wrappers
    BY DEF AgentNext, Calls, LangChain, GoogleAdk, ModelCalls, WrappedCalls, agentVars
  <2>2. QED BY <2>1, CallsKept, LangChainKept, AdkKept, WrappedKept DEF AgentInv
<1>3. QED BY <1>1, <1>2, PTL DEF AgentSpec

\* Whatever telemetry errors strike, a guarded call within a run and a wrapped
\* call hand back what the tool itself, or the check, ended with.
THEOREM OutcomesSurvive == AgentSpec => OutcomesKept
<1> DEFINE Kept == \A c \in Callers : LeaveCall(c) /\ pc'[c] = "idle" /\ ran[c] # "none"
                     => due'[c] = ran[c]
<1>1. AgentInv => WT!WTOutcomeKept
  BY DEF AgentInv, WrappedInv
<1>2. AgentInv => [Kept]_vars
  BY DEF AgentInv, CallsInv, LeaveCall
<1>3. QED BY <1>1, <1>2, AgentKept, PTL DEF OutcomesKept, OutcomeKeptInRuns

\* However calls end, the runs they opened of themselves are ended, and no
\* context goes on naming a run that is over, unless a stored error took the
\* place of the run's own opening or end.
THEOREM RunsAreEnded == AgentSpec => []RunsEnd
<1>1. AgentInv => RunsEnd
  <2> SUFFICES ASSUME AgentInv PROVE RunsEnd
    OBVIOUS
  <2>1. ImplicitRunsEnd
    BY DEF AgentInv, CallsInv, ImplicitRunsEnd
  <2>2. LC!LCRunsEnd
    BY DEF AgentInv, LangChainInv, RunsBegun, RunsClosed, LC!LCRunsEnd, LC!Ambient
  <2>3. Adk!AdkRunRestored
    BY DEF AgentInv, AdkInv
  <2>4. WT!WTRunsEnd
    BY DEF AgentInv, WrappedInv, WT!WTRunsEnd, WT!Back
  <2>5. QED BY <2>1, <2>2, <2>3, <2>4 DEF RunsEnd
<1>2. QED BY <1>1, AgentKept, PTL

-----------------------------------------------------------------------------
(* Permission *)

\* guard(): a call that came back granted has an ALLOW, one that came back
\* degraded never had a verdict, and no verdict changes on the way to the tool.
PermitInv ==
  /\ DOMAIN stage = Callers /\ DOMAIN verdict = Callers /\ DOMAIN pc = Callers
  /\ \A c \in Callers :
       /\ stage[c] = "granted" => verdict[c] = "ALLOW"
       /\ stage[c] = "degraded" => verdict[c] = "none" /\ FailOpen
       /\ pc[c] = "tool" => stage[c] \in {"granted", "degraded"}

LEMMA PermitKept == PermitInv /\ [GuardNext]_vars => PermitInv'
<1> SUFFICES ASSUME PermitInv, [GuardNext]_vars PROVE PermitInv'
  OBVIOUS
<1> USE DEF PermitInv, runVars, endVars, spanVars, cvars, Goto
<1>1. ASSUME NEW c \in Callers, Blocks(c) \/ Call(c) \/ CallRaises(c) PROVE PermitInv'
  BY <1>1 DEF Blocks, EnterRun, EnterRaises, LeaveRun, Call, CallRaises
<1>2. ASSUME NEW c \in Callers, LetIn(c) \/ Refused(c) PROVE PermitInv'
  BY <1>2 DEF LetIn, Refused, Ask
<1>3. ASSUME NEW c \in Callers, Check(c) PROVE PermitInv'
  BY <1>3 DEF Check, Render, Leave, MayLeave
<1>4. ASSUME NEW c \in Callers, Decide(c) PROVE PermitInv'
  BY <1>4 DEF Decide
<1>5. ASSUME NEW c \in Callers, RunTool(c) \/ Record(c) \/ RecordAgain(c) PROVE PermitInv'
  BY <1>5 DEF RunTool, Record, RecordAgain
<1>6. ASSUME NEW c \in Callers, LeaveCall(c) PROVE PermitInv'
  BY <1>6 DEF LeaveCall, Over, Return, Outcomes
<1>7. ASSUME NEW c \in Callers, EndImplicit(c) PROVE PermitInv'
  BY <1>7 DEF EndImplicit, Over
<1>8. CASE StoreError \/ TakenElsewhere \/ UNCHANGED vars
  BY <1>8 DEF StoreError, TakenElsewhere, vars
<1>9. QED
  BY <1>1, <1>2, <1>3, <1>4, <1>5, <1>6, <1>7, <1>8 DEF GuardNext, Before, After

\* However many callers there are, and whichever telemetry errors strike them,
\* guard() runs a tool only on an ALLOW, or unasked where the agent fails open.
THEOREM GuardPermits == AgentSpec => RunsOnlyPermitted
<1> DEFINE Permitted == \A c \in Callers : RunTool(c) =>
                          verdict[c] = "ALLOW" \/ (verdict[c] = "none" /\ FailOpen)
<1>1. AgentInit => PermitInv
  BY DEF AgentInit, GuardInit, Init, PermitInv
<1>2. PermitInv /\ [AgentNext]_agentVars => PermitInv'
  BY PermitKept
     DEF AgentNext, Calls, LangChain, GoogleAdk, ModelCalls, WrappedCalls, agentVars
<1>3. PermitInv => [Permitted]_vars
  BY DEF PermitInv, RunTool
<1>4. QED BY <1>1, <1>2, <1>3, PTL DEF AgentSpec, RunsOnlyPermitted

\* A node that starts is inside of what its parent is inside of.
LEMMA EnclosingGrows ==
  ASSUME NEW n \in LC!Nodes, NEW p \in LC!Nodes, parent' = [parent EXCEPT ![n] = p],
         DOMAIN parent = LC!Nodes, p # 0
  PROVE  LC!Enclosing(p)' \subseteq LC!Enclosing(n)'
BY DEF LC!Enclosing, LC!Upward, LC!Nodes

\* A node that starts leaves the others where they are.
LEMMA EnclosingStays ==
  ASSUME NEW x \in LC!Nodes, NEW p, parent' = [parent EXCEPT ![x] = p],
         \A k \in LC!Nodes : parent[k] # x, DOMAIN parent = LC!Nodes,
         NEW n \in LC!Nodes \ {x}
  PROVE  LC!Enclosing(n) \subseteq LC!Enclosing(n)'
<1> SUFFICES ASSUME NEW m \in LC!Enclosing(n), NEW S \in SUBSET LC!Nodes,
                    n \in S, LC!Upward(S)'
             PROVE  m \in S
  BY DEF LC!Enclosing, LC!Nodes
<1> DEFINE T == S \ {x}
<1>1. T \in SUBSET LC!Nodes /\ n \in T
  OBVIOUS
<1>2. \A k \in T : parent[k] # 0 => parent[k] \in T
  BY DEF LC!Upward
<1>3. m \in T
  BY <1>1, <1>2 DEF LC!Enclosing, LC!Upward
<1>4. QED BY <1>3

\* The tools whose allowed calls a node runs inside of.
AllowedAround(n) == {what[m] : m \in LC!Enclosing(n) \cap permitted}

\* LangChain: whoever sees the name of a wrapped tool in its context runs inside
\* of a call of that tool which was allowed, where the adapter governs.
ChainPermitInv ==
  /\ DOMAIN what = LC!Nodes /\ DOMAIN parent = LC!Nodes /\ DOMAIN at = LC!Nodes
  /\ DOMAIN marker = LC!Nodes /\ checks \in [LC!Nodes -> 0..1]
  /\ permitted \subseteq LC!Nodes
  /\ \A n \in LC!Nodes :
       /\ parent[n] # 0 => parent[n] \in LC!Nodes /\ at[parent[n]] # "unborn"
       /\ at[n] = "unborn" => n \notin permitted
       /\ at[n] \in {"called", "inner"} => what[n] \in Wrapped
       /\ at[n] \in {"unborn", "called"} => checks[n] = 0
       /\ at[n] = "inner" => marker[n] = what[n]
       /\ LC!Is("govern") /\ marker[n] # "none" => marker[n] \in AllowedAround(n)
       /\ LC!Is("govern") /\ at[n] = "body" /\ what[n] \in Wrapped => what[n] \in AllowedAround(n)

LEMMA ChainPermitStarts ==
  ASSUME ChainPermitInv, NEW n \in LC!Nodes, LC!Start(n)
  PROVE  ChainPermitInv'
<1>1. PICK p \in LC!AtTop \cup LC!Hosts \cup LC!Stragglers, w \in Tools \cup {"chain", "llm"} :
        /\ parent' = [parent EXCEPT ![n] = p]
        /\ what' = [what EXCEPT ![n] = w]
        /\ marker' = [marker EXCEPT ![n] = IF p = 0 THEN "none" ELSE marker[p]]
        /\ \/ LC!Goto(n, IF w \in Wrapped THEN "called" ELSE "body")
           \/ LC!Goto(n, "refused")
  BY DEF LC!Start
<1>2. at[n] = "unborn" /\ UNCHANGED <<setup, permitted, checks, aside>>
  BY DEF LC!Start
<1>3. p # 0 => p \in LC!Nodes /\ at[p] # "unborn"
  BY DEF LC!AtTop, LC!Hosts, LC!Stragglers
<1>4. /\ \A m \in LC!Nodes \ {n} : /\ at'[m] = at[m] /\ what'[m] = what[m]
                                   /\ marker'[m] = marker[m] /\ parent'[m] = parent[m]
      /\ what'[n] = w /\ parent'[n] = p
      /\ marker'[n] = IF p = 0 THEN "none" ELSE marker[p]
      /\ at'[n] \in {"called", "body", "refused"}
      /\ at'[n] = "called" => w \in Wrapped
      /\ at'[n] = "body" => w \notin Wrapped
      /\ DOMAIN what' = LC!Nodes /\ DOMAIN parent' = LC!Nodes /\ DOMAIN at' = LC!Nodes
      /\ DOMAIN marker' = LC!Nodes
  BY <1>1 DEF ChainPermitInv, LC!Goto
<1>5. ASSUME NEW m \in LC!Nodes \ {n} PROVE AllowedAround(m) \subseteq AllowedAround(m)'
  <2>1. DOMAIN parent = LC!Nodes /\ \A k \in LC!Nodes : parent[k] # n
    BY <1>2 DEF ChainPermitInv, LC!Nodes
  <2>2. LC!Enclosing(m) \subseteq LC!Enclosing(m)'
    BY <1>1, <2>1, EnclosingStays
  <2>3. \A k \in permitted : what'[k] = what[k]
    BY <1>2, <1>4 DEF ChainPermitInv
  <2>4. QED BY <1>2, <2>2, <2>3 DEF AllowedAround
<1>6. LC!Is("govern") /\ marker'[n] # "none" => marker'[n] \in AllowedAround(n)'
  <2> SUFFICES ASSUME LC!Is("govern"), marker'[n] # "none"
               PROVE  marker'[n] \in AllowedAround(n)'
    OBVIOUS
  <2>1. p \in LC!Nodes \ {n} /\ marker'[n] = marker[p] /\ p # 0
    BY <1>2, <1>3, <1>4
  <2>2. marker[p] \in AllowedAround(p)'
    BY <1>5, <2>1 DEF ChainPermitInv
  <2>3. LC!Enclosing(p)' \subseteq LC!Enclosing(n)'
    BY <1>1, <2>1, EnclosingGrows DEF ChainPermitInv
  <2>4. QED BY <2>1, <2>2, <2>3 DEF AllowedAround
<1>7. LC!Is("govern")' <=> LC!Is("govern")
  BY <1>2 DEF LC!Is
<1>8. ASSUME NEW m \in LC!Nodes
      PROVE  /\ LC!Is("govern") /\ marker'[m] # "none" => marker'[m] \in AllowedAround(m)'
             /\ LC!Is("govern") /\ at'[m] = "body" /\ what'[m] \in Wrapped
                  => what'[m] \in AllowedAround(m)'
  BY <1>4, <1>5, <1>6 DEF ChainPermitInv
<1>9. ASSUME NEW m \in LC!Nodes
      PROVE  /\ parent'[m] # 0 => parent'[m] \in LC!Nodes /\ at'[parent'[m]] # "unborn"
             /\ at'[m] = "unborn" => m \notin permitted'
             /\ at'[m] \in {"called", "inner"} => what'[m] \in Wrapped
             /\ at'[m] \in {"unborn", "called"} => checks'[m] = 0
             /\ at'[m] = "inner" => marker'[m] = what'[m]
  BY <1>2, <1>3, <1>4 DEF ChainPermitInv
<1>10. QED BY <1>2, <1>4, <1>7, <1>8, <1>9 DEF ChainPermitInv

LEMMA ChainPermitKept == ChainPermitInv /\ [LC!LCNext]_langchain => ChainPermitInv'
<1> SUFFICES ASSUME ChainPermitInv, [LC!LCNext]_langchain PROVE ChainPermitInv'
  OBVIOUS
<1> USE FrameworksAssumption
    DEF ChainPermitInv, LC!Is, LC!lcTables, LC!lcSeen, LC!lcRule, LC!Goto
<1>1. ASSUME UNCHANGED <<what, parent>>, permitted \subseteq permitted'
      PROVE  \A n : AllowedAround(n) \subseteq AllowedAround(n)'
  BY <1>1 DEF AllowedAround, LC!Enclosing, LC!Upward, LC!Nodes
<1>2. ASSUME NEW n \in LC!Nodes, LC!StepAside(n) PROVE ChainPermitInv'
  <2>1. what[n] \in AllowedAround(n) \/ ~LC!Is("govern")
    BY <1>2 DEF LC!StepAside
  <2>2. QED BY <1>1, <1>2, <2>1 DEF LC!StepAside
<1>3. ASSUME NEW n \in LC!Nodes, LC!Observe(n) \/ LC!Allowed(n) PROVE ChainPermitInv'
  <2>1. PICK l \in {"body", "inner"} : LC!Goto(n, l) /\ LC!Mark(n) /\ (l = "inner" => LC!Is("async"))
    BY <1>3 DEF LC!Observe, LC!Allowed, LC!EnterBody
  <2>2. /\ at[n] = "called" /\ UNCHANGED <<setup, what, parent>> /\ permitted \subseteq permitted'
        /\ permitted' \subseteq permitted \cup {n}
        /\ LC!Is("govern") => n \in permitted'
        /\ \A m \in LC!Nodes \ {n} : checks'[m] = checks[m]
        /\ checks' \in [LC!Nodes -> 0..1]
    BY <1>3 DEF LC!Observe, LC!Allowed
  <2>3. LC!Is("govern") => what[n] \in AllowedAround(n)'
    BY <2>2 DEF AllowedAround, LC!Enclosing
  <2>4. /\ \A m \in LC!Nodes \ {n} : marker'[m] = marker[m] /\ at'[m] = at[m]
        /\ marker'[n] \in {marker[n], what[n]} /\ at'[n] = l
        /\ l = "inner" => marker'[n] = what[n]
        /\ DOMAIN marker' = LC!Nodes /\ DOMAIN at' = LC!Nodes
    BY <2>1 DEF LC!Mark
  <2>5. QED BY <1>1, <2>2, <2>3, <2>4
<1>4. ASSUME NEW n \in LC!Nodes, LC!Denied(n) \/ LC!Failed(n) PROVE ChainPermitInv'
  BY <1>1, <1>4 DEF LC!Denied, LC!Failed
<1>5. ASSUME NEW n \in LC!Nodes, LC!Inner(n) PROVE ChainPermitInv'
  BY <1>1, <1>5 DEF LC!Inner
<1>6. ASSUME NEW n \in LC!Nodes, NEW l \in {"over", "dropped"}, LC!Leave(n, l)
      PROVE  ChainPermitInv'
  BY <1>1, <1>6 DEF LC!Leave
<1>7. ASSUME NEW n \in LC!Nodes, LC!End(n) PROVE ChainPermitInv'
  BY <1>1, <1>7 DEF LC!End
<1>8. CASE LC!Rest \/ UNCHANGED langchain
  BY <1>1, <1>8 DEF LC!Rest, LC!lcVars, LC!lcTree, langchain
<1>9. QED
  BY ChainPermitStarts, <1>2, <1>3, <1>4, <1>5, <1>6, <1>7, <1>8
     DEF LC!LCNext, LC!BodyEnds, LC!Cancelled

LEMMA ChainPermitAlways == AgentSpec => []ChainPermitInv
<1>1. AgentInit => ChainPermitInv
  <2> SUFFICES ASSUME AgentInit PROVE ChainPermitInv
    OBVIOUS
  <2>1. QED BY DEF AgentInit, LC!LCInit, ChainPermitInv
<1>2. ChainPermitInv /\ [AgentNext]_agentVars => ChainPermitInv'
  BY ChainPermitKept
     DEF AgentNext, Calls, LangChain, GoogleAdk, ModelCalls, WrappedCalls, agentVars
<1>3. QED BY <1>1, <1>2, PTL DEF AgentSpec

\* However the agent is built: guard() runs a tool only on an ALLOW, or unasked
\* where it fails open; a wrapped LangChain tool only if it, or a call of the
\* same tool around it, was allowed, and no call is checked twice.
THEOREM ToolsArePermitted == AgentSpec => ToolsPermitted
<1>1. ChainPermitInv => LC!LCPermitted
  BY DEF ChainPermitInv, AllowedAround, LC!LCPermitted
<1>2. QED BY <1>1, ChainPermitAlways, GuardPermits, PTL DEF ToolsPermitted

-----------------------------------------------------------------------------
(* Spans *)

\* guard(): an error that is stored while a call lasts has struck it, and a
\* second submission that is refused as well has met the second one.
CallSpansInv ==
  /\ DOMAIN recorded = Callers /\ struck \in [Callers -> 0..2]
  /\ \A c \in Callers :
       /\ pc[c] \in {"checking", "tool", "record"} /\ lastError => struck[c] >= 1
       /\ pc[c] = "again" => struck[c] >= 1 /\ (lastError => struck[c] = 2)
       /\ pc[c] \in {"leave", "end"} /\ (ran[c] # "none" \/ due[c] = "denied")
            => recorded[c] \/ struck[c] = 2

LEMMA CallSpansKept == CallsInv /\ CallSpansInv /\ [GuardNext]_vars => CallSpansInv'
<1> SUFFICES ASSUME CallsInv, CallSpansInv, [GuardNext]_vars PROVE CallSpansInv'
  OBVIOUS
<1> USE DEF CallsInv, CallSpansInv, runVars, endVars, spanVars, Goto, Set, Accepted, Raised, CutOff
<1>1. ASSUME NEW c \in Callers, Blocks(c) PROVE CallSpansInv'
  BY <1>1 DEF Blocks, EnterRun, EnterRaises, LeaveRun
<1>2. ASSUME NEW c \in Callers, Call(c) \/ CallRaises(c) PROVE CallSpansInv'
  BY <1>2 DEF Call, CallRaises
<1>3. ASSUME NEW c \in Callers, Before(c) PROVE CallSpansInv'
  BY <1>3 DEF Before, LetIn, Refused, Check, Decide
<1>4. ASSUME NEW c \in Callers, RunTool(c) PROVE CallSpansInv'
  BY <1>4 DEF RunTool
<1>5. ASSUME NEW c \in Callers, Record(c) PROVE CallSpansInv'
  BY <1>5 DEF Record
<1>6. ASSUME NEW c \in Callers, RecordAgain(c) PROVE CallSpansInv'
  BY <1>6 DEF RecordAgain
<1>7. ASSUME NEW c \in Callers, LeaveCall(c) PROVE CallSpansInv'
  BY <1>7 DEF LeaveCall, Over
<1>8. ASSUME NEW c \in Callers, EndImplicit(c) PROVE CallSpansInv'
  BY <1>8 DEF EndImplicit, Over
<1>9. CASE StoreError
  BY <1>9 DEF StoreError, LetInSince
<1>10. CASE TakenElsewhere \/ UNCHANGED vars
  BY <1>10 DEF TakenElsewhere, vars
<1>11. QED
  BY <1>1, <1>2, <1>3, <1>4, <1>5, <1>6, <1>7, <1>8, <1>9, <1>10 DEF GuardNext, After

\* LangChain: until a node is over only a denial has reported it; from then on
\* a tool call that the handler knows of is in emitted exactly if the wrapper
\* has reported it, or lost that report.
SpanLost(n) == <<n, "span">> \in lost
ChainSpansInv ==
  /\ DOMAIN what = LC!Nodes /\ spans \in [LC!Nodes -> Nat] /\ emitted \subseteq calls
  /\ \A n \in LC!Nodes :
       /\ at[n] \in {"called", "inner"} => what[n] \in Wrapped
       /\ LC!Is("attached") /\ what[n] \in Tools /\ at[n] \in {"called", "inner", "body", "over"}
            => n \in calls
       /\ at[n] \notin {"over", "done", "dropped"} =>
            spans[n] = 0 /\ n \notin emitted /\ ~SpanLost(n)
       /\ at[n] = "over" /\ LC!Is("attached") =>
            IF n \in emitted THEN spans[n] = IF SpanLost(n) THEN 0 ELSE 1
            ELSE spans[n] = 0 /\ ~SpanLost(n)
       /\ LC!LCOneSpan

\* A submission counts, or loses, the span it is due, and nothing else.
LEMMA SpanSubmitted ==
  ASSUME NEW n \in LC!Nodes, NEW events, LC!Submit(n, events), spans \in [LC!Nodes -> Nat]
  PROVE  /\ spans' \in [LC!Nodes -> Nat]
         /\ \A m \in LC!Nodes \ {n} : spans'[m] = spans[m] /\ (SpanLost(m)' <=> SpanLost(m))
         /\ "span" \notin events => spans'[n] = spans[n] /\ (SpanLost(n)' <=> SpanLost(n))
         /\ "span" \in events /\ spans[n] = 0 /\ ~SpanLost(n) =>
              spans'[n] = IF SpanLost(n)' THEN 0 ELSE 1
<1>1. PICK sent_ \in SUBSET events :
        /\ lost' = lost \cup ({n} \X (events \ sent_))
        /\ IF "span" \in sent_
           THEN spans' = [spans EXCEPT ![n] = IF @ < 2 THEN @ + 1 ELSE 2]
           ELSE spans' = spans
  BY DEF LC!Submit
<1>2. \A m \in LC!Nodes :
        SpanLost(m)' <=> SpanLost(m) \/ (m = n /\ "span" \in events \ sent_)
  BY <1>1 DEF SpanLost
<1>3. spans' \in [LC!Nodes -> Nat] /\ \A m \in LC!Nodes \ {n} : spans'[m] = spans[m]
  BY <1>1
<1>4. "span" \notin sent_ => spans'[n] = spans[n]
  BY <1>1
<1>5. "span" \in sent_ /\ spans[n] = 0 => spans'[n] = 1
  BY <1>1
<1>6. \A m \in LC!Nodes \ {n} : (SpanLost(m)' <=> SpanLost(m))
  BY <1>2 DEF SpanLost
<1>7. "span" \notin events => (SpanLost(n)' <=> SpanLost(n))
  BY <1>2 DEF SpanLost
<1>8. QED BY <1>1, <1>2, <1>3, <1>4, <1>5, <1>6, <1>7

LEMMA ChainSpansKept == LangChainInv /\ ChainSpansInv /\ [LC!LCNext]_langchain => ChainSpansInv'
<1> SUFFICES ASSUME LangChainInv, ChainSpansInv, [LC!LCNext]_langchain PROVE ChainSpansInv'
  OBVIOUS
<1> USE FrameworksAssumption
    DEF LangChainInv, ChainSpansInv, LC!LCOneSpan, LC!Is, LC!lcRule, LC!lcTables, LC!lcSeen, LC!Goto
<1>0. \A n \in LC!Nodes : (<<n, "span">> \in lost <=> SpanLost(n)) /\ (<<n, "span">> \in lost' <=> SpanLost(n)')
  BY DEF SpanLost
<1>1. ASSUME NEW n \in LC!Nodes, LC!Start(n) PROVE ChainSpansInv'
  <2>1. PICK p, w : /\ what' = [what EXCEPT ![n] = w]
                    /\ \/ /\ IF LC!Is("attached") THEN LC!Register(n, p, w)
                                                  ELSE UNCHANGED <<LC!lcTables, LC!lcSeen>>
                          /\ LC!Goto(n, IF w \in Wrapped THEN "called" ELSE "body")
                       \/ /\ LC!Goto(n, "refused")
                          /\ UNCHANGED <<LC!lcTables, LC!lcSeen>>
    BY <1>1 DEF LC!Start
  <2>2. /\ at[n] = "unborn" /\ UNCHANGED <<setup, emitted>> /\ calls \subseteq calls'
    BY <1>1 DEF LC!Start, LC!Register
  <2>3. /\ spans' \in [LC!Nodes -> Nat]
        /\ \A m \in LC!Nodes : spans'[m] = spans[m] /\ (SpanLost(m)' <=> SpanLost(m))
    <3>1. CASE UNCHANGED LC!lcSeen
      BY <3>1 DEF SpanLost
    <3>2. CASE LC!Submit(n, {"open"})
      BY <3>2, SpanSubmitted
    <3>3. QED BY <2>1, <3>1, <3>2 DEF LC!Register
  <2>4. \/ LC!Goto(n, "refused")
        \/ /\ LC!Goto(n, IF w \in Wrapped THEN "called" ELSE "body")
           /\ LC!Is("attached") /\ w \in Tools => n \in calls'
    BY <2>1 DEF LC!Register
  <2>5. ASSUME NEW m \in LC!Nodes \ {n}
        PROVE  what'[m] = what[m] /\ at'[m] = at[m] /\ (m \in calls => m \in calls')
    BY <2>1, <2>2, <2>4
  <2>6. /\ what' = [what EXCEPT ![n] = w] /\ what'[n] = w
        /\ at'[n] \in {"called", "body", "refused"} /\ (at'[n] = "called" => w \in Wrapped)
        /\ LC!Is("attached") /\ w \in Tools /\ at'[n] # "refused" => n \in calls'
    BY <2>1, <2>4
  <2> HIDE DEF LC!Goto
  <2>7. QED BY <1>0, <2>2, <2>3, <2>5, <2>6
<1>2. ASSUME NEW n \in LC!Nodes, LC!StepAside(n) \/ LC!Failed(n) \/ LC!Inner(n)
      PROVE  ChainSpansInv'
  BY <1>2 DEF LC!StepAside, LC!Failed, LC!Inner, SpanLost
<1>3. ASSUME NEW n \in LC!Nodes, LC!Observe(n) \/ LC!Allowed(n) PROVE ChainSpansInv'
  <2>1. PICK l \in {"body", "inner"} : LC!Goto(n, l)
    BY <1>3 DEF LC!Observe, LC!Allowed, LC!EnterBody
  <2>2. QED BY <1>3, <2>1 DEF LC!Observe, LC!Allowed, SpanLost
<1>4. ASSUME NEW n \in LC!Nodes, at[n] \in {"called", "body"}, what[n] \in Wrapped,
             NEW l \in {"over", "dropped"}, LC!Goto(n, l), LC!Submit(n, {"span"}), LC!MarkEmitted(n),
             UNCHANGED <<setup, what, calls>>
      PROVE  ChainSpansInv'
  <2>1. spans[n] = 0 /\ ~SpanLost(n)
    BY <1>4
  <2>2. /\ spans' \in [LC!Nodes -> Nat] /\ spans'[n] = IF SpanLost(n)' THEN 0 ELSE 1
        /\ \A m \in LC!Nodes \ {n} : spans'[m] = spans[m] /\ (SpanLost(m)' <=> SpanLost(m))
    BY <1>4, <2>1, SpanSubmitted
  <2>3. /\ emitted' \subseteq emitted \cup {n}
        /\ LC!Is("attached") => n \in emitted'
        /\ emitted \subseteq emitted' /\ emitted' \subseteq calls
    BY <1>4 DEF LC!MarkEmitted
  <2>4. at'[n] = l /\ \A m \in LC!Nodes \ {n} : at'[m] = at[m]
    BY <1>4
  <2>5. LC!LCOneSpan'
    <3>1. LC!LCOneSpan
      OBVIOUS
    <3>2. ASSUME NEW m \in LC!Nodes \ {n}
          PROVE  /\ at[m] = "done" /\ LC!Is("attached") /\ what[m] # "chain" =>
                      spans'[m] = IF SpanLost(m)' THEN 0 ELSE 1
                 /\ spans'[m] <= 1
      BY <1>0, <2>2, <3>1
    <3>3. at'[n] # "done" /\ spans'[n] <= 1
      BY <2>2, <2>4
    <3>4. QED BY <1>0, <1>4, <2>4, <3>2, <3>3
  <2>6. \A m \in LC!Nodes \ {n} : m \in emitted' <=> m \in emitted
    BY <2>3
  <2> HIDE DEF LC!LCOneSpan, LC!Goto
  <2>7. QED BY <1>4, <2>2, <2>3, <2>4, <2>5, <2>6
<1>5. ASSUME NEW n \in LC!Nodes, LC!Denied(n) PROVE ChainSpansInv'
  BY <1>4, <1>5 DEF LC!Denied
<1>6. ASSUME NEW n \in LC!Nodes, NEW l \in {"over", "dropped"}, LC!Leave(n, l)
      PROVE  ChainSpansInv'
  <2>1. CASE what[n] \in Wrapped /\ n \notin aside
    BY <1>4, <1>6, <2>1 DEF LC!Leave
  <2>2. CASE ~(what[n] \in Wrapped /\ n \notin aside)
    BY <1>6, <2>2 DEF LC!Leave, SpanLost
  <2>3. QED BY <2>1, <2>2
<1>7. ASSUME NEW n \in LC!Nodes, LC!End(n) PROVE ChainSpansInv'
  <2>1. at[n] = "over" /\ at' = [at EXCEPT ![n] = "done"] /\ UNCHANGED <<setup, what>>
    BY <1>7 DEF LC!End
  <2>2. CASE ~LC!Is("attached")
    BY <1>7, <2>1, <2>2 DEF LC!End, SpanLost
  <2>3. CASE LC!Is("attached")
    <3> DEFINE events == {e \in {"span", "close"} : IF e = "span" THEN LC!Untold(n) ELSE n \in owned}
    <3>1. /\ calls' = calls \ {n} /\ emitted' = emitted \ {n}
          /\ LC!Submit(n, events)
      BY <1>7, <2>3 DEF LC!End, LC!Ended
    <3>2. "span" \in events <=> what[n] # "chain" /\ n \notin emitted
      BY DEF LC!Untold
    <3> HIDE DEF events
    <3>3. /\ spans' \in [LC!Nodes -> Nat]
          /\ \A m \in LC!Nodes \ {n} : spans'[m] = spans[m] /\ (SpanLost(m)' <=> SpanLost(m))
          /\ what[n] # "chain" => spans'[n] = IF SpanLost(n)' THEN 0 ELSE 1
          /\ spans'[n] <= 1
      BY <2>1, <2>3, <3>1, <3>2, SpanSubmitted
    <3>4. QED BY <1>0, <2>1, <2>3, <3>1, <3>3
  <2>4. QED BY <2>2, <2>3
<1>8. CASE LC!Rest \/ UNCHANGED langchain
  BY <1>8 DEF LC!Rest, LC!lcVars, LC!lcTree, langchain, SpanLost
<1>9. QED
  BY <1>1, <1>2, <1>3, <1>5, <1>6, <1>7, <1>8 DEF LC!LCNext, LC!BodyEnds, LC!Cancelled

\* ADK: a model call that met no other is the one filed; a tool call collects
\* its one status at its end, and a token only where the adapter governs.
AdkSpansInv ==
  /\ Adk!AdkOwnSpan
  /\ DOMAIN tool = ToolCalls /\ DOMAIN toolSpans = ToolCalls /\ DOMAIN caller = ToolCalls
  /\ \A k \in DOMAIN pendingTool :
       /\ k \in ToolCalls /\ tool[k] \in {"running", "cancelled", "done"}
       /\ pendingTool[k] => govern
  /\ \A k \in ToolCalls :
       /\ caller[k] # Nowhere => tool[k] \in {"running", "short"}
       /\ tool[k] \in {"new", "running", "cancelled"} => toolSpans[k] = {} /\ k \notin reported
       /\ tool[k] = "short" => govern /\ toolSpans[k] \subseteq {"denied"} /\ k \notin reported
       /\ tool[k] = "done" /\ toolSpans[k] = {} => govern \/ k \in missed
       /\ "denied" \notin toolSpans[k] => toolSpans[k] \in {{}, {"completed"}, {"error"}}
       /\ k \in reported =>
            /\ govern
            /\ toolSpans[k] \in {{"completed"}, {"error"}} \/ (k \in missed /\ toolSpans[k] = {})

LEMMA AdkSpansKept == AdkInv /\ AdkSpansInv /\ [Adk!AdkNext]_adk => AdkSpansInv'
<1> SUFFICES ASSUME AdkInv, AdkSpansInv, [Adk!AdkNext]_adk PROVE AdkSpansInv'
  OBVIOUS
<1> USE DEF AdkInv, AdkSpansInv, Adk!AdkOwnSpan, Adk!adkModel, Adk!adkRuns, Adk!adkTools
<1>1. CASE UNCHANGED <<serves, govern, Adk!adkModel, Adk!adkTools, missed>>
  BY <1>1
<1>2. ASSUME NEW a \in Agents, Adk!Join(a) \/ Adk!Part(a) PROVE AdkSpansInv'
  <2>1. a \notin asks /\ UNCHANGED <<govern, Adk!adkModel, Adk!adkTools, missed>>
    BY <1>2 DEF Adk!Join, Adk!Part
  <2>2. \A b \in Agents \ {a} : serves'[b] = serves[b]
    BY <1>2 DEF Adk!Join, Adk!Part
  <2>3. Adk!AdkOwnSpan'
    BY <2>1, <2>2
  <2>4. QED BY <2>1, <2>3
<1>3. ASSUME NEW a \in Agents, Adk!Cancel(a) PROVE AdkSpansInv'
  <2>1. Adk!AdkOwnSpan'
    BY <1>3 DEF Adk!Cancel
  <2>2. /\ DOMAIN tool' = ToolCalls
        /\ UNCHANGED <<govern, pendingTool, toolSpans, reported, missed>>
        /\ DOMAIN caller' = ToolCalls
        /\ \A k \in ToolCalls :
             \/ tool'[k] = tool[k] /\ caller'[k] = caller[k]
             \/ tool[k] = "running" /\ tool'[k] = "cancelled" /\ caller'[k] = Nowhere
             \/ tool[k] = "short" /\ tool'[k] = "done" /\ caller'[k] = Nowhere
    BY <1>3, FrameworksAssumption DEF Adk!Cancel, Adk!Dispatched
  <2>3. \A k \in DOMAIN pendingTool : tool'[k] \in {"running", "cancelled", "done"}
    BY <2>2
  <2>4. QED BY <2>1, <2>2, <2>3
<1>4. ASSUME NEW a \in Agents, Adk!BeforeModel(a) PROVE AdkSpansInv'
  <2> DEFINE i == serves[a]
             met == {b \in asks : serves[b] = i}
  <2>1. /\ a \notin asks /\ asks' = asks \cup {a}
        /\ mixed' = mixed \cup met \cup (IF met = {} THEN {} ELSE {a})
        /\ UNCHANGED <<serves, govern, answered, Adk!adkTools, missed>>
    BY <1>4 DEF Adk!BeforeModel
  <2>2. /\ DOMAIN pendingLlm' = DOMAIN pendingLlm \cup {i}
        /\ pendingLlm'[i] = a
        /\ \A j \in DOMAIN pendingLlm \ {i} : pendingLlm'[j] = pendingLlm[j]
    BY <1>4 DEF Adk!BeforeModel, Adk!Filed
  <2>3. Adk!AdkOwnSpan'
    BY <2>1, <2>2
  <2>4. QED BY <2>1, <2>3
<1>5. ASSUME NEW a \in Agents, Adk!AfterModel(a) \/ Adk!PartialAnswer(a) PROVE AdkSpansInv'
  <2> DEFINE i == serves[a]
  <2>1. /\ a \in asks /\ UNCHANGED <<serves, mixed, govern, Adk!adkTools, missed>>
        /\ \/ asks' = asks \ {a} /\ answered' = answered \ {a}
           \/ asks' = asks /\ answered' = answered \cup {a}
    BY <1>5 DEF Adk!AfterModel, Adk!PartialAnswer, Adk!Answer
  <2>2. /\ DOMAIN pendingLlm' = DOMAIN pendingLlm \ {i}
        /\ \A j \in DOMAIN pendingLlm' : pendingLlm'[j] = pendingLlm[j]
    BY <1>5 DEF Adk!AfterModel, Adk!PartialAnswer, Adk!Answer, Adk!Popped, Adk!Restrict
  <2>3. Adk!AdkOwnSpan'
    BY <2>1, <2>2
  <2>4. QED BY <2>1, <2>3
<1>6. ASSUME NEW k \in ToolCalls, NEW a \in Agents, Adk!ToolRuns(k, a) PROVE AdkSpansInv'
  <2>1. /\ tool[k] = "new" /\ tool' = [tool EXCEPT ![k] = "running"]
        /\ caller' = [caller EXCEPT ![k] = a]
        /\ UNCHANGED <<serves, govern, Adk!adkModel, toolSpans, reported, missed>>
    BY <1>6 DEF Adk!ToolRuns, Adk!Dispatch
  <2>2. PICK token : pendingTool' = Adk!Filed(pendingTool, k, token) /\ (token => govern)
    BY <1>6 DEF Adk!ToolRuns
  <2>3. /\ DOMAIN pendingTool' = DOMAIN pendingTool \cup {k}
        /\ pendingTool'[k] => govern
        /\ \A j \in DOMAIN pendingTool \ {k} : pendingTool'[j] = pendingTool[j]
    BY <2>2, Zenon DEF Adk!Filed
  <2>4. QED BY <2>1, <2>3
<1>7. ASSUME NEW k \in ToolCalls, NEW a \in Agents, Adk!ToolShort(k, a) PROVE AdkSpansInv'
  BY <1>7 DEF Adk!ToolShort, Adk!Dispatch, Adk!Report
<1>8. ASSUME NEW k \in ToolCalls, Adk!AfterTool(k) PROVE AdkSpansInv'
  <2>1. PICK status \in {"completed", "error"} : Adk!Report(k, status)
    BY <1>8 DEF Adk!AfterTool
  <2>2. /\ tool[k] \in {"running", "short"} /\ tool' = [tool EXCEPT ![k] = "done"]
        /\ reported' = IF Adk!HasToken(k) THEN reported \cup {k} ELSE reported
        /\ caller' = [caller EXCEPT ![k] = Nowhere]
        /\ UNCHANGED <<serves, govern, Adk!adkModel>>
    BY <1>8 DEF Adk!AfterTool
  <2>3. /\ DOMAIN pendingTool' = DOMAIN pendingTool \ {k}
        /\ \A j \in DOMAIN pendingTool' : pendingTool'[j] = pendingTool[j]
    BY <1>8 DEF Adk!AfterTool, Adk!Popped, Adk!Restrict
  <2>4. Adk!HasToken(k) => govern /\ tool[k] = "running"
    BY <2>2 DEF Adk!HasToken
  <2>5. \/ toolSpans'[k] = toolSpans[k] \cup {status}
        \/ toolSpans'[k] = toolSpans[k] /\ k \in missed'
    BY <2>1 DEF Adk!Report
  <2>6. /\ DOMAIN toolSpans' = ToolCalls /\ missed \subseteq missed'
        /\ \A j \in ToolCalls \ {k} : toolSpans'[j] = toolSpans[j]
    BY <2>1 DEF Adk!Report
  <2>7. QED BY <2>2, <2>3, <2>4, <2>5, <2>6
<1>9. ASSUME NEW k \in ToolCalls, Adk!NoAfterTool(k) PROVE AdkSpansInv'
  BY <1>9 DEF Adk!NoAfterTool
<1>10. QED
  BY <1>1, <1>2, <1>3, <1>4, <1>5, <1>6, <1>7, <1>8, <1>9
     DEF Adk!AdkNext, Adk!AdkRest, Adk!BeforeRun, Adk!AfterRun, Adk!adkVars, adk

\* The adapters' modules count as this one does.
LEMMA SameCount == \A S : Adk!Cardinality(S) = Cardinality(S) /\ WT!Cardinality(S) = Cardinality(S)
BY DEF Adk!Cardinality, WT!Cardinality, Cardinality

\* A set of the three events has as many members as one counts.
LEMMA EventsCounted ==
  ASSUME NEW T \in SUBSET {"open", "span", "close"}
  PROVE  Cardinality(T) = (IF "open" \in T THEN 1 ELSE 0) + (IF "span" \in T THEN 1 ELSE 0)
                            + (IF "close" \in T THEN 1 ELSE 0)
<1> DEFINE T1 == T \cap {"open"}
           T2 == T \cap {"open", "span"}
<1>1. IsFiniteSet(T1) /\ Cardinality(T1) = IF "open" \in T THEN 1 ELSE 0
  <2>1. T1 = IF "open" \in T THEN {"open"} ELSE {}
    OBVIOUS
  <2> HIDE DEF T1
  <2>2. CASE "open" \in T
    BY <2>1, <2>2, FS_Singleton
  <2>3. CASE "open" \notin T
    BY <2>1, <2>3, FS_EmptySet
  <2>4. QED BY <2>2, <2>3
<1>2. IsFiniteSet(T2) /\ Cardinality(T2) = Cardinality(T1) + IF "span" \in T THEN 1 ELSE 0
  <2>1. T2 = (IF "span" \in T THEN T1 \cup {"span"} ELSE T1) /\ "span" \notin T1
    OBVIOUS
  <2> HIDE DEF T1, T2
  <2>2. CASE "span" \in T
    BY <1>1, <2>1, <2>2, FS_AddElement
  <2>3. CASE "span" \notin T
    BY <1>1, <2>1, <2>3
  <2>4. QED BY <2>2, <2>3
<1>3. Cardinality(T) = Cardinality(T2) + IF "close" \in T THEN 1 ELSE 0
  <2>1. T = (IF "close" \in T THEN T2 \cup {"close"} ELSE T2) /\ "close" \notin T2
    OBVIOUS
  <2>2. Cardinality(T2) \in Nat
    BY <1>1, <1>2
  <2> HIDE DEF T1, T2
  <2>3. CASE "close" \in T
    BY <1>2, <2>1, <2>3, FS_AddElement
  <2>4. CASE "close" \notin T
    BY <2>1, <2>2, <2>4
  <2>5. QED BY <2>3, <2>4
<1> HIDE DEF T1, T2
<1>4. QED BY <1>1, <1>2, <1>3

\* Wrapped calls: so far as many errors were swallowed as events are missing.
Lacks(w, event) == IF event \in sent[w] THEN 0 ELSE 1
WrappedSpansInv ==
  \A w \in Wrappers :
    /\ sent[w] \subseteq {"open", "span", "close"} /\ (inRun[w] => sent[w] \subseteq {"span"})
    /\ step[w] \in {"check", "body", "open"} => sent[w] = {} /\ eaten[w] = 0
    /\ step[w] = "span" =>
         /\ sent[w] \subseteq {"open"}
         /\ eaten[w] = IF inRun[w] THEN 0 ELSE Lacks(w, "open")
    /\ step[w] = "close" =>
         /\ ~inRun[w] /\ sent[w] \subseteq {"open", "span"}
         /\ eaten[w] = Lacks(w, "open") + Lacks(w, "span")
    /\ (step[w] = "leave" \/ WT!Back(w)) /\ WT!Reports(w) =>
         eaten[w] = IF inRun[w] THEN Lacks(w, "span")
                    ELSE Lacks(w, "open") + Lacks(w, "span") + Lacks(w, "close")

LEMMA WrappedSpansKept == WrappedInv /\ WrappedSpansInv /\ [WT!WTNext]_wrappers => WrappedSpansInv'
<1> SUFFICES ASSUME WrappedInv, WrappedSpansInv, [WT!WTNext]_wrappers PROVE WrappedSpansInv'
  OBVIOUS
<1> USE DEF WrappedInv, WrappedSpansInv, Lacks, WT!Back, WT!Reports, WT!Goto
<1>1. ASSUME NEW w \in Wrappers, WT!Call(w) PROVE WrappedSpansInv'
  BY <1>1 DEF WT!Call
<1>2. ASSUME NEW w \in Wrappers, WT!Refused(w) \/ WT!Allowed(w) \/ WT!NoResponse(w)
      PROVE  WrappedSpansInv'
  BY <1>2 DEF WT!Refused, WT!Allowed, WT!NoResponse
<1>3. ASSUME NEW w \in Wrappers, WT!Denied(w) \/ WT!Body(w) PROVE WrappedSpansInv'
  BY <1>3 DEF WT!Denied, WT!Body, WT!Report
<1>4. ASSUME NEW w \in Wrappers, WT!Open(w) PROVE WrappedSpansInv'
  BY <1>4 DEF WT!Open, WT!Event
<1>5. ASSUME NEW w \in Wrappers, WT!Span(w) PROVE WrappedSpansInv'
  BY <1>5 DEF WT!Span, WT!Event
<1>6. ASSUME NEW w \in Wrappers, WT!Close(w) PROVE WrappedSpansInv'
  BY <1>6 DEF WT!Close, WT!Event
<1>7. ASSUME NEW w \in Wrappers, WT!Leave(w) PROVE WrappedSpansInv'
  BY <1>7 DEF WT!Leave
<1>8. CASE WT!FlushFails \/ WT!TakenElsewhere \/ UNCHANGED wrappers
  BY <1>8 DEF WT!FlushFails, WT!TakenElsewhere, wrappers
<1>9. QED BY <1>1, <1>2, <1>3, <1>4, <1>5, <1>6, <1>7, <1>8 DEF WT!WTNext

SpansInv == CallSpansInv /\ ChainSpansInv /\ AdkSpansInv /\ WrappedSpansInv

LEMMA SpansAlways == AgentSpec => []SpansInv
<1>1. AgentInit => SpansInv
  <2> SUFFICES ASSUME AgentInit PROVE SpansInv
    OBVIOUS
  <2> USE DEF AgentInit
  <2>1. CallSpansInv
    BY DEF GuardInit, CallSpansInv
  <2>2. ChainSpansInv
    BY DEF LC!LCInit, ChainSpansInv, SpanLost, LC!LCOneSpan
  <2>3. AdkSpansInv
    BY DEF Adk!AdkInit, AdkSpansInv, Adk!AdkOwnSpan
  <2>4. WrappedSpansInv
    BY DEF WT!WTInit, WrappedSpansInv, WT!Back
  <2>5. QED BY <2>1, <2>2, <2>3, <2>4 DEF SpansInv
<1>2. AgentInv /\ SpansInv /\ [AgentNext]_agentVars => SpansInv'
  <2> SUFFICES ASSUME AgentInv, SpansInv, [AgentNext]_agentVars PROVE SpansInv'
    OBVIOUS
  <2>1. /\ [GuardNext]_vars /\ [LC!LCNext]_langchain /\ [Adk!AdkNext]_adk
        /\ [WT!WTNext]_wrappers
    BY DEF AgentNext, Calls, LangChain, GoogleAdk, ModelCalls, WrappedCalls, agentVars
  <2>2. QED
    BY <2>1, CallSpansKept, ChainSpansKept, AdkSpansKept, WrappedSpansKept
       DEF AgentInv, SpansInv
<1>3. QED BY <1>1, <1>2, AgentKept, PTL DEF AgentSpec

\* No model or tool call has two spans, or another's: whoever reports it, and in
\* whatever order callbacks come.  What is missing was lost to stored errors:
\* two at once in guard(), the one that swallowed it elsewhere.
THEOREM SpansSurvive == AgentSpec => []SpansKept
<1>1. AgentInv /\ SpansInv => SpansKept
  <2> SUFFICES ASSUME AgentInv, SpansInv PROVE SpansKept
    OBVIOUS
  <2>1. OneErrorCostsNoSpan
    BY DEF SpansInv, CallSpansInv, OneErrorCostsNoSpan
  <2>2. LC!LCOneSpan
    BY DEF SpansInv, ChainSpansInv, LC!LCOneSpan
  <2>3. Adk!AdkOwnSpan
    BY DEF SpansInv, AdkSpansInv
  <2>4. Adk!AdkToolSpans
    <3>1. ASSUME NEW k \in ToolCalls, "denied" \notin toolSpans[k]
          PROVE  Cardinality(toolSpans[k]) <= 1
      <4>1. toolSpans[k] \in {{}, {"completed"}, {"error"}}
        BY <3>1 DEF SpansInv, AdkSpansInv
      <4>2. /\ Cardinality({}) = 0
            /\ Cardinality({"completed"}) = 1 /\ Cardinality({"error"}) = 1
        BY FS_EmptySet, FS_Singleton
      <4>3. QED BY <4>1, <4>2
    <3>2. QED BY <3>1, SameCount DEF SpansInv, AdkSpansInv, Adk!AdkToolSpans
  <2>5. WT!WTOneEventPerError
    <3> DEFINE Wanted(w) == IF inRun[w] THEN {"span"} ELSE {"open", "span", "close"}
               Lost(w) == Wanted(w) \ sent[w]
    <3>1. ASSUME NEW w \in Wrappers, WT!Back(w), WT!Reports(w)
          PROVE  Cardinality(Lost(w)) = eaten[w] /\ sent[w] \subseteq Wanted(w)
      <4>1. Lost(w) \in SUBSET {"open", "span", "close"} /\ sent[w] \subseteq Wanted(w)
        BY <3>1 DEF SpansInv, WrappedSpansInv, WT!Back
      <4>2. eaten[w] = (IF "open" \in Lost(w) THEN 1 ELSE 0)
                        + (IF "span" \in Lost(w) THEN 1 ELSE 0)
                        + (IF "close" \in Lost(w) THEN 1 ELSE 0)
        BY <3>1 DEF SpansInv, WrappedSpansInv, Lacks
      <4> HIDE DEF Lost, Wanted
      <4>3. QED BY <4>1, <4>2, EventsCounted
    <3>2. QED BY <3>1, SameCount DEF WT!WTOneEventPerError
  <2>6. QED BY <2>1, <2>2, <2>3, <2>4, <2>5 DEF SpansKept
<1>2. QED BY <1>1, AgentKept, SpansAlways, PTL

-----------------------------------------------------------------------------
(* Types *)

\* The types of guard() and run(): what is true or false, and the rest.
Switches ==
  /\ lastError \in BOOLEAN /\ inBlock \in [Callers -> BOOLEAN]
  /\ implicit \in [Callers -> BOOLEAN] /\ recorded \in [Callers -> BOOLEAN]
  /\ cut \in [Callers -> BOOLEAN]
CallTypes ==
  /\ stage \in [Callers -> Outcomes \cup {"idle", "asking"}]
  /\ verdict \in [Callers -> {"none", "ALLOW", "DENY", "PENDING"}]
  /\ FailOpenTelemetry => ~lastError
  /\ DOMAIN implicit = Callers
  /\ current \in [Callers -> Contexts] /\ saved \in [Callers -> {"none", "stale"}]
  /\ pc \in [Callers -> Locations]
  /\ due \in [Callers -> Ends] /\ ran \in [Callers -> ToolEnds \cup {"none"}]
  /\ struck \in [Callers -> 0..2]
  /\ \A c \in Callers : /\ pc[c] # "idle" => current[c] # "none"
                        /\ implicit[c] => current[c] = "call"
                        /\ pc[c] # "checking" => stage[c] # "asking"
  /\ \A c \in Callers : pc[c] = "idle" => ~implicit[c]

LEMMA Switched ==
  ASSUME NEW S, NEW f \in [S -> BOOLEAN], NEW x, NEW v \in BOOLEAN
  PROVE  [f EXCEPT ![x] = v] \in [S -> BOOLEAN]
OBVIOUS

LEMMA SwitchesKept == Switches /\ [GuardNext]_vars => Switches'
<1> SUFFICES ASSUME Switches, [GuardNext]_vars PROVE Switches'
  OBVIOUS
<1> USE DEF Switches, runVars, endVars, spanVars, cvars, Accepted, Raised, CutOff
<1>1. ASSUME NEW c \in Callers, EnterRun(c) PROVE Switches'
  BY <1>1, Switched DEF EnterRun
<1>2. ASSUME NEW c \in Callers, EnterRaises(c) \/ CallRaises(c) PROVE Switches'
  BY <1>2, Switched, Zenon DEF EnterRaises, CallRaises
<1>3. ASSUME NEW c \in Callers, LeaveRun(c) PROVE Switches'
  BY <1>3, Switched, Zenon DEF LeaveRun
<1>4. ASSUME NEW c \in Callers, Call(c) PROVE Switches'
  BY <1>4, Switched, Zenon DEF Call
<1>5. ASSUME NEW c \in Callers, Before(c) PROVE Switches'
  BY <1>5, Zenon DEF Before, LetIn, Refused, Check, Decide
<1>6. ASSUME NEW c \in Callers, RunTool(c) PROVE Switches'
  BY <1>6, Zenon DEF RunTool
<1>7. ASSUME NEW c \in Callers, Record(c) \/ RecordAgain(c) PROVE Switches'
  BY <1>7, Switched, Zenon DEF Record, RecordAgain
<1>8. ASSUME NEW c \in Callers, LeaveCall(c) PROVE Switches'
  BY <1>8, Switched, Zenon DEF LeaveCall, Over
<1>9. ASSUME NEW c \in Callers, EndImplicit(c) PROVE Switches'
  BY <1>9, Switched, Zenon DEF EndImplicit, Over
<1>10. CASE StoreError \/ TakenElsewhere \/ UNCHANGED vars
  BY <1>10, Zenon DEF StoreError, TakenElsewhere, vars
<1>11. QED
  BY <1>1, <1>2, <1>3, <1>4, <1>5, <1>6, <1>7, <1>8, <1>9, <1>10 DEF GuardNext, Blocks, After

LEMMA CallTypesKept == CallsInv /\ CallTypes /\ [GuardNext]_vars => CallTypes'
<1> SUFFICES ASSUME CallsInv, CallTypes, [GuardNext]_vars PROVE CallTypes'
  OBVIOUS
<1> USE GuardedRunAssumption
    DEF CallTypes, CallsInv, runVars, endVars, spanVars, cvars, Goto, Set, Accepted, Raised, CutOff,
        Outcomes, Contexts, Ends, ToolEnds, Locations
<1>1. ASSUME NEW c \in Callers, EnterRun(c) PROVE CallTypes'
  BY <1>1 DEF EnterRun
<1>2. ASSUME NEW c \in Callers, EnterRaises(c) PROVE CallTypes'
  BY <1>2 DEF EnterRaises
<1>3. ASSUME NEW c \in Callers, LeaveRun(c) PROVE CallTypes'
  BY <1>3 DEF LeaveRun
<1>4. ASSUME NEW c \in Callers, Call(c) PROVE CallTypes'
  BY <1>4 DEF Call
<1>5. ASSUME NEW c \in Callers, CallRaises(c) PROVE CallTypes'
  BY <1>5 DEF CallRaises
<1>6. ASSUME NEW c \in Callers, LetIn(c) PROVE CallTypes'
  BY <1>6 DEF LetIn, Ask
<1>7. ASSUME NEW c \in Callers, Refused(c) PROVE CallTypes'
  BY <1>7 DEF Refused
<1>8. ASSUME NEW c \in Callers, Check(c) PROVE CallTypes'
  BY <1>8 DEF Check, Render, Leave
<1>9. ASSUME NEW c \in Callers, Decide(c) PROVE CallTypes'
  BY <1>9 DEF Decide
<1>10. ASSUME NEW c \in Callers, RunTool(c) PROVE CallTypes'
  BY <1>10 DEF RunTool
<1>11. ASSUME NEW c \in Callers, Record(c) \/ RecordAgain(c) PROVE CallTypes'
  BY <1>11 DEF Record, RecordAgain
<1>12. ASSUME NEW c \in Callers, LeaveCall(c) PROVE CallTypes'
  BY <1>12 DEF LeaveCall, Over, Return
<1>13. ASSUME NEW c \in Callers, EndImplicit(c) PROVE CallTypes'
  BY <1>13 DEF EndImplicit, Over
<1>14. CASE StoreError
  BY <1>14 DEF StoreError
<1>15. CASE TakenElsewhere \/ UNCHANGED vars
  BY <1>15 DEF TakenElsewhere, vars
<1>16. QED
  BY <1>1, <1>2, <1>3, <1>4, <1>5, <1>6, <1>7, <1>8, <1>9, <1>10, <1>11, <1>12, <1>13,
     <1>14, <1>15 DEF GuardNext, Blocks, Before, After

\* LangChain
LEMMA RootsInRange ==
  ASSUME NEW n \in LC!Nodes, NEW p, LC!LCTypeOK, p \in 0..(n - 1)
  PROVE  LC!RootFor(n, p) \in 0..n
<1>1. CASE p \in DOMAIN rootOf
  <2>1. p \in LC!Nodes /\ rootOf[p] \in 0..p
    BY <1>1 DEF LC!LCTypeOK
  <2>2. QED BY <1>1, <2>1 DEF LC!RootFor, LC!Nodes
<1>2. CASE p \notin DOMAIN rootOf
  BY <1>2 DEF LC!RootFor, LC!Nodes, LC!Ambient
<1>3. QED BY <1>1, <1>2

LEMMA RunsInRange ==
  ASSUME NEW n \in LC!Nodes, LC!LCTypeOK
  PROVE  LC!RunOf(n) \in 0..LC!Own
BY FrameworksAssumption DEF LC!LCTypeOK, LC!RunOf, LC!Own, LC!Nodes, LC!Ambient

LEMMA SpanTypes ==
  ASSUME NEW n \in LC!Nodes, LC!LCTypeOK,
         NEW events \in SUBSET LC!Events, LC!Submit(n, events) \/ UNCHANGED LC!lcSeen
  PROVE  /\ spans' \in [LC!Nodes -> 0..2] /\ landed' \in [LC!Nodes -> SUBSET (0..LC!Own)]
         /\ opened' \subseteq LC!Nodes /\ closed' \subseteq LC!Nodes
         /\ lost' \subseteq LC!Nodes \X LC!Events
<1>1. CASE LC!Submit(n, events)
  <2>1. PICK sent_ \in SUBSET events :
          /\ lost' = lost \cup ({n} \X (events \ sent_))
          /\ IF "span" \in sent_
             THEN /\ spans' = [spans EXCEPT ![n] = IF @ < 2 THEN @ + 1 ELSE 2]
                  /\ landed' = [landed EXCEPT ![n] = @ \cup {LC!RunOf(n)}]
             ELSE UNCHANGED <<spans, landed>>
          /\ opened' = IF "open" \in sent_ THEN opened \cup {n} ELSE opened
          /\ closed' = IF "close" \in sent_ THEN closed \cup {n} ELSE closed
    BY <1>1 DEF LC!Submit
  <2>2. spans' \in [LC!Nodes -> 0..2] /\ landed' \in [LC!Nodes -> SUBSET (0..LC!Own)]
    BY <2>1, RunsInRange DEF LC!LCTypeOK
  <2>3. opened' \subseteq LC!Nodes /\ closed' \subseteq LC!Nodes
    BY <2>1 DEF LC!LCTypeOK
  <2>4. lost' \subseteq LC!Nodes \X LC!Events
    <3>1. {n} \X (events \ sent_) \subseteq LC!Nodes \X LC!Events
      OBVIOUS
    <3>2. QED BY <2>1, <3>1 DEF LC!LCTypeOK
  <2>5. QED BY <2>2, <2>3, <2>4
<1>2. CASE UNCHANGED LC!lcSeen
  BY <1>2 DEF LC!LCTypeOK, LC!lcSeen
<1>3. QED BY <1>1, <1>2

\* Nodes start in turn.
ChainTypes ==
  /\ LC!LCTypeOK
  /\ \A m, n \in LC!Nodes : m < n /\ at[m] = "unborn" => at[n] = "unborn"

LEMMA ChainTypesStart ==
  ASSUME LangChainInv, ChainTypes, NEW n \in LC!Nodes, LC!Start(n)
  PROVE  ChainTypes'
<1> USE FrameworksAssumption DEF ChainTypes
<1>1. PICK p \in LC!AtTop \cup LC!Hosts \cup LC!Stragglers, w \in Tools \cup {"chain", "llm"} :
        /\ parent' = [parent EXCEPT ![n] = p]
        /\ what' = [what EXCEPT ![n] = w]
        /\ marker' = [marker EXCEPT ![n] = IF p = 0 THEN "none" ELSE marker[p]]
        /\ \/ /\ IF LC!Is("attached") THEN LC!Register(n, p, w)
                                      ELSE UNCHANGED <<LC!lcTables, LC!lcSeen>>
              /\ LC!Goto(n, IF w \in Wrapped THEN "called" ELSE "body")
           \/ LC!Goto(n, "refused") /\ UNCHANGED <<LC!lcTables, LC!lcSeen>>
  BY DEF LC!Start
<1>2. /\ at[n] = "unborn" /\ \A m \in 1..(n - 1) : at[m] # "unborn"
      /\ UNCHANGED <<setup, permitted, checks, aside>>
  BY DEF LC!Start
<1>3. p \in 0..(n - 1)
  <2>1. p # 0 => p \in LC!Nodes /\ at[p] # "unborn"
    BY DEF LC!AtTop, LC!Hosts, LC!Stragglers
  <2>2. QED BY <1>2, <2>1 DEF LC!Nodes, LC!LCTypeOK
<1>4. /\ parent' \in [LC!Nodes -> 0..MaxNodes] /\ \A m \in LC!Nodes : parent'[m] < m
      /\ what' \in [LC!Nodes -> Tools \cup {"chain", "llm", "none"}]
      /\ marker' \in [LC!Nodes -> Wrapped \cup {"none"}]
  BY <1>1, <1>3 DEF LC!LCTypeOK, LC!Nodes
<1>5. /\ at' \in [LC!Nodes -> {"called", "inner", "body", "over"} \cup LC!AtRest]
      /\ \A k, m \in LC!Nodes : k < m /\ at'[k] = "unborn" => at'[m] = "unborn"
  <2>1. PICK l \in {"called", "body", "refused"} : at' = [at EXCEPT ![n] = l]
    BY <1>1 DEF LC!Goto
  <2>2. at' \in [LC!Nodes -> {"called", "inner", "body", "over"} \cup LC!AtRest]
    BY <2>1 DEF LC!LCTypeOK, LC!AtRest
  <2>3. \A k, m \in LC!Nodes : k < m /\ at'[k] = "unborn" => at'[m] = "unborn"
    BY <1>2, <2>1 DEF LC!LCTypeOK, LC!Nodes
  <2>4. QED BY <2>2, <2>3
<1>6. CASE UNCHANGED <<LC!lcTables, LC!lcSeen>>
  BY <1>2, <1>4, <1>5, <1>6 DEF LC!LCTypeOK, LC!lcTables, LC!lcSeen
<1>7. CASE LC!Register(n, p, w)
  <2> DEFINE run == LC!RootFor(n, p)
  <2>1. run \in 0..n
    BY <1>3, RootsInRange
  <2>2. /\ DOMAIN rootOf' = DOMAIN rootOf \cup {n} /\ rootOf'[n] = run
        /\ \A m \in DOMAIN rootOf : rootOf'[m] = rootOf[m]
        /\ calls \subseteq calls' /\ calls' \subseteq calls \cup {n}
        /\ emitted' = emitted /\ owned' \subseteq owned \cup {n}
    <3>1. n \notin DOMAIN rootOf
      BY <1>2 DEF LangChainInv
    <3>2. QED BY <1>7, <3>1 DEF LC!Register
  <2> HIDE DEF run
  <2>3. \A m \in DOMAIN rootOf' : rootOf'[m] \in 0..m
    BY <2>1, <2>2 DEF LC!LCTypeOK
  <2>4. LC!Submit(n, {"open"}) \/ UNCHANGED LC!lcSeen
    BY <1>7 DEF LC!Register
  <2>5. /\ spans' \in [LC!Nodes -> 0..2] /\ landed' \in [LC!Nodes -> SUBSET (0..LC!Own)]
        /\ opened' \subseteq LC!Nodes /\ closed' \subseteq LC!Nodes
        /\ lost' \subseteq LC!Nodes \X LC!Events
    BY <2>4, SpanTypes DEF LC!Events
  <2>6. QED BY <1>2, <1>4, <1>5, <2>2, <2>3, <2>5 DEF LC!LCTypeOK
<1>8. QED BY <1>1, <1>6, <1>7

LEMMA ChainTypesKept ==
  LangChainInv /\ ChainPermitInv /\ ChainTypes /\ [LC!LCNext]_langchain => ChainTypes'
<1> SUFFICES ASSUME LangChainInv, ChainPermitInv, ChainTypes, [LC!LCNext]_langchain
             PROVE  ChainTypes'
  OBVIOUS
<1> USE FrameworksAssumption
    DEF ChainTypes, LC!LCTypeOK, LC!AtRest, LC!lcTables, LC!lcSeen, LC!lcRule, LC!Goto
<1>2. ASSUME NEW n \in LC!Nodes, LC!StepAside(n) PROVE ChainTypes'
  BY <1>2 DEF LC!StepAside
<1>3. ASSUME NEW n \in LC!Nodes, LC!Observe(n) \/ LC!Allowed(n) PROVE ChainTypes'
  <2>1. PICK l \in {"body", "inner"} : LC!Goto(n, l) /\ LC!Mark(n)
    BY <1>3 DEF LC!Observe, LC!Allowed, LC!EnterBody
  <2>2. marker' \in [LC!Nodes -> Wrapped \cup {"none"}]
    BY <1>3, <2>1 DEF LC!Mark, LC!Observe, LC!Allowed, ChainPermitInv
  <2>3. checks' \in [LC!Nodes -> 0..2]
    BY <1>3 DEF LC!Observe, LC!Allowed
  <2>4. at' \in [LC!Nodes -> {"called", "inner", "body", "over"} \cup LC!AtRest]
    BY <2>1
  <2>5. \A k, m \in LC!Nodes : k < m /\ at'[k] = "unborn" => at'[m] = "unborn"
    BY <1>3, <2>1 DEF LC!Observe, LC!Allowed
  <2>6. QED BY <1>3, <2>2, <2>3, <2>4, <2>5 DEF LC!Observe, LC!Allowed
<1>1. ASSUME NEW n \in LC!Nodes,
             NEW events \in SUBSET LC!Events, LC!Submit(n, events) \/ UNCHANGED LC!lcSeen
      PROVE  /\ spans' \in [LC!Nodes -> 0..2] /\ landed' \in [LC!Nodes -> SUBSET (0..LC!Own)]
             /\ opened' \subseteq LC!Nodes /\ closed' \subseteq LC!Nodes
             /\ lost' \subseteq LC!Nodes \X LC!Events
  <2> HIDE DEF LC!lcSeen, LC!LCTypeOK
  <2>1. QED BY <1>1, SpanTypes DEF ChainTypes
<1>4. ASSUME NEW n \in LC!Nodes, LC!Denied(n) PROVE ChainTypes'
  <2>1. LC!Submit(n, {"span"}) /\ {"span"} \in SUBSET LC!Events
    BY <1>4 DEF LC!Denied, LC!Events
  <2>2. /\ at' = [at EXCEPT ![n] = "over"] /\ at[n] = "called"
        /\ checks' \in [LC!Nodes -> 0..2] /\ emitted' \subseteq calls
        /\ UNCHANGED <<setup, what, parent, marker, permitted, aside, rootOf, owned, calls>>
    BY <1>4 DEF LC!Denied, LC!MarkEmitted
  <2>3. QED BY <1>1, <2>1, <2>2
<1>5. ASSUME NEW n \in LC!Nodes, LC!Failed(n) \/ LC!Inner(n) PROVE ChainTypes'
  BY <1>5 DEF LC!Failed, LC!Inner
<1>6. ASSUME NEW n \in LC!Nodes, NEW l \in {"over", "dropped"}, LC!Leave(n, l)
      PROVE  ChainTypes'
  <2>1. LC!Submit(n, {"span"}) \/ UNCHANGED LC!lcSeen
    BY <1>6 DEF LC!Leave
  <2>2. {"span"} \in SUBSET LC!Events
    BY DEF LC!Events
  <2>3. emitted' \subseteq calls
    BY <1>6 DEF LC!Leave, LC!MarkEmitted
  <2>4. QED BY <1>1, <1>6, <2>1, <2>2, <2>3 DEF LC!Leave
<1>7. ASSUME NEW n \in LC!Nodes, LC!End(n) PROVE ChainTypes'
  <2>2. CASE LC!Ended(n)
    <3> DEFINE events == {e \in {"span", "close"} : IF e = "span" THEN LC!Untold(n) ELSE n \in owned}
    <3>1. /\ DOMAIN rootOf' = DOMAIN rootOf \ {n}
          /\ \A m \in DOMAIN rootOf' : rootOf'[m] = rootOf[m]
          /\ calls' = calls \ {n} /\ emitted' = emitted \ {n} /\ owned' = owned \ {n}
          /\ LC!Submit(n, events)
      BY <2>2 DEF LC!Ended
    <3>4. events \in SUBSET LC!Events
      BY DEF LC!Events
    <3>2. /\ at[n] = "over" /\ at' = [at EXCEPT ![n] = "done"]
          /\ UNCHANGED <<setup, what, parent, marker, permitted, checks, aside>>
      BY <1>7 DEF LC!End
    <3> HIDE DEF events
    <3>3. QED BY <1>1, <3>1, <3>2, <3>4
  <2>3. CASE UNCHANGED <<LC!lcTables, LC!lcSeen>>
    BY <1>7, <2>3 DEF LC!End
  <2>4. QED BY <1>7, <2>2, <2>3 DEF LC!End
<1>8. CASE LC!Rest \/ UNCHANGED langchain
  BY <1>8 DEF LC!Rest, LC!lcVars, LC!lcTree, langchain
<1>9. QED
  BY ChainTypesStart, <1>2, <1>3, <1>4, <1>5, <1>6, <1>7, <1>8
     DEF LC!LCNext, LC!BodyEnds, LC!Cancelled

\* The adapters that only wrap: what is true or false, and the rest.
WrapperSwitches == stored \in BOOLEAN /\ inRun \in [Wrappers -> BOOLEAN]
WrapperTypes ==
  /\ step \in [Wrappers -> WT!Steps] /\ form \in [Wrappers -> WT!Forms]
  /\ end \in [Wrappers -> WT!Results]
  /\ outcome \in [Wrappers -> WT!Results \cup {"telemetry_error"}]
  /\ sent \in [Wrappers -> SUBSET {"open", "span", "close"}]
  /\ eaten \in [Wrappers -> 0..3]
  /\ \A w \in Wrappers : end[w] = "denied" \/ step[w] = "check" => form[w] = "governed"

LEMMA WrapperSwitchesKept == WrapperSwitches /\ [WT!WTNext]_wrappers => WrapperSwitches'
<1> SUFFICES ASSUME WrapperSwitches, [WT!WTNext]_wrappers PROVE WrapperSwitches'
  OBVIOUS
<1> USE DEF WrapperSwitches
<1>1. ASSUME NEW w \in Wrappers, WT!Call(w) PROVE WrapperSwitches'
  BY <1>1, Switched, Zenon DEF WT!Call
<1>2. ASSUME NEW w \in Wrappers,
             WT!Refused(w) \/ WT!Allowed(w) \/ WT!NoResponse(w) \/ WT!Denied(w) \/ WT!Body(w)
               \/ WT!Leave(w)
      PROVE  WrapperSwitches'
  BY <1>2, Zenon DEF WT!Refused, WT!Allowed, WT!NoResponse, WT!Denied, WT!Body, WT!Leave
<1>3. ASSUME NEW w \in Wrappers, WT!Open(w) \/ WT!Span(w) \/ WT!Close(w) PROVE WrapperSwitches'
  BY <1>3, Zenon DEF WT!Open, WT!Span, WT!Close, WT!Event
<1>4. CASE WT!FlushFails \/ WT!TakenElsewhere \/ UNCHANGED wrappers
  BY <1>4, Zenon DEF WT!FlushFails, WT!TakenElsewhere, wrappers
<1>5. QED BY <1>1, <1>2, <1>3, <1>4 DEF WT!WTNext

LEMMA WrapperTypesKept ==
  WrappedInv /\ WrappedSpansInv /\ WrapperTypes /\ [WT!WTNext]_wrappers => WrapperTypes'
<1> SUFFICES ASSUME WrappedInv, WrappedSpansInv, WrapperTypes, [WT!WTNext]_wrappers
             PROVE  WrapperTypes'
  OBVIOUS
<1> USE DEF WrapperTypes, WT!Goto, WT!Steps, WT!Forms, WT!Results
<1>1. ASSUME NEW w \in Wrappers, WT!Call(w) PROVE WrapperTypes'
  BY <1>1 DEF WT!Call
<1>2. ASSUME NEW w \in Wrappers, WT!Refused(w) \/ WT!Allowed(w) \/ WT!NoResponse(w)
      PROVE  WrapperTypes'
  BY <1>2 DEF WT!Refused, WT!Allowed, WT!NoResponse
<1>3. ASSUME NEW w \in Wrappers, WT!Denied(w) \/ WT!Body(w) PROVE WrapperTypes'
  BY <1>3 DEF WT!Denied, WT!Body, WT!Report
<1>4. ASSUME NEW w \in Wrappers, WT!Open(w) \/ WT!Span(w) \/ WT!Close(w) PROVE WrapperTypes'
  <2>1. eaten[w] <= 2
    BY <1>4 DEF WT!Open, WT!Span, WT!Close, WrappedSpansInv, Lacks
  <2>2. PICK event \in {"open", "span", "close"}, next \in {"span", "close", "leave"} :
           WT!Event(w, event, next)
    BY <1>4 DEF WT!Open, WT!Span, WT!Close
  <2>3. UNCHANGED <<form, inRun, end>>
    BY <1>4 DEF WT!Open, WT!Span, WT!Close
  <2>4. QED BY <2>1, <2>2, <2>3 DEF WT!Event
<1>5. ASSUME NEW w \in Wrappers, WT!Leave(w) PROVE WrapperTypes'
  BY <1>5 DEF WT!Leave
<1>6. CASE WT!FlushFails \/ WT!TakenElsewhere \/ UNCHANGED wrappers
  BY <1>6 DEF WT!FlushFails, WT!TakenElsewhere, wrappers
<1>7. QED BY <1>1, <1>2, <1>3, <1>4, <1>5, <1>6 DEF WT!WTNext

\* Google ADK: what is true or false.
AdkSwitches == govern \in BOOLEAN /\ pendingTool \in Adk!Partial(ToolCalls, BOOLEAN)

\* Filing and popping keep a table in its type.
LEMMA FiledHolds ==
  ASSUME NEW D, NEW R, NEW t \in Adk!Partial(D, R), NEW k \in D, NEW v \in R,
         NEW u, u = Adk!Filed(t, k, v)
  PROVE  u \in Adk!Partial(D, R) /\ DOMAIN u = DOMAIN t \cup {k}
<1>1. PICK X \in SUBSET D : t \in [X -> R]
  BY DEF Adk!Partial
<1>2. u \in [X \cup {k} -> R] /\ DOMAIN t = X
  BY <1>1 DEF Adk!Filed
<1>3. X \cup {k} \in SUBSET D
  OBVIOUS
<1>4. u \in Adk!Partial(D, R)
  BY <1>2, <1>3 DEF Adk!Partial
<1>5. QED BY <1>2, <1>4

LEMMA PoppedHolds ==
  ASSUME NEW D, NEW R, NEW t \in Adk!Partial(D, R), NEW k, NEW u, u = Adk!Popped(t, k)
  PROVE  u \in Adk!Partial(D, R) /\ DOMAIN u = DOMAIN t \ {k}
<1>1. PICK X \in SUBSET D : t \in [X -> R]
  BY DEF Adk!Partial
<1>2. u \in [X \ {k} -> R] /\ DOMAIN t = X
  BY <1>1 DEF Adk!Popped, Adk!Restrict
<1>3. X \ {k} \in SUBSET D
  OBVIOUS
<1>4. u \in Adk!Partial(D, R)
  BY <1>2, <1>3 DEF Adk!Partial
<1>5. QED BY <1>2, <1>4

LEMMA AdkSwitchesKept == AdkSwitches /\ [Adk!AdkNext]_adk => AdkSwitches'
<1> SUFFICES ASSUME AdkSwitches, [Adk!AdkNext]_adk PROVE AdkSwitches'
  OBVIOUS
<1> USE DEF AdkSwitches
<1>1. CASE UNCHANGED <<govern, pendingTool>>
  BY <1>1, Zenon
<1>2. ASSUME NEW i \in Invocations, Adk!BeforeRun(i) \/ Adk!AfterRun(i)
      PROVE  UNCHANGED <<govern, pendingTool>>
  BY <1>2, Zenon DEF Adk!BeforeRun, Adk!AfterRun, Adk!adkTools
<1>3. ASSUME NEW a \in Agents,
             Adk!Join(a) \/ Adk!Part(a) \/ Adk!Cancel(a) \/ Adk!BeforeModel(a)
               \/ Adk!PartialAnswer(a) \/ Adk!AfterModel(a)
      PROVE  UNCHANGED <<govern, pendingTool>>
  BY <1>3, Zenon
     DEF Adk!Join, Adk!Part, Adk!Cancel, Adk!BeforeModel, Adk!PartialAnswer, Adk!AfterModel,
         Adk!Answer, Adk!adkTools
<1>4. ASSUME NEW k \in ToolCalls, NEW a \in Agents, Adk!ToolRuns(k, a) PROVE AdkSwitches'
  <2>1. PICK token \in BOOLEAN : pendingTool' = Adk!Filed(pendingTool, k, token)
    BY <1>4, Zenon DEF Adk!ToolRuns
  <2>2. pendingTool' \in Adk!Partial(ToolCalls, BOOLEAN)
    BY <2>1, FiledHolds, Zenon
  <2>3. govern' = govern
    BY <1>4, Zenon DEF Adk!ToolRuns
  <2>4. QED BY <2>2, <2>3, Zenon
<1>5. ASSUME NEW k \in ToolCalls, NEW a \in Agents, Adk!ToolShort(k, a)
      PROVE  UNCHANGED <<govern, pendingTool>>
  BY <1>5, Zenon DEF Adk!ToolShort
<1>6. ASSUME NEW k \in ToolCalls, Adk!AfterTool(k) PROVE AdkSwitches'
  <2>1. pendingTool' = Adk!Popped(pendingTool, k) /\ govern' = govern
    BY <1>6, Zenon DEF Adk!AfterTool
  <2>2. pendingTool' \in Adk!Partial(ToolCalls, BOOLEAN)
    BY <2>1, PoppedHolds, Zenon
  <2>3. QED BY <2>1, <2>2, Zenon
<1>7. ASSUME NEW k \in ToolCalls, Adk!NoAfterTool(k) PROVE UNCHANGED <<govern, pendingTool>>
  BY <1>7, Zenon DEF Adk!NoAfterTool
<1>8. CASE Adk!AdkRest \/ UNCHANGED adk
  BY <1>8, <1>1, Zenon DEF Adk!AdkRest, Adk!adkVars, Adk!adkTools, adk
<1>9. QED BY <1>1, <1>2, <1>3, <1>4, <1>5, <1>6, <1>7, <1>8, Zenon DEF Adk!AdkNext

\* The tables of model calls.
ModelTypes ==
  /\ serves \in [Agents -> Adk!RunIds]
  /\ asks \subseteq Agents /\ mixed \subseteq Agents
  /\ bound \in [Agents -> Adk!RunIds]
  /\ pendingLlm \in Adk!Partial(Invocations, Agents)
  /\ previousRun \in Adk!Partial(Invocations, Adk!RunIds)
  /\ DOMAIN previousRun = DOMAIN pendingLlm /\ answered \subseteq asks
  /\ openRuns \subseteq Invocations /\ closedRuns \subseteq Invocations \ openRuns

\* The tables of tool calls.
ToolCallTypes ==
  /\ tool \in [ToolCalls -> {"new", "running", "short", "done", "cancelled"}]
  /\ caller \in [ToolCalls -> Agents \cup {Nowhere}]
  /\ pendingTool \in Adk!Partial(ToolCalls, BOOLEAN)
  /\ DOMAIN pendingTool = {k \in ToolCalls : tool[k] \in {"running", "cancelled"}}
  /\ toolSpans \in [ToolCalls -> SUBSET {"denied", "completed", "error"}]
  /\ reported \subseteq ToolCalls /\ missed \subseteq ToolCalls
  /\ \A k \in ToolCalls : caller[k] \in Agents <=> tool[k] \in {"running", "short"}

LEMMA ModelTypesKept == ModelTypes /\ [Adk!AdkNext]_adk => ModelTypes'
<1> SUFFICES ASSUME ModelTypes, [Adk!AdkNext]_adk PROVE ModelTypes'
  OBVIOUS
<1> USE DEF ModelTypes, Adk!RunIds
<1> DEFINE kept == <<serves, Adk!adkModel, Adk!adkRuns>>
<1>1. CASE UNCHANGED kept
  BY <1>1 DEF Adk!adkModel, Adk!adkRuns
<1>2. ASSUME NEW i \in Invocations, Adk!BeforeRun(i) \/ Adk!AfterRun(i) PROVE ModelTypes'
  BY <1>2 DEF Adk!BeforeRun, Adk!AfterRun, Adk!adkModel
<1>3. ASSUME NEW a \in Agents, Adk!Join(a) \/ Adk!Part(a) PROVE ModelTypes'
  BY <1>3 DEF Adk!Join, Adk!Part, Adk!adkModel, Adk!adkRuns
<1>4. ASSUME NEW a \in Agents, Adk!Cancel(a) PROVE ModelTypes'
  BY <1>4 DEF Adk!Cancel, Adk!adkRuns
<1>5. ASSUME NEW a \in Agents, Adk!BeforeModel(a) PROVE ModelTypes'
  <2> DEFINE i == serves[a]
  <2>1. i \in Invocations /\ bound[a] \in Adk!RunIds
    BY <1>5 DEF Adk!BeforeModel
  <2>2. /\ previousRun' = Adk!Filed(previousRun, i, bound[a])
        /\ pendingLlm' = Adk!Filed(pendingLlm, i, a)
    BY <1>5 DEF Adk!BeforeModel
  <2>3. /\ previousRun' \in Adk!Partial(Invocations, Adk!RunIds)
        /\ DOMAIN previousRun' = DOMAIN previousRun \cup {i}
    <3> HIDE DEF Adk!RunIds
    <3>1. PICK run \in Adk!RunIds : previousRun' = Adk!Filed(previousRun, i, run)
      BY <2>1, <2>2
    <3>2. previousRun \in Adk!Partial(Invocations, Adk!RunIds) /\ i \in Invocations
      BY <2>1 DEF ModelTypes
    <3> HIDE DEF i
    <3>3. previousRun' \in Adk!Partial(Invocations, Adk!RunIds)
      BY <3>1, <3>2, FiledHolds, Zenon
    <3>4. DOMAIN previousRun' = DOMAIN previousRun \cup {i}
      BY <3>1 DEF Adk!Filed
    <3>5. QED BY <3>3, <3>4
  <2>4. /\ pendingLlm' \in Adk!Partial(Invocations, Agents)
        /\ DOMAIN pendingLlm' = DOMAIN pendingLlm \cup {i}
    <3>1. pendingLlm \in Adk!Partial(Invocations, Agents)
      BY DEF ModelTypes
    <3> HIDE DEF i
    <3>2. pendingLlm' \in Adk!Partial(Invocations, Agents)
      BY <2>1, <2>2, <3>1, FiledHolds, Zenon
    <3>3. DOMAIN pendingLlm' = DOMAIN pendingLlm \cup {i}
      BY <2>2 DEF Adk!Filed
    <3>4. QED BY <3>2, <3>3
  <2>5. /\ serves' = serves /\ asks' = asks \cup {a} /\ mixed' \subseteq mixed \cup asks \cup {a}
        /\ answered' = answered
        /\ bound' = [bound EXCEPT ![a] = i] /\ UNCHANGED Adk!adkRuns
    BY <1>5 DEF Adk!BeforeModel
  <2>6. QED BY <2>1, <2>3, <2>4, <2>5 DEF Adk!adkRuns
<1>6. ASSUME NEW a \in Agents, Adk!AfterModel(a) \/ Adk!PartialAnswer(a) PROVE ModelTypes'
  <2> DEFINE i == serves[a]
  <2>0. /\ Adk!Answer(a)
        /\ \/ asks' = asks \ {a} /\ answered' = answered \ {a}
           \/ asks' = asks /\ answered' = answered \cup {a}
    BY <1>6 DEF Adk!AfterModel, Adk!PartialAnswer
  <2>1. previousRun' = Adk!Popped(previousRun, i) /\ pendingLlm' = Adk!Popped(pendingLlm, i)
    BY <2>0 DEF Adk!Answer
  <2>2. /\ previousRun' \in Adk!Partial(Invocations, Adk!RunIds)
        /\ DOMAIN previousRun' = DOMAIN previousRun \ {i}
    BY <2>1, PoppedHolds DEF ModelTypes
  <2>3. /\ pendingLlm' \in Adk!Partial(Invocations, Agents)
        /\ DOMAIN pendingLlm' = DOMAIN pendingLlm \ {i}
    BY <2>1, PoppedHolds DEF ModelTypes
  <2>4. i \in DOMAIN previousRun => previousRun[i] \in Adk!RunIds
    BY DEF Adk!Partial
  <2>5. bound' \in [Agents -> Adk!RunIds]
    BY <2>0, <2>4 DEF Adk!Answer, Adk!Restored
  <2>6. /\ serves' = serves /\ mixed' = mixed /\ UNCHANGED Adk!adkRuns
        /\ asks' \subseteq asks /\ answered' \subseteq asks'
    BY <2>0 DEF Adk!Answer
  <2>7. QED BY <2>2, <2>3, <2>5, <2>6 DEF Adk!adkRuns
<1>7. ASSUME NEW k \in ToolCalls, NEW a \in Agents, Adk!ToolRuns(k, a) \/ Adk!ToolShort(k, a)
      PROVE  UNCHANGED kept
  BY <1>7 DEF Adk!ToolRuns, Adk!ToolShort
<1>8. ASSUME NEW k \in ToolCalls, Adk!AfterTool(k) \/ Adk!NoAfterTool(k) PROVE UNCHANGED kept
  BY <1>8 DEF Adk!AfterTool, Adk!NoAfterTool
<1>9. CASE Adk!AdkRest \/ UNCHANGED adk
  BY <1>9 DEF Adk!AdkRest, Adk!adkVars, Adk!adkModel, Adk!adkRuns, adk
<1>10. QED BY <1>1, <1>2, <1>3, <1>4, <1>5, <1>6, <1>7, <1>8, <1>9 DEF Adk!AdkNext

LEMMA ToolCallTypesKept == ToolCallTypes /\ [Adk!AdkNext]_adk => ToolCallTypes'
<1> USE FrameworksAssumption
<1> SUFFICES ASSUME ToolCallTypes, [Adk!AdkNext]_adk PROVE ToolCallTypes'
  OBVIOUS
<1> DEFINE Sorted == /\ tool \in [ToolCalls -> {"new", "running", "short", "done", "cancelled"}]
                     /\ caller \in [ToolCalls -> Agents \cup {Nowhere}]
                     /\ toolSpans \in [ToolCalls -> SUBSET {"denied", "completed", "error"}]
                     /\ reported \subseteq ToolCalls /\ missed \subseteq ToolCalls
                     /\ \A k \in ToolCalls : caller[k] \in Agents <=> tool[k] \in {"running", "short"}
           pending == DOMAIN pendingTool
           Pending == pending = {k \in ToolCalls : tool[k] \in {"running", "cancelled"}}
<1>1. Sorted /\ Pending /\ pendingTool \in Adk!Partial(ToolCalls, BOOLEAN)
  BY DEF ToolCallTypes
<1>2. ASSUME Sorted', Pending', pendingTool' \in Adk!Partial(ToolCalls, BOOLEAN)
      PROVE  ToolCallTypes'
  BY <1>2 DEF ToolCallTypes
<1>3. CASE UNCHANGED <<Adk!adkTools, missed>>
  BY <1>3, Zenon DEF ToolCallTypes, Adk!adkTools
<1>4. ASSUME NEW i \in Invocations, Adk!BeforeRun(i) \/ Adk!AfterRun(i)
      PROVE  UNCHANGED <<Adk!adkTools, missed>>
  BY <1>4, Zenon DEF Adk!BeforeRun, Adk!AfterRun
<1>5. ASSUME NEW a \in Agents,
             Adk!Join(a) \/ Adk!Part(a) \/ Adk!BeforeModel(a) \/ Adk!PartialAnswer(a)
               \/ Adk!AfterModel(a)
      PROVE  UNCHANGED <<Adk!adkTools, missed>>
  BY <1>5, Zenon
     DEF Adk!Join, Adk!Part, Adk!BeforeModel, Adk!PartialAnswer, Adk!AfterModel, Adk!Answer
<1>6. ASSUME NEW a \in Agents, Adk!Cancel(a) PROVE ToolCallTypes'
  <2>1. pendingTool' = pendingTool /\ UNCHANGED <<toolSpans, reported, missed>>
    BY <1>6, Zenon DEF Adk!Cancel
  <2>2. /\ tool' = [k \in ToolCalls |->
                      IF caller[k] = a THEN IF tool[k] = "running" THEN "cancelled" ELSE "done"
                      ELSE tool[k]]
        /\ caller' = [k \in ToolCalls |-> IF caller[k] = a THEN Nowhere ELSE caller[k]]
    BY <1>6 DEF Adk!Cancel, Adk!Dispatched
  <2>3. pending' = pending /\ pendingTool' \in Adk!Partial(ToolCalls, BOOLEAN)
    BY <1>1, <2>1, Zenon
  <2> HIDE DEF pending
  <2>4. Sorted'
    BY <1>1, <2>1, <2>2
  <2>5. \A k \in ToolCalls :
           tool'[k] \in {"running", "cancelled"} <=> tool[k] \in {"running", "cancelled"}
    <3>1. SUFFICES ASSUME NEW k \in ToolCalls
                   PROVE  tool'[k] \in {"running", "cancelled"} <=> tool[k] \in {"running", "cancelled"}
      OBVIOUS
    <3>2. caller[k] = a => tool[k] \in {"running", "short"}
      BY <1>1
    <3>3. tool'[k] = IF caller[k] = a THEN IF tool[k] = "running" THEN "cancelled" ELSE "done"
                     ELSE tool[k]
      BY <2>2
    <3>4. QED BY <3>2, <3>3
  <2>6. Pending'
    BY <1>1, <2>3, <2>5
  <2>7. QED BY <1>2, <2>3, <2>4, <2>6
<1>7. ASSUME NEW k \in ToolCalls, NEW a \in Agents, Adk!ToolRuns(k, a) PROVE ToolCallTypes'
  <2>1. PICK token \in BOOLEAN : pendingTool' = Adk!Filed(pendingTool, k, token)
    BY <1>7, Zenon DEF Adk!ToolRuns
  <2>2. pendingTool' \in Adk!Partial(ToolCalls, BOOLEAN) /\ pending' = pending \cup {k}
    <3>1. pendingTool \in Adk!Partial(ToolCalls, BOOLEAN)
      BY <1>1, Zenon
    <3>2. pendingTool' \in Adk!Partial(ToolCalls, BOOLEAN)
      BY <2>1, <3>1, FiledHolds, Zenon
    <3>3. pending' = pending \cup {k}
      BY <2>1 DEF Adk!Filed
    <3>4. QED BY <3>2, <3>3, Zenon
  <2>3. /\ tool[k] = "new" /\ tool' = [tool EXCEPT ![k] = "running"]
        /\ caller' = [caller EXCEPT ![k] = a] /\ UNCHANGED <<toolSpans, reported, missed>>
    BY <1>7 DEF Adk!ToolRuns, Adk!Dispatch
  <2> HIDE DEF pending
  <2>4. Sorted' /\ Pending'
    BY <1>1, <2>2, <2>3
  <2>5. QED BY <1>2, <2>2, <2>4
<1>8. ASSUME NEW k \in ToolCalls, NEW a \in Agents, Adk!ToolShort(k, a) PROVE ToolCallTypes'
  <2>1. pendingTool' = pendingTool
    BY <1>8, Zenon DEF Adk!ToolShort
  <2>2. /\ tool[k] = "new" /\ tool' = [tool EXCEPT ![k] = "short"]
        /\ caller' = [caller EXCEPT ![k] = a] /\ reported' = reported
        /\ toolSpans' = [toolSpans EXCEPT ![k] = @ \cup {"denied"}] \/ toolSpans' = toolSpans
        /\ missed' \subseteq missed \cup {k}
    BY <1>8 DEF Adk!ToolShort, Adk!Dispatch, Adk!Report
  <2>3. pending' = pending /\ pendingTool' \in Adk!Partial(ToolCalls, BOOLEAN)
    BY <1>1, <2>1, Zenon
  <2> HIDE DEF pending
  <2>4. Sorted' /\ Pending'
    BY <1>1, <2>2, <2>3
  <2>5. QED BY <1>2, <2>3, <2>4
<1>9. ASSUME NEW k \in ToolCalls, Adk!AfterTool(k) PROVE ToolCallTypes'
  <2>1. pendingTool' = Adk!Popped(pendingTool, k)
    BY <1>9, Zenon DEF Adk!AfterTool
  <2>2. pendingTool' \in Adk!Partial(ToolCalls, BOOLEAN) /\ pending' = pending \ {k}
    BY <2>1, <1>1, PoppedHolds
  <2>3. /\ tool' = [tool EXCEPT ![k] = "done"] /\ caller' = [caller EXCEPT ![k] = Nowhere]
        /\ \/ toolSpans' = toolSpans
           \/ \E status \in {"completed", "error"} :
                toolSpans' = [toolSpans EXCEPT ![k] = @ \cup {status}]
        /\ reported' \subseteq reported \cup {k} /\ missed' \subseteq missed \cup {k}
    BY <1>9 DEF Adk!AfterTool, Adk!Report
  <2> HIDE DEF pending
  <2>4. Sorted' /\ Pending'
    BY <1>1, <2>2, <2>3
  <2>5. QED BY <1>2, <2>2, <2>4
<1>10. ASSUME NEW k \in ToolCalls, Adk!NoAfterTool(k) PROVE ToolCallTypes'
  <2>1. pendingTool' = pendingTool
    BY <1>10, Zenon DEF Adk!NoAfterTool
  <2>2. /\ tool[k] = "short" /\ tool' = [tool EXCEPT ![k] = "done"]
        /\ caller' = [caller EXCEPT ![k] = Nowhere] /\ UNCHANGED <<toolSpans, reported, missed>>
    BY <1>10 DEF Adk!NoAfterTool
  <2>3. pending' = pending /\ pendingTool' \in Adk!Partial(ToolCalls, BOOLEAN)
    BY <1>1, <2>1, Zenon
  <2> HIDE DEF pending
  <2>4. Sorted' /\ Pending'
    BY <1>1, <2>2, <2>3
  <2>5. QED BY <1>2, <2>3, <2>4
<1>11. CASE Adk!AdkRest \/ UNCHANGED adk
  BY <1>11, <1>3, Zenon DEF Adk!AdkRest, Adk!adkVars, Adk!adkTools, adk
<1>12. QED
  BY <1>3, <1>4, <1>5, <1>6, <1>7, <1>8, <1>9, <1>10, <1>11 DEF Adk!AdkNext

AgentTypes ==
  /\ Switches /\ CallTypes /\ ChainTypes /\ AdkSwitches /\ ModelTypes /\ ToolCallTypes
  /\ WrapperSwitches /\ WrapperTypes

LEMMA AgentTypesStart == AgentInit => AgentTypes
<1> SUFFICES ASSUME AgentInit PROVE AgentTypes
  OBVIOUS
<1> USE DEF AgentInit
<1>1. Switches
  BY Zenon DEF GuardInit, Switches
<1>2. CallTypes
  <2>1. Init /\ (FailOpenTelemetry => ~lastError)
    BY Zenon DEF GuardInit
  <2>2. DOMAIN implicit = Callers /\ \A c \in Callers : ~implicit[c]
    BY DEF GuardInit
  <2>3. QED
    BY <2>1, <2>2 DEF GuardInit, CallTypes, Init, Outcomes, Contexts, Ends, ToolEnds, Locations
<1>3. ChainTypes
  BY FrameworksAssumption DEF LC!LCInit, ChainTypes, LC!LCTypeOK, LC!AtRest, LC!Nodes, LC!Own
<1>4. AdkSwitches
  <2>1. pendingTool \in [{} -> BOOLEAN]
    BY DEF Adk!AdkInit
  <2>2. QED BY <2>1, Zenon DEF Adk!AdkInit, AdkSwitches, Adk!Partial
<1>5. ModelTypes
  <2>1. pendingLlm \in [{} -> Agents] /\ previousRun \in [{} -> Adk!RunIds]
    BY DEF Adk!AdkInit
  <2>2. pendingLlm \in Adk!Partial(Invocations, Agents)
    BY <2>1 DEF Adk!Partial
  <2>3. previousRun \in Adk!Partial(Invocations, Adk!RunIds)
    BY <2>1 DEF Adk!Partial
  <2>4. QED BY <2>2, <2>3 DEF Adk!AdkInit, ModelTypes, Adk!RunIds
<1>6. ToolCallTypes
  <2>1. pendingTool \in Adk!Partial(ToolCalls, BOOLEAN) /\ DOMAIN pendingTool = {}
    BY <1>4 DEF AdkSwitches, Adk!AdkInit
  <2>2. QED BY <2>1, FrameworksAssumption DEF Adk!AdkInit, ToolCallTypes
<1>7. WrapperSwitches
  BY Zenon DEF WT!WTInit, WrapperSwitches
<1>8. WrapperTypes
  BY DEF WT!WTInit, WrapperTypes, WT!Steps, WT!Forms, WT!Results
<1>9. QED BY <1>1, <1>2, <1>3, <1>4, <1>5, <1>6, <1>7, <1>8 DEF AgentTypes

\* However the agent is built, every variable keeps its type.
THEOREM TypesHold == AgentSpec => []TypesOK
<1> DEFINE Known == AgentInv /\ ChainPermitInv /\ SpansInv
<1>1. Known /\ AgentTypes /\ [AgentNext]_agentVars => AgentTypes'
  <2> SUFFICES ASSUME Known, AgentTypes, [AgentNext]_agentVars PROVE AgentTypes'
    OBVIOUS
  <2>1. /\ [GuardNext]_vars /\ [LC!LCNext]_langchain /\ [Adk!AdkNext]_adk
        /\ [WT!WTNext]_wrappers
    BY DEF AgentNext, Calls, LangChain, GoogleAdk, ModelCalls, WrappedCalls, agentVars
  <2>2. CallsInv /\ LangChainInv /\ WrappedInv /\ WrappedSpansInv /\ ChainPermitInv
    BY DEF AgentInv, SpansInv
  <2>3. Switches' /\ CallTypes' /\ ChainTypes'
    BY <2>1, <2>2, SwitchesKept, CallTypesKept, ChainTypesKept DEF AgentTypes
  <2>4. AdkSwitches' /\ ModelTypes' /\ ToolCallTypes'
    BY <2>1, AdkSwitchesKept, ModelTypesKept, ToolCallTypesKept DEF AgentTypes
  <2>5. WrapperSwitches' /\ WrapperTypes'
    BY <2>1, <2>2, WrapperSwitchesKept, WrapperTypesKept DEF AgentTypes
  <2>6. QED BY <2>3, <2>4, <2>5 DEF AgentTypes
<1>2. AgentTypes /\ GM!GMTypeOK => TypesOK
  <2> SUFFICES ASSUME AgentTypes, GM!GMTypeOK PROVE TypesOK
    OBVIOUS
  <2>1. TypeOK
    BY Zenon DEF AgentTypes, Switches, CallTypes, TypeOK
  <2>2. LC!LCTypeOK
    BY DEF AgentTypes, ChainTypes
  <2>3. Adk!AdkTypeOK
    BY Zenon DEF AgentTypes, AdkSwitches, ModelTypes, ToolCallTypes, Adk!AdkTypeOK
  <2>4. WT!WTTypeOK
    BY Zenon DEF AgentTypes, WrapperSwitches, WrapperTypes, WT!WTTypeOK
  <2>5. QED BY <2>1, <2>2, <2>3, <2>4 DEF TypesOK
<1>3. GMInv => GM!GMTypeOK
  BY GMTypes
<1>4. QED
  BY <1>1, <1>2, <1>3, AgentTypesStart, AgentKept, ChainPermitAlways, SpansAlways, GMAlways,
     PTL DEF AgentSpec
=============================================================================
