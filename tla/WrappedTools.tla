---------------------------- MODULE WrappedTools ----------------------------
(***************************************************************************)
(* The adapters that only wrap: govern() of the generic one where it does  *)
(* not hand over to guard(), the tools and the model client of AutoGen,    *)
(* the tools and the interceptor of CrewAI, with what they share in        *)
(* _shared.py.                                                             *)
(*                                                                         *)
(* A wrapped call checks the tool, runs it, and reports it in its finally, *)
(* in the ambient run or else in a run of its own that it opens and closes *)
(* around the span.  Each of these events may meet the stored telemetry    *)
(* error of an exporter that does not fail open, and swallows it.          *)
(***************************************************************************)
EXTENDS Naturals, FiniteSets

CONSTANT Wrappers   \* threads or tasks that make wrapped calls

VARIABLES
  stored,   \* the exporter's last_error is set
  step,     \* where each wrapper is
  form,     \* what it calls, see Forms
  inRun,    \* whether there is a run to land in
  end,      \* how the check or the wrapped function ended
  outcome,  \* what the caller gets
  sent,     \* the events accepted: "open", "span", "close"
  eaten     \* history: stored errors this call has swallowed, up to 3

wtVars == <<stored, step, form, inRun, end, outcome, sent, eaten>>

\* A tool in mode="govern" or "observe"; AutoGen's model client, create() or
\* create_stream(); a request that CrewAI's interceptor sees.
Forms == {"governed", "observed", "client", "request"}
Steps == {"idle", "check", "body", "open", "span", "close", "leave"}
Results == {"none", "result", "exception", "cancelled", "denied", "refused",
            "unreachable"}

WTTypeOK ==
  /\ stored \in BOOLEAN
  /\ step \in [Wrappers -> Steps] /\ form \in [Wrappers -> Forms]
  /\ inRun \in [Wrappers -> BOOLEAN]
  /\ end \in [Wrappers -> Results]
  /\ outcome \in [Wrappers -> Results \cup {"telemetry_error"}]
  /\ sent \in [Wrappers -> SUBSET {"open", "span", "close"}]
  /\ eaten \in [Wrappers -> 0..3]
  /\ \A w \in Wrappers : end[w] = "denied" => form[w] = "governed"

WTInit ==
  /\ stored = FALSE
  /\ step = [w \in Wrappers |-> "idle"] /\ form = [w \in Wrappers |-> "observed"]
  /\ inRun = [w \in Wrappers |-> FALSE]
  /\ end = [w \in Wrappers |-> "none"] /\ outcome = end
  /\ sent = [w \in Wrappers |-> {}] /\ eaten = [w \in Wrappers |-> 0]

Goto(w, l) == step' = [step EXCEPT ![w] = l]

-----------------------------------------------------------------------------
Call(w) ==
  /\ step[w] = "idle"
  /\ \E f \in Forms, r \in BOOLEAN :
       /\ form' = [form EXCEPT ![w] = f] /\ inRun' = [inRun EXCEPT ![w] = r]
       /\ Goto(w, IF f = "governed" THEN "check" ELSE "body")
  /\ end' = [end EXCEPT ![w] = "none"] /\ outcome' = [outcome EXCEPT ![w] = "none"]
  /\ sent' = [sent EXCEPT ![w] = {}] /\ eaten' = [eaten EXCEPT ![w] = 0]
  /\ UNCHANGED stored

\* raise_if_suspended() raises, or check_and_wait() does: nothing is reported.
Refused(w) ==
  /\ step[w] = "check"
  /\ end' = [end EXCEPT ![w] = "refused"]
  /\ Goto(w, "leave")
  /\ UNCHANGED <<stored, form, inRun, outcome, sent, eaten>>

Report(w) == Goto(w, IF inRun[w] THEN "span" ELSE "open")

\* A denial is reported before ToolDenied is raised.
Denied(w) ==
  /\ step[w] = "check"
  /\ end' = [end EXCEPT ![w] = "denied"]
  /\ Report(w)
  /\ UNCHANGED <<stored, form, inRun, outcome, sent, eaten>>

Allowed(w) ==
  /\ step[w] = "check"
  /\ Goto(w, "body")
  /\ UNCHANGED <<stored, form, inRun, end, outcome, sent, eaten>>

\* What is wrapped ends in any way, and the finally reports it.
Body(w) ==
  /\ step[w] = "body"
  /\ \E e \in {"result", "exception", "cancelled"} :
       /\ end' = [end EXCEPT ![w] = e]
       /\ form[w] = "request" => e # "cancelled"
  /\ Report(w)
  /\ UNCHANGED <<stored, form, inRun, outcome, sent, eaten>>

\* A request that gets no response does not reach on_inbound(), which alone
\* reports it.
NoResponse(w) ==
  /\ step[w] = "body" /\ form[w] = "request"
  /\ end' = [end EXCEPT ![w] = "unreachable"]
  /\ Goto(w, "leave")
  /\ UNCHANGED <<stored, form, inRun, outcome, sent, eaten>>

\* One event, best-effort: submitted, or lost with the error that struck it.
Event(w, event, next) ==
  /\ \/ /\ ~stored /\ UNCHANGED <<stored, eaten>>
        /\ sent' = [sent EXCEPT ![w] = @ \cup {event}]
     \/ /\ stored /\ stored' = FALSE /\ UNCHANGED sent
        /\ eaten' = [eaten EXCEPT ![w] = @ + 1]
  /\ Goto(w, next) /\ UNCHANGED outcome

\* emit_tool_span(), emit_llm_span(), and _in_own_run() where there is no run.
Open(w) ==
  /\ step[w] = "open" /\ Event(w, "open", "span")
  /\ UNCHANGED <<form, inRun, end>>
Span(w) ==
  /\ step[w] = "span" /\ Event(w, "span", IF inRun[w] THEN "leave" ELSE "close")
  /\ UNCHANGED <<form, inRun, end>>
Close(w) ==
  /\ step[w] = "close" /\ Event(w, "close", "leave")
  /\ UNCHANGED <<form, inRun, end>>

Leave(w) ==
  /\ step[w] = "leave"
  /\ outcome' = [outcome EXCEPT ![w] = end[w]]
  /\ Goto(w, "idle")
  /\ UNCHANGED <<stored, form, inRun, end, sent, eaten>>

\* A flush fails; or another submitter, flush() or stop() raises the error.
FlushFails ==
  ~stored /\ stored' = TRUE /\ UNCHANGED <<step, form, inRun, end, outcome, sent, eaten>>
TakenElsewhere ==
  stored /\ stored' = FALSE /\ UNCHANGED <<step, form, inRun, end, outcome, sent, eaten>>

WTNext ==
  \/ \E w \in Wrappers :
       \/ Call(w) \/ Refused(w) \/ Denied(w) \/ Allowed(w) \/ Body(w) \/ NoResponse(w)
       \/ Open(w) \/ Span(w) \/ Close(w) \/ Leave(w)
  \/ FlushFails \/ TakenElsewhere

WTSpec == WTInit /\ [][WTNext]_wtVars

-----------------------------------------------------------------------------
(* What makes the component correct *)

Back(w) == step[w] = "idle" /\ outcome[w] # "none"
Reports(w) == end[w] \notin {"refused", "unreachable"}

\* Whatever the exporter has stored for whoever submits next, the caller of a
\* wrapped function gets what that function or its check ended with.
WTOutcomeKept == \A w \in Wrappers : Back(w) => outcome[w] = end[w]

\* "A telemetry hiccup loses at most that one event": each call lacks as many
\* of its events as it has swallowed errors.
WTOneEventPerError ==
  \A w \in Wrappers : Back(w) /\ Reports(w) =>
    LET due == IF inRun[w] THEN {"span"} ELSE {"open", "span", "close"}
    IN  Cardinality(due \ sent[w]) = eaten[w] /\ sent[w] \subseteq due

\* A run of its own that a span has opened is closed again, or an error was
\* swallowed in place of its end.
WTRunsEnd ==
  \A w \in Wrappers : Back(w) /\ "open" \in sent[w] => "close" \in sent[w] \/ eaten[w] > 0
=============================================================================
