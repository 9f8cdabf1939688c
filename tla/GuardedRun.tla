----------------------------- MODULE GuardedRun -----------------------------
(***************************************************************************)
(* Calls of guarded tools (guard() and run() of governor.py) by several    *)
(* threads or tasks, around the check that GovernedCall describes and in   *)
(* front of a telemetry exporter which, unless telemetry fails open,       *)
(* stores the error of a failed flush for whoever submits next.            *)
(*                                                                         *)
(* Each caller has a context of its own (the context variable              *)
(* _current_run); the stored error is shared.  A step ends wherever the    *)
(* exporter or another caller can get in between.  The spans of a run are  *)
(* followed through its opening and its end only, and report_result()      *)
(* changes nothing local and swallows its errors.                          *)
(***************************************************************************)
EXTENDS GovernedCall, Naturals

CONSTANT FailOpenTelemetry   \* fail_open_telemetry

ASSUME GuardedRunAssumption == FailOpen \in BOOLEAN /\ FailOpenTelemetry \in BOOLEAN

VARIABLES
  lastError,  \* the exporter's last_error is set
  current,    \* _current_run of each caller, see Contexts
  saved,      \* what leaving its run() block restores
  inBlock,    \* whether it is inside a run() block of its own
  implicit,   \* whether its call has opened an implicit run
  pc,         \* where each caller is
  due,        \* what the call is to end with, or has ended with
  ran,        \* history: how the tool itself ended, while the call lasts
  recorded,   \* whether the call's tool span was accepted
  struck,     \* history: errors stored since the call was let in, up to 2
  cut         \* history: an error took the place of the opening or of the end
              \* of the run that the context names, outside of run() blocks

runVars == <<current, saved, inBlock, implicit, cut>>
spanVars == <<recorded, struck>>
endVars == <<due, ran>>
vars == <<cvars, lastError, runVars, pc, endVars, spanVars>>

\* The run a context names: none, the caller's run() block, the implicit run
\* of its call, or a run that is over or was never opened.
Contexts == {"none", "block", "call", "stale"}
ToolEnds == {"result", "exception", "cancelled"}
Ends == ToolEnds \cup {"none", "denied", "failed", "refused", "telemetry_error"}
Locations == {"idle", "let_in", "checking", "tool", "record", "again", "leave", "end"}

TypeOK ==
  /\ stage \in [Callers -> Outcomes \cup {"idle", "asking"}]
  /\ verdict \in [Callers -> {"none", "ALLOW", "DENY", "PENDING"}]
  /\ lastError \in BOOLEAN /\ (FailOpenTelemetry => ~lastError)
  /\ current \in [Callers -> Contexts]
  /\ saved \in [Callers -> {"none", "stale"}]
  /\ inBlock \in [Callers -> BOOLEAN] /\ implicit \in [Callers -> BOOLEAN]
  /\ cut \in [Callers -> BOOLEAN]
  /\ pc \in [Callers -> Locations]
  /\ due \in [Callers -> Ends] /\ ran \in [Callers -> ToolEnds \cup {"none"}]
  /\ recorded \in [Callers -> BOOLEAN] /\ struck \in [Callers -> 0..2]
  /\ \A c \in Callers : /\ pc[c] # "idle" => current[c] # "none"
                        /\ implicit[c] => current[c] = "call"
                        /\ pc[c] # "checking" => stage[c] # "asking"

GuardInit ==
  /\ Init
  /\ lastError = FALSE
  /\ current = [c \in Callers |-> "none"] /\ saved = current
  /\ inBlock = [c \in Callers |-> FALSE] /\ implicit = inBlock /\ cut = inBlock
  /\ pc = [c \in Callers |-> "idle"]
  /\ due = [c \in Callers |-> "none"] /\ ran = due
  /\ recorded = inBlock /\ struck = [c \in Callers |-> 0]

Goto(c, l) == pc' = [pc EXCEPT ![c] = l]
Set(c, run) == current' = [current EXCEPT ![c] = run]

\* submit() raises the stored error, and takes it, instead of the event.
Accepted == ~lastError /\ UNCHANGED lastError
Raised == lastError /\ lastError' = FALSE

\* It raises it in place of the opening or the end of a run, which the context
\* then goes on naming.
CutOff(c) == Raised /\ Set(c, "stale") /\ cut' = [cut EXCEPT ![c] = TRUE]

-----------------------------------------------------------------------------
(* run() around the caller's own code *)

EnterRun(c) ==
  /\ pc[c] = "idle" /\ ~inBlock[c]
  /\ Accepted
  /\ Set(c, "block")
  /\ saved' = [saved EXCEPT ![c] = current[c]]
  /\ inBlock' = [inBlock EXCEPT ![c] = TRUE]
  /\ UNCHANGED <<cvars, implicit, cut, pc, endVars, spanVars>>

\* The opening span is submitted after the context is set, outside the try.
EnterRaises(c) ==
  /\ pc[c] = "idle" /\ ~inBlock[c]
  /\ CutOff(c)
  /\ UNCHANGED <<cvars, saved, inBlock, implicit, pc, endVars, spanVars>>

\* The terminal span goes first; if it raises, the context is not reset.
LeaveRun(c) ==
  /\ pc[c] = "idle" /\ inBlock[c]
  /\ \/ Accepted /\ Set(c, saved[c]) /\ UNCHANGED cut
     \/ CutOff(c)
  /\ saved' = [saved EXCEPT ![c] = "none"]
  /\ inBlock' = [inBlock EXCEPT ![c] = FALSE]
  /\ UNCHANGED <<cvars, implicit, pc, endVars, spanVars>>

-----------------------------------------------------------------------------
(* guard(): before the tool runs *)

\* A call with a run to land in, or one that opens an implicit run.
Call(c) ==
  /\ pc[c] = "idle"
  /\ \/ current[c] # "none" /\ UNCHANGED <<lastError, current, implicit>>
     \/ /\ current[c] = "none" /\ Accepted
        /\ Set(c, "call")
        /\ implicit' = [implicit EXCEPT ![c] = TRUE]
  /\ due' = [due EXCEPT ![c] = "none"]
  /\ Goto(c, "let_in")
  /\ UNCHANGED <<cvars, saved, inBlock, cut, ran, spanVars>>

\* The implicit run cannot be opened: refused, and the context stays set.
CallRaises(c) ==
  /\ pc[c] = "idle" /\ current[c] = "none"
  /\ CutOff(c)
  /\ due' = [due EXCEPT ![c] = "refused"]
  /\ UNCHANGED <<cvars, saved, inBlock, implicit, pc, ran, spanVars>>

\* _raise_pending_telemetry_error()
LetIn(c) ==
  /\ pc[c] = "let_in" /\ Accepted
  /\ Ask(c)
  /\ Goto(c, "checking")
  /\ UNCHANGED <<runVars, endVars, spanVars>>

\* Slip: a refused call leaves without the finally of its implicit run.
RefusedAtOnce(c) ==
  /\ pc[c] = "let_in" /\ Raised
  /\ due' = [due EXCEPT ![c] = "refused"]
  /\ Goto(c, "idle")
  /\ UNCHANGED <<cvars, runVars, ran, spanVars>>

Refused(c) ==
  /\ pc[c] = "let_in" /\ Raised
  /\ due' = [due EXCEPT ![c] = "refused"]
  /\ Goto(c, "leave")
  /\ UNCHANGED <<cvars, runVars, ran, spanVars>>

\* check_and_wait(), as GovernedCall has it.
Check(c) ==
  /\ pc[c] = "checking"
  /\ Render(c) \/ Leave(c)
  /\ UNCHANGED <<lastError, runVars, pc, endVars, spanVars>>

\* Slip: only a DENY keeps the tool from running.
DecideOnDeny(c) ==
  /\ pc[c] = "checking" /\ stage[c] \in Outcomes
  /\ due' = [due EXCEPT ![c] = IF stage[c] = "denied" THEN "denied" ELSE "none"]
  /\ Goto(c, IF stage[c] = "denied" THEN "record" ELSE "tool")
  /\ UNCHANGED <<cvars, lastError, runVars, ran, spanVars>>

\* A denial is recorded before ToolDenied is raised, a failed check is not.
Decide(c) ==
  /\ pc[c] = "checking"
  /\ \/ /\ stage[c] \in {"granted", "degraded"}
        /\ Goto(c, "tool")
        /\ UNCHANGED due
     \/ /\ stage[c] = "denied"
        /\ due' = [due EXCEPT ![c] = "denied"]
        /\ Goto(c, "record")
     \/ /\ stage[c] = "failed"
        /\ due' = [due EXCEPT ![c] = "failed"]
        /\ Goto(c, "leave")
  /\ UNCHANGED <<cvars, lastError, runVars, ran, spanVars>>

-----------------------------------------------------------------------------
(* guard(): the tool and what follows it *)

\* It returns, raises an Exception, or is cancelled.
RunTool(c) ==
  /\ pc[c] = "tool"
  /\ \E end \in ToolEnds : /\ due' = [due EXCEPT ![c] = end]
                           /\ ran' = [ran EXCEPT ![c] = end]
  /\ Goto(c, "record")
  /\ UNCHANGED <<cvars, lastError, runVars, spanVars>>

\* Slip: tool_span() is called without _record_tool_span() around it.
RecordUncaught(c) ==
  /\ pc[c] = "record"
  /\ \/ Accepted /\ recorded' = [recorded EXCEPT ![c] = TRUE] /\ UNCHANGED due
     \/ Raised /\ due' = [due EXCEPT ![c] = "refused"] /\ UNCHANGED recorded
  /\ Goto(c, "leave")
  /\ UNCHANGED <<cvars, runVars, ran, struck>>

\* _record_tool_span(): raising has taken the stored error, so the span is
\* submitted once more ...
Record(c) ==
  /\ pc[c] = "record"
  /\ \/ /\ Accepted
        /\ recorded' = [recorded EXCEPT ![c] = TRUE]
        /\ Goto(c, "leave")
     \/ /\ Raised
        /\ Goto(c, "again")
        /\ UNCHANGED recorded
  /\ UNCHANGED <<cvars, runVars, endVars, struck>>

\* Slip: ... and again and again.
RecordUntilAccepted(c) ==
  /\ pc[c] = "again"
  /\ \/ /\ Accepted
        /\ recorded' = [recorded EXCEPT ![c] = TRUE]
        /\ Goto(c, "leave")
     \/ Raised /\ UNCHANGED <<pc, recorded>>
  /\ UNCHANGED <<cvars, runVars, endVars, struck>>

\* ... and given up if another error has been stored in between.
RecordAgain(c) ==
  /\ pc[c] = "again"
  /\ \/ Accepted /\ recorded' = [recorded EXCEPT ![c] = TRUE]
     \/ Raised /\ UNCHANGED recorded
  /\ Goto(c, "leave")
  /\ UNCHANGED <<cvars, runVars, endVars, struck>>

\* Back at the caller, with what is due.
Over(c) ==
  /\ Goto(c, "idle")
  /\ ran' = [ran EXCEPT ![c] = "none"]
  /\ recorded' = [recorded EXCEPT ![c] = FALSE] /\ struck' = [struck EXCEPT ![c] = 0]

\* The call is over, or its implicit run has to be ended first.
LeaveCall(c) ==
  /\ pc[c] = "leave"
  /\ \/ stage[c] = "idle" /\ UNCHANGED cvars
     \/ Return(c)
  /\ \/ implicit[c] /\ Goto(c, "end") /\ UNCHANGED <<ran, spanVars>>
     \/ ~implicit[c] /\ Over(c)
  /\ UNCHANGED <<lastError, runVars, due>>

\* Slip: the context is never reset, as if only the span mattered.
EndOnly(c) ==
  /\ pc[c] = "end"
  /\ \/ Accepted /\ Set(c, "stale") /\ UNCHANGED <<due, cut>>
     \/ CutOff(c) /\ due' = [due EXCEPT ![c] = "telemetry_error"]
  /\ implicit' = [implicit EXCEPT ![c] = FALSE]
  /\ Over(c)
  /\ UNCHANGED <<cvars, saved, inBlock>>

\* The terminal span of the implicit run, in run()'s finally: if it raises, the
\* context is not reset.
EndImplicit(c) ==
  /\ pc[c] = "end"
  /\ \/ Accepted /\ Set(c, "none") /\ UNCHANGED <<due, cut>>
     \/ CutOff(c) /\ due' = [due EXCEPT ![c] = "telemetry_error"]
  /\ implicit' = [implicit EXCEPT ![c] = FALSE]
  /\ Over(c)
  /\ UNCHANGED <<cvars, saved, inBlock>>

-----------------------------------------------------------------------------
(* The exporter *)

LetInSince == {c \in Callers : pc[c] \in {"checking", "tool", "record", "again"}}

\* A flush fails.
StoreError ==
  /\ ~FailOpenTelemetry /\ ~lastError /\ lastError' = TRUE
  /\ struck' = [c \in Callers |->
                  IF c \in LetInSince /\ struck[c] < 2 THEN struck[c] + 1 ELSE struck[c]]
  /\ UNCHANGED <<cvars, runVars, pc, endVars, recorded>>

\* flush(), stop() or another submitter raises it, or start() replaces it.
TakenElsewhere ==
  /\ Raised
  /\ UNCHANGED <<cvars, runVars, pc, endVars, spanVars>>

-----------------------------------------------------------------------------
Before(c) == LetIn(c) \/ Refused(c) \/ Check(c) \/ Decide(c)
After(c) == RunTool(c) \/ Record(c) \/ RecordAgain(c) \/ LeaveCall(c) \/ EndImplicit(c)
Blocks(c) == EnterRun(c) \/ EnterRaises(c) \/ LeaveRun(c)

GuardNext ==
  \/ \E c \in Callers : Blocks(c) \/ Call(c) \/ CallRaises(c) \/ Before(c) \/ After(c)
  \/ StoreError \/ TakenElsewhere

GuardSpec == GuardInit /\ [][GuardNext]_vars

\* Checks come to an end (ChecksSettle of ToolChecks, and a human's approval
\* or its timeout), the tool returns, and the wrapper runs on.
Settles(c) == Check(c) /\ stage'[c] \in Outcomes
FairFor(c) ==
  WF_vars(pc[c] # "idle" /\ (LetIn(c) \/ Refused(c) \/ Settles(c) \/ Decide(c) \/ After(c)))

-----------------------------------------------------------------------------
(* What makes the component correct *)

\* guard()'s docstring: "Once the tool has run, a telemetry error is only
\* logged: it never replaces the tool's result or its exception."
OutcomeKept ==
  [][\A c \in Callers : pc[c] # "idle" /\ pc'[c] = "idle" /\ ran[c] # "none"
       => due'[c] = ran[c]]_vars

\* The same for the calls that found a run to land in, whatever other callers
\* and the exporter do meanwhile: only ending an implicit run is exempt.
OutcomeKeptInRuns ==
  [][\A c \in Callers : LeaveCall(c) /\ pc'[c] = "idle" /\ ran[c] # "none"
       => due'[c] = ran[c]]_vars

\* One telemetry error does not cost the span of a call: a tool that ran, or
\* was denied, goes unrecorded only if a second one struck the same call.
OneErrorCostsNoSpan ==
  \A c \in Callers :
    pc[c] \in {"leave", "end"} /\ (ran[c] # "none" \/ due[c] = "denied")
      => recorded[c] \/ struck[c] = 2

\* However a call ends (refused, denied, failed, cancelled), the implicit run
\* it opened is ended too; and a context goes on naming a run that is over, or
\* was never opened, only where a telemetry error took the place of its end, or
\* of its opening.
ImplicitRunsEnd ==
  \A c \in Callers :
    /\ pc[c] = "idle" => ~implicit[c] /\ (inBlock[c] \/ current[c] \notin {"block", "call"})
    /\ "stale" \in {current[c], saved[c]} => cut[c]

\* A guarded tool runs only on a verdict of ALLOW, or before any verdict where
\* the agent is configured to fail open.
RunsOnlyPermitted ==
  [][\A c \in Callers : RunTool(c) =>
       verdict[c] = "ALLOW" \/ (verdict[c] = "none" /\ FailOpen)]_vars

\* Every call returns, however often telemetry errors strike it.
CallsReturn == \A c \in Callers : pc[c] # "idle" ~> pc[c] = "idle"
=============================================================================
