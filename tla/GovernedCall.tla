---------------------------- MODULE GovernedCall ----------------------------
(***************************************************************************)
(* What a governed tool check promises its caller, with no breaker, no     *)
(* clock and no polling: a caller asks Gateway about one tool call, the    *)
(* Gateway renders verdicts, and the caller leaves with                    *)
(*   granted   only if the latest verdict is ALLOW,                        *)
(*   degraded  only if no verdict was ever rendered for this call and the  *)
(*             agent is configured to fail open,                           *)
(*   denied    only after a verdict that was not ALLOW,                    *)
(*   failed    (an exception) only while no final verdict was rendered.    *)
(* A PENDING never leaves the check.                                       *)
(***************************************************************************)
CONSTANTS Callers, FailOpen

VARIABLES stage, verdict
cvars == <<stage, verdict>>

Outcomes == {"granted", "degraded", "denied", "failed"}

Init == /\ stage = [c \in Callers |-> "idle"]
        /\ verdict = [c \in Callers |-> "none"]

Ask(c) == /\ stage[c] = "idle"
          /\ stage' = [stage EXCEPT ![c] = "asking"]
          /\ UNCHANGED verdict

\* A PENDING may be followed by another verdict; ALLOW and DENY are final.
Render(c) == /\ stage[c] = "asking"
             /\ verdict[c] \in {"none", "PENDING"}
             /\ \E v \in {"ALLOW", "DENY", "PENDING"} :
                  verdict' = [verdict EXCEPT ![c] = v]
             /\ UNCHANGED stage

MayLeave(c, outcome) ==
  \/ outcome = "granted"  /\ verdict[c] = "ALLOW"
  \/ outcome = "degraded" /\ verdict[c] = "none" /\ FailOpen
  \/ outcome = "denied"   /\ verdict[c] \in {"DENY", "PENDING"}
  \/ outcome = "failed"   /\ verdict[c] \in {"none", "PENDING"}

Leave(c) == /\ stage[c] = "asking"
            /\ \E outcome \in Outcomes :
                 /\ MayLeave(c, outcome)
                 /\ stage' = [stage EXCEPT ![c] = outcome]
            /\ UNCHANGED verdict

Return(c) == /\ stage[c] \in Outcomes
             /\ stage' = [stage EXCEPT ![c] = "idle"]
             /\ verdict' = [verdict EXCEPT ![c] = "none"]

Next == \E c \in Callers : Ask(c) \/ Render(c) \/ Leave(c) \/ Return(c)

Spec == Init /\ [][Next]_cvars
=============================================================================
