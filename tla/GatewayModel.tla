---------------------------- MODULE GatewayModel ----------------------------
(***************************************************************************)
(* MatimoLlm, the model that Google ADK agents reach through Gateway: the  *)
(* conversation turned into chat messages (_adk_openai.py), and the answer *)
(* turned back, whole or put together from a stream of fragments.          *)
(*                                                                         *)
(* A content is what ADK keeps of a turn: who speaks, whether there is any *)
(* text, the tool calls made, the tool results given.  Tools may have been *)
(* interrupted, so results may be missing or come turns later.  System     *)
(* instruction, media, schemas and parameters are left out.                *)
(***************************************************************************)
EXTENDS Naturals, SequencesExt, FiniteSetsExt

CONSTANT MaxTurns   \* bound: contents in a conversation; the answer to so many only breaks

VARIABLES
  contents,   \* the conversation
  request,    \* the messages whose answer is awaited, or <<>>
  answer,     \* what the backend means to say: a record of Answers, or {}
  fed,        \* how much of it the stream has brought: of the text, of each call
  textParts,      \* text_parts of stream_llm_responses()
  functionCalls,  \* function_calls, by index
  delivered   \* the response just handed to ADK, and what was meant; or {}

gmStream == <<fed, textParts, functionCalls>>
gmVars == <<contents, request, answer, gmStream, delivered>>

\* Text in two fragments or none; calls of two fragments each, with ids from
\* the backend or without.
Answers == {a \in [text : {0, 2}, calls : 0..2, ids : BOOLEAN] :
              /\ a.text + a.calls > 0
              /\ a.calls = 0 => a.ids}
Indexes == 1..2
Unidentified == 0
NoId == <<Unidentified, 0>>

Unfed == [text |-> 0, calls |-> <<0, 0>>]
NoCalls == [i \in {} |-> 0]

GMInit ==
  /\ contents = <<>> /\ request = <<>>
  /\ answer = {} /\ delivered = {}
  /\ fed = Unfed /\ textParts = <<>> /\ functionCalls = NoCalls

-----------------------------------------------------------------------------
(* From contents to messages *)

Message(role, calls, result) == [role |-> role, calls |-> calls, result |-> result, real |-> TRUE]
Placeholder(id) == [role |-> "tool", calls |-> <<>>, result |-> id, real |-> FALSE]
Mapped(Op(_), s) == [i \in DOMAIN s |-> Op(s[i])]

\* _content_to_openai_messages(): the results first, then what else there is.
MessagesOf(c) ==
  Mapped(LAMBDA id : Message("tool", <<>>, id), c.results)
    \o IF c.text \/ c.calls # <<>>
       THEN <<Message(IF c.role = "user" THEN "user" ELSE "assistant", c.calls, NoId)>>
       ELSE <<>>

\* _append_fallback_user_content_if_missing()
Fallback == [role |-> "user", text |-> TRUE, calls |-> <<>>, results |-> <<>>]
WithUserContent(cs) ==
  LET spoken == {i \in DOMAIN cs : cs[i].role = "user"}
      last == Max(spoken)
  IN  IF spoken = {} THEN Append(cs, Fallback)
      ELSE IF cs[last].text \/ cs[last].results # <<>> THEN cs
      ELSE [cs EXCEPT ![last].text = TRUE]

\* Slip: what a user turn leaves unanswered is looked for before the user turn
\* only, not before the next turn of the model.
HealBeforeUsers(state, m) ==
  [healed  |-> state.healed
                 \o (IF m.role = "user" THEN Mapped(Placeholder, state.pending) ELSE <<>>)
                 \o <<m>>,
   pending |-> IF m.role = "tool" THEN RemoveFirst(state.pending, m.result) ELSE m.calls]

\* One round of _ensure_tool_results(): pending calls get a placeholder before
\* any message that is no tool result.
Heal(state, m) ==
  [healed  |-> state.healed
                 \o (IF m.role # "tool" THEN Mapped(Placeholder, state.pending) ELSE <<>>)
                 \o <<m>>,
   pending |-> IF m.role = "tool" THEN RemoveFirst(state.pending, m.result) ELSE m.calls]

\* Where _ensure_tool_results() stands after each of its rounds.
Rounds(ms) ==
  LET after[i \in 0..Len(ms)] ==
        IF i = 0 THEN [healed |-> <<>>, pending |-> <<>>] ELSE Heal(after[i - 1], ms[i])
  IN  after

EnsureToolResults(ms) ==
  LET last == Rounds(ms)[Len(ms)] IN last.healed \o Mapped(Placeholder, last.pending)

Flat(cs) == FlattenSeq(Mapped(MessagesOf, cs))

-----------------------------------------------------------------------------
(* The conversation *)

Speaks(c) ==
  /\ answer = {} /\ Len(contents) < MaxTurns
  /\ contents' = Append(contents, c)
  /\ delivered' = {}
  /\ UNCHANGED <<request, answer, gmStream>>

User == \E t \in BOOLEAN : Speaks([Fallback EXCEPT !.text = t])

Called == UNION {ToSet(contents[i].calls) : i \in DOMAIN contents}
Times(id, Of(_)) == Cardinality({i \in DOMAIN contents : id \in ToSet(Of(contents[i]))})
Unanswered == {id \in Called : Times(id, LAMBDA c : c.results) < Times(id, LAMBDA c : c.calls)}

\* Results of some of the calls made so far, with text or not.
ToolResults ==
  \E ids \in SUBSET Unanswered \ {{}}, t \in BOOLEAN :
    Speaks([Fallback EXCEPT !.text = t, !.results = SetToSeq(ids)])

\* generate_content_async() up to the request
Ask ==
  /\ answer = {}
  /\ request' = EnsureToolResults(Flat(WithUserContent(contents)))
  /\ \E a \in Answers : answer' = {a}
  /\ delivered' = {}
  /\ UNCHANGED <<contents, gmStream>>

-----------------------------------------------------------------------------
(* The answer *)

Meant == CHOOSE a \in answer : TRUE
IdOf(i) == IF Meant.ids THEN <<Len(contents) + 1, i>> ELSE NoId
Fragments == <<1, 2>>
Answering == answer # {} /\ Len(contents) < MaxTurns

\* Slip: fragments are put together as they come, not by their index.
IndexOfLatest(i) == IF functionCalls = NoCalls THEN i ELSE Max(DOMAIN functionCalls)

Index(i) == i

TextDelta ==
  /\ Answering /\ fed.text < Meant.text
  /\ fed' = [fed EXCEPT !.text = @ + 1]
  /\ textParts' = Append(textParts, fed.text + 1)
  /\ UNCHANGED <<contents, request, answer, functionCalls, delivered>>

\* The first fragment of a call names it.
CallDelta(i) ==
  /\ Answering /\ i <= Meant.calls /\ fed.calls[i] < 2
  /\ fed' = [fed EXCEPT !.calls[i] = @ + 1]
  /\ LET first == fed.calls[i] = 0
         at == Index(i)
         entry == IF at \in DOMAIN functionCalls THEN functionCalls[at]
                  ELSE [id |-> NoId, name |-> <<>>, args |-> <<>>]
         grown == [id   |-> IF first /\ Meant.ids THEN IdOf(i) ELSE entry.id,
                   name |-> IF first THEN Append(entry.name, i) ELSE entry.name,
                   args |-> Append(entry.args, fed.calls[i] + 1)]
     IN functionCalls' = [j \in DOMAIN functionCalls \cup {at} |->
                            IF j = at THEN grown ELSE functionCalls[j]]
  /\ UNCHANGED <<contents, request, answer, textParts, delivered>>

\* _parse_tool_call_arguments(): arguments cut off parse as no arguments.
Parsed(args) == IF args = Fragments THEN args ELSE <<>>

\* _message_to_llm_response() and the mapped finish reason
Response(text, calls, reason) ==
  [text |-> text, error |-> reason = "length",
   calls |-> Mapped(LAMBDA c : [c EXCEPT !.args = Parsed(c.args)], calls)]

\* sorted()
Sorted(S) ==
  CHOOSE s \in [1..Cardinality(S) -> S] : \A i, j \in DOMAIN s : i < j => s[i] < s[j]

Gathered ==
  LET order == Sorted(DOMAIN functionCalls)
  IN  Mapped(LAMBDA i : [functionCalls[i] EXCEPT
                           !.id = IF @ = NoId THEN <<Unidentified, i>> ELSE @], order)

Done ==
  /\ answer' = {} /\ request' = <<>>
  /\ fed' = Unfed /\ textParts' = <<>> /\ functionCalls' = NoCalls

Deliver(response) ==
  /\ delivered' = {[meant |-> Meant, response |-> response]}
  /\ contents' = Append(contents, [role |-> "model", text |-> response.text # <<>>,
                                   calls |-> Mapped(LAMBDA c : c.id, response.calls),
                                   results |-> <<>>])
  /\ Done

\* The stream ends, with everything said or cut off at the token limit.
StreamEnds ==
  /\ Answering
  /\ LET all == fed.text = Meant.text /\ \A i \in 1..Meant.calls : fed.calls[i] = 2
     IN  \/ all /\ Deliver(Response(textParts, Gathered, "stop"))
         \/ ~all /\ Deliver(Response(textParts, Gathered, "length"))

Said(a, ids) ==
  [text  |-> IF a.text = 0 THEN <<>> ELSE Fragments,
   calls |-> [i \in 1..a.calls |-> [id |-> ids[i], name |-> <<i>>, args |-> Fragments]]]

\* completion_to_llm_response(): the answer comes whole, and with ids.
Completion ==
  /\ Answering /\ Meant.ids /\ fed = Unfed
  /\ LET said == Said(Meant, [i \in Indexes |-> IdOf(i)])
     IN  Deliver(Response(said.text, said.calls, "stop"))

\* The request fails or the connection breaks: an exception, and no response.
Breaks ==
  /\ answer # {} /\ Done
  /\ UNCHANGED <<contents, delivered>>

GMRest == Len(contents) = MaxTurns /\ UNCHANGED gmVars

GMNext ==
  \/ User \/ ToolResults \/ Ask \/ TextDelta \/ (\E i \in Indexes : CallDelta(i))
  \/ StreamEnds \/ Completion \/ Breaks \/ GMRest

GMSpec == GMInit /\ [][GMNext]_gmVars

-----------------------------------------------------------------------------
(* What makes the component correct *)

GMTypeOK ==
  /\ Len(contents) <= MaxTurns
  /\ \A i \in DOMAIN contents :
       contents[i].role = "user" => contents[i].calls = <<>>
  /\ \A i \in DOMAIN request : request[i].role \in {"user", "assistant", "tool"}
  /\ DOMAIN functionCalls \subseteq Indexes
  /\ \A i \in DOMAIN functionCalls : functionCalls[i].args \in {<<1>>, Fragments}

\* How many of the first j messages are no placeholders.
Rank(ms, j) == Cardinality({k \in 1..j : ms[k].real})

\* What backends insist on: every call of an assistant message is answered by
\* one of the tool messages right after it, however tools were interrupted and
\* results delayed; and the history itself is sent complete and in order.
ChatAnswered ==
  /\ \A i \in DOMAIN request : request[i].role = "assistant" =>
       \A id \in ToSet(request[i].calls) : \E j \in (i + 1)..Len(request) :
          request[j].result = id /\ \A k \in (i + 1)..j : request[k].role = "tool"
  /\ answer # {} =>
       LET history == Flat(WithUserContent(contents))
       IN  /\ Rank(request, Len(request)) = Len(history)
           /\ \A j \in DOMAIN request :
                request[j].real => request[j] = history[Rank(request, j)]

\* However the fragments of text and calls interleave, the response is what the
\* backend meant; cut off, it is flagged, and no call has half its arguments.
StreamWhole ==
  \A d \in delivered :
    LET said == d.response
        whole == Said(d.meant, [i \in DOMAIN said.calls |-> said.calls[i].id])
    IN  /\ ~said.error => /\ Len(said.calls) = d.meant.calls
                          /\ said.text = whole.text /\ said.calls = whole.calls
        /\ \A i \in DOMAIN said.calls : \/ said.calls[i].args = Fragments
                                        \/ said.error /\ said.calls[i].args = <<>>
        /\ \A i, j \in DOMAIN said.calls : said.calls[i].id = said.calls[j].id => i = j
=============================================================================
