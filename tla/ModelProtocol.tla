---------------------------- MODULE ModelProtocol ---------------------------
(***************************************************************************)
(* What packages/model_api/client.py makes of a provider's answer, for the *)
(* three wire protocols it speaks: whether it is the complete text that    *)
(* was asked for, something worth another attempt, or a refusal.           *)
(***************************************************************************)

Protocols == {"openai_chat_completions", "openai_responses",
              "anthropic_messages"}

\* The reasons for stopping that are told apart; "other" is one the code does
\* not know (a tool call, a content filter), "missing" none at all.
Truncations == {"length", "max_tokens", "max_output_tokens",
                "model_context_window_exceeded"}
Aborts == {"failed", "incomplete", "aborted"}
Reasons == Truncations \cup Aborts \cup
              {"stop", "completed", "end_turn", "stop_sequence", "other",
               "missing"}

\* An HTTP answer: its body is a JSON object with a stop reason, the text it
\* holds ("" or not), a refusal, and, in the responses protocol, an error or
\* an output item that is not complete.
Payload == [protocol: Protocols, reason: Reasons, text: BOOLEAN,
            refusal: BOOLEAN, broken: BOOLEAN]

\* What _send_request returns or raises: an answer, a status that is worth a
\* retry (408, 409, 429, 5xx) or not, no connection, a time-out, or no JSON.
SendErrors == {"status_transient", "status_final", "unavailable", "not_json"}

ErrorOutcome(error) == IF error = "status_final" THEN "refused" ELSE "transient"

\* The stop reasons of a normal end.
Expected(protocol) ==
    CASE protocol = "openai_chat_completions" -> {"stop"}
      [] protocol = "openai_responses"        -> {"completed"}
      [] protocol = "anthropic_messages"      -> {"end_turn", "stop_sequence"}

\* _validate_completion; a refusal is only looked for in the OpenAI formats.
Validated(p) ==
    CASE p.reason \in Truncations -> "transient"
      [] p.reason \notin Truncations /\ p.protocol = "openai_responses"
            /\ p.broken -> "transient"
      [] p.reason \notin Truncations
            /\ ~(p.protocol = "openai_responses" /\ p.broken)
            /\ p.refusal /\ p.protocol # "anthropic_messages" -> "refused"
      [] OTHER -> IF p.reason \in Expected(p.protocol) THEN "complete"
                  ELSE IF p.reason \in Aborts \cup {"missing"} THEN "transient"
                  ELSE "refused"

\* Mutant of PayloadOutcome: an answer without a reason is taken for its text.
PayloadOutcomeByText(p) ==
    CASE p.reason # "missing" /\ Validated(p) # "complete" -> Validated(p)
      [] OTHER -> IF p.text THEN "complete" ELSE "transient"

\* A stated reason is inspected before the text, so that a refusal without
\* text is not retried; then the text; then the reason again.
PayloadOutcome(p) ==
    CASE p.reason # "missing" /\ Validated(p) # "complete" -> Validated(p)
      [] ~(p.reason # "missing" /\ Validated(p) # "complete") /\ ~p.text
            -> "transient"
      [] OTHER -> Validated(p)

\* How an attempt can come out.
Outcomes == {ErrorOutcome(e) : e \in SendErrors}
               \cup {PayloadOutcome(p) : p \in Payload}
=============================================================================
