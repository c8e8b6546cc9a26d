---------------------------- MODULE AnswerStream ----------------------------
(***************************************************************************)
(* One answer on its way from the model server to the caller: the frames   *)
(* the server sends, the network reads they arrive in, the client that     *)
(* takes the frames out of each read by itself, and the gateway's loop     *)
(* that passes them on and closes the turn.                                *)
(*                                                                         *)
(* A frame is represented by its kind, and by two halves: a read may end   *)
(* in the middle of one. Half a frame is no JSON and the other half does   *)
(* not begin with "data:".                                                 *)
(***************************************************************************)
EXTENDS Naturals, Sequences, InOrder

CONSTANT MaxBody    \* bound on the frames before the finish reason

\* A banner is llama-swap's own progress report: reasoning without an id.
BodyKinds == {"content", "reasoning", "tool", "banner"}
Finishes == {"stop", "tool_calls"}
FrameKinds == BodyKinds \cup Finishes \cup {"usage", "[DONE]"}

VARIABLES
    backend,     \* the model server's side of the exchange
    sent,        \* the frames it has sent
    readTo,      \* halves the client has read
    cut,         \* frames that a read has cut in two
    finish,      \* finishReason, as the client knows it
    usage,       \* whether it has a usage frame
    forwarded,   \* the frames passed on to the caller
    reply        \* how the turn was closed

answerVars == <<backend, sent, readTo, cut, finish, usage, forwarded, reply>>

NoReply == [outcome |-> "none", finish |-> "none", measured |-> FALSE]

AnswerInit ==
    /\ backend = "asked"
    /\ sent = <<>> /\ readTo = 0 /\ cut = {}
    /\ finish = "none" /\ usage = FALSE
    /\ forwarded = <<>> /\ reply = NoReply

Has(kind) == \E n \in DOMAIN sent : sent[n] = kind

\* The server takes the request, or refuses it with a status and a body that
\* may say that the prompt does not fit.
Accept ==
    /\ backend = "asked"
    /\ backend' = "body"
    /\ UNCHANGED <<sent, readTo, cut, finish, usage, forwarded, reply>>

\* backendFailure: what the caller is told. Only what is not its own fault is
\* offered for another try.
Failure(status, overflow) ==
    IF overflow THEN "context_length_exceeded"
    ELSE IF status \in 400..499 THEN "invalid_request"
    ELSE "replica_unavailable"

Refuse ==
    /\ backend = "asked"
    /\ backend' = "closed"
    /\ \E status \in {400, 500, 503}, overflow \in BOOLEAN :
          reply' = [NoReply EXCEPT !.outcome = Failure(status, overflow)]
    /\ UNCHANGED <<sent, readTo, cut, finish, usage, forwarded>>

Send(kind, next) ==
    /\ sent' = Append(sent, kind)
    /\ backend' = next
    /\ UNCHANGED <<readTo, cut, finish, usage, forwarded, reply>>

\* The body, the reason it finished for, the usage if it is told, the end mark.
SendBody ==
    /\ backend = "body"
    /\ Len(sent) < MaxBody
    /\ \E kind \in BodyKinds : Send(kind, "body")

SendFinish ==
    /\ backend = "body"
    /\ Send(IF Has("tool") THEN "tool_calls" ELSE "stop", "finished")

SendUsage == backend = "finished" /\ Send("usage", "told")

SendDone == backend \in {"finished", "told"} /\ Send("[DONE]", "closed")

\* It closes without the end mark; or falls silent, with the connection open.
FallSilent ==
    /\ backend \in {"body", "finished", "told"}
    /\ backend' \in {"closed", "stalled"}
    /\ UNCHANGED <<sent, readTo, cut, finish, usage, forwarded, reply>>

\* Mutant of IsOutput: a progress banner is reasoning like any other.
IsOutput_Banner(kind) == kind \in BodyKinds

\* What streamChat yields of a frame for the caller.
IsOutput(kind) == kind \in {"content", "reasoning", "tool"}

\* Mutant of FinishReason: a reason that was not heard is "stop".
FinishReason_Stop(f, passedOn) == IF f # "none" THEN f ELSE "stop"

\* The reason the caller is given, when the end is reached with the reason f.
FinishReason(f, passedOn) ==
    IF f # "none" THEN f
    ELSE IF \E n \in DOMAIN passedOn : sent[passedOn[n]] = "tool" THEN "tool_calls"
    ELSE "stop"

\* resolveUsage: the backend's count if it gave one, else an estimate.
CloseTurn(f, u, passedOn) ==
    [outcome |-> "complete", finish |-> FinishReason(f, passedOn), measured |-> u]

\* A read brings everything up to a half; its lines are split and looked at one
\* by one, and what a read does not hold whole is passed over.
Read(k) ==
    LET whole == {n \in DOMAIN sent : 2 * n - 1 > readTo /\ 2 * n <= k}
        ended == \E n \in whole : sent[n] = "[DONE]"
        passedOn == forwarded \o InOrder({n \in whole : IsOutput(sent[n])})
        reasons == {sent[n] : n \in whole} \cap Finishes
        f == IF reasons = {} THEN finish ELSE CHOOSE r \in reasons : TRUE
        u == usage \/ \E n \in whole : sent[n] = "usage"
    IN  /\ readTo' = k
        /\ cut' = cut \cup {n \in DOMAIN sent : 2 * n - 1 = k}
        /\ forwarded' = passedOn
        /\ finish' = f
        /\ usage' = u
        /\ reply' = IF ended THEN CloseTurn(f, u, passedOn) ELSE reply

ReadChunk ==
    /\ reply = NoReply
    /\ \E k \in (readTo + 1)..(2 * Len(sent)) : Read(k)
    /\ UNCHANGED <<backend, sent>>

\* The stream is over and the end mark was not among what was understood.
ReadEnd ==
    /\ reply = NoReply
    /\ backend = "closed"
    /\ readTo = 2 * Len(sent)
    /\ reply' = CloseTurn(finish, usage, forwarded)
    /\ UNCHANGED <<backend, sent, readTo, cut, finish, usage, forwarded>>

\* The connection breaks, or no frame came for as long as the deadline allows.
ReadFails ==
    /\ reply = NoReply
    /\ backend # "asked"
    /\ \E outcome \in {"replica_unavailable", "timeout"} :
          reply' = [NoReply EXCEPT !.outcome = outcome]
    /\ UNCHANGED <<backend, sent, readTo, cut, finish, usage, forwarded>>

AnswerNext ==
    \/ Accept \/ Refuse \/ SendBody \/ SendFinish \/ SendUsage \/ SendDone \/ FallSilent
    \/ ReadChunk \/ ReadEnd \/ ReadFails

AnswerSpec == AnswerInit /\ [][AnswerNext]_answerVars

-----------------------------------------------------------------------------

AnswerTypeOK ==
    /\ backend \in {"asked", "body", "finished", "told", "closed", "stalled"}
    /\ sent \in Seq(FrameKinds)
    /\ readTo \in 0..(2 * Len(sent)) /\ cut \subseteq DOMAIN sent
    /\ finish \in Finishes \cup {"none"} /\ usage \in BOOLEAN
    /\ forwarded \in Seq(DOMAIN sent)
    /\ reply \in [outcome : {"none", "complete", "timeout", "replica_unavailable",
                             "invalid_request", "context_length_exceeded"},
                  finish : Finishes \cup {"none"}, measured : BOOLEAN]

\* The caller gets what the model said and the client has read, once each and
\* in order, whatever reads it came in: only a frame that a read cut in two is
\* missing, and a progress banner is never taken for output.
OutputInOrder ==
    LET said == {n \in DOMAIN sent : sent[n] \in BodyKinds \ {"banner"}}
    IN  /\ \A i, j \in DOMAIN forwarded : i < j => forwarded[i] < forwarded[j]
        /\ {forwarded[i] : i \in DOMAIN forwarded} =
              {n \in said : 2 * n <= readTo /\ n \notin cut}

\* A turn is closed as what it was, also when the frame with the reason, or the
\* end mark, was lost: one that handed the caller a tool call is not over; and the
\* caller is told the count the server made, unless it made none or its frame was
\* cut in two: never an estimate in place of a count that came.
TurnClosedTruly ==
    reply.outcome = "complete" =>
        /\ (\E i \in DOMAIN forwarded : sent[forwarded[i]] = "tool") => reply.finish = "tool_calls"
        /\ reply.measured <=>
              \E n \in DOMAIN sent : sent[n] = "usage" /\ 2 * n <= readTo /\ n \notin cut

=============================================================================
