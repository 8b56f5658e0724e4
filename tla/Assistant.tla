----------------------------- MODULE Assistant ------------------------------
(***************************************************************************)
(* The chat page of the documentation site (routes/chat.tsx) over the chat *)
(* object that useChat gives it, and the handler that answers              *)
(* (routes/api/chat.ts).  A request streams its answer into the            *)
(* transcript; the page keeps one status for all of them and guards some   *)
(* of its buttons with it.                                                 *)
(*                                                                         *)
(* The chat object is a library: what it does is taken from how the page   *)
(* uses it.  An answer is a block of code that arrives symbol by symbol.   *)
(***************************************************************************)
EXTENDS Highlighter

CONSTANTS
    MaxQuestions,   \* bound on the questions put to the assistant
    MaxSymbols      \* bound on what an answer holds

ASSUME AssistantAssumption == MaxQuestions \in Nat /\ MaxSymbols \in Nat

VARIABLES
    messages,   \* the transcript
    streams,    \* the requests under way: the number of the question, and what
                \* has come of its answer
    status,     \* "ready", "submitted", "streaming" or "error"
    active,     \* the request that stop() reaches, or 0
    asked,      \* auxiliary: how many questions have been put
    overtaken   \* auxiliary: the transcript was emptied under a running request

chat == <<messages, streams, status, active, asked, overtaken>>

Message(by, of, code) == [by |-> by, of |-> of, code |-> code]

Busy == status \in {"submitted", "streaming"}

-----------------------------------------------------------------------------
(* The chat object. *)

EmptyChat ==
    /\ messages = <<>> /\ streams = {} /\ status = "ready" /\ active = 0
    /\ overtaken = FALSE

\* sendMessage(): the question joins the transcript that was there, and goes out.
Send(before, under) ==
    /\ asked < MaxQuestions
    /\ asked' = asked + 1
    /\ messages' = Append(before, Message("reader", asked', <<>>))
    /\ streams' = under \union {[of |-> asked', code |-> <<>>]}
    /\ status' = "submitted" /\ active' = asked'

\* What has come of an answer replaces the last message, if that is its own.
Written(r) ==
    IF messages # <<>> /\ Last(messages).by = "assistant" /\ Last(messages).of = r.of
    THEN [messages EXCEPT ![Len(messages)].code = r.code]
    ELSE Append(messages, Message("assistant", r.of, r.code))

Receive(r, symbol) ==
    LET more == [r EXCEPT !.code = Append(@, symbol)] IN
    /\ Len(r.code) < MaxSymbols
    /\ streams' = (streams \ {r}) \union {more}
    /\ messages' = Written(more)
    /\ status' = "streaming"
    /\ UNCHANGED <<active, asked, overtaken>>

\* The handler has answered in full; or it had no key, could not read the
\* transcript, or lost the model: one status and one error for every request.
Settle(r, outcome) ==
    /\ streams' = streams \ {r}
    /\ status' = outcome
    /\ active' = 0
    /\ UNCHANGED <<messages, asked, overtaken>>

-----------------------------------------------------------------------------
(* What the reader can press. *)

\* Mutant: a question goes out while another is being answered.
SubmitAnyway == Send(messages, streams) /\ UNCHANGED overtaken

Submit == ~Busy /\ Send(messages, streams) /\ UNCHANGED overtaken

\* A suggestion is there as long as the transcript is empty.
Suggest == messages = <<>> /\ Send(messages, streams) /\ UNCHANGED overtaken

Stop ==
    /\ Busy /\ active # 0
    /\ streams' = {r \in streams : r.of # active}
    /\ status' = "ready" /\ active' = 0
    /\ UNCHANGED <<messages, asked, overtaken>>

\* setMessages([]): the running request is not stopped.
NewChat ==
    /\ messages # <<>>
    /\ messages' = <<>>
    /\ overtaken' = (overtaken \/ streams # {})
    /\ UNCHANGED <<streams, status, active, asked>>

Converse ==
    \/ Submit \/ Suggest \/ Stop \/ NewChat
    \/ \E r \in streams :
          \/ \E symbol \in Symbols : Receive(r, symbol)
          \/ \E outcome \in {"ready", "error"} : Settle(r, outcome)

-----------------------------------------------------------------------------
(* Properties. *)

ChatTypeOK ==
    /\ messages \in Seq([by : {"reader", "assistant"}, of : 1..asked, code : Seq(Symbols)])
    /\ streams \subseteq [of : 1..asked, code : Seq(Symbols)]
    /\ status \in {"ready", "submitted", "streaming", "error"}
    /\ active \in 0..asked /\ asked \in 0..MaxQuestions /\ overtaken \in BOOLEAN

\* An answer stands right behind its question and nobody else's, one request is
\* under way at a time, and the page says so exactly while it is: unless the
\* reader has started a new chat while an answer was coming.
AnswersFollowTheirQuestions ==
    /\ ChatTypeOK
    /\ ~overtaken =>
          /\ \A i \in DOMAIN messages : messages[i].by = "assistant" =>
                i > 1 /\ messages[i - 1] = Message("reader", messages[i].of, <<>>)
          /\ \A r, s \in streams : r = s
          /\ Busy <=> streams # {}
          /\ Busy => active = messages[Len(messages)].of /\ \E r \in streams : r.of = active

\* The C++ in an answer is shown as it was sent, however much of it has come:
\* colouring takes nothing away and puts nothing in, unless what one pass marks
\* stands inside what a later one marks.
ShownIsTheSource ==
    \A i \in DOMAIN messages :
        LET code == Trimmed(messages[i].code) IN
        ~OneInAnother(code) => Shown(code) = code
=============================================================================
