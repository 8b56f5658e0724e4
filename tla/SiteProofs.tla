----------------------------- MODULE SiteProofs -----------------------------
(***************************************************************************)
(* One tab of the documentation site keeps its promises whatever is        *)
(* followed, loaded, typed and asked, for any history, texts, groups and   *)
(* number of questions: every question a link carries is put once, the     *)
(* shell shows what is so, an answer stands behind its own question, and   *)
(* the code in it is shown as it was sent.                                 *)
(***************************************************************************)
EXTENDS Site, SequenceTheorems, WellFoundedInduction, TLAPS

Entry(n) == [page : {"chat", "other"}, question : 0..n]

\* A history of entries whose questions, up to the n-th, are still to be put, and
\* the questions that were: a question is in one place at most.
Links(urls, questions, n) ==
    /\ urls \in Seq(Entry(n)) /\ Len(urls) <= MaxEntries
    /\ questions \in Seq(1..n)
    /\ \A i, j \in DOMAIN questions : questions[i] = questions[j] => i = j
    /\ \A i, j \in DOMAIN urls :
          urls[i].question = urls[j].question /\ urls[i].question # 0 => i = j
    /\ \A i \in DOMAIN urls : urls[i].question \notin ToSet(questions)

TabInv ==
    /\ Links(entries, put, carried)
    /\ at \in DOMAIN entries
    /\ carried \in 0..MaxLinks /\ ignored \subseteq 1..carried
    /\ 1..carried \ ignored \subseteq ToSet(put)

\* The filter is one that the results for the text have.
ShellInv ==
    /\ {dark, icon, pressed, help} \subseteq BOOLEAN
    /\ stored \in {{}, {"dark"}, {"light"}} /\ chord \in {"none", "g"}
    /\ search \in [open : BOOLEAN, text : Texts, filter : Groups \union {All}]
    /\ search.filter # All => search.filter \in GroupsOf[search.text]
    /\ dark = IF stored = {} THEN PrefersDark ELSE stored = {"dark"}
    /\ icon = dark \/ pressed

Messages(n) == [by : {"reader", "assistant"}, of : 1..n, code : Seq(Symbols)]
Requests(n) == [of : 1..n, code : Seq(Symbols)]

Answered(log) ==
    \A i \in DOMAIN log : log[i].by = "assistant" =>
        i > 1 /\ log[i - 1] = Message("reader", log[i].of, <<>>)

\* What comes next belongs to the last message: it is the question, or what has
\* come of its answer.
InTurn(log, requests) ==
    \A r \in requests :
        /\ active = r.of /\ log # <<>>
        /\ log[Len(log)].of = r.of
        /\ log[Len(log)].by = "reader" => log[Len(log)] = Message("reader", r.of, <<>>)

ChatInv ==
    /\ ChatTypeOK
    /\ ~overtaken =>
          /\ Answered(messages) /\ InTurn(messages, streams)
          /\ \A r, s \in streams : r = s
          /\ Busy <=> streams # {}

IInv == TabInv /\ ShellInv /\ ChatInv

-----------------------------------------------------------------------------
(* The chat. *)

Outcome == {"ready", "submitted", "streaming", "error"}

\* More questions may have been asked.
LEMMA ChatTypesGrow ==
    ASSUME NEW n \in Nat, NEW m \in Nat, n <= m
    PROVE  /\ Messages(n) \subseteq Messages(m) /\ Seq(Messages(n)) \subseteq Seq(Messages(m))
           /\ Requests(n) \subseteq Requests(m)
<1>1. 1..n \subseteq 1..m
  OBVIOUS
<1>2. Messages(n) \subseteq Messages(m) /\ Requests(n) \subseteq Requests(m)
  BY <1>1 DEF Messages, Requests
<1> QED BY <1>2

LEMMA ChatIsTyped ==
    ChatTypeOK <=>
        /\ messages \in Seq(Messages(asked)) /\ streams \subseteq Requests(asked)
        /\ status \in Outcome
        /\ active \in 0..asked /\ asked \in 0..MaxQuestions /\ overtaken \in BOOLEAN
BY DEF ChatTypeOK, Messages, Requests, Outcome

\* An empty chat, whatever was there before.
LEMMA EmptyChatKeeps ==
    ASSUME ChatInv, messages' = <<>>, streams' = {}, status' = "ready", active' = 0,
           overtaken' = FALSE, asked' = asked
    PROVE  ChatInv'
<1>1. asked' \in 0..MaxQuestions /\ active' \in 0..asked'
  BY AssistantAssumption DEF ChatInv, ChatTypeOK
<1>2. ChatTypeOK'
  <2>1. messages' \in Seq(Messages(asked')) /\ streams' \subseteq Requests(asked')
    OBVIOUS
  <2> QED BY <1>1, <2>1 DEF ChatTypeOK, Messages, Requests
<1>3. Answered(messages') /\ InTurn(messages, streams)'
  BY DEF Answered, InTurn
<1> QED BY <1>2, <1>3 DEF ChatInv, Busy, Answered, InTurn

\* A question that goes out behind a transcript nobody is writing to.
LEMMA SendKeeps ==
    ASSUME ChatInv, NEW before \in Seq(Messages(asked)), NEW under, Send(before, under),
           overtaken' \in BOOLEAN,
           under \subseteq Requests(asked),
           ~overtaken' => Answered(before) /\ under = {}
    PROVE  ChatInv'
<1> DEFINE question == Message("reader", asked', <<>>)
           request == [of |-> asked', code |-> <<>>]
<1>1. /\ asked \in Nat /\ asked' = asked + 1 /\ asked' \in 0..MaxQuestions
      /\ asked' \in 1..asked' /\ active' = asked' /\ status' = "submitted"
      /\ messages' = Append(before, question) /\ streams' = under \union {request}
  BY AssistantAssumption DEF ChatInv, ChatTypeOK, Send
<1>2. question \in Messages(asked') /\ request \in Requests(asked')
  BY <1>1 DEF Message, Messages, Requests
<1>3. question.by = "reader" /\ question.of = asked' /\ request.of = asked'
  BY DEF Message
<1> HIDE DEF question, request
<1>4. before \in Seq(Messages(asked')) /\ under \subseteq Requests(asked')
  BY <1>1, ChatTypesGrow
<1>5. /\ messages' \in Seq(Messages(asked')) /\ Len(messages') = Len(before) + 1
      /\ Len(before) \in Nat /\ DOMAIN before = 1..Len(before)
      /\ \A i \in 1..Len(before) : messages'[i] = before[i]
      /\ messages'[Len(before) + 1] = question
  BY <1>1, <1>2, <1>4, AppendProperties
<1>6. ChatTypeOK'
  BY <1>1, <1>2, <1>4, <1>5 DEF ChatTypeOK, Messages, Requests
<1>7. ASSUME ~overtaken'
      PROVE  /\ Answered(messages)' /\ InTurn(messages, streams)'
             /\ (\A r, s \in streams : r = s)'
             /\ (Busy <=> streams # {})'
  <2>1. streams' = {request}
    BY <1>1, <1>7
  <2>2. Answered(messages)'
    <3> SUFFICES ASSUME NEW i \in 1..(Len(before) + 1), messages'[i].by = "assistant"
                 PROVE  i > 1 /\ messages'[i - 1] = Message("reader", messages'[i].of, <<>>)
      BY <1>5 DEF Answered
    <3>1. i \in 1..Len(before)
      BY <1>3, <1>5
    <3>2. i > 1 /\ before[i - 1] = Message("reader", before[i].of, <<>>)
      BY <1>5, <1>7, <3>1 DEF Answered
    <3> QED BY <1>5, <3>1, <3>2
  <2>3. InTurn(messages, streams)'
    <3>1. messages' # <<>> /\ messages'[Len(messages')] = question
      BY <1>5
    <3> QED BY <1>1, <1>3, <2>1, <3>1 DEF InTurn, question
  <2> QED BY <1>1, <2>1, <2>2, <2>3 DEF Busy
<1> QED BY <1>6, <1>7 DEF ChatInv

\* What has come of an answer is written behind its question.
LEMMA ReceiveKeeps ==
    ASSUME ChatInv, NEW r \in streams, NEW symbol \in Symbols, Receive(r, symbol)
    PROVE  ChatInv'
<1> DEFINE more == [r EXCEPT !.code = Append(@, symbol)]
           n == Len(messages)
           own == n > 0 /\ messages[n].by = "assistant" /\ messages[n].of = r.of
<1>0. n = Len(messages)
  OBVIOUS
<1>1. /\ messages \in Seq(Messages(asked)) /\ streams \subseteq Requests(asked)
      /\ n \in Nat /\ DOMAIN messages = 1..n
      /\ \A i \in 1..n : messages[i] \in Messages(asked)
  BY ChatIsTyped DEF ChatInv
<1>2. more \in Requests(asked) /\ more.of = r.of /\ more.code \in Seq(Symbols)
  <2>1. r.of \in 1..asked /\ r.code \in Seq(Symbols) /\ r \in Requests(asked)
    BY <1>1 DEF Requests
  <2>2. Append(r.code, symbol) \in Seq(Symbols)
    BY <2>1, AppendProperties
  <2> QED BY <2>1, <2>2 DEF Requests
<1>3. /\ streams' = (streams \ {r}) \union {more} /\ status' = "streaming"
      /\ UNCHANGED <<active, asked, overtaken>>
  BY DEF Receive
<1>4. messages' = IF own THEN [messages EXCEPT ![n].code = more.code]
                         ELSE Append(messages, Message("assistant", r.of, more.code))
  <2>1. messages # <<>> <=> n > 0
    BY <1>1
  <2>2. n > 0 => Last(messages) = messages[n]
    BY DEF Last
  <2> QED BY <1>2, <2>1, <2>2 DEF Receive, Written
<1> HIDE DEF more, n
<1>5. CASE own
  <2> DEFINE new == [messages[n] EXCEPT !.code = more.code]
  <2>1. /\ new \in Messages(asked) /\ new.by = "assistant" /\ new.of = r.of
    <3>1. messages[n] \in Messages(asked) /\ messages[n].by = "assistant" /\ messages[n].of = r.of
      BY <1>1, <1>5
    <3> QED BY <1>2, <3>1 DEF Messages
  <2>2. messages' = [messages EXCEPT ![n] = new]
    BY <1>1, <1>4, <1>5
  <2> HIDE DEF new
  <2>3. /\ messages' \in Seq(Messages(asked)) /\ Len(messages') = n /\ DOMAIN messages' = 1..n
        /\ messages'[n] = new /\ \A i \in 1..n : i # n => messages'[i] = messages[i]
    BY <1>0, <1>1, <1>5, <2>1, <2>2, ExceptSeq
  <2>4. ChatTypeOK'
    BY <1>1, <1>2, <1>3, <2>3, ChatIsTyped DEF ChatInv, ChatTypeOK, Messages, Requests
  <2>5. ASSUME ~overtaken
        PROVE  Answered(messages)' /\ InTurn(messages, streams)'
    <3>1. n > 1 /\ messages[n - 1] = Message("reader", r.of, <<>>) /\ active = r.of
          /\ streams = {r}
      BY <1>0, <1>1, <1>5, <2>5 DEF ChatInv, Answered, InTurn
    <3>2. streams' = {more}
      BY <1>3, <3>1
    <3>3. InTurn(messages, streams)'
      <4>1. messages' # <<>> /\ messages'[Len(messages')] = new
        BY <1>0, <1>1, <1>5, <2>3
      <4> QED BY <1>2, <1>3, <2>1, <3>1, <3>2, <4>1 DEF InTurn
    <3>4. Answered(messages)'
      <4> SUFFICES ASSUME NEW i \in 1..n, messages'[i].by = "assistant"
                   PROVE  i > 1 /\ messages'[i - 1] = Message("reader", messages'[i].of, <<>>)
        BY <2>3 DEF Answered
      <4>1. CASE i = n
        BY <1>1, <2>1, <2>3, <3>1, <4>1
      <4>2. CASE i # n
        <5>1. i > 1 /\ messages[i - 1] = Message("reader", messages[i].of, <<>>)
          BY <1>1, <2>3, <2>5, <4>2 DEF ChatInv, Answered
        <5> QED BY <1>1, <2>3, <4>2, <5>1
      <4> QED BY <4>1, <4>2
    <3> QED BY <3>3, <3>4
  <2> QED BY <1>3, <2>4, <2>5 DEF ChatInv, Busy
<1>6. CASE ~own
  <2> DEFINE new == Message("assistant", r.of, more.code)
  <2>1. /\ new \in Messages(asked) /\ new.by = "assistant" /\ new.of = r.of
    BY <1>1, <1>2 DEF Messages, Message, Requests
  <2>2. messages' = Append(messages, new)
    BY <1>4, <1>6
  <2> HIDE DEF new
  <2>3. /\ messages' \in Seq(Messages(asked)) /\ Len(messages') = n + 1
        /\ DOMAIN messages' = 1..(n + 1)
        /\ messages'[n + 1] = new /\ \A i \in 1..n : messages'[i] = messages[i]
    BY <1>0, <1>1, <2>1, <2>2, AppendProperties
  <2>4. ChatTypeOK'
    BY <1>1, <1>2, <1>3, <2>3, ChatIsTyped DEF ChatInv, ChatTypeOK, Messages, Requests
  <2>5. ASSUME ~overtaken
        PROVE  Answered(messages)' /\ InTurn(messages, streams)'
    <3>1. /\ n > 0 /\ active = r.of /\ messages[n].of = r.of /\ streams = {r}
          /\ messages[n].by = "reader" => messages[n] = Message("reader", r.of, <<>>)
      BY <1>0, <1>1, <2>5 DEF ChatInv, InTurn
    <3>2. messages[n] = Message("reader", r.of, <<>>)
      BY <1>1, <1>6, <3>1 DEF Messages
    <3>3. streams' = {more}
      BY <1>3, <3>1
    <3>4. InTurn(messages, streams)'
      <4>1. messages' # <<>> /\ messages'[Len(messages')] = new
        BY <1>0, <1>1, <2>3
      <4> QED BY <1>2, <1>3, <2>1, <3>1, <3>3, <4>1 DEF InTurn
    <3>5. Answered(messages)'
      <4> SUFFICES ASSUME NEW i \in 1..(n + 1), messages'[i].by = "assistant"
                   PROVE  i > 1 /\ messages'[i - 1] = Message("reader", messages'[i].of, <<>>)
        BY <2>3 DEF Answered
      <4>1. CASE i = n + 1
        BY <1>1, <2>1, <2>3, <3>1, <3>2, <4>1
      <4>2. CASE i # n + 1
        <5>1. i > 1 /\ messages[i - 1] = Message("reader", messages[i].of, <<>>)
          BY <1>1, <2>3, <2>5, <4>2 DEF ChatInv, Answered
        <5> QED BY <1>1, <2>3, <4>2, <5>1
      <4> QED BY <4>1, <4>2
    <3> QED BY <3>4, <3>5
  <2>6. ~overtaken => \A q, s \in streams' : q = s
    BY <1>3 DEF ChatInv
  <2> QED BY <1>3, <2>4, <2>5, <2>6 DEF ChatInv, Busy
<1> QED BY <1>5, <1>6

LEMMA ConverseKeeps ==
    ASSUME ChatInv, Converse
    PROVE  ChatInv'
<1>1. /\ messages \in Seq(Messages(asked)) /\ streams \subseteq Requests(asked)
      /\ asked \in Nat /\ overtaken \in BOOLEAN /\ 0 \in 0..asked
      /\ messages # <<>> => Len(messages) > 0
  BY ChatIsTyped DEF ChatInv
<1>2. CASE Submit
  <2>1. ~overtaken => Answered(messages) /\ streams = {}
    BY <1>2 DEF ChatInv, Submit
  <2> QED BY <1>1, <1>2, <2>1, SendKeeps DEF Submit
<1>3. CASE Suggest
  <2>1. ~overtaken => Answered(messages) /\ streams = {}
    BY <1>3 DEF ChatInv, Suggest, InTurn
  <2> QED BY <1>1, <1>3, <2>1, SendKeeps DEF Suggest
<1>4. CASE Stop
  <2>1. /\ streams' \subseteq streams /\ status' = "ready" /\ active' = 0
        /\ UNCHANGED <<messages, asked, overtaken>>
    BY <1>4 DEF Stop
  <2>2. ~overtaken => streams' = {}
    BY <1>4 DEF Stop, ChatInv, InTurn
  <2>3. ChatTypeOK'
    BY <1>1, <2>1 DEF ChatInv, ChatTypeOK
  <2> QED BY <2>1, <2>2, <2>3 DEF ChatInv, Answered, InTurn, Busy
<1>5. CASE NewChat
  <2>1. /\ messages' = <<>> /\ UNCHANGED <<streams, status, active, asked>>
        /\ overtaken' = (overtaken \/ streams # {})
    BY <1>5 DEF NewChat
  <2>2. messages' \in Seq(Messages(asked))
    BY <2>1
  <2>3. overtaken' \in BOOLEAN
    BY <2>1
  <2>4. ChatTypeOK'
    BY <2>1, <2>2, <2>3 DEF ChatInv, ChatTypeOK, Messages
  <2>5. ~overtaken' => ~overtaken /\ streams = {} /\ streams' = {}
    BY <2>1
  <2> QED BY <2>1, <2>4, <2>5 DEF ChatInv, Answered, InTurn, Busy
<1>6. ASSUME NEW r \in streams, NEW outcome \in {"ready", "error"}, Settle(r, outcome)
      PROVE  ChatInv'
  <2>1. /\ streams' = streams \ {r} /\ status' = outcome /\ active' = 0
        /\ UNCHANGED <<messages, asked, overtaken>>
    BY <1>6 DEF Settle
  <2>2. ~overtaken => streams' = {}
    BY <2>1 DEF ChatInv
  <2>3. ChatTypeOK'
    BY <1>1, <2>1 DEF ChatInv, ChatTypeOK
  <2> QED BY <2>1, <2>2, <2>3 DEF ChatInv, Answered, InTurn, Busy
<1> QED BY <1>2, <1>3, <1>4, <1>5, <1>6, ReceiveKeeps DEF Converse

-----------------------------------------------------------------------------
(* Links, loads and the history. *)

\* A link's own entry is new to the history that is kept, and carries nothing or
\* a question that nobody carried before.
LEMMA PushedLinks ==
    ASSUME TabInv, at < MaxEntries, NEW n \in {carried, carried + 1}, NEW url \in Entry(n),
           url.question = 0 \/ (url.question = n /\ n = carried + 1)
    PROVE  /\ Links(Pushed(url), put, n)
           /\ at + 1 \in DOMAIN Pushed(url) /\ Pushed(url)[at + 1] = url
<1> DEFINE kept == SubSeq(entries, 1, at)
           urls == Pushed(url)
<1>1. /\ carried \in Nat /\ n \in Nat /\ carried <= n /\ Len(entries) \in Nat
      /\ entries \in Seq(Entry(carried)) /\ at \in 1..Len(entries) /\ MaxEntries \in Nat
  BY SiteAssumption DEF TabInv, Links
<1>2. /\ Entry(carried) \subseteq Entry(n) /\ 1..carried \subseteq 1..n
  BY <1>1 DEF Entry
<1>3. /\ kept \in Seq(Entry(carried)) /\ Len(kept) = at
      /\ \A i \in 1..at : kept[i] = entries[i] /\ entries[i] \in Entry(carried)
  BY <1>1, SubSeqProperties
<1> HIDE DEF kept
<1>4. kept \in Seq(Entry(n)) /\ put \in Seq(1..n)
  BY <1>2, <1>3 DEF TabInv, Links
<1>5. urls = Append(kept, url)
  BY DEF Pushed, kept
<1>6. /\ urls \in Seq(Entry(n)) /\ Len(urls) = at + 1 /\ DOMAIN urls = 1..(at + 1)
      /\ urls[at + 1] = url /\ \A i \in 1..at : urls[i] = entries[i]
  BY <1>1, <1>3, <1>4, <1>5, AppendProperties
<1> HIDE DEF urls
<1>7. \A i \in 1..at : entries[i].question \in 0..carried
  BY <1>3 DEF Entry
<1>8. \A i, j \in DOMAIN urls :
          urls[i].question = urls[j].question /\ urls[i].question # 0 => i = j
  <2> SUFFICES ASSUME NEW i \in 1..(at + 1), NEW j \in 1..(at + 1),
                      urls[i].question = urls[j].question, urls[i].question # 0
               PROVE  i = j
    BY <1>6
  <2>1. CASE i \in 1..at /\ j \in 1..at
    <3>1. i \in DOMAIN entries /\ j \in DOMAIN entries
      BY <1>1, <2>1
    <3>2. entries[i].question = entries[j].question /\ entries[i].question # 0
      BY <1>6, <2>1
    <3> QED BY <3>1, <3>2 DEF TabInv, Links
  <2>2. CASE i = at + 1 \/ j = at + 1
    <3>1. ASSUME NEW m \in 1..at, urls[m].question = url.question, url.question # 0
          PROVE  FALSE
      BY <1>1, <1>6, <1>7, <3>1
    <3> QED BY <1>1, <1>6, <2>2, <3>1
  <2> QED BY <1>1, <2>1, <2>2
<1>9. ToSet(put) \subseteq 1..carried
  BY DEF TabInv, Links, ToSet
<1>10. \A i \in DOMAIN urls : urls[i].question \notin ToSet(put)
  <2> SUFFICES ASSUME NEW i \in 1..(at + 1)
               PROVE  urls[i].question \notin ToSet(put)
    BY <1>6
  <2>1. CASE i \in 1..at
    <3>1. i \in DOMAIN entries
      BY <1>1, <2>1
    <3> QED BY <1>6, <2>1, <3>1 DEF TabInv, Links
  <2>2. CASE i = at + 1
    BY <1>1, <1>6, <1>9, <2>2
  <2> QED BY <1>1, <2>1, <2>2
<1>11. Links(urls, put, n)
  BY <1>1, <1>4, <1>6, <1>8, <1>10 DEF Links, TabInv
<1> QED BY <1>1, <1>6, <1>11 DEF urls

\* Arriving at a page: the chat page, when it is set up, puts what its URL carries
\* and takes it out of the history.
LEMMA ArriveKeepsLinks ==
    ASSUME NEW m \in Nat, NEW urls, Links(urls, put, m), NEW n \in DOMAIN urls, NEW anew,
           Arrive(urls, n, anew)
    PROVE  /\ Links(entries', put', m) /\ at' \in DOMAIN entries'
           /\ ToSet(put) \subseteq ToSet(put')
           /\ urls[n].page = "chat" /\ ~Shows("chat") /\ urls[n].question # 0
                  => urls[n].question \in ToSet(put')
<1> DEFINE question == urls[n].question
<1>1. /\ urls \in Seq(Entry(m)) /\ DOMAIN urls = 1..Len(urls) /\ Len(urls) \in Nat
      /\ urls[n] \in Entry(m) /\ question \in 0..m
  <2>1. urls \in Seq(Entry(m))
    BY DEF Links
  <2>2. urls[n] \in Entry(m)
    BY <2>1
  <2>3. question \in 0..m
    BY <2>2 DEF Entry
  <2> QED BY <2>1, <2>2, <2>3
<1>2. at' = n
  BY DEF Arrive
<1>3. CASE entries' = urls /\ put' = put
           /\ ~(urls[n].page = "chat" /\ ~Shows("chat") /\ question # 0)
  BY <1>2, <1>3
<1>4. CASE /\ entries' = [urls EXCEPT ![n] = Url("chat", 0)] /\ put' = Append(put, question)
           /\ question # 0
  <2>1. Url("chat", 0) \in Entry(m) /\ Url("chat", 0).question = 0
    BY DEF Url, Entry
  <2>2. /\ entries' \in Seq(Entry(m)) /\ Len(entries') = Len(urls) /\ DOMAIN entries' = DOMAIN urls
        /\ entries'[n].question = 0 /\ \A i \in DOMAIN urls : i # n => entries'[i] = urls[i]
    BY <1>1, <1>4, <2>1, ExceptSeq
  <2>3. put \in Seq(1..m) /\ question \in 1..m /\ Len(put) \in Nat
    BY <1>1, <1>4 DEF Links
  <2>4. ToSet(put') = ToSet(put) \union {question}
    <3>1. DOMAIN put = 1..Len(put) /\ DOMAIN put' = 1..(Len(put) + 1)
          /\ put'[Len(put) + 1] = question /\ \A i \in 1..Len(put) : put'[i] = put[i]
      BY <1>4, <2>3, AppendProperties
    <3>2. DOMAIN put' = DOMAIN put \union {Len(put) + 1} /\ \A i \in DOMAIN put : put'[i] = put[i]
      BY <2>3, <3>1
    <3> QED BY <3>1, <3>2 DEF ToSet
  <2>5. put' \in Seq(1..m) /\ \A i, j \in DOMAIN put' : put'[i] = put'[j] => i = j
    <3>1. put' \in Seq(1..m) /\ DOMAIN put' = 1..(Len(put) + 1) /\ DOMAIN put = 1..Len(put)
          /\ put'[Len(put) + 1] = question /\ \A i \in 1..Len(put) : put'[i] = put[i]
      BY <1>4, <2>3, AppendProperties
    <3>2. \A i \in DOMAIN put : put[i] # question
      BY DEF Links, ToSet
    <3>3. \A i, j \in DOMAIN put : put[i] = put[j] => i = j
      BY DEF Links
    <3>4. ASSUME NEW i \in 1..(Len(put) + 1), NEW j \in 1..(Len(put) + 1), put'[i] = put'[j]
          PROVE  i = j
      <4>1. CASE i \in 1..Len(put) /\ j \in 1..Len(put)
        BY <3>1, <3>3, <3>4, <4>1
      <4>2. \A k \in 1..Len(put) : put'[k] # question
        BY <3>1, <3>2
      <4>3. CASE i = Len(put) + 1 \/ j = Len(put) + 1
        BY <2>3, <3>1, <3>4, <4>2, <4>3
      <4> QED BY <2>3, <4>1, <4>3
    <3> QED BY <3>1, <3>4
  <2>6. \A i \in DOMAIN urls : i # n => urls[i].question # question
    BY <1>4 DEF Links
  <2>7. 0 \notin ToSet(put')
    BY <2>5 DEF ToSet
  <2>8. \A i \in DOMAIN entries' : entries'[i].question \notin ToSet(put')
    BY <2>2, <2>4, <2>6, <2>7 DEF Links
  <2>9. \A i, j \in DOMAIN entries' :
            entries'[i].question = entries'[j].question /\ entries'[i].question # 0 => i = j
    BY <2>2 DEF Links
  <2>10. Links(entries', put', m)
    BY <2>2, <2>5, <2>8, <2>9 DEF Links
  <2> QED BY <1>2, <2>2, <2>4, <2>10
<1> QED BY <1>3, <1>4 DEF Arrive, SetUpChat

LEMMA ArriveKeepsChat ==
    ASSUME ChatInv, NEW urls, NEW n, NEW anew, Arrive(urls, n, anew)
    PROVE  ChatInv'
<1>1. CASE Send(<<>>, {}) /\ overtaken' = FALSE
  <2>1. Answered(<<>>) /\ <<>> \in Seq(Messages(asked))
    BY DEF Answered
  <2> QED BY <1>1, <2>1, SendKeeps
<1>2. CASE UNCHANGED chat
  BY <1>2 DEF chat, ChatInv, ChatTypeOK, Answered, InTurn, Busy
<1>3. CASE /\ messages' = <<>> /\ streams' = {} /\ status' = "ready" /\ active' = 0
           /\ overtaken' = FALSE /\ asked' = asked
  BY <1>3, EmptyChatKeeps
<1> QED BY <1>1, <1>2, <1>3 DEF Arrive, SetUpChat

-----------------------------------------------------------------------------
(* The steps. *)

\* What a step does to the tab and to the chat: it arrives somewhere, in the
\* history or behind a link, or leaves both alone, or the reader converses.
ArrivesAt(urls, n) == \E anew \in BOOLEAN : Arrive(urls, n, anew)

Moves ==
    \/ /\ \E n \in DOMAIN entries : ArrivesAt(entries, n)
       /\ UNCHANGED <<carried, ignored>>
    \/ /\ at < MaxEntries
       /\ \E page \in {"chat", "other"} : ArrivesAt(Pushed(Url(page, 0)), at + 1)
       /\ UNCHANGED <<carried, ignored>>
    \/ Carry
    \/ UNCHANGED <<tab, chat>>
    \/ Converse /\ UNCHANGED tab

LEMMA EveryStepMoves ==
    ASSUME TabInv, [Next]_vars
    PROVE  Moves
<1> USE DEF ArrivesAt
<1>1. CASE Reload
  BY <1>1 DEF Reload, Load, Moves, TabInv
<1>2. CASE \E n \in DOMAIN entries : Travel(n)
  BY <1>2 DEF Travel, Load, Moves
<1>3. CASE AskAI \/ AskInstead
  BY <1>3 DEF AskAI, AskInstead, Moves
<1>4. CASE \E page \in {"chat", "other"} : Visit(page)
  BY <1>4 DEF Visit, Follow, Moves
<1>5. CASE FollowResult
  BY <1>5 DEF FollowResult, Follow, Other, Moves
<1>6. CASE UseSearch \/ ClickTheme \/ UNCHANGED vars
  BY <1>6 DEF UseSearch, ClickTheme, vars, tab, chat, Moves
<1>7. ASSUME NEW key \in Keys, KeyInField(key) \/ \E inTime \in BOOLEAN : Key(key, inTime)
      PROVE  Moves
  <2>1. CASE KeyInField(key)
    BY <2>1 DEF KeyInField, Moves
  <2>2. ASSUME NEW inTime \in BOOLEAN, Key(key, inTime)
        PROVE  Moves
    <3>1. CASE UNCHANGED <<tab, chat>>
      BY <3>1 DEF Moves
    <3>2. CASE /\ at < MaxEntries /\ Load(Pushed(Other), at + 1)
               /\ UNCHANGED <<carried, ignored>>
      BY <3>2 DEF Load, Other, Moves
    <3> QED BY <2>2, <3>1, <3>2 DEF Key
  <2> QED BY <1>7, <2>1, <2>2
<1>8. CASE Shows("chat") /\ Converse /\ UNCHANGED <<tab, shell>>
  BY <1>8 DEF Moves
<1> QED BY <1>1, <1>2, <1>3, <1>4, <1>5, <1>6, <1>7, <1>8 DEF Next

LEMMA TabStep ==
    ASSUME TabInv, Moves
    PROVE  TabInv'
<1>0. carried \in Nat /\ Links(entries, put, carried) /\ ignored \subseteq 1..carried
      /\ 1..carried \ ignored \subseteq ToSet(put) /\ carried \in 0..MaxLinks
  BY SiteAssumption DEF TabInv
<1>1. ASSUME NEW urls, NEW n \in DOMAIN urls, Links(urls, put, carried), ArrivesAt(urls, n),
             UNCHANGED <<carried, ignored>>
      PROVE  TabInv'
  <2>1. Links(entries', put', carried) /\ at' \in DOMAIN entries' /\ ToSet(put) \subseteq ToSet(put')
    BY <1>0, <1>1, ArriveKeepsLinks DEF ArrivesAt
  <2> QED BY <1>0, <1>1, <2>1 DEF TabInv
<1>2. CASE /\ \E n \in DOMAIN entries : ArrivesAt(entries, n)
           /\ UNCHANGED <<carried, ignored>>
  BY <1>0, <1>1, <1>2
<1>3. ASSUME at < MaxEntries, NEW page \in {"chat", "other"},
             ArrivesAt(Pushed(Url(page, 0)), at + 1), UNCHANGED <<carried, ignored>>
      PROVE  TabInv'
  <2>1. Url(page, 0) \in Entry(carried) /\ Url(page, 0).question = 0
    BY <1>0 DEF Url, Entry
  <2>2. Links(Pushed(Url(page, 0)), put, carried) /\ at + 1 \in DOMAIN Pushed(Url(page, 0))
    BY <1>3, <2>1, PushedLinks
  <2> QED BY <1>1, <1>3, <2>2
<1>4. CASE Carry
  <2> DEFINE n == carried + 1
             url == Url("chat", n)
             urls == Pushed(url)
  <2>1. /\ carried' = n /\ n \in 0..MaxLinks /\ n \in Nat /\ at < MaxEntries
        /\ ignored' = IF Shows("chat") THEN ignored \union {n} ELSE ignored
        /\ Arrive(urls, at + 1, FALSE)
    <3>1. carried < MaxLinks /\ MaxLinks \in Nat /\ carried' = n
      BY <1>4, SiteAssumption DEF Carry
    <3>2. n \in 0..MaxLinks /\ n \in Nat
      BY <1>0, <3>1
    <3> QED BY <1>4, <3>1, <3>2 DEF Carry, Follow
  <2>2. url \in Entry(n) /\ url.question = n /\ url.page = "chat" /\ n # 0
    BY <1>0, <2>1 DEF Url, Entry
  <2> HIDE DEF url
  <2>3. Links(urls, put, n) /\ at + 1 \in DOMAIN urls /\ urls[at + 1] = url
    BY <2>1, <2>2, PushedLinks
  <2> HIDE DEF urls
  <2>4. /\ Links(entries', put', n) /\ at' \in DOMAIN entries'
        /\ ToSet(put) \subseteq ToSet(put')
        /\ ~Shows("chat") => n \in ToSet(put')
    BY <2>1, <2>2, <2>3, ArriveKeepsLinks
  <2>5. 1..n = 1..carried \union {n}
    BY <1>0
  <2> HIDE DEF n
  <2>6. ignored' \subseteq 1..n /\ 1..n \ ignored' \subseteq ToSet(put')
    BY <1>0, <2>1, <2>4, <2>5
  <2> QED BY <2>1, <2>4, <2>6 DEF TabInv
<1>5. CASE UNCHANGED tab
  BY <1>5 DEF tab, TabInv, Links
<1> QED BY <1>2, <1>3, <1>4, <1>5 DEF Moves

LEMMA ChatStep ==
    ASSUME ChatInv, Moves
    PROVE  ChatInv'
<1>1. ASSUME NEW urls, NEW n, ArrivesAt(urls, n)
      PROVE  ChatInv'
  BY <1>1, ArriveKeepsChat DEF ArrivesAt
<1>2. CASE Carry
  BY <1>2, ArriveKeepsChat DEF Carry, Follow
<1>3. CASE UNCHANGED chat
  BY <1>3 DEF chat, ChatInv, ChatTypeOK, Answered, InTurn, Busy
<1> QED BY <1>1, <1>2, <1>3, ConverseKeeps DEF Moves

-----------------------------------------------------------------------------
(* The shell. *)

ThemeInv ==
    /\ {dark, icon, pressed} \subseteq BOOLEAN
    /\ stored \in {{}, {"dark"}, {"light"}}
    /\ dark = IF stored = {} THEN PrefersDark ELSE stored = {"dark"}
    /\ icon = dark \/ pressed

DialogsInv ==
    /\ help \in BOOLEAN /\ chord \in {"none", "g"}
    /\ search \in [open : BOOLEAN, text : Texts, filter : Groups \union {All}]
    /\ search.filter # All => search.filter \in GroupsOf[search.text]

LEMMA ShellParts == ShellInv <=> ThemeInv /\ DialogsInv
BY DEF ShellInv, ThemeInv, DialogsInv

\* A load makes everything of the shell anew.
LEMMA LoadKeepsShell ==
    ASSUME ShellInv, NEW urls, NEW n, Load(urls, n)
    PROVE  ShellInv'
<1>1. /\ stored' = stored /\ icon' = dark' /\ pressed' = FALSE
      /\ dark' = (IF stored = {} THEN PrefersDark ELSE stored = {"dark"})
      /\ help' = FALSE /\ chord' = "none"
      /\ search' = [open |-> FALSE, text |-> NoText, filter |-> All]
  BY DEF Load
<1>2. dark' \in BOOLEAN
  BY <1>1, SiteAssumption
<1>3. ThemeInv'
  BY <1>1, <1>2 DEF ThemeInv, ShellInv
<1>4. DialogsInv'
  BY <1>1, SiteAssumption DEF DialogsInv
<1> QED BY <1>3, <1>4 DEF ShellInv, ThemeInv, DialogsInv

LEMMA SetThemeKeeps ==
    ASSUME ThemeInv, NEW isDark \in BOOLEAN, SetTheme(isDark),
           \/ icon' = isDark /\ pressed' = pressed
           \/ icon' = icon /\ pressed' = TRUE
    PROVE  ThemeInv'
<1>1. dark' = isDark /\ stored' = {IF isDark THEN "dark" ELSE "light"}
  BY DEF SetTheme
<1>2. CASE isDark
  BY <1>1, <1>2 DEF ThemeInv
<1>3. CASE ~isDark
  BY <1>1, <1>3 DEF ThemeInv
<1> QED BY <1>2, <1>3

\* What can be done to the search leaves it a filter that its results have.
LEMMA SearchKeeps ==
    ASSUME DialogsInv,
           \/ OpenSearch
           \/ \E text \in Texts : Type(text)
           \/ \E group \in Groups : Filter(group)
           \/ search' = [search EXCEPT !.filter = All]
           \/ search' = Closed
           \/ search' = [search EXCEPT !.open = FALSE]
           \/ \E key \in Keys : SearchKey(key),
           help' \in BOOLEAN, chord' \in {"none", "g"}
    PROVE  DialogsInv'
<1>1. search \in [open : BOOLEAN, text : Texts, filter : Groups \union {All}]
  BY DEF DialogsInv
<1>2. CASE OpenSearch \/ search' = [search EXCEPT !.open = FALSE]
  BY <1>1, <1>2 DEF OpenSearch, DialogsInv
<1>3. CASE \E text \in Texts : Type(text)
  BY <1>1, <1>3 DEF Type, DialogsInv
<1>4. CASE \E group \in Groups : Filter(group)
  BY <1>1, <1>4 DEF Filter, DialogsInv
<1>5. CASE search' = [search EXCEPT !.filter = All] \/ search' = Closed
  BY <1>1, <1>5 DEF Closed, DialogsInv
<1>6. ASSUME NEW key \in Keys, SearchKey(key)
      PROVE  DialogsInv'
  <2>1. CASE search' = search
    BY <2>1 DEF DialogsInv
  <2>2. CASE search' = [search EXCEPT !.open = ~@]
    BY <1>1, <2>2 DEF DialogsInv
  <2> QED BY <1>2, <1>6, <2>1, <2>2 DEF SearchKey
<1> QED BY <1>2, <1>3, <1>4, <1>5, <1>6

LEMMA ShellStep ==
    ASSUME ShellInv, [Next]_vars
    PROVE  ShellInv'
<1>0. ThemeInv /\ DialogsInv /\ {dark, icon, pressed, help} \subseteq BOOLEAN
      /\ chord \in {"none", "g"}
  BY ShellParts DEF ShellInv
<1>1. CASE Reload \/ \E n \in DOMAIN entries : Travel(n) /\ ~UNCHANGED shell
  BY <1>1, LoadKeepsShell DEF Reload, Travel
<1>2. ASSUME UNCHANGED theme, DialogsInv'
      PROVE  ShellInv'
  <2>1. ThemeInv'
    BY <1>0, <1>2 DEF ThemeInv, theme
  <2> QED BY <1>2, <2>1 DEF ShellInv, ThemeInv, DialogsInv
<1>3. CASE UNCHANGED shell
  BY <1>2, <1>3, <1>0 DEF shell, dialogs, DialogsInv
<1>4. CASE UseSearch
  <2>1. help' \in BOOLEAN /\ chord' \in {"none", "g"} /\ UNCHANGED theme
    BY <1>0, <1>4 DEF UseSearch
  <2> QED BY <1>0, <1>2, <1>4, <2>1, SearchKeeps DEF UseSearch
<1>5. CASE FollowResult \/ AskInstead
  <2>1. /\ help' \in BOOLEAN /\ chord' \in {"none", "g"} /\ UNCHANGED theme
        /\ search' = Closed \/ search' = [search EXCEPT !.open = FALSE]
    BY <1>0, <1>5 DEF FollowResult, AskInstead
  <2> QED BY <1>0, <1>2, <2>1, SearchKeeps
<1>6. CASE ClickTheme
  <2>1. SetTheme(~icon) /\ icon' = (~icon) /\ pressed' = pressed /\ UNCHANGED dialogs
    BY <1>6 DEF ClickTheme
  <2>2. ThemeInv'
    BY <1>0, <2>1, SetThemeKeeps
  <2>3. DialogsInv'
    BY <1>0, <2>1 DEF DialogsInv, dialogs
  <2> QED BY <2>2, <2>3 DEF ShellInv, ThemeInv, DialogsInv
<1>7. ASSUME NEW key \in Keys, NEW inTime \in BOOLEAN, KeyInField(key) \/ Key(key, inTime)
      PROVE  ShellInv'
  <2>1. CASE KeyInField(key)
    <3>1. /\ SearchKey(key) /\ help' \in BOOLEAN /\ chord' \in {"none", "g"} /\ UNCHANGED theme
      BY <1>0, <2>1 DEF KeyInField
    <3> QED BY <1>0, <1>2, <3>1, SearchKeeps
  <2>2. CASE help' = ~help /\ UNCHANGED <<theme, search, chord>>
    BY <1>0, <1>2, <2>2 DEF DialogsInv
  <2>3. CASE /\ SearchKey(key) /\ UNCHANGED theme
             /\ help' \in BOOLEAN /\ chord' \in {"none", "g"}
    BY <1>0, <1>2, <2>3, SearchKeeps
  <2>4. CASE PressTheme
    <3>1. SetTheme(~dark) /\ icon' = icon /\ pressed' = TRUE /\ UNCHANGED dialogs
      BY <2>4 DEF PressTheme
    <3>2. ThemeInv'
      BY <1>0, <3>1, SetThemeKeeps
    <3>3. DialogsInv'
      BY <1>0, <3>1 DEF DialogsInv, dialogs
    <3> QED BY <3>2, <3>3 DEF ShellInv, ThemeInv, DialogsInv
  <2>5. CASE Load(Pushed(Other), at + 1)
    BY <2>5, LoadKeepsShell
  <2>6. CASE Key(key, inTime)
    BY <1>0, <2>2, <2>3, <2>4, <2>5, <2>6 DEF Key
  <2> QED BY <1>7, <2>1, <2>6
<1>8. CASE UNCHANGED vars
  BY <1>3, <1>8 DEF vars
<1> QED
  BY <1>1, <1>3, <1>4, <1>5, <1>6, <1>7, <1>8 DEF Next, AskAI, Visit

-----------------------------------------------------------------------------
(* Colouring: what a pass takes, and the contexts of C++. *)

\* A set of natural numbers has a least one.
LEMMA LeastNumber ==
    ASSUME NEW T, T \subseteq Nat, T # {}
    PROVE  \E x \in T : \A y \in T : x <= y
<1> DEFINE R == {ss \in Nat \X Nat : ss[1] < ss[2]}
<1>1. IsWellFoundedOn(R, Nat)
  BY NatLessThanWellFounded, Zenon DEF OpToRel
<1>2. PICK x \in T : \A y \in T : <<y, x>> \notin R
  <2> HIDE DEF R
  <2> QED BY <1>1, WFMin
<1>3. \A y \in T : ~(y < x)
  BY <1>2
<1> QED BY <1>3

\* What holds at first, and of a number if of the one before it, holds of all.
LEMMA Counting ==
    ASSUME NEW n \in Nat, NEW T, 0 \in T, \A i \in 1..n : i - 1 \in T => i \in T
    PROVE  \A i \in 0..n : i \in T
<1> SUFFICES ASSUME NEW i \in 0..n, i \notin T PROVE FALSE
  OBVIOUS
<1> DEFINE U == {m \in 0..n : m \notin T}
<1>1. PICK x \in U : \A y \in U : x <= y
  <2>1. U \subseteq Nat /\ U # {}
    OBVIOUS
  <2> HIDE DEF U
  <2> QED BY <2>1, LeastNumber
<1>2. x \in 1..n /\ x - 1 \in 0..n /\ x - 1 < x
  OBVIOUS
<1>3. x - 1 \in T
  BY <1>1, <1>2
<1> QED BY <1>1, <1>2, <1>3

\* j is the first place behind i with a symbol of the kind, or behind the end.
IsNext(kind, M, i, j) ==
    /\ j \in i + 1..Len(M) + 1 /\ (j <= Len(M) => M[j].kind = kind)
    /\ \A m \in i + 1..j - 1 : M[m].kind # kind

\* There is such a place, and one only.
LEMMA NextFacts ==
    ASSUME NEW M, Len(M) \in Nat, NEW i \in 1..Len(M), NEW kind
    PROVE  /\ IsNext(kind, M, i, NextOf(kind, M, i))
           /\ \A j : IsNext(kind, M, i, j) => NextOf(kind, M, i) = j
<1> DEFINE n == Len(M)
<1> DEFINE U == {j \in i + 1..n + 1 : j <= n => M[j].kind = kind}
<1>1. PICK x \in U : \A y \in U : x <= y
  <2>1. U \subseteq Nat /\ n + 1 \in U
    OBVIOUS
  <2> HIDE DEF U
  <2> QED BY <2>1, LeastNumber
<1>2. IsNext(kind, M, i, x)
  <2>1. ASSUME NEW m \in i + 1..x - 1 PROVE M[m].kind # kind
    <3>1. m \in i + 1..n + 1 /\ m < x
      OBVIOUS
    <3> QED BY <1>1, <3>1
  <2> QED BY <2>1 DEF IsNext
<1>3. NextOf(kind, M, i) = CHOOSE j \in i + 1..n + 1 : IsNext(kind, M, i, j)
  BY DEF NextOf, IsNext
<1>4. IsNext(kind, M, i, NextOf(kind, M, i))
  <2>1. x \in i + 1..n + 1
    OBVIOUS
  <2> QED BY <1>2, <1>3, <2>1
<1>5. ASSUME NEW j, NEW k, IsNext(kind, M, i, j), IsNext(kind, M, i, k), j < k
      PROVE  FALSE
  <2>1. j \in i + 1..k - 1 /\ j <= n
    BY <1>5 DEF IsNext
  <2> QED BY <1>5, <2>1 DEF IsNext
<1>6. ASSUME NEW j, IsNext(kind, M, i, j)
      PROVE  NextOf(kind, M, i) = j
  <2>1. j \in Int /\ NextOf(kind, M, i) \in Int
    BY <1>4, <1>6 DEF IsNext
  <2>2. ~(j < NextOf(kind, M, i)) /\ ~(NextOf(kind, M, i) < j)
    BY <1>4, <1>5, <1>6
  <2> QED BY <2>1, <2>2
<1> QED BY <1>4, <1>6

Passes == {"comment", "block", "preprocessor", "string", "literal"}

\* How much a pass may take.
LEMMA MatchedFacts ==
    ASSUME NEW M, Len(M) \in Nat, NEW i \in 1..Len(M), NEW pass \in Passes
    PROVE  /\ Matched(pass, M, i) \in 0..Len(M) + 1 - i
           /\ pass = "comment" =>
                 Matched(pass, M, i) = IF M[i].kind = "slashes"
                                       THEN NextOf("newline", M, i) - i ELSE 0
           /\ pass = "block" =>
                 Matched(pass, M, i) = IF M[i].kind = "open" /\ Ends("close", M, i)
                                       THEN NextOf("close", M, i) - i + 1 ELSE 0
           /\ pass = "preprocessor" =>
                 Matched(pass, M, i) = IF M[i].kind = "directive" /\ BeginsLine(M, i)
                                       THEN NextOf("newline", M, i) - i ELSE 0
           /\ pass = "string" =>
                 Matched(pass, M, i) = IF M[i].kind = "quote" /\ Ends("quote", M, i)
                                       THEN NextOf("quote", M, i) - i + 1 ELSE 0
           /\ pass = "literal" =>
                 Matched(pass, M, i) = IF M[i].kind = "word" THEN 1 ELSE 0
<1> DEFINE m == Matched(pass, M, i)
<1>1. \A kind : NextOf(kind, M, i) \in i + 1..Len(M) + 1
  BY NextFacts DEF IsNext
<1>2. CASE pass = "comment"
  <2>1. m = IF M[i].kind = "slashes" THEN NextOf("newline", M, i) - i ELSE 0
    BY <1>2 DEF Matched
  <2> QED BY <1>1, <1>2, <2>1
<1>3. CASE pass = "block"
  <2>1. m = IF M[i].kind = "open" /\ Ends("close", M, i)
            THEN NextOf("close", M, i) - i + 1 ELSE 0
    BY <1>3 DEF Matched
  <2> QED BY <1>1, <1>3, <2>1 DEF Ends
<1>4. CASE pass = "preprocessor"
  <2>1. m = IF M[i].kind = "directive" /\ BeginsLine(M, i)
            THEN NextOf("newline", M, i) - i ELSE 0
    BY <1>4 DEF Matched
  <2> QED BY <1>1, <1>4, <2>1
<1>5. CASE pass = "string"
  <2>1. m = IF M[i].kind = "quote" /\ Ends("quote", M, i)
            THEN NextOf("quote", M, i) - i + 1 ELSE 0
    BY <1>5 DEF Matched
  <2> QED BY <1>1, <1>5, <2>1 DEF Ends
<1>6. CASE pass = "literal"
  <2>1. m = IF M[i].kind = "word" THEN 1 ELSE 0
    BY <1>6 DEF Matched
  <2> QED BY <1>6, <2>1
<1> QED BY <1>2, <1>3, <1>4, <1>5, <1>6 DEF Passes

Contexts == {"code", "comment", "block", "line", "string"}

\* The context follows the symbols.
LEMMA ContextFacts ==
    ASSUME NEW code, Len(code) \in Nat
    PROVE  /\ ContextAt(code, 1) = "code"
           /\ \A i \in 1..Len(code) + 1 : ContextAt(code, i) \in Contexts
           /\ \A i \in 1..Len(code) :
                 ContextAt(code, i + 1) = Behind(code, i, ContextAt(code, i))
<1> DEFINE n == Len(code)
<1> DEFINE F(f, i) == IF i = 1 THEN "code" ELSE Behind(code, i - 1, f[i - 1])
<1> DEFINE IsRun(f, m) == \A i \in 1..m + 1 : f[i] = F(f, i)
<1> DEFINE T == {m \in 0..n : \E f \in [1..m + 1 -> Contexts] : IsRun(f, m)}
<1>1. \A c \in Contexts : \A i \in 1..n : Behind(code, i, c) \in Contexts
  BY DEF Contexts, Behind
<1>2. 0 \in T
  <2> DEFINE f == [i \in 1..0 + 1 |-> "code"]
  <2>1. f \in [1..0 + 1 -> Contexts] /\ IsRun(f, 0)
    BY DEF Contexts
  <2> HIDE DEF f, IsRun
  <2> QED BY <2>1
<1>3. ASSUME NEW m \in 1..n, m - 1 \in T
      PROVE  m \in T
  <2>1. PICK f \in [1..(m - 1) + 1 -> Contexts] : IsRun(f, m - 1)
    BY <1>3
  <2>2. (m - 1) + 1 = m
    OBVIOUS
  <2>3. f \in [1..m -> Contexts] /\ \A i \in 1..m : f[i] = F(f, i)
    BY <2>1, <2>2
  <2> DEFINE g == [i \in 1..m + 1 |-> IF i = m + 1 THEN Behind(code, m, f[m]) ELSE f[i]]
  <2>4. Behind(code, m, f[m]) \in Contexts
    BY <1>1, <2>3
  <2>5. g \in [1..m + 1 -> Contexts]
    BY <2>3, <2>4
  <2>6. g[m + 1] = Behind(code, m, f[m]) /\ \A i \in 1..m : g[i] = f[i]
    OBVIOUS
  <2> HIDE DEF g
  <2>7. g[m + 1] = F(g, m + 1)
    BY <2>6
  <2>8. ASSUME NEW i \in 1..m
        PROVE  g[i] = F(g, i)
    <3>1. i # 1 => i - 1 \in 1..m
      OBVIOUS
    <3> QED BY <2>3, <2>6, <3>1
  <2>9. IsRun(g, m)
    <3>1. \A i \in 1..m + 1 : i = m + 1 \/ i \in 1..m
      OBVIOUS
    <3> HIDE DEF F
    <3> QED BY <2>7, <2>8, <3>1
  <2> HIDE DEF IsRun
  <2> QED BY <2>5, <2>9
<1>4. PICK h \in [1..n + 1 -> Contexts] : IsRun(h, n)
  <2> HIDE DEF T
  <2>1. \A i \in 0..n : i \in T
    BY <1>2, <1>3, Counting
  <2>2. n \in T
    BY <2>1
  <2> QED BY <2>2 DEF T
<1> DEFINE stands == CHOOSE g : g = [j \in 1..n + 1 |-> IF j = 1 THEN "code" ELSE Behind(code, j - 1, g[j - 1])]
<1>5. \A i : ContextAt(code, i) = stands[i]
  BY DEF ContextAt
<1>6. h = [j \in 1..n + 1 |-> IF j = 1 THEN "code" ELSE Behind(code, j - 1, h[j - 1])]
  BY <1>4
<1>7. stands = [j \in 1..n + 1 |-> IF j = 1 THEN "code" ELSE Behind(code, j - 1, stands[j - 1])]
  BY <1>6
<1> HIDE DEF stands
<1>8. stands[1] = "code" /\ \A i \in 1..n : stands[i + 1] = Behind(code, i, stands[i])
  <2>1. stands[1] = "code"
    BY <1>7
  <2>2. ASSUME NEW i \in 1..n
        PROVE  stands[i + 1] = Behind(code, i, stands[i])
    <3>1. i + 1 \in 1..n + 1 /\ i + 1 # 1 /\ (i + 1) - 1 = i
      OBVIOUS
    <3> QED BY <1>7, <3>1
  <2> QED BY <2>1, <2>2
<1>9. \A i \in 1..n + 1 : stands[i] \in Contexts
  <2> DEFINE U == {m \in 0..n : stands[m + 1] \in Contexts}
  <2>1. 0 \in U
    BY <1>8 DEF Contexts
  <2>2. ASSUME NEW m \in 1..n, m - 1 \in U
        PROVE  m \in U
    <3>1. stands[m] \in Contexts
      BY <2>2
    <3> QED BY <1>1, <1>8, <3>1
  <2> HIDE DEF U
  <2>3. \A m \in 0..n : m \in U
    BY <2>1, <2>2, Counting
  <2>4. \A i \in 1..n + 1 : i - 1 \in 0..n /\ (i - 1) + 1 = i
    OBVIOUS
  <2> QED BY <2>3, <2>4 DEF U
<1> QED BY <1>5, <1>8, <1>9

\* One turn of a pass: the i-th element stays, or begins what is taken.
IsTurn(pass, M, f, i) ==
    f[i] = IF Matched(pass, M, i) = 0 THEN <<M[i]>> \o f[i + 1]
           ELSE <<Token(pass, SubSeq(M, i, i + Matched(pass, M, i) - 1))>>
                \o f[i + Matched(pass, M, i)]

\* What a pass makes of the rest of its input, from each place on.
LEMMA ReplacedFacts ==
    ASSUME NEW M, NEW X, M \in Seq(X), NEW pass \in Passes
    PROVE  \E f : /\ Replaced(pass, M) = f[1] /\ f[Len(M) + 1] = <<>>
                  /\ \A i \in 1..Len(M) : IsTurn(pass, M, f, i)
<1> DEFINE n == Len(M)
<1> DEFINE Y == X \union {Token(pass, t) : t \in Seq(X)}
<1> DEFINE V == Seq(Y)
<1> DEFINE G(f, i) ==
               IF Matched(pass, M, i) = 0 THEN <<M[i]>> \o f[i + 1]
               ELSE <<Token(pass, SubSeq(M, i, i + Matched(pass, M, i) - 1))>>
                    \o f[i + Matched(pass, M, i)]
<1> DEFINE IsRun(f, m) == \A i \in m..n + 1 : f[i] = IF i > n THEN <<>> ELSE G(f, i)
<1> DEFINE T == {m \in 0..n : \E f \in [n + 1 - m..n + 1 -> V] : IsRun(f, n + 1 - m)}
<1>1. n \in Nat /\ \A i \in 1..n : Matched(pass, M, i) \in 0..n + 1 - i
  BY MatchedFacts
<1>2. 0 \in T
  <2> DEFINE f == [i \in n + 1..n + 1 |-> <<>>]
  <2>1. n + 1 - 0 = n + 1
    BY <1>1
  <2>2. f \in [n + 1..n + 1 -> V] /\ IsRun(f, n + 1)
    BY <1>1
  <2> HIDE DEF f, IsRun, V
  <2> QED BY <1>1, <2>1, <2>2
<1>3. ASSUME NEW m \in 1..n, m - 1 \in T
      PROVE  m \in T
  <2> DEFINE k == n + 1 - m
  <2>1. k \in 1..n /\ n + 1 - (m - 1) = k + 1
    BY <1>1
  <2> HIDE DEF k
  <2>2. PICK f \in [k + 1..n + 1 -> V] : IsRun(f, k + 1)
    BY <1>3, <2>1
  <2> DEFINE g == [i \in k..n + 1 |-> IF i = k THEN G(f, k) ELSE f[i]]
  <2>3. G(f, k) \in V
    <3> DEFINE a == Matched(pass, M, k)
    <3>1. a \in 0..n + 1 - k
      BY <1>1, <2>1
    <3> HIDE DEF a
    <3>2. k + 1 \in k + 1..n + 1 /\ (a # 0 => k + a \in k + 1..n + 1)
      BY <1>1, <2>1, <3>1
    <3>3. <<M[k]>> \in V
      BY <2>1
    <3>4. ASSUME a # 0
          PROVE  <<Token(pass, SubSeq(M, k, k + a - 1))>> \in V
      <4> DEFINE t == SubSeq(M, k, k + a - 1)
      <4>1. k \in 1..n /\ k + a - 1 \in 1..n
        BY <1>1, <2>1, <3>1, <3>4
      <4>2. t \in Seq(X)
        BY <4>1, SubSeqProperties
      <4> HIDE DEF t
      <4>3. Token(pass, t) \in Y
        BY <4>2
      <4> HIDE DEF Y
      <4> QED BY <4>3 DEF t
    <3>5. f[k + 1] \in V /\ (a # 0 => f[k + a] \in V)
      <4> HIDE DEF V, IsRun
      <4> QED BY <2>2, <3>2
    <3>6. \A u, v \in V : u \o v \in V
      <4> HIDE DEF Y
      <4> QED OBVIOUS
    <3>7. G(f, k) = IF a = 0 THEN <<M[k]>> \o f[k + 1]
                    ELSE <<Token(pass, SubSeq(M, k, k + a - 1))>> \o f[k + a]
      BY DEF a
    <3> HIDE DEF V, G
    <3> QED BY <3>3, <3>4, <3>5, <3>6, <3>7
  <2>4. g \in [k..n + 1 -> V]
    <3>1. \A i \in k..n + 1 : i # k => i \in k + 1..n + 1
      BY <1>1, <2>1
    <3> HIDE DEF V, G
    <3> QED BY <2>2, <2>3, <3>1
  <2>5. g[k] = G(f, k) /\ \A i \in k + 1..n + 1 : g[i] = f[i]
    BY <1>1, <2>1
  <2> HIDE DEF g
  <2>6. \A i \in k..n : G(g, i) = G(f, i)
    <3> TAKE i \in k..n
    <3> DEFINE a == Matched(pass, M, i)
    <3>1. a \in 0..n + 1 - i
      BY <1>1, <2>1
    <3> HIDE DEF a
    <3>2. i + 1 \in k + 1..n + 1 /\ (a # 0 => i + a \in k + 1..n + 1)
      BY <1>1, <2>1, <3>1
    <3>3. g[i + 1] = f[i + 1] /\ (a # 0 => g[i + a] = f[i + a])
      BY <2>5, <3>2
    <3> QED BY <3>3 DEF a
  <2> HIDE DEF G
  <2>7. IsRun(g, k)
    <3> TAKE i \in k..n + 1
    <3>1. CASE i = k
      BY <1>1, <2>1, <2>5, <2>6, <3>1
    <3>2. CASE i # k
      <4>1. i \in k + 1..n + 1
        BY <1>1, <2>1, <3>2
      <4>2. f[i] = IF i > n THEN <<>> ELSE G(f, i)
        BY <2>2, <4>1
      <4>3. g[i] = f[i]
        BY <2>5, <4>1
      <4>4. i > n \/ i \in k..n
        BY <1>1, <2>1, <4>1
      <4> QED BY <2>6, <4>2, <4>3, <4>4
    <3> QED BY <3>1, <3>2
  <2> HIDE DEF IsRun, V
  <2> QED BY <2>4, <2>7 DEF k
<1>4. PICK h \in [1..n + 1 -> V] : IsRun(h, 1)
  <2> HIDE DEF T
  <2>1. \A i \in 0..n : i \in T
    BY <1>1, <1>2, <1>3, Counting
  <2>2. n \in T /\ n + 1 - n = 1
    BY <1>1, <2>1
  <2> HIDE DEF IsRun, V
  <2> QED BY <2>2 DEF T
<1> DEFINE from == CHOOSE g : g = [i \in 1..n + 1 |-> IF i > n THEN <<>> ELSE G(g, i)]
<1>5. Replaced(pass, M) = from[1]
  BY Zenon DEF Replaced
<1>6. h = [i \in 1..n + 1 |-> IF i > n THEN <<>> ELSE G(h, i)]
  <2> HIDE DEF G, V
  <2> QED BY <1>4
<1>7. from = [i \in 1..n + 1 |-> IF i > n THEN <<>> ELSE G(from, i)]
  BY <1>6
<1> HIDE DEF from
<1>8. from[n + 1] = <<>> /\ \A i \in 1..n : from[i] = G(from, i)
  <2> HIDE DEF G
  <2>1. \A i \in 1..n + 1 : from[i] = IF i > n THEN <<>> ELSE G(from, i)
    BY <1>7
  <2>2. n + 1 \in 1..n + 1 /\ n + 1 > n /\ \A i \in 1..n : i \in 1..n + 1 /\ ~(i > n)
    BY <1>1
  <2> QED BY <2>1, <2>2
<1> QED BY <1>5, <1>8 DEF IsTurn

-----------------------------------------------------------------------------
(* Colouring: what a pass takes in code, and where that stands. *)

\* In code, where code is what a reader of C++ takes for it, a pass takes something.
Hit(code, pass, p) == ContextAt(code, p) = "code" /\ Matched(pass, code, p) > 0

InsideOf(pass) ==
    CASE pass = "comment" -> "comment" [] pass = "block" -> "block"
      [] pass = "preprocessor" -> "line" [] pass = "string" -> "string"
      [] OTHER -> "literal"

StarterOf(pass) ==
    CASE pass = "comment" -> "slashes" [] pass = "block" -> "open"
      [] pass = "preprocessor" -> "directive" [] pass = "string" -> "quote"
      [] OTHER -> "word"

EnderOf(pass) ==
    CASE pass = "comment" -> "newline" [] pass = "block" -> "close"
      [] pass = "preprocessor" -> "newline" [] OTHER -> "quote"

ToLineEnd == {"comment", "preprocessor"}

\* A pass takes what begins with its own symbol.
LEMMA StarterFacts ==
    ASSUME NEW M, Len(M) \in Nat, NEW i \in 1..Len(M), NEW pass \in Passes,
           Matched(pass, M, i) # 0
    PROVE  M[i].kind = StarterOf(pass)
<1> DEFINE m == Matched(pass, M, i)
<1>1. /\ pass = "comment" => m = IF M[i].kind = "slashes" THEN NextOf("newline", M, i) - i ELSE 0
      /\ pass = "block" => m = IF M[i].kind = "open" /\ Ends("close", M, i)
                               THEN NextOf("close", M, i) - i + 1 ELSE 0
      /\ pass = "preprocessor" => m = IF M[i].kind = "directive" /\ BeginsLine(M, i)
                                      THEN NextOf("newline", M, i) - i ELSE 0
      /\ pass = "string" => m = IF M[i].kind = "quote" /\ Ends("quote", M, i)
                                THEN NextOf("quote", M, i) - i + 1 ELSE 0
      /\ pass = "literal" => m = IF M[i].kind = "word" THEN 1 ELSE 0
  BY MatchedFacts
<1> HIDE DEF m
<1>2. m # 0
  BY DEF m
<1> QED BY <1>1, <1>2 DEF StarterOf, Passes

\* What is behind the first symbol of what a pass takes stands inside it; and so
\* does the end of the line, which a comment and a directive leave alone.
LEMMA RegionFacts ==
    ASSUME NEW code, Len(code) \in Nat, NEW p \in 1..Len(code), NEW pass \in Passes,
           Hit(code, pass, p)
    PROVE  LET m == Matched(pass, code, p) IN
           /\ m \in 1..Len(code) + 1 - p
           /\ \A t \in p + 1..p + m - 1 : ContextAt(code, t) = InsideOf(pass)
           /\ pass \in ToLineEnd /\ p + m <= Len(code) =>
                 code[p + m].kind = "newline" /\ ContextAt(code, p + m) = InsideOf(pass)
           /\ pass \notin ToLineEnd => ContextAt(code, p + m) = "code"
           /\ code[p + m - 1].kind # "newline"
<1> DEFINE n == Len(code)
<1> DEFINE m == Matched(pass, code, p)
<1> DEFINE e == NextOf(EnderOf(pass), code, p)
<1> DEFINE inside == InsideOf(pass)
<1>1. m \in 1..n + 1 - p /\ ContextAt(code, p) = "code" /\ code[p].kind = StarterOf(pass)
  BY MatchedFacts, StarterFacts DEF Hit
<1>2. IsNext(EnderOf(pass), code, p, e)
  BY NextFacts
<1>3. /\ \A i \in 1..n + 1 : ContextAt(code, i) \in Contexts
      /\ \A i \in 1..n : ContextAt(code, i + 1) = Behind(code, i, ContextAt(code, i))
  BY ContextFacts
<1>4. CASE pass = "literal"
  <2>1. m = 1 /\ code[p].kind = "word"
    BY <1>1, <1>4, MatchedFacts DEF StarterOf
  <2>2. ContextAt(code, p + 1) = "code"
    BY <1>1, <1>3, <2>1 DEF Behind
  <2> HIDE DEF m
  <2>3. \A t \in p + 1..p + m - 1 : FALSE
    BY <2>1
  <2> QED BY <1>1, <1>4, <2>1, <2>2, <2>3 DEF ToLineEnd, m
<1>5. CASE pass # "literal"
  <2>1. IF pass \in ToLineEnd THEN m = e - p ELSE m = e - p + 1 /\ e <= n
    <3>1. CASE pass = "comment"
      BY <1>1, <3>1, MatchedFacts DEF EnderOf, ToLineEnd
    <3>2. CASE pass = "block"
      BY <1>1, <3>2, MatchedFacts DEF EnderOf, ToLineEnd, Ends
    <3>3. CASE pass = "preprocessor"
      BY <1>1, <3>3, MatchedFacts DEF EnderOf, ToLineEnd
    <3>4. CASE pass = "string"
      BY <1>1, <3>4, MatchedFacts DEF EnderOf, ToLineEnd, Ends
    <3> QED BY <1>5, <3>1, <3>2, <3>3, <3>4 DEF Passes
  <2>2. ContextAt(code, p + 1) = inside
    <3>1. pass = "preprocessor" => BeginsLine(code, p)
      BY <1>1, MatchedFacts
    <3>2. pass \in {"block", "string"} => Ends(EnderOf(pass), code, p)
      BY <2>1 DEF ToLineEnd, Ends
    <3>3. ContextAt(code, p + 1) = Behind(code, p, "code")
      BY <1>1, <1>3
    <3>4. CASE pass = "comment"
      BY <1>1, <3>3, <3>4 DEF Behind, InsideOf, StarterOf
    <3>5. CASE pass = "block"
      BY <1>1, <3>2, <3>3, <3>5 DEF Behind, InsideOf, StarterOf, EnderOf
    <3>6. CASE pass = "preprocessor"
      BY <1>1, <3>1, <3>3, <3>6 DEF Behind, InsideOf, StarterOf
    <3>7. CASE pass = "string"
      BY <1>1, <3>2, <3>3, <3>7 DEF Behind, InsideOf, StarterOf, EnderOf
    <3> QED BY <1>5, <3>4, <3>5, <3>6, <3>7 DEF Passes
  <2>3. e \in p + 1..n + 1 /\ (e <= n => code[e].kind = EnderOf(pass))
        /\ \A t \in p + 1..e - 1 : code[t].kind # EnderOf(pass)
    BY <1>2 DEF IsNext
  <2>4. /\ \A t \in 1..n : code[t].kind # EnderOf(pass) => Behind(code, t, inside) = inside
        /\ \A t \in 1..n : code[t].kind = EnderOf(pass) => Behind(code, t, inside) = "code"
    <3>1. CASE pass = "comment"
      BY <3>1 DEF Behind, InsideOf, EnderOf
    <3>2. CASE pass = "block"
      BY <3>2 DEF Behind, InsideOf, EnderOf
    <3>3. CASE pass = "preprocessor"
      BY <3>3 DEF Behind, InsideOf, EnderOf
    <3>4. CASE pass = "string"
      BY <3>4 DEF Behind, InsideOf, EnderOf
    <3> QED BY <1>5, <3>1, <3>2, <3>3, <3>4 DEF Passes
  <2> HIDE DEF e, m, inside
  <2>5. ASSUME NEW t \in p + 1..e
        PROVE  ContextAt(code, t) = inside
    <3> DEFINE d == e - p - 1
    <3> DEFINE T == {i \in 0..d : ContextAt(code, p + 1 + i) = inside}
    <3>1. d \in Nat
      BY <2>3
    <3>2. 0 \in T
      BY <2>2, <3>1
    <3>3. ASSUME NEW i \in 1..d, i - 1 \in T
          PROVE  i \in T
      <4> DEFINE u == p + i
      <4>1. u \in p + 1..e - 1 /\ u \in 1..n /\ u + 1 = p + 1 + i /\ p + 1 + (i - 1) = u
        BY <2>3
      <4>2. ContextAt(code, u) = inside
        BY <3>3, <4>1
      <4> HIDE DEF u
      <4>3. ContextAt(code, u + 1) = inside
        BY <1>3, <2>3, <2>4, <4>1, <4>2
      <4> QED BY <4>1, <4>3
    <3> HIDE DEF T, d
    <3>4. \A i \in 0..d : i \in T
      BY <3>1, <3>2, <3>3, Counting
    <3>5. t - p - 1 \in 0..d /\ p + 1 + (t - p - 1) = t
      BY <2>3, <3>1 DEF d
    <3> QED BY <3>4, <3>5 DEF T
  <2>6. \A t \in p + 1..p + m - 1 : ContextAt(code, t) = inside
    <3>1. \A t \in p + 1..p + m - 1 : t \in p + 1..e
      BY <1>1, <2>1, <2>3
    <3> QED BY <2>5, <3>1
  <2>7. ASSUME pass \in ToLineEnd, p + m <= n
        PROVE  code[p + m].kind = "newline" /\ ContextAt(code, p + m) = inside
    <3>1. p + m = e /\ EnderOf(pass) = "newline"
      BY <1>1, <2>1, <2>3, <2>7 DEF ToLineEnd, EnderOf
    <3> QED BY <2>3, <2>5, <2>7, <3>1
  <2>8. ASSUME pass \notin ToLineEnd
        PROVE  ContextAt(code, p + m) = "code"
    <3>1. p + m = e + 1 /\ e \in 1..n
      BY <1>1, <2>1, <2>3, <2>8
    <3>2. ContextAt(code, e) = inside
      BY <2>3, <2>5
    <3> QED BY <1>3, <2>3, <2>4, <3>1, <3>2
  <2>9. code[p + m - 1].kind # "newline"
    <3>1. CASE pass \in ToLineEnd
      <4>1. p + m - 1 = e - 1 /\ EnderOf(pass) = "newline"
        <5>1. m = e - p
          BY <2>1, <3>1
        <5>2. EnderOf(pass) = "newline"
          BY <3>1 DEF ToLineEnd, EnderOf
        <5> QED BY <2>3, <5>1, <5>2
      <4>2. e - 1 = p \/ e - 1 \in p + 1..e - 1
        BY <2>3
      <4>3. code[p].kind # "newline"
        BY <1>1 DEF StarterOf
      <4> QED BY <2>3, <4>1, <4>2, <4>3
    <3>2. CASE pass \notin ToLineEnd
      <4>1. p + m - 1 = e /\ e <= n
        BY <1>1, <2>1, <2>3, <3>2
      <4>2. EnderOf(pass) # "newline"
        BY <1>5, <3>2 DEF EnderOf, ToLineEnd, Passes
      <4> QED BY <2>3, <4>1, <4>2
    <3> QED BY <3>1, <3>2
  <2> QED BY <1>1, <2>6, <2>7, <2>8, <2>9 DEF m, inside
<1> QED BY <1>4, <1>5

\* One gets from the code into another context where a pass takes something only.
LEMMA EnteredByAHit ==
    ASSUME NEW code, Len(code) \in Nat, NEW p \in 1..Len(code), ContextAt(code, p) = "code",
           ContextAt(code, p + 1) # "code"
    PROVE  \E pass \in Passes : Hit(code, pass, p) /\ ContextAt(code, p + 1) = InsideOf(pass)
<1> DEFINE c == ContextAt(code, p + 1)
<1>1. c = Behind(code, p, "code")
  BY ContextFacts
<1> HIDE DEF c
<1>2. \/ code[p].kind = "slashes" /\ c = "comment"
      \/ code[p].kind = "open" /\ Ends("close", code, p) /\ c = "block"
      \/ code[p].kind = "quote" /\ Ends("quote", code, p) /\ c = "string"
      \/ code[p].kind = "directive" /\ BeginsLine(code, p) /\ c = "line"
  BY <1>1 DEF Behind, c
<1>3. \A kind : NextOf(kind, code, p) \in p + 1..Len(code) + 1
  BY NextFacts DEF IsNext
<1>4. CASE code[p].kind = "slashes" /\ c = "comment"
  <2>1. Matched("comment", code, p) > 0
    BY <1>3, <1>4, MatchedFacts DEF Passes
  <2> QED BY <1>4, <2>1 DEF Hit, InsideOf, Passes, c
<1>5. CASE code[p].kind = "open" /\ Ends("close", code, p) /\ c = "block"
  <2>1. Matched("block", code, p) > 0
    BY <1>3, <1>5, MatchedFacts DEF Passes
  <2> QED BY <1>5, <2>1 DEF Hit, InsideOf, Passes, c
<1>6. CASE code[p].kind = "quote" /\ Ends("quote", code, p) /\ c = "string"
  <2>1. Matched("string", code, p) > 0
    BY <1>3, <1>6, MatchedFacts DEF Passes
  <2> QED BY <1>6, <2>1 DEF Hit, InsideOf, Passes, c
<1>7. CASE code[p].kind = "directive" /\ BeginsLine(code, p) /\ c = "line"
  <2>1. Matched("preprocessor", code, p) > 0
    BY <1>3, <1>7, MatchedFacts DEF Passes
  <2> QED BY <1>7, <2>1 DEF Hit, InsideOf, Passes, c
<1> QED BY <1>2, <1>4, <1>5, <1>6, <1>7

-----------------------------------------------------------------------------
(* Colouring: markings, which are what some of the passes make of code. *)

Marks == Symbols \union {Token(pass, text) : pass \in Passes, text \in Seq(Symbols)}

\* x stands for the symbols of code from p up to before r: it is a token if one of
\* the passes takes something there, and else a symbol.
StandsFor(code, passes, x, p, r) ==
    /\ p \in 1..Len(code)
    /\ \/ (\A pass \in passes : ~Hit(code, pass, p)) /\ x = code[p] /\ r = p + 1
       \/ \E pass \in passes :
             /\ Hit(code, pass, p) /\ r = p + Matched(pass, code, p)
             /\ x = Token(pass, SubSeq(code, p, r - 1))

\* The elements of M stand for what is in code from a on: the i-th for what is
\* there from s[i] on.
IsMarking(code, passes, M, s, a) ==
    /\ M \in Seq(Marks) /\ s \in [1..Len(M) + 1 -> 1..Len(code) + 1]
    /\ s[1] = a /\ s[Len(M) + 1] = Len(code) + 1
    /\ \A i \in 1..Len(M) : StandsFor(code, passes, M[i], s[i], s[i + 1])

\* A pass cannot begin in a context that the passes have taken.
IsFree(code, passes, p) ==
    \/ p = Len(code) + 1
    \/ ContextAt(code, p) \notin {InsideOf(pass) : pass \in passes}
    \/ code[p].kind = "newline" /\ ContextAt(code, p) \in {"comment", "line"}

\* Symbols are no tokens.
LEMMA KindFacts ==
    /\ \A x \in Symbols : x.kind \in Kinds /\ x.kind \notin Passes
    /\ \A pass \in Passes : \A text : Token(pass, text).kind = pass
                                      /\ Token(pass, text).text = text
                                      /\ Token(pass, text) \notin Symbols
    /\ \A pass \in Passes : StarterOf(pass) \in Kinds /\ StarterOf(pass) \notin Passes
    /\ \A pass \in Passes : EnderOf(pass) \in Kinds /\ EnderOf(pass) \notin Passes
    /\ "newline" \notin Passes
<1>1. \A x \in Symbols : x.kind \in Kinds
  BY DEF Symbols, Symbol
<1>2. \A kind \in Kinds : kind \notin Passes
  BY DEF Kinds, Passes
<1>3. \A pass : \A text : Token(pass, text).kind = pass /\ Token(pass, text).text = text
  BY DEF Token
<1>4. \A pass \in Passes : StarterOf(pass) \in Kinds /\ EnderOf(pass) \in Kinds
  BY DEF Passes, StarterOf, EnderOf, Kinds
<1>5. "newline" \in Kinds
  BY DEF Kinds
<1> QED BY <1>1, <1>2, <1>3, <1>4, <1>5

\* What can be said of an element that stands for what is in code from p to before r.
IsStanding(code, passes, x, p, r) ==
    /\ p \in 1..Len(code) /\ r \in p + 1..Len(code) + 1 /\ x \in Marks
    /\ x.kind \in Kinds => x = code[p] /\ r = p + 1
    /\ (\A pass \in passes : ~Hit(code, pass, p)) => x = code[p] /\ r = p + 1
    /\ code[r - 1].kind = "newline" <=> x.kind = "newline"
    /\ (\E pass \in passes : Hit(code, pass, p)) => x.kind \in Passes
    /\ x \in Symbols => x = code[p] /\ r = p + 1
    /\ x \notin Symbols => x.text = SubSeq(code, p, r - 1)
    /\ x.kind \in Passes => x \notin Symbols /\ IsFree(code, passes, r)

\* How an element of a marking is what it stands for.
LEMMA StandingFacts ==
    ASSUME NEW code \in Seq(Symbols), NEW passes \in SUBSET Passes, NEW x, NEW p, NEW r,
           StandsFor(code, passes, x, p, r)
    PROVE  IsStanding(code, passes, x, p, r)
<1> USE DEF IsStanding
<1>1. p \in 1..Len(code) /\ Len(code) \in Nat /\ code[p] \in Symbols
  BY DEF StandsFor
<1>2. CASE (\A pass \in passes : ~Hit(code, pass, p)) /\ x = code[p] /\ r = p + 1
  <2>1. x \in Marks /\ x.kind \in Kinds /\ x.kind \notin Passes
    BY <1>1, <1>2, KindFacts DEF Marks
  <2>2. r - 1 = p /\ r \in p + 1..Len(code) + 1
    BY <1>1, <1>2
  <2> QED BY <1>1, <1>2, <2>1, <2>2
<1>3. ASSUME NEW pass \in passes, Hit(code, pass, p), r = p + Matched(pass, code, p),
             x = Token(pass, SubSeq(code, p, r - 1))
      PROVE  /\ r \in p + 1..Len(code) + 1 /\ x \in Marks /\ x.kind \in Passes
             /\ x \notin Symbols /\ x.text = SubSeq(code, p, r - 1)
             /\ code[r - 1].kind # "newline" /\ IsFree(code, passes, r)
  <2> DEFINE m == Matched(pass, code, p)
  <2>1. /\ m \in 1..Len(code) + 1 - p /\ code[p + m - 1].kind # "newline"
        /\ pass \in ToLineEnd /\ p + m <= Len(code) =>
              code[p + m].kind = "newline" /\ ContextAt(code, p + m) = InsideOf(pass)
        /\ pass \notin ToLineEnd => ContextAt(code, p + m) = "code"
    BY <1>1, <1>3, RegionFacts
  <2> HIDE DEF m
  <2>2. r = p + m
    BY <1>3 DEF m
  <2>3. r \in p + 1..Len(code) + 1 /\ r - 1 = p + m - 1
    <3>1. m \in 1..Len(code) + 1 - p
      BY <2>1
    <3> QED BY <1>1, <2>2, <3>1
  <2>4. SubSeq(code, p, r - 1) \in Seq(Symbols)
    BY <1>1, <2>3, SubSeqProperties
  <2>5. x \in Marks /\ x.kind \in Passes /\ x \notin Symbols /\ x.text = SubSeq(code, p, r - 1)
    <3> DEFINE text == SubSeq(code, p, r - 1)
    <3>1. text \in Seq(Symbols) /\ x = Token(pass, text) /\ pass \in Passes
      BY <1>3, <2>4
    <3> HIDE DEF text
    <3>2. x \in Marks /\ x.kind \in Passes /\ x \notin Symbols /\ x.text = text
      BY <3>1, KindFacts DEF Marks
    <3> QED BY <3>2 DEF text
  <2>6. IsFree(code, passes, r)
    <3>1. CASE pass \in ToLineEnd
      <4>1. InsideOf(pass) \in {"comment", "line"}
        BY <3>1 DEF ToLineEnd, InsideOf
      <4> QED BY <1>1, <2>1, <2>2, <2>3, <3>1, <4>1 DEF IsFree
    <3>2. CASE pass \notin ToLineEnd
      <4>1. \A q \in Passes : InsideOf(q) # "code"
        BY DEF InsideOf
      <4> QED BY <2>1, <2>2, <3>2, <4>1 DEF IsFree
    <3> QED BY <3>1, <3>2
  <2> QED BY <2>1, <2>2, <2>3, <2>5, <2>6
<1>4. CASE ~(\A pass \in passes : ~Hit(code, pass, p))
  <2>1. \E pass \in passes : /\ Hit(code, pass, p) /\ r = p + Matched(pass, code, p)
                             /\ x = Token(pass, SubSeq(code, p, r - 1))
    BY <1>4 DEF StandsFor
  <2>2. /\ r \in p + 1..Len(code) + 1 /\ x \in Marks /\ x.kind \in Passes
        /\ x \notin Symbols /\ x.text = SubSeq(code, p, r - 1)
        /\ code[r - 1].kind # "newline" /\ IsFree(code, passes, r)
    BY <1>3, <2>1
  <2>3. x.kind \notin Kinds
    BY <2>2 DEF Passes, Kinds
  <2> QED BY <1>1, <1>4, <2>2, <2>3, KindFacts
<1>5. CASE \A pass \in passes : ~Hit(code, pass, p)
  <2>1. x = code[p] /\ r = p + 1
    BY <1>5 DEF StandsFor
  <2> QED BY <1>2, <1>5, <2>1
<1> QED BY <1>4, <1>5

\* What a marking is, element by element.
LEMMA MarkingFacts ==
    ASSUME NEW code \in Seq(Symbols), NEW passes \in SUBSET Passes, NEW M, NEW s, NEW a,
           IsMarking(code, passes, M, s, a)
    PROVE  /\ Len(M) \in Nat /\ Len(code) \in Nat
           /\ \A j \in 1..Len(code) : code[j] \in Symbols
           /\ s[1] = a /\ s[Len(M) + 1] = Len(code) + 1
           /\ \A j \in 1..Len(M) + 1 : s[j] \in 1..Len(code) + 1
           /\ \A j \in 1..Len(M) :
                 /\ StandsFor(code, passes, M[j], s[j], s[j + 1])
                 /\ IsStanding(code, passes, M[j], s[j], s[j + 1])
                 /\ s[j] \in 1..Len(code) /\ s[j + 1] \in s[j] + 1..Len(code) + 1
<1>1. /\ M \in Seq(Marks) /\ s \in [1..Len(M) + 1 -> 1..Len(code) + 1]
      /\ s[1] = a /\ s[Len(M) + 1] = Len(code) + 1
      /\ \A j \in 1..Len(M) : StandsFor(code, passes, M[j], s[j], s[j + 1])
  BY DEF IsMarking
<1>2. Len(M) \in Nat /\ Len(code) \in Nat /\ \A j \in 1..Len(code) : code[j] \in Symbols
  BY <1>1
<1>3. ASSUME NEW j \in 1..Len(M)
      PROVE  IsStanding(code, passes, M[j], s[j], s[j + 1])
  <2>1. StandsFor(code, passes, M[j], s[j], s[j + 1])
    BY <1>1
  <2> QED BY <2>1, StandingFacts
<1>4. \A j \in 1..Len(M) : s[j] \in 1..Len(code) /\ s[j + 1] \in s[j] + 1..Len(code) + 1
  BY <1>3 DEF IsStanding
<1> QED BY <1>1, <1>2, <1>3, <1>4

\* What is further on in a marking stands for what is further on in the code.
LEMMA FurtherOn ==
    ASSUME NEW code \in Seq(Symbols), NEW passes \in SUBSET Passes, NEW M, NEW s, NEW a,
           IsMarking(code, passes, M, s, a), NEW i \in 1..Len(M)
    PROVE  \A j \in i + 1..Len(M) + 1 : s[j] > s[i]
<1> DEFINE k == Len(M) - i
<1> DEFINE T == {d \in 0..k : s[i + 1 + d] > s[i]}
<1>1. /\ Len(M) \in Nat /\ k \in Nat
      /\ \A j \in 1..Len(M) + 1 : s[j] \in 1..Len(code) + 1
      /\ \A j \in 1..Len(M) : s[j + 1] \in s[j] + 1..Len(code) + 1
  <2>1. /\ Len(M) \in Nat /\ \A j \in 1..Len(M) + 1 : s[j] \in 1..Len(code) + 1
        /\ \A j \in 1..Len(M) : s[j + 1] \in s[j] + 1..Len(code) + 1
    BY MarkingFacts
  <2> QED BY <2>1
<1>2. ASSUME NEW j \in 1..Len(M)
      PROVE  s[j + 1] > s[j]
  <2>1. s[j] \in 1..Len(code) + 1 /\ s[j + 1] \in s[j] + 1..Len(code) + 1 /\ Len(code) \in Nat
    BY <1>1
  <2> QED BY <2>1
<1>3. 0 \in T
  BY <1>1, <1>2
<1>4. ASSUME NEW d \in 1..k, d - 1 \in T
      PROVE  d \in T
  <2>1. i + d \in 1..Len(M) /\ i + 1 + (d - 1) = i + d /\ i + 1 + d = (i + d) + 1
    BY <1>1
  <2>2. s[i + d] > s[i] /\ s[(i + d) + 1] > s[i + d]
    BY <1>2, <1>4, <2>1
  <2>3. s[i] \in Nat /\ s[i + d] \in Nat /\ s[(i + d) + 1] \in Nat
    BY <1>1, <2>1
  <2> QED BY <2>1, <2>2, <2>3
<1> HIDE DEF T, k
<1>5. \A d \in 0..k : d \in T
  BY <1>1, <1>3, <1>4, Counting
<1>6. \A j \in i + 1..Len(M) + 1 : j - i - 1 \in 0..k /\ i + 1 + (j - i - 1) = j
  BY <1>1 DEF k
<1> QED BY <1>5, <1>6 DEF T

\* M is like code, symbol by symbol, from i and p on for k symbols.
IsLike(M, s, i, code, p, k) ==
    /\ i + k \in 1..Len(M) + 1 /\ s[i + k] = p + k
    /\ \A d \in 0..k - 1 : M[i + d] = code[p + d] /\ i + d \in 1..Len(M)

\* Behind a symbol, a marking is like the code as long as that is not code.
LEMMA LikeFacts ==
    ASSUME NEW code \in Seq(Symbols), NEW passes \in SUBSET Passes, NEW M, NEW s, NEW a,
           IsMarking(code, passes, M, s, a), NEW i \in 1..Len(M), M[i].kind \in Kinds,
           NEW k \in 1..Len(code) + 1 - s[i],
           \A t \in s[i] + 1..s[i] + k - 1 : ContextAt(code, t) # "code"
    PROVE  IsLike(M, s, i, code, s[i], k)
<1> DEFINE p == s[i]
<1> DEFINE T == {d \in 0..k : i + d \in 1..Len(M) + 1 /\ s[i + d] = p + d}
<1>1. /\ Len(M) \in Nat /\ Len(code) \in Nat /\ p \in 1..Len(code)
      /\ s[Len(M) + 1] = Len(code) + 1 /\ M[i] = code[p] /\ s[i + 1] = p + 1
  <2>1. /\ Len(M) \in Nat /\ Len(code) \in Nat /\ s[Len(M) + 1] = Len(code) + 1
        /\ IsStanding(code, passes, M[i], s[i], s[i + 1]) /\ s[i] \in 1..Len(code)
    BY MarkingFacts
  <2> QED BY <2>1 DEF IsStanding
<1> HIDE DEF p
<1>2. ASSUME NEW d \in 0..k - 1, d \in T
      PROVE  i + d \in 1..Len(M) /\ M[i + d] = code[p + d] /\ s[i + d + 1] = p + d + 1
  <2>1. p + d \in 1..Len(code) /\ s[i + d] = p + d
    <3>1. k \in 1..Len(code) + 1 - p
      BY DEF p
    <3>2. s[i + d] = p + d
      BY <1>2
    <3>3. p + d \in 1..Len(code)
      <4> HIDE DEF T
      <4> QED BY <1>1, <3>1
    <3> QED BY <3>2, <3>3
  <2>2. i + d \in 1..Len(M)
    BY <1>1, <1>2, <2>1
  <2>3. CASE d = 0
    BY <1>1, <2>2, <2>3
  <2>4. CASE d # 0
    <3>1. p + d \in p + 1..p + k - 1
      BY <1>1, <2>4
    <3>2. ContextAt(code, p + d) # "code"
      BY <3>1 DEF p
    <3>3. IsStanding(code, passes, M[i + d], s[i + d], s[i + d + 1])
      BY <2>2, MarkingFacts
    <3>4. \A pass \in passes : ~Hit(code, pass, s[i + d])
      BY <2>1, <3>2 DEF Hit
    <3> QED BY <2>1, <2>2, <3>3, <3>4 DEF IsStanding
  <2> QED BY <2>3, <2>4
<1>3. 0 \in T
  BY <1>1 DEF p
<1>4. ASSUME NEW d \in 1..k, d - 1 \in T
      PROVE  d \in T
  <2>1. d - 1 \in 0..k - 1 /\ i + (d - 1) + 1 = i + d /\ p + (d - 1) + 1 = p + d
    BY <1>1
  <2>2. i + (d - 1) \in 1..Len(M) /\ s[i + d] = p + d
    BY <1>2, <1>4, <2>1
  <2>3. i + d \in 1..Len(M) + 1
    BY <1>1, <2>2
  <2> QED BY <2>2, <2>3
<1> HIDE DEF T
<1>5. \A d \in 0..k : d \in T
  <2>1. k \in Nat
    BY <1>1 DEF p
  <2> QED BY <1>3, <1>4, <2>1, Counting
<1>6. k \in 0..k /\ \A d \in 0..k - 1 : d \in 0..k
  OBVIOUS
<1>7. \A d \in 0..k - 1 : M[i + d] = code[p + d] /\ i + d \in 1..Len(M)
  BY <1>2, <1>5, <1>6
<1>8. i + k \in 1..Len(M) + 1 /\ s[i + k] = p + k
  BY <1>5, <1>6 DEF T
<1> QED BY <1>7, <1>8 DEF IsLike, p

\* In what is code, a pass takes the same from a marking as from the code.
LEMMA MatchedAlike ==
    ASSUME NEW code \in Seq(Symbols), NEW passes \in SUBSET Passes, NEW M, NEW s,
           IsMarking(code, passes, M, s, 1), NEW i \in 1..Len(M), M[i].kind \in Kinds,
           ContextAt(code, s[i]) = "code", NEW pass \in Passes
    PROVE  /\ Matched(pass, M, i) = Matched(pass, code, s[i])
           /\ Matched(pass, M, i) # 0 =>
                 /\ Hit(code, pass, s[i])
                 /\ IsLike(M, s, i, code, s[i], Matched(pass, M, i))
<1> DEFINE p == s[i]
<1> DEFINE m == Matched(pass, code, p)
<1> DEFINE e == NextOf(EnderOf(pass), code, p)
<1> DEFINE f == NextOf(EnderOf(pass), M, i)
<1>1. /\ Len(M) \in Nat /\ Len(code) \in Nat /\ p \in 1..Len(code)
      /\ s[Len(M) + 1] = Len(code) + 1 /\ s[1] = 1 /\ M[i] = code[p]
      /\ \A j \in 1..Len(M) + 1 : s[j] \in Nat
      /\ \A j \in 1..Len(M) : IsStanding(code, passes, M[j], s[j], s[j + 1])
                               /\ s[j] \in 1..Len(code)
  <2>1. /\ Len(M) \in Nat /\ Len(code) \in Nat /\ s[Len(M) + 1] = Len(code) + 1 /\ s[1] = 1
        /\ \A j \in 1..Len(M) + 1 : s[j] \in 1..Len(code) + 1
        /\ \A j \in 1..Len(M) : IsStanding(code, passes, M[j], s[j], s[j + 1])
                                 /\ s[j] \in 1..Len(code)
    BY MarkingFacts
  <2>2. M[i] = code[s[i]]
    BY <2>1 DEF IsStanding
  <2> QED BY <2>1, <2>2
<1>2. IsNext(EnderOf(pass), code, p, e) /\ IsNext(EnderOf(pass), M, i, f)
      /\ \A j : IsNext(EnderOf(pass), M, i, j) => f = j
  BY <1>1, NextFacts
<1>3. \A j \in i + 1..Len(M) : s[j] > p
  BY FurtherOn
<1>4. BeginsLine(M, i) <=> BeginsLine(code, p)
  <2>1. CASE i = 1
    BY <1>1, <2>1 DEF BeginsLine
  <2>2. CASE i # 1
    <3>1. i - 1 \in 1..Len(M) /\ (i - 1) + 1 = i /\ i \in 1 + 1..Len(M) + 1 /\ 1 \in 1..Len(M)
      BY <1>1, <2>2
    <3>2. p > 1
      BY <1>1, <3>1, FurtherOn
    <3>3. IsStanding(code, passes, M[i - 1], s[i - 1], p)
      BY <1>1, <3>1
    <3>4. code[p - 1].kind = "newline" <=> M[i - 1].kind = "newline"
      BY <3>3 DEF IsStanding
    <3> QED BY <1>1, <2>2, <3>2, <3>4 DEF BeginsLine
  <2> QED BY <2>1, <2>2
<1>5. ASSUME m # 0
      PROVE  /\ Hit(code, pass, p) /\ m \in 1..Len(code) + 1 - p
             /\ IsLike(M, s, i, code, p, m)
  <2>1. Hit(code, pass, p)
    BY <1>1, <1>5, MatchedFacts DEF Hit
  <2>2. m \in 1..Len(code) + 1 - p /\ \A t \in p + 1..p + m - 1 : ContextAt(code, t) = InsideOf(pass)
    BY <1>1, <2>1, RegionFacts
  <2>3. InsideOf(pass) # "code"
    BY DEF InsideOf
  <2> HIDE DEF m, p
  <2>4. \A t \in s[i] + 1..s[i] + m - 1 : ContextAt(code, t) # "code"
    BY <2>2, <2>3 DEF p
  <2>5. IsLike(M, s, i, code, s[i], m)
    BY <2>2, <2>4, LikeFacts DEF p
  <2> QED BY <2>1, <2>2, <2>5 DEF p
<1>6. ASSUME m # 0, pass \in ToLineEnd, m = e - p
      PROVE  f - i = m
  <2>1. /\ IsLike(M, s, i, code, p, m) /\ m \in 1..Len(code) + 1 - p /\ Hit(code, pass, p)
        /\ \A d \in 0..m - 1 : M[i + d] = code[p + d] /\ i + d \in 1..Len(M)
        /\ i + m \in 1..Len(M) + 1 /\ s[i + m] = e
    <3>1. IsLike(M, s, i, code, p, m) /\ m \in 1..Len(code) + 1 - p /\ Hit(code, pass, p)
      BY <1>5, <1>6
    <3>2. p + m = e
      BY <1>1, <1>2, <1>6 DEF IsNext
    <3> HIDE DEF p, e, m
    <3> QED BY <3>1, <3>2 DEF IsLike
  <2>2. EnderOf(pass) = "newline"
    BY <1>6 DEF ToLineEnd, EnderOf
  <2>3. ASSUME i + m <= Len(M)
        PROVE  M[i + m].kind = "newline"
    <3> HIDE DEF e, f
    <3>1. i + m \in 1..Len(M)
      BY <2>1, <2>3
    <3>2. /\ IsStanding(code, passes, M[i + m], e, s[i + m + 1])
          /\ e \in 1..Len(code) /\ e = p + m
      <4>1. IsStanding(code, passes, M[i + m], e, s[i + m + 1]) /\ e \in 1..Len(code)
        BY <1>1, <2>1, <3>1
      <4> HIDE DEF p, m
      <4> QED BY <1>1, <1>6, <4>1
    <3>3. code[e].kind = "newline" /\ ContextAt(code, e) = InsideOf(pass)
      <4>1. p + m <= Len(code)
        BY <1>1, <3>2
      <4>2. code[p + m].kind = "newline" /\ ContextAt(code, p + m) = InsideOf(pass)
        <5> HIDE DEF p
        <5>1. pass \in ToLineEnd
          BY <1>6
        <5> QED BY <1>1, <2>1, <4>1, <5>1, RegionFacts DEF m
      <4> QED BY <3>2, <4>2
    <3>4. InsideOf(pass) # "code"
      BY DEF InsideOf
    <3>5. \A q \in passes : ~Hit(code, q, e)
      BY <3>3, <3>4 DEF Hit
    <3>6. M[i + m] = code[e]
      BY <3>2, <3>5 DEF IsStanding
    <3> QED BY <3>3, <3>6
  <2> HIDE DEF m, p, e, f
  <2>4. ASSUME NEW j \in i + 1..(i + m) - 1
        PROVE  M[j].kind # "newline"
    <3>1. j - i \in 0..m - 1 /\ i + (j - i) = j /\ p + (j - i) \in p + 1..e - 1
      <4>1. p \in Nat /\ m \in Nat /\ e \in Int
        <5>1. p \in Nat /\ Len(code) \in Nat
          BY <1>1
        <5>2. e \in p + 1..Len(code) + 1
          BY <1>2 DEF IsNext
        <5> QED BY <2>1, <5>1, <5>2
      <4>2. m = e - p
        BY <1>6
      <4> QED BY <4>1, <4>2
    <3>2. M[j] = code[p + (j - i)]
      BY <2>1, <3>1
    <3> QED BY <1>2, <2>2, <3>1, <3>2 DEF IsNext
  <2>5. IsNext("newline", M, i, i + m)
    <3>1. i + m \in i + 1..Len(M) + 1
      BY <2>1
    <3> QED BY <2>3, <2>4, <3>1 DEF IsNext
  <2>6. f = i + m
    BY <1>2, <2>2, <2>5
  <2> QED BY <2>1, <2>6
<1>7. ASSUME m # 0, m = (e - p) + 1, e <= Len(code)
      PROVE  f <= Len(M) /\ (f - i) + 1 = m
  <2>1. /\ IsLike(M, s, i, code, p, m) /\ m \in 1..Len(code) + 1 - p
        /\ \A d \in 0..m - 1 : M[i + d] = code[p + d] /\ i + d \in 1..Len(M)
    <3>1. IsLike(M, s, i, code, p, m) /\ m \in 1..Len(code) + 1 - p
      BY <1>5, <1>7
    <3> HIDE DEF p, m
    <3> QED BY <3>1 DEF IsLike
  <2> HIDE DEF m, p, e, f
  <2>2. e \in p + 1..Len(code) /\ code[e].kind = EnderOf(pass)
        /\ \A t \in p + 1..e - 1 : code[t].kind # EnderOf(pass)
    BY <1>1, <1>2, <1>7 DEF IsNext
  <2>3. m - 1 \in 0..m - 1 /\ p + (m - 1) = e /\ m - 1 >= 1
    <3>1. m = (e - p) + 1 /\ p \in Nat /\ e \in p + 1..Len(code)
      BY <1>1, <1>7, <2>2
    <3> QED BY <3>1
  <2>4. M[i + (m - 1)].kind = EnderOf(pass) /\ i + (m - 1) \in 1..Len(M)
    BY <2>1, <2>2, <2>3
  <2>5. ASSUME NEW j \in i + 1..(i + (m - 1)) - 1
        PROVE  M[j].kind # EnderOf(pass)
    <3>1. j - i \in 0..m - 1 /\ i + (j - i) = j /\ p + (j - i) \in p + 1..e - 1
      BY <1>1, <2>1, <2>3
    <3>2. M[j] = code[p + (j - i)]
      BY <2>1, <3>1
    <3> QED BY <2>2, <3>1, <3>2
  <2>6. IsNext(EnderOf(pass), M, i, i + (m - 1))
    <3>1. i + (m - 1) \in i + 1..Len(M) + 1
      <4>1. m \in Nat /\ m - 1 >= 1
        BY <1>1, <2>1, <2>3
      <4> QED BY <1>1, <2>4, <4>1
    <3> QED BY <2>4, <2>5, <3>1 DEF IsNext
  <2>7. f = i + (m - 1)
    BY <1>2, <2>6
  <2> QED BY <2>1, <2>4, <2>7
<1>8. ASSUME f <= Len(M)
      PROVE  e <= Len(code)
  <2>1. f \in i + 1..Len(M) /\ M[f].kind = EnderOf(pass)
    BY <1>1, <1>2, <1>8 DEF IsNext
  <2> HIDE DEF e, f, p
  <2>2. f \in 1..Len(M) /\ s[f] > p
    BY <1>1, <1>3, <2>1
  <2>3. M[f] = code[s[f]] /\ s[f] \in 1..Len(code)
    <3>1. IsStanding(code, passes, M[f], s[f], s[f + 1]) /\ s[f] \in 1..Len(code)
      BY <1>1, <2>2
    <3>2. M[f].kind \in Kinds
      BY <2>1, KindFacts
    <3> QED BY <3>1, <3>2 DEF IsStanding
  <2>4. ASSUME e = Len(code) + 1
        PROVE  FALSE
    <3>1. s[f] \in p + 1..e - 1
      BY <1>1, <2>2, <2>3, <2>4
    <3> QED BY <1>2, <2>1, <2>3, <3>1 DEF IsNext
  <2>5. e \in p + 1..Len(code) + 1
    BY <1>2 DEF IsNext
  <2> QED BY <1>1, <2>4, <2>5
<1> HIDE DEF m, p, e, f
<1>9. Matched(pass, M, i) = m
  <2>1. CASE pass = "comment"
    <3>1. EnderOf(pass) = "newline" /\ pass \in ToLineEnd
      BY <2>1 DEF EnderOf, ToLineEnd
    <3>2. /\ Matched(pass, M, i) = IF M[i].kind = "slashes" THEN f - i ELSE 0
          /\ m = IF code[p].kind = "slashes" THEN e - p ELSE 0
      BY <1>1, <2>1, <3>1, MatchedFacts DEF m, e, f
    <3>3. e - p # 0
      BY <1>1, <1>2 DEF IsNext
    <3> QED BY <1>1, <1>6, <3>1, <3>2, <3>3
  <2>2. CASE pass = "preprocessor"
    <3>1. EnderOf(pass) = "newline" /\ pass \in ToLineEnd
      BY <2>2 DEF EnderOf, ToLineEnd
    <3>2. /\ Matched(pass, M, i) = IF M[i].kind = "directive" /\ BeginsLine(M, i)
                                   THEN f - i ELSE 0
          /\ m = IF code[p].kind = "directive" /\ BeginsLine(code, p) THEN e - p ELSE 0
      BY <1>1, <2>2, <3>1, MatchedFacts DEF m, e, f
    <3>3. e - p # 0
      BY <1>1, <1>2 DEF IsNext
    <3> QED BY <1>1, <1>4, <1>6, <3>1, <3>2, <3>3
  <2>3. CASE pass = "block"
    <3>1. EnderOf(pass) = "close"
      BY <2>3 DEF EnderOf
    <3>2. /\ Matched(pass, M, i) = IF M[i].kind = "open" /\ f <= Len(M) THEN (f - i) + 1 ELSE 0
          /\ m = IF code[p].kind = "open" /\ e <= Len(code) THEN (e - p) + 1 ELSE 0
      BY <1>1, <2>3, <3>1, MatchedFacts DEF m, e, f, Ends
    <3>3. (e - p) + 1 # 0
      BY <1>1, <1>2 DEF IsNext
    <3> QED BY <1>1, <1>7, <1>8, <3>2, <3>3
  <2>4. CASE pass = "string"
    <3>1. EnderOf(pass) = "quote"
      BY <2>4 DEF EnderOf
    <3>2. /\ Matched(pass, M, i) = IF M[i].kind = "quote" /\ f <= Len(M) THEN (f - i) + 1 ELSE 0
          /\ m = IF code[p].kind = "quote" /\ e <= Len(code) THEN (e - p) + 1 ELSE 0
      BY <1>1, <2>4, <3>1, MatchedFacts DEF m, e, f, Ends
    <3>3. (e - p) + 1 # 0
      BY <1>1, <1>2 DEF IsNext
    <3> QED BY <1>1, <1>7, <1>8, <3>2, <3>3
  <2>5. CASE pass = "literal"
    BY <1>1, <2>5, MatchedFacts DEF m
  <2> QED BY <2>1, <2>2, <2>3, <2>4, <2>5 DEF Passes
<1> QED BY <1>5, <1>9 DEF m, p

\* Code itself is marked by no pass.
LEMMA Unmarked ==
    ASSUME NEW code \in Seq(Symbols)
    PROVE  \E s : IsMarking(code, {}, code, s, 1)
<1> DEFINE s == [j \in 1..Len(code) + 1 |-> j]
<1>1. Len(code) \in Nat /\ \A j \in 1..Len(code) : code[j] \in Symbols
  OBVIOUS
<1>2. code \in Seq(Marks)
  <2>1. Symbols \subseteq Marks
    BY DEF Marks
  <2> QED BY <2>1
<1>3. s \in [1..Len(code) + 1 -> 1..Len(code) + 1] /\ s[1] = 1 /\ s[Len(code) + 1] = Len(code) + 1
      /\ \A j \in 1..Len(code) : s[j] = j /\ s[j + 1] = j + 1
  BY <1>1
<1> HIDE DEF s
<1>4. \A j \in 1..Len(code) : StandsFor(code, {}, code[j], s[j], s[j + 1])
  BY <1>3 DEF StandsFor
<1>5. IsMarking(code, {}, code, s, 1)
  BY <1>2, <1>3, <1>4 DEF IsMarking
<1> QED BY <1>5

\* A marking grows to the front.
LEMMA Prepended ==
    ASSUME NEW code \in Seq(Symbols), NEW passes \in SUBSET Passes, NEW F, NEW r, NEW b,
           IsMarking(code, passes, F, r, b), NEW x, NEW a, StandsFor(code, passes, x, a, b)
    PROVE  \E s : IsMarking(code, passes, <<x>> \o F, s, a)
<1> DEFINE M == <<x>> \o F
<1> DEFINE s == [j \in 1..Len(F) + 2 |-> IF j = 1 THEN a ELSE r[j - 1]]
<1>1. /\ F \in Seq(Marks) /\ r \in [1..Len(F) + 1 -> 1..Len(code) + 1]
      /\ r[1] = b /\ r[Len(F) + 1] = Len(code) + 1
      /\ \A i \in 1..Len(F) : StandsFor(code, passes, F[i], r[i], r[i + 1])
  BY DEF IsMarking
<1>2. a \in 1..Len(code) /\ x \in Marks /\ Len(code) \in Nat /\ Len(F) \in Nat
  <2>1. IsStanding(code, passes, x, a, b)
    BY StandingFacts
  <2> QED BY <1>1, <2>1 DEF IsStanding
<1>3. /\ M \in Seq(Marks) /\ Len(M) = Len(F) + 1 /\ M[1] = x
      /\ \A i \in 2..Len(M) : M[i] = F[i - 1]
  <2>1. <<x>> \in Seq(Marks) /\ Len(<<x>>) = 1
    BY <1>2
  <2> QED BY <1>1, <1>2, <2>1
<1>4. /\ s[1] = a /\ \A j \in 2..Len(F) + 2 : s[j] = r[j - 1]
      /\ s \in [1..Len(F) + 2 -> 1..Len(code) + 1]
  BY <1>1, <1>2
<1> HIDE DEF M, s
<1>5. ASSUME NEW i \in 1..Len(M)
      PROVE  StandsFor(code, passes, M[i], s[i], s[i + 1])
  <2>1. CASE i = 1
    <3>1. s[i + 1] = b
      BY <1>1, <1>2, <1>4, <2>1
    <3> QED BY <1>3, <1>4, <2>1, <3>1
  <2>2. CASE i # 1
    <3>1. i - 1 \in 1..Len(F) /\ i \in 2..Len(M) /\ i \in 2..Len(F) + 2
          /\ i + 1 \in 2..Len(F) + 2 /\ (i + 1) - 1 = (i - 1) + 1
      BY <1>2, <1>3, <2>2
    <3>2. s[i] = r[i - 1] /\ s[i + 1] = r[(i - 1) + 1] /\ M[i] = F[i - 1]
      BY <1>3, <1>4, <3>1
    <3>3. StandsFor(code, passes, F[i - 1], r[i - 1], r[(i - 1) + 1])
      BY <1>1, <3>1
    <3> QED BY <3>2, <3>3
  <2> QED BY <2>1, <2>2
<1>6. s \in [1..Len(M) + 1 -> 1..Len(code) + 1] /\ s[Len(M) + 1] = Len(code) + 1
  <2>1. Len(M) + 1 = Len(F) + 2 /\ Len(F) + 2 \in 2..Len(F) + 2
        /\ (Len(F) + 2) - 1 = Len(F) + 1
    BY <1>2, <1>3
  <2> QED BY <1>1, <1>4, <2>1
<1>7. IsMarking(code, passes, M, s, a)
  BY <1>3, <1>4, <1>5, <1>6 DEF IsMarking
<1> QED BY <1>7 DEF M

\* Where a pass finds its symbol and is free to begin, a reader of C++ is in code.
BeginsInCode(code, pass, passes) ==
    \A p \in 1..Len(code) :
        code[p].kind = StarterOf(pass) /\ IsFree(code, passes, p) => ContextAt(code, p) = "code"

\* Behind a free place, what is left as it is leads to a free place.
LEMMA FreeBehind ==
    ASSUME NEW code \in Seq(Symbols), NEW passes \in SUBSET Passes, NEW x, NEW p, NEW r,
           StandsFor(code, passes, x, p, r), IsFree(code, passes, p)
    PROVE  IsFree(code, passes, r)
<1>1. IsStanding(code, passes, x, p, r) /\ Len(code) \in Nat
  BY StandingFacts
<1>2. CASE x.kind \in Passes
  BY <1>1, <1>2 DEF IsStanding
<1>3. CASE x.kind \notin Passes
  <2>1. /\ p \in 1..Len(code) /\ r = p + 1
        /\ \A pass \in passes : ~Hit(code, pass, p)
    BY <1>1, <1>3 DEF IsStanding
  <2>2. /\ ContextAt(code, p) \in Contexts
        /\ ContextAt(code, p + 1) = Behind(code, p, ContextAt(code, p))
    BY <1>1, <2>1, ContextFacts
  <2>3. \A q \in Passes : InsideOf(q) # "code"
    BY DEF InsideOf
  <2>4. CASE code[p].kind = "newline" /\ ContextAt(code, p) \in {"comment", "line"}
    <3>1. ContextAt(code, p + 1) = "code"
      BY <2>2, <2>4 DEF Behind
    <3> QED BY <2>1, <2>3, <3>1 DEF IsFree
  <2>5. CASE ContextAt(code, p) \notin {InsideOf(pass) : pass \in passes}
             /\ ContextAt(code, p) # "code"
    <3>1. ContextAt(code, p + 1) \in {"code", ContextAt(code, p)}
      BY <2>2, <2>5 DEF Behind
    <3> QED BY <2>1, <2>3, <2>5, <3>1 DEF IsFree
  <2>6. CASE ContextAt(code, p) = "code" /\ ContextAt(code, p + 1) = "code"
    BY <2>1, <2>3, <2>6 DEF IsFree
  <2>7. CASE ContextAt(code, p) = "code" /\ ContextAt(code, p + 1) # "code"
    <3>1. PICK q \in Passes : Hit(code, q, p) /\ ContextAt(code, p + 1) = InsideOf(q)
      BY <1>1, <2>1, <2>7, EnteredByAHit
    <3>2. q \notin passes
      BY <2>1, <3>1
    <3>3. \A pass \in Passes : InsideOf(pass) = InsideOf(q) => pass = q
      BY DEF InsideOf, Passes
    <3> QED BY <2>1, <3>1, <3>2, <3>3 DEF IsFree
  <2>8. p # Len(code) + 1
    BY <1>1, <2>1
  <2> QED BY <2>4, <2>5, <2>6, <2>7, <2>8 DEF IsFree
<1> QED BY <1>2, <1>3

\* The first element of f[i] stands for code, and the rest is f from further on.
IsTurned(code, passes, M, s, i, f) ==
    \E x : \E j \in i + 1..Len(M) + 1 :
        f[i] = <<x>> \o f[j] /\ StandsFor(code, passes, x, s[i], s[j])

\* One turn of a pass over a marking, from a free place: what comes first stands for
\* its part of the code with this pass among the others, and the rest begins where
\* the pass goes on.
LEMMA TurnFacts ==
    ASSUME NEW code \in Seq(Symbols), NEW passes \in SUBSET Passes, NEW pass \in Passes,
           NEW M, NEW s, IsMarking(code, passes, M, s, 1),
           BeginsInCode(code, pass, passes \union {pass}),
           NEW i \in 1..Len(M), IsFree(code, passes \union {pass}, s[i]),
           NEW f, IsTurn(pass, M, f, i)
    PROVE  IsTurned(code, passes \union {pass}, M, s, i, f)
<1> USE DEF IsTurned
<1> DEFINE more == passes \union {pass}
<1> DEFINE m == Matched(pass, M, i)
<1> DEFINE p == s[i]
<1>1. /\ Len(M) \in Nat /\ Len(code) \in Nat /\ p \in 1..Len(code)
      /\ StandsFor(code, passes, M[i], p, s[i + 1])
      /\ IsStanding(code, passes, M[i], p, s[i + 1])
  BY MarkingFacts
<1>2. m \in 0..Len(M) + 1 - i
  BY <1>1, MatchedFacts
<1>3. CASE m = 0
  <2>1. f[i] = <<M[i]>> \o f[i + 1]
    BY <1>3 DEF IsTurn
  <2>a. i + 1 \in i + 1..Len(M) + 1
    BY <1>1
  <2>2. CASE \E q \in passes : Hit(code, q, p)
    <3>1. PICK q \in passes : /\ Hit(code, q, p) /\ s[i + 1] = p + Matched(q, code, p)
                              /\ M[i] = Token(q, SubSeq(code, p, s[i + 1] - 1))
      BY <1>1, <2>2 DEF StandsFor
    <3>2. q \in more
      OBVIOUS
    <3> HIDE DEF more
    <3>3. StandsFor(code, more, M[i], p, s[i + 1])
      BY <1>1, <3>1, <3>2 DEF StandsFor
    <3>4. StandsFor(code, passes \union {pass}, M[i], s[i], s[i + 1])
      BY <3>3 DEF more, p
    <3> QED BY <2>1, <2>a, <3>4
  <2>3. CASE \A q \in passes : ~Hit(code, q, p)
    <3>1. M[i] = code[p] /\ s[i + 1] = p + 1
      BY <1>1, <2>3 DEF IsStanding
    <3>2. M[i].kind \in Kinds
      BY <1>1, <3>1, KindFacts
    <3>3. ~Hit(code, pass, p)
      <4>1. SUFFICES ASSUME Hit(code, pass, p) PROVE FALSE
        OBVIOUS
      <4>2. ContextAt(code, s[i]) = "code"
        BY <4>1 DEF Hit
      <4>3. Matched(pass, M, i) = Matched(pass, code, s[i])
        BY <3>2, <4>2, MatchedAlike
      <4> QED BY <1>3, <4>1, <4>3 DEF Hit
    <3>4. \A q \in more : ~Hit(code, q, p)
      BY <2>3, <3>3
    <3> HIDE DEF more
    <3>5. StandsFor(code, more, M[i], p, s[i + 1])
      BY <1>1, <3>1, <3>4 DEF StandsFor
    <3>6. StandsFor(code, passes \union {pass}, M[i], s[i], s[i + 1])
      BY <3>5 DEF more, p
    <3> QED BY <2>1, <2>a, <3>6
  <2> QED BY <2>2, <2>3
<1>4. CASE m # 0
  <2>1. M[i].kind = StarterOf(pass) /\ M[i].kind \in Kinds
    BY <1>1, <1>4, StarterFacts, KindFacts
  <2>2. M[i] = code[p]
    BY <1>1, <2>1 DEF IsStanding
  <2>3. ContextAt(code, s[i]) = "code"
    BY <1>1, <2>1, <2>2 DEF BeginsInCode
  <2>4. m = Matched(pass, code, p) /\ Hit(code, pass, p) /\ IsLike(M, s, i, code, p, m)
    BY <1>4, <2>1, <2>3, MatchedAlike
  <2> HIDE DEF m, p
  <2>5. i + m \in i + 1..Len(M) + 1 /\ s[i + m] = p + m
        /\ \A d \in 0..m - 1 : M[i + d] = code[p + d] /\ i + d \in 1..Len(M)
    <3>1. m \in 1..Len(M) + 1 - i
      BY <1>1, <1>2, <1>4
    <3>2. s[i + m] = p + m
          /\ \A d \in 0..m - 1 : M[i + d] = code[p + d] /\ i + d \in 1..Len(M)
      BY <2>4 DEF IsLike
    <3>3. i + m \in i + 1..Len(M) + 1
      BY <1>1, <3>1
    <3> QED BY <3>2, <3>3
  <2>6. m \in 1..Len(code) + 1 - p
    BY <1>1, <2>4, RegionFacts
  <2>7. SubSeq(M, i, i + m - 1) = SubSeq(code, p, p + m - 1)
    <3> DEFINE u == SubSeq(M, i, i + m - 1)
    <3> DEFINE v == SubSeq(code, p, p + m - 1)
    <3>1. \A t \in p..p + m - 1 : code[t] \in Symbols
      BY <1>1, <2>6
    <3>2. \A t \in i..i + m - 1 : M[t] \in Symbols
      <4> TAKE t \in i..i + m - 1
      <4>1. t - i \in 0..m - 1 /\ i + (t - i) = t /\ p + (t - i) \in p..p + m - 1
        BY <1>1, <2>6
      <4>2. M[t] = code[p + (t - i)]
        BY <2>5, <4>1
      <4> QED BY <3>1, <4>1, <4>2
    <3>3. /\ u \in Seq(Symbols) /\ Len(u) = m
          /\ \A d \in 1..(i + m - 1) - i + 1 : u[d] = M[i + d - 1]
      <4>1. i \in Int /\ i + m - 1 \in Int /\ i <= i + m - 1 /\ (i + m - 1) - i + 1 = m
        BY <1>1, <2>6
      <4> QED BY <3>2, <4>1, SubSeqProperties
    <3>4. /\ v \in Seq(Symbols) /\ Len(v) = m
          /\ \A d \in 1..(p + m - 1) - p + 1 : v[d] = code[p + d - 1]
      <4>1. p \in Int /\ p + m - 1 \in Int /\ p <= p + m - 1 /\ (p + m - 1) - p + 1 = m
        BY <1>1, <2>6
      <4> QED BY <3>1, <4>1, SubSeqProperties
    <3>5. ASSUME NEW d \in 1..m
          PROVE  u[d] = v[d]
      <4>1. d - 1 \in 0..m - 1 /\ i + (d - 1) = i + d - 1 /\ p + (d - 1) = p + d - 1
            /\ d \in 1..(i + m - 1) - i + 1 /\ d \in 1..(p + m - 1) - p + 1
        BY <1>1, <2>6
      <4>2. M[i + d - 1] = code[p + d - 1]
        BY <2>5, <4>1
      <4> HIDE DEF u, v
      <4> QED BY <3>3, <3>4, <4>1, <4>2
    <3> HIDE DEF u, v
    <3>6. u = v
      BY <3>3, <3>4, <3>5
    <3> QED BY <3>6 DEF u, v
  <2> DEFINE x == Token(pass, SubSeq(code, p, p + m - 1))
  <2>8. f[i] = <<x>> \o f[i + m]
    BY <1>4, <2>7 DEF IsTurn, m
  <2>9. StandsFor(code, more, x, p, s[i + m])
    <3>1. pass \in more /\ p \in 1..Len(code)
      BY <1>1
    <3>2. p + m - 1 = s[i + m] - 1 /\ s[i + m] = p + Matched(pass, code, p)
      <4>1. s[i + m] = p + m
        BY <2>5
      <4>2. m = Matched(pass, code, p)
        BY <2>4
      <4>3. p \in Int /\ m \in Int
        BY <1>1, <2>6
      <4> QED BY <4>1, <4>2, <4>3
    <3>3. x = Token(pass, SubSeq(code, p, s[i + m] - 1))
      BY <3>2
    <3> HIDE DEF more, x
    <3> QED BY <2>4, <3>1, <3>2, <3>3 DEF StandsFor
  <2> HIDE DEF x
  <2> QED BY <2>5, <2>8, <2>9 DEF more, p
<1> QED BY <1>3, <1>4

\* What a pass makes of what other passes have marked, if it begins in code only.
LEMMA PassFacts ==
    ASSUME NEW code \in Seq(Symbols), NEW passes \in SUBSET Passes, NEW pass \in Passes,
           NEW M, NEW s, IsMarking(code, passes, M, s, 1),
           BeginsInCode(code, pass, passes \union {pass})
    PROVE  \E r : IsMarking(code, passes \union {pass}, Replaced(pass, M), r, 1)
<1> DEFINE n == Len(M)
<1> DEFINE more == passes \union {pass}
<1>1. PICK f : /\ Replaced(pass, M) = f[1] /\ f[n + 1] = <<>>
               /\ \A i \in 1..n : IsTurn(pass, M, f, i)
  <2>1. M \in Seq(Marks)
    BY DEF IsMarking
  <2> QED BY <2>1, ReplacedFacts
<1>2. /\ n \in Nat /\ Len(code) \in Nat /\ s[1] = 1 /\ s[n + 1] = Len(code) + 1
  BY DEF IsMarking
<1> DEFINE Done(i) == IsFree(code, more, s[i]) => \E r : IsMarking(code, more, f[i], r, s[i])
<1> DEFINE T == {d \in 0..n : \A i \in n + 1 - d..n + 1 : Done(i)}
<1>3. Done(n + 1)
  <2> DEFINE r == [j \in 1..1 |-> Len(code) + 1]
  <2>1. r \in [1..0 + 1 -> 1..Len(code) + 1] /\ r[1] = Len(code) + 1 /\ r[0 + 1] = Len(code) + 1
    BY <1>2
  <2>2. <<>> \in Seq(Marks) /\ Len(<<>>) = 0 /\ 1..0 = {}
    OBVIOUS
  <2> HIDE DEF r, more
  <2>3. IsMarking(code, more, <<>>, r, Len(code) + 1)
    BY <2>1, <2>2 DEF IsMarking
  <2> QED BY <1>1, <1>2, <2>3
<1>4. 0 \in T
  <2>1. \A i \in n + 1 - 0..n + 1 : i = n + 1
    BY <1>2
  <2> HIDE DEF Done
  <2> QED BY <1>2, <1>3, <2>1
<1>5. ASSUME NEW d \in 1..n, d - 1 \in T
      PROVE  d \in T
  <2> DEFINE k == n + 1 - d
  <2>1. k \in 1..n /\ n + 1 - (d - 1) = k + 1
    BY <1>2
  <2>2. \A i \in k + 1..n + 1 : Done(i)
    BY <1>5, <2>1
  <2>3. Done(k)
    <3> HIDE DEF k
    <3>1. SUFFICES ASSUME IsFree(code, more, s[k])
                   PROVE  \E r : IsMarking(code, more, f[k], r, s[k])
      OBVIOUS
    <3>2. PICK x : \E j \in k + 1..n + 1 :
              f[k] = <<x>> \o f[j] /\ StandsFor(code, more, x, s[k], s[j])
      <4>1. k \in 1..Len(M) /\ IsFree(code, passes \union {pass}, s[k])
        BY <2>1, <3>1
      <4>2. IsTurn(pass, M, f, k)
        BY <1>1, <2>1
      <4> HIDE DEF T, Done, n
      <4>3. IsTurned(code, passes \union {pass}, M, s, k, f)
        BY <4>1, <4>2, TurnFacts
      <4> QED BY <4>3 DEF IsTurned, n
    <3>a. PICK j \in k + 1..n + 1 :
              f[k] = <<x>> \o f[j] /\ StandsFor(code, more, x, s[k], s[j])
      BY <3>2
    <3>3. more \in SUBSET Passes
      OBVIOUS
    <3> HIDE DEF more
    <3>4. IsFree(code, more, s[j])
      BY <3>1, <3>a, <3>3, FreeBehind
    <3>5. PICK r : IsMarking(code, more, f[j], r, s[j])
      BY <2>2, <3>a, <3>4
    <3>6. \E q : IsMarking(code, more, <<x>> \o f[j], q, s[k])
      BY <3>a, <3>3, <3>5, Prepended
    <3> QED BY <3>a, <3>6
  <2>4. \A i \in n + 1 - d..n + 1 : i = k \/ i \in k + 1..n + 1
    BY <1>2
  <2> HIDE DEF Done, k
  <2> QED BY <2>2, <2>3, <2>4
<1>6. Done(1)
  <2> HIDE DEF T, Done
  <2>1. \A d \in 0..n : d \in T
    BY <1>2, <1>4, <1>5, Counting
  <2>2. n \in T /\ 1 \in n + 1 - n..n + 1
    BY <1>2, <2>1
  <2> QED BY <2>2 DEF T
<1>7. IsFree(code, more, 1)
  <2>1. ContextAt(code, 1) = "code"
    BY <1>2, ContextFacts
  <2>2. \A q \in Passes : InsideOf(q) # "code"
    BY DEF InsideOf
  <2> QED BY <2>1, <2>2 DEF IsFree
<1> QED BY <1>1, <1>2, <1>6, <1>7

\* Code in which nothing marked stands inside anything else, marked by all the passes.
LEMMA TokenizedFacts ==
    ASSUME NEW code \in Seq(Symbols), ~OneInAnother(code)
    PROVE  \E passes \in SUBSET Passes : \E s : IsMarking(code, passes, Tokenized(code), s, 1)
<1>1. /\ Len(code) \in Nat /\ DOMAIN code = 1..Len(code)
      /\ \A p \in 1..Len(code) : ContextAt(code, p) \in Contexts
  <2>1. Len(code) \in Nat /\ DOMAIN code = 1..Len(code)
    OBVIOUS
  <2> QED BY <2>1, ContextFacts
<1>2. \A p \in 1..Len(code) :
         /\ code[p].kind = "slashes" => ContextAt(code, p) \notin {"string", "block", "line"}
         /\ code[p].kind = "open" => ContextAt(code, p) \notin {"string", "line"}
         /\ code[p].kind = "directive" => ContextAt(code, p) # "string"
  BY <1>1 DEF OneInAnother
<1>3. ASSUME NEW passes, NEW p \in 1..Len(code), IsFree(code, passes, p),
             code[p].kind # "newline"
      PROVE  \A pass \in passes : ContextAt(code, p) # InsideOf(pass)
  BY <1>1, <1>3 DEF IsFree
<1> DEFINE K0 == {}
<1> DEFINE K1 == K0 \union {"comment"}
<1> DEFINE K2 == K1 \union {"block"}
<1> DEFINE K3 == K2 \union {"preprocessor"}
<1> DEFINE K4 == K3 \union {"string"}
<1> DEFINE K5 == K4 \union {"literal"}
<1>a. /\ K0 \in SUBSET Passes /\ K1 \in SUBSET Passes /\ K2 \in SUBSET Passes
      /\ K3 \in SUBSET Passes /\ K4 \in SUBSET Passes /\ K5 \in SUBSET Passes
  BY DEF Passes
<1>b. "comment" \in Passes /\ "block" \in Passes /\ "preprocessor" \in Passes
      /\ "string" \in Passes /\ "literal" \in Passes
  BY DEF Passes
<1>4. BeginsInCode(code, "comment", K1)
  <2>1. ASSUME NEW p \in 1..Len(code), code[p].kind = StarterOf("comment"), IsFree(code, K1, p)
        PROVE  ContextAt(code, p) = "code"
    <3>1. code[p].kind = "slashes"
      BY <2>1 DEF StarterOf
    <3>2. ContextAt(code, p) # "comment"
      BY <1>3, <2>1, <3>1 DEF InsideOf
    <3> QED BY <1>1, <1>2, <3>1, <3>2 DEF Contexts
  <2> QED BY <2>1 DEF BeginsInCode
<1>5. BeginsInCode(code, "block", K2)
  <2>1. ASSUME NEW p \in 1..Len(code), code[p].kind = StarterOf("block"), IsFree(code, K2, p)
        PROVE  ContextAt(code, p) = "code"
    <3>1. code[p].kind = "open"
      BY <2>1 DEF StarterOf
    <3>2. ContextAt(code, p) \notin {"comment", "block"}
      BY <1>3, <2>1, <3>1 DEF InsideOf
    <3> QED BY <1>1, <1>2, <3>1, <3>2 DEF Contexts
  <2> QED BY <2>1 DEF BeginsInCode
<1>6. BeginsInCode(code, "preprocessor", K3)
  <2>1. ASSUME NEW p \in 1..Len(code), code[p].kind = StarterOf("preprocessor"),
               IsFree(code, K3, p)
        PROVE  ContextAt(code, p) = "code"
    <3>1. code[p].kind = "directive"
      BY <2>1 DEF StarterOf
    <3>2. ContextAt(code, p) \notin {"comment", "block", "line"}
      BY <1>3, <2>1, <3>1 DEF InsideOf
    <3> QED BY <1>1, <1>2, <3>1, <3>2 DEF Contexts
  <2> QED BY <2>1 DEF BeginsInCode
<1>7. BeginsInCode(code, "string", K4)
  <2>1. ASSUME NEW p \in 1..Len(code), code[p].kind = StarterOf("string"), IsFree(code, K4, p)
        PROVE  ContextAt(code, p) = "code"
    <3>1. code[p].kind = "quote"
      BY <2>1 DEF StarterOf
    <3>2. ContextAt(code, p) \notin {"comment", "block", "line", "string"}
      BY <1>3, <2>1, <3>1 DEF InsideOf
    <3> QED BY <1>1, <3>2 DEF Contexts
  <2> QED BY <2>1 DEF BeginsInCode
<1>8. BeginsInCode(code, "literal", K5)
  <2>1. ASSUME NEW p \in 1..Len(code), code[p].kind = StarterOf("literal"), IsFree(code, K5, p)
        PROVE  ContextAt(code, p) = "code"
    <3>1. code[p].kind = "word"
      BY <2>1 DEF StarterOf
    <3>2. ContextAt(code, p) \notin {"comment", "block", "line", "string"}
      BY <1>3, <2>1, <3>1 DEF InsideOf
    <3> QED BY <1>1, <3>2 DEF Contexts
  <2> QED BY <2>1 DEF BeginsInCode
<1> DEFINE comments == Replaced("comment", code)
<1> DEFINE blocks == Replaced("block", comments)
<1> DEFINE lines == Replaced("preprocessor", blocks)
<1> DEFINE strings == Replaced("string", lines)
<1> DEFINE literals == Replaced("literal", strings)
<1>9. Tokenized(code) = literals
  BY DEF Tokenized
<1> HIDE DEF comments, blocks, lines, strings, literals, K0, K1, K2, K3, K4, K5
<1>10. PICK s0 : IsMarking(code, K0, code, s0, 1)
  BY Unmarked DEF K0
<1>11. PICK s1 : IsMarking(code, K1, comments, s1, 1)
  <2>1. BeginsInCode(code, "comment", K0 \union {"comment"})
    BY <1>4 DEF K1
  <2>2. \E r : IsMarking(code, K0 \union {"comment"}, Replaced("comment", code), r, 1)
    BY <1>a, <1>b, <1>10, <2>1, PassFacts
  <2> QED BY <2>2 DEF K1, comments
<1>12. PICK s2 : IsMarking(code, K2, blocks, s2, 1)
  <2>1. BeginsInCode(code, "block", K1 \union {"block"})
    BY <1>5 DEF K2
  <2>2. \E r : IsMarking(code, K1 \union {"block"}, Replaced("block", comments), r, 1)
    BY <1>a, <1>b, <1>11, <2>1, PassFacts
  <2> QED BY <2>2 DEF K2, blocks
<1>13. PICK s3 : IsMarking(code, K3, lines, s3, 1)
  <2>1. BeginsInCode(code, "preprocessor", K2 \union {"preprocessor"})
    BY <1>6 DEF K3
  <2>2. \E r : IsMarking(code, K2 \union {"preprocessor"}, Replaced("preprocessor", blocks), r, 1)
    BY <1>a, <1>b, <1>12, <2>1, PassFacts
  <2> QED BY <2>2 DEF K3, lines
<1>14. PICK s4 : IsMarking(code, K4, strings, s4, 1)
  <2>1. BeginsInCode(code, "string", K3 \union {"string"})
    BY <1>7 DEF K4
  <2>2. \E r : IsMarking(code, K3 \union {"string"}, Replaced("string", lines), r, 1)
    BY <1>a, <1>b, <1>13, <2>1, PassFacts
  <2> QED BY <2>2 DEF K4, strings
<1>15. PICK s5 : IsMarking(code, K5, literals, s5, 1)
  <2>1. BeginsInCode(code, "literal", K4 \union {"literal"})
    BY <1>8 DEF K5
  <2>2. \E r : IsMarking(code, K4 \union {"literal"}, Replaced("literal", strings), r, 1)
    BY <1>a, <1>b, <1>14, <2>1, PassFacts
  <2> QED BY <2>2 DEF K5, literals
<1> QED BY <1>a, <1>9, <1>15

\* What putting sequences one behind the other adds up to.
LEMMA FlattenFacts ==
    ASSUME NEW seqs, Len(seqs) \in Nat, Len(seqs) # 0, NEW h, h[1] = seqs[1],
           \A i \in 2..Len(seqs) : h[i] = h[i - 1] \o seqs[i]
    PROVE  FlattenSeq(seqs) = h[Len(seqs)]
<1> DEFINE n == Len(seqs)
<1> DEFINE g == [i \in 1..n |-> h[i]]
<1> DEFINE flatten == CHOOSE ff : ff = [i \in 1..n |-> IF i = 1 THEN seqs[i] ELSE ff[i - 1] \o seqs[i]]
<1>1. FlattenSeq(seqs) = flatten[n]
  BY DEF FlattenSeq
<1>2. ASSUME NEW i \in 1..n
      PROVE  g[i] = IF i = 1 THEN seqs[i] ELSE g[i - 1] \o seqs[i]
  <2>1. i # 1 => i \in 2..n /\ i - 1 \in 1..n
    OBVIOUS
  <2> QED BY <2>1
<1>3. g = [i \in 1..n |-> IF i = 1 THEN seqs[i] ELSE g[i - 1] \o seqs[i]]
  BY <1>2
<1> HIDE DEF g
<1>4. flatten = [i \in 1..n |-> IF i = 1 THEN seqs[i] ELSE flatten[i - 1] \o seqs[i]]
  BY <1>3
<1> HIDE DEF flatten
<1>5. flatten[1] = h[1] /\ \A i \in 2..n : flatten[i] = flatten[i - 1] \o seqs[i]
  <2>1. 1 \in 1..n /\ \A i \in 2..n : i \in 1..n /\ i # 1
    OBVIOUS
  <2> QED BY <1>4, <2>1
<1> DEFINE T == {i \in 0..n - 1 : flatten[i + 1] = h[i + 1]}
<1>6. n - 1 \in Nat /\ 0 \in T
  BY <1>5
<1>7. ASSUME NEW i \in 1..n - 1, i - 1 \in T
      PROVE  i \in T
  <2>1. flatten[i] = h[i] /\ i + 1 \in 2..n /\ (i + 1) - 1 = i
    BY <1>7
  <2>2. flatten[i + 1] = flatten[i] \o seqs[i + 1]
    BY <1>5, <2>1
  <2>3. h[i + 1] = h[i] \o seqs[i + 1]
    BY <2>1
  <2>4. flatten[i + 1] = h[i + 1] /\ i \in 0..n - 1
    BY <2>1, <2>2, <2>3
  <2> QED BY <2>4
<1>8. n - 1 \in T
  <2> HIDE DEF T
  <2>1. \A i \in 0..n - 1 : i \in T
    BY <1>6, <1>7, Counting
  <2> QED BY <1>6, <2>1
<1> QED BY <1>1, <1>8

\* Put back, the tokens of a marking give the code.
LEMMA RestoredFacts ==
    ASSUME NEW code \in Seq(Symbols), NEW passes \in SUBSET Passes, NEW M, NEW s,
           IsMarking(code, passes, M, s, 1)
    PROVE  Restored(M) = code
<1> DEFINE n == Len(M)
<1> DEFINE seqs == [i \in DOMAIN M |-> IF M[i] \in Symbols THEN <<M[i]>> ELSE M[i].text]
<1> DEFINE h == [i \in 1..n |-> SubSeq(code, 1, s[i + 1] - 1)]
<1>1. /\ n \in Nat /\ Len(code) \in Nat /\ DOMAIN M = 1..n
      /\ s[1] = 1 /\ s[n + 1] = Len(code) + 1
  BY DEF IsMarking
<1>2. \A i \in 1..n : /\ IsStanding(code, passes, M[i], s[i], s[i + 1])
                       /\ s[i] \in 1..Len(code) /\ s[i + 1] \in s[i] + 1..Len(code) + 1
  <2>1. \A i \in 1..Len(M) : /\ IsStanding(code, passes, M[i], s[i], s[i + 1])
                              /\ s[i] \in 1..Len(code) /\ s[i + 1] \in s[i] + 1..Len(code) + 1
    <3> HIDE DEF seqs, h
    <3> QED BY MarkingFacts
  <2> QED BY <2>1
<1>3. ASSUME NEW i \in 1..n
      PROVE  seqs[i] = SubSeq(code, s[i], s[i + 1] - 1)
  <2>1. seqs[i] = IF M[i] \in Symbols THEN <<M[i]>> ELSE M[i].text
    BY <1>1
  <2>2. /\ M[i] \in Symbols => M[i] = code[s[i]] /\ s[i + 1] = s[i] + 1
        /\ M[i] \notin Symbols => M[i].text = SubSeq(code, s[i], s[i + 1] - 1)
    BY <1>2 DEF IsStanding
  <2>3. s[i] \in 1..Len(code)
    BY <1>2
  <2>4. <<code[s[i]]>> = SubSeq(code, s[i], s[i])
    <3> DEFINE q == s[i]
    <3> DEFINE u == SubSeq(code, q, q)
    <3>1. q \in 1..Len(code) /\ \A j \in q..q : code[j] \in Symbols
      BY <1>1, <2>3
    <3> HIDE DEF q
    <3>2. u \in Seq(Symbols) /\ Len(u) = 1 /\ \A j \in 1..q - q + 1 : u[j] = code[q + j - 1]
      <4>1. q \in Int /\ q <= q /\ q - q + 1 = 1
        BY <1>1, <3>1
      <4> QED BY <3>1, <4>1, SubSeqProperties
    <3>3. u[1] = code[q]
      <4>1. 1 \in 1..q - q + 1 /\ q + 1 - 1 = q
        BY <1>1, <3>1
      <4> HIDE DEF u
      <4> QED BY <3>2, <4>1
    <3> HIDE DEF u
    <3>4. <<code[q]>> = u
      BY <3>2, <3>3
    <3> QED BY <3>4 DEF u, q
  <2>5. s[i + 1] = s[i] + 1 => s[i + 1] - 1 = s[i]
    BY <1>1, <2>3
  <2> HIDE DEF seqs
  <2> QED BY <2>1, <2>2, <2>4, <2>5
<1>4. Restored(M) = FlattenSeq(seqs)
  BY DEF Restored
<1>5. Len(seqs) = n /\ (n = 0 => seqs = <<>>)
  BY <1>1
<1> HIDE DEF seqs
<1>6. CASE n = 0
  <2>1. FlattenSeq(seqs) = seqs
    BY <1>5, <1>6 DEF FlattenSeq
  <2>2. Len(code) = 0
    BY <1>1, <1>6
  <2>3. code = <<>>
    BY <2>2
  <2> QED BY <1>4, <1>5, <1>6, <2>1, <2>3
<1>7. CASE n # 0
  <2>1. h[1] = seqs[1]
    <3>1. 1 \in 1..n
      BY <1>1, <1>7
    <3>2. h[1] = SubSeq(code, 1, s[1 + 1] - 1)
      BY <3>1
    <3>3. seqs[1] = SubSeq(code, s[1], s[1 + 1] - 1)
      BY <1>3, <3>1
    <3> HIDE DEF h
    <3> QED BY <1>1, <3>2, <3>3
  <2>2. ASSUME NEW i \in 2..n
        PROVE  h[i] = h[i - 1] \o seqs[i]
    <3>1. i \in 1..n /\ i - 1 \in 1..n /\ (i - 1) + 1 = i
      BY <1>1
    <3>2. h[i] = SubSeq(code, 1, s[i + 1] - 1) /\ h[i - 1] = SubSeq(code, 1, s[i] - 1)
      BY <3>1
    <3>3. seqs[i] = SubSeq(code, s[i], s[i + 1] - 1)
      BY <1>3, <3>1
    <3> DEFINE k == s[i] - 1
    <3> DEFINE l == s[i + 1] - 1
    <3>4. k \in 1 - 1..Len(code) /\ l \in k..Len(code) /\ k + 1 = s[i] /\ 1 \in 1..Len(code) + 1
      <4>1. s[i] \in 1..Len(code) /\ s[i + 1] \in s[i] + 1..Len(code) + 1
        BY <1>2, <3>1
      <4> HIDE DEF h
      <4> QED BY <1>1, <4>1
    <3> HIDE DEF k, l
    <3>5. SubSeq(code, 1, k) \o SubSeq(code, k + 1, l) = SubSeq(code, 1, l)
      BY <3>4, ConcatAdjacentSubSeq
    <3> HIDE DEF h
    <3> QED BY <3>2, <3>3, <3>4, <3>5 DEF k, l
  <2>3. h[n] = code
    <3>1. h[n] = SubSeq(code, 1, s[n + 1] - 1)
      BY <1>1, <1>7
    <3>2. s[n + 1] - 1 = Len(code)
      BY <1>1
    <3>3. SubSeq(code, 1, Len(code)) = code
      BY SubSeqFull
    <3> HIDE DEF h
    <3> QED BY <3>1, <3>2, <3>3
  <2> HIDE DEF h
  <2>4. FlattenSeq(seqs) = h[Len(seqs)]
    BY <1>1, <1>5, <1>7, <2>1, <2>2, FlattenFacts
  <2> QED BY <1>4, <1>5, <2>3, <2>4
<1> QED BY <1>6, <1>7

\* A set of numbers up to n has a greatest, and Max is that.
LEMMA GreatestNumber ==
    ASSUME NEW n \in Nat, NEW S, S \subseteq 0..n, S # {}
    PROVE  /\ Max(S) \in S /\ \A y \in S : y <= Max(S)
           /\ \A k \in S : (\A y \in S : y <= k) => Max(S) = k
<1> DEFINE U == {n - i : i \in S}
<1>1. PICK x \in U : \A y \in U : x <= y
  <2>1. U \subseteq Nat
    <3>1. \A i \in S : n - i \in Nat
      OBVIOUS
    <3> QED BY <3>1
  <2>2. U # {}
    OBVIOUS
  <2> HIDE DEF U
  <2> QED BY <2>1, <2>2, LeastNumber
<1>2. PICK k \in S : x = n - k
  OBVIOUS
<1>3. \A y \in S : n - y \in U /\ y \in Nat /\ k \in Nat
  OBVIOUS
<1>4. \A y \in S : y <= k
  <2> HIDE DEF U
  <2>1. \A y \in S : n - k <= n - y
    BY <1>1, <1>2, <1>3
  <2> QED BY <1>3, <2>1
<1>5. Max(S) \in S /\ \A y \in S : Max(S) >= y
  <2> HIDE DEF U
  <2>1. \A y \in S : k >= y
    BY <1>3, <1>4
  <2> QED BY <2>1 DEF Max
<1> HIDE DEF U
<1>6. \A y \in S : y <= Max(S)
  BY <1>3, <1>5
<1>7. ASSUME NEW j \in S, \A y \in S : y <= j
      PROVE  Max(S) = j
  <2>1. Max(S) <= j /\ j <= Max(S) /\ j \in Nat /\ Max(S) \in Nat
    BY <1>3, <1>5, <1>6, <1>7
  <2> QED BY <2>1
<1> QED BY <1>5, <1>6, <1>7

\* There is nothing to be cut off of what has been cut off.
LEMMA TrimmedFacts ==
    ASSUME NEW code \in Seq(Symbols)
    PROVE  Trimmed(code) \in Seq(Symbols) /\ Trimmed(Trimmed(code)) = Trimmed(code)
<1> DEFINE n == Len(code)
<1> DEFINE S == {0} \union {i \in DOMAIN code : code[i].kind # "newline"}
<1> DEFINE k == Max(S)
<1> DEFINE T == SubSeq(code, 1, k)
<1> DEFINE R == {0} \union {i \in DOMAIN T : T[i].kind # "newline"}
<1>1. n \in Nat /\ DOMAIN code = 1..n /\ \A i \in 1..n : code[i] \in Symbols
  OBVIOUS
<1>2. S \subseteq 0..n /\ S # {}
  BY <1>1
<1>3. k \in S
  <2> HIDE DEF S
  <2> QED BY <1>1, <1>2, GreatestNumber
<1>4. k \in 0..n /\ (k # 0 => k \in 1..n /\ code[k].kind # "newline")
  BY <1>1, <1>2, <1>3
<1>5. T = Trimmed(code)
  BY DEF Trimmed
<1> HIDE DEF k
<1>6. /\ T \in Seq(Symbols) /\ Len(T) = k
      /\ \A i \in 1..k : T[i] = code[i]
  <2>1. \A i \in 1..k : code[i] \in Symbols
    BY <1>1, <1>4
  <2>2. /\ T \in Seq(Symbols) /\ Len(T) = IF 1 <= k THEN k - 1 + 1 ELSE 0
        /\ \A i \in 1..k - 1 + 1 : T[i] = code[1 + i - 1]
    BY <1>4, <2>1, SubSeqProperties
  <2> HIDE DEF T
  <2>3. Len(T) = k
    BY <1>4, <2>2
  <2>4. \A i \in 1..k : i \in 1..k - 1 + 1 /\ 1 + i - 1 = i
    BY <1>4
  <2> QED BY <2>2, <2>3, <2>4
<1> HIDE DEF T
<1>7. DOMAIN T = 1..k
  BY <1>6
<1>8. R \subseteq 0..k /\ k \in R /\ \A y \in R : y <= k
  <2>1. R \subseteq 0..k
    BY <1>4, <1>7
  <2>2. k \in R
    <3>1. CASE k = 0
      BY <3>1
    <3>2. CASE k # 0
      <4>1. k \in 1..k
        BY <1>4, <3>2
      <4>2. T[k].kind # "newline"
        BY <1>4, <1>6, <3>2, <4>1
      <4> QED BY <1>7, <4>1, <4>2
    <3> QED BY <3>1, <3>2
  <2> HIDE DEF R
  <2>3. \A y \in R : y <= k
    BY <1>4, <2>1
  <2> QED BY <2>1, <2>2, <2>3
<1>9. Trimmed(T) = SubSeq(T, 1, Max(R))
  BY DEF Trimmed
<1> HIDE DEF R, S
<1>10. Max(R) = k
  <2>1. k \in Nat /\ R # {}
    BY <1>4, <1>8
  <2> QED BY <1>8, <2>1, GreatestNumber
<1>11. SubSeq(T, 1, Len(T)) = T
  BY <1>6, SubSeqFull
<1> QED BY <1>5, <1>6, <1>9, <1>10, <1>11

\* Code in which nothing marked stands inside anything else is shown as it is.
LEMMA ShownFacts ==
    ASSUME NEW code \in Seq(Symbols), ~OneInAnother(Trimmed(code))
    PROVE  Shown(Trimmed(code)) = Trimmed(code)
<1> DEFINE c == Trimmed(code)
<1>1. c \in Seq(Symbols) /\ Trimmed(c) = c
  BY TrimmedFacts
<1> HIDE DEF c
<1>2. PICK passes \in SUBSET Passes : \E s : IsMarking(c, passes, Tokenized(c), s, 1)
  BY <1>1, TokenizedFacts DEF c
<1>3. Restored(Tokenized(c)) = c
  BY <1>1, <1>2, RestoredFacts
<1>4. Shown(c) = c
  BY <1>1, <1>3 DEF Shown
<1> QED BY <1>4 DEF c

-----------------------------------------------------------------------------
(* The theorems. *)

LEMMA InvariantInit ==
    ASSUME Init
    PROVE  IInv
<1> USE SiteAssumption, AssistantAssumption
<1>1. Other \in Entry(0) /\ Other.question = 0
  BY DEF Other, Url, Entry
<1>2. TabInv
  <2>1. /\ entries = <<Other>> /\ entries \in Seq(Entry(0)) /\ Len(entries) = 1
        /\ DOMAIN entries = {1} /\ entries[1] = Other
    BY <1>1 DEF Init
  <2>2. put \in Seq(1..0) /\ DOMAIN put = {} /\ ToSet(put) = {}
    BY DEF Init, ToSet
  <2>3. Links(entries, put, 0)
    BY <1>1, <2>1, <2>2 DEF Links
  <2> QED BY <2>1, <2>3 DEF Init, TabInv
<1>3. ThemeInv
  BY DEF Init, ThemeInv
<1>4. DialogsInv
  BY DEF Init, DialogsInv
<1>5. ChatInv
  <2>1. /\ messages = <<>> /\ streams = {} /\ status = "ready" /\ active = 0 /\ asked = 0
        /\ overtaken = FALSE /\ messages \in Seq(Messages(0))
    BY DEF Init, EmptyChat
  <2>2. active \in 0..asked /\ asked \in 0..MaxQuestions
    BY <2>1
  <2>3. messages \in Seq(Messages(asked)) /\ streams \subseteq Requests(asked) /\ status \in Outcome
        /\ overtaken \in BOOLEAN
    BY <2>1 DEF Outcome
  <2>4. ChatTypeOK
    BY ONLY <2>2, <2>3, ChatIsTyped
  <2> QED BY <2>1, <2>4 DEF ChatInv, Answered, InTurn, Busy
<1> QED BY <1>2, <1>3, <1>4, <1>5, ShellParts DEF IInv

\* The history and its questions, the shell, and the chat are each inductive.
THEOREM Invariant == Spec => []IInv
<1>1. IInv /\ [Next]_vars => IInv'
  BY EveryStepMoves, TabStep, ChatStep, ShellStep DEF IInv
<1> QED BY <1>1, InvariantInit, PTL DEF Spec

\* A question that a link carries is put once, through any reloads and any way
\* back and forth, unless the chat page was there already.
THEOREM QuestionsArePut == Spec => []QuestionsArePutOnce
<1>1. IInv => QuestionsArePutOnce
  <2> SUFFICES ASSUME IInv PROVE QuestionsArePutOnce
    OBVIOUS
  <2>1. SiteTypeOK
    BY DEF IInv, TabInv, Links, ShellInv, SiteTypeOK, Entry
  <2> QED BY <2>1 DEF IInv, TabInv, Links, QuestionsArePutOnce
<1> QED BY <1>1, Invariant, PTL

\* The theme, its button and the "No matches" of the search are as they are shown.
THEOREM ShellIsTrue == Spec => []ShellTellsTheTruth
<1>1. IInv => ShellTellsTheTruth
  <2> SUFFICES ASSUME IInv PROVE ShellTellsTheTruth
    OBVIOUS
  <2>1. search.filter = All \/ search.filter \in GroupsOf[search.text]
    BY DEF IInv, ShellInv
  <2>2. Visible = {} => GroupsOf[search.text] = {}
    BY <2>1 DEF Visible
  <2> QED BY <2>2 DEF IInv, ShellInv, ShellTellsTheTruth
<1> QED BY <1>1, Invariant, PTL

\* Answers stand behind their own questions and one request runs at a time, until
\* a chat is emptied under an answer that is still coming.
THEOREM AnswersAreInOrder == Spec => []AnswersFollowTheirQuestions
<1>1. IInv => AnswersFollowTheirQuestions
  <2> SUFFICES ASSUME ChatInv PROVE AnswersFollowTheirQuestions
    BY DEF IInv
  <2>1. ~overtaken /\ Busy => active = messages[Len(messages)].of /\ \E r \in streams : r.of = active
    BY DEF ChatInv, InTurn
  <2> QED BY <2>1 DEF ChatInv, Answered, AnswersFollowTheirQuestions
<1> QED BY <1>1, Invariant, PTL

\* Code in an answer is shown as it was sent, however much of it has come and
\* whatever it holds, unless what one pass marks stands inside what a later one marks.
THEOREM CodeIsShown == Spec => []ShownIsTheSource
<1>1. IInv => ShownIsTheSource
  <2> SUFFICES ASSUME ChatTypeOK, NEW i \in DOMAIN messages,
                      ~OneInAnother(Trimmed(messages[i].code))
               PROVE  Shown(Trimmed(messages[i].code)) = Trimmed(messages[i].code)
    BY DEF IInv, ChatInv, ShownIsTheSource
  <2>1. messages[i].code \in Seq(Symbols)
    <3> DEFINE S == [by : {"reader", "assistant"}, of : 1..asked, code : Seq(Symbols)]
    <3>1. messages \in Seq(S)
      BY DEF ChatTypeOK
    <3>2. \A m \in S : m.code \in Seq(Symbols)
      OBVIOUS
    <3> HIDE DEF S
    <3>3. messages[i] \in S
      BY <3>1
    <3> QED BY <3>2, <3>3
  <2> QED BY <2>1, ShownFacts
<1> QED BY <1>1, Invariant, PTL
=============================================================================
