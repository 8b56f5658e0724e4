-------------------------------- MODULE Site --------------------------------
(***************************************************************************)
(* One tab of the documentation site: its history, the shell that every    *)
(* page has (Chrome.tsx, Shortcuts.tsx), and the chat page with the        *)
(* questions that links carry to it.  A page is the chat or another one.   *)
(* A link changes the page under the shell; a load of the document begins  *)
(* everything anew but what is in the URL and in localStorage.             *)
(***************************************************************************)
EXTENDS Assistant

CONSTANTS
    Texts, NoText,  \* what may be typed into the search
    Groups, All,    \* the groups of pages, and no filter
    GroupsOf,       \* the groups of the results for a text
    PrefersDark,    \* the system's preference
    MaxEntries,     \* bound on the history
    MaxLinks        \* bound on the questions that links carry

ASSUME SiteAssumption ==
    /\ NoText \in Texts /\ All \notin Groups
    /\ GroupsOf \in [Texts -> SUBSET Groups]
    /\ PrefersDark \in BOOLEAN
    /\ MaxEntries \in Nat \ {0} /\ MaxLinks \in Nat

VARIABLES
    entries, at,        \* the history and the entry that is shown
    carried,            \* how many questions links have carried
    put,                \* those that the chat page has put, one after another
    ignored,            \* auxiliary: those that were carried to a chat page that
                        \* was there already
    dark,               \* the class of the document
    icon,               \* what the theme button takes it to be
    stored,             \* elips-theme in localStorage: {} or one of the themes
    pressed,            \* auxiliary: the theme was changed by key since the load
    help,               \* the shortcuts are shown
    search,             \* the search: open or not, its text and its filter
    chord               \* the last key, as far as a chord begins with it

theme == <<dark, icon, stored, pressed>>
dialogs == <<help, search, chord>>
shell == <<theme, dialogs>>
tab == <<entries, at, carried, put, ignored>>
vars == <<tab, shell, chat>>

Url(page, question) == [page |-> page, question |-> question]
Other == Url("other", 0)
Shows(page) == entries[at].page = page

-----------------------------------------------------------------------------
(* Arriving at a page. *)

\* Mutant: the question stays in the URL.
SetUpChatAgain(urls, n) ==
    LET question == urls[n].question IN
    IF question = 0
    THEN entries' = urls /\ messages' = <<>> /\ streams' = {} /\ status' = "ready"
         /\ active' = 0 /\ UNCHANGED <<asked, put>>
    ELSE entries' = urls /\ Send(<<>>, {}) /\ put' = Append(put, question)

\* The chat page is set up: a question in the URL is put and taken out of it.
SetUpChat(urls, n) ==
    LET question == urls[n].question IN
    IF question = 0
    THEN entries' = urls /\ messages' = <<>> /\ streams' = {} /\ status' = "ready"
         /\ active' = 0 /\ UNCHANGED <<asked, put>>
    ELSE entries' = [urls EXCEPT ![n] = Url("chat", 0)] /\ Send(<<>>, {})
         /\ put' = Append(put, question)

\* The page at entry n is shown.  What the chat page had is gone with it, and a
\* chat page that stays takes no notice of its new URL.
Arrive(urls, n, anew) ==
    /\ at' = n
    /\ IF urls[n].page = "chat" /\ (anew \/ ~Shows("chat"))
       THEN SetUpChat(urls, n) /\ overtaken' = FALSE
       ELSE /\ entries' = urls /\ UNCHANGED <<asked, put>>
            /\ IF urls[n].page = "chat" THEN UNCHANGED chat
               ELSE messages' = <<>> /\ streams' = {} /\ status' = "ready"
                    /\ active' = 0 /\ overtaken' = FALSE

\* The document is loaded: the shell reads the theme and forgets the rest.
Load(urls, n) ==
    /\ Arrive(urls, n, TRUE)
    /\ dark' = IF stored = {} THEN PrefersDark ELSE stored = {"dark"}
    /\ icon' = dark' /\ pressed' = FALSE
    /\ help' = FALSE /\ chord' = "none"
    /\ search' = [open |-> FALSE, text |-> NoText, filter |-> All]
    /\ UNCHANGED stored

\* The history behind the page is given up for the new entry.
Pushed(url) == Append(SubSeq(entries, 1, at), url)

Reload == Load(entries, at) /\ UNCHANGED <<carried, ignored>>

\* Back and forward, to an entry of this document or of another one.
Travel(n) ==
    /\ n \in DOMAIN entries /\ n \in {at - 1, at + 1}
    /\ \/ Load(entries, n)
       \/ Arrive(entries, n, FALSE) /\ UNCHANGED shell
    /\ UNCHANGED <<carried, ignored>>

-----------------------------------------------------------------------------
(* Links. *)

Follow(url) ==
    /\ at < MaxEntries
    /\ Arrive(Pushed(url), at + 1, FALSE)

\* A question goes to the chat page by its URL.
Carry ==
    /\ carried < MaxLinks
    /\ carried' = carried + 1
    /\ ignored' = IF Shows("chat") THEN ignored \union {carried'} ELSE ignored
    /\ Follow(Url("chat", carried'))

\* The bar at the foot of a page of the documentation.
AskAI == ~Shows("chat") /\ Carry /\ UNCHANGED shell

\* A link to a page, in the navigation.
Visit(page) ==
    /\ ~Shows(page)
    /\ Follow(Url(page, 0))
    /\ UNCHANGED <<carried, ignored, shell>>

-----------------------------------------------------------------------------
(* The search. *)

Visible ==
    IF search.filter = All THEN GroupsOf[search.text]
    ELSE GroupsOf[search.text] \intersect {search.filter}

Closed == [search EXCEPT !.open = FALSE, !.filter = All]

OpenSearch == ~search.open /\ search' = [search EXCEPT !.open = TRUE]

\* Mutant: the filter stays when the text changes.
TypeOnly(text) == search.open /\ search' = [search EXCEPT !.text = text]

Type(text) == search.open /\ search' = [search EXCEPT !.text = text, !.filter = All]

Filter(group) ==
    /\ search.open
    /\ group \in GroupsOf[search.text] /\ \E g \in GroupsOf[search.text] : g # group
    /\ search' = [search EXCEPT !.filter = group]

UseSearch ==
    /\ \/ OpenSearch
       \/ \E text \in Texts : Type(text)
       \/ \E group \in Groups : Filter(group)
       \/ search.open /\ search' = [search EXCEPT !.filter = All]
       \/ search.open /\ search' = Closed
    /\ UNCHANGED <<tab, theme, help, chord, chat>>

\* A result, or the question itself for the assistant.
FollowResult ==
    /\ search.open /\ Visible # {}
    /\ search' = Closed
    /\ Follow(Other)
    /\ UNCHANGED <<carried, ignored, theme, help, chord>>

AskInstead ==
    /\ search.open
    /\ Visible = {} \/ search.text # NoText
    /\ search' = IF Visible = {} THEN [search EXCEPT !.open = FALSE] ELSE Closed
    /\ Carry
    /\ UNCHANGED <<theme, help, chord>>

-----------------------------------------------------------------------------
(* The theme. *)

SetTheme(isDark) == dark' = isDark /\ stored' = {IF isDark THEN "dark" ELSE "light"}

\* The button goes by what it has seen of the theme.
ClickTheme ==
    /\ SetTheme(~icon)
    /\ icon' = ~icon
    /\ UNCHANGED <<pressed, tab, dialogs, chat>>

\* Mutant: the key changes the page and nothing that lasts.
PressThemeOnly == dark' = ~dark /\ pressed' = TRUE /\ UNCHANGED <<icon, stored, dialogs>>

PressTheme == SetTheme(~dark) /\ pressed' = TRUE /\ UNCHANGED <<icon, dialogs>>

-----------------------------------------------------------------------------
(* Keys.  The shortcuts take no notice of what is typed into a field; the    *)
(* search listens to its keys wherever they are pressed.                     *)

SearchKey(key) ==
    search' = CASE key = "cmd-k" -> [search EXCEPT !.open = ~@]
                [] key = "Escape" -> [search EXCEPT !.open = FALSE]
                [] OTHER -> search

KeyInField(key) ==
    /\ SearchKey(key)
    /\ UNCHANGED <<tab, theme, help, chord, chat>>

\* A chord ends with the key that has a destination, if it comes in time.
Destinations == {"h", "d", "a", "c"}

Key(key, inTime) ==
    CASE key = "?" -> help' = ~help /\ UNCHANGED <<tab, theme, search, chord, chat>>
      [] key = "Escape" -> help' = FALSE /\ SearchKey(key) /\ UNCHANGED <<tab, theme, chord, chat>>
      [] key = "t" -> PressTheme /\ UNCHANGED <<tab, chat>>
      [] key \in Destinations /\ chord = "g" /\ inTime ->
            at < MaxEntries /\ Load(Pushed(Other), at + 1) /\ UNCHANGED <<carried, ignored>>
      [] OTHER -> /\ chord' = IF key = "g" THEN "g" ELSE "none"
                  /\ SearchKey(key) /\ UNCHANGED <<tab, theme, help, chat>>

Keys == {"?", "Escape", "t", "g", "cmd-k"} \union Destinations

-----------------------------------------------------------------------------
Init ==
    /\ entries = <<Other>> /\ at = 1 /\ carried = 0 /\ put = <<>> /\ ignored = {}
    /\ dark = PrefersDark /\ icon = PrefersDark /\ stored = {} /\ pressed = FALSE
    /\ help = FALSE /\ chord = "none"
    /\ search = [open |-> FALSE, text |-> NoText, filter |-> All]
    /\ asked = 0 /\ EmptyChat

Next ==
    \/ Reload \/ \E n \in DOMAIN entries : Travel(n)
    \/ AskAI \/ \E page \in {"chat", "other"} : Visit(page)
    \/ UseSearch \/ FollowResult \/ AskInstead \/ ClickTheme
    \/ \E key \in Keys : KeyInField(key) \/ \E inTime \in BOOLEAN : Key(key, inTime)
    \/ Shows("chat") /\ Converse /\ UNCHANGED <<tab, shell>>

Spec == Init /\ [][Next]_vars

-----------------------------------------------------------------------------
(* Properties. *)

SiteTypeOK ==
    /\ at \in DOMAIN entries /\ Len(entries) <= MaxEntries
    /\ entries \in Seq([page : {"chat", "other"}, question : 0..carried])
    /\ carried \in 0..MaxLinks /\ put \in Seq(1..carried) /\ ignored \subseteq 1..carried
    /\ {dark, icon, pressed, help} \subseteq BOOLEAN
    /\ stored \in {{}, {"dark"}, {"light"}} /\ chord \in {"none", "g"}
    /\ search \in [open : BOOLEAN, text : Texts, filter : Groups \union {All}]

\* A question that a link carries is put once, when the chat page is set up, and
\* never again, through any reloads and any way back and forth in the history.
\* Only a chat page that was there when the link was followed leaves it unput.
QuestionsArePutOnce ==
    /\ SiteTypeOK
    /\ \A i, j \in DOMAIN put : put[i] = put[j] => i = j
    /\ 1..carried \ ignored \subseteq ToSet(put)
    /\ \A i \in DOMAIN entries : entries[i].question \notin ToSet(put)

\* What the shell shows is so: the theme is the one the reader chose last, however
\* it was chosen and whatever was loaded since; the button shows it, unless the key
\* was used; and "No matches" stands there only when nothing matches the text.
ShellTellsTheTruth ==
    /\ dark = IF stored = {} THEN PrefersDark ELSE stored = {"dark"}
    /\ icon = dark \/ pressed
    /\ Visible = {} => GroupsOf[search.text] = {}
=============================================================================
