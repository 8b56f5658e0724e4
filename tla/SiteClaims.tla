----------------------------- MODULE SiteClaims -----------------------------
(***************************************************************************)
(* What comments and labels of the site say and its code does not keep.    *)
(* Each is refuted by TLC under the constants of Site.cfg.                 *)
(***************************************************************************)
EXTENDS MCSite

\* Code.tsx:19, "Highlight without re-matching previously inserted markup": whatever
\* an answer holds is shown as it is.  Of a directive with a comment on its line,
\* #include <elips.hpp>  // all of it, the comment is shown as a sentinel; and so is
\* the rest of the line behind "http:// when another quote follows.
ShownIsAlwaysTheSource ==
    \A i \in DOMAIN messages :
        LET code == Trimmed(messages[i].code) IN Shown(code) = code

\* Shortcuts.tsx:10, keys G and T, "Open AI chat".  The key T alone is looked at
\* first: it changes the theme and the chord goes on.
GTOpensTheChat == [][(chord = "g" /\ Key("t", TRUE)) => entries'[at'].page = "chat"]_vars

\* Chrome.tsx:87, "Toggle theme": a click changes the theme.  Behind the key T the
\* button holds an old state and puts the theme that is already there.
AClickTogglesTheTheme == [][ClickTheme => dark' # dark]_vars

\* Chrome.tsx:244, "Ask AI": the question that is followed to the chat is put.  The
\* chat page looks at the URL when it is set up, and takes no notice of a new one.
EveryQuestionIsPut == 1..carried \subseteq ToSet(put)

\* chat.tsx:168, "Start a new conversation": nothing of the old one is in the new
\* one.  The answer that is still coming goes on, behind no question at all.
ANewChatIsNew ==
    \A i \in DOMAIN messages : messages[i].by = "assistant" =>
        i > 1 /\ messages[i - 1] = Message("reader", messages[i].of, <<>>)
=============================================================================
