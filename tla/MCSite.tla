------------------------------- MODULE MCSite -------------------------------
EXTENDS Site

CONSTANTS g1, g2, few, many, none

MCGroupsOf == [text \in Texts |->
                  CASE text = few -> {g1} [] text = none -> {} [] OTHER -> {g1, g2}]

\* The shell is explored while nothing is said and little is in the history, and
\* what answers hold while there is one question and a short history.
AtRest == help = FALSE /\ ~search.open /\ search.filter = All
          /\ chord = "none" /\ stored = {}

Plain ==
    /\ \A r \in streams : r.code \in {<<>>, <<Symbol("word")>>}
    /\ \A i \in DOMAIN messages : messages[i].code \in {<<>>, <<Symbol("word")>>}

InScope ==
    /\ AtRest \/ (messages = <<>> /\ streams = {} /\ carried = 0 /\ Len(entries) <= 2)
    /\ Plain \/ (asked = 1 /\ Len(entries) = 2 /\ carried = 0 /\ search.text = NoText)

=============================================================================
