SPECIFICATION Spec
CONSTANTS
    g1 = g1
    g2 = g2
    few = few
    many = many
    none = none
    Groups = {g1, g2}
    All = All
    NoText = many
    Texts = {many, few, none}
    GroupsOf <- MCGroupsOf
    PrefersDark = FALSE
    MaxQuestions = 3
    MaxSymbols = 4
    MaxEntries = 3
    MaxLinks = 2
CONSTRAINT InScope
INVARIANTS
    AnswersFollowTheirQuestions
    ShownIsTheSource
    QuestionsArePutOnce
    ShellTellsTheTruth
CHECK_DEADLOCK FALSE
