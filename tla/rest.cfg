\* Two calls of one player, to the service or to its fake.
SPECIFICATION ConsumerSpec
CONSTANTS
    c1 = c1
    c2 = c2
    Calls <- TwoCalls
    Episodes = {ep1}
    Nothing = Nothing
    Answers <- FiveAnswers
    MaxSets = 1
SYMMETRY Symmetry
INVARIANTS
    TypeOK
    NeverUnexpected
    AnsweredAsProgrammed
PROPERTIES
    Keeps
CHECK_DEADLOCK FALSE
