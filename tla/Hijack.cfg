SPECIFICATION Spec
CONSTANTS
    Labels <- MCLabels
    Lower <- MCLower
    Names <- MCNames
    RuleLists <- MCRuleLists
    Replies <- MCReplies
INVARIANTS
    RestoredIfReversible
    AnswerSpeaksOfQuestion
CHECK_DEADLOCK FALSE
