SPECIFICATION Spec
CONSTANTS
    Labels <- MCLabels
    Lower <- MCLower
    Names <- MCNames
    RuleLists <- MCChain
    Replies <- MCReplies
INVARIANTS
    QuestionRestored
CHECK_DEADLOCK FALSE
