SPECIFICATION RouterSpec
CONSTANTS
    Nothing = Nothing
    Skill <- MCSkill
    Row <- MCRow
    Request <- MCRequest
INVARIANTS
    SelectionIsLawful
    LeftOutForAReason
    ConfidentAnswersSelect
    RejectedIsNotRecommended
CHECK_DEADLOCK FALSE
