SPECIFICATION Spec
CONSTANTS
    Members <- MCMembers
    LocationOf <- MCLocationOf
    ServerOf <- MCServerOf
    Views <- MCViews
    OpTexts <- MCOpTexts
    RuleSets <- MCRuleSets
    MaxEvents = 4
INVARIANTS OperatorTextKept NoSelfLock EvaluationAsDocumented
PROPERTIES RecoveryHeld AdoptsOperatorText Converges BlockedIsReported
