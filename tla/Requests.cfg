SPECIFICATION Spec
INVARIANT TypeOK
INVARIANT OnlyNeededStepsFail
INVARIANT ToldWhatTheHostDid
INVARIANT PageFitsTheFailure
INVARIANT AnsweredOnce
CHECK_DEADLOCK FALSE
