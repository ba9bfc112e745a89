SPECIFICATION Spec
INVARIANTS TypeOK ExitAgreesWithHistory WrittenOrTold EvidenceAgrees OnlyKnownGaps
CHECK_DEADLOCK FALSE
