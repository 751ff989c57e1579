CONSTANT Situations <- MCSituations
SPECIFICATION Spec
INVARIANTS
  TypeOK
  RestrictionsFollowNeed
  PausesFollowDanger
PROPERTY ResumesOnlyWhatIsHeld
