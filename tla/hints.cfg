CONSTANTS
  Words = {"a"}
  Texts <- SomeTexts
SPECIFICATION HintsSpec
INVARIANTS
  SubsetsAreAll
  EvictsRestrictions
