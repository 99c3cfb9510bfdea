\* Two controllers deliver the same proposal, each stopping anywhere and run again.
SPECIFICATION SagaLiveSpec
CONSTANTS
  Controller = {c1, c2}
  Maintained = TRUE
INVARIANTS
  JournalIsTruthful
  DeliveryInv
PROPERTIES
  OthersAreLeftAlone
  DeliversInOrder
  InterruptionsEnd
