SPECIFICATION FairSpec
CONSTANT MaxWindow = 7
INVARIANTS TypeOK InOrder Buffered NothingHeldBack
PROPERTIES RefinesOrdered AllTransmitted
