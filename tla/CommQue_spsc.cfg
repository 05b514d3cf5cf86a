SPECIFICATION FairSpec
CONSTANTS
    p1 = p1
    c1 = c1
    Producers <- OneProducer
    Consumers <- OneConsumer
    MaxCount = 3
    SleepSuffices = TRUE
INVARIANTS SlotConservation CursorsAgree NoLostWakeup SlotExclusive
PROPERTIES ImplementsSlotPool WaitersServed
CHECK_DEADLOCK FALSE
