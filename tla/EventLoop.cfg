SPECIFICATION FairSpec
INVARIANTS TypeOK ConnectionHandedOver
PROPERTIES InvokerAnswered ThemeHeeded DaemonsEndNoticed
CHECK_DEADLOCK FALSE
