SPECIFICATION TranslationSpec
CONSTANTS
    Kinds <- AllKinds
    Names <- TwoNames
    MaxCards = 2
    MaxMappings = 2
    Controllers <- ThreeControllers
    Contains <- Words
    MaxUnit = 1
    MaxDisks = 3
    VmwareGuests <- VmwareVMs
    OpenstackGuests <- Servers
    OvaGuests <- Archives
CHECK_DEADLOCK FALSE
INVARIANTS   NetworksAndInterfacesPair
INVARIANTS SizedByAddress NoParavirtualOnSCSI
INVARIANTS GuestCanStart  BusOfTheController
