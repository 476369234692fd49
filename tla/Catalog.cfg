CONSTANTS
    Tables = {"t", "u"}
    Indexes = {"i", "j"}
    MaxIds = 3
    MaxFaults = 2
SPECIFICATION Spec
INVARIANTS CatalogExact NoOrphans StartsAgain
PROPERTY MetaReplacedWhole
