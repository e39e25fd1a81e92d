\* Sequences of insert, remove and resize over a table of two or three slots.
CONSTANTS
    a = a
    b = b
    c = c
    EmptyKey = EmptyKey
    Keys <- MC_Keys
    Hash <- MC_Hash
    Values = {1, 2}
    InitialSize = 2
    ResizeCapacities = {2, 3}
    MaxOps = 6
SPECIFICATION Spec
INVARIANTS TypeOK SizeMatchesSlots LookupAgreesWithSlots
PROPERTY ResizeKeepsKeys
CHECK_DEADLOCK FALSE
