SPECIFICATION Spec
CONSTANTS
    e1 = e1
    e2 = e2
    s1 = s1
    s2 = s2
    Self = self
    Events = {self, e1, e2}
    Slots = {s1, s2}
    Connections <- MCConnections
    NoTrigger = NoTrigger
    NoSlot = NoSlot
    SlotSize = 2
INVARIANT FreedTriggersAreEmpty
