SPECIFICATION MCSpec
CONSTANTS
    moisture = moisture
    station = station
    source = source
    low = low
    dry = dry
    m1 = m1
    alice = alice
    k1 = k1
    Rules = {r1, r2}
    Slots = {moisture}
    SlotOf <- MCSlotOf
    Stations = {station}
    StationOf <- MCStationOf
    Sources = {source}
    SourceOf <- MCSourceOf
    Alerts = {a1, a2}
    Conditions = {low, high}
    Values = {dry, wet}
    Breaching <- MCBreaching
    Metas = {m1, m2}
    Evaluators = {e1}
    Clients = {alice, bob}
    Keys = {k1, k2}
    None = None
    MaxRevision = 3
    MaxSample = 4
INVARIANTS
    RemovedSourceHasNoEnabledRule
