SPECIFICATION Spec
CONSTANTS
    N = 4
    Batch = 2
    MaxLosses = 2
PROPERTIES
    EveryReadyRuleIsServed
