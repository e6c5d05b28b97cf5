SPECIFICATION Spec
CONSTANTS
    Fan = Fan
    Identity = {Fan}
    Deployments <- OneCode
    Clients = {c1, c2}
    MinutesPerHour = 3
    MaxMinute = 2
    MaxProcesses = 1
    MaxRevisions = 3
    MaxFaults = 1
    MaxBackSteps = 1
SYMMETRY Symmetry
INVARIANTS
    TypeOK
    ChainLinear
    AcknowledgedIsOwn
PROPERTY StoredSelectionFixed
