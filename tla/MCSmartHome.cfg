SPECIFICATION Spec
CONSTANTS
    Active = {"motion", "opened", "closed", "off", "other"}
    HistorySize = 3
    Window <- MCWindow
    MaxEvents = 4
    MaxCommands = 1
INVARIANTS
    HistoryInOrder
    EmergencyIsHandled
    ReturningIsShadowed
