SPECIFICATION Spec
CONSTANTS
    r1 = r1
    r2 = r2
    None = None
    Requests <- TwoRequests
    Names = {taro, empty_name}
    ValidNames = {taro}
    Factions = {fire, water, unknown}
    SelectableFactions = {fire, water}
    Langs = {ja, fr}
    ScriptLangs = {ja}
    MaxCalls = 3
SYMMETRY Symmetry
INVARIANTS
    ConflictMeansStepSkipped
CHECK_DEADLOCK FALSE
