CONSTANTS
    Scenarios = {attack, benign}
    Reps = {r1}
    Attacks = {attack}
    Flaky = {attack}
    MaxUses = 3
    None = None
SPECIFICATION Spec
INVARIANTS
    InspectionIsTemporal
    StreamsAgree
    RepsCounted
    RatesComparable
