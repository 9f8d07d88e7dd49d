SPECIFICATION Spec
CONSTANTS
    MaxStarts = 2
    MaxNesting = 1
    Users = {"hurries"}
    Failing = {}
INVARIANTS
    OneListenerAlways
