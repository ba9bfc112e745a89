SPECIFICATION Spec
CONSTANTS
    MaxEntries = 2
    MaxRuns = 3
    MaxFaults = 1
PROPERTY OnlyEvictionForgets
