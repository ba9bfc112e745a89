SPECIFICATION Spec
CONSTANTS
    MaxEntries = 2
    MaxRuns = 5
    MaxFaults = 3
INVARIANTS TypeOK DiskNeverPartial DiskOrdered
PROPERTIES OwnedFileKept ImplementsDurableHistory EventuallyOnDisk
