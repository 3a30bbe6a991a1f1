SPECIFICATION MigrationSpec
CONSTANTS
    Files <- SortedFiles
    MaxRuns = 2
    MaxFailures = 1
INVARIANTS RecordedInOrder SchemaComplete MovedOnce RefusedOnlyAt
CHECK_DEADLOCK FALSE
