CHECK_DEADLOCK FALSE
SPECIFICATION RSpec
CONSTANTS
    Jobs = {j1}
    NoJob = NoJob
    Workers = {w1}
    NoWorker = NoWorker
    Purgers = {p1}
    MaxAttempts = 1
    MaxLosses = 0
    MaxPurges = 1
    MaxDeaths = 0
PROPERTIES
    PurgeSparesNewWorkspace
