SPECIFICATION WebSpec
CONSTANTS
    a = a
    b = b
    Projects <- MCProjects
    Jobs = {a, b}
    ShownJobs = {a}
    ProjectOf <- MCProjectOf
    NoJob = NoJob
INVARIANTS ListingIsComplete FailureHasCause ExistingJobIsFound
