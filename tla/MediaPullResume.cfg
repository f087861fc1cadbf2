SPECIFICATION FairSpec
CONSTANTS
    Size = 3
    Block = 2
    MaxAttempts = 3
    MaxFaults = 1
PROPERTIES Resumes
