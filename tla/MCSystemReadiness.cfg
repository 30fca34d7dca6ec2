SPECIFICATION FairReadiness
CONSTANTS
    Boot <- MCBoot
    Phase1 = 4
    Phase2 = 6
    CheckPeriod = 15
    CleanUp = 2
    AckTimeout = 5
    CmdLen = 5
    AlertLen = 10
INVARIANTS
    WrongForOneRound
    AnswersAreForThisRound
PROPERTIES
    SystemFollows
