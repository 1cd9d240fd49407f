\* Both programs; the controller can be busy for longer than they poll, and
\* ack_byte and other bytes may have the value of any answer.
SPECIFICATION FairLife
CONSTANTS
    POLLS = 2
    MaxBusy = 2
    Garbage = {"other", "ACK", "NACK", "ERROR"}
    Noise = {"other", "ACK", "NACK", "ERROR"}
    MaxCuts = 1
    Programs = {"proj", "lab4"}
INVARIANTS
    AckMeansDone
    AnswersInStep
    CleanReturn
    Lab4KeepsAnswers
PROPERTIES
    StuckOnlyIfTaken
CHECK_DEADLOCK FALSE
