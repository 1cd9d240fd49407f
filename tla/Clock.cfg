\* Two hours of twelve minutes; ten operations fit before an update, the
\* least for which the times shown are real.
SPECIFICATION Spec
CONSTANTS
    SECS = 1
    MINS = 12
    HOURS = 2
    Lead = 10
INVARIANTS
    ShownTimeWasReal
