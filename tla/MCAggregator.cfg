CONSTANTS
    a1 = a1
    a2 = a2
    a3 = a3
    b1 = b1
    Lines <- MCLines
    KeyOf <- MCKeyOf
    Window = 1
    OutputCap = 1
    MaxTime = 5
SPECIFICATION FairSpec
INVARIANTS
    CountedOnce
    GroupIsOneWindow
PROPERTY ExpiredReachPipeline
\* Once the bounds of the instance are reached nothing is left to do.
CHECK_DEADLOCK FALSE
