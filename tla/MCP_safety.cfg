\* Two calls of two numbers, a client and its successor, and two faults: an endpoint that
\* comes again takes a number
SPECIFICATION Spec
CONSTANTS
    k1 = k1  k2 = k2
    Calls = {k1, k2}
    MaxClients = 2
    MaxFaults = 2
    WrapId = 4
    FirstCallId = 2
    None = None
SYMMETRY Symm
\* a panic ended the process, or everything was called and the clients rest
CHECK_DEADLOCK FALSE
INVARIANTS TypeOK AnswersDoNotMix NoDeadChannel PanicsHaveCauses
