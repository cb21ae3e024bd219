\* One call, three clients one after the other, and two faults
SPECIFICATION FairSpec
CONSTANTS
    k1 = k1  k2 = k2
    Calls = {k1}
    MaxClients = 3
    MaxFaults = 2
    WrapId = 4
    FirstCallId = 2
    None = None
\* a panic ended the process, or everything was called and the clients rest
CHECK_DEADLOCK FALSE
PROPERTIES CallsReturn Reconnects
