\* Three commands, two clients, two values.
CONSTANTS
    Cmds = {c1, c2, c3}
    Data = {d1, d2}
    Clients = {main, server}
    None = None
SPECIFICATION FairSpec
INVARIANTS TypeOK OneOrderPerCmd NewestNeverLost MemoryAccounted
PROPERTIES NoOvertaking RefinesMailbox Serviced DestroyReturns
