CONSTANTS
    mx = mx
    io = io
    None = None
    Domains <- MCAlone
    Primary <- mx
    Order <- MCAloneOrder
    Sweeps = {cron, check}
    Admins = {reset}
    MaxFails = 4
    MaxFaults = 2
SPECIFICATION Spec
INVARIANTS TypeOK FlipsUnlessRaced
