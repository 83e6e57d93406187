CONSTANTS
    mx = mx
    io = io
    None = None
    Domains <- MCAlone
    Primary <- mx
    Order <- MCAloneOrder
    Sweeps = {cron, check}
    Admins = {}
    MaxFails = 4
    MaxFaults = 0
SPECIFICATION Spec
INVARIANT FlipsAfterThree
