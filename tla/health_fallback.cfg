CONSTANTS
    mx = mx
    io = io
    None = None
    Domains <- MCDomains
    Primary <- mx
    Order <- MCOrder
    Sweeps = {cron}
    Admins = {reset}
    MaxFails = 3
    MaxFaults = 1
SPECIFICATION LiveSpec
PROPERTY PrimaryReturns
