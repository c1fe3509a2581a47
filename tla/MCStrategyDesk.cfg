SPECIFICATION Spec
CONSTANTS
    up1 = up1
    up2 = up2
    down = down
    pin = pin
    condor = condor
    pullback = pullback
    Opportunity = {up1, up2, pullback, down, pin, condor}
    DirOf <- MCDirOf
    SetupsOf <- MCSetupsOf
    RthOpen = 2
    Stick <- MCStick
    Cooldown = 1
    Cap = 2
    Ttl = 2
    MaxTime = 4
    MaxFaults = 1
SYMMETRY Symmetry
CHECK_DEADLOCK FALSE
INVARIANTS
    TypeOK
    CardsCapped
    CooldownKept
    OppositeWaits
