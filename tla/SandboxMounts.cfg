SPECIFICATION Spec
CONSTANTS
    Tasks = {c1}
    Mounts = {A, B}
    Unset = Unset
    MaxCommands = 2
    MaxChanges = 1
    MaxMishaps = 1
INVARIANT MountsCurrent
CHECK_DEADLOCK FALSE
