SPECIFICATION Spec
CONSTANTS
    laptop = laptop
    desktop = desktop
    zshrc = zshrc
    pacman_conf = pacman_conf
    Machines <- ModelMachines
    Files <- ModelFiles
    Sensitive <- ModelSensitive
    MaxEdits = 2
    MaxCommits = 3
    MaxFaults = 0
CHECK_DEADLOCK FALSE
INVARIANT InSync
