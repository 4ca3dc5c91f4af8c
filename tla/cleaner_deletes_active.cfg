\* One process that writes a line and then nothing for days.
CONSTANTS
    Rotators = {r1}
    MaxBackups = 2
    MaxSize = 3
    Lengths = {1, 2}
    MaxTotal = 5
    MaxLines = 3
    Faults = FALSE
    None = None
SPECIFICATION Spec
PROPERTY OnlyBackupsRemoved
