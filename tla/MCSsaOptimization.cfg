\* Programs of up to eight operations, in every mode.
CONSTANTS
    None = None
    Values <- MCValues
    Programs <- MCPrograms
    ImageCells <- MCCells
    Workspace <- MCWorkspace
    ReadOnly <- MCReadOnly
    RequiredSets <- MCRequired
SPECIFICATION Spec
INVARIANT ValuesAgree
INVARIANT OutputsAgree
PROPERTY Terminates
CHECK_DEADLOCK FALSE
