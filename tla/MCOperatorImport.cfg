\* Operator programs of up to nine operations, with and without optimization.
CONSTANTS
    None = None
    Values <- MCValues
    Workspace <- MCWorkspace
    ImageCells <- MCCells
    ReadOnly <- MCReadOnly
    Required <- MCRequired
    Programs <- MCPrograms

SPECIFICATION Spec

INVARIANT ValuesAgree
INVARIANT OutputsAgree
PROPERTY StorageKept

CHECK_DEADLOCK FALSE
