\* Programs of up to eight instructions whose deferred stores release the slot.
CONSTANTS
    None = None
    Slots <- MCSlots
    Workspace <- MCWorkspace
    ImageCells <- MCCells
    Programs <- DisciplinedPrograms

SPECIFICATION Spec

INVARIANT RegistersAgree
INVARIANT OutputsAgree

CHECK_DEADLOCK FALSE
