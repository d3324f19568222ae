CONSTANT NULL = NULL
SPECIFICATION Spec
INVARIANTS HeapIsSound   ShellKeepsFiles LinkerIsRight
CHECK_DEADLOCK FALSE
