\* Operations that follow one another at once.
CONSTANT Discipline = {"launched"}
SPECIFICATION Spec
INVARIANT ParkedWhileFlashing
