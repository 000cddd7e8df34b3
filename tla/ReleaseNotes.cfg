\* Three runs of the script, with the input files valid or not in each:
\* enough for a damaged page to be found, kept or repaired by a later run.
CONSTANT MaxRuns = 3

SPECIFICATION Spec

INVARIANT DamageOnlyInWriteWindow

CHECK_DEADLOCK FALSE
