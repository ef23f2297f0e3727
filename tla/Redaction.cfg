SPECIFICATION RedactionSpec
CONSTANTS
    Rule = {r1, r2}
    L = 4
    MarkerLength = 2
    MaxFindings = 3
SYMMETRY Symmetry
INVARIANTS DisjointIsExact LongFindingsAreCovered ToolIsExact
    RecallIsNotInflated
CHECK_DEADLOCK FALSE
