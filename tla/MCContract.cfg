SPECIFICATION Spec
CONSTANTS
    Parts <- MCParts
    Types <- MCTypes
    Projects <- MCProjects
INVARIANTS
    DeclaredBeforeUse
    DeclaredOnce
    TraitsDescribeTheirModel
