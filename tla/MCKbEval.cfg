CONSTANTS
    Node <- MCNode
    Key <- MCKey
    EnvVar <- MCEnvVar
    Word <- MCWord
    Forests <- MCForests
    MaxLength = 8
SPECIFICATION Spec
INVARIANTS
    TypeOK
    ValuesAsScoped
    ErrorsIffUnresolved
PROPERTY EndsUnlessCircular
CHECK_DEADLOCK FALSE
