SPECIFICATION IdentitySpec
CONSTANTS
    RequestIds = {q1, q2}
    Declarations <- MCDeclarations
    MaxAnswers = 2
SYMMETRY Symmetry
INVARIANTS
    SameDigestIffSameDeclaration
    OneRequestPerFunction
    EveryParameterMatters
CHECK_DEADLOCK FALSE
