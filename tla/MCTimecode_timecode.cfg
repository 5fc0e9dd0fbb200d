SPECIFICATION Spec
CONSTANTS
    Starts <- MCStarts
    Typed <- MCTyped
    Spelled <- MCSpelled
    Rates <- MCRates
    Operands <- MCOperands
    Transforms <- MCTransforms
    Span = 6
    Limit = 4
INVARIANTS RoundTrips ArithmeticIsExact
PROPERTIES CountsOn
