SPECIFICATION Spec
PROPERTY ConstructorReturns
CHECK_DEADLOCK FALSE
