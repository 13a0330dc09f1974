CONSTANT Connections = {7}
SPECIFICATION Spec
INVARIANT ErrorsAreUnderstood
