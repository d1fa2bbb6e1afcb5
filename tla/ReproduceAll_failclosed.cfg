SPECIFICATION Spec
INVARIANT FailClosed
