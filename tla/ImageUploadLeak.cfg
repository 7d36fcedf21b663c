SPECIFICATION Spec
CONSTANT MaxImages = 3
INVARIANT NothingLeftBehind
