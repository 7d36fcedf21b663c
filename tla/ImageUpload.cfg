SPECIFICATION Spec
CONSTANT MaxImages = 3
INVARIANTS TypeOK FilesServeTheChat AllOrNothing EveryFileAccountedFor
PROPERTY TurnEnds
