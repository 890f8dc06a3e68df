CONSTANTS
    Workers = {w1, w2}
SPECIFICATION Spec
CHECK_DEADLOCK FALSE
INVARIANTS TypeOK RaceHasWinner OneLateJob NoServiceDownThroughout
PROPERTIES SearchWorksWithWorkers SigtermEndsWorker
