SPECIFICATION Spec
CONSTANTS
    Children = 5
    Cap = 2
    MaxLines <- MCMaxLines
    Runs <- MCRuns
INVARIANTS NobodyLeftBehind OutputArrives AnswersInOrder CommitOnlyIfReady
PROPERTIES Finishes LinesAnswered ClientsReleased
CHECK_DEADLOCK FALSE
