SPECIFICATION TimersSpec
CONSTANTS
    Handles = {h1, h2, h3, h4}
    NoHandle = NoHandle
INVARIANTS
    RunsDoNotOverlap
