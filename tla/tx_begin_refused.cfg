SPECIFICATION Spec
CONSTANTS
    h1 = h1
    h2 = h2
    u1 = u1
    u2 = u2
    u3 = u3
    w1 = w1
    w2 = w2
    w3 = w3
    NoUnit = NoUnit
    Handles <- MCHandles
    Units <- MCTwoUnits
    Writes <- MCTwoWrites
    TriedBackends = {"sqlite"}
    AskedLevels = {"Default", "Serializable"}
    Faults = {"begin"}
    Liberties = {}
INVARIANT DurableOnlyByCommit
