SPECIFICATION Spec
CONSTANTS
    None = None
    Devices = {d1, d2}
    Requests = {q1}
    Calls = {c1, c2}
SYMMETRY Alike
INVARIANT CredentialNamesSession
INVARIANT OneSessionPerRequest
PROPERTY BothEndsRechecked
CHECK_DEADLOCK FALSE
