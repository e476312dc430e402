\* Two requests at once, each failing at will, and restarts of both processes.
CONSTANTS
    Numbers = {n1, n2}
    Workers = {w1, w2}
    Flaky = {"db", "write", "ami"}
    MaxPasswords = 3
    MaxRequests = 2
    MaxEvents = 1
SPECIFICATION Spec
INVARIANTS TypeOK ConfigFollows RetiredStaysOut
SYMMETRY Symmetry
CHECK_DEADLOCK FALSE
