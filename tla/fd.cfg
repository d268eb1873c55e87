SPECIFICATION Spec
CONSTANTS
    ALT_MAX_FD = 6
    Names = {"null", "uart", "missing"}
    Stdin = "uart"
    Stdout = "uart"
    Stderr = "uart"
INVARIANTS TypeOK HighWater NoLeak HeldMeansTheSame StdioAttached
PROPERTIES LockKeepsOut
