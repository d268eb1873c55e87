CHECK_DEADLOCK FALSE
SPECIFICATION Spec
CONSTANTS
    Keys = {"none", "w"}
    NoKey = "none"
    PresenceTries = 1
    RemovalTries = 1
    MaxFaults = 1
INVARIANTS ListUntouched NeverStuck PollsConfigured TogglesInStep
PROPERTIES KeycodeWhole RemovalNoticed KeyboardComesUp KeysArrive
