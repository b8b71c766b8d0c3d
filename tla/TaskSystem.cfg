CONSTANTS
    N = 3
    Priority <- MCPriority
    First = {1, 2}
    MaxRuntime = 2
    MaxSleep = 2
SPECIFICATION Spec
INVARIANTS QueueSound MutexSound WaitersWoken
PROPERTIES NoStarvation
CHECK_DEADLOCK FALSE
