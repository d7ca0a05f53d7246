\* One tool server, one caller.
CONSTANTS
    None = None
    MCPServer = {fs}
    Caller = {c}
    Stopper = stopper
SPECIFICATION Spec
PROPERTY AddServerReturns
CHECK_DEADLOCK FALSE
