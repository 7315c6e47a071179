CONSTANTS
    MaxDhcpTries = 5
SPECIFICATION DhcpSpec
CHECK_DEADLOCK FALSE
INVARIANTS
    ConfiguredIsUp
