\* Two users, three connections, calls nested three deep. No symmetry: liveness.
CONSTANTS
    alice = alice
    bob = bob
    k1 = k1
    k2 = k2
    k3 = k3
    NoConnection = NoConnection
    Users <- MCUsers
    ConnectionIds <- MCConnectionIds
    Timeout = 1
    MaxDepth = 3
SPECIFICATION FairSpec
INVARIANTS
    ConnectionsAgree
    OneInstancePerUser
    AuditAccountsForConnections
PROPERTIES
    IdleConnectionsEnd
