SPECIFICATION Spec
CONSTANTS
    Media = {m1, m2}
    BeginPort = 11
    EndPort = 17
    MaxChannels = 2
    Protocols = {"udp", "tcp"}
    ForeignPorts = {13}
    MulticastPorts = {21, 23}
SYMMETRY Symmetry
INVARIANTS
    TypeOK
    PortAccounting
    LentOnce
    LossIsMarked
PROPERTIES
    ImplementsLease
