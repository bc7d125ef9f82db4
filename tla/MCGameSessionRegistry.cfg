SPECIFICATION RegistrySpec
CONSTANTS
    Sessions = {s1, s2, s3}
    Users = {u1, u2, u3}
    Guilds = {g1, g2}
    MaxActive = 2
    NoLease = NoLease
    NoSession = NoSession
SYMMETRY Symmetry
INVARIANTS IndexesAgree
PROPERTIES NoStealing ImplementsLeases
