SPECIFICATION Spec

CONSTANTS
    Pages = {"nodes"}
    MaxWritten = 2
    MaxLostSaves = 1
    Apps = {"x", "y"}
    Homes = {"a", "b"}
    MaxRequests = 2
    MaxReads = 2
    Services = {"s", "t"}
    MaxCalls = 2
    Containers = {"c", "d"}
    Tails = {50, 100}
    MaxFetches = 3
    Machines = {m1, m2}
    Inventories <- MCInventories
    Vip = 30
    LastOctet = 254
    FilterRoles = {"controlplane", "worker"}
    TypedNames <- MCTypedNames
    MaxDetecting = 2
    MaxNodeCalls = 2
    BackupApps = {"x", "y"}
    MaxBackups = 2
    Kinds <- MCKinds
    VersionOf <- MCVersionOf
    Pieces = 2
    MaxDownloads = 2
    Names = {"p", "q"}
    Package = "p"
    Servers = {"d", "e"}
    MaxAdds = 2
    Domains = {"pub", "lan"}
    MaxTests = 3

PROPERTY FailedAddKeepsDrawer

CHECK_DEADLOCK FALSE
