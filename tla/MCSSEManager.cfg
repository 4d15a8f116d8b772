SPECIFICATION FairHubSpec
CONSTANTS
    c1 = c1
    c2 = c2
    home = home
    office = office
    Everything = Everything
    Clients <- MCClients
    Instances <- MCInstances
    InstanceOf <- MCInstanceOf
    ChannelCap = 1
    QueueCap = 2
    BroadcastCap = 2
    MaxEvents = 3
INVARIANT HubIsSound
PROPERTY GoneAreForgotten
CHECK_DEADLOCK FALSE
