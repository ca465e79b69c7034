CONSTANTS
    Commands = {"kprop"}
    Kadmind = "kadmind"
    Primary <- KpropP
    Peers <- KpropPeers
    Acl = {"primary"}
    Keytabs <- KpropKeytabs
    Expected = "host"
    Blocks = 2
    InFlight = 1
    MaxRuns = 1
    MaxVersion = 2
    MaxFaults = 1
SPECIFICATION MCSpec
INVARIANTS
    SuccessMeansLoaded
    ServesWhatItNames
PROPERTIES
    
    HostSettles
CHECK_DEADLOCK FALSE
