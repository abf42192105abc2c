CONSTANTS
    s1 = s1
    s2 = s2
    p = p
    q = q
    Sessions = {s1, s2}
    Ids = {1, 2}
    NoCmd = NoCmd
    None = None
    Pkgs = {p, q}
    Order <- MCOrder
    Package <- MCPackage
    Version <- MCVersion
    Found <- MCFound
    KeepNVer = 1
    Whitelist = {}
    Threshold = 1
    TradeOff = TRUE
    Commands <- MCCommands
    Daily <- Plain
    Contents = {"part", "whole", "long"}
    MaxEvents = 2
SPECIFICATION Spec
CHECK_DEADLOCK FALSE
INVARIANTS
    OneWorker
PROPERTIES
    NoEarlyRemoval
    OrphanGoes
