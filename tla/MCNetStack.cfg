\* Sequence numbers of both sides wrap; the ARP table has room for two of three hosts.
CONSTANTS
    Clients = {c1, c2}
    Ips = {c1, c2, gateway}
    Macs = {c1, c2, g1, g2}
    NumEntries = 2
    SeqMod = 16
    ServerIss = 14
    ClientIss = {6, 14}
    GetLen = 3
    BodyLen = 3
    MaxConns = 2
    Plans = {"whole", "afterGet", "lastPushed"}
SPECIFICATION FairSpec
INVARIANTS NeverStale BodyOnce AckWithinSent
PROPERTIES NeverForgotten Served
