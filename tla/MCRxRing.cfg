\* 3 descriptors, 7 frames: the card fills the ring and both indices wrap twice.
CONSTANTS
    NumRx = 3
    MaxPackets = 7
    Packets = {p1, p2}
SPECIFICATION FairSpec
INVARIANTS RingInv ZeroCopyStable
PROPERTIES RxIsFifo AllDelivered RingReopens
