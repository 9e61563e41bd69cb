SPECIFICATION LeaseSpec
CONSTANTS
    connect = connect
    lora_scan = lora_scan
    scan1 = scan1
    scan2 = scan2
    rec1 = rec1
    rec2 = rec2
    Ops <- MCOps
    Scans <- MCScans
    Recoveries <- MCRecoveries
    MaxEvents = 5
INVARIANTS
    GattHoldsLease
    LeaseIsReturned
CHECK_DEADLOCK FALSE
