---------------------------- MODULE BleScanLease ----------------------------
(***************************************************************************)
(* The scan lease of BleCoexistenceCoordinator (ble-coexistence-           *)
(* coordinator.ts) and everybody who takes it: in the main process the     *)
(* GATT handlers, whose scans, connects and pairings run inside            *)
(* withScan('gatt'), and in the renderer, on behalf of Reticulum, the      *)
(* device picker, the RSSI poll and the recovery of a lost bond.           *)
(*                                                                         *)
(* acquireScan and releaseScan do not await (a caller never finds          *)
(* scanAcquireInFlight set), and the main process takes the requests of    *)
(* one renderer in order: a request takes effect when it is sent.          *)
(***************************************************************************)
EXTENDS Naturals, FiniteSets

CONSTANTS
    Ops,            \* LoRa scans, connects and pairings
    Scans,          \* calls of the picker's runBleScan
    Recoveries,     \* recoveries of a lost bond that may be under way
    MaxEvents       \* bound: clicks and status events

ASSUME LeaseAssumption ==
    IsFiniteSet(Ops) /\ IsFiniteSet(Scans) /\ IsFiniteSet(Recoveries) /\ MaxEvents \in Nat

VARIABLES
    lease,          \* scanOwner, scanOwnerDepth
    ops,            \* LoRa operations inside withScan('gatt')
    exclusive,      \* rnodeBondRecoveryExclusive of the GATT proxy
    picker,         \* the picker's dialog: open, scanning
    scan,           \* the picker's scans between two awaits
    poll,           \* the RSSI poll
    rt,             \* useReticulumRuntime: desync flag, hold latch, generation
    task,           \* its recovery tasks
    events          \* clicks and status events so far

leaseVars == <<lease, ops, exclusive, picker, scan, poll, rt, task, events>>

Owners == {"none", "gatt", "reticulum"}

LeaseTypeOK ==
    /\ lease \in [owner : Owners, depth : Nat]
    /\ ops \subseteq Ops /\ exclusive \in BOOLEAN
    /\ picker \in [open : BOOLEAN, scanning : BOOLEAN]
    /\ scan \in [Scans -> {"idle", "pausing", "scanning", "resuming", "refused"}]
    /\ poll \in {"idle", "scanning", "scanned"}
    /\ rt \in [desync : BOOLEAN, hold : BOOLEAN, gen : 0..MaxEvents]
    /\ task \in [Recoveries -> [pc : {"none", "central", "prepare"}, gen : 0..MaxEvents]]
    /\ events \in 0..MaxEvents

NoTask == [pc |-> "none", gen |-> 0]

LeaseInit ==
    /\ lease = [owner |-> "none", depth |-> 0]
    /\ ops = {} /\ exclusive = FALSE
    /\ picker = [open |-> FALSE, scanning |-> FALSE]
    /\ scan = [s \in Scans |-> "idle"]
    /\ poll = "idle"
    /\ rt = [desync |-> FALSE, hold |-> FALSE, gen |-> 0]
    /\ task = [r \in Recoveries |-> NoTask]
    /\ events = 0

-----------------------------------------------------------------------------
(* The coordinator. *)

CanAcquire(who) == lease.owner \in {"none", who}

\* A mutant: an owner that takes the lease again is not counted.
UncountedAcquire(who) == [owner |-> who, depth |-> 1]
Acquired(who) ==
    [owner |-> who, depth |-> IF lease.owner = who THEN lease.depth + 1 ELSE 1]

Released(who) ==
    IF lease.owner # who THEN lease
    ELSE IF lease.depth > 1 THEN [lease EXCEPT !.depth = @ - 1]
    ELSE [owner |-> "none", depth |-> 0]

-----------------------------------------------------------------------------
(* LoRa operations: withScan('gatt', operation). *)

\* A busy lease or a recovery turns the request down at once.
BeginOp(o) ==
    /\ o \notin ops /\ ~exclusive
    /\ CanAcquire("gatt")
    /\ lease' = Acquired("gatt")
    /\ ops' = ops \cup {o}
    /\ UNCHANGED <<exclusive, picker, scan, poll, rt, task, events>>

EndOp(o) ==
    /\ o \in ops
    /\ ops' = ops \ {o}
    /\ lease' = Released("gatt")
    /\ UNCHANGED <<exclusive, picker, scan, poll, rt, task, events>>

-----------------------------------------------------------------------------
(* The device picker. *)

Event == events < MaxEvents /\ events' = events + 1

StartScan(s) ==
    /\ Event
    /\ scan[s] = "idle"
    /\ ~picker.open \/ ~picker.scanning     \* openPicker, rescanBle
    /\ picker' = [open |-> TRUE, scanning |-> TRUE]
    /\ scan' = [scan EXCEPT ![s] = "pausing"]
    /\ UNCHANGED <<lease, ops, exclusive, poll, rt, task>>

\* The interfaces are paused and Bluetooth is there.
ScanAcquires(s) ==
    /\ scan[s] = "pausing"
    /\ CanAcquire("reticulum")
    /\ lease' = Acquired("reticulum")
    /\ scan' = [scan EXCEPT ![s] = "scanning"]
    /\ UNCHANGED <<ops, exclusive, picker, poll, rt, task, events>>

\* The lease is busy, Bluetooth is not there, or a request failed.
ScanRefused(s) ==
    /\ scan[s] = "pausing"
    /\ scan' = [scan EXCEPT ![s] = "refused"]
    /\ UNCHANGED <<lease, ops, exclusive, picker, poll, rt, task, events>>

ScanEnds(s) ==
    /\ scan[s] = "scanning"
    /\ scan' = [scan EXCEPT ![s] = "resuming"]
    /\ UNCHANGED <<lease, ops, exclusive, picker, poll, rt, task, events>>

\* The finally of runBleScan, after the interfaces were resumed.
ScanReturns(s) ==
    /\ scan[s] \in {"resuming", "refused"}
    /\ lease' = IF scan[s] = "resuming" THEN Released("reticulum") ELSE lease
    /\ scan' = [scan EXCEPT ![s] = "idle"]
    /\ picker' = [picker EXCEPT !.scanning = FALSE]
    /\ UNCHANGED <<ops, exclusive, poll, rt, task, events>>

\* close(): releases whether or not a scan holds the lease.
Close ==
    /\ Event
    /\ picker.open
    /\ picker' = [open |-> FALSE, scanning |-> FALSE]
    /\ lease' = Released("reticulum")
    /\ UNCHANGED <<ops, exclusive, scan, poll, rt, task>>

-----------------------------------------------------------------------------
(* The RSSI poll: a poll that finds the lease busy does nothing. *)

PollAcquires ==
    /\ poll = "idle"
    /\ CanAcquire("reticulum")
    /\ lease' = Acquired("reticulum")
    /\ poll' = "scanning"
    /\ UNCHANGED <<ops, exclusive, picker, scan, rt, task, events>>

PollScanned ==
    /\ poll = "scanning"
    /\ poll' = "scanned"
    /\ UNCHANGED <<lease, ops, exclusive, picker, scan, rt, task, events>>

PollEnds ==
    /\ poll = "scanned"
    /\ lease' = Released("reticulum")
    /\ poll' = "idle"
    /\ UNCHANGED <<ops, exclusive, picker, scan, rt, task, events>>

-----------------------------------------------------------------------------
(* Recovery of a lost bond (onStatus of useReticulumRuntime). *)

BondRemoved(r) ==
    /\ Event
    /\ task[r].pc = "none"
    /\ rt' = [rt EXCEPT !.desync = TRUE, !.hold = TRUE]
    /\ IF rt.hold
       THEN UNCHANGED <<task, exclusive>>
       ELSE /\ task' = [task EXCEPT ![r] = [pc |-> "central", gen |-> rt.gen]]
            /\ exclusive' = TRUE        \* releaseGattBleCentral
    /\ UNCHANGED <<lease, ops, picker, scan, poll>>

\* The BleLtkDesync event raises the flag alone.
LtkDesync ==
    /\ Event
    /\ rt' = [rt EXCEPT !.desync = TRUE]
    /\ UNCHANGED <<lease, ops, exclusive, picker, scan, poll, task>>

\* releaseGattBleCentral returned: prepareReticulumBleRnodeConnect, whose
\* result nobody looks at.
CentralReleased(r) ==
    /\ task[r].pc = "central"
    /\ IF task[r].gen # rt.gen
       THEN task' = [task EXCEPT ![r] = NoTask] /\ UNCHANGED lease
       ELSE /\ task' = [task EXCEPT ![r].pc = "prepare"]
            /\ lease' = IF CanAcquire("reticulum") THEN Acquired("reticulum") ELSE lease
    /\ UNCHANGED <<ops, exclusive, picker, scan, poll, rt, events>>

\* Called off in the meantime, it releases, as whatever called it off did.
Prepared(r) ==
    /\ task[r].pc = "prepare"
    /\ task' = [task EXCEPT ![r] = NoTask]
    /\ lease' = IF task[r].gen # rt.gen THEN Released("reticulum") ELSE lease
    /\ UNCHANGED <<ops, exclusive, picker, scan, poll, rt, events>>

RecoveryOver == [desync |-> FALSE, hold |-> FALSE, gen |-> rt.gen + 1]

\* A mutant: the end of a recovery forgets the lease.
NoReleaseOnClear == lease
LeaseAfterRecovery == Released("reticulum")

BondCleared ==
    /\ Event
    /\ rt.desync
    /\ rt' = RecoveryOver
    /\ lease' = LeaseAfterRecovery
    /\ exclusive' = FALSE               \* clearGattBondRecoveryExclusive
    /\ UNCHANGED <<ops, picker, scan, poll, task>>

\* tearDownFromSidecarStop and disconnect: the sidecar is gone, and what it was
\* asked to scan fails.  The proxy's latch stays.
TearDown ==
    /\ Event
    /\ rt' = RecoveryOver
    /\ lease' = LeaseAfterRecovery
    /\ scan' = [s \in Scans |-> IF scan[s] = "scanning" THEN "resuming" ELSE scan[s]]
    /\ poll' = IF poll = "scanning" THEN "scanned" ELSE poll
    /\ UNCHANGED <<ops, exclusive, picker, task>>

\* The proxy's own timer, after ten minutes.
ExclusiveExpires ==
    /\ exclusive
    /\ exclusive' = FALSE
    /\ UNCHANGED <<lease, ops, picker, scan, poll, rt, task, events>>

LeaseNext ==
    \/ \E o \in Ops : BeginOp(o) \/ EndOp(o)
    \/ \E s \in Scans :
          StartScan(s) \/ ScanAcquires(s) \/ ScanRefused(s) \/ ScanEnds(s) \/ ScanReturns(s)
    \/ Close \/ PollAcquires \/ PollScanned \/ PollEnds
    \/ \E r \in Recoveries : BondRemoved(r) \/ CentralReleased(r) \/ Prepared(r)
    \/ LtkDesync \/ BondCleared \/ TearDown \/ ExclusiveExpires

LeaseSpec == LeaseInit /\ [][LeaseNext]_leaseVars

-----------------------------------------------------------------------------
(* Properties. *)

\* While a LoRa operation runs the lease is LoRa's, once for each operation,
\* and when the last one returns the lease is free: no Reticulum scan starts
\* into a connect, whatever releases the picker and the recoveries send.
GattHoldsLease ==
    /\ ops # {} => lease = [owner |-> "gatt", depth |-> Cardinality(ops)]
    /\ lease.owner = "gatt" => ops # {}

ScanHolders == {s \in Scans : scan[s] \in {"scanning", "resuming"}}

\* Called off after its acquire was sent.
StaleAcquires == {r \in Recoveries : task[r].pc = "prepare" /\ task[r].gen # rt.gen}

\* A recovery keeps the lease until the bond is there again.
Holding == rt.hold /\ \A r \in Recoveries : ~(task[r].pc = "central" /\ task[r].gen = rt.gen)

One(b) == IF b THEN 1 ELSE 0

\* Reticulum's lease is never left behind: it is held no more often than there
\* are those on its side who took it and have yet to give it back, so LoRa is
\* not locked out for good.
LeaseIsReturned ==
    lease.owner = "reticulum" =>
        lease.depth <= Cardinality(ScanHolders) + Cardinality(StaleAcquires)
                       + One(poll # "idle") + One(Holding)

Scanning == poll = "scanning" \/ \E s \in Scans : scan[s] = "scanning"

\* docs/reticulum-sidecar-ipc.md:85: the coordinator "serializes app-requested
\* scans and LoRa connection setup".
ScansAreSerialized == ops # {} => ~Scanning
=============================================================================
