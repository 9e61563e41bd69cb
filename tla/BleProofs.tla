------------------------------ MODULE BleProofs ------------------------------
(***************************************************************************)
(* Proofs about the two parts that share the Bluetooth adapter, each by    *)
(* itself, for any number of requests, addresses, operations and scans.    *)
(*                                                                         *)
(* GattManager: an address has one user and is held for nobody else, the   *)
(* adapter stays down while it is held for the recovery of a bond, and a   *)
(* release forgets the sessions it found.                                  *)
(*                                                                         *)
(* BleScanLease (from LeaseInv on): LoRa keeps the scan lease for as long  *)
(* as one of its operations runs, and Reticulum never leaves it behind.    *)
(***************************************************************************)
EXTENDS GattManager, BleScanLease, FiniteSetTheorems, TLAPS

-----------------------------------------------------------------------------
(***************************************************************************)
(* The inductive invariants.                                               *)
(***************************************************************************)
(* TypeOK in parts.                                                        *)
Calls == [pc : CallPCs, addr : Addrs \cup {None}, prof : Profiles \cup {None},
          sid : Connects \cup {None}, slow : BOOLEAN, old : BOOLEAN]
Drops == [pc : DropPCs, sid : Connects \cup {None}]
Conns == [slot : BOOLEAN, watch : {"off", "on", "lost"},
          late : {"no", "opening", "lost", "closing", "detached", "stuck"}]

MapType  == /\ byAddr \in [Addrs -> {"free", "pending"} \cup Connects]
            /\ owner \in [Addrs -> Profiles \cup {None}]
            /\ sessions \subseteq Connects
CallType == call \in [Connects -> Calls]
DropType == drop \in [Droppers -> Drops]
PairType == pairing \in [Pairs -> Addrs \cup {None}]
ConnType == link \in [Addrs -> BOOLEAN] /\ conn \in [Connects -> Conns]
CentType == central \in [up : BOOLEAN, hold : BOOLEAN] /\ wanted \in BOOLEAN /\ clearing \in BOOLEAN
RelType  == release \in [pc : {"idle", "asked", "dropping", "dispose", "taking"},
                         ids : SUBSET Connects, todo : SUBSET Connects]

Types == MapType /\ CallType /\ DropType /\ PairType /\ ConnType /\ CentType /\ RelType

R == <<"release", None>>
Reclaim(c) == <<"reclaim", c>>
PumpOf(c) == <<"pump", c>>
DeleteOf(d) == <<"delete", d>>
Active(d) == drop[d].pc # "none"

(* A handler that went on from idle knows its address.                     *)
CallKnown == \A c \in Connects : call[c].pc # "idle" => call[c].addr \in Addrs

(* A reclaim is waited for by its connect; no call, no session.            *)
DropKnown ==
    /\ \A d \in Droppers : Active(d) <=> drop[d].sid # None
    /\ \A c \in Connects : Active(Reclaim(c)) => call[c].pc = "reclaim"

(* A session is live, or about to be.                                      *)
SessionKnown == \A c \in sessions : call[c].pc \in {"name", "live"}

Known == Types /\ CallKnown /\ DropKnown /\ SessionKnown

(* What a release found is named by nobody else, and forgotten in the end. *)
ReleaseInv ==
    /\ release.pc \in {"idle", "asked"} => release.ids = {}
    /\ \A c \in release.ids : call[c].pc \in {"name", "live"}
    /\ Removing(R) => drop[R].sid \notin sessions
    /\ \A c \in release.ids \cap sessions :
          release.pc = "dropping" /\ (c \in release.todo \/ drop[R].sid = c)

RInv == Known /\ ReleaseInv /\ HoldKeepsAdapterDown

(* Without bond recovery only sessions that were answered are dropped.     *)
Quiet == release = NoRelease /\ ~wanted /\ ~clearing

DropInv ==
    /\ ~Active(R)
    /\ \A d \in Droppers :
          /\ Active(d) => call[drop[d].sid].pc = "live"
          /\ drop[d].pc \in {"teardown", "os", "forget"} => drop[d].sid \in sessions
          /\ Removing(d) => drop[d].sid \notin sessions
          /\ drop[d].pc = "unmap" => byAddr[call[drop[d].sid].addr] = drop[d].sid
    /\ \A d, e \in Droppers :
          /\ Closing(d) /\ Closing(e) /\ drop[d].sid = drop[e].sid => d = e
          /\ Removing(d) /\ Removing(e) => d = e

(* What a connect looked up was live; a name that dangles is somebody      *)
(* else's by now.                                                          *)
LookInv ==
    \A c \in Connects :
        /\ call[c].sid # None <=> call[c].pc \in {"owner", "dangling"}
        /\ call[c].sid # None => call[call[c].sid].pc = "live"
        /\ call[c].pc = "dangling" => byAddr[call[c].addr] # call[c].sid
        /\ call[c].pc # "undangle"

(* A reservation has one holder.                                           *)
ClaimInv ==
    /\ \A c \in Connects : Claiming(c) => byAddr[call[c].addr] = "pending"
    /\ \A p \in Pairs : pairing[p] # None => byAddr[pairing[p]] = "pending"
    /\ \A c, o \in Connects :
          Claiming(c) /\ Claiming(o) /\ call[c].addr = call[o].addr => c = o
    /\ \A p, q \in Pairs : pairing[p] # None /\ pairing[p] = pairing[q] => p = q
    /\ \A c \in Connects, p \in Pairs : Claiming(c) => pairing[p] # call[c].addr

(* by_address and the sessions map name the same sessions, but for the one *)
(* that is between the two steps of its removal.                           *)
MapInv ==
    /\ \A c \in sessions : call[c].pc = "live" => byAddr[call[c].addr] = c
    /\ \A c \in Connects : call[c].pc = "name" => c \in sessions
    /\ \A a \in Addrs : byAddr[a] \in Connects =>
          /\ call[byAddr[a]].pc = "live"
          /\ call[byAddr[a]].addr = a
          /\ \/ byAddr[a] \in sessions
             \/ \E d \in Droppers : drop[d].pc = "unmap" /\ drop[d].sid = byAddr[a]

UInv == Quiet /\ DropInv /\ LookInv /\ ClaimInv /\ MapInv

-----------------------------------------------------------------------------
(***************************************************************************)
(* What the operators of the handlers change.                              *)
(***************************************************************************)
LEMMA TypeParts == TypeOK <=> Types
BY DEF TypeOK, Types, MapType, CallType, DropType, PairType, ConnType, CentType, RelType,
       Calls, Drops, Conns

LEMMA DropperFacts ==
    /\ R \in Droppers /\ Forced(R) /\ R[1] # "reclaim"
    /\ \A c \in Connects : /\ Reclaim(c) \in Droppers /\ Reclaim(c)[1] = "reclaim" /\ Reclaim(c) # R
                           /\ Reclaim(c)[2] = c
                           /\ PumpOf(c) \in Droppers /\ PumpOf(c)[1] # "reclaim" /\ PumpOf(c) # R
    /\ \A d \in Deletes : DeleteOf(d) \in Droppers /\ DeleteOf(d)[1] # "reclaim" /\ DeleteOf(d) # R
    /\ \A d \in Droppers : d[1] = "reclaim" => d[2] \in Connects /\ d = Reclaim(d[2])
BY DEF Droppers, R, Reclaim, PumpOf, DeleteOf, Forced

(* Only the fields named change.                                           *)
Kept(c) == /\ call'[c].addr = call[c].addr /\ call'[c].prof = call[c].prof
Others(c) == \A o \in Connects : o # c => call'[o] = call[o]
OtherDrops(d) == \A e \in Droppers : e # d => drop'[e] = drop[e]

LEMMA GoesFacts ==
    ASSUME CallType, NEW c \in Connects, NEW pc \in CallPCs, Goes(c, pc)
    PROVE  /\ CallType' /\ Others(c) /\ Kept(c)
           /\ call'[c].pc = pc /\ call'[c].sid = None
BY ZenonT(120) DEF CallType, Calls, Goes, Others, Kept

LEMMA RefusedFacts ==
    ASSUME CallType, NEW c \in Connects, Refused(c)
    PROVE  /\ CallType' /\ Others(c)
           /\ call'[c] = NoCall
BY DEF CallType, Calls, Refused, Others, NoCall, CallPCs

LEMMA ReturnsFacts ==
    ASSUME CallType, DropType, NEW d \in Droppers, Returns(d)
    PROVE  /\ CallType' /\ DropType' /\ OtherDrops(d)
           /\ drop'[d] = NoDrop
           /\ d[1] # "reclaim" => call' = call
           /\ d[1] = "reclaim" => /\ Others(d[2]) /\ Kept(d[2])
                                  /\ call'[d[2]].pc = "claim" /\ call'[d[2]].sid = call[d[2]].sid
<1>1. DropType' /\ OtherDrops(d) /\ drop'[d] = NoDrop
  BY DEF DropType, Drops, Returns, OtherDrops, NoDrop, DropPCs
<1>2. CASE d[1] # "reclaim"
  BY <1>1, <1>2 DEF Returns, CallType
<1>3. CASE d[1] = "reclaim"
  <2>1. d[2] \in Connects
    BY <1>3, DropperFacts
  <2>2. call' = [call EXCEPT ![d[2]].pc = "claim"]
    BY <1>3 DEF Returns
  <2>3. QED
    BY <1>1, <1>3, <2>1, <2>2 DEF CallType, Calls, CallPCs, Others, Kept
<1>4. QED
  BY <1>2, <1>3

LEMMA StartFacts ==
    ASSUME DropType, NEW d \in Droppers, NEW s \in Connects, StartDrop(d, s)
    PROVE  DropType' /\ OtherDrops(d) /\ drop'[d] = [pc |-> "wait", sid |-> s]
BY DEF DropType, Drops, StartDrop, OtherDrops, DropPCs

LEMMA MovesFacts ==
    ASSUME DropType, NEW d \in Droppers, NEW pc \in DropPCs, drop' = [drop EXCEPT ![d].pc = pc]
    PROVE  /\ DropType' /\ OtherDrops(d)
           /\ drop'[d].pc = pc /\ drop'[d].sid = drop[d].sid
BY DEF DropType, Drops, OtherDrops

LEMMA ToldType ==
    ASSUME NEW a, NEW cs \in [Connects -> Conns]
    PROVE  Told(a, cs) \in [Connects -> Conns]
BY DEF Told, Conns

-----------------------------------------------------------------------------
(***************************************************************************)
(* Types.                                                                  *)
(***************************************************************************)
LEMMA TypeInit == Init => Types
<1> SUFFICES ASSUME Init PROVE Types
  OBVIOUS
<1>1. MapType /\ PairType /\ CentType /\ RelType
  BY DEF Init, MapType, PairType, CentType, RelType, NoRelease
<1>2. CallType
  BY DEF Init, CallType, Calls, NoCall, CallPCs
<1>3. DropType
  BY DEF Init, DropType, Drops, NoDrop, DropPCs
<1>4. ConnType
  BY DEF Init, ConnType, Conns, NoConn
<1>5. QED
  BY <1>1, <1>2, <1>3, <1>4 DEF Types

(* The steps of drop_session_internal.                                     *)
LEMMA AnsweredFacts ==
    ASSUME CallType, DropType, NEW d \in Droppers, NEW ok \in BOOLEAN, Answered(d, ok)
    PROVE  /\ CallType' /\ DropType'
           /\ \/ (ok \/ Forced(d)) /\ drop' = [drop EXCEPT ![d].pc = "forget"] /\ call' = call
              \/ ~ok /\ ~Forced(d) /\ Returns(d)
<1>1. CASE drop' = [drop EXCEPT ![d].pc = "forget"] /\ UNCHANGED call /\ (ok \/ Forced(d))
  <2>1. DropType'
    BY <1>1, MovesFacts DEF DropPCs
  <2>2. QED
    BY <1>1, <2>1 DEF CallType
<1>2. CASE Returns(d) /\ ~ok /\ ~Forced(d)
  BY <1>2, ReturnsFacts
<1>3. QED
  BY <1>1, <1>2 DEF Answered

LEMMA TypeDrop ==
    ASSUME Types, NEW d \in Droppers, TakeClosing(d) \/ DropStep(d) \/ AbandonDelete(d)
    PROVE  Types'
<1> USE DEF Types
<1>1. CASE TakeClosing(d)
  <2>1. MapType' /\ PairType' /\ ConnType' /\ CentType' /\ RelType'
    BY <1>1 DEF TakeClosing, MapType, PairType, ConnType, CentType, RelType, maps, backend, recovery
  <2>2. CallType' /\ DropType'
    <3>1. CASE Returns(d)
      BY <3>1, ReturnsFacts
    <3>2. CASE drop' = [drop EXCEPT ![d].pc = "teardown"] /\ UNCHANGED call
      BY <3>2, MovesFacts DEF DropPCs, CallType
    <3>3. QED
      BY <1>1, <3>1, <3>2 DEF TakeClosing
  <2>3. QED
    BY <2>1, <2>2
<1>2. CASE TeardownRefused(d)
  <2>1. MapType' /\ PairType' /\ ConnType' /\ CentType' /\ RelType'
    BY <1>2 DEF TeardownRefused, MapType, PairType, ConnType, CentType, RelType, maps, backend, recovery
  <2>2. QED
    BY <1>2, <2>1, AnsweredFacts DEF TeardownRefused
<1>3. CASE TeardownUnknown(d)
  <2>1. MapType' /\ PairType' /\ ConnType' /\ CentType' /\ RelType'
    BY <1>3 DEF TeardownUnknown, MapType, PairType, ConnType, CentType, RelType, maps, recovery
  <2>2. QED
    BY <1>3, <2>1, AnsweredFacts DEF TeardownUnknown
<1>4. CASE TeardownBegins(d)
  <2>1. MapType' /\ PairType' /\ CentType' /\ RelType'
    BY <1>4 DEF TeardownBegins, MapType, PairType, CentType, RelType, maps, recovery
  <2>2. ConnType'
    BY <1>4, ZenonT(120) DEF TeardownBegins, ConnType, Conns
  <2>3. DropType'
    BY <1>4, MovesFacts DEF TeardownBegins, DropPCs
  <2>4. CallType'
    BY <1>4, ZenonT(120) DEF TeardownBegins, CallType, Calls
  <2>5. QED
    BY <2>1, <2>2, <2>3, <2>4
<1>5. CASE Disconnected(d)
  <2>1. MapType' /\ PairType' /\ CentType' /\ RelType'
    BY <1>5 DEF Disconnected, MapType, PairType, CentType, RelType, maps, recovery
  <2>2. ConnType'
    <3>1. [conn EXCEPT ![drop[d].sid].slot = FALSE] \in [Connects -> Conns]
      BY ZenonT(120) DEF ConnType, Conns
    <3>2. conn' \in [Connects -> Conns]
      BY <1>5, <3>1, ToldType DEF Disconnected
    <3>3. link' \in [Addrs -> BOOLEAN]
      BY <1>5 DEF Disconnected, ConnType
    <3>4. QED
      BY <3>2, <3>3 DEF ConnType
  <2>3. QED
    BY <1>5, <2>1, <2>2, AnsweredFacts DEF Disconnected
<1>6. CASE DisconnectFails(d) \/ DisconnectOverruns(d)
  <2>1. MapType' /\ PairType' /\ CentType' /\ RelType'
    BY <1>6 DEF DisconnectFails, DisconnectOverruns, MapType, PairType, CentType, RelType, maps, recovery
  <2>2. ConnType'
    BY <1>6, ZenonT(120) DEF DisconnectFails, DisconnectOverruns, ConnType, Conns
  <2>3. Answered(d, FALSE)
    BY <1>6 DEF DisconnectFails, DisconnectOverruns
  <2>4. QED
    BY <2>1, <2>2, <2>3, AnsweredFacts
<1>7. CASE Forget(d) \/ Unmap(d)
  <2>1. MapType' /\ CallType' /\ PairType' /\ ConnType' /\ CentType' /\ RelType'
    BY <1>7 DEF Forget, Unmap, MapType, CallType, PairType, ConnType, CentType, RelType, maps,
       backend, recovery
  <2>2. DropType'
    BY <1>7, MovesFacts DEF Forget, Unmap, DropPCs
  <2>3. QED
    BY <2>1, <2>2
<1>8. CASE Unregister(d)
  <2>1. MapType' /\ PairType' /\ ConnType' /\ CentType' /\ RelType'
    BY <1>8 DEF Unregister, Unregistered, MapType, PairType, ConnType, CentType, RelType, backend, recovery
  <2>2. QED
    BY <1>8, <2>1, ReturnsFacts DEF Unregister
<1>9. CASE AbandonDelete(d)
  <2>1. MapType' /\ PairType' /\ CentType' /\ RelType'
    BY <1>9 DEF AbandonDelete, MapType, PairType, CentType, RelType, maps, recovery
  <2>2. ConnType'
    BY <1>9, ZenonT(120) DEF AbandonDelete, ConnType, Conns
  <2>3. QED
    BY <1>9, <2>1, <2>2, ReturnsFacts DEF AbandonDelete
<1>10. QED
  BY <1>1, <1>2, <1>3, <1>4, <1>5, <1>6, <1>7, <1>8, <1>9 DEF DropStep

(* The steps of a connect.                                                 *)
LEMMA TypeConnect ==
    ASSUME Types, CallKnown, NEW c \in Connects, ConnectStep(c)
    PROVE  Types'
<1> USE DEF Types
<1>k. call[c].pc # "idle" => call[c].addr \in Addrs
  BY DEF CallKnown
<1>1. CASE Look(c)
  <2>1. MapType' /\ DropType' /\ PairType' /\ ConnType' /\ CentType' /\ RelType'
    BY <1>1 DEF Look, MapType, DropType, PairType, ConnType, CentType, RelType, maps, backend, recovery
  <2>2. CallType'
    <3>1. byAddr[call[c].addr] \in {"free", "pending"} \cup Connects
      BY <1>1, <1>k DEF Look, MapType
    <3>2. CASE byAddr[call[c].addr] \in {"free", "pending"}
      BY <1>1, <3>2 DEF Look, CallType, Calls, CallPCs
    <3>3. CASE byAddr[call[c].addr] \notin {"free", "pending"}
      <4>1. call' = [call EXCEPT ![c] = [call[c] EXCEPT !.pc = "owner", !.sid = byAddr[call[c].addr]]]
        BY <1>1, <3>3 DEF Look, CallType
      <4>2. [call[c] EXCEPT !.pc = "owner", !.sid = byAddr[call[c].addr]] \in Calls
        BY <3>1, <3>3, ZenonT(120) DEF CallType, Calls, CallPCs
      <4>3. QED
        BY <4>1, <4>2 DEF CallType
    <3>4. QED
      BY <3>2, <3>3
  <2>3. QED
    BY <2>1, <2>2
<1>2. CASE Owner(c)
  <2>1. MapType' /\ PairType' /\ ConnType' /\ CentType' /\ RelType'
    BY <1>2 DEF Owner, MapType, PairType, ConnType, CentType, RelType, maps, backend, recovery
  <2>2. CASE Goes(c, "reclaim") /\ StartDrop(Reclaim(c), call[c].sid) /\ call[c].sid \in sessions
    <3>1. call[c].sid \in Connects
      BY <2>2 DEF MapType
    <3>2. CallType'
      BY <2>2, GoesFacts DEF CallPCs
    <3>3. DropType'
      BY <2>2, <3>1, StartFacts, DropperFacts
    <3>4. QED
      BY <2>1, <3>2, <3>3
  <2>3. CASE Goes(c, "claim") /\ UNCHANGED drop
    BY <2>1, <2>3, GoesFacts DEF CallPCs, DropType
  <2>4. CASE call' = [call EXCEPT ![c].pc = "dangling"] /\ UNCHANGED drop
    BY <2>1, <2>4 DEF CallType, Calls, CallPCs, DropType
  <2>5. QED
    BY <1>2, <2>2, <2>3, <2>4 DEF Owner, Reclaim
<1>3. CASE Dangling(c) \/ Undangle(c) \/ Claim(c) \/ Register(c) \/ BackendRefuses(c)
  <2>1. DropType' /\ PairType' /\ ConnType' /\ CentType' /\ RelType'
    BY <1>3 DEF Dangling, Undangle, Claim, Register, BackendRefuses,
       DropType, PairType, ConnType, CentType, RelType, backend, recovery
  <2>2. MapType'
    BY <1>3 DEF Dangling, Undangle, Claim, Register, BackendRefuses, Fails, Unregistered,
       MapType, CallType, Calls
  <2>3. \/ Refused(c)
        \/ \E pc \in CallPCs : Goes(c, pc)
    BY <1>3 DEF Dangling, Undangle, Claim, Register, BackendRefuses, CallPCs
  <2>4. QED
    BY <2>1, <2>2, <2>3, GoesFacts, RefusedFacts
<1>4. CASE BackendBegins(c)
  <2>1. CallType'
    BY <1>4, GoesFacts DEF BackendBegins, CallPCs
  <2>2. QED
    BY <1>4, <2>1 DEF BackendBegins, MapType, DropType, PairType, ConnType, CentType, RelType,
       maps, recovery
<1>5. CASE Opened(c)
  <2>1. CallType'
    <3>1. call' = [call EXCEPT ![c] = [call[c] EXCEPT !.pc = "insert", !.slow = FALSE, !.old = FALSE]]
      BY <1>5 DEF Opened, CallType
    <3>2. [call[c] EXCEPT !.pc = "insert", !.slow = FALSE, !.old = FALSE] \in Calls
      BY ZenonT(120) DEF CallType, Calls, CallPCs
    <3>3. QED
      BY <3>1, <3>2 DEF CallType
  <2>2. ConnType'
    BY <1>5 DEF Opened, ConnType, Conns, CallType, Calls
  <2>3. QED
    BY <1>5, <2>1, <2>2 DEF Opened, MapType, DropType, PairType, CentType, RelType, maps, recovery
<1>6. CASE ConnectFails(c)
  <2>1. CallType'
    BY <1>6, RefusedFacts DEF ConnectFails
  <2>2. ConnType'
    <3>1. PICK up \in {FALSE, link[call[c].addr]} :
             /\ link' = [link EXCEPT ![call[c].addr] = up]
             /\ conn' = IF up THEN conn ELSE Told(call[c].addr, conn)
      BY <1>6 DEF ConnectFails
    <3>2. up \in BOOLEAN
      BY <1>6, <1>k, <3>1 DEF ConnectFails, ConnType
    <3>3. Told(call[c].addr, conn) \in [Connects -> Conns]
      BY ToldType DEF ConnType
    <3>4. QED
      BY <3>1, <3>2, <3>3 DEF ConnType
  <2>3. MapType'
    BY <1>6 DEF ConnectFails, Fails, Unregistered, MapType
  <2>4. QED
    BY <1>6, <2>1, <2>2, <2>3 DEF ConnectFails, DropType, PairType, CentType, RelType, recovery
<1>7. CASE ConnectOverruns(c)
  <2>1. CallType'
    BY <1>7, GoesFacts DEF ConnectOverruns, CallPCs
  <2>2. ConnType' /\ MapType'
    BY <1>7 DEF ConnectOverruns, Fails, Unregistered, ConnType, Conns, MapType
  <2>3. QED
    BY <1>7, <2>1, <2>2 DEF ConnectOverruns, DropType, PairType, CentType, RelType, recovery
<1>8. CASE Insert(c) \/ Name(c)
  <2>1. CallType'
    BY <1>8, GoesFacts DEF Insert, Name, CallPCs
  <2>2. MapType'
    BY <1>8 DEF Insert, Name, MapType
  <2>3. QED
    BY <1>8, <2>1, <2>2 DEF Insert, Name, DropType, PairType, ConnType, CentType, RelType,
       backend, recovery
<1>9. QED
  BY <1>1, <1>2, <1>3, <1>4, <1>5, <1>6, <1>7, <1>8 DEF ConnectStep

(* Clients that give up, late answers, the radio and the event pumps.      *)
Outside(c) == AbandonConnect(c) \/ Pump(c) \/ LateConnects(c) \/ LateDisconnects(c) \/ StreamEnds(c)

LEMMA TypeOutside ==
    ASSUME Types, CallKnown, NEW c \in Connects, Outside(c)
    PROVE  Types'
<1> USE DEF Types
<1>m. MapType' /\ PairType' /\ CentType' /\ RelType'
  BY DEF Outside, AbandonConnect, Pump, LateConnects, LateDisconnects, StreamEnds,
     MapType, PairType, CentType, RelType, maps, recovery
<1>1. CASE AbandonConnect(c)
  <2>1. CallType'
    BY <1>1, GoesFacts DEF AbandonConnect, CallPCs
  <2>2. QED
    BY <1>1, <1>m, <2>1 DEF AbandonConnect, DropType, ConnType, Conns
<1>2. CASE Pump(c)
  <2>1. CallType' /\ ConnType'
    BY <1>2 DEF Pump, CallType, ConnType, Conns
  <2>2. DropType'
    BY <1>2, StartFacts, DropperFacts DEF Pump, PumpOf, DropType
  <2>3. QED
    BY <1>m, <2>1, <2>2
<1>3. CASE LateConnects(c)
  <2>1. CallType' /\ DropType'
    BY <1>3 DEF LateConnects, CallType, DropType
  <2>2. ConnType'
    <3>1. [conn EXCEPT ![c].late = "no"] \in [Connects -> Conns]
      BY DEF ConnType, Conns
    <3>2. [slot |-> ~call[c].old, watch |-> "off",
           late |-> IF conn[c].late = "opening" THEN "closing" ELSE "no"] \in Conns
      BY DEF Conns
    <3>3. conn' \in [Connects -> Conns]
      BY <1>3, <3>1, <3>2 DEF LateConnects, ConnType
    <3>4. link' \in [Addrs -> BOOLEAN]
      BY <1>3 DEF LateConnects, ConnType
    <3>5. QED
      BY <3>3, <3>4 DEF ConnType
  <2>3. QED
    BY <1>m, <2>1, <2>2
<1>4. CASE LateDisconnects(c)
  <2>1. CallType' /\ DropType'
    BY <1>4 DEF LateDisconnects, CallType, DropType
  <2> DEFINE closed == [conn EXCEPT ![c].slot = FALSE, ![c].late = "no"]
  <2>2. closed \in [Connects -> Conns]
    BY ZenonT(120) DEF ConnType, Conns
  <2>3. ConnType'
    <3>0. conn' = closed \/ conn' = Told(call[c].addr, closed)
      BY <1>4 DEF LateDisconnects
    <3> HIDE DEF closed
    <3>1. conn' \in [Connects -> Conns]
      BY <2>2, <3>0, ToldType
    <3>2. link' \in [Addrs -> BOOLEAN]
      BY <1>4 DEF LateDisconnects, ConnType
    <3>3. QED
      BY <3>1, <3>2 DEF ConnType
  <2>4. QED
    BY <1>m, <2>1, <2>3
<1>5. CASE StreamEnds(c)
  BY <1>5, <1>m DEF StreamEnds, CallType, DropType, ConnType, Conns
<1>6. QED
  BY <1>1, <1>2, <1>3, <1>4, <1>5 DEF Outside

(* The rest: requests, the radio, pairing and the recovery of a bond.      *)
Central == WantCentral \/ ReleaseBegins \/ ReleaseNext \/ Hold \/ Dispose \/ Unwant \/ ClearHold

LEMMA TypeRequest ==
    ASSUME Types,
           \/ \E c \in Connects, a \in Addrs, p \in Profiles : Post(c, a, p)
           \/ \E a \in Addrs : LinkLost(a)
           \/ \E d \in Deletes, s \in Connects : Delete(d, s)
           \/ \E p \in Pairs : (\E a \in Addrs : Pair(p, a)) \/ PairEnds(p)
    PROVE  Types'
<1> USE DEF Types
<1>1. ASSUME NEW c \in Connects, NEW a \in Addrs, NEW p \in Profiles, Post(c, a, p) PROVE Types'
  <2>1. [NoCall EXCEPT !.pc = "look", !.addr = a, !.prof = p] \in Calls
    BY DEF NoCall, Calls, CallPCs
  <2>2. CallType'
    BY <1>1, <2>1 DEF Post, CallType
  <2>3. QED
    BY <1>1, <2>2 DEF Post, MapType, DropType, PairType, ConnType, CentType, RelType,
       maps, backend, recovery
<1>2. ASSUME NEW a \in Addrs, LinkLost(a) PROVE Types'
  <2>1. ConnType'
    BY <1>2, ToldType DEF LinkLost, ConnType
  <2>2. QED
    BY <1>2, <2>1 DEF LinkLost, MapType, CallType, DropType, PairType, CentType, RelType,
       maps, recovery
<1>3. ASSUME NEW d \in Deletes, NEW s \in Connects, Delete(d, s) PROVE Types'
  <2>1. DropType'
    BY <1>3, StartFacts, DropperFacts DEF Delete, DeleteOf
  <2>2. QED
    BY <1>3, <2>1 DEF Delete, MapType, CallType, PairType, ConnType, CentType, RelType,
       maps, backend, recovery
<1>4. ASSUME NEW p \in Pairs, (\E a \in Addrs : Pair(p, a)) \/ PairEnds(p) PROVE Types'
  <2>1. MapType' /\ PairType'
    BY <1>4 DEF Pair, PairEnds, MapType, PairType
  <2>2. QED
    BY <1>4, <2>1 DEF Pair, PairEnds, CallType, DropType, ConnType, CentType, RelType,
       backend, recovery
<1>5. QED
  BY <1>1, <1>2, <1>3, <1>4

LEMMA TypeCentral ==
    ASSUME Types, Central
    PROVE  Types'
<1> USE DEF Types
<1>1. CASE WantCentral \/ Unwant \/ ClearHold \/ Hold
  BY <1>1 DEF WantCentral, Unwant, ClearHold, Hold, NoRelease, MapType, CallType, DropType,
     PairType, ConnType, CentType, RelType, maps, backend
<1>2. CASE ReleaseBegins
  BY <1>2 DEF ReleaseBegins, MapType, CallType, DropType,
     PairType, ConnType, CentType, RelType, maps, backend
<1>3. CASE ReleaseNext
  <2>1. MapType' /\ CallType' /\ PairType' /\ ConnType' /\ CentType'
    BY <1>3 DEF ReleaseNext, MapType, CallType, PairType, ConnType, CentType, maps, backend
  <2>2. RelType'
    BY <1>3 DEF ReleaseNext, RelType
  <2>3. \/ drop' = drop
        \/ \E s \in Connects : StartDrop(R, s)
    BY <1>3 DEF ReleaseNext, R, RelType
  <2>4. DropType'
    BY <2>3, StartFacts, DropperFacts DEF DropType
  <2>5. QED
    BY <2>1, <2>2, <2>4
<1>4. CASE Dispose
  <2>1. MapType' /\ DropType' /\ PairType' /\ CentType' /\ RelType'
    BY <1>4 DEF Dispose, NoRelease, MapType, DropType, PairType, CentType, RelType, maps
  <2>2. CallType'
    BY <1>4, ZenonT(120) DEF Dispose, CallType, Calls
  <2>3. ConnType'
    BY <1>4 DEF Dispose, ConnType, Conns
  <2>4. QED
    BY <2>1, <2>2, <2>3
<1>5. QED
  BY <1>1, <1>2, <1>3, <1>4 DEF Central

LEMMA TypeStep ==
    ASSUME Types, CallKnown, [Next]_vars
    PROVE  Types'
<1>1. CASE UNCHANGED vars
  BY <1>1 DEF vars, Types, MapType, CallType, DropType, PairType, ConnType, CentType, RelType
<1>2. QED
  BY <1>1, TypeDrop, TypeConnect, TypeOutside, TypeRequest, TypeCentral DEF Next, Outside, Central

-----------------------------------------------------------------------------
(***************************************************************************)
(* What a task's step changes of the control state.                        *)
(***************************************************************************)

(* A connect moves by itself, from a state in which nobody waits for it.   *)
ConnectEffect(c) ==
    /\ Others(c)
    /\ call[c].pc \notin {"idle", "reclaim", "live", "aborted"}
    /\ call'[c].pc # "idle" => call'[c].addr = call[c].addr
    /\ call[c].pc = "name" => call'[c].pc = "live"
    /\ \/ sessions' = sessions
       \/ /\ sessions' = sessions \cup {c} /\ call[c].pc = "insert" /\ call'[c].pc = "name"
          /\ ~SessionsBusy
    /\ \/ drop' = drop
       \/ /\ StartDrop(Reclaim(c), call[c].sid) /\ call[c].sid \in sessions
          /\ call'[c].pc = "reclaim" /\ sessions' = sessions
    /\ UNCHANGED recovery

LEMMA ConnectMoves ==
    ASSUME Types, NEW c \in Connects, ConnectStep(c)
    PROVE  ConnectEffect(c)
<1> USE DEF Types
<1>1. CASE Look(c)
  BY <1>1 DEF Look, ConnectEffect, Others, CallType, Calls, maps, recovery
<1>2. CASE Owner(c)
  <2>1. UNCHANGED <<byAddr, owner, sessions>> /\ UNCHANGED recovery /\ call[c].pc = "owner"
    BY <1>2 DEF Owner, maps
  <2>2. CASE Goes(c, "reclaim") /\ StartDrop(Reclaim(c), call[c].sid) /\ call[c].sid \in sessions
    BY <2>1, <2>2, GoesFacts DEF ConnectEffect, CallPCs, Kept
  <2>3. CASE Goes(c, "claim") /\ UNCHANGED drop
    BY <2>1, <2>3, GoesFacts DEF ConnectEffect, CallPCs, Kept
  <2>4. CASE call' = [call EXCEPT ![c].pc = "dangling"] /\ UNCHANGED drop
    BY <2>1, <2>4 DEF ConnectEffect, CallType, Calls, Others
  <2>5. QED
    BY <1>2, <2>2, <2>3, <2>4 DEF Owner, Reclaim
<1>3. CASE Opened(c)
  <2>1. call' = [call EXCEPT ![c] = [call[c] EXCEPT !.pc = "insert", !.slow = FALSE, !.old = FALSE]]
    BY <1>3 DEF Opened, CallType
  <2>2. QED
    BY <1>3, <2>1 DEF Opened, ConnectEffect, CallType, Calls, Others, maps
<1>4. CASE Insert(c) \/ Name(c)
  BY <1>4, GoesFacts DEF Insert, Name, ConnectEffect, CallPCs, Kept
<1>5. CASE \/ Dangling(c) \/ Undangle(c) \/ Claim(c) \/ Register(c) \/ BackendRefuses(c)
           \/ BackendBegins(c) \/ ConnectFails(c) \/ ConnectOverruns(c)
  <2>1. /\ UNCHANGED <<sessions, drop>> /\ UNCHANGED recovery
        /\ call[c].pc \notin {"idle", "reclaim", "live", "aborted", "name"}
    BY <1>5 DEF Dangling, Undangle, Claim, Register, BackendRefuses, BackendBegins,
       ConnectFails, ConnectOverruns, maps
  <2>2. \/ Refused(c)
        \/ \E pc \in CallPCs : Goes(c, pc)
    BY <1>5 DEF Dangling, Undangle, Claim, Register, BackendRefuses, BackendBegins,
       ConnectFails, ConnectOverruns, CallPCs
  <2>3. CASE Refused(c)
    BY <2>1, <2>3, RefusedFacts DEF ConnectEffect, NoCall
  <2>4. CASE \E pc \in CallPCs : Goes(c, pc)
    BY <2>1, <2>4, GoesFacts DEF ConnectEffect, Kept
  <2>5. QED
    BY <2>2, <2>3, <2>4
<1>6. QED
  BY <1>1, <1>2, <1>3, <1>4, <1>5 DEF ConnectStep

(* A drop goes on or returns; a forced one returns when the session went.  *)
SameCalls == \A c \in Connects : /\ call'[c].pc = call[c].pc /\ call'[c].addr = call[c].addr
                                 /\ call'[c].sid = call[c].sid
Path(d, from, to) == drop[d].pc = from /\ drop'[d].pc = to
Frees(s) == byAddr' = [byAddr EXCEPT ![call[s].addr] = "free"]

DropEffect(d) ==
    /\ Active(d)
    /\ UNCHANGED <<pairing, release, wanted, clearing>>
    /\ \/ /\ SameCalls /\ OtherDrops(d) /\ drop'[d].sid = drop[d].sid
          /\ \/ /\ Path(d, "wait", "teardown") /\ UNCHANGED <<byAddr, sessions>>
                /\ drop[d].sid \in sessions /\ ~ClosingBusy(drop[d].sid)
             \/ /\ Path(d, "teardown", "os") \/ Path(d, "teardown", "forget") \/ Path(d, "os", "forget")
                /\ UNCHANGED <<byAddr, sessions>>
             \/ /\ Path(d, "forget", "unmap") /\ UNCHANGED byAddr
                /\ sessions' = sessions \ {drop[d].sid} /\ ~SessionsBusy
             \/ /\ Path(d, "unmap", "unregister") /\ UNCHANGED sessions
                /\ Frees(drop[d].sid)
       \/ /\ Returns(d) /\ UNCHANGED <<byAddr, sessions>> /\ drop[d].pc # "unmap"
          /\ drop[d].sid \notin sessions \/ drop[d].pc = "unregister" \/ ~Forced(d)

LEMMA DropMoves ==
    ASSUME Types, NEW d \in Droppers, TakeClosing(d) \/ DropStep(d) \/ AbandonDelete(d)
    PROVE  DropEffect(d)
<1> USE DEF Types
<1>a. ASSUME NEW ok \in BOOLEAN, Answered(d, ok), drop[d].pc \in {"teardown", "os"},
             UNCHANGED <<byAddr, sessions, pairing, release, wanted, clearing>>
      PROVE  DropEffect(d)
  <2>1. CASE drop' = [drop EXCEPT ![d].pc = "forget"] /\ call' = call
    BY <1>a, <2>1, MovesFacts DEF DropEffect, Active, SameCalls, Path, DropPCs
  <2>2. CASE Returns(d) /\ ~Forced(d)
    BY <1>a, <2>2 DEF DropEffect, Active
  <2>3. QED
    BY <1>a, <2>1, <2>2, AnsweredFacts
<1>1. CASE TakeClosing(d)
  <2>1. /\ drop[d].pc = "wait" /\ ~ClosingBusy(drop[d].sid)
        /\ UNCHANGED <<byAddr, sessions, pairing, release, wanted, clearing>>
    BY <1>1 DEF TakeClosing, maps, recovery
  <2>2. CASE drop[d].sid \in sessions /\ drop' = [drop EXCEPT ![d].pc = "teardown"] /\ UNCHANGED call
    BY <2>1, <2>2, MovesFacts DEF DropEffect, Active, SameCalls, Path, DropPCs
  <2>3. CASE drop[d].sid \notin sessions /\ Returns(d)
    BY <2>1, <2>3 DEF DropEffect, Active
  <2>4. QED
    BY <1>1, <2>2, <2>3 DEF TakeClosing
<1>2. CASE TeardownRefused(d) \/ TeardownUnknown(d) \/ Disconnected(d) \/ DisconnectFails(d)
           \/ DisconnectOverruns(d)
  BY <1>2, <1>a DEF TeardownRefused, TeardownUnknown, Disconnected, DisconnectFails,
     DisconnectOverruns, maps, recovery
<1>3. CASE TeardownBegins(d)
  <2>1. drop' = [drop EXCEPT ![d].pc = "os"]
    BY <1>3 DEF TeardownBegins
  <2>2. SameCalls
    BY <1>3 DEF TeardownBegins, SameCalls, CallType, Calls
  <2>3. QED
    BY <1>3, <2>1, <2>2, MovesFacts DEF TeardownBegins, DropEffect, Active, Path, DropPCs,
       maps, recovery
<1>4. CASE Forget(d)
  BY <1>4, MovesFacts DEF Forget, DropEffect, Active, SameCalls, Path, DropPCs, recovery
<1>5. CASE Unmap(d)
  BY <1>5, MovesFacts DEF Unmap, DropEffect, Active, SameCalls, Path, Frees, DropPCs, recovery
<1>6. CASE Unregister(d)
  BY <1>6 DEF Unregister, DropEffect, Active, recovery
<1>7. CASE AbandonDelete(d)
  BY <1>7 DEF AbandonDelete, DropEffect, Active, Forced, maps, recovery
<1>8. QED
  BY <1>1, <1>2, <1>3, <1>4, <1>5, <1>6, <1>7 DEF DropStep

(* Nothing from outside touches the maps.                                  *)
OutsideEffect(c) ==
    /\ UNCHANGED <<byAddr, sessions, pairing, release, wanted, clearing>>
    /\ \/ /\ Others(c) /\ Kept(c) /\ call[c].pc = "connecting" /\ call'[c].pc = "aborted"
          /\ call'[c].sid = None /\ drop' = drop
       \/ /\ call' = call
          /\ \/ drop' = drop
             \/ /\ StartDrop(PumpOf(c), c) /\ c \in sessions /\ call[c].pc = "live"
                /\ ~SessionsBusy

LEMMA OutsideMoves ==
    ASSUME Types, NEW c \in Connects, Outside(c)
    PROVE  OutsideEffect(c)
<1> USE DEF Types
<1>1. CASE AbandonConnect(c)
  BY <1>1, GoesFacts DEF AbandonConnect, OutsideEffect, CallPCs, maps, recovery
<1>2. CASE Pump(c)
  BY <1>2 DEF Pump, PumpOf, OutsideEffect, maps, recovery
<1>3. CASE LateConnects(c) \/ LateDisconnects(c) \/ StreamEnds(c)
  BY <1>3 DEF LateConnects, LateDisconnects, StreamEnds, OutsideEffect, maps, recovery
<1>4. QED
  BY <1>1, <1>2, <1>3 DEF Outside

(* Requests, the radio and the recovery of a bond start drops at most.     *)
RequestEffect ==
    /\ SameCalls /\ UNCHANGED sessions /\ UNCHANGED recovery
    /\ \/ drop' = drop
       \/ \E d \in Deletes, s \in sessions :
             /\ StartDrop(DeleteOf(d), s) /\ call[s].pc = "live"
             /\ ~SessionsBusy /\ ~Active(DeleteOf(d))

CentralEffect ==
    /\ SameCalls /\ UNCHANGED sessions
    /\ drop' = drop \/ \E s \in release.todo : StartDrop(R, s)

LEMMA CentralMoves ==
    ASSUME Types, Central
    PROVE  CentralEffect
<1> USE DEF Types
<1>1. CASE Dispose
  BY <1>1 DEF Dispose, CentralEffect, SameCalls, CallType, Calls, maps
<1>2. CASE ReleaseNext
  BY <1>2 DEF ReleaseNext, CentralEffect, SameCalls, R, maps
<1>3. CASE WantCentral \/ ReleaseBegins \/ Hold \/ Unwant \/ ClearHold
  BY <1>3 DEF WantCentral, ReleaseBegins, Hold, Unwant, ClearHold, CentralEffect, SameCalls, maps
<1>4. QED
  BY <1>1, <1>2, <1>3 DEF Central

LEMMA RequestMoves ==
    ASSUME Types,
           \/ \E a \in Addrs : LinkLost(a)
           \/ \E d \in Deletes, s \in Connects : Delete(d, s)
           \/ \E p \in Pairs : (\E a \in Addrs : Pair(p, a)) \/ PairEnds(p)
    PROVE  RequestEffect
<1>1. ASSUME NEW d \in Deletes, NEW s \in Connects, Delete(d, s) PROVE RequestEffect
  BY <1>1 DEF Delete, DeleteOf, RequestEffect, SameCalls, Active, NoDrop, maps, recovery
<1>2. ASSUME NEW p \in Pairs, (\E a \in Addrs : Pair(p, a)) \/ PairEnds(p)
      PROVE  RequestEffect
  BY <1>2 DEF Pair, PairEnds, RequestEffect, SameCalls, recovery
<1>3. ASSUME NEW a \in Addrs, LinkLost(a) PROVE RequestEffect
  BY <1>3 DEF LinkLost, RequestEffect, SameCalls, maps, recovery
<1>4. QED
  BY <1>1, <1>2, <1>3

(* A request takes a name nobody refers to.                                *)
PostEffect(c, a) ==
    /\ Unused(c) /\ Others(c) /\ c \in Connects
    /\ call'[c].pc = "look" /\ call'[c].addr = a /\ call'[c].sid = None
    /\ UNCHANGED maps /\ UNCHANGED <<drop, pairing, central>> /\ UNCHANGED recovery

LEMMA PostMoves ==
    ASSUME Types, NEW c \in Connects, NEW a \in Addrs, NEW p \in Profiles, Post(c, a, p)
    PROVE  PostEffect(c, a)
BY DEF Types, CallType, Calls, Post, PostEffect, Others, NoCall, maps, backend, recovery

-----------------------------------------------------------------------------
(***************************************************************************)
(* Who is known.                                                           *)
(***************************************************************************)
KnownRest == CallKnown /\ DropKnown /\ SessionKnown

LEMMA KnownInit == Init => Known
<1> SUFFICES ASSUME Init PROVE Known
  OBVIOUS
<1>1. CallKnown /\ SessionKnown
  BY DEF Init, CallKnown, SessionKnown, NoCall
<1>2. \A d \in Droppers : drop[d].pc = "none" /\ drop[d].sid = None
  BY DEF Init, NoDrop
<1>3. DropKnown
  BY <1>2, DropperFacts DEF DropKnown, Active
<1>4. QED
  BY <1>1, <1>3, TypeInit DEF Known

LEMMA KnownDrop ==
    ASSUME Known, NEW d \in Droppers, DropEffect(d), Types'
    PROVE  KnownRest'
<1> USE DEF Known, KnownRest, CallKnown, DropKnown, SessionKnown, Active
<1>1. CASE SameCalls /\ OtherDrops(d) /\ drop'[d].sid = drop[d].sid /\ drop'[d].pc # "none"
           /\ sessions' \subseteq sessions
  <2>1. CallKnown' /\ SessionKnown'
    BY <1>1 DEF SameCalls, Types, MapType
  <2>2. \A e \in Droppers : (Active(e)' <=> Active(e)) /\ drop'[e].sid = drop[e].sid
    BY <1>1 DEF DropEffect, OtherDrops
  <2>3. DropKnown'
    BY <1>1, <2>2, DropperFacts DEF SameCalls
  <2>4. QED
    BY <2>1, <2>3
<1>2. CASE Returns(d) /\ UNCHANGED sessions
  <2>1. /\ OtherDrops(d) /\ drop'[d] = NoDrop
        /\ d[1] # "reclaim" => call' = call
        /\ d[1] = "reclaim" => Others(d[2]) /\ Kept(d[2]) /\ call'[d[2]].pc = "claim"
    BY <1>2, ReturnsFacts DEF Types
  <2>2. d[1] = "reclaim" => d[2] \in Connects /\ d = Reclaim(d[2]) /\ call[d[2]].pc = "reclaim"
    BY DropperFacts DEF DropEffect
  <2>3. CallKnown' /\ SessionKnown'
    BY <1>2, <2>1, <2>2 DEF Others, Kept, Types, MapType
  <2>4. DropKnown'
    <3>1. \A e \in Droppers : (Active(e) <=> drop[e].sid # None)'
      BY <2>1 DEF OtherDrops, NoDrop
    <3>2. ASSUME NEW c \in Connects, Active(Reclaim(c))' PROVE call'[c].pc = "reclaim"
      <4>1. Reclaim(c) \in Droppers /\ Reclaim(c) # d
        BY <2>1, <3>2, DropperFacts DEF NoDrop
      <4>2. Active(Reclaim(c))
        BY <2>1, <3>2, <4>1 DEF OtherDrops
      <4>3. call[c].pc = "reclaim"
        BY <4>2
      <4>4. d[1] = "reclaim" => c # d[2]
        BY <2>2, <4>1, DropperFacts
      <4>5. QED
        BY <2>1, <4>3, <4>4 DEF Others
    <3>3. QED
      BY <3>1, <3>2
  <2>5. QED
    BY <2>3, <2>4
<1>3. QED
  BY <1>1, <1>2 DEF DropEffect, Path

LEMMA KnownConnect ==
    ASSUME Known, NEW c \in Connects, ConnectEffect(c), Types'
    PROVE  KnownRest'
<1> USE DEF Known, KnownRest, CallKnown, DropKnown, SessionKnown, Active
<1>1. CallKnown'
  BY DEF ConnectEffect, Others
<1>2. SessionKnown'
  BY DEF ConnectEffect, Others, Types, MapType
<1>3. DropKnown'
  <2>1. CASE drop' = drop
    BY <2>1 DEF ConnectEffect, Others
  <2>2. CASE StartDrop(Reclaim(c), call[c].sid) /\ call[c].sid \in sessions
             /\ call'[c].pc = "reclaim"
    <3>1. call[c].sid \in Connects /\ call[c].sid # None
      BY <2>2, GattAssumption DEF Types, MapType
    <3>2. /\ OtherDrops(Reclaim(c))
          /\ drop'[Reclaim(c)] = [pc |-> "wait", sid |-> call[c].sid]
      BY <2>2, <3>1, StartFacts, DropperFacts DEF Types
    <3>3. QED
      BY <2>2, <3>1, <3>2, DropperFacts DEF ConnectEffect, Others, OtherDrops
  <2>3. QED
    BY <2>1, <2>2 DEF ConnectEffect
<1>4. QED
  BY <1>1, <1>2, <1>3

LEMMA KnownStarts ==
    ASSUME Known, NEW d \in Droppers, NEW s \in Connects, StartDrop(d, s), d[1] # "reclaim", SameCalls,
           UNCHANGED sessions
    PROVE  KnownRest'
<1>1. OtherDrops(d) /\ drop'[d] = [pc |-> "wait", sid |-> s]
  BY StartFacts DEF Known, Types
<1>2. s # None
  BY GattAssumption
<1>3. (CallKnown /\ SessionKnown)'
  BY DEF Known, CallKnown, SessionKnown, SameCalls, Types, MapType
<1>4. \A c \in Connects : Reclaim(c) # d
  BY DropperFacts
<1>5. DropKnown'
  BY <1>1, <1>2, <1>4, DropperFacts DEF Known, DropKnown, Active, SameCalls, OtherDrops
<1>6. QED
  BY <1>3, <1>5 DEF KnownRest

LEMMA KnownStep ==
    ASSUME Known, [Next]_vars
    PROVE  Known'
<1> USE DEF Known
<1>t. Types'
  BY TypeStep
<1>1. ASSUME SameCalls, UNCHANGED <<sessions, drop>> PROVE KnownRest'
  BY <1>1 DEF KnownRest, CallKnown, DropKnown, SessionKnown, Active, SameCalls, Types, MapType
<1>2. ASSUME NEW c \in Connects, Outside(c) PROVE KnownRest'
  <2>1. OutsideEffect(c)
    BY <1>2, OutsideMoves
  <2>2. CASE call' = call /\ drop' = drop
    BY <2>1, <2>2, <1>1 DEF OutsideEffect, SameCalls
  <2>3. CASE call' = call /\ StartDrop(PumpOf(c), c)
    BY <2>1, <2>3, KnownStarts, DropperFacts DEF OutsideEffect, SameCalls
  <2>4. CASE Others(c) /\ Kept(c) /\ call[c].pc = "connecting" /\ call'[c].pc = "aborted" /\ drop' = drop
    BY <2>1, <2>4 DEF OutsideEffect, KnownRest, CallKnown, DropKnown, SessionKnown, Active, Others, Kept,
       Types, MapType
  <2>5. QED
    BY <2>1, <2>2, <2>3, <2>4 DEF OutsideEffect
<1>3. ASSUME NEW c \in Connects, NEW a \in Addrs, NEW p \in Profiles, Post(c, a, p) PROVE KnownRest'
  <2>1. PostEffect(c, a)
    BY <1>3, PostMoves
  <2>2. QED
    BY <2>1 DEF PostEffect, Unused, KnownRest, CallKnown, DropKnown, SessionKnown, Active, Others,
       Types, MapType, maps
<1>4. ASSUME RequestEffect PROVE KnownRest'
  <2>1. CASE drop' = drop
    BY <1>1, <1>4, <2>1 DEF RequestEffect
  <2>2. ASSUME NEW d \in Deletes, NEW s \in sessions, StartDrop(DeleteOf(d), s) PROVE KnownRest'
    BY <1>4, <2>2, KnownStarts, DropperFacts DEF RequestEffect, Types, MapType
  <2>3. QED
    BY <1>4, <2>1, <2>2 DEF RequestEffect
<1>c. ASSUME CentralEffect PROVE KnownRest'
  <2>1. CASE drop' = drop
    BY <1>1, <1>c, <2>1 DEF CentralEffect
  <2>2. ASSUME NEW s \in release.todo, StartDrop(R, s) PROVE KnownRest'
    <3>1. s \in Connects
      BY DEF Types, RelType
    <3>2. QED
      BY <1>c, <2>2, <3>1, KnownStarts, DropperFacts DEF CentralEffect
  <2>3. QED
    BY <1>c, <2>1, <2>2 DEF CentralEffect
<1>5. KnownRest'
  <2>1. CASE UNCHANGED vars
    BY <2>1, <1>1 DEF vars, SameCalls
  <2>2. QED
    BY <2>1, <1>t, <1>2, <1>3, <1>4, <1>c, DropMoves, KnownDrop, ConnectMoves, KnownConnect, RequestMoves,
       CentralMoves DEF Next, Outside, Central
<1>6. QED
  BY <1>t, <1>5 DEF KnownRest

-----------------------------------------------------------------------------
(***************************************************************************)
(* The recovery of a bond.                                                 *)
(***************************************************************************)

(* While nothing starts or ends a drop of the release, and no session that *)
(* it found comes back.                                                    *)
LEMMA ReleaseKept ==
    ASSUME Known, ReleaseInv, UNCHANGED release,
           \A c \in release.ids : call'[c].pc \in {"name", "live"},
           sessions' \subseteq sessions \cup {c \in Connects : call[c].pc = "insert"},
           drop'[R].sid = drop[R].sid,
           Removing(R)' => drop[R].sid \notin sessions'
    PROVE  ReleaseInv'
<1>1. \A c \in release.ids : c \in sessions' => c \in sessions
  BY DEF ReleaseInv
<1>2. QED
  BY <1>1 DEF ReleaseInv

LEMMA ReleaseDrop ==
    ASSUME Known, ReleaseInv, NEW d \in Droppers, DropEffect(d)
    PROVE  ReleaseInv'
<1>1. UNCHANGED release
  BY DEF DropEffect
<1>2. CASE SameCalls /\ OtherDrops(d) /\ drop'[d].sid = drop[d].sid
  <2>1. sessions' \subseteq sessions
    BY <1>2 DEF DropEffect
  <2>2. \A c \in release.ids : call'[c].pc \in {"name", "live"}
    BY <1>2 DEF SameCalls, ReleaseInv, Known, Types, RelType
  <2>3. drop'[R].sid = drop[R].sid
    BY <1>2, DropperFacts DEF OtherDrops
  <2>4. Removing(R)' => drop[R].sid \notin sessions'
    <3>1. CASE d = R
      <4>1. CASE Path(d, "forget", "unmap") /\ sessions' = sessions \ {drop[d].sid}
        BY <3>1, <4>1
      <4>2. CASE Path(d, "unmap", "unregister") /\ UNCHANGED sessions
        BY <3>1, <4>2 DEF ReleaseInv, Removing, Path
      <4>3. CASE Path(d, "wait", "teardown") \/ Path(d, "teardown", "os")
                 \/ Path(d, "teardown", "forget") \/ Path(d, "os", "forget")
        BY <3>1, <4>3 DEF Removing, Path
      <4>4. CASE Returns(d)
        BY <3>1, <4>4, ReturnsFacts DEF Known, Types, Removing, NoDrop
      <4>5. QED
        BY <4>1, <4>2, <4>3, <4>4 DEF DropEffect
    <3>2. CASE d # R
      BY <1>2, <2>1, <3>2, DropperFacts DEF OtherDrops, Removing, ReleaseInv
    <3>3. QED
      BY <3>1, <3>2
  <2>5. QED
    BY <1>1, <2>1, <2>2, <2>3, <2>4, ReleaseKept
<1>3. CASE Returns(d) /\ UNCHANGED sessions
           /\ (drop[d].sid \notin sessions \/ drop[d].pc = "unregister" \/ ~Forced(d))
  <2>1. /\ OtherDrops(d) /\ drop'[d] = NoDrop
        /\ d[1] # "reclaim" => call' = call
        /\ d[1] = "reclaim" => Others(d[2])
    BY <1>3, ReturnsFacts DEF Known, Types
  <2>2. \A c \in release.ids : call'[c].pc \in {"name", "live"}
    BY <2>1, DropperFacts DEF DropEffect, Known, DropKnown, ReleaseInv, Others, Types, RelType
  <2>3. CASE d # R
    BY <1>1, <1>3, <2>1, <2>2, <2>3, DropperFacts, ReleaseKept DEF OtherDrops, Removing, ReleaseInv
  <2>4. CASE d = R
    <3>1. drop[R].sid \notin sessions
      BY <1>3, <2>4, DropperFacts DEF ReleaseInv, Removing
    <3>2. ~Removing(R)'
      BY <2>1, <2>4 DEF Removing, NoDrop
    <3>3. QED
      BY <1>1, <1>3, <2>2, <3>1, <3>2 DEF ReleaseInv
  <2>5. QED
    BY <2>3, <2>4
<1>4. QED
  BY <1>2, <1>3 DEF DropEffect

LEMMA ReleaseConnect ==
    ASSUME Known, ReleaseInv, NEW c \in Connects, ConnectEffect(c)
    PROVE  ReleaseInv'
<1>1. UNCHANGED release
  BY DEF ConnectEffect, recovery
<1>2. \A o \in release.ids : call'[o].pc \in {"name", "live"}
  BY DEF ConnectEffect, Others, ReleaseInv, Known, Types, RelType
<1>3. drop'[R] = drop[R]
  <2>1. CASE drop' = drop
    BY <2>1
  <2>2. CASE StartDrop(Reclaim(c), call[c].sid) /\ call[c].sid \in sessions
    <3>1. OtherDrops(Reclaim(c))
      BY <2>2, StartFacts, DropperFacts DEF Known, Types, MapType
    <3>2. QED
      BY <3>1, DropperFacts DEF OtherDrops
  <2>3. QED
    BY <2>1, <2>2 DEF ConnectEffect
<1>4. Removing(R)' => drop[R].sid \notin sessions'
  BY <1>3, DropperFacts DEF ConnectEffect, SessionsBusy, Removing, ReleaseInv
<1>5. sessions' \subseteq sessions \cup {o \in Connects : call[o].pc = "insert"}
  BY DEF ConnectEffect
<1>6. QED
  BY <1>1, <1>2, <1>3, <1>4, <1>5, ReleaseKept

LEMMA ReleaseStarts ==
    ASSUME Known, ReleaseInv, NEW d \in Droppers, NEW s \in Connects, StartDrop(d, s), d # R,
           UNCHANGED <<release, sessions>>, SameCalls
    PROVE  ReleaseInv'
<1>1. drop'[R] = drop[R]
  BY StartFacts, DropperFacts DEF Known, Types, OtherDrops
<1>2. \A c \in release.ids : call'[c].pc \in {"name", "live"}
  BY DEF SameCalls, ReleaseInv, Known, Types, RelType
<1>3. QED
  BY <1>1, <1>2, ReleaseKept DEF Removing, ReleaseInv

LEMMA ReleaseCentral ==
    ASSUME Known, ReleaseInv, Central
    PROVE  ReleaseInv'
<1>s. SameCalls /\ UNCHANGED sessions
  BY CentralMoves DEF CentralEffect, Known
<1>d. drop[R].sid \notin Connects <=> drop[R].sid = None
  BY DropperFacts, GattAssumption DEF Known, Types, DropType, Drops
<1>1. CASE WantCentral \/ Dispose
  BY <1>1, <1>s DEF WantCentral, Dispose, NoRelease, ReleaseInv, Removing, maps
<1>2. CASE ReleaseBegins
  BY <1>2, <1>s DEF ReleaseBegins, ReleaseInv, Removing, Known, SessionKnown, SameCalls, maps,
     Types, MapType
<1>3. CASE ReleaseNext
  <2>1. drop[R].pc = "none" /\ drop[R].sid = None /\ release.pc = "dropping"
    BY <1>3 DEF ReleaseNext, R, NoDrop
  <2>2. \A c \in release.ids \cap sessions : c \in release.todo
    BY <2>1, GattAssumption DEF ReleaseInv, Known, Types, RelType
  <2>3. CASE release.todo = {} /\ release' = [release EXCEPT !.pc = "dispose"] /\ UNCHANGED drop
    BY <1>s, <2>1, <2>2, <2>3 DEF ReleaseInv, Removing, SameCalls, Known, Types, RelType
  <2>4. ASSUME NEW s \in release.todo, StartDrop(R, s), release' = [release EXCEPT !.todo = @ \ {s}]
        PROVE  ReleaseInv'
    <3>1. drop'[R] = [pc |-> "wait", sid |-> s]
      BY <2>4, StartFacts, DropperFacts DEF Known, Types, RelType
    <3>2. /\ release'.pc = "dropping" /\ release'.ids = release.ids
          /\ release'.todo = release.todo \ {s}
      BY <2>1, <2>4 DEF Known, Types, RelType
    <3>3. QED
      BY <1>s, <2>2, <3>1, <3>2 DEF ReleaseInv, Removing, SameCalls, Known, Types, RelType
  <2>5. QED
    BY <1>3, <2>3, <2>4 DEF ReleaseNext, R
<1>4. CASE Hold
  BY <1>4, <1>s DEF Hold, ReleaseInv, Removing, SameCalls, Known, Types, RelType
<1>5. CASE Unwant \/ ClearHold
  BY <1>5, <1>s DEF Unwant, ClearHold, ReleaseInv, Removing, SameCalls, Known, Types, RelType
<1>6. QED
  BY <1>1, <1>2, <1>3, <1>4, <1>5 DEF Central

LEMMA ReleaseStep ==
    ASSUME Known, ReleaseInv, [Next]_vars
    PROVE  ReleaseInv'
<1>t. Types
  BY DEF Known
<1>1. CASE UNCHANGED vars
  BY <1>1 DEF vars, ReleaseInv, Removing
<1>2. ASSUME NEW c \in Connects, Outside(c) PROVE ReleaseInv'
  <2>1. OutsideEffect(c)
    BY <1>t, <1>2, OutsideMoves
  <2>2. CASE call' = call /\ drop' = drop
    BY <2>1, <2>2 DEF OutsideEffect, ReleaseInv, Removing
  <2>3. CASE call' = call /\ StartDrop(PumpOf(c), c)
    BY <2>1, <2>3, ReleaseStarts, DropperFacts DEF OutsideEffect, SameCalls
  <2>4. CASE Others(c) /\ call[c].pc = "connecting" /\ drop' = drop
    BY <2>1, <2>4 DEF OutsideEffect, ReleaseInv, Removing, Others, Known, Types, RelType
  <2>5. QED
    BY <2>1, <2>2, <2>3, <2>4 DEF OutsideEffect
<1>3. ASSUME NEW c \in Connects, NEW a \in Addrs, NEW p \in Profiles, Post(c, a, p) PROVE ReleaseInv'
  <2>1. PostEffect(c, a)
    BY <1>t, <1>3, PostMoves
  <2>2. QED
    BY <2>1 DEF PostEffect, Unused, ReleaseInv, Removing, Others, Known, Types, RelType, maps, recovery
<1>4. CASE \/ \E a \in Addrs : LinkLost(a)
           \/ \E d \in Deletes, s \in Connects : Delete(d, s)
           \/ \E p \in Pairs : (\E a \in Addrs : Pair(p, a)) \/ PairEnds(p)
  <2>0. RequestEffect
    BY <1>t, <1>4, RequestMoves
  <2>1. CASE drop' = drop
    BY <2>0, <2>1 DEF RequestEffect, recovery, ReleaseInv, Removing, SameCalls, Known, Types, RelType
  <2>2. ASSUME NEW d \in Deletes, NEW s \in sessions, StartDrop(DeleteOf(d), s) PROVE ReleaseInv'
    BY <2>0, <2>2, ReleaseStarts, DropperFacts DEF RequestEffect, recovery, Known, Types, MapType
  <2>3. QED
    BY <2>0, <2>1, <2>2 DEF RequestEffect
<1>5. QED
  BY <1>1, <1>t, <1>2, <1>3, <1>4, DropMoves, ReleaseDrop, ConnectMoves, ReleaseConnect, ReleaseCentral
     DEF Next, Outside, Central

LEMMA HoldStep ==
    ASSUME Types, HoldKeepsAdapterDown, [Next]_vars
    PROVE  HoldKeepsAdapterDown'
<1> USE DEF HoldKeepsAdapterDown
<1>1. CASE UNCHANGED <<central, release>>
  BY <1>1, ZenonT(120)
<1>2. ASSUME NEW d \in Droppers, TakeClosing(d) \/ DropStep(d) \/ AbandonDelete(d)
      PROVE  HoldKeepsAdapterDown'
  BY <1>1, <1>2 DEF TakeClosing, DropStep, AbandonDelete, TeardownRefused, TeardownUnknown,
     TeardownBegins, Disconnected, DisconnectFails, DisconnectOverruns, Forget, Unmap, Unregister,
     backend, recovery, Types, CentType
<1>3. ASSUME NEW c \in Connects, ConnectStep(c) PROVE HoldKeepsAdapterDown'
  BY <1>1, <1>3 DEF ConnectStep, Look, Owner, Dangling, Undangle, Claim, Register, BackendRefuses,
     BackendBegins, Opened, ConnectFails, ConnectOverruns, Insert, Name, backend, recovery,
     Types, CentType
<1>4. ASSUME NEW c \in Connects, Outside(c) PROVE HoldKeepsAdapterDown'
  BY <1>1, <1>4 DEF Outside, AbandonConnect, Pump, LateConnects, LateDisconnects, StreamEnds,
     backend, recovery
<1>5. CASE \/ \E c \in Connects, a \in Addrs, p \in Profiles : Post(c, a, p)
           \/ \E a \in Addrs : LinkLost(a)
           \/ \E d \in Deletes, s \in Connects : Delete(d, s)
           \/ \E p \in Pairs : (\E a \in Addrs : Pair(p, a)) \/ PairEnds(p)
  BY <1>1, <1>5 DEF Post, LinkLost, Delete, Pair, PairEnds, backend, recovery
<1>6. CASE Central
  BY <1>1, <1>6 DEF Central, WantCentral, ReleaseBegins, ReleaseNext, Hold, Dispose, Unwant, ClearHold,
     NoRelease, backend, Types, CentType, RelType
<1>7. QED
  BY <1>1, <1>2, <1>3, <1>4, <1>5, <1>6, ZenonT(120) DEF Next, Outside, Central, vars

LEMMA RInit == Init => RInv
BY KnownInit, DropperFacts DEF Init, RInv, ReleaseInv, HoldKeepsAdapterDown, NoRelease, NoDrop, Removing

LEMMA RStep == RInv /\ [Next]_vars => RInv'
BY KnownStep, ReleaseStep, HoldStep DEF RInv, Known

LEMMA RAlways == Spec => []RInv
BY RInit, RStep, PTL DEF Spec

-----------------------------------------------------------------------------
(***************************************************************************)
(* One user of an address, where bonds are not recovered. Most steps keep  *)
(* who is live, and no step but Name and Unmap touches an address that     *)
(* names a session.                                                        *)
(***************************************************************************)
Settled ==
    \A o \in Connects :
        /\ call'[o].pc = "live" <=> call[o].pc = "live"
        /\ call'[o].pc = "name" <=> call[o].pc = "name"
        /\ call[o].pc \in {"name", "live"} => call'[o].addr = call[o].addr

Unnamed ==
    \A a \in Addrs :
        \/ byAddr'[a] = byAddr[a]
        \/ byAddr[a] \in {"free", "pending"} /\ byAddr'[a] \in {"free", "pending"}

LEMMA MapKept ==
    ASSUME Known, UInv, Settled, Unnamed, UNCHANGED sessions,
           \A e \in Droppers : drop[e].pc = "unmap" => drop'[e] = drop[e]
    PROVE  MapInv'
<1> USE GattAssumption
<1>1. \A c \in sessions : c \in Connects /\ call[c].addr \in Addrs
  BY DEF Known, SessionKnown, CallKnown, Types, MapType
<1>2. \A c \in sessions : call'[c].pc = "live" => byAddr'[call'[c].addr] = c
  BY <1>1 DEF UInv, MapInv, Settled, Unnamed
<1>3. \A c \in Connects : call'[c].pc = "name" => c \in sessions
  BY DEF UInv, MapInv, Settled
<1>4. ASSUME NEW a \in Addrs, byAddr'[a] \in Connects
      PROVE  /\ call'[byAddr'[a]].pc = "live"
             /\ call'[byAddr'[a]].addr = a
             /\ \/ byAddr'[a] \in sessions
                \/ \E d \in Droppers : drop'[d].pc = "unmap" /\ drop'[d].sid = byAddr'[a]
  <2>1. byAddr'[a] = byAddr[a]
    BY <1>4 DEF Unnamed
  <2>2. QED
    BY <1>4, <2>1 DEF UInv, MapInv, Settled
<1>5. QED
  BY <1>2, <1>3, <1>4 DEF MapInv

StaysOrWaits(e) ==
    \/ drop'[e] = drop[e]
    \/ drop'[e].pc = "none"
    \/ /\ e # R /\ drop'[e].pc = "wait"
       /\ drop'[e].sid \in sessions /\ call[drop'[e].sid].pc = "live"

LEMMA DropKept ==
    ASSUME Known, UInv, Settled, Unnamed, UNCHANGED sessions,
           \A e \in Droppers : StaysOrWaits(e)
    PROVE  DropInv'
<1> USE GattAssumption
<1>0. \A e \in Droppers :
         \/ drop'[e] = drop[e]
         \/ drop'[e].pc = "none"
         \/ /\ e # R /\ drop'[e].pc = "wait"
            /\ drop'[e].sid \in sessions /\ call[drop'[e].sid].pc = "live"
  BY DEF StaysOrWaits
<1>1. ASSUME NEW e \in Droppers
      PROVE  /\ Closing(e)' => Closing(e) /\ drop'[e] = drop[e]
             /\ Removing(e)' => Removing(e) /\ drop'[e] = drop[e]
  BY <1>0 DEF Closing, Removing
<1>2. ~Active(R)'
  BY <1>0, DropperFacts DEF UInv, DropInv, Active
<1>3. ASSUME NEW e \in Droppers
      PROVE  /\ Active(e)' => call'[drop'[e].sid].pc = "live"
             /\ drop'[e].pc \in {"teardown", "os", "forget"} => drop'[e].sid \in sessions
             /\ Removing(e)' => drop'[e].sid \notin sessions
             /\ drop'[e].pc = "unmap" => byAddr'[call'[drop'[e].sid].addr] = drop'[e].sid
  <2>1. CASE drop'[e].pc = "none"
    BY <2>1 DEF Active, Removing
  <2>2. CASE drop'[e].pc = "wait" /\ drop'[e].sid \in sessions /\ call[drop'[e].sid].pc = "live"
    BY <2>2 DEF Settled, Removing, Known, Types, MapType
  <2>3. CASE drop'[e] = drop[e]
    <3>1. CASE ~Active(e)
      BY <2>3, <3>1 DEF Active, Removing
    <3>2. CASE Active(e)
      <4>1. drop[e].sid \in Connects /\ call[drop[e].sid].pc = "live"
        BY <3>2 DEF Known, DropKnown, Types, DropType, Drops, UInv, DropInv
      <4>2. call'[drop[e].sid].pc = "live" /\ call'[drop[e].sid].addr = call[drop[e].sid].addr
        BY <4>1 DEF Settled
      <4>3. call[drop[e].sid].addr \in Addrs
        BY <4>1 DEF Known, CallKnown
      <4>4. byAddr[call[drop[e].sid].addr] = drop[e].sid =>
               byAddr'[call[drop[e].sid].addr] = drop[e].sid
        BY <4>1, <4>3 DEF Unnamed
      <4>5. QED
        BY <2>3, <4>1, <4>2, <4>4 DEF UInv, DropInv, Removing
    <3>3. QED
      BY <3>1, <3>2
  <2>4. QED
    BY <1>0, <2>1, <2>2, <2>3
<1>4. \A d, e \in Droppers :
         /\ Closing(d)' /\ Closing(e)' /\ drop'[d].sid = drop'[e].sid => d = e
         /\ Removing(d)' /\ Removing(e)' => d = e
  BY <1>1 DEF UInv, DropInv
<1>5. QED
  BY <1>2, <1>3, <1>4 DEF DropInv

LEMMA LookKept ==
    ASSUME Known, UInv, Settled, Unnamed,
           \A o \in Connects :
              \/ call'[o].sid = None /\ call'[o].pc \notin {"owner", "dangling", "undangle"}
              \/ call'[o].sid = call[o].sid /\ call'[o].pc = call[o].pc
                 /\ call'[o].addr = call[o].addr
    PROVE  LookInv'
<1> SUFFICES ASSUME NEW o \in Connects
             PROVE  /\ call'[o].sid # None <=> call'[o].pc \in {"owner", "dangling"}
                    /\ call'[o].sid # None => call'[call'[o].sid].pc = "live"
                    /\ call'[o].pc = "dangling" => byAddr'[call'[o].addr] # call'[o].sid
                    /\ call'[o].pc # "undangle"
  BY DEF LookInv
<1>1. CASE call'[o].sid = None /\ call'[o].pc \notin {"owner", "dangling", "undangle"}
  BY <1>1
<1>2. CASE call'[o].sid = call[o].sid /\ call'[o].pc = call[o].pc /\ call'[o].addr = call[o].addr
  <2>1. call[o].sid # None => call[o].sid \in Connects
    BY DEF Known, Types, CallType, Calls
  <2>2. call[o].pc = "dangling" => call[o].addr \in Addrs
    BY DEF Known, CallKnown
  <2>3. QED
    BY <1>2, <2>1, <2>2, GattAssumption DEF UInv, LookInv, Settled, Unnamed
<1>3. QED
  BY <1>1, <1>2

LEMMA ClaimKept ==
    ASSUME UInv, UNCHANGED <<byAddr, pairing>>,
           \A o \in Connects : Claiming(o)' => Claiming(o) /\ call'[o].addr = call[o].addr
    PROVE  ClaimInv'
BY DEF UInv, ClaimInv

(* A reservation that is given back.                                       *)
LEMMA ClaimFreed ==
    ASSUME Known, UInv, NEW c \in Connects, Claiming(c), ~Claiming(c)', Others(c), UNCHANGED pairing,
           byAddr' = [byAddr EXCEPT ![call[c].addr] = "free"]
    PROVE  ClaimInv' /\ Unnamed
<1>1. call[c].addr \in Addrs /\ byAddr[call[c].addr] = "pending"
  BY DEF Known, CallKnown, Claiming, UInv, ClaimInv
<1>2. byAddr'[call[c].addr] = "free" /\ \A a \in Addrs : a # call[c].addr => byAddr'[a] = byAddr[a]
  BY <1>1 DEF Known, Types, MapType
<1>3. \A o \in Connects : Claiming(o)' =>
         o # c /\ Claiming(o) /\ call'[o] = call[o] /\ call[o].addr \in Addrs
  BY DEF Others, Claiming, Known, CallKnown
<1>4. \A p \in Pairs : pairing[p] # None => pairing[p] \in Addrs /\ pairing[p] # call[c].addr
  BY DEF Known, Types, PairType, UInv, ClaimInv
<1>5. \A o \in Connects : Claiming(o)' => call[o].addr # call[c].addr
  BY <1>3 DEF UInv, ClaimInv
<1>6. Unnamed
  BY <1>1, <1>2 DEF Unnamed
<1>7. ClaimInv'
  BY <1>2, <1>3, <1>4, <1>5 DEF UInv, ClaimInv
<1>8. QED
  BY <1>6, <1>7

(* The steps of a drop.                                                    *)
LEMMA UDropMoves ==
    ASSUME Known, UInv, NEW d \in Droppers, SameCalls, OtherDrops(d), drop'[d].sid = drop[d].sid,
           Active(d), UNCHANGED <<byAddr, sessions, pairing>>,
           \/ /\ Path(d, "wait", "teardown")
              /\ drop[d].sid \in sessions /\ ~ClosingBusy(drop[d].sid)
           \/ Path(d, "teardown", "os") \/ Path(d, "teardown", "forget") \/ Path(d, "os", "forget")
    PROVE  DropInv' /\ MapInv'
<1>s. Settled /\ Unnamed
  BY DEF SameCalls, Settled, Unnamed
<1>1. drop[d].sid \in Connects /\ drop[d].sid \in sessions /\ call[drop[d].sid].pc = "live"
  BY GattAssumption DEF Active, Known, DropKnown, Types, DropType, Drops, UInv, DropInv, Path
<1>2. /\ drop'[d].pc \in {"teardown", "os", "forget"} /\ ~Removing(d) /\ d # R
      /\ drop[d].pc \in {"wait", "teardown", "os"}
  BY DEF Path, Removing, UInv, DropInv, Active
<1>3. MapInv'
  BY <1>2, <1>s, MapKept DEF OtherDrops
<1>4. ASSUME NEW e \in Droppers, Closing(e)', e # d, drop'[e].sid = drop'[d].sid PROVE FALSE
  <2>1. Closing(e) /\ drop[e].sid = drop[d].sid
    BY <1>4 DEF OtherDrops, Closing
  <2>2. ~ClosingBusy(drop[d].sid) \/ Closing(d)
    BY DEF Closing, Path
  <2>3. QED
    BY <1>4, <2>1, <2>2 DEF ClosingBusy, UInv, DropInv
<1>5. \A e, f \in Droppers :
         /\ Closing(e)' /\ Closing(f)' /\ drop'[e].sid = drop'[f].sid => e = f
         /\ Removing(e)' /\ Removing(f)' => e = f
  <2>1. ~Removing(d)'
    BY <1>2 DEF Removing
  <2>2. \A e \in Droppers : e # d => (Removing(e)' => Removing(e)) /\ (Closing(e)' => Closing(e))
    BY DEF OtherDrops, Removing, Closing
  <2>3. QED
    BY <1>4, <2>1, <2>2 DEF UInv, DropInv, OtherDrops
<1>6. ASSUME NEW e \in Droppers
      PROVE  /\ Active(e)' => call'[drop'[e].sid].pc = "live"
             /\ drop'[e].pc \in {"teardown", "os", "forget"} => drop'[e].sid \in sessions'
             /\ Removing(e)' => drop'[e].sid \notin sessions'
             /\ drop'[e].pc = "unmap" => byAddr'[call'[drop'[e].sid].addr] = drop'[e].sid
  <2>1. CASE e = d
    BY <1>1, <1>2, <2>1 DEF SameCalls, Removing
  <2>2. CASE e # d /\ Active(e)
    <3>1. drop[e].sid \in Connects /\ drop'[e] = drop[e]
      BY <2>2, GattAssumption DEF Known, DropKnown, Types, DropType, Drops, OtherDrops
    <3>2. QED
      BY <2>2, <3>1 DEF SameCalls, UInv, DropInv, Removing
  <2>3. CASE e # d /\ ~Active(e)
    BY <2>3 DEF OtherDrops, Active, Removing
  <2>4. QED
    BY <2>1, <2>2, <2>3
<1>7. ~Active(R)'
  BY <1>2, DropperFacts DEF OtherDrops, Active, UInv, DropInv
<1>8. QED
  BY <1>3, <1>5, <1>6, <1>7 DEF DropInv

LEMMA UForget ==
    ASSUME Known, UInv, NEW d \in Droppers, SameCalls, OtherDrops(d), drop'[d].sid = drop[d].sid,
           Path(d, "forget", "unmap"), UNCHANGED <<byAddr, pairing>>,
           sessions' = sessions \ {drop[d].sid}, ~SessionsBusy
    PROVE  DropInv' /\ MapInv'
<1> DEFINE s == drop[d].sid
<1>1. s \in Connects /\ s \in sessions /\ call[s].pc = "live" /\ d # R
  BY GattAssumption DEF Known, Types, MapType, UInv, DropInv, Path, Active
<1>2. byAddr[call[s].addr] = s /\ call[s].addr \in Addrs
  BY <1>1 DEF UInv, MapInv, Known, CallKnown
<1>3. \A e \in Droppers : ~Removing(e)
  BY DEF SessionsBusy
<1>4. \A e \in Droppers : e # d => drop'[e] = drop[e] /\ ~Removing(e)'
  BY <1>3 DEF OtherDrops, Removing
<1>5. ASSUME NEW e \in Droppers, e # d, Closing(e) PROVE drop[e].sid # s
  BY <1>5 DEF Closing, Path, UInv, DropInv
<1>6. ~Active(R)'
  BY <1>1, <1>4, DropperFacts DEF Active, UInv, DropInv
<1>7. ASSUME NEW e \in Droppers
      PROVE  /\ Active(e)' => call'[drop'[e].sid].pc = "live"
             /\ drop'[e].pc \in {"teardown", "os", "forget"} => drop'[e].sid \in sessions'
             /\ Removing(e)' => drop'[e].sid \notin sessions'
             /\ drop'[e].pc = "unmap" => byAddr'[call'[drop'[e].sid].addr] = drop'[e].sid
  <2>1. CASE e = d
    BY <1>1, <1>2, <2>1 DEF SameCalls, Path
  <2>2. CASE e # d /\ Active(e)
    <3>1. drop[e].sid \in Connects /\ drop'[e] = drop[e] /\ call[drop[e].sid].pc = "live"
      BY <2>2, GattAssumption DEF Known, DropKnown, Types, DropType, Drops, OtherDrops, UInv, DropInv
    <3>2. drop[e].pc \in {"teardown", "os", "forget"} => drop[e].sid \in sessions /\ drop[e].sid # s
      BY <2>2, <1>5 DEF Closing, UInv, DropInv
    <3>3. QED
      BY <1>4, <2>2, <3>1, <3>2 DEF SameCalls, Removing
  <2>3. CASE e # d /\ ~Active(e)
    BY <2>3 DEF OtherDrops, Active, Removing
  <2>4. QED
    BY <2>1, <2>2, <2>3
<1>8. \A e, f \in Droppers :
         /\ Closing(e)' /\ Closing(f)' /\ drop'[e].sid = drop'[f].sid => e = f
         /\ Removing(e)' /\ Removing(f)' => e = f
  BY <1>4, <1>5 DEF Closing, UInv, DropInv
<1>9. DropInv'
  BY <1>6, <1>7, <1>8 DEF DropInv
<1>10. MapInv'
  <2>1. \A c \in Connects : call'[c].pc = "name" => c \in sessions'
    BY <1>1 DEF SameCalls, UInv, MapInv
  <2>2. \A c \in sessions' : call'[c].pc = "live" => byAddr'[call'[c].addr] = c
    BY DEF SameCalls, UInv, MapInv, Known, Types, MapType
  <2>3. ASSUME NEW a \in Addrs, byAddr'[a] \in Connects
        PROVE  /\ call'[byAddr'[a]].pc = "live"
               /\ call'[byAddr'[a]].addr = a
               /\ \/ byAddr'[a] \in sessions'
                  \/ \E e \in Droppers : drop'[e].pc = "unmap" /\ drop'[e].sid = byAddr'[a]
    <3>1. byAddr[a] \in sessions
      BY <2>3, <1>3 DEF UInv, MapInv, Removing
    <3>2. drop'[d].pc = "unmap" /\ drop'[d].sid = s
      BY DEF Path
    <3>3. QED
      BY <2>3, <3>1, <3>2 DEF SameCalls, UInv, MapInv
  <2>4. QED
    BY <2>1, <2>2, <2>3 DEF MapInv
<1>11. QED
  BY <1>9, <1>10

LEMMA UUnmap ==
    ASSUME Known, UInv, NEW d \in Droppers, SameCalls, OtherDrops(d), drop'[d].sid = drop[d].sid,
           Path(d, "unmap", "unregister"), UNCHANGED <<sessions, pairing>>, Frees(drop[d].sid)
    PROVE  DropInv' /\ LookInv' /\ ClaimInv' /\ MapInv'
<1> DEFINE s == drop[d].sid
           x == call[s].addr
<1>1. s \in Connects /\ s \notin sessions /\ call[s].pc = "live" /\ d # R
  BY GattAssumption DEF Known, DropKnown, Types, DropType, Drops, UInv, DropInv, Path, Active, Removing
<1>2. byAddr[x] = s /\ x \in Addrs
  BY <1>1 DEF UInv, DropInv, Path, Known, CallKnown
<1>3. byAddr'[x] = "free" /\ \A a \in Addrs : a # x => byAddr'[a] = byAddr[a]
  BY <1>2 DEF Frees, Known, Types, MapType
<1>4. \A e \in Droppers : e # d => ~Removing(e) /\ drop'[e] = drop[e]
  BY DEF UInv, DropInv, OtherDrops, Removing, Path
<1>5. Removing(d) /\ Removing(d)' /\ Closing(d) /\ Closing(d)' /\ drop'[d].pc = "unregister"
  BY DEF Removing, Closing, Path
<1>6. DropInv'
  <2>1. ~Active(R)'
    BY <1>1, <1>4, DropperFacts DEF Active, UInv, DropInv
  <2>2. ASSUME NEW e \in Droppers
        PROVE  /\ Active(e)' => call'[drop'[e].sid].pc = "live"
               /\ drop'[e].pc \in {"teardown", "os", "forget"} => drop'[e].sid \in sessions'
               /\ Removing(e)' => drop'[e].sid \notin sessions'
               /\ drop'[e].pc = "unmap" => byAddr'[call'[drop'[e].sid].addr] = drop'[e].sid
    <3>1. CASE e = d
      BY <1>1, <1>5, <3>1 DEF SameCalls
    <3>2. CASE e # d /\ Active(e)
      <4>1. drop[e].sid \in Connects /\ call[drop[e].sid].pc = "live"
        BY <3>2, GattAssumption DEF Known, DropKnown, Types, DropType, Drops, UInv, DropInv
      <4>2. QED
        BY <1>4, <3>2, <4>1 DEF SameCalls, Removing, UInv, DropInv
    <3>3. CASE e # d /\ ~Active(e)
      BY <1>4, <3>3 DEF Active, Removing
    <3>4. QED
      BY <3>1, <3>2, <3>3
  <2>3. \A e, f \in Droppers :
           /\ Closing(e)' /\ Closing(f)' /\ drop'[e].sid = drop'[f].sid => e = f
           /\ Removing(e)' /\ Removing(f)' => e = f
    <3>1. \A e \in Droppers : (Closing(e)' => Closing(e)) /\ (Removing(e)' => Removing(e))
                              /\ drop'[e].sid = drop[e].sid
      BY <1>4, <1>5 DEF Closing, Removing
    <3>2. QED
      BY <3>1 DEF UInv, DropInv
  <2>4. QED
    BY <2>1, <2>2, <2>3 DEF DropInv
<1>7. LookInv'
  <2>1. ASSUME NEW c \in Connects, call[c].pc = "dangling" PROVE byAddr'[call[c].addr] # call[c].sid
    <3>1. call[c].addr \in Addrs /\ call[c].sid \in Connects
      BY <2>1 DEF Known, CallKnown, Types, CallType, Calls, UInv, LookInv
    <3>2. QED
      BY <1>3, <2>1, <3>1, GattAssumption DEF UInv, LookInv
  <2>2. \A c \in Connects : call[c].sid # None => call[c].sid \in Connects
    BY DEF Known, Types, CallType, Calls
  <2>3. QED
    BY <2>1, <2>2 DEF SameCalls, UInv, LookInv
<1>8. ClaimInv'
  <2>1. \A c \in Connects : Claiming(c) => call[c].addr \in Addrs /\ call[c].addr # x
    BY <1>1, <1>2, GattAssumption DEF Claiming, Known, CallKnown, UInv, ClaimInv
  <2>2. \A p \in Pairs : pairing[p] # None => pairing[p] \in Addrs /\ pairing[p] # x
    BY <1>1, <1>2, GattAssumption DEF Known, Types, PairType, UInv, ClaimInv
  <2>3. \A c \in Connects : (Claiming(c)' <=> Claiming(c)) /\ call'[c].addr = call[c].addr
    BY DEF Claiming, SameCalls
  <2>4. QED
    BY <1>3, <2>1, <2>2, <2>3 DEF UInv, ClaimInv
<1>9. MapInv'
  <2>1. \A c \in Connects : call'[c].pc = "name" => c \in sessions'
    BY DEF SameCalls, UInv, MapInv
  <2>2. ASSUME NEW c \in sessions', call'[c].pc = "live" PROVE byAddr'[call'[c].addr] = c
    <3>1. c \in Connects /\ c \in sessions /\ c # s /\ call[c].pc = "live"
      BY <1>1, <2>2 DEF SameCalls, Known, Types, MapType
    <3>2. byAddr[call[c].addr] = c /\ call[c].addr \in Addrs
      BY <3>1 DEF UInv, MapInv, Known, CallKnown
    <3>3. QED
      BY <1>2, <1>3, <3>1, <3>2 DEF SameCalls
  <2>3. ASSUME NEW a \in Addrs, byAddr'[a] \in Connects
        PROVE  /\ call'[byAddr'[a]].pc = "live"
               /\ call'[byAddr'[a]].addr = a
               /\ byAddr'[a] \in sessions'
    <3>1. a # x /\ byAddr'[a] = byAddr[a]
      BY <1>3, <2>3, GattAssumption
    <3>2. call[byAddr[a]].addr = a /\ byAddr[a] # s
      BY <2>3, <3>1 DEF UInv, MapInv
    <3>3. \A e \in Droppers : ~(drop[e].pc = "unmap" /\ drop[e].sid = byAddr[a])
      BY <1>4, <3>2 DEF Removing
    <3>4. QED
      BY <2>3, <3>1, <3>3 DEF SameCalls, UInv, MapInv
  <2>4. QED
    BY <2>1, <2>2, <2>3 DEF MapInv
<1>10. QED
  BY <1>6, <1>7, <1>8, <1>9

LEMMA UDrop ==
    ASSUME Known, UInv, NEW d \in Droppers, DropEffect(d)
    PROVE  UInv'
<1>q. Quiet'
  BY DEF DropEffect, UInv, Quiet
<1>1. CASE Path(d, "unmap", "unregister") /\ SameCalls /\ OtherDrops(d) /\ drop'[d].sid = drop[d].sid
           /\ UNCHANGED sessions /\ Frees(drop[d].sid)
  BY <1>q, <1>1, UUnmap DEF DropEffect, UInv
<1>2. CASE SameCalls /\ OtherDrops(d) /\ drop'[d].sid = drop[d].sid /\ UNCHANGED byAddr
           /\ ~Path(d, "unmap", "unregister") /\ drop'[d].pc # "none"
  <2>1. Settled /\ Unnamed
    BY <1>2 DEF SameCalls, Settled, Unnamed
  <2>2. ClaimInv'
    <3>1. \A o \in Connects : Claiming(o)' => Claiming(o) /\ call'[o].addr = call[o].addr
      BY <1>2 DEF SameCalls, Claiming
    <3>2. QED
      BY <1>2, <3>1, ClaimKept DEF DropEffect
  <2>3. LookInv'
    BY <1>2, <2>1, LookKept DEF SameCalls
  <2>4. ~Returns(d)
    BY <1>2, ReturnsFacts DEF Known, Types, NoDrop
  <2>5. CASE Path(d, "forget", "unmap")
    <3>1. sessions' = sessions \ {drop[d].sid} /\ ~SessionsBusy /\ UNCHANGED pairing
      BY <2>4, <2>5 DEF DropEffect, Path
    <3>2. QED
      BY <1>q, <1>2, <2>2, <2>3, <2>5, <3>1, UForget DEF UInv
  <2>6. CASE ~Path(d, "forget", "unmap")
    <3>1. /\ UNCHANGED <<sessions, pairing>>
          /\ \/ /\ Path(d, "wait", "teardown")
                /\ drop[d].sid \in sessions /\ ~ClosingBusy(drop[d].sid)
             \/ Path(d, "teardown", "os") \/ Path(d, "teardown", "forget") \/ Path(d, "os", "forget")
      BY <1>2, <2>4, <2>6 DEF DropEffect
    <3>2. Active(d)
      BY DEF DropEffect
    <3>3. QED
      BY <1>q, <1>2, <2>2, <2>3, <3>1, <3>2, UDropMoves DEF UInv
  <2>7. QED
    BY <2>5, <2>6
<1>3. CASE Returns(d) /\ UNCHANGED <<byAddr, sessions>> /\ drop[d].pc # "unmap"
  <2>1. /\ OtherDrops(d) /\ drop'[d] = NoDrop
        /\ d[1] # "reclaim" => call' = call
        /\ d[1] = "reclaim" => /\ Others(d[2]) /\ Kept(d[2])
                               /\ call'[d[2]].pc = "claim" /\ call'[d[2]].sid = call[d[2]].sid
    BY <1>3, ReturnsFacts DEF Known, Types
  <2>2. d[1] = "reclaim" => d[2] \in Connects /\ call[d[2]].pc = "reclaim" /\ call[d[2]].sid = None
    BY DropperFacts DEF DropEffect, Known, DropKnown, UInv, LookInv
  <2>3. Settled /\ Unnamed
    BY <1>3, <2>1, <2>2 DEF Settled, Unnamed, Others
  <2>4. LookInv'
    BY <2>1, <2>2, <2>3, LookKept DEF Others
  <2>5. ClaimInv'
    <3>1. \A o \in Connects : Claiming(o)' => Claiming(o) /\ call'[o].addr = call[o].addr
      BY <2>1, <2>2 DEF Claiming, Others
    <3>2. QED
      BY <1>3, <3>1, ClaimKept DEF DropEffect
  <2>6. DropInv'
    <3>1. \A e \in Droppers : StaysOrWaits(e)
      BY <2>1 DEF OtherDrops, NoDrop, StaysOrWaits
    <3>2. QED
      BY <1>3, <2>3, <3>1, DropKept
  <2>7. MapInv'
    BY <1>3, <2>1, <2>3, MapKept DEF OtherDrops
  <2>8. QED
    BY <1>q, <2>4, <2>5, <2>6, <2>7 DEF UInv
<1>4. QED
  BY <1>1, <1>2, <1>3 DEF DropEffect, Path

(* A connect that moves without touching the maps, or gives its            *)
(* reservation back.                                                       *)
Loosely(c) ==
    /\ Others(c) /\ UNCHANGED <<sessions, drop, pairing>> /\ UNCHANGED recovery
    /\ call[c].pc \notin {"name", "live"}
    /\ call'[c].pc \notin {"owner", "dangling", "undangle", "name", "live"} /\ call'[c].sid = None

LEMMA LooseStep ==
    ASSUME Known, UInv, NEW c \in Connects, Loosely(c), Unnamed, ClaimInv'
    PROVE  UInv'
<1>1. Settled
  BY DEF Loosely, Others, Settled
<1>2. LookInv'
  BY <1>1, LookKept DEF Loosely, Others
<1>3. DropInv' /\ MapInv'
  BY <1>1, DropKept, MapKept DEF Loosely, StaysOrWaits
<1>4. Quiet'
  BY DEF Loosely, UInv, Quiet, recovery
<1>5. QED
  BY <1>2, <1>3, <1>4 DEF UInv

LEMMA UMoves ==
    ASSUME Known, UInv, NEW c \in Connects, Loosely(c), UNCHANGED byAddr,
           Claiming(c)' => Claiming(c) /\ call'[c].addr = call[c].addr
    PROVE  UInv'
<1>1. ClaimInv'
  BY ClaimKept DEF Loosely, Others, Claiming
<1>2. QED
  BY <1>1, LooseStep DEF Unnamed

LEMMA UFrees ==
    ASSUME Known, UInv, NEW c \in Connects, Loosely(c), Claiming(c), ~Claiming(c)', Frees(c)
    PROVE  UInv'
BY ClaimFreed, LooseStep DEF Loosely, Frees

LEMMA ULook ==
    ASSUME Known, UInv, NEW c \in Connects, Look(c)
    PROVE  UInv'
<1> DEFINE s == byAddr[call[c].addr]
<1>1. /\ call[c].addr \in Addrs /\ s \in {"free", "pending"} \cup Connects
      /\ call[c].pc = "look" /\ call[c].sid = None
  BY DEF Look, Known, CallKnown, Types, MapType, UInv, LookInv
<1>2. CASE s \in {"free", "pending"}
  <2>1. /\ Others(c) /\ call'[c].pc = "claim" /\ call'[c].sid = None
    BY <1>1, <1>2 DEF Look, Known, Types, CallType, Calls, Others
  <2>2. QED
    BY <1>1, <2>1, UMoves DEF Look, Loosely, Claiming, maps, recovery
<1>3. CASE s \notin {"free", "pending"}
  <2>1. /\ Others(c) /\ call'[c].pc = "owner" /\ call'[c].sid = s /\ s \in Connects
    BY <1>1, <1>3 DEF Look, Known, Types, CallType, Calls, Others
  <2>2. Settled /\ Unnamed
    BY <1>1, <2>1 DEF Look, Settled, Unnamed, Others, maps
  <2>3. DropInv' /\ MapInv'
    BY <2>2, DropKept, MapKept DEF Look, StaysOrWaits, maps
  <2>4. ClaimInv'
    BY <2>1, ClaimKept DEF Look, Others, Claiming, maps
  <2>5. call[s].pc = "live" /\ s # c
    BY <1>1, <2>1 DEF UInv, MapInv
  <2>6. LookInv'
    <3>1. ASSUME NEW o \in Connects, o # c
          PROVE  /\ call'[o].sid # None <=> call'[o].pc \in {"owner", "dangling"}
                 /\ call'[o].sid # None => call'[call'[o].sid].pc = "live"
                 /\ call'[o].pc = "dangling" => byAddr'[call'[o].addr] # call'[o].sid
                 /\ call'[o].pc # "undangle"
      <4>1. call'[o] = call[o] /\ (call[o].sid # None => call[o].sid \in Connects)
        BY <2>1, <3>1 DEF Others, Known, Types, CallType, Calls
      <4>2. byAddr' = byAddr
        BY DEF Look, maps
      <4>3. QED
        BY <2>2, <4>1, <4>2 DEF UInv, LookInv, Settled
    <3>2. call'[c].sid # None /\ call'[s].pc = "live"
      BY <2>1, <2>5, GattAssumption DEF Others
    <3>3. QED
      BY <2>1, <3>1, <3>2 DEF LookInv
  <2>7. QED
    BY <2>3, <2>4, <2>6 DEF Look, UInv, Quiet, recovery
<1>4. QED
  BY <1>2, <1>3

LEMMA UOwner ==
    ASSUME Known, UInv, NEW c \in Connects, Owner(c)
    PROVE  UInv'
<1> DEFINE s == call[c].sid
<1>1. /\ call[c].pc = "owner" /\ ~SessionsBusy /\ s \in Connects /\ call[s].pc = "live" /\ s # c
      /\ UNCHANGED <<byAddr, sessions, pairing>> /\ UNCHANGED recovery
  BY DEF Owner, Known, Types, CallType, Calls, UInv, LookInv, maps
<1>2. CASE Goes(c, "claim") /\ UNCHANGED drop
  <2>1. Loosely(c) /\ ~Claiming(c)'
    BY <1>1, <1>2, GoesFacts DEF Loosely, Known, Types, CallPCs, Claiming
  <2>2. QED
    BY <1>1, <2>1, UMoves
<1>3. CASE Goes(c, "reclaim") /\ StartDrop(Reclaim(c), s) /\ s \in sessions
  <2>1. Others(c) /\ Kept(c) /\ call'[c].pc = "reclaim" /\ call'[c].sid = None
    BY <1>3, GoesFacts DEF Known, Types, CallPCs
  <2>2. OtherDrops(Reclaim(c)) /\ drop'[Reclaim(c)] = [pc |-> "wait", sid |-> s]
    BY <1>1, <1>3, StartFacts, DropperFacts DEF Known, Types
  <2>3. Settled /\ Unnamed
    BY <1>1, <2>1 DEF Settled, Unnamed, Others
  <2>4. \A e \in Droppers : StaysOrWaits(e)
    BY <1>1, <1>3, <2>2, DropperFacts DEF OtherDrops, StaysOrWaits
  <2>5. DropInv'
    BY <1>1, <2>3, <2>4, DropKept
  <2>6. MapInv'
    BY <1>1, <2>2, <2>3, MapKept DEF OtherDrops, SessionsBusy, Removing
  <2>7. LookInv'
    BY <2>1, <2>3, LookKept DEF Others
  <2>8. ClaimInv'
    BY <1>1, <2>1, ClaimKept DEF Others, Claiming
  <2>9. QED
    BY <1>1, <2>5, <2>6, <2>7, <2>8 DEF UInv, Quiet, recovery
<1>4. CASE s \notin sessions /\ call' = [call EXCEPT ![c].pc = "dangling"] /\ UNCHANGED drop
  <2>1. Others(c) /\ call'[c].pc = "dangling" /\ call'[c].sid = s /\ call'[c].addr = call[c].addr
    BY <1>4 DEF Known, Types, CallType, Calls, Others
  <2>2. Settled /\ Unnamed
    BY <1>1, <2>1 DEF Settled, Unnamed, Others
  <2>3. DropInv' /\ MapInv'
    BY <1>1, <1>4, <2>2, DropKept, MapKept DEF StaysOrWaits
  <2>4. ClaimInv'
    BY <1>1, <2>1, ClaimKept DEF Others, Claiming
  <2>5. byAddr[call[c].addr] # s
    <3>1. call[c].addr \in Addrs
      BY <1>1 DEF Known, CallKnown
    <3>2. QED
      BY <1>1, <1>4, <3>1 DEF UInv, MapInv, SessionsBusy, Removing
  <2>6. LookInv'
    <3>1. ASSUME NEW o \in Connects, o # c
          PROVE  /\ call'[o].sid # None <=> call'[o].pc \in {"owner", "dangling"}
                 /\ call'[o].sid # None => call'[call'[o].sid].pc = "live"
                 /\ call'[o].pc = "dangling" => byAddr'[call'[o].addr] # call'[o].sid
                 /\ call'[o].pc # "undangle"
      <4>1. call'[o] = call[o] /\ (call[o].sid # None => call[o].sid \in Connects)
        BY <2>1, <3>1 DEF Others, Known, Types, CallType, Calls
      <4>2. QED
        BY <1>1, <2>2, <4>1 DEF UInv, LookInv, Settled
    <3>2. call'[c].sid # None /\ call'[s].pc = "live"
      BY <1>1, <2>1, GattAssumption DEF Others
    <3>3. QED
      BY <1>1, <2>1, <2>5, <3>1, <3>2 DEF LookInv
  <2>7. QED
    BY <1>1, <2>3, <2>4, <2>6 DEF UInv, Quiet, recovery
<1>5. QED
  BY <1>2, <1>3, <1>4 DEF Owner, Reclaim

LEMMA UClaim ==
    ASSUME Known, UInv, NEW c \in Connects, Claim(c)
    PROVE  UInv'
<1> DEFINE a == call[c].addr
<1>1. a \in Addrs /\ call[c].pc = "claim" /\ ~Claiming(c)
  BY DEF Claim, Known, CallKnown, Claiming
<1>2. CASE byAddr[a] # "free"
  <2>1. Refused(c) /\ UNCHANGED byAddr
    BY <1>2 DEF Claim
  <2>2. Loosely(c) /\ ~Claiming(c)'
    BY <1>1, <2>1, RefusedFacts DEF Claim, Loosely, Claiming, NoCall, Known, Types, recovery
  <2>3. QED
    BY <2>1, <2>2, UMoves
<1>3. CASE byAddr[a] = "free"
  <2>1. byAddr' = [byAddr EXCEPT ![a] = "pending"] /\ Goes(c, "register")
    BY <1>3 DEF Claim
  <2>2. /\ Others(c) /\ call'[c].pc = "register" /\ call'[c].addr = a /\ call'[c].sid = None
    BY <2>1, GoesFacts DEF Known, Types, CallPCs, Kept
  <2>3. byAddr'[a] = "pending" /\ \A x \in Addrs : x # a => byAddr'[x] = byAddr[x]
    BY <1>1, <2>1 DEF Known, Types, MapType
  <2>4. \A o \in Connects : Claiming(o) => call[o].addr \in Addrs /\ call[o].addr # a
    BY <1>3 DEF Claiming, Known, CallKnown, UInv, ClaimInv
  <2>5. \A p \in Pairs : pairing[p] # None => pairing[p] \in Addrs /\ pairing[p] # a
    BY <1>3 DEF Known, Types, PairType, UInv, ClaimInv
  <2>6. \A o \in Connects : o # c => (Claiming(o)' <=> Claiming(o)) /\ call'[o] = call[o]
    BY <2>2 DEF Others, Claiming
  <2>7. a # None
    BY <1>1, GattAssumption
  <2>8. ClaimInv'
    BY <1>1, <2>2, <2>3, <2>4, <2>5, <2>6, <2>7 DEF Claim, UInv, ClaimInv
  <2>9. Unnamed
    BY <1>3, <2>3 DEF Unnamed
  <2>10. Loosely(c)
    BY <1>1, <2>2 DEF Claim, Loosely, recovery
  <2>11. QED
    BY <2>8, <2>9, <2>10, LooseStep
<1>4. QED
  BY <1>2, <1>3

LEMMA UInsert ==
    ASSUME Known, UInv, NEW c \in Connects, Insert(c)
    PROVE  UInv'
<1>1. /\ Others(c) /\ Kept(c) /\ call'[c].pc = "name" /\ call'[c].sid = None
      /\ call[c].pc = "insert" /\ call[c].sid = None /\ c \notin sessions
  BY GoesFacts DEF Insert, Known, Types, CallPCs, SessionKnown, UInv, LookInv
<1>2. /\ UNCHANGED <<byAddr, drop, pairing>> /\ UNCHANGED recovery
      /\ sessions' = sessions \cup {c} /\ \A e \in Droppers : ~Removing(e)
  BY DEF Insert, SessionsBusy
<1>3. ASSUME NEW o \in Connects, call[o].pc = "live" PROVE o # c /\ call'[o] = call[o]
  BY <1>1, <1>3 DEF Others
<1>4. DropInv'
  <2>1. ASSUME NEW e \in Droppers, Active(e)
        PROVE  drop[e].sid \in Connects /\ call[drop[e].sid].pc = "live"
    BY <2>1 DEF Known, DropKnown, Types, DropType, Drops, UInv, DropInv
  <2>2. ~Active(R)'
    BY <1>2 DEF UInv, DropInv, Active
  <2>3. \A e \in Droppers :
           /\ Active(e)' => call'[drop'[e].sid].pc = "live"
           /\ drop'[e].pc \in {"teardown", "os", "forget"} => drop'[e].sid \in sessions'
           /\ ~Removing(e)' /\ drop'[e].pc # "unmap"
    BY <1>2, <1>3, <2>1 DEF Active, Removing, UInv, DropInv
  <2>4. \A d, e \in Droppers : Closing(d)' /\ Closing(e)' /\ drop'[d].sid = drop'[e].sid => d = e
    BY <1>2 DEF Closing, UInv, DropInv
  <2>5. QED
    BY <2>2, <2>3, <2>4 DEF DropInv
<1>5. LookInv'
  <2>1. \A o \in Connects : call[o].sid # None => call[o].sid \in Connects
    BY DEF Known, Types, CallType, Calls
  <2>2. QED
    BY <1>1, <1>2, <1>3, <2>1 DEF Others, UInv, LookInv
<1>6. ClaimInv'
  <2>1. \A o \in Connects : Claiming(o)' => Claiming(o) /\ call'[o].addr = call[o].addr
    BY <1>1 DEF Others, Claiming, Kept
  <2>2. QED
    BY <1>2, <2>1, ClaimKept
<1>7. MapInv'
  <2>1. \A o \in sessions' : call'[o].pc = "live" => byAddr'[call'[o].addr] = o
    <3>1. ASSUME NEW o \in sessions', call'[o].pc = "live"
          PROVE  o \in sessions /\ call'[o] = call[o]
      BY <1>1, <1>2, <3>1 DEF Others, Known, Types, MapType
    <3>2. QED
      BY <1>2, <3>1 DEF UInv, MapInv
  <2>2. \A o \in Connects : call'[o].pc = "name" => o \in sessions'
    BY <1>1, <1>2 DEF Others, UInv, MapInv
  <2>3. ASSUME NEW a \in Addrs, byAddr'[a] \in Connects
        PROVE  /\ call'[byAddr'[a]].pc = "live"
               /\ call'[byAddr'[a]].addr = a
               /\ byAddr'[a] \in sessions'
    BY <1>2, <1>3, <2>3 DEF UInv, MapInv, Removing
  <2>4. QED
    BY <2>1, <2>2, <2>3 DEF MapInv
<1>8. QED
  BY <1>2, <1>4, <1>5, <1>6, <1>7 DEF UInv, Quiet, recovery

LEMMA UName ==
    ASSUME Known, UInv, NEW c \in Connects, Name(c)
    PROVE  UInv'
<1> DEFINE a == call[c].addr
<1> USE GattAssumption
<1>1. /\ Others(c) /\ Kept(c) /\ call'[c].pc = "live" /\ call'[c].sid = None
      /\ call[c].pc = "name" /\ call[c].sid = None /\ c \in sessions /\ a \in Addrs
      /\ byAddr[a] = "pending"
  BY GoesFacts DEF Name, Known, Types, CallPCs, CallKnown, UInv, LookInv, MapInv, ClaimInv, Claiming
<1>2. /\ UNCHANGED <<sessions, drop, pairing>> /\ UNCHANGED recovery
      /\ byAddr'[a] = c /\ \A x \in Addrs : x # a => byAddr'[x] = byAddr[x]
  BY <1>1 DEF Name, Known, Types, MapType
<1>3. ASSUME NEW o \in Connects, call[o].pc = "live" PROVE o # c /\ call'[o] = call[o]
  BY <1>1, <1>3 DEF Others
<1>4. DropInv'
  <2>1. ASSUME NEW e \in Droppers, Active(e)
        PROVE  drop[e].sid \in Connects /\ call'[drop[e].sid] = call[drop[e].sid]
               /\ call[drop[e].sid].pc = "live" /\ call[drop[e].sid].addr \in Addrs
    BY <1>3, <2>1 DEF Known, DropKnown, Types, DropType, Drops, UInv, DropInv, CallKnown
  <2>2. ~Active(R)'
    BY <1>2 DEF UInv, DropInv, Active
  <2>3. ASSUME NEW e \in Droppers
        PROVE  /\ Active(e)' => call'[drop'[e].sid].pc = "live"
               /\ drop'[e].pc \in {"teardown", "os", "forget"} => drop'[e].sid \in sessions'
               /\ Removing(e)' => drop'[e].sid \notin sessions'
               /\ drop'[e].pc = "unmap" => byAddr'[call'[drop'[e].sid].addr] = drop'[e].sid
    BY <1>1, <1>2, <2>1 DEF Active, Removing, UInv, DropInv
  <2>4. \A d, e \in Droppers : /\ Closing(d)' /\ Closing(e)' /\ drop'[d].sid = drop'[e].sid => d = e
                               /\ Removing(d)' /\ Removing(e)' => d = e
    BY <1>2 DEF Closing, Removing, UInv, DropInv
  <2>5. QED
    BY <2>2, <2>3, <2>4 DEF DropInv
<1>5. LookInv'
  <2>1. \A o \in Connects : call[o].sid # None =>
           call[o].sid \in Connects /\ call[o].sid # c /\ call[call[o].sid].pc = "live"
    BY <1>1 DEF Known, Types, CallType, Calls, UInv, LookInv
  <2>2. ASSUME NEW o \in Connects, o # c, call[o].pc = "dangling" PROVE byAddr'[call[o].addr] # call[o].sid
    BY <1>2, <2>1, <2>2 DEF UInv, LookInv, Known, CallKnown
  <2>3. QED
    BY <1>1, <1>3, <2>1, <2>2 DEF Others, UInv, LookInv
<1>6. ClaimInv'
  <2>1. \A o \in Connects : Claiming(o)' => o # c /\ Claiming(o) /\ call'[o] = call[o]
    BY <1>1 DEF Others, Claiming
  <2>2. Claiming(c)
    BY <1>1 DEF Claiming
  <2>3. \A o \in Connects : Claiming(o)' => call[o].addr # a /\ call[o].addr \in Addrs
    BY <2>1, <2>2 DEF UInv, ClaimInv, Known, CallKnown, Claiming
  <2>4. \A p \in Pairs : pairing[p] # None => pairing[p] # a /\ pairing[p] \in Addrs
    BY <2>2 DEF UInv, ClaimInv, Known, Types, PairType
  <2>5. QED
    BY <1>2, <2>1, <2>3, <2>4 DEF UInv, ClaimInv
<1>7. MapInv'
  <2>1. ASSUME NEW o \in sessions', call'[o].pc = "live" PROVE byAddr'[call'[o].addr] = o
    <3>1. CASE o = c
      BY <1>1, <1>2, <3>1 DEF Kept
    <3>2. CASE o # c
      <4>1. o \in Connects /\ o \in sessions /\ call'[o] = call[o]
        BY <1>1, <1>2, <3>2 DEF Others, Known, Types, MapType
      <4>2. byAddr[call[o].addr] = o /\ call[o].addr \in Addrs
        BY <2>1, <4>1 DEF UInv, MapInv, Known, CallKnown
      <4>3. QED
        BY <1>1, <1>2, <4>1, <4>2
    <3>3. QED
      BY <3>1, <3>2
  <2>2. \A o \in Connects : call'[o].pc = "name" => o \in sessions'
    BY <1>1, <1>2 DEF Others, UInv, MapInv
  <2>3. ASSUME NEW x \in Addrs, byAddr'[x] \in Connects
        PROVE  /\ call'[byAddr'[x]].pc = "live"
               /\ call'[byAddr'[x]].addr = x
               /\ \/ byAddr'[x] \in sessions'
                  \/ \E d \in Droppers : drop'[d].pc = "unmap" /\ drop'[d].sid = byAddr'[x]
    <3>1. CASE x = a
      BY <1>1, <1>2, <3>1 DEF Kept
    <3>2. CASE x # a
      BY <1>2, <1>3, <2>3, <3>2 DEF UInv, MapInv
    <3>3. QED
      BY <3>1, <3>2
  <2>4. QED
    BY <2>1, <2>2, <2>3 DEF MapInv
<1>8. QED
  BY <1>2, <1>4, <1>5, <1>6, <1>7 DEF UInv, Quiet, recovery

LEMMA UConnect ==
    ASSUME Known, UInv, NEW c \in Connects, ConnectStep(c)
    PROVE  UInv'
<1>t. CallType
  BY DEF Known, Types
<1>1. CASE Dangling(c)
  <2>1. UNCHANGED byAddr /\ Goes(c, "claim") /\ call[c].pc = "dangling"
    BY <1>1 DEF Dangling, UInv, LookInv
  <2>2. Loosely(c) /\ ~Claiming(c)'
    BY <1>t, <1>1, <2>1, GoesFacts DEF Dangling, Loosely, Claiming, CallPCs, recovery
  <2>3. QED
    BY <2>1, <2>2, UMoves
<1>2. CASE Undangle(c)
  BY <1>2 DEF Undangle, UInv, LookInv
<1>3. CASE Register(c)
  <2>1. CASE owner[call[c].addr] \in {None, call[c].prof}
    <3>1. UNCHANGED byAddr /\ Goes(c, "backend")
      BY <1>3, <2>1 DEF Register
    <3>2. Loosely(c) /\ Claiming(c) /\ call'[c].addr = call[c].addr
      BY <1>t, <1>3, <3>1, GoesFacts DEF Register, Loosely, Claiming, CallPCs, Kept, recovery
    <3>3. QED
      BY <3>1, <3>2, UMoves
  <2>2. CASE owner[call[c].addr] \notin {None, call[c].prof}
    <3>1. Frees(c) /\ Refused(c)
      BY <1>3, <2>2 DEF Register, Frees
    <3>2. Loosely(c) /\ Claiming(c) /\ ~Claiming(c)'
      BY <1>t, <1>3, <3>1, RefusedFacts DEF Register, Loosely, Claiming, NoCall, recovery
    <3>3. QED
      BY <3>1, <3>2, UFrees
  <2>3. QED
    BY <2>1, <2>2
<1>4. CASE BackendRefuses(c) \/ ConnectFails(c)
  <2>1. Frees(c) /\ Refused(c)
    BY <1>4 DEF BackendRefuses, ConnectFails, Fails, Frees
  <2>2. Loosely(c) /\ Claiming(c) /\ ~Claiming(c)'
    BY <1>t, <1>4, <2>1, RefusedFacts DEF BackendRefuses, ConnectFails, Loosely, Claiming, NoCall, recovery
  <2>3. QED
    BY <2>1, <2>2, UFrees
<1>5. CASE ConnectOverruns(c)
  <2>1. Frees(c) /\ Goes(c, "idle")
    BY <1>5 DEF ConnectOverruns, Fails, Frees
  <2>2. Loosely(c) /\ Claiming(c) /\ ~Claiming(c)'
    BY <1>t, <1>5, <2>1, GoesFacts DEF ConnectOverruns, Loosely, Claiming, CallPCs, recovery
  <2>3. QED
    BY <2>1, <2>2, UFrees
<1>6. CASE BackendBegins(c)
  <2>1. Loosely(c) /\ Claiming(c) /\ call'[c].addr = call[c].addr
    BY <1>t, <1>6, GoesFacts DEF BackendBegins, Loosely, Claiming, CallPCs, Kept, maps, recovery
  <2>2. QED
    BY <1>6, <2>1, UMoves DEF BackendBegins, maps
<1>7. CASE Opened(c)
  <2>1. call' = [call EXCEPT ![c] = [call[c] EXCEPT !.pc = "insert", !.slow = FALSE, !.old = FALSE]]
    BY <1>t, <1>7 DEF Opened, CallType
  <2>2. call[c].sid = None /\ call[c].pc = "connecting"
    BY <1>7 DEF Opened, UInv, LookInv
  <2>3. Others(c) /\ call'[c].pc = "insert" /\ call'[c].sid = None /\ call'[c].addr = call[c].addr
    BY <1>t, <2>1, <2>2 DEF CallType, Calls, Others
  <2>4. Loosely(c) /\ Claiming(c)
    BY <1>7, <2>2, <2>3 DEF Opened, Loosely, Claiming, maps, recovery
  <2>5. QED
    BY <1>7, <2>3, <2>4, UMoves DEF Opened, maps
<1>8. QED
  BY <1>1, <1>2, <1>3, <1>4, <1>5, <1>6, <1>7, ULook, UOwner, UClaim, UInsert, UName DEF ConnectStep

LEMMA UOutside ==
    ASSUME Known, UInv, NEW c \in Connects, Outside(c)
    PROVE  UInv'
<1>1. OutsideEffect(c)
  BY OutsideMoves DEF Known
<1>2. CASE /\ Others(c) /\ Kept(c) /\ call[c].pc = "connecting" /\ call'[c].pc = "aborted"
           /\ call'[c].sid = None /\ drop' = drop
  BY <1>1, <1>2, UMoves DEF OutsideEffect, Loosely, Claiming, recovery
<1>3. CASE call' = call
  <2>1. Settled /\ Unnamed
    BY <1>1, <1>3 DEF OutsideEffect, Settled, Unnamed
  <2>2. LookInv' /\ ClaimInv'
    BY <1>1, <1>3, <2>1, LookKept, ClaimKept DEF OutsideEffect, Claiming
  <2>3. DropInv' /\ MapInv'
    <3>1. CASE drop' = drop
      BY <1>1, <2>1, <3>1, DropKept, MapKept DEF OutsideEffect, StaysOrWaits
    <3>2. CASE StartDrop(PumpOf(c), c) /\ c \in sessions /\ call[c].pc = "live" /\ ~SessionsBusy
      <4>1. OtherDrops(PumpOf(c)) /\ drop'[PumpOf(c)] = [pc |-> "wait", sid |-> c]
        BY <3>2, StartFacts, DropperFacts DEF Known, Types
      <4>2. \A e \in Droppers : StaysOrWaits(e)
        BY <3>2, <4>1, DropperFacts DEF OtherDrops, StaysOrWaits
      <4>3. \A e \in Droppers : drop[e].pc # "unmap"
        BY <3>2 DEF SessionsBusy, Removing
      <4>4. QED
        BY <1>1, <2>1, <4>2, <4>3, DropKept, MapKept DEF OutsideEffect
    <3>3. QED
      BY <1>1, <1>2, <1>3, <3>1, <3>2 DEF OutsideEffect
  <2>4. QED
    BY <1>1, <2>2, <2>3 DEF OutsideEffect, UInv, Quiet
<1>4. QED
  BY <1>1, <1>2, <1>3 DEF OutsideEffect

(* A request takes an unused name.                                         *)
LEMMA UPost ==
    ASSUME Known, UInv, NEW c \in Connects, NEW a, PostEffect(c, a)
    PROVE  UInv'
<1>1. /\ Others(c) /\ call'[c].pc = "look" /\ call'[c].sid = None
      /\ UNCHANGED <<byAddr, sessions, drop, pairing>> /\ UNCHANGED recovery
  BY DEF PostEffect, maps
<1>2. /\ c \notin sessions /\ call[c].pc \in {"idle", "live"}
      /\ \A x \in Addrs : byAddr[x] # c
      /\ \A d \in Droppers : drop[d].sid # c
      /\ \A o \in Connects : call[o].sid # c
  BY DEF PostEffect, Unused
<1>3. DropInv'
  <2>1. ASSUME NEW e \in Droppers, Active(e) PROVE call'[drop[e].sid] = call[drop[e].sid]
    BY <1>1, <1>2, <2>1, GattAssumption DEF Known, DropKnown, Types, DropType, Drops, Others
  <2>2. \A e \in Droppers : ~Active(e) => drop[e].pc \notin {"teardown", "os", "forget", "unmap"} /\ ~Removing(e)
    BY DEF Active, Removing
  <2>3. QED
    BY <1>1, <2>1, <2>2 DEF UInv, DropInv, Active, Removing, Closing
<1>4. LookInv'
  <2>1. \A o \in Connects : call[o].sid # None => call[o].sid \in Connects /\ call[o].sid # c
    BY <1>2 DEF Known, Types, CallType, Calls
  <2>2. QED
    BY <1>1, <2>1 DEF Others, UInv, LookInv
<1>5. ClaimInv'
  <2>1. \A o \in Connects : Claiming(o)' => Claiming(o) /\ call'[o].addr = call[o].addr
    BY <1>1 DEF Others, Claiming
  <2>2. QED
    BY <1>1, <2>1, ClaimKept
<1>6. MapInv'
  <2>1. \A o \in Connects : o # c => call'[o] = call[o]
    BY <1>1 DEF Others
  <2>2. \A o \in sessions : o \in Connects /\ o # c
    BY <1>2 DEF Known, Types, MapType
  <2>3. QED
    BY <1>1, <1>2, <2>1, <2>2 DEF UInv, MapInv
<1>7. QED
  BY <1>1, <1>3, <1>4, <1>5, <1>6 DEF UInv, Quiet, recovery

(* Pairing reserves an address as a connect does.                          *)
LEMMA UPair ==
    ASSUME Known, UInv, NEW p \in Pairs, (\E a \in Addrs : Pair(p, a)) \/ PairEnds(p)
    PROVE  UInv'
<1> USE GattAssumption
<1>0. Settled /\ UNCHANGED <<sessions, call, drop>> /\ UNCHANGED recovery
  BY DEF Pair, PairEnds, Settled
<1>1. ASSUME Unnamed, ClaimInv' PROVE UInv'
  <2>1. DropInv' /\ MapInv' /\ LookInv'
    BY <1>0, <1>1, DropKept, MapKept, LookKept DEF StaysOrWaits
  <2>2. QED
    BY <1>0, <1>1, <2>1 DEF UInv, Quiet, recovery
<1>2. \A o \in Connects : /\ Claiming(o)' <=> Claiming(o)
                          /\ call'[o] = call[o]
                          /\ Claiming(o) => call[o].addr \in Addrs
  BY <1>0 DEF Claiming, Known, CallKnown
<1>3. ASSUME NEW a \in Addrs, Pair(p, a) PROVE UInv'
  <2>1. /\ byAddr'[a] = "pending" /\ byAddr[a] = "free"
        /\ \A x \in Addrs : x # a => byAddr'[x] = byAddr[x]
    BY <1>3 DEF Pair, Known, Types, MapType
  <2>2. /\ pairing'[p] = a /\ \A q \in Pairs : q # p => pairing'[q] = pairing[q]
    BY <1>3 DEF Pair, Known, Types, PairType
  <2>3. \A o \in Connects : Claiming(o) => call[o].addr # a
    BY <2>1 DEF UInv, ClaimInv
  <2>4. \A q \in Pairs : pairing[q] # None => pairing[q] # a /\ pairing[q] \in Addrs
    BY <2>1 DEF UInv, ClaimInv, Known, Types, PairType
  <2>5. ClaimInv'
    BY <1>2, <2>1, <2>2, <2>3, <2>4 DEF UInv, ClaimInv
  <2>6. QED
    BY <1>1, <2>1, <2>5 DEF Unnamed
<1>4. CASE PairEnds(p)
  <2> DEFINE a == pairing[p]
  <2>1. a \in Addrs /\ byAddr[a] = "pending"
    BY <1>4 DEF PairEnds, Known, Types, PairType, UInv, ClaimInv
  <2>2. byAddr'[a] = "free" /\ \A x \in Addrs : x # a => byAddr'[x] = byAddr[x]
    BY <1>4, <2>1 DEF PairEnds, Known, Types, MapType
  <2>3. pairing'[p] = None /\ \A q \in Pairs : q # p => pairing'[q] = pairing[q]
    BY <1>4 DEF PairEnds, Known, Types, PairType
  <2>4. \A o \in Connects : Claiming(o) => call[o].addr # a
    BY DEF UInv, ClaimInv
  <2>5. \A q \in Pairs : q # p /\ pairing[q] # None => pairing[q] # a /\ pairing[q] \in Addrs
    BY <2>1 DEF UInv, ClaimInv, Known, Types, PairType
  <2>6. ClaimInv'
    BY <1>2, <2>1, <2>2, <2>3, <2>4, <2>5 DEF UInv, ClaimInv
  <2>7. QED
    BY <1>1, <2>1, <2>2, <2>6 DEF Unnamed
<1>5. QED
  BY <1>3, <1>4

LEMMA URequest ==
    ASSUME Known, UInv,
           \/ \E a \in Addrs : LinkLost(a)
           \/ \E d \in Deletes, s \in Connects : Delete(d, s)
    PROVE  UInv'
<1>1. /\ UNCHANGED <<byAddr, pairing, call>> /\ RequestEffect
  BY RequestMoves DEF LinkLost, Delete, maps, Known
<1>2. Settled /\ Unnamed /\ UNCHANGED sessions
  BY <1>1 DEF Settled, Unnamed, RequestEffect
<1>3. LookInv' /\ ClaimInv'
  BY <1>1, <1>2, LookKept, ClaimKept DEF Claiming
<1>4. DropInv' /\ MapInv'
  <2>1. CASE drop' = drop
    BY <1>2, <2>1, DropKept, MapKept DEF StaysOrWaits
  <2>2. ASSUME NEW d \in Deletes, NEW s \in sessions, StartDrop(DeleteOf(d), s), call[s].pc = "live",
               ~SessionsBusy
        PROVE  DropInv' /\ MapInv'
    <3>1. OtherDrops(DeleteOf(d)) /\ drop'[DeleteOf(d)] = [pc |-> "wait", sid |-> s]
      BY <2>2, StartFacts, DropperFacts DEF Known, Types, MapType
    <3>2. \A e \in Droppers : StaysOrWaits(e)
      BY <2>2, <3>1, DropperFacts DEF OtherDrops, StaysOrWaits
    <3>3. \A e \in Droppers : drop[e].pc # "unmap"
      BY <2>2 DEF SessionsBusy, Removing
    <3>4. QED
      BY <1>2, <3>2, <3>3, DropKept, MapKept
  <2>3. QED
    BY <1>1, <2>1, <2>2 DEF RequestEffect
<1>5. QED
  BY <1>1, <1>3, <1>4 DEF RequestEffect, UInv, Quiet, recovery

(* Without bond recovery there is no release.                              *)
LEMMA NoCentral ==
    ASSUME UInv, ~Recovers PROVE ~Central
BY DEF Central, WantCentral, ReleaseBegins, ReleaseNext, Hold, Dispose, Unwant, ClearHold,
       UInv, Quiet, NoRelease

LEMMA UInit == Init => UInv
<1> SUFFICES ASSUME Init PROVE UInv
  OBVIOUS
<1>1. DropInv
  BY DropperFacts DEF Init, DropInv, NoDrop, Active, Closing, Removing
<1>2. LookInv /\ ClaimInv
  BY DEF Init, LookInv, ClaimInv, NoCall, Claiming
<1>3. MapInv /\ Quiet
  BY GattAssumption DEF Init, MapInv, Quiet, NoCall
<1>4. QED
  BY <1>1, <1>2, <1>3 DEF UInv

LEMMA UStep ==
    ASSUME ~Recovers, Known, UInv, [Next]_vars
    PROVE  UInv'
<1>1. CASE UNCHANGED vars
  BY <1>1 DEF vars, UInv, Quiet, DropInv, LookInv, ClaimInv, MapInv, Active, Closing, Removing, Claiming
<1>2. ASSUME NEW c \in Connects, NEW a \in Addrs, NEW p \in Profiles, Post(c, a, p) PROVE UInv'
  BY <1>2, PostMoves, UPost DEF Known
<1>3. ASSUME NEW d \in Droppers, TakeClosing(d) \/ DropStep(d) \/ AbandonDelete(d) PROVE UInv'
  BY <1>3, DropMoves, UDrop DEF Known
<1>4. QED
  BY <1>1, <1>2, <1>3, UConnect, UOutside, UPair, URequest, NoCentral DEF Next, Outside, Central

(* One user is what the claims and the maps come to.                       *)
LEMMA UsersAreOne ==
    ASSUME Known, UInv PROVE OneUser
<1> SUFFICES ASSUME NEW a \in Addrs PROVE Cardinality(Users(a)) <= 1
  BY DEF OneUser
<1> USE GattAssumption
<1>1. \A c \in sessions : c \in Connects /\ (call[c].pc = "live" \/ Claiming(c))
  BY DEF Known, SessionKnown, Types, MapType, Claiming
<1>2. ASSUME NEW c \in Connects, NEW o \in Connects, c # o, call[c].addr = a, call[o].addr = a,
             c \in sessions \/ Claiming(c), o \in sessions \/ Claiming(o)
      PROVE  FALSE
  BY <1>1, <1>2 DEF UInv, ClaimInv, MapInv
<1>3. ASSUME NEW c \in Connects, NEW p \in Pairs, call[c].addr = a, pairing[p] = a,
             c \in sessions \/ Claiming(c)
      PROVE  FALSE
  BY <1>1, <1>3 DEF UInv, ClaimInv, MapInv
<1>4. ASSUME NEW p \in Pairs, NEW q \in Pairs, p # q, pairing[p] = a, pairing[q] = a PROVE FALSE
  BY <1>4 DEF UInv, ClaimInv
<1>5. Users(a) = {} \/ \E u : Users(a) = {u}
  <2>1. CASE \E c \in Connects : call[c].addr = a /\ c \in sessions
    <3>1. PICK c \in Connects : call[c].addr = a /\ c \in sessions
      BY <2>1
    <3>2. Users(a) = {<<"session", c>>}
      BY <1>1, <1>2, <1>3, <3>1 DEF Users
    <3>3. QED
      BY <3>2
  <2>2. CASE \E c \in Connects : call[c].addr = a /\ Claiming(c) /\ c \notin sessions
    <3>1. PICK c \in Connects : call[c].addr = a /\ Claiming(c) /\ c \notin sessions
      BY <2>2
    <3>2. Users(a) = {<<"connect", c>>}
      BY <1>1, <1>2, <1>3, <3>1 DEF Users
    <3>3. QED
      BY <3>2
  <2>3. CASE /\ ~\E c \in Connects : call[c].addr = a /\ (c \in sessions \/ Claiming(c))
             /\ \E p \in Pairs : pairing[p] = a
    <3>1. PICK p \in Pairs : pairing[p] = a
      BY <2>3
    <3>2. Users(a) = {<<"pair", p>>}
      BY <1>1, <1>4, <2>3, <3>1 DEF Users
    <3>3. QED
      BY <3>2
  <2>4. CASE /\ ~\E c \in Connects : call[c].addr = a /\ (c \in sessions \/ Claiming(c))
             /\ ~\E p \in Pairs : pairing[p] = a
    BY <1>1, <2>4 DEF Users
  <2>5. QED
    BY <2>1, <2>2, <2>3, <2>4
<1>6. CASE Users(a) = {}
  <2>1. Cardinality(Users(a)) = 0
    BY <1>6, FS_EmptySet
  <2>2. QED
    BY <2>1
<1>7. CASE \E u : Users(a) = {u}
  <2>1. PICK u : Users(a) = {u}
    BY <1>7
  <2>2. Cardinality({u}) = 1
    BY FS_Singleton
  <2>3. QED
    BY <2>1, <2>2
<1>8. QED
  BY <1>5, <1>6, <1>7

-----------------------------------------------------------------------------
(***************************************************************************)
(* Nothing leaks, where bonds are not recovered: the converse of the       *)
(* claims and of the maps. An address whose connect was aborted by its     *)
(* client is excused.                                                      *)
(***************************************************************************)
PastRegister == {"backend", "connecting", "insert", "name"}
Holder(c, a) == call[c].addr = a /\ (c \in sessions \/ call[c].pc \in PastRegister)
ClaimedBy(c, a) == Claiming(c) /\ call[c].addr = a
AbortedAt(c, a) == call[c].pc = "aborted" /\ call[c].addr = a
RemovingAt(d, a) == Removing(d) /\ call[drop[d].sid].addr = a

(* A reservation has a holder.                                             *)
Held(a) ==
    byAddr[a] = "pending" => \/ \E c \in Connects : ClaimedBy(c, a)
                             \/ \E p \in Pairs : pairing[p] = a

(* Who holds a registered address is of the profile it is registered for:  *)
(* a removal may have taken its entry away, but none is left by another.   *)
Owned(a) == \A c \in Connects : Holder(c, a) => owner[a] \in {None, call[c].prof}

(* A registry entry has a holder, or a removal that takes it away.         *)
Backed(a) ==
    owner[a] # None => \/ \E c \in Connects : Holder(c, a)
                       \/ \E d \in Droppers : RemovingAt(d, a) /\ call[drop[d].sid].prof = owner[a]

LeakAt(a) == (\A c \in Connects : ~AbortedAt(c, a)) => Held(a) /\ Owned(a) /\ Backed(a)
LInv == \A a \in Addrs : LeakAt(a)

(* A step leaves an address alone.                                         *)
SameAt(o, a) ==
    /\ ClaimedBy(o, a)' <=> ClaimedBy(o, a)
    /\ Holder(o, a)' <=> Holder(o, a)
    /\ Holder(o, a) => call'[o].prof = call[o].prof
    /\ AbortedAt(o, a) => AbortedAt(o, a)'
RemovalKept(a) ==
    \A d \in Droppers : RemovingAt(d, a) =>
        RemovingAt(d, a)' /\ call'[drop'[d].sid].prof = call[drop[d].sid].prof

LEMMA LeakKept ==
    ASSUME NEW a \in Addrs, LeakAt(a), byAddr'[a] = "pending" => byAddr[a] = "pending",
           owner'[a] = owner[a], \A o \in Connects : SameAt(o, a),
           \A p \in Pairs : pairing[p] = a => pairing'[p] = a, RemovalKept(a)
    PROVE  LeakAt(a)'
<1> SUFFICES ASSUME \A c \in Connects : ~AbortedAt(c, a)'
             PROVE  Held(a)' /\ Owned(a)' /\ Backed(a)'
  BY DEF LeakAt
<1>1. Held(a) /\ Owned(a) /\ Backed(a)
  BY DEF LeakAt, SameAt
<1>2. Held(a)'
  BY <1>1 DEF Held, SameAt
<1>3. Owned(a)'
  BY <1>1 DEF Owned, SameAt
<1>4. Backed(a)'
  BY <1>1 DEF Backed, SameAt, RemovalKept
<1> QED BY <1>2, <1>3, <1>4

(* What a call may do without touching an address.                         *)
LEMMA SameCall ==
    ASSUME NEW o \in Connects, NEW a, call'[o] = call[o], o \in sessions' <=> o \in sessions
    PROVE  SameAt(o, a)
BY DEF SameAt, ClaimedBy, Claiming, Holder, AbortedAt

LEMMA SameElsewhere ==
    ASSUME NEW o \in Connects, NEW a, call[o].addr # a, call'[o].addr # a
    PROVE  SameAt(o, a)
BY DEF SameAt, ClaimedBy, Holder, AbortedAt

LEMMA SameKind ==
    ASSUME NEW o \in Connects, NEW a, Kept(o), o \in sessions' <=> o \in sessions,
           \/ call'[o].pc = call[o].pc
           \/ call[o].pc \in PastRegister /\ call'[o].pc \in PastRegister
    PROVE  SameAt(o, a)
BY DEF SameAt, ClaimedBy, Claiming, Holder, AbortedAt, Kept, PastRegister

LEMMA SameOut ==
    ASSUME NEW o \in Connects, NEW a, o \notin sessions, o \notin sessions',
           ~Claiming(o), ~Claiming(o)', call[o].pc # "aborted"
    PROVE  SameAt(o, a)
BY DEF SameAt, ClaimedBy, Claiming, Holder, AbortedAt, PastRegister

(* A removal is of a live session, and calls that are live stay.           *)
LEMMA RemovalsKept ==
    ASSUME Known, UInv, NEW a,
           \A d \in Droppers : Removing(d) => drop'[d] = drop[d],
           \A d \in Droppers : Removing(d) => Kept(drop[d].sid)
    PROVE  RemovalKept(a)
BY DEF RemovalKept, RemovingAt, Removing, Kept

LEMMA RemovedIsLive ==
    ASSUME Known, UInv, NEW d \in Droppers, Removing(d)
    PROVE  drop[d].sid \in Connects /\ call[drop[d].sid].pc = "live"
BY GattAssumption DEF Removing, Active, Known, DropKnown, Types, DropType, Drops, UInv, DropInv

(* A call that moves on its own.                                           *)
LEMMA RemovalsOfOthers ==
    ASSUME Known, UInv, NEW a, NEW c \in Connects, Others(c), call[c].pc # "live",
           UNCHANGED drop
    PROVE  RemovalKept(a)
<1>1. \A d \in Droppers : Removing(d) => Kept(drop[d].sid)
  BY RemovedIsLive DEF Others, Kept
<1> QED BY <1>1, RemovalsKept

(* A step that keeps the holders and sees to the reservation.              *)
SameHolder(o, a) ==
    /\ Holder(o, a)' <=> Holder(o, a)
    /\ Holder(o, a) => call'[o].prof = call[o].prof
    /\ AbortedAt(o, a) => AbortedAt(o, a)'

LEMMA LeakHeld ==
    ASSUME NEW a \in Addrs, LeakAt(a), Held(a)', owner'[a] = owner[a],
           \A o \in Connects : SameHolder(o, a), RemovalKept(a)
    PROVE  LeakAt(a)'
<1> SUFFICES ASSUME \A c \in Connects : ~AbortedAt(c, a)'
             PROVE  Owned(a)' /\ Backed(a)'
  BY DEF LeakAt
<1>1. Owned(a) /\ Backed(a)
  BY DEF LeakAt, SameHolder
<1>2. Owned(a)'
  BY <1>1 DEF Owned, SameHolder
<1>3. Backed(a)'
  BY <1>1 DEF Backed, SameHolder, RemovalKept
<1> QED BY <1>2, <1>3

(* A drop that does not touch the maps; the connect a reclaim returns to   *)
(* holds nothing yet.                                                      *)
SoftCalls ==
    \A o \in Connects : /\ Kept(o)
                        /\ \/ call'[o].pc = call[o].pc
                           \/ call[o].pc = "reclaim" /\ call'[o].pc = "claim"

LEMMA SoftReturns ==
    ASSUME Types, DropKnown, NEW d \in Droppers, Returns(d), Active(d)
    PROVE  SoftCalls
<1>1. CASE d[1] # "reclaim"
  BY <1>1, ReturnsFacts DEF Types, SoftCalls, Kept
<1>2. CASE d[1] = "reclaim"
  <2>1. d[2] \in Connects /\ call[d[2]].pc = "reclaim"
    BY <1>2, DropperFacts DEF DropKnown
  <2>2. Others(d[2]) /\ Kept(d[2]) /\ call'[d[2]].pc = "claim"
    BY <1>2, ReturnsFacts DEF Types
  <2>3. QED
    BY <2>1, <2>2 DEF SoftCalls, Others, Kept
<1>3. QED
  BY <1>1, <1>2

Soft(d) == /\ UNCHANGED <<byAddr, owner, sessions, pairing>>
           /\ SoftCalls /\ OtherDrops(d) /\ ~Removing(d)

LEMMA DropSoft ==
    ASSUME Types, DropKnown, NEW d \in Droppers, TakeClosing(d) \/ DropStep(d) \/ AbandonDelete(d)
    PROVE  Soft(d) \/ Forget(d) \/ Unmap(d) \/ Unregister(d)
<1>a. ASSUME NEW ok \in BOOLEAN, Answered(d, ok), drop[d].pc \in {"teardown", "os"},
             UNCHANGED <<byAddr, owner, sessions, pairing>>
      PROVE  Soft(d)
  <2>1. ~Removing(d) /\ Active(d)
    BY <1>a DEF Removing, Active
  <2>2. CASE drop' = [drop EXCEPT ![d].pc = "forget"] /\ call' = call
    BY <1>a, <2>1, <2>2, MovesFacts DEF Soft, SoftCalls, Kept, DropPCs, Types
  <2>3. CASE Returns(d)
    BY <1>a, <2>1, <2>3, SoftReturns, ReturnsFacts DEF Soft, Types
  <2>4. QED
    BY <1>a, <2>2, <2>3, AnsweredFacts DEF Types
<1>1. CASE TakeClosing(d)
  <2>1. /\ drop[d].pc = "wait" /\ ~Removing(d) /\ Active(d)
        /\ UNCHANGED <<byAddr, owner, sessions, pairing>>
    BY <1>1 DEF TakeClosing, maps, Removing, Active
  <2>2. CASE drop' = [drop EXCEPT ![d].pc = "teardown"] /\ UNCHANGED call
    BY <2>1, <2>2, MovesFacts DEF Soft, SoftCalls, Kept, DropPCs, Types
  <2>3. CASE Returns(d)
    BY <2>1, <2>3, SoftReturns, ReturnsFacts DEF Soft, Types
  <2>4. QED
    BY <1>1, <2>2, <2>3 DEF TakeClosing
<1>2. CASE TeardownRefused(d) \/ TeardownUnknown(d) \/ Disconnected(d) \/ DisconnectFails(d)
           \/ DisconnectOverruns(d)
  BY <1>2, <1>a DEF TeardownRefused, TeardownUnknown, Disconnected, DisconnectFails,
     DisconnectOverruns, maps
<1>3. CASE TeardownBegins(d)
  <2>1. /\ drop[d].pc = "teardown" /\ drop' = [drop EXCEPT ![d].pc = "os"]
        /\ UNCHANGED <<byAddr, owner, sessions, pairing>>
    BY <1>3 DEF TeardownBegins, maps
  <2>2. SoftCalls
    BY <1>3 DEF TeardownBegins, SoftCalls, Kept, Types, CallType, Calls
  <2>3. QED
    BY <2>1, <2>2, MovesFacts DEF Soft, Removing, DropPCs, Types
<1>4. CASE AbandonDelete(d)
  <2>1. /\ ~Removing(d) /\ Active(d) /\ Returns(d)
        /\ UNCHANGED <<byAddr, owner, sessions, pairing>>
    BY <1>4 DEF AbandonDelete, maps, Removing, Active
  <2>2. QED
    BY <2>1, SoftReturns, ReturnsFacts DEF Soft, Types
<1>5. QED
  BY <1>1, <1>2, <1>3, <1>4 DEF DropStep

LEMMA SoftSame ==
    ASSUME Known, SoftCalls, UNCHANGED sessions, NEW o \in Connects, NEW a
    PROVE  SameAt(o, a)
<1>1. CASE call'[o].pc = call[o].pc
  BY <1>1, SameKind DEF SoftCalls
<1>2. CASE call[o].pc = "reclaim" /\ call'[o].pc = "claim"
  BY <1>2, SameOut DEF Known, SessionKnown, Claiming
<1>3. QED
  BY <1>1, <1>2 DEF SoftCalls

(* A session whose removal is through: its profile is no longer the owner. *)
LEMMA LeakUnregister ==
    ASSUME Known, UInv, LInv, NEW d \in Droppers, Unregister(d)
    PROVE  LInv'
<1>0. /\ drop[d].pc = "unregister" /\ Removing(d) /\ Active(d) /\ Returns(d)
      /\ UNCHANGED <<byAddr, sessions, pairing>>
      /\ drop[d].sid \in Connects /\ call[drop[d].sid].addr \in Addrs
  BY RemovedIsLive DEF Unregister, Removing, Active, Known, CallKnown
<1>p. PICK s \in Connects, x \in Addrs : s = drop[d].sid /\ x = call[s].addr
  BY <1>0
<1>1. owner' = Unregistered(x, call[s].prof)
  BY <1>p DEF Unregister
<1>3. OtherDrops(d) /\ SoftCalls
  BY <1>0, SoftReturns, ReturnsFacts DEF Known, Types
<1>4. \A o \in Connects, a \in Addrs : SameAt(o, a)
  BY <1>0, <1>3, SoftSame
<1>5. /\ \A a \in Addrs : a # x => owner'[a] = owner[a]
      /\ owner'[x] \in {None, owner[x]}
      /\ owner[x] = call[s].prof => owner'[x] = None
  BY <1>1 DEF Unregistered, Known, Types, MapType
<1>6. ASSUME NEW e \in Droppers, Removing(e) PROVE e = d
  BY <1>0, <1>6 DEF UInv, DropInv
<1>7. ASSUME NEW a \in Addrs, a # x PROVE LeakAt(a)'
  <2>1. RemovalKept(a)
    BY <1>6, <1>7, <1>p DEF RemovalKept, RemovingAt
  <2>2. QED
    BY <1>0, <1>4, <1>5, <1>7, <2>1, LeakKept DEF LInv
<1>8. LeakAt(x)'
  <2> SUFFICES ASSUME \A o \in Connects : ~AbortedAt(o, x)'
               PROVE  Held(x)' /\ Owned(x)' /\ Backed(x)'
    BY DEF LeakAt
  <2>1. Held(x) /\ Owned(x) /\ Backed(x)
    BY <1>4 DEF LInv, LeakAt, SameAt
  <2>2. Held(x)'
    BY <1>0, <1>4, <2>1 DEF Held, SameAt
  <2>3. Owned(x)'
    BY <1>4, <1>5, <2>1 DEF Owned, SameAt
  <2>4. Backed(x)'
    <3>1. ASSUME owner'[x] # None PROVE \E o \in Connects : Holder(o, x)
      BY <1>5, <1>6, <1>p, <2>1, <3>1 DEF Backed, RemovingAt
    <3>2. QED
      BY <1>4, <3>1 DEF Backed, SameAt
  <2>5. QED
    BY <2>2, <2>3, <2>4
<1>9. QED
  BY <1>7, <1>8 DEF LInv

LEMMA LeakForget ==
    ASSUME Known, UInv, LInv, NEW d \in Droppers, Forget(d)
    PROVE  LInv'
<1>0. /\ drop[d].pc = "forget" /\ ~SessionsBusy /\ UNCHANGED <<byAddr, owner, call, pairing>>
      /\ sessions' = sessions \ {drop[d].sid} /\ drop' = [drop EXCEPT ![d].pc = "unmap"]
  BY DEF Forget
<1>2. /\ drop[d].sid \in sessions /\ drop[d].sid \in Connects
      /\ call[drop[d].sid].pc = "live" /\ call[drop[d].sid].addr \in Addrs
  BY <1>0 DEF UInv, DropInv, Active, Known, CallKnown, Types, MapType
<1>p. PICK s \in Connects, x \in Addrs : s = drop[d].sid /\ x = call[s].addr
  BY <1>2
<1>1. sessions' = sessions \ {s} /\ s \in sessions /\ call[s].pc = "live" /\ UNCHANGED <<byAddr, owner, call, pairing>>
  BY <1>0, <1>2, <1>p
<1>3. drop'[d].pc = "unmap" /\ drop'[d].sid = s
  BY <1>0, <1>p, MovesFacts DEF Known, Types, DropPCs
<1>4. \A o \in Connects, a \in Addrs : o # s => SameAt(o, a)
  BY <1>1, SameCall
<1>5. \A a \in Addrs : RemovalKept(a)
  BY <1>0 DEF RemovalKept, RemovingAt, SessionsBusy
<1>6. ASSUME NEW a \in Addrs, a # x PROVE LeakAt(a)'
  <2>1. SameAt(s, a)
    BY <1>1, <1>p, <1>6, SameElsewhere
  <2>2. QED
    BY <1>1, <1>4, <1>5, <2>1, LeakKept DEF LInv
<1>7. LeakAt(x)'
  <2> SUFFICES ASSUME \A o \in Connects : ~AbortedAt(o, x)'
               PROVE  Held(x)' /\ Owned(x)' /\ Backed(x)'
    BY DEF LeakAt
  <2>1. Held(x) /\ Owned(x)
    BY <1>1 DEF LInv, LeakAt, AbortedAt
  <2>2. Held(x)'
    BY <1>1, <2>1 DEF Held, ClaimedBy, Claiming
  <2>3. \A o \in Connects : Holder(o, x)' => Holder(o, x)
    BY <1>1 DEF Holder
  <2>4. Owned(x)'
    BY <1>1, <2>1, <2>3 DEF Owned
  <2>5. owner[x] \in {None, call[s].prof}
    BY <1>1, <1>p, <2>1 DEF Owned, Holder
  <2>6. RemovingAt(d, x)' /\ call'[drop'[d].sid].prof = call[s].prof
    BY <1>1, <1>3, <1>p DEF RemovingAt, Removing
  <2>7. Backed(x)'
    BY <1>1, <2>5, <2>6 DEF Backed
  <2>8. QED
    BY <2>2, <2>4, <2>7
<1>8. QED
  BY <1>6, <1>7 DEF LInv

LEMMA LeakDrop ==
    ASSUME Known, UInv, LInv, NEW d \in Droppers, TakeClosing(d) \/ DropStep(d) \/ AbandonDelete(d)
    PROVE  LInv'
<1>1. CASE Soft(d)
  <2>1. \A o \in Connects, a \in Addrs : SameAt(o, a)
    BY <1>1, SoftSame DEF Soft
  <2>2. \A e \in Droppers : Removing(e) => drop'[e] = drop[e] /\ Kept(drop[e].sid)
    BY <1>1, RemovedIsLive DEF Soft, OtherDrops, SoftCalls
  <2>3. \A a \in Addrs : RemovalKept(a)
    BY <2>2, RemovalsKept
  <2>4. QED
    BY <1>1, <2>1, <2>3, LeakKept DEF Soft, LInv
<1>2. CASE Unmap(d)
  <2> DEFINE x == call[drop[d].sid].addr
  <2>1. /\ drop[d].pc = "unmap" /\ UNCHANGED <<owner, sessions, call, pairing>>
        /\ byAddr' = [byAddr EXCEPT ![x] = "free"] /\ drop' = [drop EXCEPT ![d].pc = "unregister"]
    BY <1>2 DEF Unmap
  <2>2. OtherDrops(d) /\ drop'[d].pc = "unregister" /\ drop'[d].sid = drop[d].sid
    BY <2>1, MovesFacts DEF Known, Types, DropPCs
  <2>3. \A a \in Addrs : RemovalKept(a)
    BY <2>1, <2>2 DEF RemovalKept, RemovingAt, Removing, OtherDrops
  <2>4. \A o \in Connects, a \in Addrs : SameAt(o, a)
    BY <2>1, SameCall
  <2>5. \A a \in Addrs : byAddr'[a] = "pending" => byAddr[a] = "pending"
    BY <2>1 DEF Known, Types, MapType
  <2>6. QED
    BY <2>1, <2>3, <2>4, <2>5, LeakKept DEF LInv
<1>3. QED
  BY <1>1, <1>2, LeakForget, LeakUnregister, DropSoft DEF Known

(* A connect that moves elsewhere.                                         *)
Alone(c, a) ==
    /\ Others(c) /\ call[c].pc # "live" /\ UNCHANGED pairing
    /\ \A o \in Connects : o # c => (o \in sessions' <=> o \in sessions)
    /\ \A d \in Droppers : Removing(d) => drop'[d] = drop[d]
    /\ call[c].addr = a /\ call'[c].addr \in {a, None}
    /\ \A x \in Addrs : x # a => byAddr'[x] = byAddr[x] /\ owner'[x] = owner[x]

LEMMA AloneFacts ==
    ASSUME Known, UInv, NEW c \in Connects, NEW a \in Addrs, Alone(c, a)
    PROVE  /\ \A x \in Addrs : RemovalKept(x)
           /\ \A o \in Connects, x \in Addrs : o # c => SameAt(o, x)
<1>1. \A d \in Droppers : Removing(d) => drop'[d] = drop[d] /\ Kept(drop[d].sid)
  BY RemovedIsLive DEF Alone, Others, Kept
<1>2. \A x \in Addrs : RemovalKept(x)
  BY <1>1, RemovalsKept
<1>3. \A o \in Connects, x \in Addrs : o # c => SameAt(o, x)
  BY SameCall DEF Alone, Others
<1>4. QED
  BY <1>2, <1>3

LEMMA LeakAlone ==
    ASSUME Known, UInv, LInv, NEW c \in Connects, NEW a \in Addrs, Alone(c, a), LeakAt(a)'
    PROVE  LInv'
<1> SUFFICES ASSUME NEW x \in Addrs, x # a PROVE LeakAt(x)'
  BY DEF LInv
<1>1. SameAt(c, x)
  BY SameElsewhere, GattAssumption DEF Alone
<1>2. \A p \in Pairs : pairing[p] = x => pairing'[p] = x
  BY DEF Alone
<1>3. byAddr'[x] = byAddr[x] /\ owner'[x] = owner[x]
  BY DEF Alone
<1>4. QED
  BY <1>1, <1>2, <1>3, AloneFacts, LeakKept DEF LInv

(* The connect holds its address as before.                                *)
LEMMA LeakSame ==
    ASSUME Known, UInv, LInv, NEW c \in Connects, NEW a \in Addrs, Alone(c, a), SameAt(c, a),
           byAddr'[a] = "pending" => byAddr[a] = "pending", owner'[a] = owner[a]
    PROVE  LInv'
<1>1. \A o \in Connects : SameAt(o, a)
  BY AloneFacts
<1>2. \A p \in Pairs : pairing[p] = a => pairing'[p] = a
  BY DEF Alone
<1>3. LeakAt(a)'
  BY <1>1, <1>2, AloneFacts, LeakKept DEF LInv
<1>4. QED
  BY <1>3, LeakAlone

(* It reserves, or gives back, what it does not hold yet.                  *)
LEMMA LeakHolder ==
    ASSUME Known, UInv, LInv, NEW c \in Connects, NEW a \in Addrs, Alone(c, a), SameHolder(c, a),
           byAddr'[a] # "pending" \/ ClaimedBy(c, a)', owner'[a] = owner[a]
    PROVE  LInv'
<1>1. \A o \in Connects : SameHolder(o, a)
  BY AloneFacts DEF SameAt, SameHolder
<1>2. Held(a)'
  BY DEF Held
<1>3. LeakAt(a)'
  BY <1>1, <1>2, AloneFacts, LeakHeld DEF LInv
<1>4. QED
  BY <1>3, LeakAlone

(* The error path takes the entry of the connect away.                     *)
LEMMA LeakFails ==
    ASSUME Known, UInv, LInv, NEW c \in Connects, NEW a \in Addrs, Alone(c, a), Holder(c, a),
           byAddr'[a] = "free", owner' = Unregistered(a, call[c].prof),
           call[c].pc # "aborted"
    PROVE  LInv'
<1>1. LeakAt(a)'
  <2> SUFFICES ASSUME \A o \in Connects : ~AbortedAt(o, a)'
               PROVE  Held(a)' /\ Owned(a)' /\ Backed(a)'
    BY DEF LeakAt
  <2>1. Owned(a)
    BY AloneFacts DEF LInv, LeakAt, SameAt, AbortedAt
  <2>2. owner'[a] = None
    BY <2>1 DEF Owned, Unregistered, Known, Types, MapType
  <2>3. QED
    BY <2>2 DEF Held, Owned, Backed
<1>2. QED
  BY <1>1, LeakAlone

(* A connect that registers its address is the only one to hold it.        *)
LEMMA OnlyHolder ==
    ASSUME Known, UInv, NEW c \in Connects, Claiming(c), NEW o \in Connects, Holder(o, call[c].addr)
    PROVE  o = c
<1>1. byAddr[call[c].addr] = "pending"
  BY DEF UInv, ClaimInv
<1>2. Claiming(o) \/ (o \in sessions /\ call[o].pc = "live")
  BY DEF Holder, PastRegister, Claiming, Known, SessionKnown
<1>3. QED
  BY <1>1, <1>2, GattAssumption DEF Holder, UInv, ClaimInv, MapInv

LEMMA LeakRegisters ==
    ASSUME Known, UInv, LInv, NEW c \in Connects, NEW a \in Addrs, Alone(c, a),
           call[c].pc = "register", call'[c].pc = "backend", Kept(c), UNCHANGED sessions,
           owner'[a] = call[c].prof
    PROVE  LInv'
<1>1. Claiming(c) /\ Claiming(c)' /\ call[c].addr = a /\ call'[c].addr = a
  BY DEF Claiming, Alone, Kept
<1>2. Held(a)'
  BY <1>1 DEF Held, ClaimedBy
<1>3. Holder(c, a)' /\ call'[c].prof = call[c].prof
  BY <1>1 DEF Holder, PastRegister, Kept
<1>4. Backed(a)'
  BY <1>3 DEF Backed
<1>5. ASSUME NEW o \in Connects, Holder(o, a)' PROVE o = c
  <2>1. o # c => Holder(o, a)
    BY <1>5, AloneFacts DEF SameAt
  <2>2. QED
    BY <1>1, <2>1, OnlyHolder
<1>6. Owned(a)'
  BY <1>3, <1>5 DEF Owned
<1>7. LeakAt(a)'
  BY <1>2, <1>4, <1>6 DEF LeakAt
<1>8. QED
  BY <1>7, LeakAlone

(* A connect below the backend, whoever it is.                             *)
LEMMA LeakBelow ==
    ASSUME Known, UInv, LInv, NEW c \in Connects, NEW a \in Addrs, Alone(c, a), UNCHANGED maps,
           Kept(c), call[c].pc \in PastRegister, call'[c].pc \in PastRegister
    PROVE  LInv'
<1>1. SameAt(c, a)
  BY SameKind DEF maps
<1>2. QED
  BY <1>1, LeakSame DEF maps

(* Before its claim a connect holds nothing.                               *)
LEMMA LeakBefore ==
    ASSUME Known, UInv, LInv, NEW c \in Connects, NEW a \in Addrs, Alone(c, a), UNCHANGED maps,
           call[c].pc \in {"look", "owner", "dangling", "claim"}, ~Claiming(c)'
    PROVE  LInv'
<1>1. c \notin sessions /\ c \notin sessions' /\ ~Claiming(c) /\ call[c].pc # "aborted"
  BY DEF Known, SessionKnown, Claiming, maps
<1>2. SameAt(c, a)
  BY <1>1, SameOut
<1>3. QED
  BY <1>2, LeakSame DEF maps

LEMMA LeakConnect ==
    ASSUME Known, UInv, LInv, NEW c \in Connects, ConnectStep(c)
    PROVE  LInv'
<1>t. CallType /\ Types
  BY DEF Known, Types
<1>e. /\ Others(c) /\ call[c].pc \notin {"idle", "reclaim", "live", "aborted"}
      /\ call'[c].pc # "idle" => call'[c].addr = call[c].addr
      /\ \A o \in Connects : o # c => (o \in sessions' <=> o \in sessions)
  BY <1>t, ConnectMoves DEF ConnectEffect
<1>p. PICK a \in Addrs : a = call[c].addr
  BY <1>e DEF Known, CallKnown
<1>d. \A d \in Droppers : Removing(d) => drop'[d] = drop[d]
  <2>1. CASE drop' = drop
    BY <2>1
  <2>2. CASE StartDrop(Reclaim(c), call[c].sid) /\ call[c].sid \in sessions
    <3>1. OtherDrops(Reclaim(c)) /\ Reclaim(c) \in Droppers
      BY <1>t, <2>2, StartFacts, DropperFacts DEF Types, MapType
    <3>2. ~Removing(Reclaim(c))
      BY <1>e DEF Known, DropKnown, Active, Removing
    <3>3. QED
      BY <3>1, <3>2 DEF OtherDrops
  <2>3. QED
    BY <1>t, <2>1, <2>2, ConnectMoves DEF ConnectEffect
<1>s. /\ UNCHANGED pairing
      /\ c \in sessions => call[c].pc = "name"
  BY DEF ConnectStep, Look, Owner, Dangling, Undangle, Claim, Register, BackendRefuses,
         BackendBegins, Opened, ConnectFails, ConnectOverruns, Insert, Name, Known, SessionKnown
<1>a. ASSUME call'[c].addr \in {a, None},
             \A x \in Addrs : x # a => byAddr'[x] = byAddr[x] /\ owner'[x] = owner[x]
      PROVE  Alone(c, a)
  BY <1>a, <1>d, <1>e, <1>p, <1>s DEF Alone
<1>1. CASE Look(c) \/ Owner(c)
  <2>1. /\ UNCHANGED maps /\ call[c].pc \in {"look", "owner"}
        /\ call'[c].pc \in {"claim", "owner", "reclaim", "dangling"}
    BY <1>t, <1>1 DEF Look, Owner, Goes, maps, CallType, Calls
  <2>2. Alone(c, a)
    BY <1>a, <1>e, <1>p, <2>1 DEF maps
  <2>3. QED
    BY <2>1, <2>2, LeakBefore DEF Claiming
<1>2. CASE Dangling(c)
  <2>1. UNCHANGED maps /\ Goes(c, "claim") /\ call[c].pc = "dangling"
    BY <1>2 DEF Dangling, UInv, LookInv, maps
  <2>2. call'[c].pc = "claim"
    BY <1>t, <2>1, GoesFacts DEF CallPCs
  <2>3. Alone(c, a)
    BY <1>a, <1>e, <1>p, <2>1, <2>2 DEF maps
  <2>4. QED
    BY <2>1, <2>2, <2>3, LeakBefore DEF Claiming
<1>3. CASE Undangle(c)
  BY <1>3 DEF Undangle, UInv, LookInv
<1>4. CASE Claim(c)
  <2>1. call[c].pc = "claim" /\ UNCHANGED <<owner, sessions>> /\ ~Claiming(c)
    BY <1>4 DEF Claim, Claiming
  <2>2. CASE Refused(c) /\ UNCHANGED byAddr
    <3>1. call'[c].pc = "idle" /\ call'[c].addr = None
      BY <1>t, <2>2, RefusedFacts DEF NoCall
    <3>2. Alone(c, a)
      BY <1>a, <2>1, <2>2, <3>1
    <3>3. QED
      BY <2>1, <2>2, <3>1, <3>2, LeakBefore DEF Claiming, maps
  <2>3. CASE byAddr' = [byAddr EXCEPT ![a] = "pending"] /\ Goes(c, "register")
    <3>1. call'[c].pc = "register" /\ call'[c].addr = a /\ call'[c].prof = call[c].prof
      BY <1>t, <1>p, <2>3, GoesFacts DEF CallPCs, Kept
    <3>2. \A x \in Addrs : x # a => byAddr'[x] = byAddr[x]
      BY <2>3 DEF Known, Types, MapType
    <3>3. Alone(c, a)
      BY <1>a, <2>1, <3>1, <3>2
    <3>4. SameHolder(c, a) /\ ClaimedBy(c, a)'
      BY <1>s, <2>1, <3>1 DEF SameHolder, Holder, PastRegister, AbortedAt, ClaimedBy, Claiming
    <3>5. QED
      BY <2>1, <3>3, <3>4, LeakHolder
  <2>4. QED
    BY <1>4, <1>p, <2>2, <2>3 DEF Claim
<1>5. CASE Register(c)
  <2>1. call[c].pc = "register" /\ UNCHANGED sessions
    BY <1>5 DEF Register
  <2>2. CASE owner[a] \in {None, call[c].prof}
    <3>1. Goes(c, "backend") /\ UNCHANGED byAddr /\ owner' = [owner EXCEPT ![a] = call[c].prof]
      BY <1>5, <1>p, <2>2 DEF Register
    <3>2. call'[c].pc = "backend" /\ Kept(c)
      BY <1>t, <3>1, GoesFacts DEF CallPCs
    <3>3. owner'[a] = call[c].prof /\ \A x \in Addrs : x # a => owner'[x] = owner[x]
      BY <3>1 DEF Known, Types, MapType
    <3>4. Alone(c, a)
      BY <1>a, <1>p, <3>1, <3>2, <3>3 DEF Kept
    <3>5. QED
      BY <2>1, <3>2, <3>3, <3>4, LeakRegisters
  <2>3. CASE owner[a] \notin {None, call[c].prof}
    <3>1. Refused(c) /\ UNCHANGED owner /\ byAddr' = [byAddr EXCEPT ![a] = "free"]
      BY <1>5, <1>p, <2>3 DEF Register
    <3>2. call'[c].pc = "idle" /\ call'[c].addr = None
      BY <1>t, <3>1, RefusedFacts DEF NoCall
    <3>3. byAddr'[a] = "free" /\ \A x \in Addrs : x # a => byAddr'[x] = byAddr[x]
      BY <3>1 DEF Known, Types, MapType
    <3>4. Alone(c, a)
      BY <1>a, <3>1, <3>2, <3>3
    <3>5. SameHolder(c, a)
      BY <1>s, <2>1, <3>2, GattAssumption DEF SameHolder, Holder, PastRegister, AbortedAt
    <3>6. QED
      BY <3>1, <3>3, <3>4, <3>5, LeakHolder
  <2>4. QED
    BY <2>2, <2>3
<1>6. CASE BackendRefuses(c) \/ ConnectFails(c) \/ ConnectOverruns(c)
  <2>1. /\ call[c].pc \in {"backend", "connecting"} /\ Fails(c)
        /\ Refused(c) \/ Goes(c, "idle")
    BY <1>6 DEF BackendRefuses, ConnectFails, ConnectOverruns
  <2>2. call'[c].addr \in {a, None}
    BY <1>t, <1>p, <2>1, RefusedFacts, GoesFacts DEF NoCall, CallPCs, Kept
  <2>3. /\ byAddr'[a] = "free" /\ owner' = Unregistered(a, call[c].prof)
        /\ \A x \in Addrs : x # a => byAddr'[x] = byAddr[x] /\ owner'[x] = owner[x]
    BY <1>p, <2>1 DEF Fails, Unregistered, Known, Types, MapType
  <2>4. Alone(c, a)
    BY <1>a, <2>2, <2>3
  <2>5. Holder(c, a) /\ call[c].pc # "aborted"
    BY <1>p, <2>1 DEF Holder, PastRegister
  <2>6. QED
    BY <2>3, <2>4, <2>5, LeakFails
<1>7. CASE BackendBegins(c) \/ Opened(c)
  <2>1. UNCHANGED maps /\ call[c].pc \in {"backend", "connecting"}
    BY <1>7 DEF BackendBegins, Opened, maps
  <2>2. call'[c].pc \in {"connecting", "insert"} /\ Kept(c)
    <3>1. CASE BackendBegins(c)
      BY <1>t, <3>1, GoesFacts DEF BackendBegins, CallPCs
    <3>2. CASE Opened(c)
      <4>1. call' = [call EXCEPT ![c] = [call[c] EXCEPT !.pc = "insert", !.slow = FALSE, !.old = FALSE]]
        BY <1>t, <3>2 DEF Opened, CallType
      <4>2. QED
        BY <1>t, <4>1 DEF CallType, Calls, Kept
    <3>3. QED
      BY <1>7, <3>1, <3>2
  <2>3. Alone(c, a)
    BY <1>a, <1>p, <2>1, <2>2 DEF maps, Kept
  <2>4. QED
    BY <2>1, <2>2, <2>3, LeakBelow DEF PastRegister
<1>8. CASE Insert(c)
  <2>1. /\ call[c].pc = "insert" /\ Goes(c, "name") /\ sessions' = sessions \cup {c}
        /\ UNCHANGED <<byAddr, owner>>
    BY <1>8 DEF Insert
  <2>2. call'[c].pc = "name" /\ Kept(c)
    BY <1>t, <2>1, GoesFacts DEF CallPCs
  <2>3. Alone(c, a)
    BY <1>a, <1>p, <2>1, <2>2 DEF Kept
  <2>4. SameAt(c, a)
    BY <2>1, <2>2 DEF SameAt, ClaimedBy, Claiming, Holder, PastRegister, AbortedAt, Kept
  <2>5. QED
    BY <2>1, <2>3, <2>4, LeakSame
<1>9. CASE Name(c)
  <2>1. /\ call[c].pc = "name" /\ Goes(c, "live") /\ UNCHANGED <<owner, sessions>>
        /\ byAddr' = [byAddr EXCEPT ![a] = c] /\ c \in sessions
    BY <1>9, <1>p DEF Name, UInv, MapInv
  <2>2. call'[c].pc = "live" /\ Kept(c)
    BY <1>t, <2>1, GoesFacts DEF CallPCs
  <2>3. byAddr'[a] = c /\ c # "pending" /\ \A x \in Addrs : x # a => byAddr'[x] = byAddr[x]
    BY <2>1, GattAssumption DEF Known, Types, MapType
  <2>4. Alone(c, a)
    BY <1>a, <1>p, <2>1, <2>2, <2>3 DEF Kept
  <2>5. SameHolder(c, a)
    BY <2>1, <2>2 DEF SameHolder, Holder, PastRegister, AbortedAt, Kept
  <2>6. QED
    BY <2>1, <2>3, <2>4, <2>5, LeakHolder
<1>10. QED
  BY <1>1, <1>2, <1>3, <1>4, <1>5, <1>6, <1>7, <1>8, <1>9 DEF ConnectStep

(* A client that gives up, the radio, the pumps.                           *)
LEMMA LeakOutside ==
    ASSUME Known, UInv, LInv, NEW c \in Connects, Outside(c)
    PROVE  LInv'
<1>1. UNCHANGED maps /\ OutsideEffect(c)
  BY OutsideMoves DEF Known, Outside, AbandonConnect, Pump, LateConnects, LateDisconnects,
     StreamEnds, maps
<1>2. CASE Others(c) /\ Kept(c) /\ call[c].pc = "connecting" /\ call'[c].pc = "aborted" /\ drop' = drop
  <2>1. PICK a \in Addrs : a = call[c].addr
    BY <1>2 DEF Known, CallKnown
  <2>2. Alone(c, a)
    BY <1>1, <1>2, <2>1 DEF Alone, Kept, OutsideEffect, maps
  <2>3. LeakAt(a)'
    BY <1>2, <2>1 DEF LeakAt, AbortedAt, Kept
  <2>4. QED
    BY <2>2, <2>3, LeakAlone
<1>3. CASE call' = call
  <2>1. \A o \in Connects, a \in Addrs : SameAt(o, a)
    BY <1>1, <1>3, SameCall DEF maps
  <2>2. \A d \in Droppers : Removing(d) => drop'[d] = drop[d]
    <3>1. CASE StartDrop(PumpOf(c), c) /\ ~SessionsBusy
      BY <3>1 DEF SessionsBusy
    <3>2. QED
      BY <1>1, <1>3, <3>1 DEF OutsideEffect, Removing
  <2>3. \A a \in Addrs : RemovalKept(a)
    BY <1>3, <2>2, RemovalsKept DEF Kept
  <2>4. QED
    BY <1>1, <2>1, <2>3, LeakKept DEF LInv, OutsideEffect, maps
<1>4. QED
  BY <1>1, <1>2, <1>3 DEF OutsideEffect

LEMMA LeakPost ==
    ASSUME Known, UInv, LInv, NEW c \in Connects, NEW a \in Addrs, PostEffect(c, a)
    PROVE  LInv'
<1>1. /\ Others(c) /\ call'[c].pc = "look" /\ UNCHANGED <<drop, pairing>> /\ UNCHANGED maps
      /\ call[c].pc \in {"idle", "live"} /\ c \notin sessions
      /\ \A d \in Droppers : drop[d].sid # c
  BY DEF PostEffect, Unused
<1>2. \A x \in Addrs : SameAt(c, x)
  BY <1>1, SameOut DEF Claiming, maps
<1>3. \A o \in Connects, x \in Addrs : SameAt(o, x)
  BY <1>1, <1>2, SameCall DEF Others, maps
<1>4. \A d \in Droppers : Removing(d) => Kept(drop[d].sid)
  BY <1>1, RemovedIsLive DEF Others, Kept
<1>5. \A x \in Addrs : RemovalKept(x)
  BY <1>1, <1>4, RemovalsKept
<1>6. QED
  BY <1>1, <1>3, <1>5, LeakKept DEF LInv, maps

LEMMA LeakRequest ==
    ASSUME Known, UInv, LInv,
           \/ \E a \in Addrs : LinkLost(a)
           \/ \E d \in Deletes, s \in Connects : Delete(d, s)
    PROVE  LInv'
<1>1. UNCHANGED <<byAddr, owner, sessions, pairing, call>> /\ RequestEffect
  BY RequestMoves DEF LinkLost, Delete, maps, Known
<1>2. \A o \in Connects, a \in Addrs : SameAt(o, a)
  BY <1>1, SameCall
<1>3. \A d \in Droppers : Removing(d) => drop'[d] = drop[d]
  BY <1>1 DEF RequestEffect, SessionsBusy
<1>4. \A a \in Addrs : RemovalKept(a)
  BY <1>1, <1>3, RemovalsKept DEF Kept
<1>5. QED
  BY <1>1, <1>2, <1>4, LeakKept DEF LInv

(* A pairing reserves an address for itself and gives it back.             *)
LEMMA LeakPair ==
    ASSUME Known, UInv, LInv, NEW p \in Pairs, (\E a \in Addrs : Pair(p, a)) \/ PairEnds(p)
    PROVE  LInv'
<1>1. UNCHANGED <<owner, sessions, call, drop>>
  BY DEF Pair, PairEnds
<1>2. \A o \in Connects, x \in Addrs : SameAt(o, x) /\ SameHolder(o, x)
  BY <1>1, SameCall DEF SameAt, SameHolder
<1>3. \A x \in Addrs : RemovalKept(x)
  BY <1>1, RemovalsKept DEF Kept
<1>4. ASSUME NEW a \in Addrs, \A x \in Addrs : x # a => byAddr'[x] = byAddr[x],
             \A q \in Pairs : q # p => pairing'[q] = pairing[q],
             pairing[p] \in {a, None}, byAddr'[a] # "pending" \/ pairing'[p] = a
      PROVE  LInv'
  <2>1. Held(a)'
    BY <1>4 DEF Held
  <2>2. LeakAt(a)'
    BY <1>1, <1>2, <1>3, <2>1, LeakHeld DEF LInv
  <2>3. ASSUME NEW x \in Addrs, x # a PROVE LeakAt(x)'
    BY <1>1, <1>2, <1>3, <1>4, <2>3, LeakKept, GattAssumption DEF LInv
  <2>4. QED
    BY <2>2, <2>3 DEF LInv
<1>5. ASSUME NEW a \in Addrs, Pair(p, a) PROVE LInv'
  <2>1. /\ \A x \in Addrs : x # a => byAddr'[x] = byAddr[x]
        /\ \A q \in Pairs : q # p => pairing'[q] = pairing[q]
        /\ pairing[p] = None /\ pairing'[p] = a
    BY <1>5 DEF Pair, Known, Types, MapType, PairType
  <2>2. QED
    BY <1>4, <2>1
<1>6. CASE PairEnds(p)
  <2>1. PICK a \in Addrs : a = pairing[p]
    BY <1>6 DEF PairEnds, Known, Types, PairType
  <2>2. /\ \A x \in Addrs : x # a => byAddr'[x] = byAddr[x]
        /\ \A q \in Pairs : q # p => pairing'[q] = pairing[q]
        /\ byAddr'[a] # "pending"
    BY <1>6, <2>1 DEF PairEnds, Known, Types, MapType, PairType
  <2>3. QED
    BY <1>4, <2>1, <2>2
<1>7. QED
  BY <1>5, <1>6

LEMMA LeakInit == Init => LInv
BY DEF Init, LInv, LeakAt, Held, Owned, Backed, Holder, PastRegister, NoCall

LEMMA LeakStep ==
    ASSUME ~Recovers, Known, UInv, LInv, [Next]_vars
    PROVE  LInv'
<1>1. CASE UNCHANGED vars
  <2>1. UNCHANGED <<byAddr, owner, sessions, call, drop, pairing>>
    BY <1>1 DEF vars
  <2>2. \A o \in Connects, a \in Addrs : SameAt(o, a)
    BY <2>1, SameCall
  <2>3. \A a \in Addrs : RemovalKept(a)
    BY <2>1, RemovalsKept DEF Kept
  <2>4. QED
    BY <2>1, <2>2, <2>3, LeakKept DEF LInv
<1>2. ASSUME NEW c \in Connects, NEW a \in Addrs, NEW p \in Profiles, Post(c, a, p) PROVE LInv'
  BY <1>2, PostMoves, LeakPost DEF Known
<1>3. QED
  BY <1>1, <1>2, LeakDrop, LeakConnect, LeakOutside, LeakPair, LeakRequest, NoCentral
     DEF Next, Outside, Central

(* What the maps hold, they hold for somebody.                             *)
LEMMA LeaksNothing ==
    ASSUME Known, UInv, LInv PROVE NothingLeaks
<1> SUFFICES ASSUME NEW a \in Addrs, \A c \in Connects : ~AbortedAt(c, a)
             PROVE  /\ byAddr[a] = "pending" => Users(a) # {}
                    /\ byAddr[a] \in Connects =>
                         \/ byAddr[a] \in sessions
                         \/ \E d \in Droppers : Removing(d) /\ drop[d].sid = byAddr[a]
                    /\ owner[a] # None =>
                         \/ Users(a) # {}
                         \/ \E d \in Droppers : Removing(d) /\ call[drop[d].sid].addr = a
  BY DEF NothingLeaks, AbortedAt
<1>1. Held(a) /\ Backed(a)
  BY DEF LInv, LeakAt
<1>2. ASSUME NEW c \in Connects, call[c].addr = a, c \in sessions \/ Claiming(c) PROVE Users(a) # {}
  <2>1. CASE c \in sessions
    <3>1. <<"session", c>> \in Users(a)
      BY <1>2, <2>1 DEF Users
    <3>2. QED
      BY <3>1
  <2>2. CASE c \notin sessions
    <3>1. <<"connect", c>> \in Users(a)
      BY <1>2, <2>2 DEF Users
    <3>2. QED
      BY <3>1
  <2>3. QED
    BY <2>1, <2>2
<1>3. ASSUME NEW p \in Pairs, pairing[p] = a PROVE Users(a) # {}
  <2>1. <<"pair", p>> \in Users(a)
    BY <1>3 DEF Users
  <2>2. QED
    BY <2>1
<1>4. byAddr[a] = "pending" => Users(a) # {}
  BY <1>1, <1>2, <1>3 DEF Held, ClaimedBy
<1>5. owner[a] # None =>
         \/ Users(a) # {}
         \/ \E d \in Droppers : Removing(d) /\ call[drop[d].sid].addr = a
  BY <1>1, <1>2 DEF Backed, Holder, PastRegister, Claiming, RemovingAt
<1>6. byAddr[a] \in Connects =>
         \/ byAddr[a] \in sessions
         \/ \E d \in Droppers : Removing(d) /\ drop[d].sid = byAddr[a]
  BY DEF UInv, MapInv, Removing
<1>7. QED
  BY <1>4, <1>5, <1>6

-----------------------------------------------------------------------------
(* Types, for any number of requests, sessions, addresses and profiles     *)
(* (GattManager, GattRegistry and LazyBtleplugBackend).                    *)
THEOREM TypeCorrect == Spec => []TypeOK
<1>1. RInv => TypeOK
  BY TypeParts DEF RInv, Known
<1>2. QED
  BY <1>1, RAlways, PTL

(* From dispose_adapter to clear_bond_recovery_hold nothing makes the      *)
(* adapter again, whatever connect or teardown was under way.              *)
THEOREM AdapterStaysDown == Spec => []HoldKeepsAdapterDown
<1>1. RInv => HoldKeepsAdapterDown
  BY DEF RInv
<1>2. QED
  BY <1>1, RAlways, PTL

(* release_ble_central has forgotten every session of its list when it     *)
(* disposes of the adapter, whatever the disconnects answered.             *)
THEOREM ReleaseForgets == Spec => []ReleasedAreForgotten
<1>1. RInv => ReleasedAreForgotten
  BY DEF RInv, ReleaseInv, ReleasedAreForgotten
<1>2. QED
  BY <1>1, RAlways, PTL

(* Where bonds are not recovered (the sidecar recovers them on macOS only) *)
(* an address never has two of: a connect under way, a session, a pairing  *)
(* or unpairing.                                                           *)
THEOREM OneUserAlways ==
    ASSUME ~Recovers PROVE Spec => []OneUser
<1>1. RInv /\ UInv /\ [Next]_vars => UInv'
  BY UStep DEF RInv
<1>2. RInv /\ UInv => OneUser
  BY UsersAreOne DEF RInv
<1>3. QED
  BY <1>1, <1>2, UInit, RAlways, PTL DEF Spec

(* Where bonds are not recovered by_address and the registry keep nothing  *)
(* for nobody: a reservation, a session's entry and a profile's claim each *)
(* have a connect, a session, a pairing or a removal behind them, unless a *)
(* client gave up on a connect at the address.                             *)
THEOREM NothingIsLeftBehind ==
    ASSUME ~Recovers PROVE Spec => []NothingLeaks
<1>1. RInv /\ UInv /\ [Next]_vars => UInv'
  BY UStep DEF RInv
<1>2. RInv /\ UInv /\ LInv /\ [Next]_vars => LInv'
  BY LeakStep DEF RInv
<1>3. RInv /\ UInv /\ LInv => NothingLeaks
  BY LeaksNothing DEF RInv
<1>4. QED
  BY <1>1, <1>2, <1>3, UInit, LeakInit, RAlways, PTL DEF Spec

-----------------------------------------------------------------------------
(***************************************************************************)
(* The inductive invariant.                                                *)
(***************************************************************************)
LeaseInv == lease.owner = "none" <=> lease.depth = 0

Current(r) == task[r].pc # "none" /\ task[r].gen = rt.gen

(* The recovery that is not called off is one at most, and holds its latch. *)
TaskInv ==
    /\ rt.gen <= events
    /\ \A r \in Recoveries : task[r].pc # "none" => task[r].gen <= rt.gen
    /\ \A r \in Recoveries : Current(r) => rt.hold
    /\ \A q, r \in Recoveries : Current(q) /\ Current(r) => q = r

LeaseIInv == LeaseTypeOK /\ LeaseInv /\ TaskInv /\ GattHoldsLease /\ LeaseIsReturned

-----------------------------------------------------------------------------
(***************************************************************************)
(* The lease by itself.                                                    *)
(***************************************************************************)
LeaseType == lease \in [owner : Owners, depth : Nat]
OpsFinite == IsFiniteSet(ops) /\ Cardinality(ops) \in Nat

LEMMA OpsAreFinite ==
    ASSUME LeaseTypeOK PROVE OpsFinite
BY LeaseAssumption, FS_Subset, FS_CardinalityType DEF LeaseTypeOK, OpsFinite

LEMMA AcquireAdds ==
    ASSUME NEW who \in {"gatt", "reticulum"}, LeaseType, LeaseInv, CanAcquire(who),
           lease' = Acquired(who)
    PROVE  /\ LeaseType' /\ LeaseInv'
           /\ lease'.owner = who
           /\ lease'.depth = lease.depth + 1
BY SMT DEF LeaseType, LeaseInv, CanAcquire, Acquired, Owners

LEMMA ReleaseTakes ==
    ASSUME NEW who \in {"gatt", "reticulum"}, LeaseType, LeaseInv, lease' = Released(who)
    PROVE  /\ LeaseType' /\ LeaseInv'
           /\ lease.owner # who => lease' = lease
           /\ lease.owner = who => /\ lease.depth >= 1 /\ lease'.depth = lease.depth - 1
                                   /\ lease'.owner = IF lease.depth = 1 THEN "none" ELSE who
<1> USE DEF LeaseType, LeaseInv, Released, Owners
<1>1. CASE lease.owner # who
  BY <1>1
<1>2. CASE lease.owner = who /\ lease.depth > 1
  BY <1>2
<1>3. CASE lease.owner = who /\ ~(lease.depth > 1)
  BY <1>3
<1>4. QED
  BY <1>1, <1>2, <1>3

-----------------------------------------------------------------------------
(***************************************************************************)
(* Reticulum's side.                                                       *)
(***************************************************************************)
Due == Cardinality(ScanHolders) + Cardinality(StaleAcquires)
       + One(poll # "idle") + One(Holding)

LEMMA HoldersAreFinite ==
    /\ IsFiniteSet(ScanHolders) /\ Cardinality(ScanHolders) \in Nat
    /\ IsFiniteSet(StaleAcquires) /\ Cardinality(StaleAcquires) \in Nat
<1>1. ScanHolders \in SUBSET Scans /\ StaleAcquires \in SUBSET Recoveries
  BY DEF ScanHolders, StaleAcquires
<1>2. QED
  BY <1>1, LeaseAssumption, FS_Subset, FS_CardinalityType

(* Types are kept by every step.                                           *)
RtType   == rt \in [desync : BOOLEAN, hold : BOOLEAN, gen : 0..MaxEvents]
TaskType == task \in [Recoveries -> [pc : {"none", "central", "prepare"}, gen : 0..MaxEvents]]
ScanType == scan \in [Scans -> {"idle", "pausing", "scanning", "resuming", "refused"}]
PickType == /\ picker \in [open : BOOLEAN, scanning : BOOLEAN]
            /\ poll \in {"idle", "scanning", "scanned"}
RestType == ops \subseteq Ops /\ exclusive \in BOOLEAN /\ events \in 0..MaxEvents

LEMMA LeaseTypeParts ==
    LeaseTypeOK <=> LeaseType /\ RtType /\ TaskType /\ ScanType /\ PickType /\ RestType
BY DEF LeaseTypeOK, LeaseType, RtType, TaskType, ScanType, PickType, RestType

LEMMA LeaseTypeStep ==
    ASSUME RtType, TaskType, ScanType, PickType, RestType, TaskInv, [LeaseNext]_leaseVars
    PROVE  (RtType /\ TaskType /\ ScanType /\ PickType /\ RestType)'
<1> USE LeaseAssumption DEF RtType, TaskType, ScanType, PickType, RestType
<1>1. CASE UNCHANGED leaseVars
  BY <1>1 DEF leaseVars
<1>2. ASSUME NEW o \in Ops, BeginOp(o) \/ EndOp(o)
      PROVE  (RtType /\ TaskType /\ ScanType /\ PickType /\ RestType)'
  BY <1>2 DEF BeginOp, EndOp
<1>3. ASSUME NEW s \in Scans,
             StartScan(s) \/ ScanAcquires(s) \/ ScanRefused(s) \/ ScanEnds(s) \/ ScanReturns(s)
      PROVE  (RtType /\ TaskType /\ ScanType /\ PickType /\ RestType)'
  <2>1. CASE StartScan(s)
    BY <2>1 DEF StartScan, Event
  <2>2. CASE ScanAcquires(s)
    BY <2>2 DEF ScanAcquires
  <2>3. CASE ScanRefused(s)
    BY <2>3 DEF ScanRefused
  <2>4. CASE ScanEnds(s)
    BY <2>4 DEF ScanEnds
  <2>5. CASE ScanReturns(s)
    BY <2>5 DEF ScanReturns
  <2>6. QED
    BY <1>3, <2>1, <2>2, <2>3, <2>4, <2>5
<1>4. CASE Close
  BY <1>4 DEF Close, Event
<1>5. CASE PollAcquires
  BY <1>5 DEF PollAcquires
<1>6. CASE PollScanned
  BY <1>6 DEF PollScanned
<1>7. CASE PollEnds
  BY <1>7 DEF PollEnds
<1>8. CASE LtkDesync
  <2>1. RtType'
    BY <1>8 DEF LtkDesync
  <2>2. TaskType' /\ ScanType' /\ PickType'
    BY <1>8 DEF LtkDesync
  <2>3. RestType'
    <3>1. exclusive' = exclusive /\ ops' = ops /\ events < MaxEvents /\ events' = events + 1
      BY <1>8 DEF LtkDesync, Event
    <3>2. QED
      BY <3>1
  <2>4. QED
    BY <2>1, <2>2, <2>3
<1>9. CASE BondCleared
  <2>1. rt.gen + 1 \in 0..MaxEvents
    <3>1. rt.gen <= events /\ events < MaxEvents
      BY <1>9 DEF BondCleared, Event, TaskInv
    <3>2. rt.gen \in 0..MaxEvents /\ events \in 0..MaxEvents
      OBVIOUS
    <3>3. QED
      BY <3>1, <3>2
  <2>2. RtType' /\ TaskType'
    BY <1>9, <2>1 DEF BondCleared, RecoveryOver
  <2>3. RestType'
    <3>1. exclusive' \in BOOLEAN /\ ops' = ops
      BY <1>9, Zenon DEF BondCleared
    <3>2. events < MaxEvents /\ events' = events + 1
      BY <1>9 DEF BondCleared, Event
    <3>3. QED
      BY <3>1, <3>2
  <2>4. ScanType' /\ PickType'
    BY <1>9 DEF BondCleared
  <2>5. QED
    BY <2>2, <2>3, <2>4
<1>10. CASE TearDown
  <2>1. rt.gen + 1 \in 0..MaxEvents
    <3>1. rt.gen <= events /\ events < MaxEvents
      BY <1>10 DEF TearDown, Event, TaskInv
    <3>2. rt.gen \in 0..MaxEvents /\ events \in 0..MaxEvents
      OBVIOUS
    <3>3. QED
      BY <3>1, <3>2
  <2>2. RtType' /\ TaskType'
    BY <1>10, <2>1 DEF TearDown, RecoveryOver
  <2>5. RestType'
    <3>1. exclusive' = exclusive /\ ops' = ops /\ events < MaxEvents /\ events' = events + 1
      BY <1>10 DEF TearDown, Event
    <3>2. QED
      BY <3>1
  <2>3. ScanType' /\ PickType'
    BY <1>10 DEF TearDown
  <2>4. QED
    BY <2>2, <2>3, <2>5
<1>11. CASE ExclusiveExpires
  BY <1>11 DEF ExclusiveExpires
<1>12. ASSUME NEW r \in Recoveries, BondRemoved(r) \/ CentralReleased(r) \/ Prepared(r)
      PROVE  (RtType /\ TaskType /\ ScanType /\ PickType /\ RestType)'
  <2>1. CASE BondRemoved(r)
    <3>1. RtType'
      BY <2>1 DEF BondRemoved
    <3>2. TaskType'
      BY <2>1 DEF BondRemoved
    <3>3. (ScanType /\ PickType)'
      BY <2>1 DEF BondRemoved
    <3>4. RestType'
      <4>1. exclusive' \in BOOLEAN /\ ops' = ops
        BY <2>1, Zenon DEF BondRemoved
      <4>2. events < MaxEvents /\ events' = events + 1
        BY <2>1 DEF BondRemoved, Event
      <4>3. QED
        BY <4>1, <4>2
    <3>5. QED
      BY <3>1, <3>2, <3>3, <3>4
  <2>2. CASE CentralReleased(r)
    BY <2>2, SMTT(30) DEF CentralReleased, NoTask
  <2>3. CASE Prepared(r)
    BY <2>3 DEF Prepared, NoTask
  <2>4. QED
    BY <1>12, <2>1, <2>2, <2>3
<1>13. QED
  BY <1>1, <1>2, <1>3, <1>4, <1>5, <1>6, <1>7, <1>8, <1>9, <1>10, <1>11, <1>12 DEF LeaseNext
-----------------------------------------------------------------------------
(***************************************************************************)
(* What a step does to the lease, and to what is due to give it back.      *)
(***************************************************************************)

(* LoRa's count follows the lease, and Reticulum's stays below what is due. *)
Balanced == LeaseType /\ LeaseInv /\ GattHoldsLease /\ LeaseIsReturned

LEMMA LeaseIdle ==
    ASSUME LeaseType, LeaseInv, GattHoldsLease, LeaseIsReturned, Due \in Nat, Due' \in Nat,
           UNCHANGED <<lease, ops>>, Due' >= Due
    PROVE  Balanced'
<1>1. GattHoldsLease'
  BY DEF GattHoldsLease
<1>2. LeaseIsReturned'
  BY DEF LeaseIsReturned, Due, LeaseType
<1>3. QED
  BY <1>1, <1>2 DEF Balanced, LeaseType, LeaseInv

LEMMA ReticulumAcquires ==
    ASSUME LeaseType, LeaseInv, GattHoldsLease, LeaseIsReturned, Due \in Nat, Due' \in Nat,
           CanAcquire("reticulum"), lease' = Acquired("reticulum"), UNCHANGED ops,
           Due' >= Due + 1
    PROVE  Balanced'
<1>1. /\ LeaseType' /\ LeaseInv'
      /\ lease'.owner = "reticulum" /\ lease'.depth = lease.depth + 1
  BY AcquireAdds
<1>2. ops = {}
  BY DEF GattHoldsLease, CanAcquire
<1>3. GattHoldsLease'
  BY <1>1, <1>2 DEF GattHoldsLease
<1>4. lease.depth <= Due
  BY DEF LeaseIsReturned, CanAcquire, LeaseInv, LeaseType, Due
<1>5. LeaseIsReturned'
  BY <1>1, <1>4 DEF LeaseIsReturned, Due, LeaseType
<1>6. QED
  BY <1>1, <1>3, <1>5 DEF Balanced

LEMMA ReticulumReleases ==
    ASSUME LeaseType, LeaseInv, GattHoldsLease, LeaseIsReturned, Due \in Nat, Due' \in Nat,
           lease' = Released("reticulum"), UNCHANGED ops, Due' >= Due - 1
    PROVE  Balanced'
<1>1. /\ LeaseType' /\ LeaseInv'
      /\ lease.owner # "reticulum" => lease' = lease
      /\ lease.owner = "reticulum" =>
            /\ lease.depth >= 1 /\ lease'.depth = lease.depth - 1
            /\ lease'.owner = IF lease.depth = 1 THEN "none" ELSE "reticulum"
  BY ReleaseTakes
<1>2. GattHoldsLease'
  BY <1>1 DEF GattHoldsLease
<1>3. LeaseIsReturned'
  BY <1>1 DEF LeaseIsReturned, Due, LeaseType
<1>4. QED
  BY <1>1, <1>2, <1>3 DEF Balanced

(* A LoRa operation counts once from its acquire to its release.           *)
LEMMA GattSteps ==
    ASSUME LeaseTypeOK, LeaseInv, GattHoldsLease, LeaseIsReturned, NEW o \in Ops,
           BeginOp(o) \/ EndOp(o)
    PROVE  Balanced'
<1>1. LeaseType
  BY DEF LeaseTypeOK, LeaseType
<1>2. OpsFinite
  BY OpsAreFinite
<1>3. CASE BeginOp(o)
  <2>1. /\ LeaseType' /\ LeaseInv'
        /\ lease'.owner = "gatt" /\ lease'.depth = lease.depth + 1
    BY <1>1, <1>3, AcquireAdds DEF BeginOp
  <2>2. lease.depth = Cardinality(ops)
    BY <1>1, <1>3, FS_EmptySet DEF GattHoldsLease, BeginOp, CanAcquire, LeaseInv, LeaseType
  <2>3. ops' = ops \cup {o} /\ Cardinality(ops') = Cardinality(ops) + 1
    BY <1>2, <1>3, FS_AddElement DEF BeginOp, OpsFinite
  <2>4. lease' = [owner |-> "gatt", depth |-> Cardinality(ops')]
    BY <2>1, <2>2, <2>3 DEF LeaseType
  <2>5. GattHoldsLease'
    BY <2>3, <2>4 DEF GattHoldsLease
  <2>6. LeaseIsReturned'
    BY <2>1 DEF LeaseIsReturned
  <2>7. QED
    BY <2>1, <2>5, <2>6 DEF Balanced
<1>4. CASE EndOp(o)
  <2>1. lease = [owner |-> "gatt", depth |-> Cardinality(ops)]
    BY <1>4 DEF GattHoldsLease, EndOp
  <2>2. /\ LeaseType' /\ LeaseInv'
        /\ lease'.depth = lease.depth - 1
        /\ lease'.owner = IF lease.depth = 1 THEN "none" ELSE "gatt"
    BY <1>1, <1>4, <2>1, ReleaseTakes DEF EndOp
  <2>3. ops' = ops \ {o} /\ Cardinality(ops') = Cardinality(ops) - 1 /\ IsFiniteSet(ops')
    BY <1>2, <1>4, FS_RemoveElement DEF EndOp, OpsFinite
  <2>4. ops' = {} <=> Cardinality(ops') = 0
    BY <2>3, FS_EmptySet
  <2>5. ops' # {} => lease' = [owner |-> "gatt", depth |-> Cardinality(ops')]
    BY <1>2, <2>1, <2>2, <2>3, <2>4 DEF LeaseType, OpsFinite
  <2>6. lease'.owner = "gatt" => ops' # {}
    BY <1>2, <2>1, <2>2, <2>3, <2>4 DEF OpsFinite
  <2>7. GattHoldsLease' /\ LeaseIsReturned'
    BY <2>2, <2>5, <2>6 DEF GattHoldsLease, LeaseIsReturned
  <2>8. QED
    BY <2>2, <2>7 DEF Balanced
<1>5. QED
  BY <1>3, <1>4

(* What is due is a number, and stays while its parts do.                  *)
LEMMA DueIsNat == Due \in Nat
BY HoldersAreFinite DEF Due, One

LEMMA DueIsNatNext == Due' \in Nat
<1>1. ScanHolders' \in SUBSET Scans /\ StaleAcquires' \in SUBSET Recoveries
  BY DEF ScanHolders, StaleAcquires
<1>2. /\ Cardinality(ScanHolders') \in Nat /\ Cardinality(StaleAcquires') \in Nat
      /\ IsFiniteSet(ScanHolders') /\ IsFiniteSet(StaleAcquires')
  BY <1>1, LeaseAssumption, FS_Subset, FS_CardinalityType
<1>3. QED
  BY <1>2 DEF Due, One

LEMMA DueOfParts ==
    ASSUME ScanHolders' = ScanHolders, StaleAcquires' = StaleAcquires,
           UNCHANGED poll, Holding => Holding'
    PROVE  Due' >= Due
<1>1. One(Holding)' >= One(Holding)
  BY DEF One
<1>2. One(poll # "idle")' = One(poll # "idle")
  OBVIOUS
<1>3. Cardinality(ScanHolders)' = Cardinality(ScanHolders)
  OBVIOUS
<1>4. Cardinality(StaleAcquires)' = Cardinality(StaleAcquires)
  OBVIOUS
<1>5. /\ One(Holding) \in Nat /\ One(Holding)' \in Nat /\ One(poll # "idle") \in Nat
  BY DEF One
<1>6. QED
  BY <1>1, <1>2, <1>3, <1>4, <1>5, HoldersAreFinite DEF Due

-----------------------------------------------------------------------------
(***************************************************************************)
(* The recoveries.                                                         *)
(***************************************************************************)
LEMMA TaskStep ==
    ASSUME LeaseTypeOK, TaskInv, [LeaseNext]_leaseVars PROVE TaskInv'
<1> USE DEF Current
<1>t. /\ RtType /\ TaskType /\ events \in Nat /\ rt.gen \in Nat
      /\ \A r \in Recoveries : task[r].gen \in Nat
  BY LeaseAssumption DEF LeaseTypeOK, RtType, TaskType
<1>1. CASE UNCHANGED <<rt, task>> /\ events' \in {events, events + 1}
  BY <1>1, <1>t DEF TaskInv
<1>2. ASSUME NEW r \in Recoveries, BondRemoved(r) PROVE TaskInv'
  <2>1. /\ events' = events + 1 /\ task[r].pc = "none"
        /\ rt'.gen = rt.gen /\ rt'.hold = TRUE
    BY <1>2, <1>t DEF BondRemoved, Event, RtType
  <2>2. CASE rt.hold
    <3>1. task' = task
      BY <1>2, <2>2 DEF BondRemoved
    <3>2. QED
      BY <1>t, <2>1, <3>1 DEF TaskInv
  <2>3. CASE ~rt.hold
    <3>1. task' = [task EXCEPT ![r] = [pc |-> "central", gen |-> rt.gen]]
      BY <1>2, <2>3 DEF BondRemoved
    <3>2. \A q \in Recoveries : ~Current(q)
      BY <2>3 DEF TaskInv
    <3>3. \A q \in Recoveries : q # r => task'[q] = task[q]
      BY <3>1, <1>t DEF TaskType
    <3>4. task'[r] = [pc |-> "central", gen |-> rt.gen]
      BY <3>1, <1>t DEF TaskType
    <3>5. QED
      BY <1>t, <2>1, <3>2, <3>3, <3>4 DEF TaskInv
  <2>4. QED
    BY <2>2, <2>3
<1>3. ASSUME NEW r \in Recoveries, CentralReleased(r) \/ Prepared(r) PROVE TaskInv'
  <2>1. rt' = rt /\ events' = events
    BY <1>3 DEF CentralReleased, Prepared
  <2>2. \A q \in Recoveries : q # r => task'[q] = task[q]
    BY <1>3, <1>t DEF CentralReleased, Prepared, TaskType
  <2>3. \/ task'[r].pc = "none"
        \/ task'[r].gen = task[r].gen /\ task[r].pc # "none"
    BY <1>3, <1>t DEF CentralReleased, Prepared, TaskType, NoTask
  <2>4. QED
    BY <1>t, <2>1, <2>2, <2>3 DEF TaskInv
<1>4. CASE BondCleared \/ TearDown
  <2>1. /\ events' = events + 1 /\ task' = task /\ rt'.gen = rt.gen + 1
    BY <1>4 DEF BondCleared, TearDown, Event, RecoveryOver
  <2>2. QED
    BY <1>t, <2>1 DEF TaskInv
<1>5. CASE LtkDesync
  <2>1. /\ events' = events + 1 /\ task' = task /\ rt'.gen = rt.gen /\ rt'.hold = rt.hold
    BY <1>5, <1>t DEF LtkDesync, Event, RtType
  <2>2. QED
    BY <1>t, <2>1 DEF TaskInv
<1>6. QED
  BY <1>1, <1>2, <1>3, <1>4, <1>5
     DEF LeaseNext, leaseVars, BeginOp, EndOp, StartScan, Event, ScanAcquires, ScanRefused, ScanEnds,
         ScanReturns, Close, PollAcquires, PollScanned, PollEnds, ExclusiveExpires

-----------------------------------------------------------------------------
(***************************************************************************)
(* Every step leaves the lease balanced.                                   *)
(***************************************************************************)
LEMMA Parts == LeaseIInv => /\ LeaseType /\ RtType /\ TaskType /\ ScanType /\ PickType /\ RestType
                       /\ LeaseInv /\ TaskInv /\ GattHoldsLease /\ LeaseIsReturned
BY LeaseTypeParts DEF LeaseIInv

(* What is due changes by the one that takes or gives back.                *)
LEMMA HoldersGrow ==
    ASSUME NEW s, ScanHolders' = ScanHolders \cup {s}, s \notin ScanHolders,
           UNCHANGED <<poll, task, rt>>
    PROVE  Due' = Due + 1
<1>1. Cardinality(ScanHolders') = Cardinality(ScanHolders) + 1
  BY HoldersAreFinite, FS_AddElement
<1>2. Cardinality(StaleAcquires') = Cardinality(StaleAcquires) /\ Holding' = Holding
  BY DEF StaleAcquires, Holding
<1>3. One(Holding) \in Nat /\ One(poll # "idle") \in Nat
  BY DEF One
<1>4. QED
  BY <1>1, <1>2, <1>3, HoldersAreFinite DEF Due

LEMMA HoldersShrink ==
    ASSUME NEW s, ScanHolders' = ScanHolders \ {s}, s \in ScanHolders,
           UNCHANGED <<poll, task, rt>>
    PROVE  Due' = Due - 1
<1>1. Cardinality(ScanHolders') = Cardinality(ScanHolders) - 1
  BY HoldersAreFinite, FS_RemoveElement
<1>2. Cardinality(StaleAcquires') = Cardinality(StaleAcquires) /\ Holding' = Holding
  BY DEF StaleAcquires, Holding
<1>3. One(Holding) \in Nat /\ One(poll # "idle") \in Nat
  BY DEF One
<1>4. QED
  BY <1>1, <1>2, <1>3, HoldersAreFinite DEF Due

LEMMA PickerSteps ==
    ASSUME LeaseIInv, NEW s \in Scans,
           StartScan(s) \/ ScanAcquires(s) \/ ScanRefused(s) \/ ScanEnds(s) \/ ScanReturns(s)
    PROVE  Balanced'
<1>t. ScanType /\ LeaseType /\ LeaseInv /\ GattHoldsLease /\ LeaseIsReturned
      /\ Due \in Nat /\ Due' \in Nat
  BY Parts, DueIsNat, DueIsNatNext
<1>1. CASE StartScan(s) \/ ScanRefused(s) \/ ScanEnds(s)
  <2>1. ScanHolders' = ScanHolders
    BY <1>1, <1>t DEF ScanHolders, ScanType, StartScan, ScanRefused, ScanEnds
  <2>2. UNCHANGED <<lease, ops, poll, task, rt>>
    BY <1>1 DEF StartScan, ScanRefused, ScanEnds
  <2>3. StaleAcquires' = StaleAcquires /\ Holding' = Holding
    BY <2>2 DEF StaleAcquires, Holding
  <2>4. Due' >= Due
    BY <2>1, <2>2, <2>3, DueOfParts
  <2>5. QED
    BY <1>t, <2>2, <2>4, LeaseIdle
<1>2. CASE ScanAcquires(s)
  <2>1. ScanHolders' = ScanHolders \cup {s} /\ s \notin ScanHolders
    BY <1>2, <1>t DEF ScanHolders, ScanType, ScanAcquires
  <2>2. /\ UNCHANGED <<ops, poll, task, rt>>
        /\ CanAcquire("reticulum") /\ lease' = Acquired("reticulum")
    BY <1>2 DEF ScanAcquires
  <2>3. Due' = Due + 1
    BY <2>1, <2>2, HoldersGrow
  <2>4. QED
    BY <1>t, <2>2, <2>3, ReticulumAcquires
<1>3. CASE ScanReturns(s) /\ scan[s] = "resuming"
  <2>1. ScanHolders' = ScanHolders \ {s} /\ s \in ScanHolders
    BY <1>3, <1>t DEF ScanHolders, ScanType, ScanReturns
  <2>2. UNCHANGED <<ops, poll, task, rt>> /\ lease' = Released("reticulum")
    BY <1>3 DEF ScanReturns
  <2>3. Due' = Due - 1
    BY <2>1, <2>2, HoldersShrink
  <2>4. QED
    BY <1>t, <2>2, <2>3, ReticulumReleases
<1>4. CASE ScanReturns(s) /\ scan[s] # "resuming"
  <2>1. ScanHolders' = ScanHolders
    BY <1>4, <1>t DEF ScanHolders, ScanType, ScanReturns
  <2>2. UNCHANGED <<lease, ops, poll, task, rt>>
    BY <1>4 DEF ScanReturns
  <2>3. StaleAcquires' = StaleAcquires /\ Holding' = Holding
    BY <2>2 DEF StaleAcquires, Holding
  <2>4. Due' >= Due
    BY <2>1, <2>2, <2>3, DueOfParts
  <2>5. QED
    BY <1>t, <2>2, <2>4, LeaseIdle
<1>5. QED
  BY <1>1, <1>2, <1>3, <1>4

LEMMA PollSteps ==
    ASSUME LeaseIInv, Close \/ PollAcquires \/ PollScanned \/ PollEnds
    PROVE  Balanced'
<1>t. LeaseType /\ LeaseInv /\ GattHoldsLease /\ LeaseIsReturned
      /\ Due \in Nat /\ Due' \in Nat
  BY Parts, DueIsNat, DueIsNatNext
<1>1. ScanHolders' = ScanHolders /\ StaleAcquires' = StaleAcquires /\ Holding' = Holding
  BY DEF Close, PollAcquires, PollScanned, PollEnds, ScanHolders, StaleAcquires, Holding
<1>2. Due' - Due = One(poll # "idle")' - One(poll # "idle")
  BY <1>1, HoldersAreFinite DEF Due, One
<1>3. CASE Close
  <2>1. poll' = poll
    BY <1>3 DEF Close
  <2>2. Due' = Due
    <3>1. One(poll # "idle")' = One(poll # "idle") /\ One(poll # "idle") \in Nat
      BY <2>1 DEF One
    <3>2. QED
      BY <1>2, <1>t, <3>1
  <2>3. UNCHANGED ops /\ lease' = Released("reticulum")
    BY <1>3 DEF Close
  <2>4. QED
    BY <1>t, <2>2, <2>3, ReticulumReleases
<1>4. CASE PollAcquires
  <2>1. poll = "idle" /\ poll' = "scanning"
    BY <1>4 DEF PollAcquires
  <2>2. Due' = Due + 1
    <3>1. One(poll # "idle")' = 1 /\ One(poll # "idle") = 0
      BY <2>1 DEF One
    <3>2. QED
      BY <1>2, <1>t, <3>1
  <2>3. UNCHANGED ops /\ CanAcquire("reticulum") /\ lease' = Acquired("reticulum")
    BY <1>4 DEF PollAcquires
  <2>4. QED
    BY <1>t, <2>2, <2>3, ReticulumAcquires
<1>5. CASE PollScanned
  <2>1. poll = "scanning" /\ poll' = "scanned"
    BY <1>5 DEF PollScanned
  <2>2. Due' = Due
    <3>1. One(poll # "idle")' = 1 /\ One(poll # "idle") = 1
      BY <2>1 DEF One
    <3>2. QED
      BY <1>2, <1>t, <3>1
  <2>3. UNCHANGED ops /\ UNCHANGED lease
    BY <1>5 DEF PollScanned
  <2>4. QED
    BY <1>t, <2>2, <2>3, LeaseIdle
<1>6. CASE PollEnds
  <2>1. poll = "scanned" /\ poll' = "idle"
    BY <1>6 DEF PollEnds
  <2>2. Due' = Due - 1
    <3>1. One(poll # "idle")' = 0 /\ One(poll # "idle") = 1
      BY <2>1 DEF One
    <3>2. QED
      BY <1>2, <1>t, <3>1
  <2>3. UNCHANGED ops /\ lease' = Released("reticulum")
    BY <1>6 DEF PollEnds
  <2>4. QED
    BY <1>t, <2>2, <2>3, ReticulumReleases
<1>7. QED
  BY <1>3, <1>4, <1>5, <1>6

(* The counts when no scan of the picker or the poll moves.                *)
LEMMA DueByRecoveries ==
    ASSUME ScanHolders' = ScanHolders, One(poll # "idle")' = One(poll # "idle")
    PROVE  /\ Due' - Due = Cardinality(StaleAcquires)' - Cardinality(StaleAcquires)
                           + One(Holding)' - One(Holding)
           /\ Cardinality(StaleAcquires) \in Nat /\ Cardinality(StaleAcquires)' \in Nat
           /\ IsFiniteSet(StaleAcquires) /\ IsFiniteSet(StaleAcquires')
<1>1. StaleAcquires' \in SUBSET Recoveries
  BY DEF StaleAcquires
<1>2. Cardinality(StaleAcquires') \in Nat /\ IsFiniteSet(StaleAcquires')
  BY <1>1, LeaseAssumption, FS_Subset, FS_CardinalityType
<1>3. Cardinality(ScanHolders)' = Cardinality(ScanHolders)
  OBVIOUS
<1>4. One(Holding) \in Nat /\ One(Holding)' \in Nat /\ One(poll # "idle") \in Nat
  BY DEF One
<1>5. QED
  BY <1>2, <1>3, <1>4, HoldersAreFinite DEF Due

LEMMA BondRemovedStep ==
    ASSUME LeaseIInv, NEW r \in Recoveries, BondRemoved(r) PROVE Balanced'
<1>t. /\ LeaseType /\ LeaseInv /\ GattHoldsLease /\ LeaseIsReturned
      /\ RtType /\ TaskType /\ TaskInv
      /\ Due \in Nat /\ Due' \in Nat
  BY Parts, DueIsNat, DueIsNatNext
<1>1. /\ UNCHANGED <<lease, ops, picker, scan, poll>>
      /\ rt'.gen = rt.gen /\ task[r].pc = "none"
  BY <1>t DEF BondRemoved, RtType
<1>2. ScanHolders' = ScanHolders
  BY <1>1 DEF ScanHolders
<1>3. CASE rt.hold
  <2>1. task' = task /\ rt'.hold
    BY <1>3, <1>t DEF BondRemoved, RtType
  <2>2. StaleAcquires' = StaleAcquires /\ (Holding => Holding')
    BY <1>1, <2>1 DEF StaleAcquires, Holding
  <2>3. QED
    BY <1>t, <1>1, <1>2, <2>2, DueOfParts, LeaseIdle
<1>4. CASE ~rt.hold
  <2>1. task' = [task EXCEPT ![r] = [pc |-> "central", gen |-> rt.gen]]
    BY <1>4 DEF BondRemoved
  <2>2. StaleAcquires' = StaleAcquires
    BY <1>1, <1>t, <2>1 DEF StaleAcquires, TaskType
  <2>3. Holding => Holding'
    BY <1>4 DEF Holding
  <2>4. QED
    BY <1>t, <1>1, <1>2, <2>2, <2>3, DueOfParts, LeaseIdle
<1>5. QED
  BY <1>3, <1>4

LEMMA CentralReleasedStep ==
    ASSUME LeaseIInv, NEW r \in Recoveries, CentralReleased(r) PROVE Balanced'
<1>t. /\ LeaseType /\ LeaseInv /\ GattHoldsLease /\ LeaseIsReturned
      /\ RtType /\ TaskType /\ TaskInv
      /\ Due \in Nat /\ Due' \in Nat
  BY Parts, DueIsNat, DueIsNatNext
<1>1. UNCHANGED <<ops, scan, poll, rt>> /\ task[r].pc = "central"
  BY DEF CentralReleased
<1>2. ScanHolders' = ScanHolders /\ One(poll # "idle")' = One(poll # "idle")
  BY <1>1 DEF ScanHolders
<1>3. CASE task[r].gen # rt.gen
  <2>1. task' = [task EXCEPT ![r] = NoTask] /\ UNCHANGED lease
    BY <1>3 DEF CentralReleased
  <2>2. StaleAcquires' = StaleAcquires
    BY <1>1, <1>t, <2>1 DEF StaleAcquires, TaskType, NoTask
  <2>3. Holding => Holding'
    BY <1>1, <1>t, <2>1 DEF Holding, TaskType, NoTask
  <2>4. QED
    BY <1>t, <1>1, <1>2, <2>1, <2>2, <2>3, DueOfParts, LeaseIdle
<1>4. CASE task[r].gen = rt.gen
  <2>1. /\ task' = [task EXCEPT ![r].pc = "prepare"]
        /\ lease' = IF CanAcquire("reticulum") THEN Acquired("reticulum") ELSE lease
    BY <1>4 DEF CentralReleased
  <2>2. StaleAcquires' = StaleAcquires
    BY <1>1, <1>4, <1>t, <2>1 DEF StaleAcquires, TaskType
  <2>3. ~Holding
    BY <1>1, <1>4 DEF Holding
  <2>4. rt.hold /\ \A q \in Recoveries : q # r => ~Current(q)
    BY <1>1, <1>4, <1>t DEF TaskInv, Current
  <2>5. Holding'
    BY <1>1, <1>t, <2>1, <2>4 DEF Holding, Current, TaskType
  <2>6. Due' = Due + 1
    <3>1. One(Holding) = 0 /\ One(Holding)' = 1
      BY <2>3, <2>5 DEF One
    <3>2. Cardinality(StaleAcquires)' = Cardinality(StaleAcquires)
      BY <2>2
    <3>3. QED
      BY <1>2, <1>t, <3>1, <3>2, DueByRecoveries
  <2>7. CASE CanAcquire("reticulum")
    BY <1>t, <1>1, <2>1, <2>6, <2>7, ReticulumAcquires
  <2>8. CASE ~CanAcquire("reticulum")
    BY <1>t, <1>1, <2>1, <2>6, <2>8, LeaseIdle
  <2>9. QED
    BY <2>7, <2>8
<1>5. QED
  BY <1>3, <1>4

LEMMA PreparedStep ==
    ASSUME LeaseIInv, NEW r \in Recoveries, Prepared(r) PROVE Balanced'
<1>t. /\ LeaseType /\ LeaseInv /\ GattHoldsLease /\ LeaseIsReturned
      /\ RtType /\ TaskType /\ TaskInv
      /\ Due \in Nat /\ Due' \in Nat
  BY Parts, DueIsNat, DueIsNatNext
<1>1. /\ UNCHANGED <<ops, scan, poll, rt>> /\ task[r].pc = "prepare"
      /\ task' = [task EXCEPT ![r] = NoTask]
      /\ lease' = IF task[r].gen # rt.gen THEN Released("reticulum") ELSE lease
  BY DEF Prepared
<1>2. ScanHolders' = ScanHolders /\ One(poll # "idle")' = One(poll # "idle")
  BY <1>1 DEF ScanHolders
<1>3. Holding' = Holding
  BY <1>1, <1>t DEF Holding, TaskType, NoTask
<1>4. CASE task[r].gen # rt.gen
  <2>1. StaleAcquires' = StaleAcquires \ {r} /\ r \in StaleAcquires
    BY <1>1, <1>4, <1>t DEF StaleAcquires, TaskType, NoTask
  <2>2. Cardinality(StaleAcquires)' = Cardinality(StaleAcquires) - 1
    BY <2>1, HoldersAreFinite, FS_RemoveElement
  <2>3. One(Holding)' = One(Holding) /\ One(Holding) \in Nat
    BY <1>3 DEF One
  <2>4. Due' = Due - 1
    BY <1>2, <1>t, <2>2, <2>3, DueByRecoveries
  <2>5. QED
    BY <1>1, <1>4, <1>t, <2>4, ReticulumReleases
<1>5. CASE task[r].gen = rt.gen
  <2>1. StaleAcquires' = StaleAcquires
    BY <1>1, <1>5, <1>t DEF StaleAcquires, TaskType, NoTask
  <2>2. QED
    BY <1>1, <1>2, <1>3, <1>5, <1>t, <2>1, DueOfParts, LeaseIdle
<1>6. QED
  BY <1>4, <1>5

(* A recovery that is over turns its claim into a stale acquire, or gives  *)
(* it back with the release.                                               *)
LEMMA OverStep ==
    ASSUME LeaseIInv, BondCleared \/ TearDown PROVE Balanced'
<1>t. /\ LeaseType /\ LeaseInv /\ GattHoldsLease /\ LeaseIsReturned
      /\ RtType /\ TaskType /\ TaskInv /\ ScanType /\ PickType
      /\ Due \in Nat /\ Due' \in Nat
  BY Parts, DueIsNat, DueIsNatNext
<1>1. UNCHANGED <<ops, task>> /\ rt' = RecoveryOver /\ lease' = Released("reticulum")
  BY DEF BondCleared, TearDown, LeaseAfterRecovery
<1>2. ScanHolders' = ScanHolders
  BY <1>t DEF BondCleared, TearDown, ScanHolders, ScanType
<1>3. One(poll # "idle")' = One(poll # "idle")
  <2>1. poll' # "idle" <=> poll # "idle"
    BY <1>t DEF BondCleared, TearDown, PickType
  <2>2. QED
    BY <2>1 DEF One
<1>4. StaleAcquires \subseteq StaleAcquires'
  <2>1. rt'.gen = rt.gen + 1 /\ rt.gen \in Nat
    BY <1>1, <1>t, LeaseAssumption DEF RecoveryOver, RtType
  <2>2. \A r \in Recoveries : task[r].gen \in Nat
    BY <1>t, LeaseAssumption DEF TaskType
  <2>3. \A r \in Recoveries : task[r].pc = "prepare" => task[r].gen # rt'.gen
    BY <1>t, <2>1, <2>2 DEF TaskInv
  <2>4. QED
    BY <1>1, <2>3 DEF StaleAcquires
<1>5. Cardinality(StaleAcquires)' >= Cardinality(StaleAcquires)
  BY <1>2, <1>3, <1>4, DueByRecoveries, FS_Subset
<1>6. One(Holding) \in 0..1 /\ One(Holding)' \in 0..1
  BY DEF One
<1>7. Due' >= Due - 1
  BY <1>2, <1>3, <1>5, <1>6, <1>t, DueByRecoveries
<1>8. QED
  BY <1>1, <1>7, <1>t, ReticulumReleases

LEMMA QuietStep ==
    ASSUME LeaseIInv, LtkDesync \/ ExclusiveExpires \/ UNCHANGED leaseVars PROVE Balanced'
<1>t. /\ LeaseType /\ LeaseInv /\ GattHoldsLease /\ LeaseIsReturned /\ RtType
      /\ Due \in Nat /\ Due' \in Nat
  BY Parts, DueIsNat, DueIsNatNext
<1>1. /\ UNCHANGED <<lease, ops, scan, poll, task>>
      /\ rt'.gen = rt.gen /\ rt'.hold = rt.hold
  BY <1>t DEF LtkDesync, ExclusiveExpires, leaseVars, RtType
<1>2. ScanHolders' = ScanHolders /\ StaleAcquires' = StaleAcquires /\ (Holding => Holding')
  BY <1>1 DEF ScanHolders, StaleAcquires, Holding
<1>3. QED
  BY <1>1, <1>2, <1>t, DueOfParts, LeaseIdle

-----------------------------------------------------------------------------
(***************************************************************************)
(* The theorems.                                                           *)
(***************************************************************************)
LEMMA LeaseInitIInv == LeaseInit => LeaseIInv
<1> SUFFICES ASSUME LeaseInit PROVE LeaseIInv
  OBVIOUS
<1> USE LeaseAssumption DEF LeaseInit
<1>1. LeaseTypeOK
  <2>1. LeaseType /\ PickType
    BY DEF LeaseType, PickType, Owners
  <2>5. exclusive \in BOOLEAN
    BY Zenon
  <2>6. RestType
    BY <2>5 DEF RestType
  <2>2. RtType
    BY DEF RtType
  <2>3. TaskType /\ ScanType
    BY DEF TaskType, ScanType, NoTask
  <2>4. QED
    BY <2>1, <2>2, <2>3, <2>6, LeaseTypeParts
<1>2. LeaseInv /\ GattHoldsLease /\ LeaseIsReturned
  BY DEF LeaseInv, GattHoldsLease, LeaseIsReturned
<1>3. TaskInv
  BY DEF TaskInv, Current, NoTask
<1>4. QED
  BY <1>1, <1>2, <1>3 DEF LeaseIInv

LEMMA LeaseNextIInv == LeaseIInv /\ [LeaseNext]_leaseVars => LeaseIInv'
<1> SUFFICES ASSUME LeaseIInv, [LeaseNext]_leaseVars PROVE LeaseIInv'
  OBVIOUS
<1>1. Balanced'
  <2>1. ASSUME NEW o \in Ops, BeginOp(o) \/ EndOp(o) PROVE Balanced'
    BY <2>1, GattSteps DEF LeaseIInv
  <2>2. ASSUME NEW s \in Scans,
               StartScan(s) \/ ScanAcquires(s) \/ ScanRefused(s) \/ ScanEnds(s) \/ ScanReturns(s)
        PROVE  Balanced'
    BY <2>2, PickerSteps
  <2>3. ASSUME NEW r \in Recoveries, BondRemoved(r) \/ CentralReleased(r) \/ Prepared(r)
        PROVE  Balanced'
    BY <2>3, BondRemovedStep, CentralReleasedStep, PreparedStep
  <2>4. QED
    BY <2>1, <2>2, <2>3, PollSteps, OverStep, QuietStep DEF LeaseNext
<1>2. TaskInv'
  BY TaskStep DEF LeaseIInv
<1>3. (RtType /\ TaskType /\ ScanType /\ PickType /\ RestType)'
  BY Parts, LeaseTypeStep
<1>4. LeaseTypeOK'
  BY <1>1, <1>3 DEF Balanced, LeaseTypeOK, LeaseType, RtType, TaskType, ScanType, PickType, RestType
<1>5. QED
  BY <1>1, <1>2, <1>4 DEF LeaseIInv, Balanced

(* Every state has the declared types: the depth of the lease never goes   *)
(* below zero, whatever releases arrive.                                   *)
THEOREM LeaseTypeCorrect == LeaseSpec => []LeaseTypeOK
<1>1. LeaseIInv => LeaseTypeOK
  BY DEF LeaseIInv
<1>2. QED
  BY LeaseInitIInv, LeaseNextIInv, <1>1, PTL DEF LeaseSpec

(* No release of Reticulum's side takes the scan lease from a LoRa scan,   *)
(* connect or pairing that runs, and the last of them frees it             *)
(* (acquireScan, releaseScan, withScan).                                   *)
THEOREM LoRaKeepsTheLease == LeaseSpec => []GattHoldsLease
<1>1. LeaseIInv => GattHoldsLease
  BY DEF LeaseIInv
<1>2. QED
  BY LeaseInitIInv, LeaseNextIInv, <1>1, PTL DEF LeaseSpec

(* Reticulum's lease is held no more often than there are scans, polls and *)
(* recoveries that have yet to give it back (useReticulumRuntime's         *)
(* generations, releaseReticulumBleRnodeConnect).                          *)
THEOREM ReticulumReturnsTheLease == LeaseSpec => []LeaseIsReturned
<1>1. LeaseIInv => LeaseIsReturned
  BY DEF LeaseIInv
<1>2. QED
  BY LeaseInitIInv, LeaseNextIInv, <1>1, PTL DEF LeaseSpec
=============================================================================
