----------------------------- MODULE GattManager -----------------------------
(***************************************************************************)
(* The GATT sessions of the Rust sidecar: GattManager (gatt/manager.rs),   *)
(* its registry, and the btleplug backend behind it. Every request is a    *)
(* task of a multi-threaded runtime: one action is what a task does        *)
(* between two awaits. An await on a lock that nobody holds does not wait, *)
(* so a handler is only dropped (its client gave up) where it waits for    *)
(* the closing lock or for the backend.                                    *)
(***************************************************************************)
EXTENDS Naturals, FiniteSets

CONSTANTS
    Addrs,          \* peripherals
    Profiles,       \* meshtastic, meshcore
    Connects,       \* requests to connect; each names the session it creates
    Deletes,        \* requests to close a session
    Pairs,          \* requests to pair or unpair (Windows)
    Recovers,       \* whether bonds are recovered (macOS)
    None            \* no address, no profile, no session

ASSUME GattAssumption ==
    /\ Recovers \in BOOLEAN
    /\ None \notin Addrs \cup Profiles \cup Connects
    /\ {"free", "pending"} \cap Connects = {}

VARIABLES
    byAddr,         \* by_address: free, pending (reserved) or a session
    owner,          \* GattRegistry.owners
    sessions,       \* the sessions map
    call,           \* POST /sessions
    drop,           \* calls of drop_session_internal
    pairing,        \* addresses held by pair or unpair
    link,           \* is the peripheral connected
    conn,           \* the backend's connection of a session
    central,        \* LazyBtleplugBackend: adapter, bond_recovery_hold
    wanted,         \* the proxy's rnodeBondRecoveryExclusive
    clearing,       \* its clear-bond-recovery request under way
    release         \* its release-central request

maps == <<byAddr, owner, sessions>>
backend == <<link, conn, central>>
recovery == <<wanted, clearing, release>>
vars == <<byAddr, owner, sessions, call, drop, pairing, link, conn, central,
          wanted, clearing, release>>

\* Who calls drop_session_internal.
Droppers == ({"reclaim", "pump"} \X Connects) \cup ({"delete"} \X Deletes)
            \cup {<<"release", None>>}
\* A mutant: only a lost link and a reclaim forget a session that answers an error.
HalfForced(d) == d[1] \in {"reclaim", "pump"}
Forced(d) == d[1] # "delete"

CallPCs == {"idle", "look", "owner", "reclaim", "dangling", "undangle", "claim", "register",
            "backend", "connecting", "insert", "name", "live", "aborted"}
DropPCs == {"none", "wait", "teardown", "os", "forget", "unmap", "unregister"}

TypeOK ==
    /\ byAddr \in [Addrs -> {"free", "pending"} \cup Connects]
    /\ owner \in [Addrs -> Profiles \cup {None}]
    /\ sessions \subseteq Connects
    /\ call \in [Connects -> [pc : CallPCs, addr : Addrs \cup {None}, prof : Profiles \cup {None},
                              sid : Connects \cup {None}, slow : BOOLEAN, old : BOOLEAN]]
    /\ drop \in [Droppers -> [pc : DropPCs, sid : Connects \cup {None}]]
    /\ pairing \in [Pairs -> Addrs \cup {None}]
    /\ link \in [Addrs -> BOOLEAN]
    /\ conn \in [Connects -> [slot : BOOLEAN, watch : {"off", "on", "lost"},
                              late : {"no", "opening", "lost", "closing", "detached", "stuck"}]]
    /\ central \in [up : BOOLEAN, hold : BOOLEAN]
    /\ wanted \in BOOLEAN /\ clearing \in BOOLEAN
    /\ release \in [pc : {"idle", "asked", "dropping", "dispose", "taking"},
                    ids : SUBSET Connects, todo : SUBSET Connects]

NoCall == [pc |-> "idle", addr |-> None, prof |-> None, sid |-> None,
           slow |-> FALSE, old |-> FALSE]
NoDrop == [pc |-> "none", sid |-> None]
NoConn == [slot |-> FALSE, watch |-> "off", late |-> "no"]
NoRelease == [pc |-> "idle", ids |-> {}, todo |-> {}]

Init ==
    /\ byAddr = [a \in Addrs |-> "free"]
    /\ owner = [a \in Addrs |-> None]
    /\ sessions = {}
    /\ call = [c \in Connects |-> NoCall]
    /\ drop = [d \in Droppers |-> NoDrop]
    /\ pairing = [p \in Pairs |-> None]
    /\ link = [a \in Addrs |-> FALSE]
    /\ conn = [c \in Connects |-> NoConn]
    /\ central = [up |-> FALSE, hold |-> FALSE]
    /\ wanted = FALSE /\ clearing = FALSE
    /\ release = NoRelease

\* The session map's write guard is held while an entry's address is freed.
Removing(d) == drop[d].pc \in {"unmap", "unregister"}
SessionsBusy == \E d \in Droppers : Removing(d)

\* The closing lock of a session.
Closing(d) == drop[d].pc \in {"teardown", "os", "forget", "unmap", "unregister"}
ClosingBusy(s) == \E d \in Droppers : Closing(d) /\ drop[d].sid = s

\* Calls that overran their budget: IsolatedExecutor.stuck.
Stuck == \E c \in Connects : conn[c].late \in {"opening", "closing", "stuck"}

\* A link went down: whoever watches it is told.
Told(a, cs) ==
    [c \in Connects |-> IF call[c].addr = a /\ cs[c].watch = "on"
                        THEN [cs[c] EXCEPT !.watch = "lost"] ELSE cs[c]]

-----------------------------------------------------------------------------
(* drop_session_internal. *)

StartDrop(d, s) == drop' = [drop EXCEPT ![d] = [pc |-> "wait", sid |-> s]]

\* It returns: a reclaim goes on to claim the address.
Returns(d) ==
    /\ drop' = [drop EXCEPT ![d] = NoDrop]
    /\ call' = IF d[1] = "reclaim" THEN [call EXCEPT ![d[2]].pc = "claim"] ELSE call

TakeClosing(d) ==
    /\ drop[d].pc = "wait"
    /\ ~ClosingBusy(drop[d].sid) /\ ~SessionsBusy
    /\ \/ /\ drop[d].sid \in sessions
          /\ drop' = [drop EXCEPT ![d].pc = "teardown"]
          /\ UNCHANGED call
       \/ /\ drop[d].sid \notin sessions
          /\ Returns(d)
    /\ UNCHANGED <<maps, pairing, backend, recovery>>

\* be_disconnect answered. Without force an error leaves the session.
\* A mutant: an error always leaves it.
NeverForced(d, ok) ==
    \/ ok /\ drop' = [drop EXCEPT ![d].pc = "forget"] /\ UNCHANGED call
    \/ ~ok /\ Returns(d)
Answered(d, ok) ==
    \/ /\ ok \/ Forced(d)
       /\ drop' = [drop EXCEPT ![d].pc = "forget"]
       /\ UNCHANGED call
    \/ /\ ~ok /\ ~Forced(d)
       /\ Returns(d)

\* There is no adapter: it is held for the RNode, or cannot be made.
TeardownRefused(d) ==
    /\ drop[d].pc = "teardown"
    /\ ~central.up
    /\ Answered(d, FALSE)
    /\ UNCHANGED <<maps, pairing, backend, recovery>>

\* The backend does not know the connection (any more).
TeardownUnknown(d) ==
    /\ drop[d].pc = "teardown"
    /\ central.up \/ ~central.hold
    /\ ~conn[drop[d].sid].slot
    /\ central' = [central EXCEPT !.up = TRUE]
    /\ Answered(d, TRUE)
    /\ UNCHANGED <<maps, pairing, link, conn, recovery>>

\* The event task is aborted; what it sent already is still delivered.
TeardownBegins(d) ==
    LET s == drop[d].sid IN
    /\ drop[d].pc = "teardown"
    /\ central.up /\ conn[s].slot
    /\ drop' = [drop EXCEPT ![d].pc = "os"]
    /\ conn' = IF conn[s].watch = "on" THEN [conn EXCEPT ![s].watch = "off"] ELSE conn
    /\ call' = IF d[1] = "reclaim" THEN [call EXCEPT ![d[2]].slow = TRUE] ELSE call
    /\ UNCHANGED <<maps, pairing, link, central, recovery>>

Disconnected(d) ==
    LET s == drop[d].sid IN
    /\ drop[d].pc = "os"
    /\ link' = [link EXCEPT ![call[s].addr] = FALSE]
    /\ conn' = Told(call[s].addr, [conn EXCEPT ![s].slot = FALSE])
    /\ Answered(d, TRUE)
    /\ UNCHANGED <<maps, pairing, central, recovery>>

\* An error or five seconds without an answer; the slot is dropped all the same.
DisconnectFails(d) ==
    /\ drop[d].pc = "os"
    /\ conn' = [conn EXCEPT ![drop[d].sid].slot = FALSE]
    /\ Answered(d, FALSE)
    /\ UNCHANGED <<maps, pairing, link, central, recovery>>

\* The call blocks beyond its budget and goes on by itself.
DisconnectOverruns(d) ==
    /\ drop[d].pc = "os"
    /\ conn' = [conn EXCEPT ![drop[d].sid].late = "stuck"]
    /\ Answered(d, FALSE)
    /\ UNCHANGED <<maps, pairing, link, central, recovery>>

Forget(d) ==
    /\ drop[d].pc = "forget"
    /\ ~SessionsBusy
    /\ sessions' = sessions \ {drop[d].sid}
    /\ drop' = [drop EXCEPT ![d].pc = "unmap"]
    /\ UNCHANGED <<byAddr, owner, call, pairing, backend, recovery>>

Unmap(d) ==
    /\ drop[d].pc = "unmap"
    /\ byAddr' = [byAddr EXCEPT ![call[drop[d].sid].addr] = "free"]
    /\ drop' = [drop EXCEPT ![d].pc = "unregister"]
    /\ UNCHANGED <<owner, sessions, call, pairing, backend, recovery>>

\* unregister: only the owner's own entry.
Unregistered(a, p) == IF owner[a] = p THEN [owner EXCEPT ![a] = None] ELSE owner

Unregister(d) ==
    /\ drop[d].pc = "unregister"
    /\ owner' = Unregistered(call[drop[d].sid].addr, call[drop[d].sid].prof)
    /\ Returns(d)
    /\ UNCHANGED <<byAddr, sessions, pairing, backend, recovery>>

DropStep(d) ==
    \/ TeardownRefused(d) \/ TeardownUnknown(d) \/ TeardownBegins(d)
    \/ Disconnected(d) \/ DisconnectFails(d) \/ DisconnectOverruns(d)
    \/ Forget(d) \/ Unmap(d) \/ Unregister(d)

-----------------------------------------------------------------------------
(* POST /sessions: GattManager::connect. *)

\* Nothing refers to c: it may name the next request.
Unused(c) ==
    /\ call[c].pc \in {"idle", "live"} /\ c \notin sessions
    /\ conn[c] = NoConn
    /\ \A a \in Addrs : byAddr[a] # c
    /\ \A d \in Droppers : drop[d].sid # c
    /\ \A o \in Connects : call[o].sid # c
    /\ c \notin release.ids

Post(c, a, p) ==
    /\ Unused(c) /\ ~wanted
    /\ call' = [call EXCEPT ![c] = [NoCall EXCEPT !.pc = "look", !.addr = a, !.prof = p]]
    /\ UNCHANGED <<maps, drop, pairing, backend, recovery>>

\* reclaim_stale_same_profile.
Look(c) ==
    /\ call[c].pc = "look"
    /\ call' = IF byAddr[call[c].addr] \in {"free", "pending"}
               THEN [call EXCEPT ![c].pc = "claim"]
               ELSE [call EXCEPT ![c].pc = "owner", ![c].sid = byAddr[call[c].addr]]
    /\ UNCHANGED <<maps, drop, pairing, backend, recovery>>

Goes(c, pc) == call' = [call EXCEPT ![c].pc = pc, ![c].sid = None]
Refused(c) == call' = [call EXCEPT ![c] = NoCall]

Owner(c) ==
    LET s == call[c].sid IN
    /\ call[c].pc = "owner"
    /\ ~SessionsBusy
    /\ \/ /\ s \in sessions /\ call[s].prof = call[c].prof
          /\ Goes(c, "reclaim") /\ StartDrop(<<"reclaim", c>>, s)
       \/ /\ s \in sessions /\ call[s].prof # call[c].prof
          /\ Goes(c, "claim") /\ UNCHANGED drop
       \/ /\ s \notin sessions
          /\ call' = [call EXCEPT ![c].pc = "dangling"] /\ UNCHANGED drop
    /\ UNCHANGED <<maps, pairing, backend, recovery>>

\* Freed only if the address still names the session that was looked up.
\* A mutant: it is freed whatever it names now.
AlwaysStale(c) ==
    /\ call[c].pc = "dangling"
    /\ byAddr' = [byAddr EXCEPT ![call[c].addr] = "free"]
    /\ Goes(c, "undangle")
    /\ UNCHANGED <<owner, sessions, drop, pairing, backend, recovery>>
Dangling(c) ==
    LET a == call[c].addr
        stale == byAddr[a] = call[c].sid IN
    /\ call[c].pc = "dangling"
    /\ byAddr' = IF stale THEN [byAddr EXCEPT ![a] = "free"] ELSE byAddr
    /\ Goes(c, IF stale THEN "undangle" ELSE "claim")
    /\ UNCHANGED <<owner, sessions, drop, pairing, backend, recovery>>

Undangle(c) ==
    /\ call[c].pc = "undangle"
    /\ owner' = Unregistered(call[c].addr, call[c].prof)
    /\ Goes(c, "claim")
    /\ UNCHANGED <<byAddr, sessions, drop, pairing, backend, recovery>>

Claim(c) ==
    LET a == call[c].addr IN
    /\ call[c].pc = "claim"
    /\ \/ /\ byAddr[a] = "free"
          /\ byAddr' = [byAddr EXCEPT ![a] = "pending"]
          /\ Goes(c, "register")
       \/ /\ byAddr[a] # "free"                       \* mac_conflict
          /\ Refused(c) /\ UNCHANGED byAddr
    /\ UNCHANGED <<owner, sessions, drop, pairing, backend, recovery>>

Register(c) ==
    LET a == call[c].addr
        mine == owner[a] \in {None, call[c].prof} IN
    /\ call[c].pc = "register"
    /\ owner' = IF mine THEN [owner EXCEPT ![a] = call[c].prof] ELSE owner
    /\ byAddr' = IF mine THEN byAddr ELSE [byAddr EXCEPT ![a] = "free"]
    /\ IF mine THEN Goes(c, "backend") ELSE Refused(c)
    /\ UNCHANGED <<sessions, drop, pairing, backend, recovery>>

\* The error path of connect.
\* A mutant: the reservation is left behind.
KeepsReservation(c) ==
    /\ owner' = Unregistered(call[c].addr, call[c].prof)
    /\ UNCHANGED byAddr
Fails(c) ==
    /\ owner' = Unregistered(call[c].addr, call[c].prof)
    /\ byAddr' = [byAddr EXCEPT ![call[c].addr] = "free"]

BackendRefuses(c) ==
    /\ call[c].pc = "backend"
    /\ Stuck \/ ~central.up
    /\ Fails(c) /\ Refused(c)
    /\ UNCHANGED <<sessions, drop, pairing, backend, recovery>>

BackendBegins(c) ==
    /\ call[c].pc = "backend"
    /\ ~Stuck
    /\ central.up \/ ~central.hold
    /\ central' = [central EXCEPT !.up = TRUE]
    /\ Goes(c, "connecting")
    /\ UNCHANGED <<maps, drop, pairing, link, conn, recovery>>

\* The link is up; a central disposed of meanwhile took the slot with it.
Opened(c) ==
    /\ call[c].pc = "connecting"
    /\ link' = [link EXCEPT ![call[c].addr] = TRUE]
    /\ conn' = [conn EXCEPT ![c] = [slot |-> ~call[c].old, watch |-> "on", late |-> "no"]]
    /\ call' = [call EXCEPT ![c].pc = "insert", ![c].slow = FALSE, ![c].old = FALSE]
    /\ UNCHANGED <<maps, drop, pairing, central, recovery>>

\* setup_with_cleanup: the link is closed again, unless that fails too.
ConnectFails(c) ==
    /\ call[c].pc = "connecting"
    /\ \E up \in {FALSE, link[call[c].addr]} :
          /\ link' = [link EXCEPT ![call[c].addr] = up]
          /\ conn' = IF up THEN conn ELSE Told(call[c].addr, conn)
    /\ Fails(c) /\ Refused(c)
    /\ UNCHANGED <<sessions, drop, pairing, central, recovery>>

ConnectOverruns(c) ==
    /\ call[c].pc = "connecting"
    /\ conn' = [conn EXCEPT ![c].late = "opening"]
    /\ Fails(c) /\ Goes(c, "idle")
    /\ UNCHANGED <<sessions, drop, pairing, link, central, recovery>>

Insert(c) ==
    /\ call[c].pc = "insert"
    /\ ~SessionsBusy
    /\ sessions' = sessions \cup {c}
    /\ Goes(c, "name")
    /\ UNCHANGED <<byAddr, owner, drop, pairing, backend, recovery>>

\* The address names the session, the event pump is spawned, the client answered.
Name(c) ==
    /\ call[c].pc = "name"
    /\ byAddr' = [byAddr EXCEPT ![call[c].addr] = c]
    /\ Goes(c, "live")
    /\ UNCHANGED <<owner, sessions, drop, pairing, backend, recovery>>

ConnectStep(c) ==
    \/ Look(c) \/ Owner(c) \/ Dangling(c) \/ Undangle(c) \/ Claim(c) \/ Register(c)
    \/ BackendRefuses(c) \/ BackendBegins(c) \/ Opened(c) \/ ConnectFails(c)
    \/ ConnectOverruns(c) \/ Insert(c) \/ Name(c)

-----------------------------------------------------------------------------
(* Clients that give up: their handler is dropped where it waits. *)

\* The proxy waits 45 seconds: less than a reclaim and a connect may take. The
\* backend's task goes on, and its result is thrown away.
AbandonConnect(c) ==
    /\ call[c].pc = "connecting" /\ call[c].slow
    /\ Goes(c, "aborted")
    /\ conn' = [conn EXCEPT ![c].late = "lost"]
    /\ UNCHANGED <<maps, drop, pairing, link, central, recovery>>

\* The proxy waits 3 seconds for a DELETE.
AbandonDelete(d) ==
    LET s == drop[d].sid IN
    /\ d[1] = "delete" /\ drop[d].pc \in {"wait", "teardown", "os"}
    /\ Returns(d)
    /\ conn' = IF drop[d].pc = "os" /\ conn[s].late = "no"
               THEN [conn EXCEPT ![s].late = "detached"] ELSE conn
    /\ UNCHANGED <<maps, pairing, link, central, recovery>>

\* A connect nobody waits for ends. After an overrun it is closed again.
LateConnects(c) ==
    /\ conn[c].late \in {"opening", "lost"}
    /\ \/ /\ conn' = [conn EXCEPT ![c].late = "no"]
          /\ UNCHANGED link
       \/ /\ link' = [link EXCEPT ![call[c].addr] = TRUE]
          /\ conn' = [conn EXCEPT ![c] =
                [slot |-> ~call[c].old, watch |-> "off",
                 late |-> IF conn[c].late = "opening" THEN "closing" ELSE "no"]]
    /\ UNCHANGED <<maps, call, drop, pairing, central, recovery>>

\* A disconnect nobody waits for ends.
LateDisconnects(c) ==
    /\ conn[c].late \in {"closing", "detached", "stuck"}
    /\ LET closed == [conn EXCEPT ![c].slot = FALSE, ![c].late = "no"] IN
       \/ conn' = closed /\ UNCHANGED link
       \/ /\ conn' = Told(call[c].addr, closed)
          /\ link' = [link EXCEPT ![call[c].addr] = FALSE]
    /\ UNCHANGED <<maps, call, drop, pairing, central, recovery>>

-----------------------------------------------------------------------------
(* What the radio does, and the sessions' event pumps. *)

LinkLost(a) ==
    /\ link[a]
    /\ link' = [link EXCEPT ![a] = FALSE]
    /\ conn' = Told(a, conn)
    /\ UNCHANGED <<maps, call, drop, pairing, central, recovery>>

\* A stalled read, or notifications that ended.
StreamEnds(c) ==
    /\ conn[c].watch = "on"
    /\ conn' = [conn EXCEPT ![c].watch = "lost"]
    /\ UNCHANGED <<maps, call, drop, pairing, link, central, recovery>>

\* BackendEvent::Disconnected.
Pump(c) ==
    /\ conn[c].watch = "lost" /\ call[c].pc = "live"
    /\ ~SessionsBusy
    /\ conn' = [conn EXCEPT ![c].watch = "off"]
    /\ IF c \in sessions THEN StartDrop(<<"pump", c>>, c) ELSE UNCHANGED drop
    /\ UNCHANGED <<maps, call, pairing, link, central, recovery>>

-----------------------------------------------------------------------------
(* DELETE, pairing, and the recovery of a bond. *)

Delete(d, s) ==
    /\ drop[<<"delete", d>>] = NoDrop
    /\ s \in sessions /\ call[s].pc = "live"
    /\ ~SessionsBusy
    /\ StartDrop(<<"delete", d>>, s)
    /\ UNCHANGED <<maps, call, pairing, backend, recovery>>

\* reserve_idle_address.
Pair(p, a) ==
    /\ pairing[p] = None
    /\ byAddr[a] = "free"
    /\ byAddr' = [byAddr EXCEPT ![a] = "pending"]
    /\ pairing' = [pairing EXCEPT ![p] = a]
    /\ UNCHANGED <<owner, sessions, call, drop, backend, recovery>>

\* The drop of its AddressReservation.
PairEnds(p) ==
    LET a == pairing[p] IN
    /\ a # None
    /\ byAddr' = IF byAddr[a] = "pending" THEN [byAddr EXCEPT ![a] = "free"] ELSE byAddr
    /\ pairing' = [pairing EXCEPT ![p] = None]
    /\ UNCHANGED <<owner, sessions, call, drop, backend, recovery>>

\* releaseBleCentral sets the proxy's latch and then sends release-central.
\* Bound: one such request at a time.
WantCentral ==
    /\ Recovers /\ ~wanted /\ release.pc = "idle"
    /\ wanted' = TRUE
    /\ release' = [NoRelease EXCEPT !.pc = "asked"]
    /\ UNCHANGED <<maps, call, drop, pairing, backend, clearing>>

\* release_ble_central: the sessions there are now.
ReleaseBegins ==
    /\ release.pc = "asked"
    /\ ~SessionsBusy
    /\ release' = [pc |-> "dropping", ids |-> sessions, todo |-> sessions]
    /\ UNCHANGED <<maps, call, drop, pairing, backend, wanted, clearing>>

ReleaseNext ==
    LET r == <<"release", None>> IN
    /\ release.pc = "dropping" /\ drop[r] = NoDrop
    /\ \/ \E s \in release.todo :
             /\ StartDrop(r, s)
             /\ release' = [release EXCEPT !.todo = @ \ {s}]
       \/ /\ release.todo = {}
          /\ release' = [release EXCEPT !.pc = "dispose"]
          /\ UNCHANGED drop
    /\ UNCHANGED <<maps, call, pairing, backend, wanted, clearing>>

\* dispose_adapter.
Hold ==
    /\ release.pc = "dispose"
    /\ central' = [central EXCEPT !.hold = TRUE]
    /\ release' = [release EXCEPT !.pc = "taking"]
    /\ UNCHANGED <<maps, call, drop, pairing, link, conn, wanted, clearing>>

Dispose ==
    /\ release.pc = "taking"
    /\ central' = [central EXCEPT !.up = FALSE]
    /\ conn' = [c \in Connects |-> [conn[c] EXCEPT !.slot = FALSE]]
    /\ call' = [c \in Connects |->
                  IF call[c].pc \in {"connecting", "aborted"} \/ conn[c].late = "opening"
                  THEN [call[c] EXCEPT !.old = TRUE] ELSE call[c]]
    /\ release' = NoRelease
    /\ UNCHANGED <<maps, drop, pairing, link, wanted, clearing>>

\* The recovery is over, or ten minutes have passed.
Unwant ==
    /\ wanted
    /\ wanted' = FALSE /\ clearing' = TRUE
    /\ UNCHANGED <<maps, call, drop, pairing, backend, release>>

ClearHold ==
    /\ clearing
    /\ clearing' = FALSE
    /\ central' = [central EXCEPT !.hold = FALSE]
    /\ UNCHANGED <<maps, call, drop, pairing, link, conn, wanted, release>>

-----------------------------------------------------------------------------
Next ==
    \/ \E d \in Droppers : TakeClosing(d) \/ DropStep(d) \/ AbandonDelete(d)
    \/ \E c \in Connects : ConnectStep(c) \/ AbandonConnect(c) \/ Pump(c)
                          \/ LateConnects(c) \/ LateDisconnects(c) \/ StreamEnds(c)
    \/ \E c \in Connects, a \in Addrs, p \in Profiles : Post(c, a, p)
    \/ \E a \in Addrs : LinkLost(a)
    \/ \E d \in Deletes, s \in Connects : Delete(d, s)
    \/ \E p \in Pairs : (\E a \in Addrs : Pair(p, a)) \/ PairEnds(p)
    \/ WantCentral \/ ReleaseBegins \/ ReleaseNext \/ Hold \/ Dispose
    \/ Unwant \/ ClearHold

\* Tasks go on, and tokio's locks are granted in order of arrival (SF where one
\* is waited for); a radio, a user or a client that gives up owes nothing.
Fairness ==
    /\ \A d \in Droppers : WF_vars(DropStep(d)) /\ SF_vars(TakeClosing(d))
    /\ \A c \in Connects : WF_vars(ConnectStep(c)) /\ SF_vars(Pump(c))

Spec == Init /\ [][Next]_vars
FairSpec == Spec /\ Fairness

-----------------------------------------------------------------------------
\* Connects between their claim of an address and their end.
Claiming(c) == call[c].pc \in {"register", "backend", "connecting", "insert", "name"}

\* Who uses an address.
Users(a) ==
    {<<"connect", c>> : c \in {o \in Connects : Claiming(o) /\ o \notin sessions /\ call[o].addr = a}}
    \cup {<<"session", c>> : c \in {o \in sessions : call[o].addr = a}}
    \cup {<<"pair", p>> : p \in {o \in Pairs : pairing[o] = a}}

\* However requests, retries, lost links and late answers interleave, an
\* address is never used by two of: a connect under way, a session, a pairing.
OneUser == \A a \in Addrs : Cardinality(Users(a)) <= 1

\* by_address and the registry hold no address for nobody: who finds a
\* mac_conflict has somebody to wait for. (Except after AbandonConnect: the
\* handler of a dropped connect frees nothing.)
NothingLeaks ==
    \A a \in Addrs :
        \/ \E c \in Connects : call[c].pc = "aborted" /\ call[c].addr = a
        \/ /\ byAddr[a] = "pending" => Users(a) # {}
           /\ byAddr[a] \in Connects =>
                \/ byAddr[a] \in sessions
                \/ \E d \in Droppers : Removing(d) /\ drop[d].sid = byAddr[a]
           /\ owner[a] # None =>
                \/ Users(a) # {}
                \/ \E d \in Droppers : Removing(d) /\ call[drop[d].sid].addr = a

\* While the hold is set the adapter is not made again: not by a connect that
\* was under way, not by the teardown of a session that outlived it.
HoldKeepsAdapterDown ==
    central.hold /\ release.pc # "taking" => ~central.up

\* Whatever its disconnects answer, release_ble_central has forgotten every
\* session it found before it takes the adapter away.
ReleasedAreForgotten ==
    release.pc \in {"dispose", "taking"} => release.ids \cap sessions = {}

\* A session whose link was reported lost is forgotten, whatever the adapter
\* answers: the radio can be connected again after a power loss.
LostLinkIsForgotten ==
    \A c \in Connects :
        (conn[c].watch = "lost" /\ call[c].pc = "live") ~> (c \notin sessions)

-----------------------------------------------------------------------------
(* What comments say and the code does not. *)

\* manager.rs: "Reclaim so reconnect is not stuck on mac_conflict forever".
ReservationsHaveOwners ==
    \A a \in Addrs : byAddr[a] = "pending" => Users(a) # {}

\* manager.rs: "Keep ownership until OS teardown completes. Explicit DELETE
\* retries on error".
DeletedMeansDisconnected ==
    \A d \in Droppers : ~Forced(d) /\ drop[d].pc = "forget" => ~link[call[drop[d].sid].addr]

\* manager.rs: "Disconnect every LoRa GATT session and drop the btleplug
\* CBCentralManager so an RNode bond-recovery connect is the only
\* CoreBluetooth central".
RecoveryHasNoSession == central.hold /\ release.pc # "taking" => sessions = {}

\* gatt-sidecar-proxy.ts: "Auto-clears after 10 minutes so a stuck latch cannot
\* brick MeshCore/Meshtastic forever".
HoldIsLifted == ~wanted /\ ~clearing /\ release.pc = "idle" => ~central.hold

=============================================================================
