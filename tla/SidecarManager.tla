--------------------------- MODULE SidecarManager ---------------------------
(***************************************************************************)
(* ReticulumSidecarManager (reticulum-sidecar-manager.ts): the one child   *)
(* process of the main process, and everybody who starts and stops it.     *)
(* Callers share one start (startPromise) and one stop (stopPromise); a    *)
(* watchdog restarts a child whose HTTP hangs; quitting hurries a stop     *)
(* that is already under way; the child may die at any time.               *)
(*                                                                         *)
(* An action is one block of the event loop, named for what starts it.  A  *)
(* promise's continuations run before the next timer, answer, command or   *)
(* exit is looked at: those wait for ~Resuming.                            *)
(***************************************************************************)
EXTENDS Naturals, FiniteSets

CONSTANTS
    Users,          \* callers of start() (IPC) and of ensureForBle() (GATT proxy)
    BleUsers,       \* the latter
    MaxSpawns,      \* bound: children ever spawned
    MaxCommands,    \* bound: start and stop commands
    Threshold,      \* SIDECAR_WATCHDOG_HUNG_FAILURE_THRESHOLD
    PromptExit      \* a SIGKILLed child has exited before the next is spawned

Pids == 1..MaxSpawns
NoPid == 0
Callers == Users \cup Pids      \* the watchdog of child p calls as p
Stoppers == {"stop", "once"}    \* stopProc of stop(), and of startOnce itself

ASSUME SidecarAssumption ==
    /\ BleUsers \subseteq Users /\ Users \cap Pids = {}
    /\ MaxSpawns \in Nat /\ MaxCommands \in Nat /\ Threshold \in Nat \ {0}
    /\ PromptExit \in BOOLEAN

VARIABLES
    child,      \* [Pids -> {"none", "up", "term", "killed", "gone"}]
    m,          \* the manager's fields
    so,         \* startPromise: the one startOnce in flight, or pc = "none"
    sp,         \* [Stoppers -> ...]: the stopProc calls in flight
    call,       \* startProcess calls: who waits for what
    wd,         \* watchdog of each child: its poll and restart (armed: m.watch)
    commands,   \* commands given
    want,       \* history: the user's last command
    told,       \* history: children that were up when a stop was asked for
    flushed     \* history: children whose flush-state was awaited

vars == <<child, m, so, sp, call, wd, commands, want, told, flushed>>

Fields == [proc : Pids \cup {NoPid}, token : Pids \cup {NoPid},
           runPid : Pids \cup {NoPid}, running : BOOLEAN, bleOnly : BOOLEAN,
           abort : BOOLEAN, quitFast : BOOLEAN, gen : Nat, watch : Pids \cup {NoPid}]

Once == [pc : {"none", "awaitStop", "reuse", "stopStale", "stopOld", "prespawn",
               "health", "stopSick", "live"},
         gen : Nat, ble : BOOLEAN, reuse : BOOLEAN, pid : Pids \cup {NoPid}]

TypeOK ==
    /\ child \in [Pids -> {"none", "up", "term", "killed", "gone"}]
    /\ m \in Fields
    /\ so \in Once
    /\ sp \in [Stoppers -> [pc : {"none", "prepare", "flush", "term"},
                            pid : Pids \cup {NoPid}]]
    /\ call \in [Callers -> [pc : {"idle", "own", "join", "joined", "doomed", "resume"},
                             gen : Nat, ble : BOOLEAN, reuse : BOOLEAN]]
    /\ wd \in [Pids -> [pc : {"idle", "polling", "stopping"},
                        fails : 0..(Threshold - 1), ble : BOOLEAN]]
    /\ commands \in 0..MaxCommands
    /\ want \in {"run", "stop"}
    /\ told \subseteq Pids /\ flushed \subseteq Pids

NoStart == [pc |-> "none", gen |-> 0, ble |-> FALSE, reuse |-> FALSE, pid |-> NoPid]
NoStop  == [pc |-> "none", pid |-> NoPid]
NoCall  == [pc |-> "idle", gen |-> 0, ble |-> FALSE, reuse |-> FALSE]
NoWatch == [pc |-> "idle", fails |-> 0, ble |-> FALSE]

Init ==
    /\ child = [p \in Pids |-> "none"]
    /\ m = [proc |-> NoPid, token |-> NoPid, runPid |-> NoPid, running |-> FALSE,
            bleOnly |-> FALSE, abort |-> FALSE, quitFast |-> FALSE, gen |-> 0,
            watch |-> NoPid]
    /\ so = NoStart
    /\ sp = [s \in Stoppers |-> NoStop]
    /\ call = [c \in Callers |-> NoCall]
    /\ wd = [p \in Pids |-> NoWatch]
    /\ commands = 0 /\ want = "stop" /\ told = {} /\ flushed = {}

Starting    == so.pc # "none"           \* startPromise is set
Stopping(s) == sp[s].pc # "none"        \* for "stop": stopPromise is set

\* Continuations of settled promises that have not run yet.
Resuming ==
    \/ so.pc = "awaitStop" /\ ~Stopping("stop")
    \/ so.pc \in {"stopStale", "stopOld", "stopSick"} /\ ~Stopping("once")
    \/ \E c \in Callers : call[c].pc \in {"joined", "resume"}
    \/ ~Stopping("stop") /\ \E p \in Pids : wd[p].pc = "stopping"

Aborted(gen) == m.abort \/ gen # m.gen

-----------------------------------------------------------------------------
(* The fields. *)

\* getStatus().running: a BLE-only process does not report running.
ReportsRunning(f) == f.running /\ ~f.bleOnly /\ f.proc # NoPid

Finalized(f) ==
    [f EXCEPT !.token = NoPid, !.runPid = NoPid, !.running = FALSE,
              !.bleOnly = FALSE, !.watch = NoPid]

AfterExit(f) == [Finalized(f) EXCEPT !.proc = NoPid]

Unwatched(f) == [f EXCEPT !.watch = NoPid]      \* a poll in flight goes on

-----------------------------------------------------------------------------
(* stopProc.  Each operator is a block of it that ends at an await. *)

\* Take the handle and send SIGTERM; with no handle it is over at once.
TakeAndTerm(s, f) ==
    IF f.proc = NoPid
    THEN /\ m' = Finalized(f)
         /\ sp' = [sp EXCEPT ![s] = NoStop]
         /\ UNCHANGED child
    ELSE /\ m' = [f EXCEPT !.proc = NoPid]
         /\ sp' = [sp EXCEPT ![s] = [pc |-> "term", pid |-> f.proc]]
         /\ child' = [child EXCEPT ![f.proc] = "term"]

FirstRequest(f) == IF f.quitFast THEN "flush" ELSE "prepare"

StopProc(s, f) ==
    IF ReportsRunning(f)
    THEN /\ m' = Unwatched(f)
         /\ sp' = [sp EXCEPT ![s] = [pc |-> FirstRequest(f), pid |-> NoPid]]
         /\ UNCHANGED child
    ELSE TakeAndTerm(s, Unwatched(f))

NeverAgain == FALSE         \* mutant: no second request when quit hurries the stop
FlushOwed == m.quitFast /\ ReportsRunning(m)

\* prepare-stop was answered, timed out, or was aborted by a quit.
PrepareDone(s) ==
    /\ ~Resuming
    /\ sp[s].pc = "prepare"
    /\ IF FlushOwed
       THEN /\ sp' = [sp EXCEPT ![s].pc = "flush"]
            /\ UNCHANGED <<child, m>>
       ELSE TakeAndTerm(s, m)
    /\ UNCHANGED <<so, call, wd, commands, want, told, flushed>>

FlushDone(s) ==
    /\ ~Resuming
    /\ sp[s].pc = "flush"
    /\ flushed' = flushed \cup ({m.proc} \ {NoPid})
    /\ TakeAndTerm(s, m)
    /\ UNCHANGED <<so, call, wd, commands, want, told>>

EscalatedUnset(s) ==        \* mutant: escalateStopKill clears the timer and sets none
    sp[s].pc = "term" /\ ~m.quitFast
KillTimerSet(s) == sp[s].pc = "term"

\* The grace is over: SIGKILL, and do not wait for the exit.
GraceOver(s) ==
    /\ ~Resuming
    /\ KillTimerSet(s)
    /\ child' = [child EXCEPT ![sp[s].pid] = "killed"]
    /\ m' = Finalized(m)
    /\ sp' = [sp EXCEPT ![s] = NoStop]
    /\ UNCHANGED <<so, call, wd, commands, want, told, flushed>>

\* The child's exit event: its handler, then the stopProc waiting for it.
Exit(p) ==
    /\ ~Resuming
    /\ child[p] \in {"up", "term", "killed"}
    /\ child' = [child EXCEPT ![p] = "gone"]
    /\ m' = AfterExit(m)
    /\ sp' = [s \in Stoppers |-> IF sp[s].pc = "term" /\ sp[s].pid = p THEN NoStop ELSE sp[s]]
    /\ UNCHANGED <<so, call, wd, commands, want, told, flushed>>

-----------------------------------------------------------------------------
(* stop() *)

StopJoinsStart == Stopping("stop") \/ so.pc = "health"  \* mutant: leaves the child to the start
StopJoins == Stopping("stop")

\* The start in flight is doomed; a quit hurries this stop.
Doomed == [m EXCEPT !.abort = TRUE, !.gen = @ + 1]
Stopped(quit) == IF quit THEN [Doomed EXCEPT !.quitFast = TRUE] ELSE Doomed

Stop(quit) ==
    /\ told' = told \cup {p \in Pids : child[p] = "up"}
    /\ IF StopJoins
       THEN m' = Stopped(quit) /\ UNCHANGED <<child, sp>>
       ELSE StopProc("stop", Stopped(quit))

StopCommand(quit) ==
    /\ ~Resuming
    /\ commands < MaxCommands
    /\ commands' = commands + 1
    /\ want' = "stop"
    /\ Stop(quit)
    /\ UNCHANGED <<so, call, wd, flushed>>

-----------------------------------------------------------------------------
(* startOnce, from one await to the next. *)

\* Over: its callers go on. A rejected start rejects those that joined it.
OnceOver(ok) ==
    /\ so' = NoStart
    /\ call' = [c \in Callers |->
          CASE call[c].pc = "join" /\ ok -> [call[c] EXCEPT !.pc = "joined"]
            [] call[c].pc = "doomed"     -> [call[c] EXCEPT !.pc = "resume"]
            [] call[c].pc = "own" \/ (call[c].pc = "join" /\ ~ok) -> NoCall
            [] OTHER -> call[c]]

At(o, pc) == so' = [o EXCEPT !.pc = pc]

FreshAnyway(o, f) ==                    \* mutant: the child there is stays
    At(o, "prespawn") /\ m' = f /\ UNCHANGED <<child, sp>>

\* No child to reuse: stop the one there is, then prepare to spawn.
Fresh(o, f) ==
    IF f.proc # NoPid
    THEN At(o, "stopOld") /\ StopProc("once", f)
    ELSE At(o, "prespawn") /\ m' = f /\ UNCHANGED <<child, sp>>

Reusable(o, f) == (o.reuse \/ o.ble \/ f.bleOnly) /\ f.running /\ f.proc # NoPid

Proceed(o, f) ==
    IF Reusable(o, f)
    THEN At(o, "reuse") /\ m' = f /\ UNCHANGED <<child, sp>>
    ELSE Fresh(o, f)

DoesNotWait == FALSE                    \* mutant: stopPromise is not awaited
MustWait == Stopping("stop")

\* startPromise = startOnce(...): a new start clears the abort and the quit.
Launching == [m EXCEPT !.abort = FALSE, !.quitFast = FALSE]
Launched(ble, reuse) ==
    [pc |-> "awaitStop", gen |-> m.gen, ble |-> ble, reuse |-> reuse, pid |-> NoPid]

Launch(c, ble, reuse) ==
    /\ call' = [call EXCEPT ![c] = [NoCall EXCEPT !.pc = "own"]]
    /\ IF MustWait
       THEN so' = Launched(ble, reuse) /\ m' = Launching /\ UNCHANGED <<child, sp>>
       ELSE Proceed(Launched(ble, reuse), Launching)

AwaitedStop ==
    /\ so.pc = "awaitStop" /\ ~Stopping("stop")
    /\ IF Aborted(so.gen)
       THEN OnceOver(FALSE) /\ UNCHANGED <<child, m, sp>>
       ELSE Proceed(so, m) /\ UNCHANGED call
    /\ UNCHANGED <<wd, commands, want, told, flushed>>

\* The running child answered: use it, with the live stack for the UI.
ReuseHealthy ==
    /\ ~Resuming
    /\ so.pc = "reuse"
    /\ IF Aborted(so.gen) \/ so.ble
       THEN OnceOver(~Aborted(so.gen))
       ELSE so' = [so EXCEPT !.pc = "live", !.pid = m.proc] /\ UNCHANGED call
    /\ UNCHANGED <<child, m, sp, wd, commands, want, told, flushed>>

ReuseSick ==
    /\ ~Resuming
    /\ so.pc = "reuse"
    /\ At(so, "stopStale")
    /\ StopProc("once", m)
    /\ UNCHANGED <<call, wd, commands, want, told, flushed>>

StaleStopped ==
    /\ so.pc = "stopStale" /\ ~Stopping("once")
    /\ IF Aborted(so.gen)
       THEN OnceOver(FALSE) /\ UNCHANGED <<child, m, sp>>
       ELSE Fresh(so, m) /\ UNCHANGED call
    /\ UNCHANGED <<wd, commands, want, told, flushed>>

OldStopped ==
    /\ so.pc = "stopOld" /\ ~Stopping("once")
    /\ At(so, "prespawn")
    /\ UNCHANGED <<child, m, sp, call, wd, commands, want, told, flushed>>

\* startLiveStack: stack/start was answered, or aborted by a stop.
LiveStarts ==
    /\ ~Resuming
    /\ so.pc = "live"
    /\ ~Aborted(so.gen) /\ m.proc = so.pid /\ m.proc # NoPid
    /\ m' = [m EXCEPT !.bleOnly = FALSE]
    /\ OnceOver(TRUE)
    /\ UNCHANGED <<child, sp, wd, commands, want, told, flushed>>

LiveFails ==
    /\ ~Resuming
    /\ so.pc = "live"
    /\ OnceOver(FALSE)
    /\ UNCHANGED <<child, m, sp, wd, commands, want, told, flushed>>

\* Free port, cargo and binary checks: they fail, or find the start aborted.
PrespawnFails ==
    /\ ~Resuming
    /\ so.pc = "prespawn"
    /\ m' = [m EXCEPT !.running = FALSE, !.runPid = NoPid]
    /\ OnceOver(FALSE)
    /\ UNCHANGED <<child, sp, wd, commands, want, told, flushed>>

Spawn(p) ==
    /\ ~Resuming
    /\ so.pc = "prespawn" /\ ~Aborted(so.gen)
    /\ child[p] = "none" /\ \A q \in Pids : q < p => child[q] # "none"
    /\ PromptExit => \A q \in Pids : child[q] # "killed"
    /\ child' = [child EXCEPT ![p] = "up"]
    /\ m' = [m EXCEPT !.proc = p, !.token = p, !.bleOnly = so.ble]
    /\ so' = [so EXCEPT !.pc = "health", !.pid = p]
    /\ UNCHANGED <<sp, call, wd, commands, want, told, flushed>>

Trusting == TRUE                        \* mutant: a health answer is enough
NotReplaced == m.proc = so.pid /\ ~Aborted(so.gen)

\* A health answer: it may have been sent before a stop, or before the exit.
HealthOk ==
    /\ ~Resuming
    /\ so.pc = "health"
    /\ IF NotReplaced
       THEN m' = [m EXCEPT !.running = TRUE, !.runPid = so.pid, !.watch = so.pid]
       ELSE UNCHANGED m
    /\ OnceOver(NotReplaced)
    /\ UNCHANGED <<child, sp, wd, commands, want, told, flushed>>

HealthFails ==
    /\ ~Resuming
    /\ so.pc = "health"
    /\ At(so, "stopSick")
    /\ StopProc("once", m)
    /\ UNCHANGED <<call, wd, commands, want, told, flushed>>

SickStopped ==
    /\ so.pc = "stopSick" /\ ~Stopping("once")
    /\ m' = [m EXCEPT !.running = FALSE, !.runPid = NoPid]
    /\ OnceOver(FALSE)
    /\ UNCHANGED <<child, sp, wd, commands, want, told, flushed>>

-----------------------------------------------------------------------------
(* startProcess: launch, join, or wait for a doomed start to be over. *)

Waits(c, pc, ble, reuse) ==
    /\ call' = [call EXCEPT ![c] = [pc |-> pc, gen |-> m.gen, ble |-> ble, reuse |-> reuse]]
    /\ UNCHANGED <<child, m, so, sp>>

StartProcess(c, ble, reuse) ==
    IF ~Starting
    THEN Launch(c, ble, reuse)
    ELSE Waits(c, IF m.abort THEN "doomed" ELSE "join", ble, reuse)

StartCommand(c, reuse) ==
    /\ ~Resuming
    /\ call[c].pc = "idle"
    /\ c \in BleUsers => reuse
    /\ commands < MaxCommands
    /\ commands' = commands + 1
    /\ want' = "run"
    /\ StartProcess(c, c \in BleUsers, reuse)
    /\ UNCHANGED <<wd, told, flushed>>

\* The doomed start is over. Another waiter may have launched meanwhile; a
\* stop that came during the wait is not looked at.
Resume(c) ==
    /\ call[c].pc = "resume"
    /\ IF Starting
       THEN Waits(c, "join", call[c].ble, call[c].reuse)
       ELSE Launch(c, call[c].ble, call[c].reuse)
    /\ UNCHANGED <<wd, commands, want, told, flushed>>

\* The joined start succeeded: the UI promotes a BLE-only child.
Joined(c) ==
    /\ call[c].pc = "joined"
    /\ IF ~call[c].ble /\ m.bleOnly /\ ~Aborted(call[c].gen)
       THEN StartProcess(c, FALSE, TRUE)
       ELSE call' = [call EXCEPT ![c] = NoCall] /\ UNCHANGED <<child, m, so, sp>>
    /\ UNCHANGED <<wd, commands, want, told, flushed>>

-----------------------------------------------------------------------------
(* reticulumSidecarWatchdog.ts *)

Hung(p) == wd[p].fails + 1 >= Threshold

\* The interval fires while the process is alive and running.
Poll(p) ==
    /\ ~Resuming
    /\ m.watch = p /\ wd[p].pc = "idle"
    /\ m.proc # NoPid /\ m.running
    /\ wd' = [wd EXCEPT ![p].pc = "polling"]
    /\ UNCHANGED <<child, m, so, sp, call, commands, want, told, flushed>>

PollOk(p) ==
    /\ ~Resuming
    /\ wd[p].pc = "polling"
    /\ wd' = [wd EXCEPT ![p] = NoWatch]
    /\ UNCHANGED <<child, m, so, sp, call, commands, want, told, flushed>>

\* A hung poll; whether the watchdog was stopped meanwhile is not looked at.
PollFails(p) ==
    /\ ~Resuming
    /\ wd[p].pc = "polling"
    /\ ~Hung(p)
    /\ wd' = [wd EXCEPT ![p] = [NoWatch EXCEPT !.fails = wd[p].fails + 1]]
    /\ UNCHANGED <<child, m, so, sp, call, commands, want, told, flushed>>

\* The last one allowed: restartFn stops, and then starts the same kind.
Restart(p) ==
    /\ ~Resuming
    /\ wd[p].pc = "polling"
    /\ Hung(p)
    /\ wd' = [wd EXCEPT ![p] = [pc |-> "stopping", fails |-> 0, ble |-> m.bleOnly]]
    /\ Stop(FALSE)
    /\ UNCHANGED <<so, call, commands, want, flushed>>

WatchdogStarts(p) ==
    /\ wd[p].pc = "stopping" /\ ~Stopping("stop")
    /\ wd' = [wd EXCEPT ![p] = NoWatch]
    /\ StartProcess(p, wd[p].ble, FALSE)
    /\ UNCHANGED <<commands, want, told, flushed>>

-----------------------------------------------------------------------------
Continue ==
    \/ AwaitedStop \/ StaleStopped \/ OldStopped \/ SickStopped
    \/ \E c \in Callers : Resume(c) \/ Joined(c)
    \/ \E p \in Pids : WatchdogStarts(p)

StartStep ==
    \/ ReuseHealthy \/ ReuseSick \/ LiveStarts \/ LiveFails
    \/ PrespawnFails \/ HealthOk \/ HealthFails
    \/ \E p \in Pids : Spawn(p)

StopStep(s) == PrepareDone(s) \/ FlushDone(s) \/ GraceOver(s)

Next ==
    \/ Continue
    \/ StartStep
    \/ \E s \in Stoppers : StopStep(s)
    \/ \E p \in Pids : Exit(p) \/ Poll(p) \/ PollOk(p) \/ PollFails(p) \/ Restart(p)
    \/ \E c \in Users, reuse \in BOOLEAN : StartCommand(c, reuse)
    \/ \E quit \in BOOLEAN : StopCommand(quit)

Spec == Init /\ [][Next]_vars

(***************************************************************************)
(* Continuations run; every await of startOnce and stopProc is bounded by  *)
(* a timer or a fetch timeout (cargo, which only a development build runs, *)
(* is taken to end); a SIGKILLed process exits.  Nothing is assumed of the *)
(* user, of the watchdog's polls, or of a child that got only a SIGTERM.   *)
(***************************************************************************)
Fairness ==
    /\ WF_vars(Continue)
    /\ WF_vars(StartStep)
    /\ \A s \in Stoppers : WF_vars(StopStep(s))
    /\ \A p \in Pids : WF_vars(child[p] = "killed" /\ Exit(p))

FairSpec == Spec /\ Fairness

-----------------------------------------------------------------------------
(* Properties. *)

(***************************************************************************)
(* At most one child runs: a new one is spawned only after the old one has *)
(* exited or been killed, whoever starts, stops and restarts meanwhile     *)
(* (the comment on stopPromise: "start must await so a fresh spawn does    *)
(* not race SIGTERM exit").                                                *)
(***************************************************************************)
OneStack == Cardinality({p \in Pids : child[p] \in {"up", "term"}}) <= 1

(***************************************************************************)
(* No child is lost: one that was not told to stop is the one the manager  *)
(* holds, with the token it was given, so a stop and a quit can reach it.  *)
(***************************************************************************)
NoOrphan == \A p \in Pids : child[p] = "up" => m.proc = p /\ m.token = p

(***************************************************************************)
(* With no stop under way, a status that says running is about the child   *)
(* that runs, and its watchdog is armed (startOnce's last checks: "a       *)
(* health response landing just before the kill would otherwise report a   *)
(* dead PID as running, connect a WS to a dead port, and arm a watchdog    *)
(* for a process that is already gone").                                   *)
(***************************************************************************)
StatusTruthful ==
    m.running /\ (\A s \in Stoppers : ~Stopping(s)) =>
        /\ m.proc # NoPid /\ child[m.proc] = "up"
        /\ m.runPid = m.proc /\ m.token = m.proc /\ m.watch = m.proc

(***************************************************************************)
(* Quitting, even in the middle of a graceful stop, does not terminate a   *)
(* running stack before a flush-state of its own has been awaited          *)
(* (stopProc: "Quit may cancel prepare-stop before its save finishes").    *)
(***************************************************************************)
QuitFlushes ==
    [][\A p \in Pids :
        child[p] = "up" /\ child'[p] = "term" /\ m.quitFast /\ ReportsRunning(m)
            => p \in flushed']_vars

(***************************************************************************)
(* A stop reaches every child that was up when it was asked for, whatever  *)
(* start, restart or earlier stop was in flight.                           *)
(***************************************************************************)
StopReaches == \A p \in Pids : p \in told ~> child[p] = "gone"

(***************************************************************************)
(* Nobody waits for ever: starts wait for stops, stops for starts' own     *)
(* stops, and doomed starts for both.                                      *)
(***************************************************************************)
CallsReturn ==
    /\ \A c \in Callers : call[c].pc # "idle" ~> call[c].pc = "idle"
    /\ Stopping("stop") ~> ~Stopping("stop")

(***************************************************************************)
(* What reticulum-sidecar-manager.ts:232-234 and its test "does not        *)
(* auto-respawn the sidecar after process exit or stop" say of a stop: no  *)
(* child is spawned after it until the next start.                         *)
(***************************************************************************)
StoppedStaysStopped ==
    [][\A p \in Pids : child[p] = "none" /\ child'[p] = "up" => want = "run"]_vars
=============================================================================
