------------------------ MODULE SidecarManagerProofs ------------------------
(***************************************************************************)
(* The sidecar manager never runs two children, loses none, reports no     *)
(* dead one as running and flushes before a quit, for any number of        *)
(* callers, children and commands: proofs about SidecarManager.            *)
(***************************************************************************)
EXTENDS SidecarManager, FiniteSetTheorems, TLAPS

-----------------------------------------------------------------------------
(***************************************************************************)
(* The inductive invariant.                                                *)
(***************************************************************************)
Alive(p)    == child[p] \in {"up", "term", "killed"}
Ending(s)   == sp[s].pc = "term"
StopsFirst  == {"stopStale", "stopOld", "stopSick"}

(* One child at most has not exited.                                       *)
AliveInv == \A p, q \in Pids : Alive(p) /\ Alive(q) => p = q

(* The handle is that of the child nobody told to stop, with its token.    *)
HandleInv ==
    /\ \A p \in Pids : child[p] = "up" <=> m.proc = p
    /\ \A p \in Pids : child[p] = "up" => m.token = p

(* A child that got SIGTERM is awaited by the stop that took its handle.   *)
TermInv ==
    /\ \A p \in Pids : child[p] = "term" => \E s \in Stoppers : Ending(s) /\ sp[s].pid = p
    /\ \A s \in Stoppers : Ending(s) => sp[s].pid \in Pids /\ child[sp[s].pid] = "term"
    /\ \A s, t \in Stoppers : Ending(s) /\ Ending(t) => s = t

ChildInv == AliveInv /\ HandleInv /\ TermInv

(* A start that ran a stop of its own, or needed none, holds no handle.    *)
StartInv ==
    /\ Stopping("once") => so.pc \in StopsFirst
    /\ so.pc \in StopsFirst /\ ~Stopping("once") => m.proc = NoPid
    /\ so.pc = "prespawn" => m.proc = NoPid
    /\ so.pc = "health" => so.pid # NoPid

(* A stop dooms the start it finds, unless that start still waits for it.  *)
GenInv ==
    /\ so.gen <= m.gen
    /\ Stopping("stop") /\ Starting /\ so.pc # "awaitStop" => Aborted(so.gen)

(* Nothing but a stop makes what the status says untrue.                   *)
RunInv ==
    m.running /\ (\A s \in Stoppers : ~Stopping(s)) =>
        m.proc # NoPid /\ m.runPid = m.proc /\ m.watch = m.proc

IInv == TypeOK /\ ChildInv /\ StartInv /\ GenInv /\ RunInv

-----------------------------------------------------------------------------
(***************************************************************************)
(* Types.                                                                  *)
(***************************************************************************)
ChildType == child \in [Pids -> {"none", "up", "term", "killed", "gone"}]
StopType  == sp \in [Stoppers -> [pc : {"none", "prepare", "flush", "term"},
                                  pid : Pids \cup {NoPid}]]
CallType  == call \in [Callers -> [pc : {"idle", "own", "join", "joined", "doomed", "resume"},
                                   gen : Nat, ble : BOOLEAN, reuse : BOOLEAN]]

LEMMA PidFacts == Pids \subseteq Nat /\ NoPid \notin Pids /\ Pids \subseteq Callers /\ Users \subseteq Callers
BY SidecarAssumption DEF Pids, NoPid, Callers

LEMMA FieldsFinal ==
    ASSUME NEW f \in Fields
    PROVE  /\ Finalized(f) \in Fields
           /\ Finalized(f).proc = f.proc /\ Finalized(f).gen = f.gen
           /\ Finalized(f).abort = f.abort /\ ~Finalized(f).running
           /\ AfterExit(f) \in Fields
           /\ AfterExit(f).proc = NoPid /\ AfterExit(f).gen = f.gen
           /\ AfterExit(f).abort = f.abort /\ ~AfterExit(f).running
BY DEF Fields, Finalized, AfterExit

(* The blocks of stopProc.                                                 *)
LEMMA TakeType ==
    ASSUME TypeOK, NEW s \in Stoppers, NEW f \in Fields, TakeAndTerm(s, f)
    PROVE  /\ ChildType' /\ StopType' /\ m' \in Fields
           /\ m'.proc = NoPid /\ m'.gen = f.gen /\ m'.abort = f.abort
           /\ \A t \in Stoppers \ {s} : sp'[t] = sp[t]
           /\ \/ f.proc = NoPid /\ sp'[s] = NoStop /\ child' = child /\ ~m'.running
              \/ /\ f.proc \in Pids /\ sp'[s] = [pc |-> "term", pid |-> f.proc]
                 /\ child' = [child EXCEPT ![f.proc] = "term"]
<1>1. CASE f.proc = NoPid
  <2>1. /\ m' = Finalized(f)
        /\ sp' = [sp EXCEPT ![s] = NoStop]
        /\ child' = child
    BY <1>1 DEF TakeAndTerm
  <2>2. /\ m' \in Fields /\ ~m'.running
        /\ m'.proc = NoPid /\ m'.gen = f.gen /\ m'.abort = f.abort
    BY <1>1, <2>1, FieldsFinal
  <2>3. ChildType' /\ StopType'
    BY <2>1 DEF TypeOK, ChildType, StopType, NoStop
  <2>4. sp'[s] = NoStop /\ \A t \in Stoppers \ {s} : sp'[t] = sp[t]
    BY <2>1 DEF TypeOK
  <2> QED
    BY <1>1, <2>1, <2>2, <2>3, <2>4
<1>2. CASE f.proc # NoPid
  <2>1. f.proc \in Pids
    BY <1>2 DEF Fields
  <2>2. /\ m' = [f EXCEPT !.proc = NoPid]
        /\ sp' = [sp EXCEPT ![s] = [pc |-> "term", pid |-> f.proc]]
        /\ child' = [child EXCEPT ![f.proc] = "term"]
    BY <1>2 DEF TakeAndTerm
  <2>3. /\ m' \in Fields /\ m'.proc = NoPid /\ m'.gen = f.gen /\ m'.abort = f.abort
    BY <2>2 DEF Fields
  <2>4. ChildType' /\ StopType'
    BY <2>1, <2>2 DEF TypeOK, ChildType, StopType
  <2>5. \A t \in Stoppers \ {s} : sp'[t] = sp[t]
    BY <2>2 DEF TypeOK
  <2>6. sp'[s] = [pc |-> "term", pid |-> f.proc]
    BY <2>2 DEF TypeOK
  <2> QED
    BY <2>1, <2>2, <2>3, <2>4, <2>5, <2>6
<1> QED
  BY <1>1, <1>2

LEMMA UnwatchedType ==
    ASSUME NEW f \in Fields
    PROVE  /\ Unwatched(f) \in Fields
           /\ Unwatched(f).gen = f.gen /\ Unwatched(f).abort = f.abort
           /\ Unwatched(f).proc = f.proc /\ Unwatched(f).token = f.token
BY DEF Fields, Unwatched

LEMMA StopProcType ==
    ASSUME TypeOK, NEW s \in Stoppers, NEW f \in Fields, StopProc(s, f)
    PROVE  /\ ChildType' /\ StopType' /\ m' \in Fields
           /\ m'.gen = f.gen /\ m'.abort = f.abort
           /\ \A t \in Stoppers \ {s} : sp'[t] = sp[t]
           /\ \/ /\ ReportsRunning(f) /\ sp'[s].pc \in {"prepare", "flush"}
                 /\ child' = child /\ m'.proc = f.proc /\ m'.token = f.token
              \/ ~ReportsRunning(f) /\ TakeAndTerm(s, Unwatched(f))
<1>1. CASE ReportsRunning(f)
  <2>1. /\ m' = Unwatched(f) /\ child' = child
        /\ sp' = [sp EXCEPT ![s] = [pc |-> FirstRequest(f), pid |-> NoPid]]
    BY <1>1 DEF StopProc
  <2>2. FirstRequest(f) \in {"prepare", "flush"}
    BY DEF FirstRequest
  <2>3. StopType' /\ ChildType' /\ sp'[s].pc \in {"prepare", "flush"}
    BY <2>1, <2>2 DEF TypeOK, StopType, ChildType
  <2>4. \A t \in Stoppers \ {s} : sp'[t] = sp[t]
    BY <2>1 DEF TypeOK
  <2> QED
    BY <1>1, <2>1, <2>3, <2>4, UnwatchedType
<1>2. CASE ~ReportsRunning(f)
  <2>1. TakeAndTerm(s, Unwatched(f))
    BY <1>2 DEF StopProc
  <2> QED
    BY <1>2, <2>1, UnwatchedType, TakeType
<1> QED
  BY <1>1, <1>2

(* The blocks of startOnce and startProcess.                               *)
LEMMA OnceOverType ==
    ASSUME TypeOK, NEW ok \in BOOLEAN, OnceOver(ok)
    PROVE  so' = NoStart /\ so' \in Once /\ CallType'
<1>1. so' = NoStart /\ so' \in Once
  BY DEF OnceOver, NoStart, Once
<1>2. ASSUME NEW c \in Callers
      PROVE  call'[c] \in [pc : {"idle", "own", "join", "joined", "doomed", "resume"},
                           gen : Nat, ble : BOOLEAN, reuse : BOOLEAN]
  BY DEF OnceOver, TypeOK, NoCall
<1>3. CallType'
  BY <1>2 DEF OnceOver, CallType
<1> QED
  BY <1>1, <1>3

LEMMA AtType ==
    ASSUME NEW o \in Once, NEW pc, At(o, pc),
           pc \in {"reuse", "stopStale", "stopOld", "prespawn", "stopSick", "live"}
    PROVE  so' \in Once /\ so'.pc = pc /\ so'.gen = o.gen
BY DEF At, Once

Blocks == ChildType' /\ StopType' /\ m' \in Fields /\ so' \in Once

LEMMA FreshType ==
    ASSUME TypeOK, NEW o \in Once, NEW f \in Fields, Fresh(o, f)
    PROVE  /\ Blocks
           /\ so'.gen = o.gen /\ m'.gen = f.gen /\ m'.abort = f.abort
           /\ sp'["stop"] = sp["stop"]
           /\ \/ so'.pc = "stopOld" /\ StopProc("once", f)
              \/ /\ so'.pc = "prespawn" /\ f.proc = NoPid
                 /\ m' = f /\ child' = child /\ sp' = sp
<1>1. CASE f.proc # NoPid
  <2>1. At(o, "stopOld") /\ StopProc("once", f)
    BY <1>1 DEF Fresh
  <2>2. so' \in Once /\ so'.pc = "stopOld" /\ so'.gen = o.gen
    BY <2>1, AtType
  <2> QED
    BY <2>1, <2>2, StopProcType DEF Blocks, Stoppers
<1>2. CASE f.proc = NoPid
  <2>1. At(o, "prespawn") /\ m' = f /\ child' = child /\ sp' = sp
    BY <1>2 DEF Fresh
  <2>2. so' \in Once /\ so'.pc = "prespawn" /\ so'.gen = o.gen
    BY <2>1, AtType
  <2> QED
    BY <1>2, <2>1, <2>2 DEF Blocks, TypeOK, ChildType, StopType
<1> QED
  BY <1>1, <1>2

LEMMA ProceedType ==
    ASSUME TypeOK, NEW o \in Once, NEW f \in Fields, Proceed(o, f)
    PROVE  /\ Blocks
           /\ so'.gen = o.gen /\ m'.gen = f.gen /\ m'.abort = f.abort
           /\ sp'["stop"] = sp["stop"]
           /\ \/ Fresh(o, f)
              \/ so'.pc = "reuse" /\ m' = f /\ child' = child /\ sp' = sp
<1>1. CASE Reusable(o, f)
  <2>1. At(o, "reuse") /\ m' = f /\ child' = child /\ sp' = sp
    BY <1>1 DEF Proceed
  <2>2. so' \in Once /\ so'.pc = "reuse" /\ so'.gen = o.gen
    BY <2>1, AtType
  <2> QED
    BY <2>1, <2>2 DEF Blocks, TypeOK, ChildType, StopType
<1>2. CASE ~Reusable(o, f)
  <2>1. Fresh(o, f)
    BY <1>2 DEF Proceed
  <2> QED
    BY <2>1, FreshType
<1> QED
  BY <1>1, <1>2

LEMMA LaunchFacts ==
    ASSUME TypeOK
    PROVE  /\ Launching \in Fields
           /\ Launching.gen = m.gen /\ Launching.abort = FALSE
           /\ Launching.proc = m.proc /\ Launching.token = m.token
           /\ Launching.running = m.running /\ Launching.runPid = m.runPid
           /\ Launching.watch = m.watch /\ Launching.bleOnly = m.bleOnly
           /\ \A ble, reuse \in BOOLEAN :
                /\ Launched(ble, reuse) \in Once
                /\ Launched(ble, reuse).gen = m.gen
                /\ Launched(ble, reuse).pc = "awaitStop"
BY DEF TypeOK, Fields, Launching, Launched, Once

LEMMA LaunchType ==
    ASSUME TypeOK, NEW c \in Callers, NEW ble \in BOOLEAN, NEW reuse \in BOOLEAN,
           Launch(c, ble, reuse)
    PROVE  /\ Blocks /\ CallType'
           /\ so'.gen = m.gen /\ m'.gen = m.gen
           /\ sp'["stop"] = sp["stop"]
           /\ \/ ~MustWait /\ Proceed(Launched(ble, reuse), Launching)
              \/ /\ so'.pc = "awaitStop" /\ m' = Launching
                 /\ child' = child /\ sp' = sp
<1>1. CallType'
  BY DEF Launch, TypeOK, CallType, NoCall
<1>2. CASE MustWait
  <2>1. so' = Launched(ble, reuse) /\ m' = Launching /\ child' = child /\ sp' = sp
    BY <1>2 DEF Launch
  <2> QED
    BY <1>1, <2>1, LaunchFacts DEF Blocks, TypeOK, ChildType, StopType
<1>3. CASE ~MustWait
  <2>1. Proceed(Launched(ble, reuse), Launching)
    BY <1>3 DEF Launch
  <2>2. /\ Launched(ble, reuse) \in Once /\ Launching \in Fields
        /\ Launched(ble, reuse).gen = m.gen /\ Launching.gen = m.gen
    BY LaunchFacts
  <2> QED
    BY <1>1, <1>3, <2>1, <2>2, ProceedType
<1> QED
  BY <1>2, <1>3

LEMMA WaitsType ==
    ASSUME TypeOK, NEW c \in Callers, NEW pc \in {"doomed", "join"},
           NEW ble \in BOOLEAN, NEW reuse \in BOOLEAN, Waits(c, pc, ble, reuse)
    PROVE  Blocks /\ CallType'
<1>1. CallType'
  BY DEF Waits, TypeOK, CallType, Fields
<1> QED
  BY <1>1 DEF Waits, TypeOK, Blocks, ChildType, StopType

LEMMA StartProcessType ==
    ASSUME TypeOK, NEW c \in Callers, NEW ble \in BOOLEAN, NEW reuse \in BOOLEAN,
           StartProcess(c, ble, reuse)
    PROVE  Blocks /\ CallType'
<1>1. CASE ~Starting
  BY <1>1, LaunchType DEF StartProcess
<1>2. CASE Starting
  <2>1. \E pc \in {"doomed", "join"} : Waits(c, pc, ble, reuse)
    BY <1>2 DEF StartProcess
  <2> QED
    BY <2>1, WaitsType
<1> QED
  BY <1>1, <1>2

DoomedAt(f, n) == [f EXCEPT !.abort = TRUE, !.gen = n]

LEMMA DoomedAtFacts ==
    ASSUME NEW f \in Fields, NEW n \in Nat
    PROVE  /\ DoomedAt(f, n) \in Fields
           /\ DoomedAt(f, n).gen = n /\ DoomedAt(f, n).abort = TRUE
           /\ DoomedAt(f, n).proc = f.proc /\ DoomedAt(f, n).token = f.token
           /\ DoomedAt(f, n).running = f.running /\ DoomedAt(f, n).runPid = f.runPid
           /\ DoomedAt(f, n).watch = f.watch /\ DoomedAt(f, n).bleOnly = f.bleOnly
BY DEF Fields, DoomedAt

LEMMA StoppedFacts ==
    ASSUME TypeOK, NEW quit \in BOOLEAN
    PROVE  /\ Stopped(quit) \in Fields
           /\ Stopped(quit).gen = m.gen + 1 /\ Stopped(quit).abort = TRUE
           /\ Stopped(quit).proc = m.proc /\ Stopped(quit).token = m.token
           /\ Stopped(quit).running = m.running /\ Stopped(quit).runPid = m.runPid
           /\ Stopped(quit).watch = m.watch /\ Stopped(quit).bleOnly = m.bleOnly
<1>1. /\ Doomed \in Fields
      /\ Doomed.gen = m.gen + 1 /\ Doomed.abort = TRUE
      /\ Doomed.proc = m.proc /\ Doomed.token = m.token
      /\ Doomed.running = m.running /\ Doomed.runPid = m.runPid
      /\ Doomed.watch = m.watch /\ Doomed.bleOnly = m.bleOnly
  <2>1. m \in Fields /\ m.gen + 1 \in Nat
    BY DEF TypeOK, Fields
  <2>2. Doomed = DoomedAt(m, m.gen + 1)
    BY DEF Doomed, DoomedAt
  <2> QED
    BY <2>1, <2>2, DoomedAtFacts
<1>2. CASE quit
  BY <1>1, <1>2 DEF Stopped, Fields
<1>3. CASE ~quit
  BY <1>1, <1>3 DEF Stopped
<1> QED
  BY <1>2, <1>3

LEMMA StopTypes ==
    ASSUME TypeOK, NEW quit \in BOOLEAN, Stop(quit)
    PROVE  /\ ChildType' /\ StopType' /\ m' \in Fields /\ told' \subseteq Pids
           /\ m'.gen = m.gen + 1 /\ m'.abort = TRUE
           /\ \/ StopJoins /\ m' = Stopped(quit) /\ child' = child /\ sp' = sp
              \/ ~StopJoins /\ StopProc("stop", Stopped(quit))
<1>1. told' \subseteq Pids
  BY DEF Stop, TypeOK
<1>2. CASE StopJoins
  <2>1. m' = Stopped(quit) /\ child' = child /\ sp' = sp
    BY <1>2 DEF Stop
  <2> QED
    BY <1>1, <1>2, <2>1, StoppedFacts DEF TypeOK, ChildType, StopType
<1>3. CASE ~StopJoins
  <2>1. StopProc("stop", Stopped(quit))
    BY <1>3 DEF Stop
  <2>2. "stop" \in Stoppers
    BY DEF Stoppers
  <2> QED
    BY <1>1, <1>3, <2>1, <2>2, StoppedFacts, StopProcType
<1> QED
  BY <1>2, <1>3

LEMMA InitType == Init => TypeOK
<1> SUFFICES ASSUME Init PROVE TypeOK
  OBVIOUS
<1>1. m \in Fields
  BY DEF Init, Fields
<1>2. so \in Once
  BY DEF Init, NoStart, Once
<1>3. ChildType /\ StopType
  BY DEF Init, ChildType, StopType, NoStop
<1>4. CallType
  BY DEF Init, CallType, NoCall
<1>5. wd \in [Pids -> [pc : {"idle", "polling", "stopping"},
                       fails : 0..(Threshold - 1), ble : BOOLEAN]]
  BY SidecarAssumption DEF Init, NoWatch
<1> QED
  BY <1>1, <1>2, <1>3, <1>4, <1>5, SidecarAssumption
     DEF Init, TypeOK, ChildType, StopType, CallType

LEMMA ContinueType ==
    ASSUME TypeOK, Continue
    PROVE  TypeOK'
<1>1. CASE AwaitedStop
  <2>1. Blocks /\ CallType'
    <3>1. CASE Aborted(so.gen)
      BY <1>1, <3>1, OnceOverType DEF AwaitedStop, Blocks, TypeOK, ChildType, StopType
    <3>2. CASE ~Aborted(so.gen)
      <4>1. so \in Once /\ m \in Fields /\ Proceed(so, m) /\ call' = call
        BY <1>1, <3>2 DEF AwaitedStop, TypeOK
      <4> QED
        BY <4>1, ProceedType DEF TypeOK, CallType
    <3> QED
      BY <3>1, <3>2
  <2> QED
    BY <1>1, <2>1 DEF AwaitedStop, TypeOK, Blocks, ChildType, StopType, CallType
<1>2. CASE StaleStopped
  <2>1. Blocks /\ CallType'
    <3>1. CASE Aborted(so.gen)
      BY <1>2, <3>1, OnceOverType DEF StaleStopped, Blocks, TypeOK, ChildType, StopType
    <3>2. CASE ~Aborted(so.gen)
      <4>1. so \in Once /\ m \in Fields /\ Fresh(so, m) /\ call' = call
        BY <1>2, <3>2 DEF StaleStopped, TypeOK
      <4> QED
        BY <4>1, FreshType DEF TypeOK, CallType
    <3> QED
      BY <3>1, <3>2
  <2> QED
    BY <1>2, <2>1 DEF StaleStopped, TypeOK, Blocks, ChildType, StopType, CallType
<1>3. CASE OldStopped
  BY <1>3, AtType DEF OldStopped, TypeOK
<1>4. CASE SickStopped
  <2>1. m' \in Fields
    BY <1>4 DEF SickStopped, TypeOK, Fields
  <2>2. so' \in Once /\ CallType'
    BY <1>4, OnceOverType DEF SickStopped
  <2> QED
    BY <1>4, <2>1, <2>2 DEF SickStopped, TypeOK, CallType
<1>5. ASSUME NEW c \in Callers, Resume(c) \/ Joined(c)
      PROVE  TypeOK'
  <2>0. call[c].ble \in BOOLEAN /\ call[c].reuse \in BOOLEAN
    BY DEF TypeOK
  <2>1. CASE Resume(c)
    <3>1. Blocks /\ CallType'
      BY <2>0, <2>1, WaitsType, LaunchType DEF Resume
    <3> QED
      BY <2>1, <3>1 DEF Resume, TypeOK, Blocks, ChildType, StopType, CallType
  <2>2. CASE Joined(c)
    <3>1. Blocks /\ CallType'
      <4>1. CASE StartProcess(c, FALSE, TRUE)
        BY <4>1, StartProcessType
      <4>2. CASE call' = [call EXCEPT ![c] = NoCall] /\ UNCHANGED <<child, m, so, sp>>
        BY <4>2 DEF TypeOK, Blocks, ChildType, StopType, CallType, NoCall
      <4> QED
        BY <2>2, <4>1, <4>2 DEF Joined
    <3> QED
      BY <2>2, <3>1 DEF Joined, TypeOK, Blocks, ChildType, StopType, CallType
  <2> QED
    BY <1>5, <2>1, <2>2
<1>6. ASSUME NEW p \in Pids, WatchdogStarts(p)
      PROVE  TypeOK'
  <2>1. wd' = [wd EXCEPT ![p] = NoWatch] /\ wd[p].ble \in BOOLEAN
    BY <1>6 DEF WatchdogStarts, TypeOK
  <2>2. wd' \in [Pids -> [pc : {"idle", "polling", "stopping"},
                          fails : 0..(Threshold - 1), ble : BOOLEAN]]
    BY <2>1, SidecarAssumption DEF TypeOK, NoWatch
  <2>3. Blocks /\ CallType'
    BY <1>6, <2>1, PidFacts, StartProcessType DEF WatchdogStarts
  <2> QED
    BY <1>6, <2>2, <2>3 DEF WatchdogStarts, TypeOK, Blocks, ChildType, StopType, CallType
<1> QED
  BY <1>1, <1>2, <1>3, <1>4, <1>5, <1>6 DEF Continue

LEMMA StartStepType ==
    ASSUME TypeOK, StartStep
    PROVE  TypeOK'
<1>1. CASE ReuseHealthy
  <2>1. so' \in Once /\ CallType'
    <3>1. CASE Aborted(so.gen) \/ so.ble
      <4>1. OnceOver(~Aborted(so.gen))
        BY <1>1, <3>1 DEF ReuseHealthy
      <4>2. (~Aborted(so.gen)) \in BOOLEAN
        OBVIOUS
      <4> QED
        BY <4>1, <4>2, OnceOverType
    <3>2. CASE ~(Aborted(so.gen) \/ so.ble)
      <4>1. so' = [so EXCEPT !.pc = "live", !.pid = m.proc] /\ call' = call
        BY <1>1, <3>2 DEF ReuseHealthy
      <4>2. so \in Once /\ m.proc \in Pids \cup {NoPid}
        BY DEF TypeOK, Fields
      <4>3. so' \in Once
        BY <4>1, <4>2 DEF Once
      <4> QED
        BY <4>1, <4>3 DEF TypeOK, CallType
    <3> QED
      BY <3>1, <3>2
  <2> QED
    BY <1>1, <2>1 DEF ReuseHealthy, TypeOK, CallType
<1>2. CASE ReuseSick \/ HealthFails
  <2>1. PICK pc \in {"stopStale", "stopSick"} : At(so, pc)
    BY <1>2 DEF ReuseSick, HealthFails
  <2>2. so' \in Once
    BY <2>1, AtType DEF TypeOK
  <2>3. ChildType' /\ StopType' /\ m' \in Fields
    BY <1>2, StopProcType DEF ReuseSick, HealthFails, TypeOK, Stoppers
  <2> QED
    BY <1>2, <2>2, <2>3 DEF ReuseSick, HealthFails, TypeOK, ChildType, StopType
<1>3. CASE LiveStarts
  <2>1. m' \in Fields
    BY <1>3 DEF LiveStarts, TypeOK, Fields
  <2> QED
    BY <1>3, <2>1, OnceOverType DEF LiveStarts, TypeOK, CallType
<1>4. CASE LiveFails
  BY <1>4, OnceOverType DEF LiveFails, TypeOK, CallType
<1>5. CASE PrespawnFails
  <2>1. m' \in Fields
    BY <1>5 DEF PrespawnFails, TypeOK, Fields
  <2> QED
    BY <1>5, <2>1, OnceOverType DEF PrespawnFails, TypeOK, CallType
<1>6. CASE HealthOk
  <2>1. so.pid \in Pids \cup {NoPid}
    BY DEF TypeOK, Once
  <2>2. m' \in Fields
    BY <1>6, <2>1, ZenonT(120) DEF HealthOk, TypeOK, Fields
  <2>3. OnceOver(NotReplaced) /\ NotReplaced \in BOOLEAN
    BY <1>6 DEF HealthOk, NotReplaced
  <2>4. so' \in Once /\ CallType'
    BY <2>3, OnceOverType
  <2> QED
    BY <1>6, <2>2, <2>4 DEF HealthOk, TypeOK, CallType
<1>7. ASSUME NEW p \in Pids, Spawn(p)
      PROVE  TypeOK'
  <2>1. so \in Once /\ m \in Fields /\ so.ble \in BOOLEAN
    BY DEF TypeOK, Once
  <2>2. so' \in Once
    BY <1>7, <2>1 DEF Spawn, Once
  <2>3. m' \in Fields
    BY <1>7, <2>1 DEF Spawn, Fields
  <2>4. ChildType'
    BY <1>7 DEF Spawn, TypeOK, ChildType
  <2> QED
    BY <1>7, <2>2, <2>3, <2>4 DEF Spawn, TypeOK, ChildType
<1> QED
  BY <1>1, <1>2, <1>3, <1>4, <1>5, <1>6, <1>7 DEF StartStep

LEMMA StopStepType ==
    ASSUME TypeOK, NEW s \in Stoppers, StopStep(s)
    PROVE  TypeOK'
<1>1. CASE PrepareDone(s)
  <2>1. CASE FlushOwed
    BY <1>1, <2>1, SMTT(30) DEF PrepareDone, TypeOK
  <2>2. CASE ~FlushOwed
    <3>1. TakeAndTerm(s, m) /\ m \in Fields
      BY <1>1, <2>2 DEF PrepareDone, TypeOK
    <3>2. ChildType' /\ StopType' /\ m' \in Fields
      BY <3>1, TakeType
    <3> QED
      BY <1>1, <3>2 DEF PrepareDone, TypeOK, ChildType, StopType
  <2> QED
    BY <2>1, <2>2
<1>2. CASE FlushDone(s)
  <2>1. TakeAndTerm(s, m) /\ m \in Fields /\ m.proc \in Pids \cup {NoPid}
    BY <1>2 DEF FlushDone, TypeOK, Fields
  <2>2. ChildType' /\ StopType' /\ m' \in Fields
    BY <2>1, TakeType
  <2> QED
    BY <1>2, <2>1, <2>2 DEF FlushDone, TypeOK, ChildType, StopType
<1>3. CASE GraceOver(s)
  <2>1. m' \in Fields
    BY <1>3, FieldsFinal DEF GraceOver, TypeOK
  <2>2. ChildType' /\ StopType'
    BY <1>3 DEF GraceOver, TypeOK, ChildType, StopType, NoStop
  <2> QED
    BY <1>3, <2>1, <2>2 DEF GraceOver, TypeOK, ChildType, StopType
<1> QED
  BY <1>1, <1>2, <1>3 DEF StopStep

WatchType == wd \in [Pids -> [pc : {"idle", "polling", "stopping"},
                              fails : 0..(Threshold - 1), ble : BOOLEAN]]

LEMMA ChildStepType ==
    ASSUME TypeOK, NEW p \in Pids,
           Exit(p) \/ Poll(p) \/ PollOk(p) \/ PollFails(p) \/ Restart(p)
    PROVE  TypeOK'
<1>1. CASE Exit(p)
  <2>1. m' \in Fields
    BY <1>1, FieldsFinal DEF Exit, TypeOK
  <2>2. ChildType' /\ StopType'
    BY <1>1 DEF Exit, TypeOK, ChildType, StopType, NoStop
  <2> QED
    BY <1>1, <2>1, <2>2 DEF Exit, TypeOK, ChildType, StopType
<1>2. CASE Poll(p) \/ PollOk(p)
  <2>1. CASE Poll(p)
    BY <2>1 DEF Poll, TypeOK
  <2>2. CASE PollOk(p)
    <3>1. WatchType'
      BY <2>2, SidecarAssumption DEF PollOk, TypeOK, WatchType, NoWatch
    <3> QED
      BY <2>2, <3>1 DEF PollOk, TypeOK, WatchType
  <2> QED
    BY <1>2, <2>1, <2>2
<1>3. CASE PollFails(p)
  <2>1. wd[p].fails + 1 \in 0..(Threshold - 1)
    BY <1>3, SidecarAssumption DEF PollFails, Hung, TypeOK
  <2>2. WatchType'
    BY <1>3, <2>1 DEF PollFails, TypeOK, WatchType, NoWatch
  <2> QED
    BY <1>3, <2>2 DEF PollFails, TypeOK, WatchType
<1>4. CASE Restart(p)
  <2>1. m.bleOnly \in BOOLEAN
    BY DEF TypeOK, Fields
  <2>2. WatchType'
    BY <1>4, <2>1, SidecarAssumption DEF Restart, TypeOK, WatchType
  <2>3. ChildType' /\ StopType' /\ m' \in Fields /\ told' \subseteq Pids
    BY <1>4, StopTypes DEF Restart
  <2> QED
    BY <1>4, <2>2, <2>3 DEF Restart, TypeOK, WatchType, ChildType, StopType
<1> QED
  BY <1>1, <1>2, <1>3, <1>4

LEMMA CommandType ==
    ASSUME TypeOK,
           \/ \E c \in Users, reuse \in BOOLEAN : StartCommand(c, reuse)
           \/ \E quit \in BOOLEAN : StopCommand(quit)
    PROVE  TypeOK'
<1>1. ASSUME NEW c \in Users, NEW reuse \in BOOLEAN, StartCommand(c, reuse)
      PROVE  TypeOK'
  <2>1. /\ c \in Callers /\ (c \in BleUsers) \in BOOLEAN
        /\ StartProcess(c, c \in BleUsers, reuse)
    BY <1>1, PidFacts DEF StartCommand
  <2>2. Blocks /\ CallType'
    BY <2>1, StartProcessType
  <2>3. commands' \in 0..MaxCommands
    BY <1>1, SidecarAssumption DEF StartCommand, TypeOK
  <2> QED
    BY <1>1, <2>2, <2>3 DEF StartCommand, TypeOK, Blocks, ChildType, StopType, CallType
<1>2. ASSUME NEW quit \in BOOLEAN, StopCommand(quit)
      PROVE  TypeOK'
  <2>1. ChildType' /\ StopType' /\ m' \in Fields /\ told' \subseteq Pids
    BY <1>2, StopTypes DEF StopCommand
  <2>2. commands' \in 0..MaxCommands
    BY <1>2, SidecarAssumption DEF StopCommand, TypeOK
  <2> QED
    BY <1>2, <2>1, <2>2 DEF StopCommand, TypeOK, ChildType, StopType
<1> QED
  BY <1>1, <1>2

LEMMA NextType == TypeOK /\ [Next]_vars => TypeOK'
<1> SUFFICES ASSUME TypeOK, [Next]_vars PROVE TypeOK'
  OBVIOUS
<1>1. CASE Next
  BY <1>1, ContinueType, StartStepType, StopStepType, ChildStepType, CommandType DEF Next
<1>2. CASE UNCHANGED vars
  BY <1>2 DEF vars, TypeOK
<1> QED
  BY <1>1, <1>2

(***************************************************************************)
(* Whatever children, callers and commands there are, the fields of the    *)
(* manager and the progress of its starts, stops and polls keep their      *)
(* types; the failures of a watchdog stay below its threshold.             *)
(***************************************************************************)
THEOREM TypeCorrect == Spec => []TypeOK
<1> QED
  BY InitType, NextType, PTL DEF Spec

-----------------------------------------------------------------------------
(***************************************************************************)
(* One child, and its handle.  First the blocks.                           *)
(***************************************************************************)
(* f differs from the fields only in what a start or a stop announces.     *)
SameChild(f) ==
    /\ f \in Fields
    /\ f.proc = m.proc /\ f.token = m.token
    /\ f.running = m.running /\ f.runPid = m.runPid /\ f.watch = m.watch

LEMMA NothingMoved ==
    ASSUME ChildInv, RunInv, child' = child, sp' = sp, SameChild(m')
    PROVE  ChildInv' /\ RunInv'
BY DEF ChildInv, AliveInv, HandleInv, TermInv, RunInv, SameChild, Alive, Ending, Stopping

LEMMA TakeInv ==
    ASSUME TypeOK, ChildInv, NEW s \in Stoppers, NEW f \in Fields,
           f.proc = m.proc, ~Ending(s), TakeAndTerm(s, f)
    PROVE  ChildInv' /\ RunInv' /\ m'.proc = NoPid
<1>1. /\ m'.proc = NoPid
      /\ \A t \in Stoppers \ {s} : sp'[t] = sp[t]
      /\ \/ f.proc = NoPid /\ sp'[s] = NoStop /\ child' = child /\ ~m'.running
         \/ /\ f.proc \in Pids /\ sp'[s] = [pc |-> "term", pid |-> f.proc]
            /\ child' = [child EXCEPT ![f.proc] = "term"]
  BY TakeType
<1>2. NoPid \notin Pids
  BY PidFacts
<1>3. CASE f.proc = NoPid /\ sp'[s] = NoStop /\ child' = child /\ ~m'.running
  <2>1. \A p \in Pids : child[p] # "up"
    BY <1>2, <1>3 DEF ChildInv, HandleInv
  <2>2. AliveInv' /\ HandleInv'
    BY <1>1, <1>2, <1>3, <2>1 DEF ChildInv, AliveInv, HandleInv, Alive
  <2>3. TermInv'
    BY <1>1, <1>3 DEF ChildInv, TermInv, Ending, NoStop
  <2> QED
    BY <1>1, <1>3, <2>2, <2>3 DEF ChildInv, RunInv
<1>4. CASE /\ f.proc \in Pids /\ sp'[s] = [pc |-> "term", pid |-> f.proc]
           /\ child' = [child EXCEPT ![f.proc] = "term"]
  <2> DEFINE u == f.proc
  <2>1. /\ u \in Pids /\ child[u] = "up"
        /\ child'[u] = "term"
        /\ \A p \in Pids \ {u} : child'[p] = child[p] /\ ~Alive(p)
    BY <1>4 DEF TypeOK, ChildInv, AliveInv, HandleInv, Alive
  <2> HIDE DEF u
  <2>2. AliveInv' /\ HandleInv'
    BY <1>1, <1>2, <2>1 DEF ChildInv, AliveInv, HandleInv, Alive
  <2>3. \A t \in Stoppers : ~Ending(t)
    BY <2>1 DEF ChildInv, TermInv, Alive
  <2>4. TermInv'
    BY <1>1, <1>4, <2>1, <2>3 DEF TermInv, Ending, Alive, u
  <2>5. Stopping(s)'
    BY <1>4 DEF Stopping
  <2> QED
    BY <1>1, <2>2, <2>4, <2>5 DEF ChildInv, RunInv
<1> QED
  BY <1>1, <1>3, <1>4

LEMMA StopProcInv ==
    ASSUME TypeOK, ChildInv, NEW s \in Stoppers, NEW f,
           SameChild(f), ~Stopping(s), StopProc(s, f)
    PROVE  /\ ChildInv' /\ RunInv'
           /\ m'.proc \in {m.proc, NoPid}
           /\ ~Stopping(s)' => m'.proc = NoPid
<1>1. f \in Fields /\ f.proc = m.proc /\ f.token = m.token
  BY DEF SameChild
<1>2. /\ \A t \in Stoppers \ {s} : sp'[t] = sp[t]
      /\ \/ /\ ReportsRunning(f) /\ sp'[s].pc \in {"prepare", "flush"}
            /\ child' = child /\ m'.proc = f.proc /\ m'.token = f.token
         \/ ~ReportsRunning(f) /\ TakeAndTerm(s, Unwatched(f))
  BY <1>1, StopProcType
<1>3. CASE /\ sp'[s].pc \in {"prepare", "flush"}
           /\ child' = child /\ m'.proc = f.proc /\ m'.token = f.token
  <2>1. AliveInv' /\ HandleInv'
    BY <1>1, <1>3 DEF ChildInv, AliveInv, HandleInv, Alive
  <2>2. TermInv'
    BY <1>2, <1>3 DEF ChildInv, TermInv, Ending, Stopping
  <2>3. Stopping(s)'
    BY <1>3 DEF Stopping
  <2> QED
    BY <1>1, <1>3, <2>1, <2>2, <2>3 DEF ChildInv, RunInv
<1>4. CASE TakeAndTerm(s, Unwatched(f))
  <2>1. Unwatched(f) \in Fields /\ Unwatched(f).proc = m.proc
    BY <1>1, UnwatchedType
  <2>2. ~Ending(s)
    BY DEF Ending, Stopping
  <2> QED
    BY <1>4, <2>1, <2>2, TakeInv
<1> QED
  BY <1>2, <1>3, <1>4

LEMMA FreshInv ==
    ASSUME TypeOK, ChildInv, RunInv, NEW o \in Once, NEW f, SameChild(f),
           ~Stopping("once"), Fresh(o, f)
    PROVE  ChildInv' /\ RunInv' /\ StartInv'
<1>1. f \in Fields /\ f.proc = m.proc
  BY DEF SameChild
<1>2. CASE so'.pc = "stopOld" /\ StopProc("once", f)
  <2>1. ChildInv' /\ RunInv' /\ (~Stopping("once")' => m'.proc = NoPid)
    BY <1>2, StopProcInv DEF Stoppers
  <2> QED
    BY <1>2, <2>1 DEF StartInv, StopsFirst
<1>3. CASE so'.pc = "prespawn" /\ f.proc = NoPid /\ m' = f /\ child' = child /\ sp' = sp
  <2>1. ChildInv' /\ RunInv'
    BY <1>3, NothingMoved
  <2> QED
    BY <1>3, <2>1 DEF StartInv, StopsFirst, Stopping
<1> QED
  BY <1>1, <1>2, <1>3, FreshType

LEMMA ProceedInv ==
    ASSUME TypeOK, ChildInv, RunInv, NEW o \in Once, NEW f, SameChild(f),
           ~Stopping("once"), Proceed(o, f)
    PROVE  ChildInv' /\ RunInv' /\ StartInv'
<1>1. f \in Fields
  BY DEF SameChild
<1>2. CASE so'.pc = "reuse" /\ m' = f /\ child' = child /\ sp' = sp
  <2>1. ChildInv' /\ RunInv'
    BY <1>2, NothingMoved
  <2> QED
    BY <1>2, <2>1 DEF StartInv, StopsFirst, Stopping
<1> QED
  BY <1>1, <1>2, FreshInv, ProceedType

(* What of the invariant is not a type.                                    *)
Rest == ChildInv /\ StartInv /\ GenInv /\ RunInv

LEMMA GenFacts ==
    ASSUME TypeOK
    PROVE  m.gen \in Nat /\ so.gen \in Nat /\ \A p \in Pids : p # NoPid
BY PidFacts DEF TypeOK, Fields, Once

LEMMA LaunchInv ==
    ASSUME IInv, ~Starting,
           NEW c \in Callers, NEW ble \in BOOLEAN, NEW reuse \in BOOLEAN,
           Launch(c, ble, reuse)
    PROVE  Rest'
<1>1. /\ so'.gen = m.gen /\ m'.gen = m.gen
      /\ sp'["stop"] = sp["stop"]
      /\ \/ ~MustWait /\ Proceed(Launched(ble, reuse), Launching)
         \/ so'.pc = "awaitStop" /\ m' = Launching /\ child' = child /\ sp' = sp
  BY LaunchType DEF IInv
<1>2. SameChild(Launching) /\ Launched(ble, reuse) \in Once
  BY LaunchFacts DEF SameChild, IInv
<1>3. ~Stopping("once")
  BY DEF IInv, StartInv, Starting, StopsFirst
<1>4. CASE ~MustWait /\ Proceed(Launched(ble, reuse), Launching)
  <2>1. ChildInv' /\ RunInv' /\ StartInv'
    BY <1>2, <1>3, <1>4, ProceedInv DEF IInv
  <2>2. GenInv'
    BY <1>1, <1>4, GenFacts DEF GenInv, MustWait, Stopping, IInv
  <2> QED
    BY <2>1, <2>2 DEF Rest
<1>5. CASE so'.pc = "awaitStop" /\ m' = Launching /\ child' = child /\ sp' = sp
  <2>1. ChildInv' /\ RunInv'
    BY <1>2, <1>5, NothingMoved DEF IInv
  <2>2. StartInv'
    BY <1>3, <1>5 DEF StartInv, StopsFirst, Stopping
  <2>3. GenInv'
    BY <1>1, <1>5, GenFacts DEF GenInv, IInv
  <2> QED
    BY <2>1, <2>2, <2>3 DEF Rest
<1> QED
  BY <1>1, <1>4, <1>5

LEMMA RestSame ==
    ASSUME Rest, UNCHANGED <<child, m, so, sp>>
    PROVE  Rest'
BY DEF Rest, ChildInv, AliveInv, HandleInv, TermInv, StartInv, GenInv, RunInv,
       Alive, Ending, Stopping, Starting, Aborted

LEMMA StartProcessInv ==
    ASSUME IInv, NEW c \in Callers, NEW ble \in BOOLEAN, NEW reuse \in BOOLEAN,
           StartProcess(c, ble, reuse)
    PROVE  Rest'
<1>1. CASE ~Starting
  BY <1>1, LaunchInv DEF StartProcess
<1>2. CASE Starting
  BY <1>2, RestSame DEF StartProcess, Waits, IInv, Rest
<1> QED
  BY <1>1, <1>2

(* A stop dooms the start in flight and leaves it where it was.            *)
LEMMA StopInv ==
    ASSUME IInv, NEW quit \in BOOLEAN, Stop(quit), so' = so
    PROVE  Rest'
<1>1. /\ m'.gen = m.gen + 1 /\ m'.abort = TRUE
      /\ \/ m' = Stopped(quit) /\ child' = child /\ sp' = sp
         \/ ~StopJoins /\ StopProc("stop", Stopped(quit))
  BY StopTypes DEF IInv
<1>2. SameChild(Stopped(quit))
  BY StoppedFacts DEF SameChild, IInv
<1>3. GenInv'
  BY <1>1, GenFacts DEF GenInv, Aborted, IInv
<1>4. CASE m' = Stopped(quit) /\ child' = child /\ sp' = sp
  <2>1. ChildInv' /\ RunInv'
    BY <1>2, <1>4, NothingMoved DEF IInv
  <2>2. StartInv'
    BY <1>2, <1>4 DEF IInv, StartInv, SameChild, Stopping
  <2> QED
    BY <1>3, <2>1, <2>2 DEF Rest
<1>5. CASE ~StopJoins /\ StopProc("stop", Stopped(quit))
  <2>1. ChildInv' /\ RunInv' /\ m'.proc \in {m.proc, NoPid}
    BY <1>2, <1>5, StopProcInv DEF IInv, StopJoins, Stoppers
  <2>2. sp'["once"] = sp["once"]
    BY <1>2, <1>5, StopProcType DEF IInv, SameChild, Stoppers
  <2>3. StartInv'
    BY <2>1, <2>2 DEF IInv, StartInv, Stopping
  <2> QED
    BY <1>3, <2>1, <2>3 DEF Rest
<1> QED
  BY <1>1, <1>4, <1>5

(* startOnce begins a stop of its own.                                     *)
LEMMA OwnStopInv ==
    ASSUME IInv, so.pc \in {"reuse", "health"}, NEW pc \in StopsFirst,
           At(so, pc), StopProc("once", m)
    PROVE  Rest'
<1>1. m \in Fields /\ SameChild(m) /\ so \in Once
  BY DEF IInv, TypeOK, SameChild
<1>2. ~Stopping("once")
  BY DEF IInv, StartInv, StopsFirst
<1>3. ChildInv' /\ RunInv' /\ (~Stopping("once")' => m'.proc = NoPid)
  BY <1>1, <1>2, StopProcInv DEF IInv, Stoppers
<1>4. m'.gen = m.gen /\ m'.abort = m.abort /\ sp'["stop"] = sp["stop"]
  BY <1>1, StopProcType DEF IInv, Stoppers
<1>5. so'.pc = pc /\ so'.gen = so.gen
  BY <1>1, AtType DEF StopsFirst
<1>6. StartInv'
  BY <1>3, <1>5 DEF StartInv, StopsFirst
<1>7. GenInv'
  BY <1>4, <1>5 DEF IInv, GenInv, Starting, Stopping, Aborted
<1> QED
  BY <1>3, <1>6, <1>7 DEF Rest

(* startOnce is over; of the fields at most running, runPid, bleOnly change. *)
LEMMA OverInv ==
    ASSUME IInv, so' = NoStart, ~Stopping("once"), child' = child, sp' = sp,
           m'.proc = m.proc, m'.token = m.token, m'.gen = m.gen, RunInv'
    PROVE  Rest'
<1>1. ChildInv'
  BY DEF IInv, ChildInv, AliveInv, HandleInv, TermInv, Alive, Ending
<1>2. StartInv'
  BY DEF StartInv, StopsFirst, NoStart, Stopping
<1>3. GenInv'
  BY GenFacts DEF IInv, GenInv, NoStart, Starting
<1> QED
  BY <1>1, <1>2, <1>3 DEF Rest

-----------------------------------------------------------------------------
(* Then the actions.                                                       *)
LEMMA InitInv == Init => IInv
<1> SUFFICES ASSUME Init PROVE IInv
  OBVIOUS
<1>1. ChildInv
  BY PidFacts DEF Init, ChildInv, AliveInv, HandleInv, TermInv, Alive, Ending, NoStop
<1>2. StartInv /\ GenInv /\ RunInv
  BY DEF Init, StartInv, GenInv, RunInv, NoStart, NoStop, StopsFirst, Stopping, Starting,
         Stoppers
<1> QED
  BY <1>1, <1>2, InitType DEF IInv

LEMMA ContinueInv ==
    ASSUME IInv, Continue
    PROVE  Rest'
<1>0. so \in Once /\ m \in Fields /\ SameChild(m)
  BY DEF IInv, TypeOK, SameChild
<1>1. CASE AwaitedStop
  <2>1. ~Stopping("once") /\ ~Stopping("stop")
    BY <1>1 DEF AwaitedStop, IInv, StartInv, StopsFirst
  <2>2. CASE Aborted(so.gen)
    <3>1. so' = NoStart /\ UNCHANGED <<child, m, sp>>
      BY <1>1, <2>2 DEF AwaitedStop, OnceOver
    <3> QED
      BY <2>1, <3>1, OverInv DEF IInv, RunInv, Stopping
  <2>3. CASE ~Aborted(so.gen)
    <3>1. Proceed(so, m)
      BY <1>1, <2>3 DEF AwaitedStop
    <3>2. ChildInv' /\ RunInv' /\ StartInv'
      BY <1>0, <2>1, <3>1, ProceedInv DEF IInv
    <3>3. so'.gen = so.gen /\ m'.gen = m.gen /\ sp'["stop"] = sp["stop"]
      BY <1>0, <3>1, ProceedType DEF IInv
    <3>4. GenInv'
      BY <2>1, <3>3 DEF IInv, GenInv, Stopping
    <3> QED
      BY <3>2, <3>4 DEF Rest
  <2> QED
    BY <2>2, <2>3
<1>2. CASE StaleStopped
  <2>1. ~Stopping("once")
    BY <1>2 DEF StaleStopped
  <2>2. CASE Aborted(so.gen)
    <3>1. so' = NoStart /\ UNCHANGED <<child, m, sp>>
      BY <1>2, <2>2 DEF StaleStopped, OnceOver
    <3> QED
      BY <2>1, <3>1, OverInv DEF IInv, RunInv, Stopping
  <2>3. CASE ~Aborted(so.gen)
    <3>1. Fresh(so, m)
      BY <1>2, <2>3 DEF StaleStopped
    <3>2. ChildInv' /\ RunInv' /\ StartInv'
      BY <1>0, <2>1, <3>1, FreshInv DEF IInv
    <3>3. so'.gen = so.gen /\ m'.gen = m.gen /\ sp'["stop"] = sp["stop"]
      BY <1>0, <3>1, FreshType DEF IInv
    <3>4. ~Stopping("stop")
      BY <1>2, <2>3 DEF StaleStopped, IInv, GenInv, Starting
    <3>5. GenInv'
      BY <3>3, <3>4 DEF IInv, GenInv, Stopping
    <3> QED
      BY <3>2, <3>5 DEF Rest
  <2> QED
    BY <2>2, <2>3
<1>3. CASE OldStopped
  <2>1. /\ ~Stopping("once") /\ m.proc = NoPid /\ so.pc = "stopOld"
        /\ UNCHANGED <<child, m, sp>>
    BY <1>3 DEF OldStopped, IInv, StartInv, StopsFirst
  <2>2. so'.pc = "prespawn" /\ so'.gen = so.gen
    BY <1>0, <1>3, AtType DEF OldStopped
  <2>3. ChildInv' /\ RunInv'
    BY <2>1, NothingMoved, <1>0 DEF IInv
  <2>4. StartInv'
    BY <2>1, <2>2 DEF StartInv, StopsFirst, Stopping
  <2>5. GenInv'
    BY <2>1, <2>2 DEF IInv, GenInv, Stopping, Starting, Aborted
  <2> QED
    BY <2>3, <2>4, <2>5 DEF Rest
<1>4. CASE SickStopped
  <2>1. /\ ~Stopping("once") /\ so' = NoStart /\ child' = child /\ sp' = sp
        /\ m' = [m EXCEPT !.running = FALSE, !.runPid = NoPid]
    BY <1>4 DEF SickStopped, OnceOver
  <2>2. m'.proc = m.proc /\ m'.token = m.token /\ m'.gen = m.gen /\ ~m'.running
    BY <1>0, <2>1 DEF Fields
  <2>3. RunInv'
    BY <2>2 DEF RunInv
  <2> QED
    BY <2>1, <2>2, <2>3, OverInv
<1>5. ASSUME NEW c \in Callers, Resume(c)
      PROVE  Rest'
  <2>1. call[c].ble \in BOOLEAN /\ call[c].reuse \in BOOLEAN
    BY DEF IInv, TypeOK
  <2> QED
    BY <1>5, <2>1, LaunchInv, RestSame DEF Resume, Waits, IInv, Rest
<1>6. ASSUME NEW c \in Callers, Joined(c)
      PROVE  Rest'
  BY <1>6, StartProcessInv, RestSame DEF Joined, IInv, Rest
<1>7. ASSUME NEW p \in Pids, WatchdogStarts(p)
      PROVE  Rest'
  <2>1. wd[p].ble \in BOOLEAN /\ p \in Callers
    BY PidFacts DEF IInv, TypeOK
  <2> QED
    BY <1>7, <2>1, StartProcessInv DEF WatchdogStarts
<1> QED
  BY <1>1, <1>2, <1>3, <1>4, <1>5, <1>6, <1>7 DEF Continue

(* The only step that adds a child: nothing that runs is left by then.     *)
LEMMA SpawnInv ==
    ASSUME PromptExit, IInv, NEW p \in Pids, Spawn(p)
    PROVE  Rest'
<1>1. m.proc = NoPid /\ ~Stopping("stop") /\ ~Stopping("once")
  BY DEF Spawn, IInv, StartInv, GenInv, StopsFirst, Starting
<1>2. \A q \in Pids : ~Alive(q)
  <2>1. \A q \in Pids : child[q] # "up"
    BY <1>1, GenFacts DEF IInv, ChildInv, HandleInv
  <2>2. \A q \in Pids : child[q] # "term"
    BY <1>1 DEF IInv, ChildInv, TermInv, Stopping, Ending, Stoppers
  <2>3. \A q \in Pids : child[q] # "killed"
    BY DEF Spawn
  <2> QED
    BY <2>1, <2>2, <2>3 DEF Alive
<1>3. so \in Once /\ m \in Fields /\ p # NoPid
  BY GenFacts DEF IInv, TypeOK
<1>4. /\ m'.proc = p /\ m'.token = p /\ m'.gen = m.gen /\ m'.running = m.running
  BY <1>3 DEF Spawn, Fields
<1>5. so'.pc = "health" /\ so'.pid = p /\ so'.gen = so.gen
  BY <1>3 DEF Spawn, Once
<1>6. child'[p] = "up" /\ \A q \in Pids \ {p} : child'[q] = child[q]
  BY DEF Spawn, IInv, TypeOK
<1>7. AliveInv' /\ HandleInv'
  BY <1>2, <1>4, <1>6 DEF AliveInv, HandleInv, Alive
<1>8. TermInv'
  BY <1>1, <1>2, <1>6 DEF Spawn, TermInv, Alive, Ending, Stopping, Stoppers
<1>9. ~m.running
  BY <1>1 DEF IInv, RunInv, Stopping, Stoppers
<1>10. RunInv'
  BY <1>4, <1>9 DEF RunInv
<1>11. StartInv'
  BY <1>1, <1>3, <1>5 DEF Spawn, StartInv, StopsFirst, Stopping
<1>12. GenInv'
  BY <1>1, <1>4, <1>5 DEF Spawn, IInv, GenInv, Stopping
<1> QED
  BY <1>7, <1>8, <1>10, <1>11, <1>12 DEF Rest, ChildInv

LEMMA StartStepInv ==
    ASSUME PromptExit, IInv, StartStep
    PROVE  Rest'
<1>0. so \in Once /\ m \in Fields /\ SameChild(m)
  BY DEF IInv, TypeOK, SameChild
<1>1. CASE ReuseHealthy
  <2>1. so.pc = "reuse" /\ ~Stopping("once") /\ UNCHANGED <<child, m, sp>>
    BY <1>1 DEF ReuseHealthy, IInv, StartInv, StopsFirst
  <2>2. CASE so' = NoStart
    BY <2>1, <2>2, OverInv DEF IInv, RunInv, Stopping
  <2>3. CASE so' = [so EXCEPT !.pc = "live", !.pid = m.proc]
    <3>1. so'.pc = "live" /\ so'.gen = so.gen
      BY <1>0, <2>3 DEF Once
    <3>2. ChildInv' /\ RunInv'
      BY <1>0, <2>1, NothingMoved DEF IInv
    <3>3. StartInv'
      BY <2>1, <3>1 DEF StartInv, StopsFirst, Stopping
    <3>4. GenInv'
      BY <2>1, <3>1 DEF IInv, GenInv, Stopping, Starting, Aborted
    <3> QED
      BY <3>2, <3>3, <3>4 DEF Rest
  <2> QED
    BY <1>1, <2>2, <2>3 DEF ReuseHealthy, OnceOver
<1>2. CASE ReuseSick
  BY <1>2, OwnStopInv DEF ReuseSick, StopsFirst
<1>3. CASE HealthFails
  BY <1>3, OwnStopInv DEF HealthFails, StopsFirst
<1>4. CASE LiveStarts
  <2>1. /\ ~Stopping("once") /\ so' = NoStart /\ child' = child /\ sp' = sp
        /\ m' = [m EXCEPT !.bleOnly = FALSE]
    BY <1>4 DEF LiveStarts, OnceOver, IInv, StartInv, StopsFirst
  <2>2. /\ m'.proc = m.proc /\ m'.token = m.token /\ m'.gen = m.gen
        /\ m'.running = m.running /\ m'.runPid = m.runPid /\ m'.watch = m.watch
    BY <1>0, <2>1 DEF Fields
  <2>3. RunInv'
    BY <2>1, <2>2 DEF IInv, RunInv, Stopping
  <2> QED
    BY <2>1, <2>2, <2>3, OverInv
<1>5. CASE LiveFails
  <2>1. ~Stopping("once") /\ so' = NoStart /\ UNCHANGED <<child, m, sp>>
    BY <1>5 DEF LiveFails, OnceOver, IInv, StartInv, StopsFirst
  <2> QED
    BY <2>1, OverInv DEF IInv, RunInv, Stopping
<1>6. CASE PrespawnFails
  <2>1. /\ ~Stopping("once") /\ so' = NoStart /\ child' = child /\ sp' = sp
        /\ m' = [m EXCEPT !.running = FALSE, !.runPid = NoPid]
    BY <1>6 DEF PrespawnFails, OnceOver, IInv, StartInv, StopsFirst
  <2>2. m'.proc = m.proc /\ m'.token = m.token /\ m'.gen = m.gen /\ ~m'.running
    BY <1>0, <2>1 DEF Fields
  <2>3. RunInv'
    BY <2>2 DEF RunInv
  <2> QED
    BY <2>1, <2>2, <2>3, OverInv
<1>7. CASE HealthOk
  <2>1. /\ ~Stopping("once") /\ so' = NoStart /\ child' = child /\ sp' = sp
        /\ so.pid # NoPid
    BY <1>7 DEF HealthOk, OnceOver, IInv, StartInv, StopsFirst
  <2>2. CASE NotReplaced
    <3>1. m' = [m EXCEPT !.running = TRUE, !.runPid = so.pid, !.watch = so.pid]
      BY <1>7, <2>2 DEF HealthOk
    <3>2. /\ m'.proc = m.proc /\ m'.token = m.token /\ m'.gen = m.gen
          /\ m'.runPid = so.pid /\ m'.watch = so.pid
      BY <1>0, <3>1 DEF Fields
    <3>3. RunInv'
      BY <2>1, <2>2, <3>2 DEF RunInv, NotReplaced
    <3> QED
      BY <2>1, <3>2, <3>3, OverInv
  <2>3. CASE ~NotReplaced
    <3>1. m' = m
      BY <1>7, <2>3 DEF HealthOk
    <3> QED
      BY <2>1, <3>1, OverInv DEF IInv, RunInv, Stopping
  <2> QED
    BY <2>2, <2>3
<1> QED
  BY <1>1, <1>2, <1>3, <1>4, <1>5, <1>6, <1>7, SpawnInv DEF StartStep

(* The handle is taken at once, or after the requests of a stop.           *)
LEMMA TakenInv ==
    ASSUME IInv, NEW s \in Stoppers, Stopping(s), ~Ending(s),
           TakeAndTerm(s, m), so' = so
    PROVE  Rest'
<1>1. m \in Fields
  BY DEF IInv, TypeOK
<1>2. ChildInv' /\ RunInv' /\ m'.proc = NoPid
  BY <1>1, TakeInv DEF IInv
<1>3. /\ m'.gen = m.gen /\ m'.abort = m.abort
      /\ \A t \in Stoppers : Stopping(t)' => Stopping(t)
  BY <1>1, TakeType DEF IInv, Stopping
<1>4. StartInv'
  BY <1>2, <1>3 DEF IInv, StartInv, Stoppers
<1>5. GenInv'
  BY <1>3 DEF IInv, GenInv, Starting, Aborted, Stoppers
<1> QED
  BY <1>2, <1>4, <1>5 DEF Rest

(* A child is killed or exits: it was the only one.                        *)
LEMMA GoneInv ==
    ASSUME IInv, NEW p \in Pids, Alive(p), NEW to \in {"killed", "gone"},
           child' = [child EXCEPT ![p] = to], so' = so,
           m'.proc = NoPid, m'.gen = m.gen, m'.abort = m.abort, ~m'.running,
           \A s \in Stoppers : sp'[s] = NoStop \/ (sp'[s] = sp[s] /\ ~Ending(s))
    PROVE  Rest'
<1>1. child'[p] = to /\ \A q \in Pids \ {p} : child'[q] = child[q] /\ ~Alive(q)
  BY DEF IInv, TypeOK, ChildInv, AliveInv
<1>2. AliveInv'
  BY <1>1 DEF AliveInv, Alive
<1>3. HandleInv'
  BY <1>1, GenFacts DEF IInv, HandleInv, Alive
<1>4. TermInv'
  BY <1>1 DEF TermInv, Alive, Ending, NoStop
<1>5. \A s \in Stoppers : Stopping(s)' => Stopping(s)
  BY DEF Stopping, NoStop
<1>6. StartInv'
  BY <1>5 DEF IInv, StartInv, Stoppers
<1>7. GenInv'
  BY <1>5 DEF IInv, GenInv, Starting, Aborted, Stoppers
<1> QED
  BY <1>2, <1>3, <1>4, <1>6, <1>7 DEF Rest, ChildInv, RunInv

LEMMA StopStepInv ==
    ASSUME IInv, NEW s \in Stoppers, StopStep(s)
    PROVE  Rest'
<1>0. m \in Fields
  BY DEF IInv, TypeOK
<1>1. CASE PrepareDone(s)
  <2>1. Stopping(s) /\ ~Ending(s) /\ so' = so
    BY <1>1 DEF PrepareDone, Stopping, Ending
  <2>2. CASE FlushOwed
    <3>1. sp' = [sp EXCEPT ![s].pc = "flush"] /\ UNCHANGED <<child, m>>
      BY <1>1, <2>2 DEF PrepareDone
    <3>2. /\ \A t \in Stoppers \ {s} : sp'[t] = sp[t]
          /\ sp'[s].pc = "flush" /\ sp'[s].pid = sp[s].pid
      BY <3>1 DEF IInv, TypeOK
    <3>3. \A t \in Stoppers : (Stopping(t)' <=> Stopping(t)) /\ (Ending(t)' <=> Ending(t))
      BY <2>1, <3>2 DEF Stopping, Ending
    <3>4. ChildInv'
      BY <3>1, <3>2, <3>3 DEF IInv, ChildInv, AliveInv, HandleInv, TermInv, Alive, Ending
    <3>5. StartInv' /\ GenInv' /\ RunInv'
      BY <2>1, <3>1, <3>3 DEF IInv, StartInv, GenInv, RunInv, Starting, Aborted, Stoppers
    <3> QED
      BY <3>4, <3>5 DEF Rest
  <2>3. CASE ~FlushOwed
    BY <1>1, <2>1, <2>3, TakenInv DEF PrepareDone
  <2> QED
    BY <2>2, <2>3
<1>2. CASE FlushDone(s)
  <2>1. Stopping(s) /\ ~Ending(s) /\ so' = so /\ TakeAndTerm(s, m)
    BY <1>2 DEF FlushDone, Stopping, Ending
  <2> QED
    BY <2>1, TakenInv
<1>3. CASE GraceOver(s)
  <2> DEFINE p == sp[s].pid
  <2>1. Ending(s)
    BY <1>3 DEF GraceOver, KillTimerSet, Ending
  <2>2. p \in Pids /\ child[p] = "term" /\ Alive(p)
    BY <2>1 DEF IInv, ChildInv, TermInv, Alive
  <2>3. m.proc = NoPid
    <3>1. m.proc \in Pids \cup {NoPid}
      BY <1>0 DEF Fields
    <3>2. ASSUME m.proc \in Pids PROVE FALSE
      BY <2>2, <3>2 DEF IInv, ChildInv, HandleInv, AliveInv, Alive
    <3> QED
      BY <3>1, <3>2
  <2>4. /\ child' = [child EXCEPT ![p] = "killed"] /\ so' = so
        /\ m' = Finalized(m) /\ sp' = [sp EXCEPT ![s] = NoStop]
    BY <1>3 DEF GraceOver
  <2>5. m'.proc = NoPid /\ m'.gen = m.gen /\ m'.abort = m.abort /\ ~m'.running
    BY <1>0, <2>3, <2>4, FieldsFinal
  <2>6. \A t \in Stoppers : sp'[t] = NoStop \/ (sp'[t] = sp[t] /\ ~Ending(t))
    BY <2>1, <2>4 DEF IInv, TypeOK, ChildInv, TermInv
  <2> HIDE DEF p
  <2> QED
    BY <2>2, <2>4, <2>5, <2>6, GoneInv
<1> QED
  BY <1>1, <1>2, <1>3 DEF StopStep

LEMMA ExitInv ==
    ASSUME IInv, NEW p \in Pids, Exit(p)
    PROVE  Rest'
<1>1. m \in Fields /\ Alive(p)
  BY DEF Exit, Alive, IInv, TypeOK
<1>2. /\ m'.proc = NoPid /\ m'.gen = m.gen /\ m'.abort = m.abort /\ ~m'.running
      /\ child' = [child EXCEPT ![p] = "gone"] /\ so' = so
  BY <1>1, FieldsFinal DEF Exit
<1>3. ASSUME NEW s \in Stoppers
      PROVE  sp'[s] = NoStop \/ (sp'[s] = sp[s] /\ ~Ending(s))
  <2>1. Ending(s) => sp[s].pid = p
    BY <1>1 DEF IInv, ChildInv, TermInv, AliveInv, Alive
  <2> QED
    BY <2>1 DEF Exit, Ending
<1> QED
  BY <1>1, <1>2, <1>3, GoneInv

LEMMA NextInv == PromptExit /\ IInv /\ [Next]_vars => IInv'
<1> SUFFICES ASSUME PromptExit, IInv, [Next]_vars PROVE IInv'
  OBVIOUS
<1>1. TypeOK'
  BY NextType DEF IInv
<1>2. CASE Next
  <2>1. ASSUME Continue PROVE Rest'
    BY <2>1, ContinueInv
  <2>2. ASSUME StartStep PROVE Rest'
    BY <2>2, StartStepInv
  <2>3. ASSUME NEW s \in Stoppers, StopStep(s) PROVE Rest'
    BY <2>3, StopStepInv
  <2>4. ASSUME NEW p \in Pids, Exit(p) PROVE Rest'
    BY <2>4, ExitInv
  <2>5. ASSUME NEW p \in Pids, Poll(p) \/ PollOk(p) \/ PollFails(p) PROVE Rest'
    BY <2>5, RestSame DEF Poll, PollOk, PollFails, IInv, Rest
  <2>6. ASSUME NEW p \in Pids, Restart(p) PROVE Rest'
    BY <2>6, StopInv DEF Restart
  <2>7. ASSUME NEW c \in Users, NEW reuse \in BOOLEAN, StartCommand(c, reuse) PROVE Rest'
    <3>1. c \in Callers /\ (c \in BleUsers) \in BOOLEAN
      BY PidFacts
    <3> QED
      BY <2>7, <3>1, StartProcessInv DEF StartCommand
  <2>8. ASSUME NEW quit \in BOOLEAN, StopCommand(quit) PROVE Rest'
    BY <2>8, StopInv DEF StopCommand
  <2>9. Rest'
    BY <1>2, <2>1, <2>2, <2>3, <2>4, <2>5, <2>6, <2>7, <2>8 DEF Next
  <2> QED
    BY <1>1, <2>9 DEF IInv, Rest
<1>3. CASE UNCHANGED vars
  <2>1. Rest'
    BY <1>3, RestSame DEF vars, IInv, Rest
  <2> QED
    BY <1>1, <2>1 DEF IInv, Rest
<1> QED
  BY <1>2, <1>3

-----------------------------------------------------------------------------
(***************************************************************************)
(* The properties.  They need the assumption that the exit of a SIGKILLed  *)
(* child is heard before the next spawn (PromptExit).                      *)
(***************************************************************************)
LEMMA InvImplies == IInv => OneStack /\ NoOrphan /\ StatusTruthful
<1> SUFFICES ASSUME IInv PROVE OneStack /\ NoOrphan /\ StatusTruthful
  OBVIOUS
<1>1. OneStack
  <2> DEFINE S == {p \in Pids : child[p] \in {"up", "term"}}
  <2>1. \A p, q \in S : p = q
    BY DEF IInv, ChildInv, AliveInv, Alive
  <2>2. CASE S = {}
    BY <2>2, FS_EmptySet DEF OneStack
  <2>3. CASE S # {}
    <3>1. PICK p \in S : S = {p}
      BY <2>1, <2>3
    <3>2. Cardinality(S) = 1
      BY <3>1, FS_Singleton
    <3> QED
      BY <3>2 DEF OneStack
  <2> QED
    BY <2>2, <2>3
<1>2. NoOrphan
  BY DEF IInv, ChildInv, HandleInv, NoOrphan
<1>3. StatusTruthful
  <2>1. m.proc \in Pids \cup {NoPid}
    BY DEF IInv, TypeOK, Fields
  <2> QED
    BY <2>1 DEF IInv, ChildInv, HandleInv, RunInv, StatusTruthful
<1> QED
  BY <1>1, <1>2, <1>3

LEMMA Invariance == ASSUME PromptExit PROVE Spec => []IInv
<1>1. IInv /\ [Next]_vars => IInv'
  BY NextInv
<1> QED
  BY <1>1, InitInv, PTL DEF Spec

(***************************************************************************)
(* However starts, stops and restarts overlap, no child is spawned while   *)
(* another one runs.                                                       *)
(***************************************************************************)
THEOREM OneChild == ASSUME PromptExit PROVE Spec => []OneStack
<1> QED
  BY InvImplies, Invariance, PTL

(***************************************************************************)
(* The manager always holds the handle and the token of the child that was *)
(* not told to stop.                                                       *)
(***************************************************************************)
THEOREM NoChildIsLost == ASSUME PromptExit PROVE Spec => []NoOrphan
<1> QED
  BY InvImplies, Invariance, PTL

(***************************************************************************)
(* A status that says running, with no stop under way, is about a live     *)
(* child with an armed watchdog.                                           *)
(***************************************************************************)
THEOREM StatusIsTruthful == ASSUME PromptExit PROVE Spec => []StatusTruthful
<1> QED
  BY InvImplies, Invariance, PTL

-----------------------------------------------------------------------------
(***************************************************************************)
(* Quitting flushes: a running stack is terminated where a request of its  *)
(* stop has returned, or by a stop that found nothing to flush.            *)
(***************************************************************************)
Flushes ==
    \A p \in Pids : child[p] = "up" /\ child'[p] = "term" /\ m.quitFast /\ ReportsRunning(m)
        => p \in flushed'

SameReport(f) ==
    f \in Fields /\ f.proc = m.proc /\ f.running = m.running /\ f.bleOnly = m.bleOnly

LEMMA StopProcFlushes ==
    ASSUME TypeOK, NEW s \in Stoppers, NEW f, SameReport(f), StopProc(s, f)
    PROVE  Flushes
<1>1. child' = child \/ ~ReportsRunning(m)
  BY StopProcType DEF SameReport, ReportsRunning
<1> QED
  BY <1>1 DEF Flushes

LEMMA ProceedFlushes ==
    ASSUME TypeOK, NEW o \in Once, NEW f, SameReport(f), Proceed(o, f) \/ Fresh(o, f)
    PROVE  Flushes
<1>1. f \in Fields
  BY DEF SameReport
<1>2. ASSUME child' = child PROVE Flushes
  BY <1>2 DEF Flushes
<1>3. StopProc("once", f) \/ child' = child
  BY <1>1, FreshType, ProceedType
<1> QED
  BY <1>2, <1>3, StopProcFlushes DEF Stoppers

LEMMA StartProcessFlushes ==
    ASSUME TypeOK, NEW c \in Callers, NEW ble \in BOOLEAN, NEW reuse \in BOOLEAN,
           StartProcess(c, ble, reuse) \/ Launch(c, ble, reuse)
    PROVE  Flushes
<1>1. ASSUME child' = child PROVE Flushes
  BY <1>1 DEF Flushes
<1>2. ASSUME Launch(c, ble, reuse) PROVE Flushes
  <2>1. Proceed(Launched(ble, reuse), Launching) \/ child' = child
    BY <1>2, LaunchType
  <2>2. Launched(ble, reuse) \in Once /\ SameReport(Launching)
    BY LaunchFacts DEF SameReport
  <2> QED
    BY <1>1, <2>1, <2>2, ProceedFlushes
<1> QED
  BY <1>1, <1>2 DEF StartProcess, Waits

LEMMA StopFlushes ==
    ASSUME TypeOK, NEW quit \in BOOLEAN, Stop(quit)
    PROVE  Flushes
<1>1. ASSUME child' = child PROVE Flushes
  BY <1>1 DEF Flushes
<1>2. child' = child \/ StopProc("stop", Stopped(quit))
  BY StopTypes
<1>3. SameReport(Stopped(quit))
  BY StoppedFacts DEF SameReport
<1> QED
  BY <1>1, <1>2, <1>3, StopProcFlushes DEF Stoppers

LEMMA StepFlushes == TypeOK /\ [Next]_vars => Flushes
<1> SUFFICES ASSUME TypeOK, [Next]_vars PROVE Flushes
  OBVIOUS
<1>0. /\ SameReport(m) /\ so \in Once
      /\ (child' = child => Flushes)
      /\ \A c \in Callers : call[c].ble \in BOOLEAN /\ call[c].reuse \in BOOLEAN
      /\ \A p \in Pids : wd[p].ble \in BOOLEAN /\ p \in Callers
  BY PidFacts DEF TypeOK, SameReport, Flushes
<1>1. ASSUME Continue PROVE Flushes
  <2>1. CASE AwaitedStop \/ StaleStopped
    BY <1>0, <2>1, ProceedFlushes DEF AwaitedStop, StaleStopped
  <2>2. CASE OldStopped \/ SickStopped
    BY <1>0, <2>2 DEF OldStopped, SickStopped
  <2>3. ASSUME NEW c \in Callers, Resume(c) PROVE Flushes
    BY <1>0, <2>3, StartProcessFlushes DEF Resume, Waits
  <2>4. ASSUME NEW c \in Callers, Joined(c) PROVE Flushes
    BY <1>0, <2>4, StartProcessFlushes DEF Joined
  <2>5. ASSUME NEW p \in Pids, WatchdogStarts(p) PROVE Flushes
    BY <1>0, <2>5, StartProcessFlushes DEF WatchdogStarts
  <2> QED
    BY <1>1, <2>1, <2>2, <2>3, <2>4, <2>5 DEF Continue
<1>2. ASSUME StartStep PROVE Flushes
  <2>1. CASE ReuseSick \/ HealthFails
    BY <1>0, <2>1, StopProcFlushes DEF ReuseSick, HealthFails, Stoppers
  <2>2. CASE ReuseHealthy \/ LiveStarts \/ LiveFails \/ PrespawnFails \/ HealthOk
    BY <1>0, <2>2 DEF ReuseHealthy, LiveStarts, LiveFails, PrespawnFails, HealthOk
  <2>3. ASSUME NEW p \in Pids, Spawn(p) PROVE Flushes
    BY <2>3 DEF Spawn, Flushes, TypeOK
  <2> QED
    BY <1>2, <2>1, <2>2, <2>3 DEF StartStep
<1>3. ASSUME NEW s \in Stoppers, StopStep(s) PROVE Flushes
  <2>1. CASE PrepareDone(s)
    BY <1>0, <2>1 DEF PrepareDone, FlushOwed, Flushes
  <2>2. CASE FlushDone(s)
    <3>1. ASSUME NEW p \in Pids, child[p] = "up", child'[p] = "term" PROVE p = m.proc
      BY <1>0, <2>2, <3>1, TakeType, ZenonT(120) DEF FlushDone, SameReport, TypeOK
    <3>2. \A p \in Pids : p = m.proc => p \in flushed'
      BY <2>2, PidFacts DEF FlushDone
    <3> QED
      BY <3>1, <3>2 DEF Flushes
  <2>3. CASE GraceOver(s)
    BY <2>3 DEF GraceOver, Flushes, TypeOK
  <2> QED
    BY <1>3, <2>1, <2>2, <2>3 DEF StopStep
<1>4. ASSUME NEW p \in Pids, Exit(p) PROVE Flushes
  BY <1>4 DEF Exit, Flushes, TypeOK
<1>5. ASSUME NEW p \in Pids, Poll(p) \/ PollOk(p) \/ PollFails(p) PROVE Flushes
  BY <1>0, <1>5 DEF Poll, PollOk, PollFails
<1>6. ASSUME NEW p \in Pids, Restart(p) PROVE Flushes
  BY <1>6, StopFlushes DEF Restart
<1>7. ASSUME NEW c \in Users, NEW reuse \in BOOLEAN, StartCommand(c, reuse) PROVE Flushes
  <2>1. c \in Callers /\ (c \in BleUsers) \in BOOLEAN
    BY PidFacts
  <2> QED
    BY <1>7, <2>1, StartProcessFlushes DEF StartCommand
<1>8. ASSUME NEW quit \in BOOLEAN, StopCommand(quit) PROVE Flushes
  BY <1>8, StopFlushes DEF StopCommand
<1>9. CASE UNCHANGED vars
  BY <1>0, <1>9 DEF vars
<1> QED
  BY <1>1, <1>2, <1>3, <1>4, <1>5, <1>6, <1>7, <1>8, <1>9 DEF Next

(***************************************************************************)
(* A quit never terminates a running stack whose flush-state of the quit   *)
(* has not been awaited; this needs no assumption on the exits.            *)
(***************************************************************************)
THEOREM QuitAlwaysFlushes == Spec => QuitFlushes
<1>1. TypeOK /\ [Next]_vars =>
        [\A p \in Pids :
            child[p] = "up" /\ child'[p] = "term" /\ m.quitFast /\ ReportsRunning(m)
                => p \in flushed']_vars
  BY StepFlushes DEF Flushes
<1> QED
  BY <1>1, TypeCorrect, PTL DEF Spec, QuitFlushes
=============================================================================
