---------------------------- MODULE OutboxPolicy ----------------------------
(***************************************************************************)
(* The rules of the durable chat outbox that do not depend on who is       *)
(* draining it: what a row of the SQLite table chat_outbox looks like,     *)
(* which rows a drain may send, in which order, with which back-off, and   *)
(* which row the emergency soft cap pauses.                                *)
(*                                                                         *)
(* Translated from src/src/renderer/hooks/useChatOutbox.ts,                *)
(* src/src/renderer/lib/scheduledSend.ts and the chat:outbox:* handlers of *)
(* src/src/main/index.ts.                                                  *)
(***************************************************************************)
EXTENDS Integers, Sequences

CONSTANTS
    Identities,      \* the radio identities a row can be stamped with
    NoIdentity,      \* null: a legacy row, or no identity connected
    MaxAttempts,     \* MAX_ATTEMPTS, the automatic attempts of a normal row
    MaxAge,          \* OUTBOX_MAX_AGE_MS
    NormalDelays,    \* RETRY_DELAYS_MS
    EmergencyDelays, \* EMERGENCY_RETRY_DELAYS_MS
    SoftCap          \* EMERGENCY_OUTBOX_SOFT_CAP

ASSUME PolicyAssumption ==
    /\ NoIdentity \notin Identities
    /\ MaxAttempts \in Nat \ {0}
    /\ MaxAge \in Nat
    /\ NormalDelays \in Seq(Nat) /\ NormalDelays # <<>>
    /\ EmergencyDelays \in Seq(Nat) /\ EmergencyDelays # <<>>
    /\ SoftCap \in Nat \ {0}

(***************************************************************************)
(* Wall-clock times are natural numbers; Never is the null next_retry_at.  *)
(***************************************************************************)
Never == -1
Time == Nat \cup {Never}

(***************************************************************************)
(* The payload is abstracted to the kind of message the policy tells       *)
(* apart: "mayday" and "report" are the emergency priority (MECP severity  *)
(* 0 and the others), "ack" is a normal-priority incident ACK tagged by    *)
(* its viewKey, "text" is a chat message, "legacy" is a chat message from  *)
(* before single-packet MeshCore.                                          *)
(***************************************************************************)
Kinds == {"mayday", "report", "ack", "text", "legacy"}
Statuses == {"queued", "sending", "failed", "blocked"}

Row == [id: Nat, kind: Kinds, ident: Identities \cup {NoIdentity},
        status: Statuses, attempts: Nat, retryAt: Time, createdAt: Nat]

(* INSERT of chat:outbox:add: attempt_count starts at 0. *)
NewRow(id, kind, ident, at, now) ==
    [id |-> id, kind |-> kind, ident |-> ident, status |-> "queued",
     attempts |-> 0, retryAt |-> at, createdAt |-> now]

Emergency(r) == r.kind \in {"mayday", "report"}
AppManaged(r) == Emergency(r) \/ r.kind = "ack"

(* A one-shot scheduled send that was never attempted. *)
Scheduled(r) ==
    /\ ~Emergency(r)
    /\ r.status = "queued"
    /\ r.attempts = 0
    /\ r.retryAt # Never

AppDrained(r) == AppManaged(r) \/ Scheduled(r)

MatchesIdentity(r, connected) == r.ident \in {NoIdentity, connected}

AgeAnchor(r) == IF Scheduled(r) THEN r.retryAt ELSE r.createdAt

NotSending(r) == r.status # "sending"  \* mutant
Waiting(r) == r.status \in {"queued", "failed"}

Due(r, now) == r.retryAt = Never \/ r.retryAt <= now

EligibleOnceMore(r, now) ==  \* mutant: one attempt too many
    /\ Waiting(r)
    /\ Due(r, now)
    /\ AppManaged(r) \/ now - AgeAnchor(r) <= MaxAge
    /\ AppManaged(r) \/ r.attempts <= MaxAttempts

Eligible(r, now) ==
    /\ Waiting(r)
    /\ Due(r, now)
    /\ AppManaged(r) \/ now - AgeAnchor(r) <= MaxAge
    /\ AppManaged(r) \/ r.attempts < MaxAttempts

(* Emergency rows first, then oldest first; ids grow with creation. *)
Before(r, s) ==
    \/ Emergency(r) /\ ~Emergency(s)
    \/ /\ Emergency(r) = Emergency(s)
       /\ \/ r.createdAt < s.createdAt
          \/ r.createdAt = s.createdAt /\ r.id <= s.id

FirstOf(rows) == CHOOSE r \in rows : \A s \in rows : Before(r, s)

RetryDelay(r, n) ==
    LET delays == IF Emergency(r) THEN EmergencyDelays ELSE NormalDelays
    IN  delays[IF n <= Len(delays) THEN n ELSE Len(delays)]

(* earliestEmergencyRetryAt: the retry times of App-drained rows, and the  *)
(* earliest of them still ahead of the clock.                              *)
EmergencyRetryTimes(rows) ==  \* mutant: incident ACKs arm no timer
    {r.retryAt : r \in {s \in rows : Emergency(s) /\ Waiting(s)}}
RetryTimes(rows) ==
    {r.retryAt : r \in {s \in rows : AppDrained(s) /\ Waiting(s)}}

EarliestRetry(times, now) ==
    LET ahead == {t \in times : t > now}
    IN  IF ahead = {} THEN Never
        ELSE CHOOSE t \in ahead : \A u \in ahead : t <= u

(* attempt_count, saturating where no rule can tell two counts apart: an   *)
(* emergency row is retried for ever.                                      *)
CountCeiling ==
    CHOOSE n \in {MaxAttempts, Len(NormalDelays), Len(EmergencyDelays)} :
        n >= MaxAttempts /\ n >= Len(NormalDelays) /\ n >= Len(EmergencyDelays)

Bump(n) == IF n < CountCeiling THEN n + 1 ELSE n

(* The row as recordOutboxSendFailure writes it. *)
Failed(r, encryptionBlocked, now) ==
    LET n == Bump(r.attempts)
        keepRetrying == ~encryptionBlocked /\ (AppManaged(r) \/ n < MaxAttempts)
    IN  [r EXCEPT !.status = IF encryptionBlocked THEN "blocked" ELSE "failed",
                  !.attempts = n,
                  !.retryAt = IF keepRetrying THEN now + RetryDelay(r, n)
                              ELSE Never]

(* UPDATE of chat:outbox:updateStatus: an omitted next_retry_at is set to  *)
(* null, an omitted attempt_count is kept.                                 *)
WithStatus(r, status) == [r EXCEPT !.status = status, !.retryAt = Never]

(* A row an interrupted drain left in "sending" goes back to the queue. *)
Requeued(r) == IF r.status = "sending" THEN WithStatus(r, "queued") ELSE r

(* enforceEmergencyOutboxSoftCap: the rows it counts, and the candidates   *)
(* to pause: never one being sent, never a MAYDAY. Every other report has  *)
(* the same severity here, so the oldest goes.                             *)
CapCounted(rows, newId) ==
    {r \in rows : Emergency(r) /\ r.id # newId /\ r.status # "blocked"}

CapVictims(rows, newId) ==
    {r \in CapCounted(rows, newId) : r.status # "sending" /\ r.kind # "mayday"}
=============================================================================
