------------------------------ MODULE LockRow ------------------------------
(***************************************************************************)
(* The shop_operation_lock row of one shop and what each function of       *)
(* operation-lock.service.ts (and the reaper of lockReaper.ts) makes of    *)
(* it.  Every one of them is one transaction on one row, locked FOR UPDATE *)
(* or updated by one statement.                                            *)
(***************************************************************************)
EXTENDS Integers

CONSTANTS Owners,             \* batch ids
          LockTtl,            \* DEFAULT_OPERATION_LOCK_TTL_MS, in ticks
          HeartbeatTimeout    \* LOCK_HEARTBEAT_TIMEOUT_MS, in ticks

ASSUME LockRowAssumption ==
  /\ LockTtl \in Nat \ {0} /\ HeartbeatTimeout \in Nat
  /\ LockTtl <= HeartbeatTimeout      \* both are 30 minutes

LockTypes == {"SCAN", "GENERATE", "WRITEBACK"}
LockRows == [type : LockTypes, owner : Owners, heartbeatAt : Nat, expiresAt : Nat,
             status : {"RUNNING", "RELEASED", "EXPIRED"}]

NoLock == [status |-> "NONE"]

Running(l, now) == l.status = "RUNNING" /\ l.expiresAt > now

HeldBy(l, owner) == l.status = "RUNNING" /\ l.owner = owner

\* isOperationRunning
OperationRunning(l, type, now) == Running(l, now) /\ l.type = type

\* acquireLock: a row that is absent, released or expired is taken over, the
\* same owner and type refresh theirs; anything else is a conflict.
Grantable(l, type, owner, now) == Running(l, now) => l.owner = owner /\ l.type = type

Granted(type, owner, now) ==
  [type |-> type, owner |-> owner, heartbeatAt |-> now, expiresAt |-> now + LockTtl,
   status |-> "RUNNING"]

Closed(l, now) == [l EXCEPT !.status = "RELEASED", !.heartbeatAt = now, !.expiresAt = now]

\* releaseLock: the running lock of its owner, expired or not
Released(l, owner, now) == IF HeldBy(l, owner) THEN Closed(l, now) ELSE l

\* Mutant of ReleasedByType: the type is not compared.
ReleasedAnyType(l, type, now) == IF l.status = "RUNNING" THEN Closed(l, now) ELSE l

\* releaseLockByType: the running lock of that type, whoever owns it
ReleasedByType(l, type, now) ==
  IF l.status = "RUNNING" /\ l.type = type THEN Closed(l, now) ELSE l

\* heartbeatLock: only the owner, and only before the lock expires
CanHeartbeat(l, owner, now) == HeldBy(l, owner) /\ l.expiresAt > now

\* Mutant of Reapable: the comparison the wrong way round
ReapableFresh(l, now) == l.status = "RUNNING" /\ l.heartbeatAt > now - HeartbeatTimeout

\* reapExpiredLocks and cleanupExpiredLocks: the rows they mark EXPIRED
Reapable(l, now) == l.status = "RUNNING" /\ l.heartbeatAt < now - HeartbeatTimeout
Stale(l, now) == l.status = "RUNNING" /\ l.expiresAt <= now
=============================================================================
