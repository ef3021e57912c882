--------------------------- MODULE OperationLock ---------------------------
(***************************************************************************)
(* The heavy operations of one shop and the two locks that keep them apart: *)
(* SCAN and GENERATE share the row of LockRow in PostgreSQL, WRITEBACK has  *)
(* a key in Redis (writeback-lock.service.ts).  No transaction spans both:  *)
(* each start handler reads one lock and then takes the other.             *)
(*                                                                         *)
(* A scan's workers do not know its owner id and release by type; a failed *)
(* publish attempt releases too, and BullMQ runs it again.                 *)
(***************************************************************************)
EXTENDS LockRow

CONSTANTS Scans, Generations, Writebacks,  \* the operations the shop starts
          OwnerOf,             \* scan or generation -> its batch id
          WritebackTtl,        \* DEFAULT_WRITEBACK_LOCK_TTL_MS, in ticks
          PublishAttempts,     \* attempts of a publish job
          MaxClock             \* bound on the clock

RowOps == Scans \cup Generations
Ops == RowOps \cup Writebacks

\* A scan's batch id is its shop and the millisecond it was requested in, so
\* two scans may share one; a generation's is the id of its batch row.
ASSUME OperationAssumption ==
  /\ OwnerOf \in [RowOps -> Owners]
  /\ \A g \in Generations, o \in RowOps : OwnerOf[g] = OwnerOf[o] => g = o
  /\ Scans \cap Generations = {} /\ RowOps \cap Writebacks = {}
  /\ WritebackTtl \in Nat \ {0} /\ PublishAttempts \in Nat \ {0} /\ MaxClock \in Nat

VARIABLES lock,       \* the shop's row of shop_operation_lock, or NoLock
          key,        \* the Redis key: its lock id and expiry
          phase,      \* operation -> how far it is
          attempts,   \* scan -> attempts its publish job has left
          lease,      \* history: operation -> expiry its acquisition was granted
          clock

vars == <<lock, key, phase, attempts, lease, clock>>

NoKey == [id |-> {}, expiresAt |-> 0]
Keys == [id : {{}} \cup {{w} : w \in Writebacks}, expiresAt : Nat]

\* isWritebackLocked
WritebackLocked == key.id # {} /\ key.expiresAt > clock

Become(o, p) == phase' = [phase EXCEPT ![o] = p]

-----------------------------------------------------------------------------
Init == /\ lock = NoLock
        /\ key = NoKey
        /\ phase = [o \in Ops |-> "idle"]
        /\ attempts = [s \in Scans |-> PublishAttempts]
        /\ lease = [o \in Ops |-> 0]
        /\ clock = 0

\* The last step of a start handler that takes the row: acquireLock grants it,
\* or the request is answered with a 409.
Acquire(o, type) ==
  /\ phase[o] = "checked"
  /\ \/ /\ Grantable(lock, type, OwnerOf[o], clock)
        /\ lock' = Granted(type, OwnerOf[o], clock)
        /\ lease' = [lease EXCEPT ![o] = clock + LockTtl]
        /\ Become(o, "running")
     \/ /\ ~Grantable(lock, type, OwnerOf[o], clock)
        /\ Become(o, "ended")
        /\ UNCHANGED <<lock, lease>>
  /\ UNCHANGED <<key, attempts, clock>>

\* POST /api/scan/start: the WRITEBACK key is read, then the row is taken.
CheckScan(s) ==
  /\ phase[s] = "idle"
  /\ ~WritebackLocked
  /\ Become(s, "checked")
  /\ UNCHANGED <<lock, key, attempts, lease, clock>>

AcquireScan(s) == Acquire(s, "SCAN")

\* The start handler fails after it took the lock.
ScanStartFails(s) ==
  /\ phase[s] = "running"
  /\ Become(s, "ended")
  /\ lock' = Released(lock, OwnerOf[s], clock)
  /\ UNCHANGED <<key, attempts, lease, clock>>

\* The scan fails: in derivation, by the timeout sweep or stopped by the user,
\* with a release by type; while it is submitted or parsed, with none.
ScanFails(s) ==
  /\ phase[s] = "running"
  /\ Become(s, "ended")
  /\ lock' \in {ReleasedByType(lock, "SCAN", clock), lock}
  /\ UNCHANGED <<key, attempts, lease, clock>>

\* Its last task is derived and the publish job enqueued.
ScanDerived(s) ==
  /\ phase[s] = "running"
  /\ Become(s, "publishing")
  /\ UNCHANGED <<lock, key, attempts, lease, clock>>

\* processPublishScanJob, one attempt: the lock is released either way, and
\* the job is tried again while it has attempts left.
PublishScan(s) ==
  /\ phase[s] = "publishing"
  /\ attempts[s] > 0
  /\ attempts' = [attempts EXCEPT ![s] = @ - 1]
  /\ lock' = ReleasedByType(lock, "SCAN", clock)
  /\ \/ Become(s, "ended")
     \/ attempts[s] > 1 /\ UNCHANGED phase
  /\ UNCHANGED <<key, lease, clock>>

\* POST /api/generation/start: findBlockingLock, and later acquireGenerateLock.
CheckGeneration(g) ==
  /\ phase[g] = "idle"
  /\ \A type \in {"SCAN", "GENERATE"} : ~OperationRunning(lock, type, clock)
  /\ Become(g, "checked")
  /\ UNCHANGED <<lock, key, attempts, lease, clock>>

AcquireGeneration(g) == Acquire(g, "GENERATE")

\* The batch completes, or its start is rolled back: releaseGenerateLock.
FinishGeneration(g) ==
  /\ phase[g] = "running"
  /\ Become(g, "ended")
  /\ lock' = Released(lock, OwnerOf[g], clock)
  /\ UNCHANGED <<key, attempts, lease, clock>>

\* heartbeatLock; exported for the workers, called by none of them.
Heartbeat(o) ==
  /\ phase[o] \in {"running", "publishing"}
  /\ CanHeartbeat(lock, OwnerOf[o], clock)
  /\ lock' = Granted(lock.type, OwnerOf[o], clock)
  /\ lease' = [lease EXCEPT ![o] = clock + LockTtl]
  /\ UNCHANGED <<key, phase, attempts, clock>>

\* POST /api/writeback/start.  startWriteback reads both locks, but only to
\* refuse earlier; acquireWritebackLock reads the row ...
CheckWriteback(w) ==
  /\ phase[w] = "idle"
  /\ ~OperationRunning(lock, "SCAN", clock)
  /\ Become(w, "checked")
  /\ UNCHANGED <<lock, key, attempts, lease, clock>>

\* ... and then sets the key, NX PX.
AcquireWriteback(w) ==
  /\ phase[w] = "checked"
  /\ \/ /\ ~WritebackLocked
        /\ key' = [id |-> {w}, expiresAt |-> clock + WritebackTtl]
        /\ lease' = [lease EXCEPT ![w] = clock + WritebackTtl]
        /\ Become(w, "running")
     \/ /\ WritebackLocked
        /\ Become(w, "ended")
        /\ UNCHANGED <<key, lease>>
  /\ UNCHANGED <<lock, attempts, clock>>

\* Mutant of FinishWriteback: the key is deleted whoever set it.
DeleteKey(w) ==
  /\ phase[w] = "running"
  /\ Become(w, "ended")
  /\ key' = NoKey
  /\ UNCHANGED <<lock, attempts, lease, clock>>

\* The batch is finalised or its start rolled back: releaseWritebackLock
\* deletes the key if it still holds this lock id.
FinishWriteback(w) ==
  /\ phase[w] = "running"
  /\ Become(w, "ended")
  /\ key' = IF key.id = {w} THEN NoKey ELSE key
  /\ UNCHANGED <<lock, attempts, lease, clock>>

Reap ==
  /\ Reapable(lock, clock)
  /\ lock' = [lock EXCEPT !.status = "EXPIRED"]
  /\ UNCHANGED <<key, phase, attempts, lease, clock>>

\* cleanupExpiredLocks, by way of runLockTimeoutCleanupOnce
CleanupExpired ==
  /\ Stale(lock, clock)
  /\ lock' = [lock EXCEPT !.status = "EXPIRED"]
  /\ UNCHANGED <<key, phase, attempts, lease, clock>>

Tick == /\ clock < MaxClock
        /\ clock' = clock + 1
        /\ UNCHANGED <<lock, key, phase, attempts, lease>>

Next ==
  \/ \E s \in Scans : CheckScan(s) \/ AcquireScan(s) \/ ScanStartFails(s)
                        \/ ScanFails(s) \/ ScanDerived(s) \/ PublishScan(s)
  \/ \E g \in Generations : CheckGeneration(g) \/ AcquireGeneration(g) \/ FinishGeneration(g)
  \/ \E w \in Writebacks : CheckWriteback(w) \/ AcquireWriteback(w) \/ FinishWriteback(w)
  \/ \E o \in RowOps : Heartbeat(o)
  \/ Reap
  \/ CleanupExpired
  \/ Tick

Spec == Init /\ [][Next]_vars

\* Time passes and the reaper is a repeatable job.  Nothing else is fair: an
\* operation's worker may die at any step.
FairSpec == Spec /\ WF_vars(Tick) /\ WF_vars(Reap)
-----------------------------------------------------------------------------
\* Properties

TypeOK ==
  /\ lock \in {NoLock} \cup LockRows
  /\ key \in Keys
  /\ phase \in [Ops -> {"idle", "checked", "running", "publishing", "ended"}]
  /\ attempts \in [Scans -> 0 .. PublishAttempts]
  /\ lease \in [Ops -> Nat]
  /\ clock \in Nat

\* The operation has begun, has not ended, and its lock has not yet expired
InLease(o) == phase[o] \in {"running", "publishing"} /\ clock < lease[o]

\* A running lock expires LockTtl after its last heartbeat.
Lifetimes == lock.status = "RUNNING" => lock.expiresAt = lock.heartbeatAt + LockTtl

\* Nobody takes the row from a generation before it ends or its lock expires:
\* not a scan that ends late and releases by type, not a retry of its publish
\* job, not the rollback of another start, not the reaper.
GenerationLease ==
  \A g \in Generations : InLease(g) => HeldBy(lock, OwnerOf[g]) /\ lock.type = "GENERATE"

\* Nobody takes the key from a writeback before it ends or its key expires:
\* a writeback that outlived its own key deletes nothing.
WritebackLease ==
  \A w \in Writebacks : InLease(w) => key.id = {w} /\ key.expiresAt > clock

\* The inductive invariant of OperationLockProofs: the row and the key expire
\* exactly when the operation that holds them was told.
LeaseIsExpiry ==
  /\ \A g \in Generations : InLease(g) => lock.expiresAt = lease[g]
  /\ \A w \in Writebacks : InLease(w) => key.expiresAt = lease[w]

\* A batch id of a generation is never on a scan's lock.
OwnerFitsType == \A g \in Generations : HeldBy(lock, OwnerOf[g]) => lock.type = "GENERATE"

IInv == TypeOK /\ Lifetimes /\ OwnerFitsType /\ GenerationLease /\ WritebackLease /\ LeaseIsExpiry

\* The reaper's threshold and the lock's lifetime run from the same instant:
\* it never expires a lock that still counts.
ReapsOnlyExpired ==
  [][lock.status = "RUNNING" /\ lock'.status = "EXPIRED" => lock.expiresAt <= clock]_vars

\* 4.2.5: a lock whose holder is gone does not stay RUNNING.  (Up to MaxClock:
\* a lock that could be reaped only then is beyond the instance.)
AbandonedLockIsReaped ==
  \A o \in Owners :
    HeldBy(lock, o) /\ lock.heartbeatAt + HeartbeatTimeout < MaxClock
      ~> \/ ~HeldBy(lock, o)
         \/ lock.heartbeatAt + HeartbeatTimeout >= MaxClock

\* writeback-lock.service.ts: a scan is not started while a writeback runs, nor
\* a writeback while a scan runs.  It does not hold: both start handlers pass
\* their check before either locks.
ScanExcludesWriteback ==
  \A s \in Scans, w \in Writebacks : ~(InLease(s) /\ InLease(w))

\* 4.2.4: while a scan's tasks run, POST /api/generation/start answers 409.  It
\* does not hold: a retried publish job releases the next scan's lock by type.
NoGenerationBesideScan ==
  \A s \in Scans, g \in Generations :
    ~(phase[s] = "running" /\ clock < lease[s] /\ InLease(g))
=============================================================================
