------------------------ MODULE OperationLockProofs ------------------------
(***************************************************************************)
(* The leases of OperationLock, for any number of operations, any owner    *)
(* ids and any lifetimes LockTtl <= HeartbeatTimeout.                      *)
(***************************************************************************)
EXTENDS OperationLock, TLAPS

\* A released row is still a row.
LEMMA ReleaseTypes ==
  ASSUME lock \in {NoLock} \cup LockRows, clock \in Nat
  PROVE  /\ \A owner : Released(lock, owner, clock) \in {NoLock} \cup LockRows
         /\ \A type : ReleasedByType(lock, type, clock) \in {NoLock} \cup LockRows
<1>1. Closed(lock, clock) \in LockRows \/ lock = NoLock
  BY DEF Closed, LockRows
<1>2. QED
  BY <1>1 DEF Released, ReleasedByType, HeldBy, NoLock

\* Every step keeps the types: acquisitions, releases, expiries, the clock.
LEMMA TypeStep == ASSUME TypeOK, [Next]_vars PROVE TypeOK'
<1> USE LockRowAssumption, OperationAssumption
<1> USE DEF TypeOK, RowOps, Ops, Keys, NoKey, Become
<1>1. ASSUME NEW o \in RowOps, NEW type \in LockTypes, Acquire(o, type) PROVE TypeOK'
  BY <1>1 DEF Acquire, Granted, LockRows
<1>2. ASSUME NEW s \in Scans, CheckScan(s) PROVE TypeOK'
  BY <1>2 DEF CheckScan
<1>3. ASSUME NEW s \in Scans, AcquireScan(s) PROVE TypeOK'
  <2> HIDE DEF TypeOK, Lifetimes, InLease, RowOps, Ops, Become, IInv
  <2>1. Acquire(s, "SCAN") /\ s \in RowOps /\ "SCAN" \in LockTypes
    BY <1>3 DEF AcquireScan, LockTypes, RowOps
  <2>2. QED
    BY <2>1, <1>1
<1>4. ASSUME NEW s \in Scans, ScanStartFails(s) PROVE TypeOK'
  BY <1>4, ReleaseTypes DEF ScanStartFails
<1>5. ASSUME NEW s \in Scans, ScanFails(s) PROVE TypeOK'
  BY <1>5, ReleaseTypes DEF ScanFails
<1>6. ASSUME NEW s \in Scans, ScanDerived(s) PROVE TypeOK'
  BY <1>6 DEF ScanDerived
<1>7. ASSUME NEW s \in Scans, PublishScan(s) PROVE TypeOK'
  BY <1>7, ReleaseTypes DEF PublishScan
<1>8. ASSUME NEW g \in Generations, CheckGeneration(g) PROVE TypeOK'
  BY <1>8 DEF CheckGeneration
<1>9. ASSUME NEW g \in Generations, AcquireGeneration(g) PROVE TypeOK'
  <2> HIDE DEF TypeOK, Lifetimes, InLease, RowOps, Ops, Become, IInv
  <2>1. Acquire(g, "GENERATE") /\ g \in RowOps /\ "GENERATE" \in LockTypes
    BY <1>9 DEF AcquireGeneration, LockTypes, RowOps
  <2>2. QED
    BY <2>1, <1>1
<1>10. ASSUME NEW g \in Generations, FinishGeneration(g) PROVE TypeOK'
  BY <1>10, ReleaseTypes DEF FinishGeneration
<1>11. ASSUME NEW w \in Writebacks, CheckWriteback(w) PROVE TypeOK'
  BY <1>11 DEF CheckWriteback
<1>12. ASSUME NEW w \in Writebacks, AcquireWriteback(w) PROVE TypeOK'
  BY <1>12 DEF AcquireWriteback
<1>13. ASSUME NEW w \in Writebacks, FinishWriteback(w) PROVE TypeOK'
  BY <1>13 DEF FinishWriteback
<1>14. ASSUME NEW o \in RowOps, Heartbeat(o) PROVE TypeOK'
  BY <1>14 DEF Heartbeat, CanHeartbeat, HeldBy, Granted, LockRows, NoLock
<1>15. CASE Reap
  BY <1>15 DEF Reap, Reapable, LockRows, NoLock
<1>16. CASE CleanupExpired
  BY <1>16 DEF CleanupExpired, Stale, LockRows, NoLock
<1>17. CASE Tick
  BY <1>17 DEF Tick
<1>18. CASE UNCHANGED vars
  BY <1>18 DEF vars
<1>19. QED
  BY <1>2, <1>3, <1>4, <1>5, <1>6, <1>7, <1>8, <1>9, <1>10, <1>11, <1>12, <1>13,
     <1>14, <1>15, <1>16, <1>17, <1>18 DEF Next

\* A running lock keeps expiring LockTtl after its heartbeat, whoever writes it.
LEMMA LifetimesStep ==
  ASSUME TypeOK, Lifetimes, [Next]_vars
  PROVE  Lifetimes'
<1> USE LockRowAssumption
<1> USE DEF TypeOK, Lifetimes, NoLock, LockRows, Become, Released, ReleasedByType, Closed,
        Granted, HeldBy
<1>1. ASSUME NEW o \in RowOps, NEW type \in LockTypes, Acquire(o, type) PROVE Lifetimes'
  BY <1>1 DEF Acquire
<1>2. ASSUME NEW s \in Scans, CheckScan(s) PROVE Lifetimes'
  BY <1>2 DEF CheckScan
<1>3. ASSUME NEW s \in Scans, AcquireScan(s) PROVE Lifetimes'
  <2> HIDE DEF TypeOK, Lifetimes, InLease, RowOps, Ops, Become, IInv
  <2>1. Acquire(s, "SCAN") /\ s \in RowOps /\ "SCAN" \in LockTypes
    BY <1>3 DEF AcquireScan, LockTypes, RowOps
  <2>2. QED
    BY <2>1, <1>1
<1>4. ASSUME NEW s \in Scans, ScanStartFails(s) PROVE Lifetimes'
  BY <1>4 DEF ScanStartFails
<1>5. ASSUME NEW s \in Scans, ScanFails(s) PROVE Lifetimes'
  BY <1>5 DEF ScanFails
<1>6. ASSUME NEW s \in Scans, ScanDerived(s) PROVE Lifetimes'
  BY <1>6 DEF ScanDerived
<1>7. ASSUME NEW s \in Scans, PublishScan(s) PROVE Lifetimes'
  BY <1>7 DEF PublishScan
<1>8. ASSUME NEW h \in Generations, CheckGeneration(h) PROVE Lifetimes'
  BY <1>8 DEF CheckGeneration
<1>9. ASSUME NEW h \in Generations, AcquireGeneration(h) PROVE Lifetimes'
  <2> HIDE DEF TypeOK, Lifetimes, InLease, RowOps, Ops, Become, IInv
  <2>1. Acquire(h, "GENERATE") /\ h \in RowOps /\ "GENERATE" \in LockTypes
    BY <1>9 DEF AcquireGeneration, LockTypes, RowOps
  <2>2. QED
    BY <2>1, <1>1
<1>10. ASSUME NEW h \in Generations, FinishGeneration(h) PROVE Lifetimes'
  BY <1>10 DEF FinishGeneration
<1>11. ASSUME NEW v \in Writebacks, CheckWriteback(v) PROVE Lifetimes'
  BY <1>11 DEF CheckWriteback
<1>12. ASSUME NEW v \in Writebacks, AcquireWriteback(v) PROVE Lifetimes'
  BY <1>12 DEF AcquireWriteback
<1>13. ASSUME NEW v \in Writebacks, FinishWriteback(v) PROVE Lifetimes'
  BY <1>13 DEF FinishWriteback
<1>14. ASSUME NEW o \in RowOps, Heartbeat(o) PROVE Lifetimes'
  BY <1>14 DEF Heartbeat, CanHeartbeat
<1>15. CASE Reap
  BY <1>15 DEF Reap, Reapable
<1>16. CASE CleanupExpired
  BY <1>16 DEF CleanupExpired, Stale
<1>17. CASE Tick
  BY <1>17 DEF Tick
<1>18. CASE UNCHANGED vars
  BY <1>18 DEF vars
<1>19. QED
  BY <1>2, <1>3, <1>4, <1>5, <1>6, <1>7, <1>8, <1>9, <1>10,
     <1>11, <1>12, <1>13, <1>14, <1>15, <1>16, <1>17, <1>18 DEF Next

\* Whoever writes the row, a generation's batch id stays off the locks of scans.
LEMMA OwnerStep ==
  ASSUME TypeOK, OwnerFitsType, [Next]_vars
  PROVE  OwnerFitsType'
<1> USE LockRowAssumption, OperationAssumption
<1> USE DEF RowOps, TypeOK, OwnerFitsType, NoLock, LockRows, Become, Released, ReleasedByType, Closed,
        Granted, HeldBy
<1>1. ASSUME NEW o \in RowOps, NEW type \in LockTypes, o \in Generations => type = "GENERATE", Acquire(o, type) PROVE OwnerFitsType'
  BY <1>1 DEF Acquire
<1>2. ASSUME NEW s \in Scans, CheckScan(s) PROVE OwnerFitsType'
  BY <1>2 DEF CheckScan
<1>3. ASSUME NEW s \in Scans, AcquireScan(s) PROVE OwnerFitsType'
  <2> HIDE DEF TypeOK, OwnerFitsType, RowOps, Ops, Become, IInv
  <2>1. Acquire(s, "SCAN") /\ s \notin Generations /\ s \in RowOps /\ "SCAN" \in LockTypes
    BY <1>3, OperationAssumption DEF AcquireScan, LockTypes, RowOps
  <2>2. QED
    BY <2>1, <1>1
<1>4. ASSUME NEW s \in Scans, ScanStartFails(s) PROVE OwnerFitsType'
  BY <1>4 DEF ScanStartFails
<1>5. ASSUME NEW s \in Scans, ScanFails(s) PROVE OwnerFitsType'
  BY <1>5 DEF ScanFails
<1>6. ASSUME NEW s \in Scans, ScanDerived(s) PROVE OwnerFitsType'
  BY <1>6 DEF ScanDerived
<1>7. ASSUME NEW s \in Scans, PublishScan(s) PROVE OwnerFitsType'
  BY <1>7 DEF PublishScan
<1>8. ASSUME NEW h \in Generations, CheckGeneration(h) PROVE OwnerFitsType'
  BY <1>8 DEF CheckGeneration
<1>9. ASSUME NEW h \in Generations, AcquireGeneration(h) PROVE OwnerFitsType'
  <2> HIDE DEF TypeOK, OwnerFitsType, RowOps, Ops, Become, IInv
  <2>1. Acquire(h, "GENERATE") /\ h \in RowOps /\ "GENERATE" \in LockTypes
    BY <1>9 DEF AcquireGeneration, LockTypes, RowOps
  <2>2. QED
    BY <2>1, <1>1
<1>10. ASSUME NEW h \in Generations, FinishGeneration(h) PROVE OwnerFitsType'
  BY <1>10 DEF FinishGeneration
<1>11. ASSUME NEW v \in Writebacks, CheckWriteback(v) PROVE OwnerFitsType'
  BY <1>11 DEF CheckWriteback
<1>12. ASSUME NEW v \in Writebacks, AcquireWriteback(v) PROVE OwnerFitsType'
  BY <1>12 DEF AcquireWriteback
<1>13. ASSUME NEW v \in Writebacks, FinishWriteback(v) PROVE OwnerFitsType'
  BY <1>13 DEF FinishWriteback
<1>14. ASSUME NEW o \in RowOps, Heartbeat(o) PROVE OwnerFitsType'
  BY <1>14 DEF Heartbeat, CanHeartbeat
<1>15. CASE Reap
  BY <1>15 DEF Reap, Reapable
<1>16. CASE CleanupExpired
  BY <1>16 DEF CleanupExpired, Stale
<1>17. CASE Tick
  BY <1>17 DEF Tick
<1>18. CASE UNCHANGED vars
  BY <1>18 DEF vars
<1>19. QED
  BY <1>2, <1>3, <1>4, <1>5, <1>6, <1>7, <1>8, <1>9, <1>10,
     <1>11, <1>12, <1>13, <1>14, <1>15, <1>16, <1>17, <1>18 DEF Next

\* The row is generation g's and expires when g was told.
HoldsRow(g) == HeldBy(lock, OwnerOf[g]) /\ lock.type = "GENERATE" /\ lock.expiresAt = lease[g]

\* No step takes the row from a generation in its lease: a release by type is for
\* SCAN, a release by owner for its own batch id, and only an expired lock is
\* granted to another or reaped.
LEMMA RowStep ==
  ASSUME TypeOK, Lifetimes, OwnerFitsType, [Next]_vars, NEW g \in Generations,
         InLease(g) => HoldsRow(g), InLease(g)'
  PROVE  HoldsRow(g)'
<1> USE LockRowAssumption, OperationAssumption
<1> USE DEF TypeOK, Lifetimes, OwnerFitsType, InLease, HoldsRow, RowOps, Ops, NoLock, LockRows, Become,
        Released, ReleasedByType, Closed, Granted, HeldBy
<1>1. ASSUME NEW o \in RowOps, NEW type \in LockTypes, o \in Generations => type = "GENERATE", Acquire(o, type) PROVE HoldsRow(g)'
  <2>1. CASE o = g
    BY <1>1, <2>1 DEF Acquire
  <2>2. CASE o # g
    <3>1. InLease(g)
      BY <1>1, <2>2 DEF Acquire
    <3>2. Running(lock, clock) /\ lock.owner = OwnerOf[g]
      BY <3>1 DEF Running
    <3>3. OwnerOf[o] # OwnerOf[g]
      BY <2>2
    <3>4. UNCHANGED lock
      BY <1>1, <3>2, <3>3 DEF Acquire, Grantable
    <3>5. QED
      BY <1>1, <2>2, <3>1, <3>4 DEF Acquire
  <2>3. QED
    BY <2>1, <2>2
<1>2. ASSUME NEW s \in Scans, CheckScan(s) PROVE HoldsRow(g)'
  BY <1>2 DEF CheckScan
<1>3. ASSUME NEW s \in Scans, AcquireScan(s) PROVE HoldsRow(g)'
  <2> HIDE DEF TypeOK, Lifetimes, OwnerFitsType, InLease, HoldsRow, RowOps, Ops, Become, IInv
  <2>1. Acquire(s, "SCAN") /\ s \notin Generations /\ s \in RowOps /\ "SCAN" \in LockTypes
    BY <1>3, OperationAssumption DEF AcquireScan, LockTypes, RowOps
  <2>2. QED
    BY <2>1, <1>1
<1>4. ASSUME NEW s \in Scans, ScanStartFails(s) PROVE HoldsRow(g)'
  BY <1>4 DEF ScanStartFails
<1>5. ASSUME NEW s \in Scans, ScanFails(s) PROVE HoldsRow(g)'
  BY <1>5 DEF ScanFails
<1>6. ASSUME NEW s \in Scans, ScanDerived(s) PROVE HoldsRow(g)'
  BY <1>6 DEF ScanDerived
<1>7. ASSUME NEW s \in Scans, PublishScan(s) PROVE HoldsRow(g)'
  BY <1>7 DEF PublishScan
<1>8. ASSUME NEW h \in Generations, CheckGeneration(h) PROVE HoldsRow(g)'
  BY <1>8 DEF CheckGeneration
<1>9. ASSUME NEW h \in Generations, AcquireGeneration(h) PROVE HoldsRow(g)'
  <2> HIDE DEF TypeOK, Lifetimes, OwnerFitsType, InLease, HoldsRow, RowOps, Ops, Become, IInv
  <2>1. Acquire(h, "GENERATE") /\ h \in RowOps /\ "GENERATE" \in LockTypes
    BY <1>9 DEF AcquireGeneration, LockTypes, RowOps
  <2>2. QED
    BY <2>1, <1>1
<1>10. ASSUME NEW h \in Generations, FinishGeneration(h) PROVE HoldsRow(g)'
  BY <1>10 DEF FinishGeneration
<1>11. ASSUME NEW v \in Writebacks, CheckWriteback(v) PROVE HoldsRow(g)'
  BY <1>11 DEF CheckWriteback
<1>12. ASSUME NEW v \in Writebacks, AcquireWriteback(v) PROVE HoldsRow(g)'
  BY <1>12 DEF AcquireWriteback
<1>13. ASSUME NEW v \in Writebacks, FinishWriteback(v) PROVE HoldsRow(g)'
  BY <1>13 DEF FinishWriteback
<1>14. ASSUME NEW o \in RowOps, Heartbeat(o) PROVE HoldsRow(g)'
  BY <1>14 DEF Heartbeat, CanHeartbeat
<1>15. CASE Reap
  BY <1>15 DEF Reap, Reapable
<1>16. CASE CleanupExpired
  BY <1>16 DEF CleanupExpired, Stale
<1>17. CASE Tick
  BY <1>17 DEF Tick
<1>18. CASE UNCHANGED vars
  BY <1>18 DEF vars
<1>19. QED
  BY <1>2, <1>3, <1>4, <1>5, <1>6, <1>7, <1>8, <1>9, <1>10,
     <1>11, <1>12, <1>13, <1>14, <1>15, <1>16, <1>17, <1>18 DEF Next

\* The key is writeback w's and expires when w was told.
HoldsKey(w) == key.id = {w} /\ key.expiresAt = lease[w]

\* No step takes the key from a writeback in its lease: it is set only when it
\* has expired, and deleted only with the id of its holder.
LEMMA KeyStep ==
  ASSUME TypeOK, [Next]_vars, NEW w \in Writebacks,
         InLease(w) => HoldsKey(w), InLease(w)'
  PROVE  HoldsKey(w)'
<1> USE OperationAssumption
<1> USE DEF TypeOK, InLease, HoldsKey, RowOps, Ops, Keys, NoKey, Become, WritebackLocked
<1>1. ASSUME NEW o \in RowOps, NEW type \in LockTypes, Acquire(o, type) PROVE HoldsKey(w)'
  BY <1>1 DEF Acquire
<1>2. ASSUME NEW s \in Scans, CheckScan(s) PROVE HoldsKey(w)'
  BY <1>2 DEF CheckScan
<1>3. ASSUME NEW s \in Scans, AcquireScan(s) PROVE HoldsKey(w)'
  <2> HIDE DEF TypeOK, Lifetimes, InLease, HoldsRow, HoldsKey, RowOps, Ops, Become, IInv
  <2>1. Acquire(s, "SCAN") /\ s \in RowOps /\ "SCAN" \in LockTypes
    BY <1>3 DEF AcquireScan, LockTypes, RowOps
  <2>2. QED
    BY <2>1, <1>1
<1>4. ASSUME NEW s \in Scans, ScanStartFails(s) PROVE HoldsKey(w)'
  BY <1>4 DEF ScanStartFails
<1>5. ASSUME NEW s \in Scans, ScanFails(s) PROVE HoldsKey(w)'
  BY <1>5 DEF ScanFails
<1>6. ASSUME NEW s \in Scans, ScanDerived(s) PROVE HoldsKey(w)'
  BY <1>6 DEF ScanDerived
<1>7. ASSUME NEW s \in Scans, PublishScan(s) PROVE HoldsKey(w)'
  BY <1>7 DEF PublishScan
<1>8. ASSUME NEW h \in Generations, CheckGeneration(h) PROVE HoldsKey(w)'
  BY <1>8 DEF CheckGeneration
<1>9. ASSUME NEW h \in Generations, AcquireGeneration(h) PROVE HoldsKey(w)'
  <2> HIDE DEF TypeOK, Lifetimes, InLease, HoldsRow, HoldsKey, RowOps, Ops, Become, IInv
  <2>1. Acquire(h, "GENERATE") /\ h \in RowOps /\ "GENERATE" \in LockTypes
    BY <1>9 DEF AcquireGeneration, LockTypes, RowOps
  <2>2. QED
    BY <2>1, <1>1
<1>10. ASSUME NEW h \in Generations, FinishGeneration(h) PROVE HoldsKey(w)'
  BY <1>10 DEF FinishGeneration
<1>11. ASSUME NEW v \in Writebacks, CheckWriteback(v) PROVE HoldsKey(w)'
  BY <1>11 DEF CheckWriteback
<1>12. ASSUME NEW v \in Writebacks, AcquireWriteback(v) PROVE HoldsKey(w)'
  BY <1>12 DEF AcquireWriteback
<1>13. ASSUME NEW v \in Writebacks, FinishWriteback(v) PROVE HoldsKey(w)'
  BY <1>13 DEF FinishWriteback
<1>14. ASSUME NEW o \in RowOps, Heartbeat(o) PROVE HoldsKey(w)'
  BY <1>14 DEF Heartbeat
<1>15. CASE Reap
  BY <1>15 DEF Reap, Reapable
<1>16. CASE CleanupExpired
  BY <1>16 DEF CleanupExpired, Stale
<1>17. CASE Tick
  BY <1>17 DEF Tick
<1>18. CASE UNCHANGED vars
  BY <1>18 DEF vars
<1>19. QED
  BY <1>2, <1>3, <1>4, <1>5, <1>6, <1>7, <1>8, <1>9, <1>10,
     <1>11, <1>12, <1>13, <1>14, <1>15, <1>16, <1>17, <1>18 DEF Next

\* The inductive invariant holds initially ...
LEMMA InitInv == Init => IInv
  BY LockRowAssumption, OperationAssumption
     DEF Init, IInv, TypeOK, Lifetimes, OwnerFitsType, HeldBy, GenerationLease, WritebackLease, LeaseIsExpiry, InLease,
         NoLock, Keys, NoKey, RowOps, Ops

\* ... and is kept by every step.
LEMMA StepInv == IInv /\ [Next]_vars => IInv'
<1> SUFFICES ASSUME IInv, [Next]_vars PROVE IInv'
  OBVIOUS
<1>1. TypeOK' /\ Lifetimes' /\ OwnerFitsType'
  BY TypeStep, LifetimesStep, OwnerStep DEF IInv
<1>2. \A g \in Generations : (InLease(g) => HoldsRow(g)) /\ (InLease(g)' => HoldsRow(g)')
  BY RowStep DEF IInv, GenerationLease, LeaseIsExpiry, HoldsRow
<1>3. \A w \in Writebacks : (InLease(w) => HoldsKey(w)) /\ (InLease(w)' => HoldsKey(w)')
  BY KeyStep DEF IInv, WritebackLease, LeaseIsExpiry, HoldsKey
<1>4. WritebackLease' /\ LeaseIsExpiry' /\ GenerationLease'
  BY <1>2, <1>3 DEF WritebackLease, LeaseIsExpiry, GenerationLease, HoldsRow, HoldsKey, InLease
<1>5. QED
  BY <1>1, <1>4 DEF IInv

\* The inductive invariant is an invariant.
THEOREM Invariant == Spec => []IInv
  BY InitInv, StepInv, PTL DEF Spec

\* Type correctness
THEOREM TypeCorrect == Spec => []TypeOK
  BY Invariant, PTL DEF IInv

\* A generation keeps the row until it ends or its lock expires, whatever scans,
\* publish retries, rollbacks and the reaper do.
THEOREM GenerationKeepsRow == Spec => []GenerationLease
  BY Invariant, PTL DEF IInv

\* A writeback keeps the Redis key until it ends or the key expires.
THEOREM WritebackKeepsKey == Spec => []WritebackLease
  BY Invariant, PTL DEF IInv

\* One step marks a lock EXPIRED only when it has expired.
LEMMA ReapStep == ASSUME IInv, [Next]_vars, lock.status = "RUNNING", lock'.status = "EXPIRED"
                  PROVE  lock.expiresAt <= clock
<1> USE LockRowAssumption
<1> USE DEF IInv, TypeOK, Lifetimes, NoLock, LockRows, Become, Released, ReleasedByType, Closed,
        Granted, HeldBy
<1>1. ASSUME NEW o \in RowOps, NEW type \in LockTypes, Acquire(o, type) PROVE lock.expiresAt <= clock
  BY <1>1 DEF Acquire
<1>2. ASSUME NEW s \in Scans, CheckScan(s) PROVE lock.expiresAt <= clock
  BY <1>2 DEF CheckScan
<1>3. ASSUME NEW s \in Scans, AcquireScan(s) PROVE lock.expiresAt <= clock
  <2> HIDE DEF TypeOK, Lifetimes, InLease, HoldsRow, HoldsKey, RowOps, Ops, Become, IInv
  <2>1. Acquire(s, "SCAN") /\ s \in RowOps /\ "SCAN" \in LockTypes
    BY <1>3 DEF AcquireScan, LockTypes, RowOps
  <2>2. QED
    BY <2>1, <1>1
<1>4. ASSUME NEW s \in Scans, ScanStartFails(s) PROVE lock.expiresAt <= clock
  BY <1>4 DEF ScanStartFails
<1>5. ASSUME NEW s \in Scans, ScanFails(s) PROVE lock.expiresAt <= clock
  BY <1>5 DEF ScanFails
<1>6. ASSUME NEW s \in Scans, ScanDerived(s) PROVE lock.expiresAt <= clock
  BY <1>6 DEF ScanDerived
<1>7. ASSUME NEW s \in Scans, PublishScan(s) PROVE lock.expiresAt <= clock
  BY <1>7 DEF PublishScan
<1>8. ASSUME NEW h \in Generations, CheckGeneration(h) PROVE lock.expiresAt <= clock
  BY <1>8 DEF CheckGeneration
<1>9. ASSUME NEW h \in Generations, AcquireGeneration(h) PROVE lock.expiresAt <= clock
  <2> HIDE DEF TypeOK, Lifetimes, InLease, HoldsRow, HoldsKey, RowOps, Ops, Become, IInv
  <2>1. Acquire(h, "GENERATE") /\ h \in RowOps /\ "GENERATE" \in LockTypes
    BY <1>9 DEF AcquireGeneration, LockTypes, RowOps
  <2>2. QED
    BY <2>1, <1>1
<1>10. ASSUME NEW h \in Generations, FinishGeneration(h) PROVE lock.expiresAt <= clock
  BY <1>10 DEF FinishGeneration
<1>11. ASSUME NEW v \in Writebacks, CheckWriteback(v) PROVE lock.expiresAt <= clock
  BY <1>11 DEF CheckWriteback
<1>12. ASSUME NEW v \in Writebacks, AcquireWriteback(v) PROVE lock.expiresAt <= clock
  BY <1>12 DEF AcquireWriteback
<1>13. ASSUME NEW v \in Writebacks, FinishWriteback(v) PROVE lock.expiresAt <= clock
  BY <1>13 DEF FinishWriteback
<1>14. ASSUME NEW o \in RowOps, Heartbeat(o) PROVE lock.expiresAt <= clock
  BY <1>14 DEF Heartbeat, CanHeartbeat
<1>15. CASE Reap
  BY <1>15 DEF Reap, Reapable
<1>16. CASE CleanupExpired
  BY <1>16 DEF CleanupExpired, Stale
<1>17. CASE Tick
  BY <1>17 DEF Tick
<1>18. CASE UNCHANGED vars
  BY <1>18 DEF vars
<1>19. QED
  BY <1>2, <1>3, <1>4, <1>5, <1>6, <1>7, <1>8, <1>9, <1>10,
     <1>11, <1>12, <1>13, <1>14, <1>15, <1>16, <1>17, <1>18 DEF Next

\* The reaper never expires a lock that still counts, provided its threshold is
\* no shorter than the lock's lifetime.
THEOREM ReaperIsLate == Spec => ReapsOnlyExpired
<1>1. IInv /\ [Next]_vars =>
        [lock.status = "RUNNING" /\ lock'.status = "EXPIRED" => lock.expiresAt <= clock]_vars
  BY ReapStep
<1>2. QED
  BY Invariant, <1>1, PTL DEF Spec, ReapsOnlyExpired
=============================================================================
