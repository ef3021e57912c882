---------------------------- MODULE CreditLedger ----------------------------
(***************************************************************************)
(* The credit tables of one shop: credit_bucket, credit_reservation,       *)
(* credit_reservation_line and credit_ledger, and the transactions on them *)
(* (grant-credit.server.ts, credit-reservation.service.ts,                 *)
(* generation-credit.service.ts, reservation-reaper.processor.ts).         *)
(*                                                                         *)
(* A transaction that locks its reservation row before it reads anything   *)
(* is one action.  createReservation and resolveOneCredit read before they *)
(* lock, so they are two: what was read may be stale when the locks are    *)
(* granted, and only a unique key then stands between two transactions.    *)
(***************************************************************************)
EXTENDS CreditPlan

CONSTANTS Batches,          \* generation batches
          Buckets,          \* the (type, cycle key) pairs buckets are granted for
          BucketType,       \* bucket -> its type
          Candidates,       \* alt candidates a batch is made of
          Callers,          \* transactions that can be open at once
          Amounts,          \* numbers of credits granted or reserved at once
          Windows,          \* validity windows of granted buckets
          ReservationTtl,   \* lifetime of a reservation, in ticks
          MaxClock          \* bound on the clock

ASSUME LedgerAssumption ==
  /\ IsFiniteSet(Buckets) /\ IsFiniteSet(Batches)
  /\ BucketType \in [Buckets -> BucketTypes]
  /\ Amounts \subseteq Nat \ {0}
  /\ Windows \subseteq [effectiveAt : Nat, expiresAt : Nat]
  /\ ReservationTtl \in Nat /\ MaxClock \in Nat

VARIABLES bucket,        \* bucket -> its row; granted = 0: not granted yet
          reservation,   \* batch -> its row
          expiresAt,     \* batch -> expires_at of its reservation
          line,          \* batch -> bucket -> the line; reserved = 0: no line
          ledger,        \* rows of credit_ledger
          call,          \* caller -> the transaction it has open, or Idle
          reaping,       \* batches the reaper's run has selected and not reached
          clock

Account == INSTANCE CreditAccount
             WITH available <- Total([k \in Buckets |-> bucket[k].remaining])

vars == <<bucket, reservation, expiresAt, line, ledger, call, reaping, clock>>

-----------------------------------------------------------------------------
\* Rows

NoBucket(k) == [type |-> BucketType[k], granted |-> 0, remaining |-> 0, reserved |-> 0,
                consumed |-> 0, effectiveAt |-> 0, expiresAt |-> 0]

BucketRows == [type : BucketTypes, granted : Nat, remaining : Nat, reserved : Int,
               consumed : Nat, effectiveAt : Nat, expiresAt : Nat]

LineRows == [reserved : Nat, consumed : Nat, released : Nat]

NewLine(n) == [reserved |-> n, consumed |-> 0, released |-> 0]
NoLine == NewLine(0)

Outstanding(l) == l.reserved - l.consumed - l.released

\* Idempotency keys, and the bucket and amount of a row.  A gen key has no
\* bucket in it: it names the candidate, whichever line pays for it.
Key(type, batch, ref) == <<type, batch, ref>>
GenTypes == {"GEN_CONSUME", "GEN_RELEASE"}
LineTypes == {"RESERVE", "CONSUME", "RELEASE", "UNUSED"}
LedgerKeys == ({"GRANT"} \X Buckets \X Buckets)
         \cup (LineTypes \X Batches \X Buckets)
         \cup (GenTypes \X Batches \X Candidates)
LedgerRows == [key : LedgerKeys, bucket : Buckets, delta : Int]

HasKey(key) == \E row \in ledger : row.key = key

\* The rows one transaction adds: one per bucket in S, with delta[k]
Rows(type, b, S, delta) ==
  {[key |-> Key(type, b, k), bucket |-> k, delta |-> delta[k]] : k \in S}

Spendable == {k \in Buckets : /\ bucket[k].remaining > 0
                              /\ bucket[k].effectiveAt <= clock
                              /\ bucket[k].expiresAt > clock}

Idle == [op |-> "idle"]
ReserveCalls == [op : {"reserve"}, batch : Batches, amount : Amounts, seen : SUBSET Buckets,
                 now : Nat]
ResolveCalls == [op : {"resolve"}, batch : Batches, candidate : Candidates, type : GenTypes]

-----------------------------------------------------------------------------
Init == /\ bucket = [k \in Buckets |-> NoBucket(k)]
        /\ reservation = [b \in Batches |-> Account!NoReservation]
        /\ expiresAt = [b \in Batches |-> 0]
        /\ line = [b \in Batches |-> [k \in Buckets |-> NoLine]]
        /\ ledger = {}
        /\ call = [p \in Callers |-> Idle]
        /\ reaping = {}
        /\ clock = 0

\* grantCreditBucket: a second grant of the same (type, cycle key) finds the
\* bucket, or loses on the unique key, and changes nothing.
Grant(k, n, w) ==
  /\ bucket[k].granted = 0
  /\ bucket' = [bucket EXCEPT ![k] = [NoBucket(k) EXCEPT
                  !.granted = n, !.remaining = n,
                  !.effectiveAt = w.effectiveAt, !.expiresAt = w.expiresAt]]
  /\ ledger' = ledger \cup {[key |-> Key("GRANT", k, k), bucket |-> k, delta |-> n]}
  /\ UNCHANGED <<reservation, expiresAt, line, call, reaping, clock>>

\* createReservation up to its SELECT ... FOR UPDATE: no reservation was found
\* for the batch, and the statement's snapshot selects the spendable buckets.
BeginReserve(p, b, n) ==
  /\ call[p] = Idle
  /\ reservation[b].status = "NONE"
  /\ call' = [call EXCEPT ![p] =
                [op |-> "reserve", batch |-> b, amount |-> n, seen |-> Spendable, now |-> clock]]
  /\ UNCHANGED <<bucket, reservation, expiresAt, line, ledger, reaping, clock>>

\* Mutant of Reservable: planned on the snapshot, not on the locked rows
StaleReservable(p) ==
  {take \in [Buckets -> 0 .. call[p].amount] :
     /\ Total(take) = call[p].amount
     /\ \A k \in Buckets : take[k] > 0 => k \in call[p].seen}

\* The row locks are granted: rows of the snapshot that have nothing left by now are
\* filtered out, and the reservation is planned on the rest - those whose time is over
\* since included, for their window is compared with the time before the wait.
Reservable(p) ==
  Plans(bucket, {k \in call[p].seen : bucket[k].remaining > 0}, call[p].amount)

\* take[k] credits of each bucket k are reserved for batch b.
Draw(b, take) ==
  /\ bucket' = [k \in Buckets |-> [bucket[k] EXCEPT !.remaining = @ - take[k],
                                                    !.reserved = @ + take[k]]]
  /\ line' = [line EXCEPT ![b] = [k \in Buckets |-> NewLine(take[k])]]

CommitReserve(p) ==
  /\ call[p].op = "reserve"
  /\ reservation[call[p].batch].status = "NONE"
  /\ \E take \in Reservable(p) :
       LET b == call[p].batch
           S == {k \in Buckets : take[k] > 0}
       IN /\ Draw(b, take)
          /\ ledger' = ledger \cup Rows("RESERVE", b, S, [k \in Buckets |-> -take[k]])
          /\ reservation' = [reservation EXCEPT ![b] = Account!NewReservation(call[p].amount)]
          /\ expiresAt' = [expiresAt EXCEPT ![b] = call[p].now + ReservationTtl]
  /\ call' = [call EXCEPT ![p] = Idle]
  /\ UNCHANGED <<reaping, clock>>

\* Another call created the reservation (P2002: returned as the existing one)
\* or the locked buckets do not hold enough (InsufficientCreditError).
AbortReserve(p) ==
  /\ call[p].op = "reserve"
  /\ reservation[call[p].batch].status # "NONE" \/ Reservable(p) = {}
  /\ call' = [call EXCEPT ![p] = Idle]
  /\ UNCHANGED <<bucket, reservation, expiresAt, line, ledger, reaping, clock>>

\* Mutant of DrawnBucket: what is consumed stays reserved.
StillReservedBucket(l, c, d) ==
  [l EXCEPT !.remaining = @ + d, !.reserved = @ - d, !.consumed = @ + c]

\* A line and a bucket after c of their credits were consumed and d released
SettledLine(l, c, d) == [l EXCEPT !.consumed = @ + c, !.released = @ + d]

DrawnBucket(l, c, d) ==
  [l EXCEPT !.remaining = @ + d, !.reserved = @ - (c + d), !.consumed = @ + c]

\* c[k] credits of batch b's line on each bucket k are consumed, d[k] released.
Settle(b, c, d) ==
  /\ bucket' = [k \in Buckets |-> DrawnBucket(bucket[k], c[k], d[k])]
  /\ line' = [line EXCEPT ![b] = [k \in Buckets |-> SettledLine(line[b][k], c[k], d[k])]]

Nothing == [k \in Buckets |-> 0]
On(k, n) == [j \in Buckets |-> IF j = k THEN n ELSE 0]

\* resolveOneCredit up to its lock: the ledger has no row with the key.
BeginResolve(p, b, c, type) ==
  /\ call[p] = Idle
  /\ ~HasKey(Key(type, b, c))
  /\ call' = [call EXCEPT ![p] = [op |-> "resolve", batch |-> b, candidate |-> c, type |-> type]]
  /\ UNCHANGED <<bucket, reservation, expiresAt, line, ledger, reaping, clock>>

\* Lines the credit can come from.  The code takes the oldest by created_at;
\* the lines of a reservation are written by one transaction within the
\* column's millisecond, so any of them may be the first.
Payable(b) == {k \in Buckets : Outstanding(line[b][k]) > 0}

Resolvable(p) ==
  /\ ~HasKey(Key(call[p].type, call[p].batch, call[p].candidate))   \* unique key
  /\ reservation[call[p].batch].status \in Account!Settleable
  /\ Payable(call[p].batch) # {}

CommitResolve(p) ==
  /\ call[p].op = "resolve"
  /\ Resolvable(p)
  /\ LET b == call[p].batch
         c == IF call[p].type = "GEN_CONSUME" THEN 1 ELSE 0
         d == 1 - c
     IN /\ \E k \in Payable(b) :
             /\ Settle(b, On(k, c), On(k, d))
             /\ ledger' = ledger \cup {[key |-> Key(call[p].type, b, call[p].candidate),
                                        bucket |-> k, delta |-> d - c]}
        /\ reservation' = [reservation EXCEPT ![b] = Account!Settled(@, c, d)]
  /\ call' = [call EXCEPT ![p] = Idle]
  /\ UNCHANGED <<expiresAt, reaping, clock>>

AbortResolve(p) ==
  /\ call[p].op = "resolve"
  /\ ~Resolvable(p)
  /\ call' = [call EXCEPT ![p] = Idle]
  /\ UNCHANGED <<bucket, reservation, expiresAt, line, ledger, reaping, clock>>

\* Mutant of GiveBack: without ledger rows
SilentGiveBack(b, S, type) ==
  LET out == [k \in Buckets |-> IF k \in S THEN Outstanding(line[b][k]) ELSE 0]
  IN Settle(b, Nothing, out) /\ UNCHANGED ledger

\* Give the outstanding credits of batch b on the buckets S back to the
\* buckets, with one ledger row of the given type for each.
GiveBack(b, S, type) ==
  LET out == [k \in Buckets |-> IF k \in S THEN Outstanding(line[b][k]) ELSE 0]
  IN /\ Settle(b, Nothing, out)
     /\ ledger' = ledger \cup Rows(type, b, S, out)

\* releaseUnusedReservation of generation-credit.service.ts, the last step of
\* a finished batch
ReleaseUnused(b) ==
  LET S == {k \in Payable(b) : ~HasKey(Key("UNUSED", b, k))}
      total == Total([k \in Buckets |-> IF k \in S THEN Outstanding(line[b][k]) ELSE 0])
  IN /\ reservation[b].status \in Account!Settleable
     /\ S # {}
     /\ GiveBack(b, S, "UNUSED")
     /\ reservation' = [reservation EXCEPT ![b] = Account!Settled(@, 0, total)]
     /\ UNCHANGED <<expiresAt, call, reaping, clock>>

\* The transaction of releaseReservation: only an ACTIVE reservation is
\* released, whole; the reason decides between RELEASED and EXPIRED.
Release(b, status) ==
  /\ reservation[b].status = "ACTIVE"
  /\ GiveBack(b, Payable(b), "RELEASE")
  /\ reservation' = [reservation EXCEPT ![b].status = status,
                       ![b].released = @ + Total([k \in Buckets |-> Outstanding(line[b][k])])]

\* releaseReservation, called by the rollback of a generation start
ReleaseReservation(b, status) ==
  /\ Release(b, status)
  /\ UNCHANGED <<expiresAt, call, reaping, clock>>

\* consumeReservation
ConsumeReservation(b) ==
  LET out == [k \in Buckets |-> Outstanding(line[b][k])]
  IN /\ reservation[b].status = "ACTIVE"
     /\ Settle(b, out, Nothing)
     /\ ledger' = ledger \cup Rows("CONSUME", b, Payable(b), [k \in Buckets |-> -out[k]])
     /\ reservation' = [reservation EXCEPT ![b].status = "CONSUMED",
                                           ![b].consumed = reservation[b].reserved]
     /\ UNCHANGED <<expiresAt, call, reaping, clock>>

\* Mutant of ReaperSelect: the comparison the wrong way round
SelectUnexpired ==
  /\ reaping = {}
  /\ reaping' = {b \in Batches : reservation[b].status = "ACTIVE" /\ expiresAt[b] > clock}
  /\ reaping' # {}
  /\ UNCHANGED <<bucket, reservation, expiresAt, line, ledger, call, clock>>

\* processReservationReaperJob: the run selects the expired ACTIVE
\* reservations, then releases them one by one.
ReaperSelect ==
  /\ reaping = {}
  /\ reaping' = {b \in Batches : reservation[b].status = "ACTIVE" /\ expiresAt[b] < clock}
  /\ reaping' # {}
  /\ UNCHANGED <<bucket, reservation, expiresAt, line, ledger, call, clock>>

\* A reservation settled or closed since the selection makes the call throw or
\* return unchanged; the reaper goes on with the next.
ReaperRelease(b) ==
  /\ b \in reaping
  /\ reaping' = reaping \ {b}
  /\ \/ Release(b, "RELEASED")       \* reason "reservation_expired"
     \/ /\ reservation[b].status # "ACTIVE"
        /\ UNCHANGED <<bucket, reservation, line, ledger>>
  /\ UNCHANGED <<expiresAt, call, clock>>

Tick == /\ clock < MaxClock
        /\ clock' = clock + 1
        /\ UNCHANGED <<bucket, reservation, expiresAt, line, ledger, call, reaping>>

Next ==
  \/ \E k \in Buckets, n \in Amounts, w \in Windows : Grant(k, n, w)
  \/ \E p \in Callers :
       \/ \E b \in Batches, n \in Amounts : BeginReserve(p, b, n)
       \/ CommitReserve(p)
       \/ AbortReserve(p)
       \/ \E b \in Batches, c \in Candidates, type \in GenTypes : BeginResolve(p, b, c, type)
       \/ CommitResolve(p)
       \/ AbortResolve(p)
  \/ \E b \in Batches :
       \/ ReleaseUnused(b)
       \/ \E status \in {"RELEASED", "EXPIRED"} : ReleaseReservation(b, status)
       \/ ConsumeReservation(b)
       \/ ReaperRelease(b)
  \/ ReaperSelect
  \/ Tick

Spec == Init /\ [][Next]_vars

\* The reaper is a repeatable job: its selection and its releases go on, and
\* time passes.
FairSpec == /\ Spec
            /\ WF_vars(Tick)
            /\ WF_vars(ReaperSelect)
            /\ \A b \in Batches : WF_vars(ReaperRelease(b))

-----------------------------------------------------------------------------
\* Properties

\* Every row has its type: in particular no bucket's remaining or consumed
\* amount and no amount of a reservation or a line is ever negative.
TypeOK ==
  /\ bucket \in [Buckets -> BucketRows]
  /\ reservation \in [Batches -> Account!Reservations]
  /\ expiresAt \in [Batches -> Nat]
  /\ line \in [Batches -> [Buckets -> LineRows]]
  /\ ledger \in SUBSET LedgerRows
  /\ call \in [Callers -> {Idle} \cup ReserveCalls \cup ResolveCalls]
  /\ reaping \in SUBSET Batches
  /\ clock \in Nat

\* Credits are neither created nor lost: whatever transactions interleave, a
\* bucket's granted amount is what remains, is reserved and was consumed.
BucketConservation ==
  \A k \in Buckets : bucket[k].granted = bucket[k].remaining + bucket[k].reserved + bucket[k].consumed

\* The bucket and the line tables, updated by separate statements, can be
\* checked against each other: a bucket's reserved amount is what the lines of
\* all reservations still hold of it, its consumed amount what they consumed.
BucketsMatchLines ==
  \A k \in Buckets :
    /\ bucket[k].reserved = Total([b \in Batches |-> Outstanding(line[b][k])])
    /\ bucket[k].consumed = Total([b \in Batches |-> line[b][k].consumed])

\* The reservation row, which resolveOneCredit computes from its own counters
\* and not from the lines, agrees with the lines.
ReservationMatchesLines ==
  \A b \in Batches :
    /\ reservation[b].reserved = Total([k \in Buckets |-> line[b][k].reserved])
    /\ reservation[b].consumed = Total([k \in Buckets |-> line[b][k].consumed])
    /\ reservation[b].released = Total([k \in Buckets |-> line[b][k].released])

\* A line is never settled beyond what it reserved, and a reservation in a
\* final status holds no credit back: CONSUMED, RELEASED and EXPIRED settle all.
LinesWithinReserved ==
  \A b \in Batches, k \in Buckets : Outstanding(line[b][k]) >= 0

ClosedHoldsNothing ==
  \A b \in Batches : reservation[b].status \in {"CONSUMED", "RELEASED", "EXPIRED"} =>
                       Payable(b) = {}

\* What the status of a reservation says of its amounts: releaseReservation and
\* consumeReservation settle an ACTIVE reservation without looking at its
\* counters, so it must be untouched, and a closed one must have gone one way.
StatusMatchesAmounts ==
  \A b \in Batches :
    LET r == reservation[b]
    IN /\ r.status = "NONE" => \A k \in Buckets : line[b][k] = NoLine
       /\ r.status = "ACTIVE" => r.consumed = 0 /\ r.released = 0
       /\ r.status = "CONSUMED" => r.consumed = r.reserved
       /\ r.status \in {"RELEASED", "EXPIRED"} => r.released = r.reserved

\* The inductive invariant behind the accounting theorems of CreditLedgerProofs
Books == /\ BucketConservation
         /\ LinesWithinReserved
         /\ BucketsMatchLines
         /\ ReservationMatchesLines

IInv == TypeOK /\ Books /\ StatusMatchesAmounts

\* The ledger can be replayed: the rows of a bucket add up to its balances.
LedgerTotal(k, types) == \* sum of |delta| over the rows of bucket k
  LET size == [row \in {r \in ledger : r.bucket = k /\ r.key[1] \in types} |->
                 IF row.delta < 0 THEN -row.delta ELSE row.delta]
  IN Total(size)

LedgerReplays ==
  \A k \in Buckets :
    /\ bucket[k].remaining = LedgerTotal(k, {"GRANT"}) - LedgerTotal(k, {"RESERVE"})
                               + LedgerTotal(k, {"RELEASE", "UNUSED", "GEN_RELEASE"})
    /\ bucket[k].consumed = LedgerTotal(k, {"CONSUME", "GEN_CONSUME"})

\* The status a reservation is closed with is final: no release, expiry or
\* settlement of a closed reservation moves credits again.
ClosedIsFinal ==
  [][\A b \in Batches : reservation[b].status \in {"CONSUMED", "RELEASED", "EXPIRED"} =>
       reservation'[b] = reservation[b] /\ line'[b] = line[b]]_vars

\* The tables implement the account of CreditAccount.
ImplementsAccount == Account!Spec

\* No credit stays locked in a reservation nothing was settled of: it expires
\* and the reaper gives it back.  (The clock stops at MaxClock: a reservation
\* that would expire there or later is beyond the instance.)
ActiveEventuallyEnds ==
  \A b \in Batches :
    reservation[b].status = "ACTIVE" /\ expiresAt[b] < MaxClock ~> reservation[b].status # "ACTIVE"
=============================================================================
