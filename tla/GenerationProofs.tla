-------------------------- MODULE GenerationProofs --------------------------
(***************************************************************************)
(* Proofs about Generation, for any set of batches and candidates, any     *)
(* number of attempts, faults and ticks.                                   *)
(*                                                                         *)
(* A batch owns the candidates it generated, drafted or was charged for,   *)
(* and no two batches own the same one; that makes the charges right       *)
(* whatever goes wrong.  The rest of the invariant counts: a batch that    *)
(* saw no fault is closed by the job that counts its last outcome, and its *)
(* reservation covers exactly what its jobs have not settled yet.          *)
(***************************************************************************)
EXTENDS Generation, FiniteSetTheorems, TLAPS
-----------------------------------------------------------------------------
\* The inductive invariant, batch by batch

Past == {"unusing", "unlocking", "closing", "done"}

\* Jobs of b that have seen their outcome counted, or had none to count
Passed(b) == {c \in members[b] : job[b][c].step \in Past}

\* ... or have settled it
Paid(b) == {c \in members[b] : job[b][c].step \in Past \cup {"counting"}}

Absent(b) == \A c \in Candidates : job[b][c].step = "absent"

\* How far the request is says what there may be of the batch.
StartFits(b) ==
  /\ start[b] = "idle" <=> batch[b].status = "NONE"
  /\ batch[b].status = "DELETED" => start[b] = "failed"
  /\ start[b] \in {"idle", "created"} => reservation[b].status = "NONE"
  /\ start[b] \in {"idle", "created", "reserved"} => Absent(b) /\ ~HeldBy(lock, b)
  /\ start[b] # "idle" => members[b] # {}

\* A batch in progress has not seen all its outcomes.
RowFits(b) ==
  /\ batch[b].failed <= batch[b].completed
  /\ start[b] = "idle" => batch[b].completed = 0
  /\ batch[b].status = "IN_PROGRESS" => batch[b].completed < Cardinality(members[b])

\* What the status of a reservation says of its amounts
ReservationFits(b) ==
  LET r == reservation[b]
  IN /\ r.consumed + r.released <= r.reserved
     /\ r.status = "NONE" => r.reserved = 0
     /\ r.status = "ACTIVE" => r.consumed = 0 /\ r.released = 0
     /\ r.status = "CONSUMED" => r.consumed = r.reserved
     /\ r.status \in {"RELEASED", "EXPIRED"} => r.released = r.reserved

\* Who completes a batch found it in progress and is alone with that.
JobsFit(b) ==
  /\ \A c \in Candidates : job[b][c].step = "drafting" => job[b][c].result = "completed"
  /\ \A c \in Candidates : job[b][c].step # "absent" => c \in members[b]
  /\ \A c \in Candidates : job[b][c].step \in {"unusing", "unlocking"} =>
       /\ batch[b].status # "IN_PROGRESS"
       /\ \A d \in Candidates : job[b][d].step \in {"unusing", "unlocking"} => d = c

\* A batch owns the candidates it generated, has drafted or was charged for.
Owns(b, c) == job[b][c].result = "completed" \/ Charged(b, c) \/ draft[c] = b

Written(b, c) == draft[c] = b \/ batch[b].status = "DELETED"

\* A job has an attempt left until it is given up.
Trying == \A b \in Batches, c \in Candidates : job[b][c].step = "dead" \/ job[b][c].tries < Attempts

Owned ==
  /\ \A b \in Batches, c \in Candidates :
       /\ Owns(b, c) => candidate[c] = "GENERATED"
       /\ Charged(b, c) => Written(b, c)
       /\ job[b][c].step = "settling" /\ job[b][c].result = "completed" => Written(b, c)
       /\ draft[c] = b => job[b][c].step # "absent"
  /\ \A a, b \in Batches, c \in Candidates : Owns(a, c) /\ Owns(b, c) => a = b

\* Without faults a refused request has no jobs, and a batch is only closed by
\* the job that counts its last outcome.
CalmStart(b) ==
  faults = 0 =>
    /\ start[b] \notin {"unlocking", "died"}
    /\ start[b] \in {"releasing", "deleting", "failed"} => Absent(b) /\ ~HeldBy(lock, b)
    /\ start[b] \in {"deleting", "failed"} => Account!Held(reservation[b]) = 0
    /\ reservation[b].status = "PARTIALLY_CONSUMED" => ~Absent(b)

CalmEnd(b) ==
  faults = 0 =>
    /\ batch[b].completed <= Cardinality(Passed(b))
    /\ batch[b].status \in Final =>
         /\ members[b] \subseteq Passed(b)
         /\ (\A c \in Candidates : job[b][c].step # "unusing") => Account!Held(reservation[b]) = 0
         /\ Quiet(b) => ~HeldBy(lock, b)

\* Of a batch nothing disturbs, the reservation covers what is not settled yet,
\* and a draft is charged or about to be.
Covered(b) ==
  ~Disturbed(b) =>
    /\ start[b] \in {"reserved", "locked", "started"} /\ batch[b].status = "IN_PROGRESS" =>
         /\ reservation[b].reserved = Cardinality(members[b])
         /\ reservation[b].consumed + reservation[b].released <= Cardinality(Paid(b))
    /\ \A c \in Candidates : draft[c] = b =>
         \/ Charged(b, c)
         \/ job[b][c].step = "settling" /\ job[b][c].result = "completed"

BatchInv(b) == /\ StartFits(b) /\ RowFits(b) /\ ReservationFits(b) /\ JobsFit(b)
               /\ CalmStart(b) /\ CalmEnd(b) /\ Covered(b)

IInv == TypeOK /\ Trying /\ Owned /\ \A b \in Batches : BatchInv(b)

-----------------------------------------------------------------------------
\* Counting

LEMMA CandidatesFinite ==
  /\ IsFiniteSet(Candidates) /\ Cardinality(Candidates) \in Nat
  /\ Batches \subseteq Owners /\ None \notin Batches
  /\ \A S \in SUBSET Candidates : IsFiniteSet(S) /\ Cardinality(S) \in Nat
  /\ \A S \in SUBSET Candidates : Cardinality(S) <= Cardinality(Candidates)
<1>1. IsFiniteSet(Candidates) /\ Batches \subseteq Owners /\ None \notin Batches
  BY GenerationAssumption
<1>2. \A S \in SUBSET Candidates : IsFiniteSet(S) /\ Cardinality(S) <= Cardinality(Candidates)
  BY <1>1, FS_Subset
<1>3. \A S : IsFiniteSet(S) => Cardinality(S) \in Nat
  BY FS_CardinalityType
<1>4. QED
  BY <1>1, <1>2, <1>3

\* More of the candidates are no fewer, and one more is one more.
LEMMA CountGrows ==
  ASSUME NEW S \in SUBSET Candidates, NEW T \in SUBSET Candidates, S \subseteq T
  PROVE  /\ Cardinality(S) <= Cardinality(T)
         /\ Cardinality(S) = Cardinality(T) => S = T
         /\ \A c \in T \ S : Cardinality(S) + 1 <= Cardinality(T)
<1>1. IsFiniteSet(T) /\ IsFiniteSet(S) /\ Cardinality(T) \in Nat /\ Cardinality(S) \in Nat
  BY CandidatesFinite
<1>2. Cardinality(S) <= Cardinality(T) /\ (Cardinality(S) = Cardinality(T) => S = T)
  BY <1>1, FS_Subset
<1>3. QED
  BY <1>1, <1>2

LEMMA MembersAre ==
  ASSUME TypeOK, NEW b \in Batches
  PROVE  /\ members[b] \in SUBSET Candidates
         /\ Passed(b) \subseteq members[b] /\ Paid(b) \subseteq members[b]
         /\ Cardinality(members[b]) \in Nat
         /\ Cardinality(Passed(b)) \in Nat /\ Cardinality(Paid(b)) \in Nat
<1>1. /\ members[b] \in SUBSET Candidates
      /\ Passed(b) \subseteq members[b] /\ Paid(b) \subseteq members[b]
  BY DEF TypeOK, Passed, Paid
<1>2. QED
  BY <1>1, CandidatesFinite

-----------------------------------------------------------------------------
\* The account's part

\* A reservation that some of was settled
LEMMA SettledFits ==
  ASSUME NEW r \in Account!Reservations, NEW c \in Nat, NEW d \in Nat, c + d > 0,
         c + d <= Account!Held(r),
         NEW m, m = Account!Settled(r, c, d)
  PROVE  /\ m \in Account!Reservations
         /\ m.reserved = r.reserved /\ m.consumed = r.consumed + c /\ m.released = r.released + d
         /\ Account!Held(m) = Account!Held(r) - (c + d)
         /\ m.consumed + m.released <= m.reserved
         /\ m.status \notin {"NONE", "ACTIVE", "EXPIRED"}
         /\ m.status = "CONSUMED" => m.consumed = m.reserved
         /\ m.status = "RELEASED" => m.released = m.reserved
<1>1. r.reserved \in Nat /\ r.consumed \in Nat /\ r.released \in Nat
  BY DEF Account!Reservations
<1>2. PICK st : st = Account!ResolvedStatus(r.reserved, r.consumed + c, r.released + d)
  OBVIOUS
<1>3. /\ st \in {"CONSUMED", "RELEASED", "PARTIALLY_CONSUMED"}
      /\ st = "CONSUMED" => r.consumed + c = r.reserved
      /\ st = "RELEASED" => r.released + d = r.reserved
  BY <1>1, <1>2 DEF Account!ResolvedStatus
<1>4. m = [status |-> st, reserved |-> r.reserved,
           consumed |-> r.consumed + c, released |-> r.released + d]
  BY <1>2 DEF Account!Settled, Account!Reservations
<1>5. /\ m.reserved = r.reserved /\ m.consumed = r.consumed + c /\ m.released = r.released + d
      /\ m.status = st
  BY <1>4
<1>6. m \in Account!Reservations
  BY <1>1, <1>3, <1>4 DEF Account!Reservations, Account!ReservationStatuses
<1>7. Account!Held(m) = Account!Held(r) - (c + d) /\ m.consumed + m.released <= m.reserved
  BY <1>1, <1>5 DEF Account!Held
<1>8. QED
  BY <1>3, <1>5, <1>6, <1>7

\* What a reservation in each status holds
LEMMA HeldFacts ==
  ASSUME TypeOK, NEW b \in Batches, ReservationFits(b)
  PROVE  /\ reservation[b] \in Account!Reservations
         /\ Account!Held(reservation[b]) \in Nat
         /\ reservation[b].status \notin Account!Settleable => Account!Held(reservation[b]) = 0
         /\ Account!Held(reservation[b]) > 0 => reservation[b].status \in Account!Settleable
<1>1. reservation[b] \in Account!Reservations
  BY DEF TypeOK
<1>2. /\ reservation[b].reserved \in Nat /\ reservation[b].consumed \in Nat
      /\ reservation[b].released \in Nat
      /\ reservation[b].status \in {"NONE", "ACTIVE", "PARTIALLY_CONSUMED", "CONSUMED", "RELEASED", "EXPIRED"}
  BY <1>1 DEF Account!Reservations, Account!ReservationStatuses
<1>3. QED
  BY <1>1, <1>2 DEF ReservationFits, Account!Held, Account!Settleable

-----------------------------------------------------------------------------
\* What a step leaves alone

\* A step that is none of a's: whatever it does to candidates, the lock is not
\* granted to a, no draft becomes one of a's and no charge is taken back.
Apart(a) ==
  /\ batch'[a] = batch[a] /\ members'[a] = members[a] /\ start'[a] = start[a]
  /\ reservation'[a] = reservation[a] /\ expiresAt'[a] = expiresAt[a]
  /\ \A c \in Candidates : job'[a][c] = job[a][c]
  /\ HeldBy(lock', a) => HeldBy(lock, a)
  /\ faults' = 0 => faults = 0
  /\ clock <= clock'
  /\ \A c \in Candidates : draft'[c] = a => draft[c] = a
  /\ \A c \in Candidates : Charged(a, c) => Charged(a, c)'

\* A batch that a step does not touch stays as the invariant wants it.
LEMMA ApartKeeps ==
  ASSUME TypeOK, TypeOK', NEW a \in Batches, BatchInv(a), Apart(a)
  PROVE  BatchInv(a)'
<1>1. /\ batch'[a] = batch[a] /\ members'[a] = members[a] /\ start'[a] = start[a]
      /\ reservation'[a] = reservation[a] /\ expiresAt'[a] = expiresAt[a]
      /\ \A c \in Candidates : job'[a][c] = job[a][c]
      /\ HeldBy(lock', a) => HeldBy(lock, a)
      /\ faults' = 0 => faults = 0
  BY DEF Apart
<1>2. Absent(a)' <=> Absent(a)
  BY <1>1 DEF Absent
<1>3. members[a] \subseteq Candidates /\ members'[a] \subseteq Candidates
  BY DEF TypeOK
<1>4. Passed(a)' = Passed(a) /\ Paid(a)' = Paid(a)
  BY <1>1, <1>3 DEF Passed, Paid
<1>5. Quiet(a)' <=> Quiet(a)
  BY <1>1 DEF Quiet
<1>6. ~Disturbed(a)' => ~Disturbed(a)
  <2>1. /\ expiresAt[a] \in Nat /\ clock \in Nat /\ clock' \in Nat /\ clock <= clock'
        /\ faults \in Nat /\ faults' \in Nat
    BY GenerationAssumption DEF TypeOK, Apart
  <2>2. QED
    BY <1>1, <2>1 DEF Disturbed
<1>7. StartFits(a)'
  BY <1>1, <1>2 DEF StartFits, BatchInv
<1>8. RowFits(a)' /\ ReservationFits(a)'
  BY <1>1 DEF RowFits, ReservationFits, BatchInv
<1>9. JobsFit(a)'
  BY <1>1 DEF JobsFit, BatchInv
<1>10. CalmStart(a)'
  BY <1>1, <1>2 DEF CalmStart, BatchInv
<1>11. CalmEnd(a)'
  <2>1. ASSUME \A c \in Candidates : job'[a][c].step # "unusing"
        PROVE  \A c \in Candidates : job[a][c].step # "unusing"
    BY <1>1, <2>1
  <2>2. QED
    BY <1>1, <1>4, <1>5, <2>1 DEF CalmEnd, BatchInv
<1>12. Covered(a)'
  <2>1. \A c \in Candidates : draft'[c] = a => draft[c] = a
    BY DEF Apart
  <2>2. \A c \in Candidates : Charged(a, c) => Charged(a, c)'
    BY DEF Apart
  <2>3. ASSUME ~Disturbed(a)', NEW c \in Candidates, draft'[c] = a
        PROVE  Charged(a, c)' \/ (job'[a][c].step = "settling" /\ job'[a][c].result = "completed")
    BY <1>1, <1>6, <2>1, <2>2, <2>3 DEF Covered, BatchInv
  <2>4. QED
    BY <1>1, <1>4, <1>6, <2>3 DEF Covered, BatchInv
<1>13. QED
  BY <1>7, <1>8, <1>9, <1>10, <1>11, <1>12 DEF BatchInv

\* A step that gives nobody a candidate and takes none from anybody
LEMMA OwnedKeeps ==
  ASSUME Owned,
         \A c \in Candidates : candidate[c] = "GENERATED" => candidate'[c] = "GENERATED",
         \A a \in Batches, c \in Candidates : Owns(a, c)' => Owns(a, c),
         \A a \in Batches, c \in Candidates :
           \/ Charged(a, c)'
           \/ job'[a][c].step = "settling" /\ job'[a][c].result = "completed"
           => Written(a, c)',
         \A a \in Batches, c \in Candidates : draft'[c] = a => job'[a][c].step # "absent"
  PROVE  Owned'
BY DEF Owned

\* A step of batch b
LEMMA OthersApart ==
  ASSUME IInv, NEW b \in Batches, TypeOK', Trying', Owned', BatchInv(b)',
         \A a \in Batches \ {b} : Apart(a)
  PROVE  IInv'
<1>1. \A a \in Batches \ {b} : BatchInv(a)'
  BY ApartKeeps DEF IInv
<1>2. QED
  BY <1>1 DEF IInv

-----------------------------------------------------------------------------
\* Moving a job

\* Job (b, c) goes to step s with the outcome r; no other job moves.
Moves(b, c, s, r) ==
  /\ job' \in [Batches -> [Candidates -> JobRows]]
  /\ job'[b][c].step = s /\ job'[b][c].result = r
  /\ s = "dead" \/ job'[b][c].tries < Attempts
  /\ \A a \in Batches, d \in Candidates : a # b \/ d # c => job'[a][d] = job[a][d]

Steps == {"absent", "waiting", "checking", "drafting", "settling", "counting",
          "unusing", "unlocking", "closing", "done", "dead"}

LEMMA SettingJob ==
  ASSUME TypeOK, NEW b \in Batches, NEW c \in Candidates,
         NEW r \in JobRows, r.step = "dead" \/ r.tries < Attempts,
         job' = [job EXCEPT ![b] = [@ EXCEPT ![c] = r]]
  PROVE  Moves(b, c, r.step, r.result)
<1>1. job \in [Batches -> [Candidates -> JobRows]]
  BY DEF TypeOK
<1>2. PICK f \in [Candidates -> JobRows] : f = [job[b] EXCEPT ![c] = r]
  BY <1>1
<1>3. job' = [job EXCEPT ![b] = f]
  BY <1>1, <1>2
<1>4. f[c] = r /\ \A d \in Candidates : d # c => f[d] = job[b][d]
  BY <1>1, <1>2
<1>5. /\ job' \in [Batches -> [Candidates -> JobRows]]
      /\ job'[b] = f /\ \A a \in Batches : a # b => job'[a] = job[a]
  BY <1>1, <1>3
<1>6. QED
  BY <1>4, <1>5 DEF Moves

LEMMA JobIs ==
  ASSUME TypeOK, NEW b \in Batches, NEW c \in Candidates
  PROVE  /\ job[b][c] \in JobRows
         /\ job[b][c].step \in Steps
         /\ job[b][c].result \in {"-", "completed", "skipped", "failed"}
<1>1. job[b][c] \in JobRows
  BY DEF TypeOK
<1>2. QED
  BY <1>1 DEF JobRows, Steps

LEMMA Going ==
  ASSUME TypeOK, Trying, NEW b \in Batches, NEW c \in Candidates, NEW s \in Steps, To(b, c, s),
         job[b][c].step # "dead"
  PROVE  Moves(b, c, s, job[b][c].result)
<1>1. PICK j \in JobRows : j = job[b][c]
  BY JobIs
<1>2. PICK r : r = [step |-> s, result |-> j.result, tries |-> j.tries, stalled |-> j.stalled]
  OBVIOUS
<1>3. r = [j EXCEPT !.step = s]
  BY <1>2 DEF JobRows
<1>4. r \in JobRows
  BY <1>2 DEF JobRows, Steps
<1>5. job' = [job EXCEPT ![b] = [@ EXCEPT ![c] = r]]
  BY <1>1, <1>3 DEF To
<1>6. r.step = s /\ r.result = job[b][c].result /\ r.tries < Attempts
  BY <1>1, <1>2 DEF Trying
<1>7. QED
  BY <1>4, <1>5, <1>6, SettingJob

\* A row's step and outcome are set.
LEMMA Outcome ==
  ASSUME TypeOK, Trying, NEW b \in Batches, NEW c \in Candidates, NEW s \in Steps,
         NEW o \in {"-", "completed", "skipped", "failed"}, job[b][c].step # "dead",
         job' = [job EXCEPT ![b][c].result = o, ![b][c].step = s]
  PROVE  Moves(b, c, s, o)
<1>1. PICK j \in JobRows : j = job[b][c]
  BY JobIs
<1>2. PICK k : k = [step |-> j.step, result |-> o, tries |-> j.tries, stalled |-> j.stalled]
  OBVIOUS
<1>3. k \in JobRows /\ k = [j EXCEPT !.result = o]
  BY <1>2 DEF JobRows
<1>4. PICK r : r = [step |-> s, result |-> o, tries |-> j.tries, stalled |-> j.stalled]
  OBVIOUS
<1>5. r \in JobRows /\ r = [k EXCEPT !.step = s]
  <2>1. r \in JobRows
    BY <1>4 DEF JobRows, Steps
  <2>2. QED
    BY <1>2, <1>3, <1>4, <2>1 DEF JobRows
<1>6. job' = [job EXCEPT ![b] = [@ EXCEPT ![c] = r]]
  <2>1. job \in [Batches -> [Candidates -> JobRows]]
    BY DEF TypeOK
  <2>2. job' = [job EXCEPT ![b] = [@ EXCEPT ![c] = [[job[b][c] EXCEPT !.result = o] EXCEPT !.step = s]]]
    BY <2>1
  <2>3. QED
    BY <1>1, <1>3, <1>5, <2>2
<1>7. r.step = s /\ r.result = o /\ r.tries < Attempts
  BY <1>1, <1>4 DEF Trying
<1>8. Moves(b, c, r.step, r.result)
  BY <1>5, <1>6, <1>7, SettingJob
<1>9. QED
  BY <1>7, <1>8

LEMMA Recording ==
  ASSUME TypeOK, Trying, NEW b \in Batches, NEW c \in Candidates, job[b][c].step # "dead",
         NEW r \in {"completed", "skipped", "failed"}, Record(b, c, r)
  PROVE  /\ candidate' \in [Candidates -> CandidateStatuses]
         /\ \A d \in Candidates : d # c => candidate'[d] = candidate[d]
         /\ \/ /\ candidate[c] \in Processable
               /\ candidate'[c] = StatusFor(r)
               /\ r = "completed" => Moves(b, c, "drafting", r)
               /\ r # "completed" => Moves(b, c, "settling", r)
            \/ /\ candidate[c] \notin Processable
               /\ candidate' = candidate
               /\ Moves(b, c, "closing", job[b][c].result)
<1>1. CASE /\ candidate[c] \in Processable
           /\ candidate' = [candidate EXCEPT ![c] = StatusFor(r)]
           /\ job' = [job EXCEPT ![b][c].result = r,
                        ![b][c].step = IF r = "completed" THEN "drafting" ELSE "settling"]
  <2>1. PICK s \in Steps : s = IF r = "completed" THEN "drafting" ELSE "settling"
    BY DEF Steps
  <2>2. Moves(b, c, s, r)
    BY <1>1, <2>1, Outcome
  <2>3. StatusFor(r) \in CandidateStatuses
    BY DEF StatusFor, CandidateStatuses, Processable, Generatable
  <2>4. QED
    BY <1>1, <2>1, <2>2, <2>3 DEF TypeOK
<1>2. CASE candidate[c] \notin Processable /\ To(b, c, "closing") /\ UNCHANGED candidate
  BY <1>2, Going DEF TypeOK, Steps
<1>3. QED
  BY <1>1, <1>2 DEF Record

\* An exception of a job, whatever it was doing
LEMMA Throwing ==
  ASSUME TypeOK, Trying, NEW b \in Batches, NEW c \in Candidates, Throw(b, c),
         job[b][c].step # "dead"
  PROVE  /\ candidate' \in [Candidates -> CandidateStatuses]
         /\ \A d \in Candidates : d # c => candidate'[d] = candidate[d]
         /\ candidate'[c] # candidate[c] => candidate[c] \in Processable
         /\ \/ Moves(b, c, "settling", "failed")
            \/ candidate[c] \notin Processable /\ Moves(b, c, "closing", job[b][c].result)
            \/ Moves(b, c, "waiting", "-")
            \/ Moves(b, c, "dead", "-")
<1>1. CASE Caught(b, c) /\ Record(b, c, "failed")
  <2>1. PICK r \in {"completed", "skipped", "failed"} : r = "failed"
    OBVIOUS
  <2>2. Record(b, c, r)
    BY <1>1, <2>1
  <2>3. QED
    BY <2>1, <2>2, Recording
<1>2. CASE Escapes(b, c) /\ UNCHANGED candidate
           /\ job' = [job EXCEPT ![b][c].tries = @ + 1, ![b][c].result = "-",
                        ![b][c].step = IF job[b][c].tries + 1 < Attempts THEN "waiting" ELSE "dead"]
  <2>1. PICK j \in JobRows : j = job[b][c]
    BY JobIs
  <2>2. PICK n \in 0 .. Attempts : n = j.tries + 1
    BY <2>1, GenerationAssumption DEF JobRows, Trying
  <2>3. PICK s \in Steps : s = IF n < Attempts THEN "waiting" ELSE "dead"
    BY DEF Steps
  <2>4. PICK k : k = [step |-> j.step, result |-> j.result, tries |-> n, stalled |-> j.stalled]
    OBVIOUS
  <2>5. PICK m : m = [step |-> j.step, result |-> "-", tries |-> n, stalled |-> j.stalled]
    OBVIOUS
  <2>6. PICK r : r = [step |-> s, result |-> "-", tries |-> n, stalled |-> j.stalled]
    OBVIOUS
  <2>7. k \in JobRows /\ m \in JobRows /\ r \in JobRows
    BY <2>4, <2>5, <2>6 DEF JobRows, Steps
  <2>8. k = [j EXCEPT !.tries = n]
    BY <2>4 DEF JobRows
  <2>9. m = [k EXCEPT !.result = "-"]
    BY <2>4, <2>5, <2>7 DEF JobRows
  <2>10. r = [m EXCEPT !.step = s]
    BY <2>5, <2>6, <2>7 DEF JobRows
  <2>11. job' = [job EXCEPT ![b] = [@ EXCEPT ![c] = r]]
    <3>1. job \in [Batches -> [Candidates -> JobRows]]
      BY DEF TypeOK
    <3>2. job' = [job EXCEPT ![b] = [@ EXCEPT ![c] =
                    [[[job[b][c] EXCEPT !.tries = n] EXCEPT !.result = "-"] EXCEPT !.step = s]]]
      BY ZenonT(60), <1>2, <2>1, <2>2, <2>3, <3>1
    <3>3. QED
      BY <2>1, <2>8, <2>9, <2>10, <3>2
  <2>12. r.step = s /\ r.result = "-" /\ (s = "dead" \/ r.tries < Attempts)
    BY <2>3, <2>6
  <2>13. Moves(b, c, s, "-")
    BY <2>7, <2>11, <2>12, SettingJob
  <2>14. QED
    BY <1>2, <2>3, <2>13 DEF TypeOK
<1>3. QED
  BY <1>1, <1>2 DEF Throw

LEMMA MovesTry ==
  ASSUME TypeOK, Trying, NEW b \in Batches, NEW c \in Candidates, NEW s, NEW o, Moves(b, c, s, o)
  PROVE  Trying'
BY DEF Moves, Trying

-----------------------------------------------------------------------------
\* What a move of a job keeps

\* Nothing else of batch b changes, but the charges and drafts of its candidates
\* and the faults.
BatchStays(b) ==
  /\ batch'[b] = batch[b] /\ members'[b] = members[b] /\ start'[b] = start[b]
  /\ reservation'[b] = reservation[b] /\ expiresAt'[b] = expiresAt[b]
  /\ lock' = lock /\ clock' = clock
  /\ faults' = 0 => faults = 0

\* While nothing goes wrong a job that passed a transaction does not run it again.
NoReturn(b, c, s) ==
  faults' = 0 =>
    /\ job[b][c].step \notin {"unusing", "unlocking"}
    /\ job[b][c].step \in Past => s \in Past
    /\ job[b][c].step = "counting" => s \in Past \/ batch[b].status # "IN_PROGRESS"

\* A draft that b has after the step is charged, or about to be.
DraftsCovered(b, c, s, o) ==
  ~Disturbed(b)' =>
    /\ \A d \in Candidates : d # c /\ draft'[d] = b => draft[d] = b
    /\ \A d \in Candidates : d # c /\ Charged(b, d) => Charged(b, d)'
    /\ draft'[c] = b => Charged(b, c)' \/ (s = "settling" /\ o = "completed")

LEMMA SlipKeeps ==
  ASSUME TypeOK, TypeOK', NEW b \in Batches, NEW c \in Candidates, BatchInv(b),
         NEW s \in Steps, NEW o, Moves(b, c, s, o), BatchStays(b), NoReturn(b, c, s),
         DraftsCovered(b, c, s, o),
         s \notin {"absent", "unusing", "unlocking"}, s = "drafting" => o = "completed",
         c \in members[b], ~Absent(b) \/ start[b] = "locked"
  PROVE  BatchInv(b)'
<1>1. /\ batch'[b] = batch[b] /\ members'[b] = members[b] /\ start'[b] = start[b]
      /\ reservation'[b] = reservation[b] /\ expiresAt'[b] = expiresAt[b]
      /\ lock' = lock /\ clock' = clock
      /\ faults' = 0 => faults = 0
  BY DEF BatchStays
<1>2. /\ job'[b][c].step = s /\ job'[b][c].result = o
      /\ \A d \in Candidates : d # c => job'[b][d] = job[b][d]
  BY DEF Moves
<1>3. ~Absent(b)'
  BY <1>2 DEF Absent
<1>4. ~Disturbed(b)' => ~Disturbed(b)
  <2>1. faults \in Nat /\ faults' \in Nat
    BY GenerationAssumption DEF TypeOK
  <2>2. QED
    BY <1>1, <2>1 DEF Disturbed
<1>5. ~Disturbed(b)' => faults' = 0
  <2>1. faults' \in Nat
    BY GenerationAssumption DEF TypeOK
  <2>2. QED
    BY <2>1 DEF Disturbed
<1>6. StartFits(b)'
  <2>1. start[b] \notin {"idle", "created", "reserved"}
    BY DEF StartFits, BatchInv
  <2>2. QED
    BY <1>1, <2>1 DEF StartFits, BatchInv
<1>7. RowFits(b)' /\ ReservationFits(b)'
  BY <1>1 DEF RowFits, ReservationFits, BatchInv
<1>8. JobsFit(b)'
  <2>1. \A d \in Candidates :
          job'[b][d].step \in {"unusing", "unlocking"} => d # c /\ job[b][d].step \in {"unusing", "unlocking"}
    BY <1>2
  <2>2. QED
    BY <1>1, <1>2, <2>1 DEF JobsFit, BatchInv
<1>9. CalmStart(b)'
  <2>1. ASSUME faults' = 0
        PROVE  start[b] \notin {"releasing", "deleting", "failed"}
    BY <1>1, <2>1 DEF CalmStart, BatchInv
  <2>2. QED
    BY <1>1, <1>3, <2>1 DEF CalmStart, BatchInv
<1>10. members[b] \subseteq Candidates
  BY DEF TypeOK
<1>11. ASSUME faults' = 0
       PROVE  Passed(b) \subseteq Passed(b)' /\ Cardinality(Passed(b)) <= Cardinality(Passed(b)')
  <2>1. Passed(b) \subseteq Passed(b)'
    BY <1>1, <1>2, <1>10, <1>11 DEF Passed, NoReturn
  <2>2. Passed(b) \in SUBSET Candidates /\ Passed(b)' \in SUBSET Candidates
    BY <1>1, <1>10 DEF Passed
  <2>3. QED
    BY <2>1, <2>2, CountGrows
<1>12. CalmEnd(b)'
  <2>1. ASSUME faults' = 0
        PROVE  batch'[b].completed <= Cardinality(Passed(b)')
    <3>1. batch[b].completed <= Cardinality(Passed(b))
      BY <1>1, <2>1 DEF CalmEnd, BatchInv
    <3>2. batch[b].completed \in Nat /\ Cardinality(Passed(b)) \in Nat /\ Cardinality(Passed(b)') \in Nat
      BY MembersAre, CandidatesFinite, <1>1, <1>10 DEF TypeOK, BatchRows, Passed
    <3>3. QED
      BY <1>1, <1>11, <2>1, <3>1, <3>2
  <2>2. ASSUME faults' = 0, batch'[b].status \in Final
        PROVE  members'[b] \subseteq Passed(b)'
    BY <1>1, <1>11, <2>2 DEF CalmEnd, BatchInv
  <2>3. ASSUME faults' = 0, \A d \in Candidates : job'[b][d].step # "unusing"
        PROVE  \A d \in Candidates : job[b][d].step # "unusing"
    BY <1>2, <2>3 DEF NoReturn
  <2>4. ASSUME faults' = 0, Quiet(b)'
        PROVE  Quiet(b)
    BY <1>2, <2>4 DEF NoReturn, Quiet
  <2>5. QED
    BY <1>1, <2>1, <2>2, <2>3, <2>4 DEF CalmEnd, BatchInv
<1>13. Covered(b)'
  <2>1. ASSUME ~Disturbed(b)', start'[b] \in {"reserved", "locked", "started"},
               batch'[b].status = "IN_PROGRESS"
        PROVE  /\ reservation'[b].reserved = Cardinality(members'[b])
               /\ reservation'[b].consumed + reservation'[b].released <= Cardinality(Paid(b)')
    <3>1. /\ reservation[b].reserved = Cardinality(members[b])
          /\ reservation[b].consumed + reservation[b].released <= Cardinality(Paid(b))
      BY <1>1, <1>4, <2>1 DEF Covered, BatchInv
    <3>2. Paid(b) \subseteq Paid(b)'
      BY <1>1, <1>2, <1>5, <1>10, <2>1 DEF Paid, NoReturn
    <3>3. Paid(b) \in SUBSET Candidates /\ Paid(b)' \in SUBSET Candidates
      BY <1>1, <1>10 DEF Paid
    <3>4. Cardinality(Paid(b)) <= Cardinality(Paid(b)')
      BY <3>2, <3>3, CountGrows
    <3>5. Cardinality(Paid(b)) \in Nat /\ Cardinality(Paid(b)') \in Nat
      BY <3>3, CandidatesFinite
    <3>6. reservation[b].consumed \in Nat /\ reservation[b].released \in Nat
      BY DEF TypeOK, Account!Reservations
    <3>7. QED
      BY <1>1, <3>1, <3>4, <3>5, <3>6
  <2>2. ASSUME ~Disturbed(b)', NEW d \in Candidates, draft'[d] = b
        PROVE  Charged(b, d)' \/ (job'[b][d].step = "settling" /\ job'[b][d].result = "completed")
    <3>1. CASE d = c
      BY <1>2, <2>2, <3>1 DEF DraftsCovered
    <3>2. CASE d # c
      BY <1>2, <1>4, <2>2, <3>2 DEF DraftsCovered, Covered, BatchInv
    <3>3. QED
      BY <3>1, <3>2
  <2>3. QED
    BY <2>1, <2>2 DEF Covered
<1>14. QED
  BY <1>6, <1>7, <1>8, <1>9, <1>12, <1>13 DEF BatchInv

-----------------------------------------------------------------------------
\* The start request

\* Before its jobs are enqueued nothing of a batch was generated.
LEMMA AbsentOwns ==
  ASSUME IInv, NEW b \in Batches, start[b] \in {"idle", "created", "reserved"}
  PROVE  /\ Absent(b) /\ ~HeldBy(lock, b)
         /\ \A c \in Candidates : draft[c] # b
         /\ Passed(b) = {} /\ Paid(b) = {}
<1>1. Absent(b) /\ ~HeldBy(lock, b)
  BY DEF IInv, BatchInv, StartFits
<1>2. \A c \in Candidates : draft[c] # b
  BY <1>1 DEF Absent, IInv, Owned
<1>3. members[b] \subseteq Candidates
  BY DEF IInv, TypeOK
<1>4. Passed(b) = {} /\ Paid(b) = {}
  BY <1>1, <1>3 DEF Absent, Passed, Paid, Past
<1>5. QED
  BY <1>1, <1>2, <1>4

LEMMA StartIs ==
  ASSUME TypeOK, NEW b \in Batches, NEW s \in Starts, Starting(b, s)
  PROVE  /\ start' \in [Batches -> Starts] /\ start'[b] = s
         /\ \A a \in Batches \ {b} : start'[a] = start[a]
BY DEF Starting, TypeOK

LEMMA RequestStartKeeps ==
  ASSUME IInv, NEW b \in Batches, NEW S \in SUBSET Candidates, RequestStart(b, S)
  PROVE  IInv'
<1>1. /\ start[b] = "idle" /\ S # {} /\ Starting(b, "created")
      /\ batch' = [batch EXCEPT ![b].status = "IN_PROGRESS"]
      /\ members' = [members EXCEPT ![b] = S]
      /\ UNCHANGED <<candidate, draft, job, credits, lock, faults, clock>>
  BY DEF RequestStart
<1>2. TypeOK
  BY DEF IInv
<1>3. /\ start' \in [Batches -> Starts] /\ start'[b] = "created"
      /\ \A a \in Batches \ {b} : start'[a] = start[a]
  BY <1>1, <1>2, StartIs DEF Starts
<1>4. PICK r \in BatchRows : r = batch[b]
  BY <1>2 DEF TypeOK
<1>5. PICK q : q = [status |-> "IN_PROGRESS", completed |-> r.completed, failed |-> r.failed]
  OBVIOUS
<1>6. q \in BatchRows /\ q = [r EXCEPT !.status = "IN_PROGRESS"]
  BY <1>5 DEF BatchRows
<1>7. batch' = [batch EXCEPT ![b] = q]
  BY <1>1, <1>4, <1>6
<1>8. /\ batch' \in [Batches -> BatchRows] /\ batch'[b] = q
      /\ \A a \in Batches \ {b} : batch'[a] = batch[a]
  BY <1>2, <1>6, <1>7 DEF TypeOK
<1>9. /\ members' \in [Batches -> SUBSET Candidates] /\ members'[b] = S
      /\ \A a \in Batches \ {b} : members'[a] = members[a]
  BY <1>1, <1>2 DEF TypeOK
<1>10. TypeOK'
  BY <1>1, <1>2, <1>3, <1>8, <1>9 DEF TypeOK, credits
<1>11. Absent(b) /\ ~HeldBy(lock, b) /\ (\A c \in Candidates : draft[c] # b)
  BY <1>1, AbsentOwns
<1>12. Trying' /\ Owned'
  <2>1. Trying'
    BY <1>1 DEF IInv, Trying
  <2>2. \A a \in Batches, c \in Candidates : Written(a, c) => Written(a, c)'
    <3>1. batch[b].status # "DELETED"
      BY <1>1 DEF IInv, BatchInv, StartFits
    <3>2. QED
      BY <1>1, <1>8, <3>1 DEF Written
  <2>3. \A a \in Batches, c \in Candidates : Owns(a, c)' => Owns(a, c)
    BY <1>1 DEF Owns, Charged, credits
  <2>4. \A a \in Batches, c \in Candidates : Charged(a, c)' => Charged(a, c)
    BY <1>1 DEF Charged, credits
  <2>5. QED
    BY <1>1, <2>1, <2>2, <2>3, <2>4 DEF IInv, Owned
<1>13. /\ r.completed = 0 /\ r.failed \in Nat /\ r.failed <= r.completed
       /\ reservation[b].status = "NONE" /\ reservation[b].reserved = 0
  BY <1>1, <1>4 DEF IInv, BatchInv, RowFits, StartFits, ReservationFits, BatchRows
<1>14. IsFiniteSet(S) /\ Cardinality(S) \in Nat /\ Cardinality(S) > 0
  <2>1. IsFiniteSet(S) /\ Cardinality(S) \in Nat
    BY CandidatesFinite
  <2>2. Cardinality(S) # 0
    BY <1>1, <2>1, FS_EmptySet
  <2>3. QED
    BY <2>1, <2>2
<1>15. BatchInv(b)'
  <2>1. StartFits(b)'
    BY <1>1, <1>3, <1>5, <1>8, <1>9, <1>11, <1>13 DEF StartFits, Absent, credits
  <2>2. RowFits(b)'
    BY <1>3, <1>5, <1>8, <1>9, <1>13, <1>14 DEF RowFits
  <2>3. ReservationFits(b)'
    BY <1>1 DEF ReservationFits, IInv, BatchInv, credits
  <2>4. JobsFit(b)'
    BY <1>1, <1>11 DEF JobsFit, Absent
  <2>5. CalmStart(b)'
    BY <1>1, <1>3, <1>13 DEF CalmStart, credits
  <2>6. CalmEnd(b)'
    <3>1. Passed(b)' = {}
      BY <1>1, <1>9, <1>11 DEF Passed, Absent, Past
    <3>2. batch'[b].completed = 0 /\ batch'[b].status \notin Final
      BY <1>5, <1>8, <1>13 DEF Final
    <3>3. QED
      BY <3>1, <3>2, FS_EmptySet DEF CalmEnd
  <2>7. Covered(b)'
    BY <1>1, <1>3, <1>11 DEF Covered
  <2>8. QED
    BY <2>1, <2>2, <2>3, <2>4, <2>5, <2>6, <2>7 DEF BatchInv
<1>16. ASSUME NEW a \in Batches \ {b}
       PROVE  Apart(a)
  BY <1>1, <1>2, <1>3, <1>8, <1>9, GenerationAssumption DEF Apart, credits, Charged, TypeOK
<1>17. QED
  BY <1>10, <1>12, <1>15, <1>16, OthersApart

\* A step that leaves candidates, drafts, jobs and charges alone
LEMMA OwnedStays ==
  ASSUME Owned, UNCHANGED <<draft, job, settled>>,
         \A c \in Candidates : candidate[c] = "GENERATED" => candidate'[c] = "GENERATED",
         \A a \in Batches : batch[a].status = "DELETED" => batch'[a].status = "DELETED"
  PROVE  Owned'
<1>1. \A a \in Batches, c \in Candidates : Charged(a, c)' = Charged(a, c)
  BY DEF Charged
<1>2. \A a \in Batches, c \in Candidates : Written(a, c) => Written(a, c)'
  BY DEF Written
<1>3. \A a \in Batches, c \in Candidates : Owns(a, c)' => Owns(a, c)
  BY DEF Owns, Charged
<1>4. QED
  BY <1>1, <1>2, <1>3 DEF Owned

LEMMA TryingStays == Trying /\ job' = job => Trying'
BY DEF Trying

LEMMA NothingReserved ==
  ASSUME IInv, NEW b \in Batches, reservation[b].status \notin Account!Settleable
  PROVE  Account!Held(reservation[b]) = 0
BY HeldFacts DEF IInv, BatchInv

LEMMA ReserveKeeps ==
  ASSUME IInv, NEW b \in Batches, Reserve(b)
  PROVE  IInv'
<1>1. /\ start[b] = "created"
      /\ UNCHANGED <<candidate, draft, batch, members, job, settled, lock, faults, clock>>
  BY DEF Reserve
<1>2. TypeOK
  BY DEF IInv
<1>3. Absent(b) /\ ~HeldBy(lock, b) /\ (\A c \in Candidates : draft[c] # b)
      /\ Passed(b) = {} /\ Paid(b) = {}
  BY <1>1, AbsentOwns
<1>4. Trying' /\ Owned'
  BY <1>1, OwnedStays, TryingStays DEF IInv
<1>5. Absent(b)' /\ ~HeldBy(lock', b)
  BY <1>1, <1>3 DEF Absent
<1>6. PICK n \in Nat : n = Cardinality(members[b])
  BY <1>2, MembersAre
<1>7. reservation[b].status = "NONE" /\ batch[b].status # "NONE" /\ batch[b].status # "DELETED"
      /\ members[b] # {}
  BY <1>1 DEF IInv, BatchInv, StartFits
<1>8. JobsFit(b)' /\ (start'[b] # "idle" => RowFits(b)')
  BY <1>1 DEF RowFits, JobsFit, IInv, BatchInv
<1>9. CASE /\ Account!Reserve(b, Cardinality(members[b]))
           /\ expiresAt' = [expiresAt EXCEPT ![b] = clock + ReservationTtl]
           /\ Starting(b, "reserved")
  <2>1. /\ start' \in [Batches -> Starts] /\ start'[b] = "reserved"
        /\ \A a \in Batches \ {b} : start'[a] = start[a]
    BY <1>2, <1>9, StartIs DEF Starts
  <2>2. PICK r : r = Account!NewReservation(n)
    OBVIOUS
  <2>3. r \in Account!Reservations /\ r.status = "ACTIVE" /\ r.reserved = n /\ r.consumed = 0
        /\ r.released = 0
    BY <2>2 DEF Account!NewReservation, Account!Reservations, Account!ReservationStatuses
  <2>4. reservation' = [reservation EXCEPT ![b] = r]
    BY <1>6, <1>9, <2>2 DEF Account!Reserve
  <2>5. /\ reservation' \in [Batches -> Account!Reservations] /\ reservation'[b] = r
        /\ \A a \in Batches \ {b} : reservation'[a] = reservation[a]
    BY <1>2, <2>3, <2>4 DEF TypeOK
  <2>6. /\ expiresAt' \in [Batches -> Nat]
        /\ \A a \in Batches \ {b} : expiresAt'[a] = expiresAt[a]
    BY <1>2, <1>9, GenerationAssumption DEF TypeOK
  <2>7. available' \in Nat
    <3>1. available' = available - n /\ n <= available
      BY <1>6, <1>9 DEF Account!Reserve
    <3>2. QED
      BY <1>2, <3>1 DEF TypeOK
  <2>8. TypeOK'
    BY <1>1, <1>2, <2>1, <2>5, <2>6, <2>7 DEF TypeOK
  <2>9. BatchInv(b)'
    <3>1. StartFits(b)'
      BY <1>1, <1>5, <1>7, <2>1 DEF StartFits
    <3>2. ReservationFits(b)'
      BY <2>3, <2>5 DEF ReservationFits
    <3>3. CalmStart(b)'
      BY <2>1, <2>3, <2>5 DEF CalmStart
    <3>4. CalmEnd(b)'
      <4>1. Passed(b)' = Passed(b)
        BY <1>1 DEF Passed
      <4>2. faults = 0 => batch[b].status \notin Final
        BY <1>3, <1>7 DEF CalmEnd, IInv, BatchInv
      <4>3. QED
        BY <1>1, <4>1, <4>2 DEF CalmEnd, IInv, BatchInv
    <3>5. Covered(b)'
      BY <1>1, <1>3, <1>6, <2>3, <2>5, CandidatesFinite, FS_EmptySet DEF Covered, Paid
    <3>6. QED
      BY <1>8, <2>1, <3>1, <3>2, <3>3, <3>4, <3>5 DEF BatchInv
  <2>10. ASSUME NEW a \in Batches \ {b}
         PROVE  Apart(a)
    BY <1>1, <1>2, <2>1, <2>5, <2>6, GenerationAssumption DEF Apart, Charged, TypeOK
  <2>11. QED
    BY <1>4, <2>8, <2>9, <2>10, OthersApart
<1>10. CASE /\ available < Cardinality(members[b]) /\ Starting(b, "deleting")
            /\ UNCHANGED <<available, reservation, expiresAt>>
  <2>1. /\ start' \in [Batches -> Starts] /\ start'[b] = "deleting"
        /\ \A a \in Batches \ {b} : start'[a] = start[a]
    BY <1>2, <1>10, StartIs DEF Starts
  <2>2. TypeOK'
    BY <1>1, <1>2, <1>10, <2>1 DEF TypeOK
  <2>3. BatchInv(b)'
    <3>1. StartFits(b)'
      BY <1>1, <1>5, <1>7, <1>10, <2>1 DEF StartFits
    <3>2. ReservationFits(b)'
      BY <1>10 DEF ReservationFits, IInv, BatchInv
    <3>3. CalmStart(b)'
      <4>1. Account!Held(reservation[b]) = 0
        BY <1>7, NothingReserved DEF Account!Settleable
      <4>2. QED
        BY <1>5, <1>7, <1>10, <2>1, <4>1 DEF CalmStart
    <3>4. CalmEnd(b)'
      <4>1. Passed(b)' = Passed(b)
        BY <1>1 DEF Passed
      <4>2. faults = 0 => batch[b].status \notin Final
        BY <1>3, <1>7 DEF CalmEnd, IInv, BatchInv
      <4>3. QED
        BY <1>1, <4>1, <4>2 DEF CalmEnd, IInv, BatchInv
    <3>5. Covered(b)'
      BY <1>1, <1>3, <2>1 DEF Covered
    <3>6. QED
      BY <1>8, <2>1, <3>1, <3>2, <3>3, <3>4, <3>5 DEF BatchInv
  <2>4. ASSUME NEW a \in Batches \ {b}
        PROVE  Apart(a)
    BY <1>1, <1>2, <1>10, <2>1, GenerationAssumption DEF Apart, Charged, TypeOK
  <2>5. QED
    BY <1>4, <2>2, <2>3, <2>4, OthersApart
<1>11. QED
  BY <1>9, <1>10 DEF Reserve

\* The lock of another batch is not b's.
LEMMA GrantedToOne ==
  ASSUME NEW a \in Batches, NEW b \in Batches, a # b, NEW now
  PROVE  ~HeldBy(Granted("GENERATE", b, now), a)
BY DEF HeldBy, Granted

LEMMA ReleasedFits ==
  ASSUME NEW l \in {NoLock} \cup LockRows, NEW b \in Batches, NEW now \in Nat,
         NEW m, m = Released(l, b, now)
  PROVE  /\ m \in {NoLock} \cup LockRows
         /\ ~HeldBy(m, b)
         /\ \A a \in Batches : HeldBy(m, a) => HeldBy(l, a)
<1>1. CASE HeldBy(l, b)
  <2>1. m = Closed(l, now)
    BY <1>1 DEF Released
  <2>2. l \in LockRows
    BY <1>1 DEF HeldBy, NoLock
  <2>3. m \in LockRows /\ m.status = "RELEASED"
    BY <2>1, <2>2 DEF Closed, LockRows
  <2>4. QED
    BY <2>3 DEF HeldBy
<1>2. CASE ~HeldBy(l, b)
  BY <1>2 DEF Released
<1>3. QED
  BY <1>1, <1>2

LEMMA TakeLockKeeps ==
  ASSUME IInv, NEW b \in Batches, TakeLock(b)
  PROVE  IInv'
<1>1. /\ start[b] = "reserved"
      /\ UNCHANGED <<candidate, draft, batch, members, job, credits, faults, clock>>
  BY DEF TakeLock
<1>2. TypeOK
  BY DEF IInv
<1>3. Absent(b) /\ ~HeldBy(lock, b) /\ (\A c \in Candidates : draft[c] # b) /\ Passed(b) = {}
  BY <1>1, AbsentOwns
<1>4. Trying' /\ Owned'
  BY <1>1, OwnedStays, TryingStays DEF IInv, credits
<1>5. PICK s \in {"locked", "releasing"} :
        /\ Starting(b, s)
        /\ s = "locked" => lock' = Granted("GENERATE", b, clock)
        /\ s = "releasing" => lock' = lock
  BY DEF TakeLock
<1>6. /\ start' \in [Batches -> Starts] /\ start'[b] = s
      /\ \A a \in Batches \ {b} : start'[a] = start[a]
  BY <1>2, <1>5, StartIs DEF Starts
<1>7. lock' \in {NoLock} \cup LockRows
  <2>1. Granted("GENERATE", b, clock) \in LockRows
    BY <1>2, GenerationAssumption, LockRowAssumption DEF Granted, LockRows, LockTypes, TypeOK
  <2>2. QED
    BY <1>2, <1>5, <2>1 DEF TypeOK
<1>8. TypeOK'
  BY <1>1, <1>2, <1>6, <1>7 DEF TypeOK, credits
<1>9. batch[b].status \notin {"NONE", "DELETED"} /\ members[b] # {}
  BY <1>1 DEF IInv, BatchInv, StartFits
<1>10. BatchInv(b)'
  <2>1. StartFits(b)'
    BY <1>1, <1>6, <1>9 DEF StartFits
  <2>2. RowFits(b)' /\ ReservationFits(b)' /\ JobsFit(b)'
    BY <1>1, <1>6 DEF RowFits, ReservationFits, JobsFit, IInv, BatchInv, credits
  <2>3. CalmStart(b)'
    BY <1>1, <1>3, <1>5, <1>6 DEF CalmStart, IInv, BatchInv, credits, Absent
  <2>4. CalmEnd(b)'
    <3>1. Passed(b)' = Passed(b)
      BY <1>1 DEF Passed
    <3>2. faults = 0 => batch[b].status \notin Final
      BY <1>3, <1>9 DEF CalmEnd, IInv, BatchInv
    <3>3. QED
      BY <1>1, <3>1, <3>2 DEF CalmEnd, IInv, BatchInv
  <2>5. Covered(b)'
    <3>1. Paid(b)' = Paid(b) /\ Disturbed(b)' = Disturbed(b)
      BY <1>1 DEF Paid, Disturbed, credits
    <3>2. QED
      BY <1>1, <1>3, <3>1 DEF Covered, IInv, BatchInv, credits
  <2>6. QED
    BY <2>1, <2>2, <2>3, <2>4, <2>5 DEF BatchInv
<1>11. ASSUME NEW a \in Batches \ {b}
       PROVE  Apart(a)
  <2>1. HeldBy(lock', a) => HeldBy(lock, a)
    BY <1>5, GrantedToOne
  <2>2. QED
    BY <1>1, <1>2, <1>6, <2>1, GenerationAssumption DEF Apart, Charged, TypeOK, credits
<1>12. QED
  BY <1>4, <1>8, <1>10, <1>11, OthersApart

LEMMA EnqueueKeeps ==
  ASSUME IInv, NEW b \in Batches, NEW c \in Candidates, Enqueue(b, c)
  PROVE  IInv'
<1>1. /\ start[b] = "locked" /\ c \in members[b] /\ job[b][c].step = "absent"
      /\ UNCHANGED <<candidate, draft, requests, credits, lock, faults, clock>>
  BY DEF Enqueue
<1>2. TypeOK /\ Trying /\ Owned /\ BatchInv(b)
  BY DEF IInv
<1>3. Moves(b, c, "waiting", job[b][c].result)
  BY <1>1, <1>2, Going DEF Enqueue, Steps
<1>4. TypeOK'
  BY <1>1, <1>2, <1>3 DEF TypeOK, Moves, requests, credits
<1>5. draft[c] # b
  BY <1>1, <1>2 DEF Owned
<1>6. Trying' /\ Owned'
  <2>1. \A a \in Batches, d \in Candidates : Owns(a, d)' => Owns(a, d)
    BY <1>1, <1>3 DEF Owns, Charged, Moves, credits
  <2>2. ASSUME NEW a \in Batches, NEW d \in Candidates,
               \/ Charged(a, d)'
               \/ job'[a][d].step = "settling" /\ job'[a][d].result = "completed"
        PROVE  Written(a, d)'
    BY <1>1, <1>2, <1>3, <2>2 DEF Owned, Written, Charged, Moves, requests, credits
  <2>3. \A a \in Batches, d \in Candidates : draft'[d] = a => job'[a][d].step # "absent"
    BY <1>1, <1>2, <1>3 DEF Owned, Moves
  <2>4. QED
    BY <1>1, <1>2, <1>3, <2>1, <2>2, <2>3, OwnedKeeps, MovesTry
<1>7. BatchInv(b)'
  <2>1. DraftsCovered(b, c, "waiting", job[b][c].result)
    BY <1>1, <1>5 DEF DraftsCovered, Charged, credits
  <2>2. BatchStays(b)
    BY <1>1 DEF BatchStays, requests, credits
  <2>3. NoReturn(b, c, "waiting")
    BY <1>1 DEF NoReturn, Past
  <2>4. QED
    BY <1>1, <1>2, <1>3, <1>4, <2>1, <2>2, <2>3, SlipKeeps DEF Steps
<1>8. ASSUME NEW a \in Batches \ {b}
      PROVE  Apart(a)
  BY <1>1, <1>2, <1>3, GenerationAssumption DEF Apart, Charged, Moves, TypeOK, requests, credits
<1>9. QED
  BY <1>4, <1>6, <1>7, <1>8, OthersApart

\* A step of the request after which batch b is as good as before
LEMMA StartKeeps ==
  ASSUME IInv, NEW b \in Batches, NEW s \in Starts, Starting(b, s),
         UNCHANGED <<members, job, settled, expiresAt, clock>>,
         candidate' \in [Candidates -> CandidateStatuses],
         \A c \in Candidates : candidate[c] = "GENERATED" => candidate'[c] = "GENERATED",
         draft' = draft, batch' = batch, available' = available, reservation' = reservation,
         lock' = lock \/ lock' = Released(lock, b, clock),
         faults' \in 0 .. MaxFaults, faults' = 0 => faults = 0,
         start[b] \notin {"idle", "failed"},
         s \notin {"idle", "created", "reserved", "failed"},
         faults' = 0 => s = "started" /\ start[b] = "locked"
  PROVE  IInv'
<1>1. TypeOK /\ BatchInv(b)
  BY DEF IInv
<1>2. /\ start' \in [Batches -> Starts] /\ start'[b] = s
      /\ \A a \in Batches \ {b} : start'[a] = start[a]
  BY <1>1, StartIs
<1>3. clock \in Nat
  BY <1>1, GenerationAssumption DEF TypeOK
<1>4. lock' \in {NoLock} \cup LockRows /\ (\A a \in Batches : HeldBy(lock', a) => HeldBy(lock, a))
  <2>1. CASE lock' = lock
    BY <1>1, <2>1 DEF TypeOK
  <2>2. CASE lock' = Released(lock, b, clock)
    BY <1>1, <1>3, <2>2, ReleasedFits DEF TypeOK
  <2>3. QED
    BY <2>1, <2>2
<1>5. TypeOK'
  BY <1>1, <1>2, <1>4 DEF TypeOK
<1>6. Trying' /\ Owned'
  BY OwnedStays, TryingStays DEF IInv
<1>7. BatchInv(b)'
  <2>1. StartFits(b)'
    BY <1>1, <1>2 DEF StartFits, BatchInv
  <2>2. RowFits(b)' /\ ReservationFits(b)' /\ JobsFit(b)'
    BY <1>1, <1>2 DEF RowFits, ReservationFits, JobsFit, BatchInv
  <2>3. CalmStart(b)'
    BY <1>1, <1>2 DEF CalmStart, BatchInv, Absent
  <2>4. CalmEnd(b)'
    BY <1>1, <1>4 DEF CalmEnd, BatchInv, Passed, Quiet
  <2>5. Covered(b)'
    <3>1. ~Disturbed(b)' => faults' = 0 /\ ~Disturbed(b)
      BY <1>1, GenerationAssumption DEF Disturbed, TypeOK
    <3>2. Paid(b)' = Paid(b)
      BY DEF Paid
    <3>3. \A c \in Candidates : Charged(b, c)' = Charged(b, c)
      BY DEF Charged
    <3>4. QED
      BY <1>1, <1>2, <3>1, <3>2, <3>3 DEF Covered, BatchInv
  <2>6. QED
    BY <2>1, <2>2, <2>3, <2>4, <2>5 DEF BatchInv
<1>8. ASSUME NEW a \in Batches \ {b}
      PROVE  Apart(a)
  BY <1>1, <1>2, <1>3, <1>4 DEF Apart, Charged
<1>9. QED
  BY <1>5, <1>6, <1>7, <1>8, OthersApart

LEMMA MarkGeneratingKeeps ==
  ASSUME IInv, NEW b \in Batches, MarkGenerating(b)
  PROVE  IInv'
<1>1. /\ start[b] = "locked" /\ Starting(b, "started")
      /\ UNCHANGED <<draft, batch, members, job, credits, lock, faults, clock>>
      /\ candidate' = [c \in Candidates |->
                         IF c \in members[b] /\ candidate[c] \in Generatable
                         THEN "GENERATING" ELSE candidate[c]]
  BY DEF MarkGenerating
<1>2. TypeOK
  BY DEF IInv
<1>3. /\ candidate' \in [Candidates -> CandidateStatuses]
      /\ \A c \in Candidates : candidate[c] = "GENERATED" => candidate'[c] = "GENERATED"
  BY <1>1, <1>2 DEF TypeOK, CandidateStatuses, Processable, Generatable
<1>4. faults' \in 0 .. MaxFaults
  BY <1>1, <1>2 DEF TypeOK
<1>5. QED
  BY <1>1, <1>3, <1>4, StartKeeps DEF Starts, credits

\* An exception or a crash, one more
LEMMA Faulting ==
  ASSUME TypeOK, faults < MaxFaults, faults' = faults + 1
  PROVE  faults' \in 0 .. MaxFaults /\ faults' # 0
BY GenerationAssumption DEF TypeOK

LEMMA RollbackLockKeeps ==
  ASSUME IInv, NEW b \in Batches, RollbackLock(b)
  PROVE  IInv'
<1>1. /\ start[b] = "unlocking" /\ Starting(b, "releasing")
      /\ lock' = Released(lock, b, clock)
      /\ UNCHANGED <<candidate, draft, batch, members, job, credits, faults, clock>>
  BY DEF RollbackLock
<1>2. TypeOK /\ faults # 0
  BY <1>1 DEF IInv, BatchInv, CalmStart
<1>3. candidate' \in [Candidates -> CandidateStatuses] /\ faults' \in 0 .. MaxFaults
  BY <1>1, <1>2 DEF TypeOK
<1>4. QED
  BY <1>1, <1>2, <1>3, StartKeeps DEF Starts, credits

\* The row of a batch with another status
LEMMA BatchStatus ==
  ASSUME TypeOK, NEW b \in Batches, NEW s \in {"IN_PROGRESS", "COMPLETED", "FAILED", "DELETED"},
         batch' = [batch EXCEPT ![b].status = s]
  PROVE  /\ batch' \in [Batches -> BatchRows] /\ batch'[b].status = s
         /\ batch'[b].completed = batch[b].completed /\ batch'[b].failed = batch[b].failed
         /\ \A a \in Batches \ {b} : batch'[a] = batch[a]
<1>1. PICK r \in BatchRows : r = batch[b]
  BY DEF TypeOK
<1>2. PICK q : q = [status |-> s, completed |-> r.completed, failed |-> r.failed]
  OBVIOUS
<1>3. q \in BatchRows /\ q = [r EXCEPT !.status = s]
  BY <1>2 DEF BatchRows
<1>4. batch' = [batch EXCEPT ![b] = q]
  BY <1>1, <1>3
<1>5. /\ batch' \in [Batches -> BatchRows] /\ batch'[b] = q
      /\ \A a \in Batches \ {b} : batch'[a] = batch[a]
  BY <1>3, <1>4 DEF TypeOK
<1>6. QED
  BY <1>1, <1>2, <1>5

LEMMA StartFailsKeeps ==
  ASSUME IInv, NEW b \in Batches, StartFails(b)
  PROVE  IInv'
<1>1. /\ faults < MaxFaults /\ faults' = faults + 1
      /\ UNCHANGED <<candidate, draft, batch, members, job, credits, lock, spoiled, clock>>
  BY DEF StartFails
<1>2. TypeOK /\ BatchInv(b)
  BY DEF IInv
<1>3. faults' \in 0 .. MaxFaults /\ faults' # 0
  BY <1>1, <1>2, Faulting
<1>4. ASSUME NEW s \in Starts, Starting(b, s), batch' = batch,
             start[b] \notin {"idle", "failed"}, s \notin {"idle", "created", "reserved", "failed"}
      PROVE  IInv'
  BY <1>1, <1>2, <1>3, <1>4, StartKeeps DEF credits, TypeOK
<1>5. QED
  BY <1>1, <1>4 DEF StartFails, Starts

LEMMA RollbackFailsKeeps ==
  ASSUME IInv, NEW b \in Batches, RollbackFails(b)
  PROVE  IInv'
<1>1. /\ faults < MaxFaults /\ faults' = faults + 1 /\ spoiled' = spoiled \cup {b}
      /\ UNCHANGED <<candidate, draft, members, job, credits, lock, clock>>
  BY DEF RollbackFails
<1>2. TypeOK /\ BatchInv(b)
  BY DEF IInv
<1>3. faults' \in 0 .. MaxFaults /\ faults' # 0
  BY <1>1, <1>2, Faulting
<1>4. ASSUME NEW s \in Starts, Starting(b, s), batch' = batch,
             start[b] \notin {"idle", "failed"}, s \notin {"idle", "created", "reserved", "failed"}
      PROVE  IInv'
  BY <1>1, <1>2, <1>3, <1>4, StartKeeps DEF credits, TypeOK
<1>5. CASE /\ start[b] = "deleting"
           /\ batch' = [batch EXCEPT ![b].status = "FAILED"]
           /\ Starting(b, "failed")
  <2>1. /\ start' \in [Batches -> Starts] /\ start'[b] = "failed"
        /\ \A a \in Batches \ {b} : start'[a] = start[a]
    BY <1>2, <1>5, StartIs DEF Starts
  <2>2. /\ batch' \in [Batches -> BatchRows] /\ batch'[b].status = "FAILED"
        /\ batch'[b].completed = batch[b].completed /\ batch'[b].failed = batch[b].failed
        /\ \A a \in Batches \ {b} : batch'[a] = batch[a]
    BY <1>2, <1>5, BatchStatus
  <2>3. TypeOK'
    BY <1>1, <1>2, <1>3, <2>1, <2>2 DEF TypeOK, credits
  <2>4. batch[b].status # "DELETED"
    BY <1>2, <1>5 DEF BatchInv, StartFits
  <2>5. Trying' /\ Owned'
    BY <1>1, <2>2, <2>4, OwnedStays, TryingStays DEF IInv, credits
  <2>6. BatchInv(b)'
    <3>1. StartFits(b)'
      BY <1>1, <1>2, <1>5, <2>1, <2>2 DEF StartFits, BatchInv, credits
    <3>2. RowFits(b)' /\ ReservationFits(b)' /\ JobsFit(b)'
      BY <1>1, <1>2, <2>1, <2>2 DEF RowFits, ReservationFits, JobsFit, BatchInv, credits
    <3>3. CalmStart(b)' /\ CalmEnd(b)'
      BY <1>3 DEF CalmStart, CalmEnd
    <3>4. Covered(b)'
      BY <1>3, <2>3, GenerationAssumption DEF Covered, Disturbed, TypeOK
    <3>5. QED
      BY <3>1, <3>2, <3>3, <3>4 DEF BatchInv
  <2>7. ASSUME NEW a \in Batches \ {b}
        PROVE  Apart(a)
    BY <1>1, <1>2, <1>3, <2>1, <2>2, GenerationAssumption DEF Apart, Charged, TypeOK, credits
  <2>8. QED
    BY <2>3, <2>5, <2>6, <2>7, OthersApart
<1>6. QED
  BY <1>4, <1>5 DEF RollbackFails, Starts

\* A reservation that was released whole
LEMMA ClosedFits ==
  ASSUME TypeOK, NEW b \in Batches, ReservationFits(b), Account!CloseReleased(b, "RELEASED")
  PROVE  /\ reservation' \in [Batches -> Account!Reservations] /\ available' \in Nat
         /\ \A a \in Batches \ {b} : reservation'[a] = reservation[a]
         /\ Account!Held(reservation'[b]) = 0
         /\ reservation'[b].status = "RELEASED"
         /\ reservation[b].status = "ACTIVE"
         /\ ReservationFits(b)'
<1>1. PICK r \in Account!Reservations : r = reservation[b]
  BY DEF TypeOK
<1>2. /\ r.status = "ACTIVE"
      /\ reservation' = [reservation EXCEPT ![b].status = "RELEASED",
                                            ![b].released = @ + Account!Held(r)]
      /\ available' = available + Account!Held(r)
  BY <1>1 DEF Account!CloseReleased
<1>3. /\ r.reserved \in Nat /\ r.consumed = 0 /\ r.released = 0 /\ Account!Held(r) = r.reserved
  BY <1>1, <1>2 DEF Account!Reservations, Account!Held, ReservationFits
<1>4. PICK k : k = [status |-> "RELEASED", reserved |-> r.reserved,
                    consumed |-> r.consumed, released |-> r.released]
  OBVIOUS
<1>5. PICK q : q = [status |-> "RELEASED", reserved |-> r.reserved,
                    consumed |-> r.consumed, released |-> r.released + Account!Held(r)]
  OBVIOUS
<1>6. k \in Account!Reservations /\ k = [r EXCEPT !.status = "RELEASED"]
  BY <1>4 DEF Account!Reservations, Account!ReservationStatuses
<1>7. q \in Account!Reservations
  BY <1>3, <1>5 DEF Account!Reservations, Account!ReservationStatuses
<1>8. q = [k EXCEPT !.released = r.released + Account!Held(r)]
  BY <1>4, <1>5, <1>6 DEF Account!Reservations
<1>9. reservation' = [reservation EXCEPT ![b] = q]
  <2>1. reservation' = [reservation EXCEPT ![b] =
                          [[r EXCEPT !.status = "RELEASED"] EXCEPT !.released = @ + Account!Held(r)]]
    BY <1>1, <1>2 DEF TypeOK
  <2>2. k.released = r.released
    BY <1>4
  <2>3. QED
    BY <1>6, <1>8, <2>1, <2>2
<1>10. /\ reservation' \in [Batches -> Account!Reservations] /\ reservation'[b] = q
       /\ \A a \in Batches \ {b} : reservation'[a] = reservation[a]
  BY <1>7, <1>9 DEF TypeOK
<1>11. available' \in Nat
  BY <1>2, <1>3 DEF TypeOK
<1>12. /\ q.status = "RELEASED" /\ q.reserved = r.reserved /\ q.consumed = 0
       /\ q.released = r.reserved
  BY <1>3, <1>5
<1>13. Account!Held(q) = 0
  BY <1>3, <1>12 DEF Account!Held
<1>14. ReservationFits(b)'
  BY <1>3, <1>10, <1>12 DEF ReservationFits
<1>15. QED
  BY <1>1, <1>2, <1>10, <1>11, <1>12, <1>13, <1>14

LEMMA RollbackReservationKeeps ==
  ASSUME IInv, NEW b \in Batches, RollbackReservation(b)
  PROVE  IInv'
<1>1. /\ start[b] = "releasing" /\ Starting(b, "deleting")
      /\ UNCHANGED <<candidate, draft, batch, members, job, expiresAt, settled, lock, faults, clock>>
  BY DEF RollbackReservation
<1>2. TypeOK /\ BatchInv(b)
  BY DEF IInv
<1>3. /\ start' \in [Batches -> Starts] /\ start'[b] = "deleting"
      /\ \A a \in Batches \ {b} : start'[a] = start[a]
  BY <1>1, <1>2, StartIs DEF Starts
<1>4. Trying' /\ Owned'
  BY <1>1, OwnedStays, TryingStays DEF IInv
<1>5. /\ reservation' \in [Batches -> Account!Reservations] /\ available' \in Nat
      /\ \A a \in Batches \ {b} : reservation'[a] = reservation[a]
      /\ ReservationFits(b)'
      /\ faults = 0 => Account!Held(reservation'[b]) = 0
      /\ faults = 0 => reservation'[b].status # "PARTIALLY_CONSUMED"
  <2>1. CASE Account!CloseReleased(b, "RELEASED")
    BY <1>2, <2>1, ClosedFits DEF BatchInv
  <2>2. CASE reservation[b].status # "ACTIVE" /\ UNCHANGED <<available, reservation>>
    <3>1. faults = 0 => reservation[b].status # "PARTIALLY_CONSUMED"
      BY <1>1, <1>2 DEF BatchInv, CalmStart
    <3>2. faults = 0 => Account!Held(reservation[b]) = 0
      BY <2>2, <3>1, NothingReserved DEF Account!Settleable
    <3>3. QED
      BY <1>2, <2>2, <3>1, <3>2 DEF BatchInv, ReservationFits, TypeOK
  <2>3. QED
    BY <2>1, <2>2 DEF RollbackReservation
<1>6. TypeOK'
  BY <1>1, <1>2, <1>3, <1>5 DEF TypeOK
<1>7. BatchInv(b)'
  <2>1. StartFits(b)' /\ RowFits(b)' /\ JobsFit(b)'
    BY <1>1, <1>2, <1>3 DEF StartFits, RowFits, JobsFit, BatchInv
  <2>2. CalmStart(b)'
    BY <1>1, <1>2, <1>3, <1>5 DEF CalmStart, BatchInv, Absent
  <2>3. CalmEnd(b)'
    BY <1>1, <1>2, <1>5 DEF CalmEnd, BatchInv, Passed, Quiet
  <2>4. Covered(b)'
    BY <1>1, <1>2, <1>3 DEF Covered, BatchInv, Disturbed, Charged
  <2>5. QED
    BY <1>5, <2>1, <2>2, <2>3, <2>4 DEF BatchInv
<1>8. ASSUME NEW a \in Batches \ {b}
      PROVE  Apart(a)
  BY <1>1, <1>2, <1>3, <1>5, GenerationAssumption DEF Apart, Charged, TypeOK
<1>9. QED
  BY <1>4, <1>6, <1>7, <1>8, OthersApart

LEMMA RollbackBatchKeeps ==
  ASSUME IInv, NEW b \in Batches, RollbackBatch(b)
  PROVE  IInv'
<1>1. /\ start[b] = "deleting" /\ Starting(b, "failed")
      /\ batch' = [batch EXCEPT ![b].status = "DELETED"]
      /\ draft' = [c \in Candidates |-> IF draft[c] = b THEN None ELSE draft[c]]
      /\ UNCHANGED <<candidate, members, job, credits, lock, faults, clock>>
  BY DEF RollbackBatch
<1>2. TypeOK /\ BatchInv(b) /\ Owned
  BY DEF IInv
<1>3. /\ start' \in [Batches -> Starts] /\ start'[b] = "failed"
      /\ \A a \in Batches \ {b} : start'[a] = start[a]
  BY <1>1, <1>2, StartIs DEF Starts
<1>4. /\ batch' \in [Batches -> BatchRows] /\ batch'[b].status = "DELETED"
      /\ batch'[b].completed = batch[b].completed /\ batch'[b].failed = batch[b].failed
      /\ \A a \in Batches \ {b} : batch'[a] = batch[a]
  BY <1>1, <1>2, BatchStatus
<1>5. /\ draft' \in [Candidates -> Batches \cup {None}]
      /\ \A c \in Candidates : draft'[c] # b
      /\ \A a \in Batches, c \in Candidates : draft'[c] = a => draft[c] = a
      /\ \A a \in Batches, c \in Candidates : draft[c] = a /\ a # b => draft'[c] = a
  BY <1>1, <1>2, CandidatesFinite DEF TypeOK
<1>6. TypeOK'
  BY <1>1, <1>2, <1>3, <1>4, <1>5 DEF TypeOK, credits
<1>7. Trying' /\ Owned'
  <2>1. \A a \in Batches, c \in Candidates : Owns(a, c)' => Owns(a, c)
    BY <1>1, <1>5 DEF Owns, Charged, credits
  <2>2. \A a \in Batches, c \in Candidates : Written(a, c) => Written(a, c)'
    BY <1>1, <1>4, <1>5 DEF Written
  <2>3. \A a \in Batches, c \in Candidates : Charged(a, c)' = Charged(a, c)
    BY <1>1 DEF Charged, credits
  <2>4. QED
    BY <1>1, <1>2, <1>5, <2>1, <2>2, <2>3, OwnedKeeps, TryingStays DEF IInv, Owned
<1>8. BatchInv(b)'
  <2>1. StartFits(b)' /\ RowFits(b)' /\ JobsFit(b)' /\ ReservationFits(b)'
    BY <1>1, <1>2, <1>3, <1>4 DEF StartFits, RowFits, JobsFit, ReservationFits, BatchInv, credits
  <2>2. CalmStart(b)'
    BY <1>1, <1>2, <1>3 DEF CalmStart, BatchInv, Absent, credits
  <2>3. CalmEnd(b)'
    BY <1>1, <1>2, <1>4 DEF CalmEnd, BatchInv, Passed, Quiet, Final
  <2>4. Covered(b)'
    BY <1>3, <1>5 DEF Covered
  <2>5. QED
    BY <2>1, <2>2, <2>3, <2>4 DEF BatchInv
<1>9. ASSUME NEW a \in Batches \ {b}
      PROVE  Apart(a)
  BY <1>1, <1>2, <1>3, <1>4, <1>5, GenerationAssumption DEF Apart, Charged, TypeOK, credits
<1>10. QED
  BY <1>6, <1>7, <1>8, <1>9, OthersApart

-----------------------------------------------------------------------------
\* The jobs

\* A job that changes nothing but its row and the status of its candidate
LEMMA JobKeeps ==
  ASSUME IInv, NEW b \in Batches, NEW c \in Candidates, NEW s \in Steps, NEW o, Moves(b, c, s, o),
         UNCHANGED <<draft, requests, credits, lock, clock>>,
         candidate' \in [Candidates -> CandidateStatuses], Owned',
         faults' \in 0 .. MaxFaults, faults' = 0 => faults = 0,
         NoReturn(b, c, s), job[b][c].step # "absent",
         s \notin {"absent", "unusing", "unlocking"}, s = "drafting" => o = "completed",
         ~Disturbed(b)' /\ draft[c] = b => Charged(b, c) \/ (s = "settling" /\ o = "completed")
  PROVE  IInv'
<1>1. TypeOK /\ Trying /\ BatchInv(b)
  BY DEF IInv
<1>2. TypeOK'
  BY <1>1 DEF TypeOK, Moves, requests, credits
<1>3. Trying'
  BY <1>1, MovesTry
<1>4. BatchInv(b)'
  <2>1. DraftsCovered(b, c, s, o)
    BY DEF DraftsCovered, Charged, credits
  <2>2. BatchStays(b)
    BY DEF BatchStays, requests, credits
  <2>3. ~Absent(b) /\ c \in members[b]
    BY <1>1 DEF Absent, BatchInv, JobsFit
  <2>4. QED
    BY <1>1, <1>2, <2>1, <2>2, <2>3, SlipKeeps
<1>5. ASSUME NEW a \in Batches \ {b}
      PROVE  Apart(a)
  BY <1>1, GenerationAssumption DEF Apart, Charged, Moves, TypeOK, requests, credits
<1>6. QED
  BY <1>2, <1>3, <1>4, <1>5, OthersApart

\* ... and takes no candidate
LEMMA MoveOwns ==
  ASSUME IInv, NEW b \in Batches, NEW c \in Candidates, NEW s \in Steps, NEW o, Moves(b, c, s, o),
         UNCHANGED <<draft, batch, settled>>,
         \A d \in Candidates : candidate[d] = "GENERATED" => candidate'[d] = "GENERATED",
         o = "completed" => job[b][c].result = "completed",
         s = "settling" => o # "completed", s # "absent"
  PROVE  Owned'
<1>1. Owned
  BY DEF IInv
<1>2. \A a \in Batches, d \in Candidates : Charged(a, d)' = Charged(a, d) /\ Written(a, d)' = Written(a, d)
  BY DEF Charged, Written
<1>3. \A a \in Batches, d \in Candidates : Owns(a, d)' => Owns(a, d)
  BY <1>2 DEF Owns, Moves
<1>4. ASSUME NEW a \in Batches, NEW d \in Candidates,
             \/ Charged(a, d)'
             \/ job'[a][d].step = "settling" /\ job'[a][d].result = "completed"
      PROVE  Written(a, d)'
  BY <1>1, <1>2, <1>4 DEF Moves, Owned
<1>5. \A a \in Batches, d \in Candidates : draft'[d] = a => job'[a][d].step # "absent"
  BY <1>1 DEF Moves, Owned
<1>6. QED
  BY <1>1, <1>3, <1>4, <1>5, OwnedKeeps

LEMMA CandidateStays ==
  ASSUME TypeOK, UNCHANGED candidate
  PROVE  candidate' \in [Candidates -> CandidateStatuses]
BY DEF TypeOK

LEMMA DraftFits ==
  ASSUME IInv, NEW b \in Batches, NEW c \in Candidates, draft[c] = b, ~Disturbed(b)',
         clock' = clock, expiresAt' = expiresAt, faults' = 0 => faults = 0,
         faults' \in 0 .. MaxFaults
  PROVE  Charged(b, c) \/ (job[b][c].step = "settling" /\ job[b][c].result = "completed")
<1>1. faults \in Nat /\ faults' \in Nat
  BY GenerationAssumption DEF IInv, TypeOK
<1>2. ~Disturbed(b)
  BY <1>1 DEF Disturbed
<1>3. QED
  BY <1>2 DEF IInv, BatchInv, Covered

LEMMA FaultsStay ==
  ASSUME TypeOK, faults' = faults
  PROVE  faults' \in 0 .. MaxFaults /\ (faults' = 0 => faults = 0)
BY DEF TypeOK

LEMMA LoadCandidateKeeps ==
  ASSUME IInv, NEW b \in Batches, NEW c \in Candidates, LoadCandidate(b, c)
  PROVE  IInv'
<1>1. /\ job[b][c].step = "waiting"
      /\ UNCHANGED <<candidate, draft, requests, credits, lock, faults, clock>>
  BY DEF LoadCandidate
<1>2. TypeOK /\ Trying
  BY DEF IInv
<1>3. PICK s \in {"checking", "closing"} : To(b, c, s)
  BY DEF LoadCandidate
<1>4. Moves(b, c, s, job[b][c].result)
  BY <1>1, <1>2, <1>3, Going DEF Steps
<1>5. Owned'
  BY <1>1, <1>3, <1>4, MoveOwns DEF Steps, requests, credits
<1>6. NoReturn(b, c, s)
  BY <1>1 DEF NoReturn, Past
<1>7. candidate' \in [Candidates -> CandidateStatuses]
  BY <1>1, <1>2, CandidateStays
<1>8. faults' \in 0 .. MaxFaults /\ (faults' = 0 => faults = 0)
  BY <1>1, <1>2, FaultsStay
<1>9. ~Disturbed(b)' /\ draft[c] = b => Charged(b, c)
  BY <1>1, <1>8, DraftFits DEF credits
<1>10. QED
  BY <1>1, <1>3, <1>4, <1>5, <1>6, <1>7, <1>8, <1>9, JobKeeps DEF Steps

\* Nobody owns a candidate that can still be processed.
LEMMA FreeCandidate ==
  ASSUME IInv, NEW c \in Candidates, candidate[c] \in Processable
  PROVE  \A a \in Batches : ~Owns(a, c)
BY DEF IInv, Owned, Processable, Generatable

LEMMA DecideKeeps ==
  ASSUME IInv, NEW b \in Batches, NEW c \in Candidates, Decide(b, c)
  PROVE  IInv'
<1>1. /\ job[b][c].step = "checking"
      /\ UNCHANGED <<draft, requests, credits, lock, faults, clock>>
  BY DEF Decide
<1>2. TypeOK /\ Trying /\ Owned
  BY DEF IInv
<1>3. PICK r \in {"completed", "skipped", "failed"} : Record(b, c, r)
  BY DEF Decide
<1>4. /\ candidate' \in [Candidates -> CandidateStatuses]
      /\ \A d \in Candidates : d # c => candidate'[d] = candidate[d]
      /\ \/ /\ candidate[c] \in Processable
            /\ candidate'[c] = StatusFor(r)
            /\ r = "completed" => Moves(b, c, "drafting", r)
            /\ r # "completed" => Moves(b, c, "settling", r)
         \/ /\ candidate[c] \notin Processable
            /\ candidate' = candidate
            /\ Moves(b, c, "closing", job[b][c].result)
  BY <1>1, <1>2, <1>3, Recording
<1>5. faults' \in 0 .. MaxFaults /\ (faults' = 0 => faults = 0)
  BY <1>1, <1>2, FaultsStay
<1>6. ~Disturbed(b)' /\ draft[c] = b => Charged(b, c)
  BY <1>1, <1>5, DraftFits DEF credits
<1>7. \A s : NoReturn(b, c, s)
  BY <1>1 DEF NoReturn, Past
<1>8. CASE candidate[c] \notin Processable
  <2>1. Owned'
    BY <1>1, <1>4, <1>8, MoveOwns DEF Steps, requests, credits
  <2>2. QED
    BY <1>1, <1>4, <1>5, <1>6, <1>7, <1>8, <2>1, JobKeeps DEF Steps
<1>9. CASE candidate[c] \in Processable /\ r # "completed"
  <2>1. candidate[c] # "GENERATED"
    BY <1>9 DEF Processable, Generatable
  <2>2. \A d \in Candidates : candidate[d] = "GENERATED" => candidate'[d] = "GENERATED"
    BY <1>4, <2>1
  <2>3. Owned'
    BY <1>1, <1>4, <1>9, <2>2, MoveOwns DEF Steps, requests, credits
  <2>4. QED
    BY <1>1, <1>4, <1>5, <1>6, <1>7, <1>9, <2>3, JobKeeps DEF Steps
<1>10. CASE candidate[c] \in Processable /\ r = "completed"
  <2>1. candidate'[c] = "GENERATED" /\ Moves(b, c, "drafting", "completed")
    BY <1>4, <1>10 DEF StatusFor
  <2>2. \A a \in Batches : ~Owns(a, c)
    BY <1>10, FreeCandidate
  <2>3. \A a \in Batches, d \in Candidates : Charged(a, d)' = Charged(a, d) /\ Written(a, d)' = Written(a, d)
    BY <1>1 DEF Charged, Written, requests, credits
  <2>4. \A a \in Batches, d \in Candidates : Owns(a, d)' => Owns(a, d) \/ (a = b /\ d = c)
    BY <1>1, <2>1, <2>3 DEF Owns, Moves
  <2>5. Owned'
    <3>1. ASSUME NEW a \in Batches, NEW d \in Candidates
          PROVE  /\ Owns(a, d)' => candidate'[d] = "GENERATED"
                 /\ Charged(a, d)' => Written(a, d)'
                 /\ job'[a][d].step = "settling" /\ job'[a][d].result = "completed" => Written(a, d)'
                 /\ draft'[d] = a => job'[a][d].step # "absent"
      <4>1. Owns(a, d)' => candidate'[d] = "GENERATED"
        BY <1>2, <1>4, <2>1, <2>4 DEF Owned
      <4>2. Charged(a, d)' => Written(a, d)'
        BY <1>2, <2>3 DEF Owned
      <4>3. job'[a][d].step = "settling" /\ job'[a][d].result = "completed" => Written(a, d)'
        BY <1>2, <2>1, <2>3 DEF Owned, Moves
      <4>4. draft'[d] = a => job'[a][d].step # "absent"
        BY <1>1, <1>2, <2>1 DEF Owned, Moves
      <4>5. QED
        BY <4>1, <4>2, <4>3, <4>4
    <3>2. ASSUME NEW a \in Batches, NEW e \in Batches, NEW d \in Candidates, Owns(a, d)', Owns(e, d)'
          PROVE  a = e
      BY <1>2, <2>2, <2>4, <3>2 DEF Owned
    <3>3. QED
      BY <3>1, <3>2 DEF Owned
  <2>6. draft[c] # b
    BY <2>2 DEF Owns
  <2>7. QED
    BY <1>1, <1>4, <1>5, <1>7, <2>1, <2>5, <2>6, JobKeeps DEF Steps
<1>11. QED
  BY <1>8, <1>9, <1>10

\* An exception of a transaction, thrown or met
LEMMA ThrowKeeps ==
  ASSUME IInv, NEW b \in Batches, NEW c \in Candidates, Throw(b, c),
         UNCHANGED <<draft, requests, credits, lock, clock>>,
         job[b][c].step \in Busy \cup {"waiting"},
         faults' \in 0 .. MaxFaults, faults' = 0 => faults = 0,
         faults' = 0 => /\ job[b][c].step \notin Past
                        /\ job[b][c].step = "counting" => batch[b].status # "IN_PROGRESS",
         ~Disturbed(b)' /\ draft[c] = b => Charged(b, c)
  PROVE  IInv'
<1>1. TypeOK /\ Trying
  BY DEF IInv
<1>2. job[b][c].step \notin {"dead", "absent"}
  BY DEF Busy
<1>3. /\ candidate' \in [Candidates -> CandidateStatuses]
      /\ \A d \in Candidates : d # c => candidate'[d] = candidate[d]
      /\ candidate'[c] # candidate[c] => candidate[c] \in Processable
  BY <1>1, <1>2, Throwing
<1>4. PICK s, o :
        /\ s \in {"settling", "closing", "waiting", "dead"}
        /\ Moves(b, c, s, o)
        /\ o = "completed" => job[b][c].result = "completed" /\ s = "closing"
  <2>1. \/ Moves(b, c, "settling", "failed")
        \/ Moves(b, c, "closing", job[b][c].result)
        \/ Moves(b, c, "waiting", "-")
        \/ Moves(b, c, "dead", "-")
    BY <1>1, <1>2, Throwing
  <2>2. QED
    BY <2>1
<1>5. \A d \in Candidates : candidate[d] = "GENERATED" => candidate'[d] = "GENERATED"
  BY <1>3 DEF Processable, Generatable
<1>6. Owned'
  BY <1>4, <1>5, MoveOwns DEF Steps, requests, credits
<1>7. NoReturn(b, c, s)
  BY DEF NoReturn, Past
<1>8. QED
  BY <1>2, <1>3, <1>4, <1>6, <1>7, JobKeeps DEF Steps

LEMMA JobThrowsKeeps ==
  ASSUME IInv, NEW b \in Batches, NEW c \in Candidates, JobThrows(b, c)
  PROVE  IInv'
<1>1. /\ job[b][c].step \in Busy \cup {"waiting"}
      /\ faults < MaxFaults /\ faults' = faults + 1
      /\ UNCHANGED <<draft, requests, credits, lock, clock>>
  BY DEF JobThrows
<1>2. TypeOK /\ Trying /\ BatchInv(b)
  BY DEF IInv
<1>3. faults' \in 0 .. MaxFaults /\ faults' # 0
  BY <1>1, <1>2, Faulting
<1>4. Disturbed(b)'
  BY <1>3, GenerationAssumption DEF Disturbed
<1>5. CASE Throw(b, c)
  BY <1>1, <1>3, <1>4, <1>5, ThrowKeeps
<1>6. CASE job[b][c].step = "unusing" /\ To(b, c, "unlocking") /\ UNCHANGED candidate
  <2>1. Moves(b, c, "unlocking", job[b][c].result)
    BY <1>2, <1>6, Going DEF Steps
  <2>2. TypeOK'
    BY <1>1, <1>2, <1>3, <1>6, <2>1 DEF TypeOK, Moves, requests, credits
  <2>3. Trying' /\ Owned'
    BY <1>1, <1>2, <1>6, <2>1, MovesTry, MoveOwns DEF Steps, requests, credits
  <2>4. BatchInv(b)'
    <3>1. StartFits(b)'
      BY <1>1, <1>2, <1>6, <2>1 DEF StartFits, BatchInv, Absent, Moves, requests, credits
    <3>2. RowFits(b)' /\ ReservationFits(b)'
      BY <1>1, <1>2 DEF RowFits, ReservationFits, BatchInv, requests, credits
    <3>3. JobsFit(b)'
      BY SMTT(40), <1>1, <1>2, <1>6, <2>1 DEF JobsFit, BatchInv, Moves, requests
    <3>4. CalmStart(b)' /\ CalmEnd(b)' /\ Covered(b)'
      BY <1>3, <1>4 DEF CalmStart, CalmEnd, Covered
    <3>5. QED
      BY <3>1, <3>2, <3>3, <3>4 DEF BatchInv
  <2>5. ASSUME NEW a \in Batches \ {b}
        PROVE  Apart(a)
    BY <1>1, <1>2, <1>3, <2>1, GenerationAssumption
       DEF Apart, Charged, Moves, TypeOK, requests, credits
  <2>6. QED
    BY <2>2, <2>3, <2>4, <2>5, OthersApart
<1>7. QED
  BY <1>5, <1>6 DEF JobThrows

LEMMA Stalling ==
  ASSUME NEW m \in JobRows, NEW t \in BOOLEAN, NEW r,
         r = [step |-> m.step, result |-> m.result, tries |-> m.tries, stalled |-> t]
  PROVE  r = [m EXCEPT !.stalled = t]
BY DEF JobRows

LEMMA JobCrashesKeeps ==
  ASSUME IInv, NEW b \in Batches, NEW c \in Candidates, JobCrashes(b, c)
  PROVE  IInv'
<1>1. /\ job[b][c].step \in Busy
      /\ faults < MaxFaults /\ faults' = faults + 1
      /\ UNCHANGED <<candidate, draft, requests, credits, lock, clock>>
      /\ job' = [job EXCEPT ![b][c].step = IF job[b][c].stalled THEN "dead" ELSE "waiting",
                            ![b][c].result = "-", ![b][c].stalled = TRUE]
  BY DEF JobCrashes
<1>2. TypeOK /\ Trying
  BY DEF IInv
<1>3. faults' \in 0 .. MaxFaults /\ faults' # 0
  BY <1>1, <1>2, Faulting
<1>4. Disturbed(b)'
  BY <1>3, GenerationAssumption DEF Disturbed
<1>5. PICK j \in JobRows : j = job[b][c]
  BY <1>2, JobIs
<1>6. PICK s \in {"waiting", "dead"} : s = IF j.stalled THEN "dead" ELSE "waiting"
  OBVIOUS
<1>7. PICK k : k = [step |-> s, result |-> j.result, tries |-> j.tries, stalled |-> j.stalled]
  OBVIOUS
<1>8. PICK m : m = [step |-> s, result |-> "-", tries |-> j.tries, stalled |-> j.stalled]
  OBVIOUS
<1>t. PICK t \in BOOLEAN : t = TRUE
  OBVIOUS
<1>9. PICK r : r = [step |-> s, result |-> "-", tries |-> j.tries, stalled |-> t]
  OBVIOUS
<1>10. k \in JobRows /\ m \in JobRows /\ r \in JobRows
  BY <1>7, <1>8, <1>9 DEF JobRows
<1>11. k = [j EXCEPT !.step = s]
  BY <1>7 DEF JobRows
<1>12. m = [k EXCEPT !.result = "-"]
  BY <1>7, <1>8, <1>10 DEF JobRows
<1>13. r = [m EXCEPT !.stalled = t]
  <2>1. r = [step |-> m.step, result |-> m.result, tries |-> m.tries, stalled |-> t]
    BY <1>8, <1>9
  <2>2. QED
    BY <1>10, <2>1, Stalling
<1>14. job' = [job EXCEPT ![b] = [@ EXCEPT ![c] = r]]
  <2>1. job \in [Batches -> [Candidates -> JobRows]]
    BY <1>2 DEF TypeOK
  <2>2. job' = [job EXCEPT ![b] = [@ EXCEPT ![c] =
                  [[[job[b][c] EXCEPT !.step = s] EXCEPT !.result = "-"] EXCEPT !.stalled = t]]]
    BY <1>1, <1>5, <1>6, <1>t, <2>1
  <2>3. QED
    BY <1>5, <1>11, <1>12, <1>13, <2>2
<1>15. r.step = s /\ r.result = "-" /\ r.tries < Attempts
  BY <1>1, <1>2, <1>5, <1>9 DEF Trying, Busy
<1>16. Moves(b, c, s, "-")
  <2>1. Moves(b, c, r.step, r.result)
    BY <1>2, <1>10, <1>14, <1>15, SettingJob
  <2>2. QED
    BY <1>15, <2>1
<1>17. Owned'
  BY <1>1, <1>16, MoveOwns DEF Steps, requests, credits
<1>18. NoReturn(b, c, s)
  BY <1>3 DEF NoReturn
<1>19. candidate' \in [Candidates -> CandidateStatuses]
  BY <1>1, <1>2, CandidateStays
<1>20. QED
  BY <1>1, <1>3, <1>4, <1>16, <1>17, <1>18, <1>19, JobKeeps DEF Steps, Busy

LEMMA CloseKeeps ==
  ASSUME IInv, NEW b \in Batches, NEW c \in Candidates, Close(b, c)
  PROVE  IInv'
<1>1. /\ job[b][c].step = "closing" /\ To(b, c, "done")
      /\ UNCHANGED <<candidate, draft, requests, credits, lock, faults, clock>>
  BY DEF Close
<1>2. TypeOK /\ Trying
  BY DEF IInv
<1>3. Moves(b, c, "done", job[b][c].result)
  BY <1>1, <1>2, Going DEF Steps
<1>4. Owned'
  BY <1>1, <1>3, MoveOwns DEF Steps, requests, credits
<1>5. NoReturn(b, c, "done")
  BY <1>1 DEF NoReturn, Past
<1>6. candidate' \in [Candidates -> CandidateStatuses]
  BY <1>1, <1>2, CandidateStays
<1>7. faults' \in 0 .. MaxFaults /\ (faults' = 0 => faults = 0)
  BY <1>1, <1>2, FaultsStay
<1>8. ~Disturbed(b)' /\ draft[c] = b => Charged(b, c)
  BY <1>1, <1>7, DraftFits DEF credits
<1>9. QED
  BY <1>1, <1>3, <1>4, <1>5, <1>6, <1>7, <1>8, JobKeeps DEF Steps

LEMMA WriteDraftKeeps ==
  ASSUME IInv, NEW b \in Batches, NEW c \in Candidates, WriteDraft(b, c)
  PROVE  IInv'
<1>1. /\ job[b][c].step = "drafting"
      /\ UNCHANGED <<requests, credits, lock, faults, clock>>
  BY DEF WriteDraft
<1>2. TypeOK /\ Trying /\ Owned /\ BatchInv(b)
  BY DEF IInv
<1>3. faults' \in 0 .. MaxFaults /\ (faults' = 0 => faults = 0)
  BY <1>1, <1>2, FaultsStay
<1>4. CASE batch[b].status = "DELETED" /\ Throw(b, c) /\ UNCHANGED draft
  <2>1. ~Disturbed(b)' /\ draft[c] = b => Charged(b, c)
    BY <1>1, <1>3, DraftFits DEF credits
  <2>2. QED
    BY <1>1, <1>3, <1>4, <2>1, ThrowKeeps DEF Busy, Past
<1>5. CASE /\ draft' = [draft EXCEPT ![c] = b]
           /\ To(b, c, "settling") /\ UNCHANGED candidate
  <2>1. job[b][c].result = "completed" /\ c \in members[b]
    BY <1>1, <1>2 DEF BatchInv, JobsFit
  <2>2. Moves(b, c, "settling", "completed")
    BY <1>1, <1>2, <1>5, <2>1, Going DEF Steps
  <2>3. /\ draft' \in [Candidates -> Batches \cup {None}] /\ draft'[c] = b
        /\ \A d \in Candidates : d # c => draft'[d] = draft[d]
    BY <1>2, <1>5 DEF TypeOK
  <2>4. TypeOK'
    BY <1>1, <1>2, <1>3, <1>5, <2>2, <2>3 DEF TypeOK, Moves, requests, credits
  <2>5. Owns(b, c) /\ \A a \in Batches : Owns(a, c) => a = b
    BY <1>2, <2>1 DEF Owns, Owned
  <2>6. Owned'
    <3>1. \A a \in Batches, d \in Candidates : Charged(a, d)' = Charged(a, d)
      BY <1>1 DEF Charged, credits
    <3>2. \A a \in Batches, d \in Candidates : Owns(a, d)' => Owns(a, d)
      BY <2>1, <2>2, <2>3, <3>1 DEF Owns, Moves
    <3>3. ASSUME NEW a \in Batches, NEW d \in Candidates,
                 \/ Charged(a, d)'
                 \/ job'[a][d].step = "settling" /\ job'[a][d].result = "completed"
          PROVE  Written(a, d)'
      <4>1. CASE d = c
        BY <2>3, <2>5, <3>2, <3>3, <4>1 DEF Owns, Written
      <4>2. CASE d # c
        BY <1>1, <1>2, <2>2, <2>3, <3>1, <3>3, <4>2 DEF Owned, Written, Moves, requests
      <4>3. QED
        BY <4>1, <4>2
    <3>4. ASSUME NEW a \in Batches, NEW d \in Candidates, draft'[d] = a
          PROVE  job'[a][d].step # "absent"
      BY <1>2, <2>2, <2>3, <3>4 DEF Owned, Moves
    <3>5. QED
      BY <1>2, <1>5, <3>2, <3>3, <3>4, OwnedKeeps
  <2>7. Trying'
    BY <1>2, <2>2, MovesTry
  <2>8. BatchInv(b)'
    <3>1. BatchStays(b)
      BY <1>1 DEF BatchStays, requests, credits
    <3>2. NoReturn(b, c, "settling")
      BY <1>1 DEF NoReturn, Past
    <3>3. DraftsCovered(b, c, "settling", "completed")
      BY <1>1, <2>3 DEF DraftsCovered, Charged, credits
    <3>4. ~Absent(b)
      BY <1>1 DEF Absent
    <3>5. QED
      BY <1>2, <2>1, <2>2, <2>4, <3>1, <3>2, <3>3, <3>4, SlipKeeps DEF Steps
  <2>9. ASSUME NEW a \in Batches \ {b}
        PROVE  Apart(a)
    BY <1>1, <1>2, <2>2, <2>3, GenerationAssumption
       DEF Apart, Charged, Moves, TypeOK, requests, credits
  <2>10. QED
    BY <2>4, <2>6, <2>7, <2>8, <2>9, OthersApart
<1>6. QED
  BY <1>4, <1>5 DEF WriteDraft

\* One credit of the reservation is consumed or given back.
LEMMA ResolvesOne ==
  ASSUME TypeOK, NEW b \in Batches, Account!ConsumeOne(b) \/ Account!ReleaseOne(b)
  PROVE  /\ reservation' \in [Batches -> Account!Reservations] /\ available' \in Nat
         /\ \A a \in Batches \ {b} : reservation'[a] = reservation[a]
         /\ reservation'[b].reserved = reservation[b].reserved
         /\ reservation'[b].consumed + reservation'[b].released
              = reservation[b].consumed + reservation[b].released + 1
         /\ reservation'[b].status \notin {"NONE", "ACTIVE"}
         /\ ReservationFits(b)'
<1>1. PICK r \in Account!Reservations : r = reservation[b]
  BY DEF TypeOK
<1>2. Account!Held(r) > 0 /\ Account!Held(r) \in Int
  BY <1>1 DEF Account!ConsumeOne, Account!ReleaseOne, Account!Reservations, Account!Held
<1>3. PICK x \in Nat, y \in Nat :
        /\ Account!ConsumeOne(b) => x = 1 /\ y = 0
        /\ Account!ReleaseOne(b) /\ ~Account!ConsumeOne(b) => x = 0 /\ y = 1
  OBVIOUS
<1>4. x + y = 1
  BY <1>3
<1>5. PICK m : m = Account!Settled(r, x, y)
  OBVIOUS
<1>6. reservation' = [reservation EXCEPT ![b] = m] /\ available' = available + y
  <2>1. CASE Account!ConsumeOne(b)
    <3>1. x = 1 /\ y = 0
      BY <1>3, <2>1
    <3>2. available' = available + y
      BY <2>1, <3>1 DEF Account!ConsumeOne, TypeOK
    <3>3. reservation' = [reservation EXCEPT ![b] = m]
      BY <1>1, <1>5, <2>1, <3>1 DEF Account!ConsumeOne
    <3>4. QED
      BY <3>2, <3>3
  <2>2. CASE ~Account!ConsumeOne(b)
    BY <1>1, <1>3, <1>5, <2>2 DEF Account!ReleaseOne
  <2>3. QED
    BY <2>1, <2>2
<1>7. /\ m \in Account!Reservations
      /\ m.reserved = r.reserved /\ m.consumed = r.consumed + x /\ m.released = r.released + y
      /\ m.consumed + m.released <= m.reserved
      /\ m.status \notin {"NONE", "ACTIVE", "EXPIRED"}
      /\ m.status = "CONSUMED" => m.consumed = m.reserved
      /\ m.status = "RELEASED" => m.released = m.reserved
  <2>1. x + y > 0 /\ x + y <= Account!Held(r)
    BY <1>2, <1>4
  <2>2. QED
    BY <1>5, <2>1, SettledFits
<1>8. /\ reservation' \in [Batches -> Account!Reservations] /\ reservation'[b] = m
      /\ \A a \in Batches \ {b} : reservation'[a] = reservation[a]
  BY <1>6, <1>7 DEF TypeOK
<1>9. r.consumed \in Nat /\ r.released \in Nat
  BY DEF Account!Reservations
<1>10. ReservationFits(b)'
  BY <1>7, <1>8 DEF ReservationFits
<1>11. available' \in Nat
  BY <1>6 DEF TypeOK
<1>12. m.consumed + m.released = r.consumed + r.released + 1
  BY <1>4, <1>7, <1>9
<1>13. QED
  BY <1>1, <1>7, <1>8, <1>10, <1>11, <1>12

\* While nothing disturbs batch b, a job that did not settle its outcome yet
\* finds a credit to settle it with, and the batch in progress.
LEMMA CreditLeft ==
  ASSUME IInv, NEW b \in Batches, NEW c \in Candidates,
         job[b][c].step \notin {"absent", "counting"} \cup Past
  PROVE  /\ c \in members[b] /\ c \notin Paid(b) /\ c \notin Passed(b)
         /\ faults = 0 => start[b] \in {"locked", "started"} /\ batch[b].status = "IN_PROGRESS"
         /\ ~Disturbed(b) => CanSettle(b)
<1>1. TypeOK /\ BatchInv(b)
  BY DEF IInv
<1>2. c \in members[b] /\ c \notin Paid(b) /\ c \notin Passed(b)
  BY <1>1 DEF BatchInv, JobsFit, Paid, Passed
<1>3. ~Absent(b)
  BY DEF Absent
<1>4. ASSUME faults = 0
      PROVE  start[b] \in {"locked", "started"} /\ batch[b].status = "IN_PROGRESS"
  <2>1. start[b] \in {"locked", "started"}
    BY <1>1, <1>3, <1>4 DEF BatchInv, StartFits, CalmStart, TypeOK, Starts
  <2>2. batch[b].status \notin Final
    BY <1>1, <1>2, <1>4 DEF BatchInv, CalmEnd
  <2>3. batch[b].status \in {"NONE", "IN_PROGRESS", "COMPLETED", "FAILED", "DELETED"}
    BY <1>1 DEF TypeOK, BatchRows
  <2>4. QED
    BY <1>1, <2>1, <2>2, <2>3 DEF BatchInv, StartFits, Final
<1>5. ASSUME ~Disturbed(b)
      PROVE  CanSettle(b)
  <2>1. faults = 0
    BY <1>1, <1>5, GenerationAssumption DEF TypeOK, Disturbed
  <2>2. /\ reservation[b].reserved = Cardinality(members[b])
        /\ reservation[b].consumed + reservation[b].released <= Cardinality(Paid(b))
    BY <1>1, <1>4, <1>5, <2>1 DEF BatchInv, Covered
  <2>3. Cardinality(Paid(b)) + 1 <= Cardinality(members[b])
    <3>1. Paid(b) \in SUBSET Candidates /\ members[b] \in SUBSET Candidates /\ Paid(b) \subseteq members[b]
      BY <1>1, MembersAre
    <3>2. QED
      BY <1>2, <3>1, CountGrows
  <2>4. Cardinality(Paid(b)) \in Nat /\ Cardinality(members[b]) \in Nat
    BY <1>1, MembersAre
  <2>5. reservation[b].consumed \in Nat /\ reservation[b].released \in Nat
    BY <1>1 DEF TypeOK, Account!Reservations
  <2>6. Account!Held(reservation[b]) > 0
    BY <2>2, <2>3, <2>4, <2>5 DEF Account!Held
  <2>7. QED
    BY <1>1, <2>6, HeldFacts DEF CanSettle, BatchInv
<1>6. QED
  BY <1>2, <1>4, <1>5

LEMMA SettleKeeps ==
  ASSUME IInv, NEW b \in Batches, NEW c \in Candidates, Settle(b, c)
  PROVE  IInv'
<1>1. /\ job[b][c].step = "settling"
      /\ UNCHANGED <<draft, requests, expiresAt, lock, faults, clock>>
  BY DEF Settle
<1>2. TypeOK /\ Trying /\ Owned /\ BatchInv(b)
  BY DEF IInv
<1>3. faults' \in 0 .. MaxFaults /\ (faults' = 0 => faults = 0)
  BY <1>1, <1>2, FaultsStay
<1>4. PICK k : k = SettleKey(b, c)
  OBVIOUS
<1>5. /\ k \in {"CONSUME", "RELEASE"} \X Batches \X Candidates
      /\ job[b][c].result = "completed" => k = <<"CONSUME", b, c>>
      /\ job[b][c].result # "completed" => k = <<"RELEASE", b, c>>
  BY <1>4 DEF SettleKey
<1>6. /\ c \in members[b] /\ c \notin Paid(b) /\ c \notin Passed(b)
      /\ faults = 0 => start[b] \in {"locked", "started"} /\ batch[b].status = "IN_PROGRESS"
      /\ ~Disturbed(b) => CanSettle(b)
  BY <1>1, CreditLeft DEF Past
<1>7. ~Disturbed(b)' => ~Disturbed(b)
  BY <1>1 DEF Disturbed
<1>8. ~Disturbed(b)' /\ draft[c] = b =>
        Charged(b, c) \/ job[b][c].result = "completed"
  BY <1>1, <1>3, DraftFits
<1>9. NoReturn(b, c, "counting")
  BY <1>1 DEF NoReturn, Past
<1>10. CASE /\ k \in settled /\ To(b, c, "counting")
            /\ UNCHANGED <<candidate, available, reservation, settled>>
  <2>1. Moves(b, c, "counting", job[b][c].result)
    BY <1>1, <1>2, <1>10, Going DEF Steps
  <2>2. Owned'
    BY <1>1, <1>10, <2>1, MoveOwns DEF Steps, requests
  <2>3. job[b][c].result = "completed" => Charged(b, c)
    BY <1>5, <1>10 DEF Charged
  <2>4. candidate' \in [Candidates -> CandidateStatuses]
    BY <1>2, <1>10, CandidateStays
  <2>5. QED
    BY <1>1, <1>3, <1>8, <1>9, <1>10, <2>1, <2>2, <2>3, <2>4, JobKeeps DEF Steps, credits
<1>11. CASE /\ ~CanSettle(b) /\ Throw(b, c) /\ UNCHANGED <<available, reservation, settled>>
  BY <1>1, <1>3, <1>6, <1>7, <1>11, ThrowKeeps DEF Busy, Past, credits
<1>12. CASE /\ \/ job[b][c].result = "completed" /\ Account!ConsumeOne(b)
               \/ job[b][c].result # "completed" /\ Account!ReleaseOne(b)
            /\ settled' = settled \cup {k}
            /\ To(b, c, "counting") /\ UNCHANGED candidate
  <2>1. Moves(b, c, "counting", job[b][c].result)
    BY <1>1, <1>2, <1>12, Going DEF Steps
  <2>2. /\ reservation' \in [Batches -> Account!Reservations] /\ available' \in Nat
        /\ \A a \in Batches \ {b} : reservation'[a] = reservation[a]
        /\ reservation'[b].reserved = reservation[b].reserved
        /\ reservation'[b].consumed + reservation'[b].released
             = reservation[b].consumed + reservation[b].released + 1
        /\ reservation'[b].status # "NONE"
        /\ ReservationFits(b)'
    BY <1>2, <1>12, ResolvesOne
  <2>3. TypeOK'
    BY <1>1, <1>2, <1>5, <1>12, <2>1, <2>2 DEF TypeOK, Moves, requests
  <2>4. \A a \in Batches, d \in Candidates :
          Charged(a, d)' <=> \/ Charged(a, d)
                             \/ a = b /\ d = c /\ job[b][c].result = "completed"
    BY <1>5, <1>12 DEF Charged
  <2>5. Trying'
    BY <1>2, <2>1, MovesTry
  <2>6. Owned'
    <3>1. \A a \in Batches, d \in Candidates : Written(a, d)' = Written(a, d)
      BY <1>1 DEF Written, requests
    <3>2. \A a \in Batches, d \in Candidates : Owns(a, d)' => Owns(a, d)
      BY <1>1, <2>1, <2>4 DEF Owns, Moves
    <3>3. ASSUME NEW a \in Batches, NEW d \in Candidates,
                 \/ Charged(a, d)'
                 \/ job'[a][d].step = "settling" /\ job'[a][d].result = "completed"
          PROVE  Written(a, d)'
      BY <1>1, <1>2, <2>1, <2>4, <3>1, <3>3 DEF Owned, Moves
    <3>4. \A a \in Batches, d \in Candidates : draft'[d] = a => job'[a][d].step # "absent"
      BY <1>1, <1>2, <2>1 DEF Owned, Moves
    <3>5. QED
      BY <1>2, <1>12, <3>2, <3>3, <3>4, OwnedKeeps
  <2>7. BatchInv(b)'
    <3>1. ~Absent(b) /\ ~Absent(b)'
      BY <1>1, <2>1 DEF Absent, Moves
    <3>2. start[b] \notin {"idle", "created", "reserved"}
      BY <1>2, <3>1 DEF BatchInv, StartFits
    <3>3. StartFits(b)'
      BY <1>1, <1>2, <3>2 DEF StartFits, BatchInv, requests
    <3>4. RowFits(b)'
      BY <1>1, <1>2 DEF RowFits, BatchInv, requests
    <3>5. JobsFit(b)'
      BY <1>1, <1>2, <2>1 DEF JobsFit, BatchInv, Moves, requests
    <3>6. CalmStart(b)'
      BY <1>1, <1>6, <3>1 DEF CalmStart, requests
    <3>7. members[b] \subseteq Candidates
      BY <1>2 DEF TypeOK
    <3>8. CalmEnd(b)'
      <4>1. Passed(b)' = Passed(b)
        BY <1>1, <2>1, <3>7 DEF Passed, Past, Moves, requests
      <4>2. QED
        BY <1>1, <1>2, <1>6, <4>1 DEF CalmEnd, BatchInv, Final, requests
    <3>9. Covered(b)'
      <4>1. ASSUME ~Disturbed(b)', start'[b] \in {"reserved", "locked", "started"},
                   batch'[b].status = "IN_PROGRESS"
            PROVE  /\ reservation'[b].reserved = Cardinality(members'[b])
                   /\ reservation'[b].consumed + reservation'[b].released <= Cardinality(Paid(b)')
        <5>1. /\ reservation[b].reserved = Cardinality(members[b])
              /\ reservation[b].consumed + reservation[b].released <= Cardinality(Paid(b))
          BY <1>1, <1>2, <1>7, <4>1 DEF Covered, BatchInv, requests
        <5>2. Paid(b) \subseteq Paid(b)' /\ c \in Paid(b)' \ Paid(b)
          BY <1>1, <1>6, <2>1, <3>7 DEF Paid, Moves, requests
        <5>3. Paid(b) \in SUBSET Candidates /\ Paid(b)' \in SUBSET Candidates
          BY <1>1, <3>7 DEF Paid, requests
        <5>4. Cardinality(Paid(b)) + 1 <= Cardinality(Paid(b)')
          BY <5>2, <5>3, CountGrows
        <5>5. Cardinality(Paid(b)) \in Nat /\ Cardinality(Paid(b)') \in Nat
          BY <5>3, CandidatesFinite
        <5>6. reservation[b].consumed \in Nat /\ reservation[b].released \in Nat
          BY <1>2 DEF TypeOK, Account!Reservations
        <5>7. QED
          BY <1>1, <2>2, <5>1, <5>4, <5>5, <5>6 DEF requests
      <4>2. ASSUME ~Disturbed(b)', NEW d \in Candidates, draft'[d] = b
            PROVE  Charged(b, d)' \/ (job'[b][d].step = "settling" /\ job'[b][d].result = "completed")
        <5>1. CASE d = c
          BY <1>1, <1>8, <2>4, <4>2, <5>1
        <5>2. CASE d # c
          BY <1>1, <1>2, <1>7, <2>1, <2>4, <4>2, <5>2 DEF Covered, BatchInv, Moves
        <5>3. QED
          BY <5>1, <5>2
      <4>3. QED
        BY <4>1, <4>2 DEF Covered
    <3>10. QED
      BY <2>2, <3>3, <3>4, <3>5, <3>6, <3>8, <3>9 DEF BatchInv
  <2>8. ASSUME NEW a \in Batches \ {b}
        PROVE  Apart(a)
    BY <1>1, <1>2, <2>1, <2>2, <2>4, GenerationAssumption DEF Apart, Moves, TypeOK, requests
  <2>9. QED
    BY <2>3, <2>5, <2>6, <2>7, <2>8, OthersApart
<1>13. QED
  BY <1>4, <1>10, <1>11, <1>12 DEF Settle

\* The status of a batch is final once an outcome of each candidate was counted.
LEMMA StatusOf ==
  ASSUME NEW completed \in Nat, NEW failed \in Nat, NEW total \in Nat,
         NEW s, s = FinalStatus(completed, failed, total)
  PROVE  /\ completed < total => s = "IN_PROGRESS"
         /\ completed >= total => s \in Final
BY DEF FinalStatus, Final

LEMMA CountKeeps ==
  ASSUME IInv, NEW b \in Batches, NEW c \in Candidates, Count(b, c)
  PROVE  IInv'
<1>1. /\ job[b][c].step = "counting"
      /\ UNCHANGED <<draft, members, start, credits, lock, faults, clock>>
  BY DEF Count
<1>2. TypeOK /\ Trying /\ Owned /\ BatchInv(b)
  BY DEF IInv
<1>3. faults' \in 0 .. MaxFaults /\ (faults' = 0 => faults = 0)
  BY <1>1, <1>2, FaultsStay
<1>4. ~Disturbed(b)' /\ draft[c] = b => Charged(b, c)
  BY <1>1, <1>3, DraftFits DEF credits
<1>5. CASE /\ batch[b].status \in Final /\ To(b, c, "closing") /\ UNCHANGED <<candidate, batch>>
  <2>1. Moves(b, c, "closing", job[b][c].result)
    BY <1>1, <1>2, <1>5, Going DEF Steps
  <2>2. Owned'
    BY <1>1, <1>5, <2>1, MoveOwns DEF Steps, credits
  <2>3. NoReturn(b, c, "closing")
    BY <1>1 DEF NoReturn, Past
  <2>4. candidate' \in [Candidates -> CandidateStatuses]
    BY <1>2, <1>5, CandidateStays
  <2>5. QED
    BY <1>1, <1>3, <1>4, <1>5, <2>1, <2>2, <2>3, <2>4, JobKeeps DEF Steps, requests
<1>6. CASE batch[b].status = "DELETED" /\ Throw(b, c) /\ UNCHANGED batch
  BY <1>1, <1>3, <1>4, <1>6, ThrowKeeps DEF Busy, Past, requests
<1>7. ASSUME NEW completed, NEW failed, NEW status,
             completed = batch[b].completed + 1,
             failed = batch[b].failed + IF job[b][c].result = "failed" THEN 1 ELSE 0,
             status = FinalStatus(completed, failed, Cardinality(members[b])),
             InProgress(b),
             batch' = [batch EXCEPT ![b] =
                         [status |-> status, completed |-> completed, failed |-> failed]],
             To(b, c, IF status = "IN_PROGRESS" THEN "closing" ELSE "unusing"),
             UNCHANGED candidate
      PROVE  IInv'
  <2>1. batch[b].status = "IN_PROGRESS"
    BY <1>7 DEF InProgress
  <2>2. PICK s \in {"closing", "unusing"} : s = IF status = "IN_PROGRESS" THEN "closing" ELSE "unusing"
    OBVIOUS
  <2>3. Moves(b, c, s, job[b][c].result)
    BY <1>1, <1>2, <1>7, <2>2, Going DEF Steps
  <2>4. PICK n \in Nat, m \in Nat :
          n = Cardinality(members[b]) /\ m = Cardinality(Candidates) /\ n <= m
    BY <1>2, MembersAre, CandidatesFinite
  <2>5. /\ completed \in Nat /\ failed \in Nat /\ failed <= completed /\ completed <= n
        /\ completed = batch[b].completed + 1 /\ batch[b].completed \in Nat
    <3>1. PICK x \in Nat, y \in Nat : x = batch[b].completed /\ y = batch[b].failed
      BY <1>2 DEF TypeOK, BatchRows
    <3>2. y <= x /\ x < n
      BY <1>2, <2>1, <2>4, <3>1 DEF BatchInv, RowFits
    <3>3. PICK z \in {0, 1} : z = IF job[b][c].result = "failed" THEN 1 ELSE 0
      OBVIOUS
    <3>4. completed = x + 1 /\ failed = y + z
      BY <1>7, <3>1, <3>3
    <3>5. QED
      BY <3>1, <3>2, <3>4
  <2>6. /\ completed < n => status = "IN_PROGRESS"
        /\ completed >= n => status \in Final
    BY <1>7, <2>4, <2>5, StatusOf
  <2>7. PICK r : r = [status |-> status, completed |-> completed, failed |-> failed]
    OBVIOUS
  <2>8. r \in BatchRows /\ r.status = status /\ r.completed = completed /\ r.failed = failed
    BY <2>4, <2>5, <2>6, <2>7 DEF BatchRows, Final
  <2>9. /\ batch' \in [Batches -> BatchRows] /\ batch'[b] = r
        /\ \A a \in Batches \ {b} : batch'[a] = batch[a]
    BY <1>2, <1>7, <2>7, <2>8 DEF TypeOK
  <2>10. TypeOK'
    BY <1>1, <1>2, <1>3, <1>7, <2>3, <2>9 DEF TypeOK, Moves, credits
  <2>11. Trying'
    BY <1>2, <2>3, MovesTry
  <2>12. Owned'
    <3>1. \A a \in Batches, d \in Candidates : Charged(a, d)' = Charged(a, d)
      BY <1>1 DEF Charged, credits
    <3>2. \A a \in Batches, d \in Candidates : Written(a, d) => Written(a, d)'
      BY <1>1, <2>1, <2>9 DEF Written
    <3>3. \A a \in Batches, d \in Candidates : Owns(a, d)' => Owns(a, d)
      BY <1>1, <2>3, <3>1 DEF Owns, Moves
    <3>4. ASSUME NEW a \in Batches, NEW d \in Candidates,
                 \/ Charged(a, d)'
                 \/ job'[a][d].step = "settling" /\ job'[a][d].result = "completed"
          PROVE  Written(a, d)'
      BY <1>2, <2>3, <3>1, <3>2, <3>4 DEF Owned, Moves
    <3>5. \A a \in Batches, d \in Candidates : draft'[d] = a => job'[a][d].step # "absent"
      BY <1>1, <1>2, <2>3 DEF Owned, Moves
    <3>6. QED
      BY <1>2, <1>7, <3>3, <3>4, <3>5, OwnedKeeps
  <2>13. /\ c \in members[b] /\ members[b] \subseteq Candidates
         /\ \A d \in Candidates : job[b][d].step \notin {"unusing", "unlocking"}
    BY <1>1, <1>2, <2>1 DEF BatchInv, JobsFit, TypeOK
  <2>14. /\ Passed(b) \subseteq Passed(b)' /\ c \in Passed(b)' \ Passed(b)
         /\ Passed(b)' \subseteq members[b]
    BY <1>1, <2>3, <2>13 DEF Passed, Past, Moves
  <2>15. Cardinality(Passed(b)) + 1 <= Cardinality(Passed(b)')
    <3>1. Passed(b) \in SUBSET Candidates /\ Passed(b)' \in SUBSET Candidates
      BY <1>1, <2>13 DEF Passed
    <3>2. QED
      BY <2>14, <3>1, CountGrows
  <2>16. BatchInv(b)'
    <3>1. ~Absent(b) /\ ~Absent(b)'
      BY <1>1, <2>3 DEF Absent, Moves
    <3>2. start[b] \notin {"idle", "created", "reserved"}
      BY <1>2, <3>1 DEF BatchInv, StartFits
    <3>3. status \in {"IN_PROGRESS"} \cup Final
      BY <2>4, <2>5, <2>6
    <3>4. StartFits(b)'
      BY <1>1, <1>2, <2>8, <2>9, <3>2, <3>3 DEF StartFits, BatchInv, Final
    <3>5. RowFits(b)'
      <4>1. status = "IN_PROGRESS" => completed < n
        BY <2>4, <2>5, <2>6 DEF Final
      <4>2. QED
        BY <1>1, <2>4, <2>5, <2>8, <2>9, <3>2, <4>1 DEF RowFits
    <3>6. ReservationFits(b)'
      BY <1>1, <1>2 DEF ReservationFits, BatchInv, credits
    <3>7. JobsFit(b)'
      <4>1. \A d \in Candidates : job'[b][d].step \in {"unusing", "unlocking"} => d = c /\ s = "unusing"
        BY <2>3, <2>13 DEF Moves
      <4>2. s = "unusing" => batch'[b].status # "IN_PROGRESS"
        BY <2>2, <2>8, <2>9
      <4>3. QED
        BY <1>1, <1>2, <2>3, <2>13, <4>1, <4>2 DEF JobsFit, BatchInv, Moves
    <3>8. CalmStart(b)'
      BY <1>1, <1>2, <3>1 DEF CalmStart, BatchInv, credits
    <3>9. CalmEnd(b)'
      <4>1. ASSUME faults' = 0
            PROVE  batch'[b].completed <= Cardinality(Passed(b)')
        <5>1. batch[b].completed <= Cardinality(Passed(b))
          BY <1>1, <1>2, <4>1 DEF BatchInv, CalmEnd
        <5>2. Cardinality(Passed(b)) \in Nat /\ Cardinality(Passed(b)') \in Nat
          BY <1>2, <2>13, <2>14, MembersAre, CandidatesFinite
        <5>3. QED
          BY <2>5, <2>8, <2>9, <2>15, <5>1, <5>2
      <4>2. ASSUME faults' = 0, batch'[b].status \in Final
            PROVE  members[b] \subseteq Passed(b)' /\ s = "unusing"
        <5>1. ~(completed < n) /\ s = "unusing"
          BY <2>2, <2>6, <2>8, <2>9, <4>2 DEF Final
        <5>2. completed = n
          BY <2>4, <2>5, <5>1
        <5>3. Passed(b)' \in SUBSET Candidates /\ members[b] \in SUBSET Candidates
          BY <2>13, <2>14
        <5>4. Cardinality(Passed(b)') <= n /\ Cardinality(Passed(b)') \in Nat
          BY <2>4, <2>14, <5>3, CountGrows, CandidatesFinite
        <5>5. Cardinality(Passed(b)') = Cardinality(members[b])
          BY <2>4, <2>8, <2>9, <4>1, <4>2, <5>2, <5>4
        <5>6. Passed(b)' = members[b]
          BY <2>14, <5>3, <5>5, CountGrows
        <5>7. QED
          BY <5>1, <5>6
      <4>3. s = "unusing" => job'[b][c].step = "unusing" /\ ~Quiet(b)'
        BY <2>3 DEF Quiet, Moves
      <4>4. QED
        BY <1>1, <4>1, <4>2, <4>3 DEF CalmEnd
    <3>10. Covered(b)'
      <4>1. ~Disturbed(b)' => ~Disturbed(b)
        BY <1>1 DEF Disturbed, credits
      <4>2. Paid(b)' = Paid(b)
        BY <1>1, <2>3, <2>13 DEF Paid, Past, Moves
      <4>3. ASSUME ~Disturbed(b)', NEW d \in Candidates, draft'[d] = b
            PROVE  Charged(b, d)' \/ (job'[b][d].step = "settling" /\ job'[b][d].result = "completed")
        <5>1. Charged(b, d)' = Charged(b, d)
          BY <1>1 DEF Charged, credits
        <5>2. CASE d = c
          BY <1>1, <1>4, <4>3, <5>1, <5>2
        <5>3. CASE d # c
          BY <1>1, <1>2, <2>3, <4>1, <4>3, <5>1, <5>3 DEF Covered, BatchInv, Moves
        <5>4. QED
          BY <5>2, <5>3
      <4>4. QED
        BY <1>1, <1>2, <2>1, <4>1, <4>2, <4>3 DEF Covered, BatchInv, credits
    <3>11. QED
      BY <3>4, <3>5, <3>6, <3>7, <3>8, <3>9, <3>10 DEF BatchInv
  <2>17. ASSUME NEW a \in Batches \ {b}
         PROVE  Apart(a)
    BY <1>1, <1>2, <2>3, <2>9, GenerationAssumption DEF Apart, Charged, Moves, TypeOK, credits
  <2>18. QED
    BY <2>10, <2>11, <2>12, <2>16, <2>17, OthersApart
<1>8. QED
  BY <1>5, <1>6, <1>7 DEF Count

\* What is unused is given back: then the reservation holds nothing.
LEMMA UnusedFits ==
  ASSUME TypeOK, NEW b \in Batches, Account!ReleaseUnused(b)
  PROVE  /\ reservation' \in [Batches -> Account!Reservations] /\ available' \in Nat
         /\ \A a \in Batches \ {b} : reservation'[a] = reservation[a]
         /\ Account!Held(reservation'[b]) = 0
         /\ reservation'[b].status \notin {"NONE", "ACTIVE"}
         /\ ReservationFits(b)'
<1>1. PICK r \in Account!Reservations : r = reservation[b]
  BY DEF TypeOK
<1>2. Account!Held(r) > 0 /\ Account!Held(r) \in Int
  BY <1>1 DEF Account!ReleaseUnused, Account!Reservations, Account!Held
<1>3. PICK h \in Nat : h = Account!Held(r) /\ h > 0
  BY <1>2
<1>4. PICK m : m = Account!Settled(r, 0, h)
  OBVIOUS
<1>5. reservation' = [reservation EXCEPT ![b] = m] /\ available' = available + h
  BY <1>1, <1>3, <1>4 DEF Account!ReleaseUnused
<1>6. /\ m \in Account!Reservations
      /\ m.reserved = r.reserved /\ m.consumed = r.consumed + 0 /\ m.released = r.released + h
      /\ Account!Held(m) = Account!Held(r) - (0 + h)
      /\ m.consumed + m.released <= m.reserved
      /\ m.status \notin {"NONE", "ACTIVE", "EXPIRED"}
      /\ m.status = "CONSUMED" => m.consumed = m.reserved
      /\ m.status = "RELEASED" => m.released = m.reserved
  <2>1. PICK z \in Nat : z = 0
    OBVIOUS
  <2>2. z + h > 0 /\ z + h <= Account!Held(r) /\ m = Account!Settled(r, z, h)
    BY <1>3, <1>4, <2>1
  <2>3. /\ m \in Account!Reservations
        /\ m.reserved = r.reserved /\ m.consumed = r.consumed + z /\ m.released = r.released + h
        /\ Account!Held(m) = Account!Held(r) - (z + h)
        /\ m.consumed + m.released <= m.reserved
        /\ m.status \notin {"NONE", "ACTIVE", "EXPIRED"}
        /\ m.status = "CONSUMED" => m.consumed = m.reserved
        /\ m.status = "RELEASED" => m.released = m.reserved
    BY <2>2, SettledFits
  <2>4. QED
    BY <2>1, <2>3
<1>7. /\ reservation' \in [Batches -> Account!Reservations] /\ reservation'[b] = m
      /\ \A a \in Batches \ {b} : reservation'[a] = reservation[a]
  BY <1>5, <1>6 DEF TypeOK
<1>8. Account!Held(m) = 0
  BY <1>3, <1>6
<1>9. available' \in Nat
  BY <1>5 DEF TypeOK
<1>10. ReservationFits(b)'
  BY <1>6, <1>7 DEF ReservationFits
<1>11. QED
  BY <1>6, <1>7, <1>8, <1>9, <1>10

\* Who completes a batch completed it; the batch is not in progress any more.
LEMMA Completing ==
  ASSUME IInv, NEW b \in Batches, NEW c \in Candidates, job[b][c].step \in {"unusing", "unlocking"}
  PROVE  /\ batch[b].status # "IN_PROGRESS" /\ c \in members[b] /\ members[b] \subseteq Candidates
         /\ \A d \in Candidates : job[b][d].step \in {"unusing", "unlocking"} => d = c
         /\ start[b] \notin {"idle", "created", "reserved"} /\ ~Absent(b)
BY DEF IInv, BatchInv, JobsFit, StartFits, Absent, TypeOK

\* The completion goes on to its next step, or is over.
LEMMA CompletionKeeps ==
  ASSUME IInv, NEW b \in Batches, NEW c \in Candidates,
         NEW s \in {"unlocking", "closing"}, Moves(b, c, s, job[b][c].result),
         job[b][c].step \in {"unusing", "unlocking"},
         UNCHANGED <<candidate, draft, requests, expiresAt, settled, faults, clock>>,
         reservation' \in [Batches -> Account!Reservations], available' \in Nat,
         \A a \in Batches \ {b} : reservation'[a] = reservation[a],
         ReservationFits(b)', reservation[b].status = "NONE" <=> reservation'[b].status = "NONE",
         Account!Held(reservation[b]) = 0 => Account!Held(reservation'[b]) = 0,
         s = "unlocking" => Account!Held(reservation'[b]) = 0,
         lock' \in {NoLock} \cup LockRows,
         \A a \in Batches : HeldBy(lock', a) => HeldBy(lock, a),
         s = "closing" => job[b][c].step = "unlocking" /\ ~HeldBy(lock', b)
  PROVE  IInv'
<1>1. TypeOK /\ Trying /\ Owned /\ BatchInv(b)
  BY DEF IInv
<1>2. /\ batch[b].status # "IN_PROGRESS" /\ c \in members[b] /\ members[b] \subseteq Candidates
      /\ \A d \in Candidates : job[b][d].step \in {"unusing", "unlocking"} => d = c
      /\ start[b] \notin {"idle", "created", "reserved"} /\ ~Absent(b)
  BY Completing
<1>3. TypeOK'
  BY <1>1 DEF TypeOK, Moves, requests
<1>4. Trying' /\ Owned'
  BY <1>1, MovesTry, MoveOwns DEF Steps, requests
<1>5. BatchInv(b)'
  <2>1. ~Absent(b)'
    BY DEF Absent, Moves
  <2>2. StartFits(b)'
    BY <1>1, <1>2 DEF StartFits, BatchInv, requests
  <2>3. RowFits(b)'
    BY <1>1 DEF RowFits, BatchInv, requests
  <2>4. JobsFit(b)'
    <3>1. \A d \in Candidates : job'[b][d].step \in {"unusing", "unlocking"} => d = c
      BY <1>2 DEF Moves
    <3>2. QED
      BY <1>1, <1>2, <3>1 DEF JobsFit, BatchInv, Moves, requests
  <2>5. CalmStart(b)'
    BY <1>1, <1>2, <2>1 DEF CalmStart, BatchInv, requests
  <2>6. CalmEnd(b)'
    <3>1. Passed(b)' = Passed(b)
      BY <1>2 DEF Passed, Past, Moves, requests
    <3>2. ASSUME faults = 0, batch[b].status \in Final
          PROVE  Account!Held(reservation'[b]) = 0
      <4>1. CASE s = "unlocking"
        BY <4>1
      <4>2. CASE s = "closing"
        <5>1. \A d \in Candidates : job[b][d].step # "unusing"
          BY <1>2, <4>2
        <5>2. QED
          BY <1>1, <3>2, <5>1 DEF BatchInv, CalmEnd
      <4>3. QED
        BY <4>1, <4>2
    <3>3. Quiet(b)' => ~HeldBy(lock', b)
      BY DEF Quiet, Moves
    <3>4. QED
      BY <1>1, <3>1, <3>2, <3>3 DEF CalmEnd, BatchInv, requests
  <2>7. Covered(b)'
    <3>1. \A d \in Candidates : Charged(b, d)' = Charged(b, d)
      BY DEF Charged
    <3>2. QED
      BY <1>1, <1>2, <3>1 DEF Covered, BatchInv, Disturbed, Moves, requests
  <2>8. QED
    BY <2>2, <2>3, <2>4, <2>5, <2>6, <2>7 DEF BatchInv
<1>6. ASSUME NEW a \in Batches \ {b}
      PROVE  Apart(a)
  BY <1>1, GenerationAssumption DEF Apart, Charged, Moves, TypeOK, requests
<1>7. QED
  BY <1>3, <1>4, <1>5, <1>6, OthersApart

LEMMA ReleaseUnusedKeeps ==
  ASSUME IInv, NEW b \in Batches, NEW c \in Candidates, ReleaseUnused(b, c)
  PROVE  IInv'
<1>1. /\ job[b][c].step = "unusing" /\ To(b, c, "unlocking")
      /\ UNCHANGED <<candidate, draft, requests, expiresAt, settled, lock, faults, clock>>
  BY DEF ReleaseUnused
<1>2. TypeOK /\ Trying /\ BatchInv(b)
  BY DEF IInv
<1>3. Moves(b, c, "unlocking", job[b][c].result)
  BY <1>1, <1>2, Going DEF Steps
<1>4. lock' \in {NoLock} \cup LockRows /\ lock' = lock
  BY <1>1, <1>2 DEF TypeOK
<1>5. CASE Account!ReleaseUnused(b)
  <2>1. /\ reservation' \in [Batches -> Account!Reservations] /\ available' \in Nat
        /\ \A a \in Batches \ {b} : reservation'[a] = reservation[a]
        /\ Account!Held(reservation'[b]) = 0 /\ reservation'[b].status # "NONE"
        /\ ReservationFits(b)'
    BY <1>2, <1>5, UnusedFits
  <2>2. reservation[b].status # "NONE"
    BY <1>5 DEF Account!ReleaseUnused, Account!Settleable
  <2>3. QED
    BY <1>1, <1>3, <1>4, <2>1, <2>2, CompletionKeeps
<1>6. CASE ~CanSettle(b) /\ UNCHANGED <<available, reservation>>
  <2>1. Account!Held(reservation[b]) = 0
    <3>1. ASSUME Account!Held(reservation[b]) # 0
          PROVE  FALSE
      BY <1>2, <1>6, <3>1, HeldFacts DEF CanSettle, BatchInv
    <3>2. QED
      BY <3>1
  <2>2. ReservationFits(b)' /\ available' \in Nat
        /\ reservation' \in [Batches -> Account!Reservations]
    BY <1>2, <1>6 DEF ReservationFits, BatchInv, TypeOK
  <2>3. QED
    BY <1>1, <1>3, <1>4, <1>6, <2>1, <2>2, CompletionKeeps
<1>7. QED
  BY <1>5, <1>6 DEF ReleaseUnused

LEMMA UnlockKeeps ==
  ASSUME IInv, NEW b \in Batches, NEW c \in Candidates, Unlock(b, c)
  PROVE  IInv'
<1>1. /\ job[b][c].step = "unlocking" /\ To(b, c, "closing")
      /\ lock' = Released(lock, b, clock)
      /\ UNCHANGED <<candidate, draft, requests, credits, faults, clock>>
  BY DEF Unlock
<1>2. TypeOK /\ Trying /\ BatchInv(b)
  BY DEF IInv
<1>3. Moves(b, c, "closing", job[b][c].result)
  BY <1>1, <1>2, Going DEF Steps
<1>4. /\ lock' \in {NoLock} \cup LockRows /\ ~HeldBy(lock', b)
      /\ \A a \in Batches : HeldBy(lock', a) => HeldBy(lock, a)
  <2>1. lock \in {NoLock} \cup LockRows /\ clock \in Nat
    BY <1>2, GenerationAssumption DEF TypeOK
  <2>2. QED
    BY <1>1, <2>1, ReleasedFits
<1>5. ReservationFits(b)' /\ available' \in Nat
      /\ reservation' \in [Batches -> Account!Reservations]
  BY <1>1, <1>2 DEF ReservationFits, BatchInv, TypeOK, credits
<1>6. QED
  BY <1>1, <1>3, <1>4, <1>5, CompletionKeeps DEF credits

-----------------------------------------------------------------------------
\* The reaper and the clock

LEMMA ExpireReservationKeeps ==
  ASSUME IInv, NEW b \in Batches, ExpireReservation(b)
  PROVE  IInv'
<1>1. /\ expiresAt[b] < clock /\ Account!CloseReleased(b, "RELEASED")
      /\ UNCHANGED <<candidate, draft, requests, job, expiresAt, settled, lock, faults, clock>>
  BY DEF ExpireReservation
<1>2. TypeOK /\ BatchInv(b)
  BY DEF IInv
<1>3. /\ reservation' \in [Batches -> Account!Reservations] /\ available' \in Nat
      /\ \A a \in Batches \ {b} : reservation'[a] = reservation[a]
      /\ Account!Held(reservation'[b]) = 0 /\ reservation'[b].status = "RELEASED"
      /\ reservation[b].status = "ACTIVE" /\ ReservationFits(b)'
  BY <1>1, <1>2, ClosedFits DEF BatchInv
<1>4. TypeOK'
  BY <1>1, <1>2, <1>3 DEF TypeOK, requests
<1>5. Trying' /\ Owned'
  BY <1>1, OwnedStays, TryingStays DEF IInv, requests
<1>6. BatchInv(b)'
  <2>1. StartFits(b)' /\ RowFits(b)' /\ JobsFit(b)'
    BY <1>1, <1>2, <1>3 DEF StartFits, RowFits, JobsFit, BatchInv, Absent, requests
  <2>2. CalmStart(b)'
    BY <1>1, <1>2, <1>3 DEF CalmStart, BatchInv, Absent, requests
  <2>3. CalmEnd(b)'
    BY <1>1, <1>2, <1>3 DEF CalmEnd, BatchInv, Passed, Quiet, requests
  <2>4. Covered(b)'
    BY <1>1 DEF Covered, Disturbed
  <2>5. QED
    BY <1>3, <2>1, <2>2, <2>3, <2>4 DEF BatchInv
<1>7. ASSUME NEW a \in Batches \ {b}
      PROVE  Apart(a)
  BY <1>1, <1>2, <1>3, GenerationAssumption DEF Apart, Charged, TypeOK, requests
<1>8. QED
  BY <1>4, <1>5, <1>6, <1>7, OthersApart

\* Nothing changes, or only the clock.
LEMMA TickKeeps ==
  ASSUME IInv, Tick \/ UNCHANGED vars
  PROVE  IInv'
<1>1. UNCHANGED <<candidate, draft, requests, job, credits, lock, faults>>
  BY DEF Tick, vars
<1>2. TypeOK
  BY DEF IInv
<1>3. clock \in Nat /\ clock' \in 0 .. MaxClock /\ clock <= clock'
  BY <1>2, GenerationAssumption DEF Tick, vars, TypeOK
<1>4. TypeOK'
  BY <1>1, <1>2, <1>3 DEF TypeOK, requests, credits
<1>5. Trying' /\ Owned'
  BY <1>1, OwnedStays, TryingStays DEF IInv, requests, credits
<1>6. ASSUME NEW a \in Batches
      PROVE  BatchInv(a)'
  <2>1. Apart(a)
    BY <1>1, <1>3 DEF Apart, Charged, requests, credits
  <2>2. QED
    BY <1>2, <1>4, <2>1, ApartKeeps DEF IInv
<1>7. QED
  BY <1>4, <1>5, <1>6 DEF IInv

-----------------------------------------------------------------------------
\* The rollback of a start request: what its steps have undone, as long as none of
\* them threw

Undone(b) ==
  b \notin spoiled =>
    /\ start[b] \in {"releasing", "deleting", "failed"} => ~HeldBy(lock, b)
    /\ start[b] \in {"deleting", "failed"} => reservation[b].status # "ACTIVE"
    /\ start[b] = "failed" => batch[b].status = "DELETED"

AllUndone == \A b \in Batches : Undone(b)

\* Of a batch it is enough that its request is where it was, and that it has neither
\* got the lock nor a new reservation nor another row.
Rests(a) ==
  /\ start'[a] = start[a] /\ (a \in spoiled => a \in spoiled')
  /\ HeldBy(lock', a) => HeldBy(lock, a)
  /\ reservation'[a].status = "ACTIVE" => reservation[a].status = "ACTIVE"
  /\ batch[a].status = "DELETED" => batch'[a].status = "DELETED"

\* A step of b's request
LEMMA OthersRest ==
  ASSUME AllUndone, NEW b \in Batches, Undone(b)', \A a \in Batches \ {b} : Rests(a)
  PROVE  AllUndone'
<1>1. ASSUME NEW a \in Batches \ {b}
      PROVE  Undone(a)'
  BY DEF AllUndone, Undone, Rests
<1>2. QED
  BY <1>1 DEF AllUndone

\* A step of nobody's request
LEMMA AllRest ==
  ASSUME AllUndone, \A a \in Batches : Rests(a)
  PROVE  AllUndone'
BY DEF AllUndone, Undone, Rests

\* The steps of a request that is not rolled back: what it has not done need not be
\* undone.
LEMMA StartUndone ==
  ASSUME IInv, AllUndone, NEW b \in Batches,
         \/ \E S \in SUBSET Candidates : RequestStart(b, S)
         \/ Reserve(b) \/ TakeLock(b) \/ MarkGenerating(b) \/ StartFails(b)
  PROVE  AllUndone'
<1>1. TypeOK /\ StartFits(b)
  BY DEF IInv, BatchInv
<1>2. PICK s \in Starts : Starting(b, s) /\ s # "failed"
  BY DEF RequestStart, Reserve, TakeLock, MarkGenerating, StartFails, Starts
<1>3. start'[b] = s /\ \A a \in Batches \ {b} : start'[a] = start[a]
  BY <1>1, <1>2, StartIs
<1>4. spoiled' = spoiled
  BY DEF RequestStart, Reserve, TakeLock, MarkGenerating, StartFails
<1>5. \A a \in Batches \ {b} : batch[a].status = "DELETED" => batch'[a].status = "DELETED"
  BY <1>1 DEF RequestStart, Reserve, TakeLock, MarkGenerating, StartFails, TypeOK
<1>6. \A a \in Batches \ {b} : HeldBy(lock', a) => HeldBy(lock, a)
  BY GrantedToOne DEF RequestStart, Reserve, TakeLock, MarkGenerating, StartFails
<1>7. \A a \in Batches \ {b} : reservation'[a] = reservation[a]
  BY <1>1 DEF RequestStart, Reserve, TakeLock, MarkGenerating, StartFails, Account!Reserve,
             TypeOK, credits
<1>8. ASSUME s \in {"releasing", "deleting"}
      PROVE  ~HeldBy(lock', b) /\ (s = "deleting" => reservation'[b].status = "NONE")
  <2>1. CASE Reserve(b)
    <3>1. start[b] = "created" /\ lock' = lock /\ Starting(b, "deleting")
      BY <1>1, <1>3, <1>8, <2>1 DEF Reserve, Starting, TypeOK
    <3>2. reservation' = reservation
      <4>1. ~Starting(b, "reserved")
        BY <1>1, <1>3, <1>8 DEF Starting, TypeOK
      <4>2. QED
        BY <2>1, <4>1 DEF Reserve
    <3>3. QED
      BY <1>1, <3>1, <3>2 DEF StartFits
  <2>2. CASE TakeLock(b)
    <3>1. start[b] = "reserved" /\ ~Starting(b, "locked")
      BY <1>1, <1>3, <1>8, <2>2 DEF Starting, TypeOK, TakeLock
    <3>2. lock' = lock /\ Starting(b, "releasing")
      BY <2>2, <3>1 DEF TakeLock
    <3>3. s = "releasing"
      BY <1>1, <1>3, <3>2 DEF Starting, TypeOK
    <3>4. QED
      BY <1>1, <3>1, <3>2, <3>3 DEF StartFits
  <2>3. CASE StartFails(b)
    <3>1. lock' = lock /\ reservation' = reservation /\ start[b] \in {"created", "reserved", "locked"}
      BY <2>3 DEF StartFails, credits
    <3>2. start[b] # "locked" /\ (s = "deleting" => start[b] = "created")
      BY <1>1, <1>3, <1>8, <2>3 DEF StartFails, Starting, TypeOK
    <3>3. QED
      BY <1>1, <3>1, <3>2 DEF StartFits
  <2>4. CASE MarkGenerating(b)
    BY <1>1, <1>3, <1>8, <2>4 DEF MarkGenerating, Starting, TypeOK
  <2>5. CASE \E S \in SUBSET Candidates : RequestStart(b, S)
    BY <1>1, <1>3, <1>8, <2>5 DEF RequestStart, Starting, TypeOK
  <2>6. QED
    BY <2>1, <2>2, <2>3, <2>4, <2>5
<1>9. Undone(b)'
  BY <1>2, <1>3, <1>8 DEF Undone
<1>10. QED
  BY <1>3, <1>4, <1>5, <1>6, <1>7, <1>9, OthersRest DEF Rests

\* The rollback, and what becomes of it when it throws
LEMMA RollbackUndone ==
  ASSUME IInv, AllUndone, NEW b \in Batches,
         RollbackLock(b) \/ RollbackReservation(b) \/ RollbackBatch(b) \/ RollbackFails(b)
  PROVE  AllUndone'
<1>1. TypeOK /\ Undone(b) /\ BatchInv(b)
  BY DEF IInv, AllUndone
<1>2. CASE RollbackLock(b)
  <2>1. /\ start[b] = "unlocking" /\ Starting(b, "releasing") /\ lock' = Released(lock, b, clock)
        /\ batch' = batch /\ reservation' = reservation /\ spoiled' = spoiled
    BY <1>2 DEF RollbackLock, credits
  <2>2. start'[b] = "releasing" /\ \A a \in Batches \ {b} : start'[a] = start[a]
    BY <1>1, <2>1, StartIs DEF Starts
  <2>3. ~HeldBy(lock', b) /\ \A a \in Batches : HeldBy(lock', a) => HeldBy(lock, a)
    <3>1. lock \in {NoLock} \cup LockRows /\ clock \in Nat
      BY <1>1, GenerationAssumption DEF TypeOK
    <3>2. QED
      BY <2>1, <3>1, ReleasedFits
  <2>4. Undone(b)'
    BY <2>2, <2>3 DEF Undone
  <2>5. QED
    BY <2>1, <2>2, <2>3, <2>4, OthersRest DEF Rests
<1>3. CASE RollbackReservation(b)
  <2>1. /\ start[b] = "releasing" /\ Starting(b, "deleting") /\ lock' = lock /\ batch' = batch
        /\ spoiled' = spoiled
    BY <1>3 DEF RollbackReservation
  <2>2. start'[b] = "deleting" /\ \A a \in Batches \ {b} : start'[a] = start[a]
    BY <1>1, <2>1, StartIs DEF Starts
  <2>3. /\ reservation'[b].status # "ACTIVE"
        /\ \A a \in Batches \ {b} : reservation'[a] = reservation[a]
    <3>1. CASE Account!CloseReleased(b, "RELEASED")
      BY <1>1, <3>1, ClosedFits DEF BatchInv
    <3>2. CASE reservation[b].status # "ACTIVE" /\ UNCHANGED <<available, reservation>>
      BY <3>2
    <3>3. QED
      BY <1>3, <3>1, <3>2 DEF RollbackReservation
  <2>4. Undone(b)'
    BY <1>1, <2>1, <2>2, <2>3 DEF Undone
  <2>5. QED
    BY <2>1, <2>2, <2>3, <2>4, OthersRest DEF Rests
<1>4. CASE RollbackBatch(b)
  <2>1. /\ start[b] = "deleting" /\ Starting(b, "failed") /\ lock' = lock
        /\ reservation' = reservation /\ spoiled' = spoiled
        /\ batch' = [batch EXCEPT ![b].status = "DELETED"]
    BY <1>4 DEF RollbackBatch, credits
  <2>2. start'[b] = "failed" /\ \A a \in Batches \ {b} : start'[a] = start[a]
    BY <1>1, <2>1, StartIs DEF Starts
  <2>3. batch'[b].status = "DELETED" /\ \A a \in Batches \ {b} : batch'[a] = batch[a]
    BY <1>1, <2>1, BatchStatus
  <2>4. Undone(b)'
    BY <1>1, <2>1, <2>2, <2>3 DEF Undone
  <2>5. QED
    BY <2>1, <2>2, <2>3, <2>4, OthersRest DEF Rests
<1>5. CASE RollbackFails(b)
  <2>1. lock' = lock /\ reservation' = reservation /\ spoiled' = spoiled \cup {b}
    BY <1>5 DEF RollbackFails, credits
  <2>2. \A a \in Batches \ {b} : start'[a] = start[a] /\ batch'[a] = batch[a]
    BY <1>1, <1>5 DEF RollbackFails, Starting, TypeOK
  <2>3. Undone(b)'
    BY <2>1 DEF Undone
  <2>4. QED
    BY <2>1, <2>2, <2>3, OthersRest DEF Rests
<1>6. QED
  BY <1>2, <1>3, <1>4, <1>5

\* What no request does takes no lock, makes no reservation and brings no deleted
\* batch back.
LEMMA JobUndone ==
  ASSUME IInv, AllUndone, NEW b \in Batches, NEW c \in Candidates,
         Enqueue(b, c) \/ JobStep(b, c) \/ JobThrows(b, c) \/ JobCrashes(b, c)
  PROVE  AllUndone'
<1>1. TypeOK /\ BatchInv(b)
  BY DEF IInv
<1>2. ASSUME UNCHANGED <<start, spoiled>>, UNCHANGED batch, UNCHANGED lock, UNCHANGED reservation
      PROVE  AllUndone'
  BY <1>2, AllRest DEF Rests
<1>3. CASE Enqueue(b, c) \/ JobThrows(b, c) \/ JobCrashes(b, c)
  BY <1>2, <1>3 DEF Enqueue, JobThrows, JobCrashes, requests, credits
<1>4. CASE LoadCandidate(b, c) \/ Decide(b, c) \/ WriteDraft(b, c) \/ Close(b, c)
  BY <1>2, <1>4 DEF LoadCandidate, Decide, WriteDraft, Close, requests, credits
<1>5. ASSUME UNCHANGED <<start, spoiled>>, UNCHANGED batch, UNCHANGED lock,
             \A a \in Batches \ {b} : reservation'[a] = reservation[a],
             reservation'[b].status # "ACTIVE"
      PROVE  AllUndone'
  BY <1>5, AllRest DEF Rests
<1>6. CASE Settle(b, c)
  <2>1. UNCHANGED <<start, batch, spoiled, lock>>
    BY <1>6 DEF Settle, requests
  <2>2. CASE UNCHANGED reservation
    BY <1>2, <2>1, <2>2
  <2>3. CASE Account!ConsumeOne(b) \/ Account!ReleaseOne(b)
    BY <1>1, <1>5, <2>1, <2>3, ResolvesOne
  <2>4. QED
    BY <1>6, <2>2, <2>3 DEF Settle
<1>7. CASE Count(b, c)
  <2>1. UNCHANGED <<start, spoiled, lock, reservation>>
    BY <1>7 DEF Count, credits
  <2>2. \A a \in Batches : batch[a].status = "DELETED" => batch'[a].status = "DELETED"
    <3>1. CASE UNCHANGED batch
      BY <3>1
    <3>2. CASE InProgress(b)
      <4>1. \A a \in Batches \ {b} : batch'[a] = batch[a]
        BY <1>1, <1>7 DEF Count, TypeOK
      <4>2. batch[b].status # "DELETED"
        BY <3>2 DEF InProgress
      <4>3. QED
        BY <4>1, <4>2
    <3>3. QED
      BY <1>7, <3>1, <3>2 DEF Count
  <2>3. QED
    BY <2>1, <2>2, AllRest DEF Rests
<1>8. CASE ReleaseUnused(b, c)
  <2>1. UNCHANGED <<start, batch, spoiled, lock>>
    BY <1>8 DEF ReleaseUnused, requests
  <2>2. CASE UNCHANGED reservation
    BY <1>2, <2>1, <2>2
  <2>3. CASE Account!ReleaseUnused(b)
    BY <1>1, <1>5, <2>1, <2>3, UnusedFits
  <2>4. QED
    BY <1>8, <2>2, <2>3 DEF ReleaseUnused
<1>9. CASE Unlock(b, c)
  <2>1. UNCHANGED <<start, batch, spoiled, reservation>> /\ lock' = Released(lock, b, clock)
    BY <1>9 DEF Unlock, requests, credits
  <2>2. lock \in {NoLock} \cup LockRows /\ clock \in Nat
    BY <1>1, GenerationAssumption DEF TypeOK
  <2>3. \A a \in Batches : HeldBy(lock', a) => HeldBy(lock, a)
    BY <2>1, <2>2, ReleasedFits
  <2>4. QED
    BY <2>1, <2>3, AllRest DEF Rests
<1>10. QED
  BY <1>3, <1>4, <1>6, <1>7, <1>8, <1>9 DEF JobStep

LEMMA UndoneKeeps == IInv /\ AllUndone /\ [Next]_vars => AllUndone'
<1> SUFFICES ASSUME IInv, AllUndone, [Next]_vars PROVE AllUndone'
  OBVIOUS
<1>1. ASSUME NEW b \in Batches, \/ \E S \in SUBSET Candidates : RequestStart(b, S)
                                \/ Reserve(b) \/ TakeLock(b) \/ MarkGenerating(b) \/ StartFails(b)
      PROVE  AllUndone'
  BY <1>1, StartUndone
<1>2. ASSUME NEW b \in Batches,
             RollbackLock(b) \/ RollbackReservation(b) \/ RollbackBatch(b) \/ RollbackFails(b)
      PROVE  AllUndone'
  BY <1>2, RollbackUndone
<1>3. ASSUME NEW b \in Batches, NEW c \in Candidates,
             Enqueue(b, c) \/ JobStep(b, c) \/ JobThrows(b, c) \/ JobCrashes(b, c)
      PROVE  AllUndone'
  BY <1>3, JobUndone
<1>4. ASSUME NEW b \in Batches, ExpireReservation(b)
      PROVE  AllUndone'
  <2>1. UNCHANGED <<start, batch, spoiled, lock>> /\ Account!CloseReleased(b, "RELEASED")
    BY <1>4 DEF ExpireReservation, requests
  <2>2. TypeOK /\ ReservationFits(b)
    BY DEF IInv, BatchInv
  <2>3. /\ \A a \in Batches \ {b} : reservation'[a] = reservation[a]
        /\ reservation'[b].status = "RELEASED"
    BY <2>1, <2>2, ClosedFits
  <2>4. QED
    BY <2>1, <2>3, AllRest DEF Rests
<1>5. CASE Tick \/ UNCHANGED vars
  BY <1>5, AllRest DEF Rests, Tick, vars, requests, credits
<1>6. QED
  BY <1>1, <1>2, <1>3, <1>4, <1>5 DEF Next, StartStep

-----------------------------------------------------------------------------
\* The invariant holds

LEMMA InitHolds == Init => IInv
<1> SUFFICES ASSUME Init PROVE IInv
  OBVIOUS
<1>1. /\ candidate = [c \in Candidates |-> "MISSING"] /\ draft = [c \in Candidates |-> None]
      /\ batch = [b \in Batches |-> NoBatch] /\ members = [b \in Batches |-> {}]
      /\ start = [b \in Batches |-> "idle"]
      /\ job = [b \in Batches |-> [c \in Candidates |-> NoJob]]
      /\ available \in 1 .. Credits
      /\ reservation = [b \in Batches |-> Account!NoReservation]
      /\ expiresAt = [b \in Batches |-> 0] /\ settled = {} /\ lock = NoLock
      /\ faults = 0 /\ clock = 0
  BY DEF Init
<1>2. NoJob \in JobRows /\ NoJob.step = "absent" /\ NoJob.tries = 0 /\ NoJob.result = "-"
  BY GenerationAssumption DEF NoJob, JobRows
<1>3. /\ NoBatch \in BatchRows /\ NoBatch.status = "NONE"
      /\ NoBatch.completed = 0 /\ NoBatch.failed = 0
  <2>1. 0 \in 0 .. Cardinality(Candidates)
    BY CandidatesFinite
  <2>2. QED
    BY <2>1 DEF NoBatch, BatchRows
<1>4. /\ Account!NoReservation \in Account!Reservations /\ Account!NoReservation.status = "NONE"
      /\ Account!NoReservation.reserved = 0 /\ Account!NoReservation.consumed = 0
      /\ Account!NoReservation.released = 0
  BY DEF Account!NoReservation, Account!Reservations, Account!ReservationStatuses
<1>5. TypeOK
  BY <1>1, <1>2, <1>3, <1>4, GenerationAssumption
     DEF TypeOK, CandidateStatuses, Processable, Generatable, Starts
<1>6. \A b \in Batches, c \in Candidates : job[b][c] = NoJob
  BY <1>1
<1>7. Trying
  BY <1>2, <1>6, GenerationAssumption DEF Trying
<1>8. Owned
  <2>1. \A b \in Batches, c \in Candidates : ~Owns(b, c) /\ draft[c] # b
    BY <1>1, <1>2, <1>6, CandidatesFinite DEF Owns, Charged
  <2>2. QED
    BY <1>2, <1>6, <2>1 DEF Owned, Owns
<1>9. ASSUME NEW b \in Batches
      PROVE  BatchInv(b)
  <2>1. /\ batch[b] = NoBatch /\ members[b] = {} /\ start[b] = "idle"
        /\ reservation[b] = Account!NoReservation
        /\ \A c \in Candidates : draft[c] # b
    BY <1>1, CandidatesFinite
  <2>2. Absent(b) /\ ~HeldBy(lock, b)
    BY <1>1, <1>2, <1>6 DEF Absent, HeldBy, NoLock
  <2>3. StartFits(b) /\ RowFits(b) /\ ReservationFits(b)
    BY <1>3, <1>4, <2>1, <2>2 DEF StartFits, RowFits, ReservationFits
  <2>4. JobsFit(b)
    BY <1>2, <1>6 DEF JobsFit
  <2>5. CalmStart(b)
    BY <1>4, <2>1 DEF CalmStart
  <2>6. CalmEnd(b)
    <3>1. Passed(b) = {}
      BY <2>1 DEF Passed
    <3>2. QED
      BY <1>3, <2>1, <3>1, FS_EmptySet DEF CalmEnd, Final
  <2>7. Covered(b)
    BY <2>1 DEF Covered
  <2>8. QED
    BY <2>3, <2>4, <2>5, <2>6, <2>7 DEF BatchInv
<1>10. QED
  BY <1>5, <1>7, <1>8, <1>9 DEF IInv

LEMMA NextKeeps == IInv /\ [Next]_vars => IInv'
<1> SUFFICES ASSUME IInv, [Next]_vars PROVE IInv'
  OBVIOUS
<1>1. ASSUME NEW b \in Batches, NEW S \in SUBSET Candidates, RequestStart(b, S)
      PROVE  IInv'
  BY <1>1, RequestStartKeeps
<1>2. ASSUME NEW b \in Batches, StartStep(b)
      PROVE  IInv'
  <2>1. CASE Reserve(b) \/ TakeLock(b) \/ MarkGenerating(b)
    BY <2>1, ReserveKeeps, TakeLockKeeps, MarkGeneratingKeeps
  <2>2. CASE \E c \in Candidates : Enqueue(b, c)
    BY <2>2, EnqueueKeeps
  <2>3. CASE RollbackLock(b) \/ RollbackReservation(b) \/ RollbackBatch(b)
    BY <2>3, RollbackLockKeeps, RollbackReservationKeeps, RollbackBatchKeeps
  <2>4. QED
    BY <1>2, <2>1, <2>2, <2>3 DEF StartStep
<1>3. ASSUME NEW b \in Batches, StartFails(b) \/ RollbackFails(b)
      PROVE  IInv'
  BY <1>3, StartFailsKeeps, RollbackFailsKeeps
<1>4. ASSUME NEW b \in Batches, ExpireReservation(b)
      PROVE  IInv'
  BY <1>4, ExpireReservationKeeps
<1>5. ASSUME NEW b \in Batches, NEW c \in Candidates, JobStep(b, c)
      PROVE  IInv'
  <2>1. CASE LoadCandidate(b, c) \/ Decide(b, c) \/ WriteDraft(b, c)
    BY <2>1, LoadCandidateKeeps, DecideKeeps, WriteDraftKeeps
  <2>2. CASE Settle(b, c) \/ Count(b, c)
    BY <2>2, SettleKeeps, CountKeeps
  <2>3. CASE ReleaseUnused(b, c) \/ Unlock(b, c) \/ Close(b, c)
    BY <2>3, ReleaseUnusedKeeps, UnlockKeeps, CloseKeeps
  <2>4. QED
    BY <1>5, <2>1, <2>2, <2>3 DEF JobStep
<1>6. ASSUME NEW b \in Batches, NEW c \in Candidates, JobThrows(b, c) \/ JobCrashes(b, c)
      PROVE  IInv'
  BY <1>6, JobThrowsKeeps, JobCrashesKeeps
<1>7. CASE Tick \/ UNCHANGED vars
  BY <1>7, TickKeeps
<1>8. QED
  BY <1>1, <1>2, <1>3, <1>4, <1>5, <1>6, <1>7 DEF Next

\* A batch and its jobs, its reservation, its charges and the lock stay as the
\* invariant wants them, whatever throws, dies, expires or is redelivered.
THEOREM Invariant == Spec => []IInv
<1>1. Init => IInv
  BY InitHolds
<1>2. IInv /\ [Next]_vars => IInv'
  BY NextKeeps
<1>3. QED
  BY <1>1, <1>2, PTL DEF Spec

\* Every row has its type: no batch counts more outcomes than it has candidates,
\* no job tries more often than its queue lets it.
THEOREM TypeCorrect == Spec => []TypeOK
<1>1. IInv => TypeOK
  BY DEF IInv
<1>2. QED
  BY Invariant, <1>1, PTL

\* A batch is charged for a candidate only if it generated it, and of two batches
\* that have the same candidate at most one is, whatever goes wrong.
THEOREM ChargedRight == Spec => []ChargedForGenerated
<1>1. IInv => ChargedForGenerated
  BY DEF IInv, Owned, Owns, Written, ChargedForGenerated
<1>2. QED
  BY Invariant, <1>1, PTL

\* The completion of a batch runs once, whatever goes wrong; a batch that nothing
\* disturbs is only closed with all its outcomes, and leaves nothing behind.
THEOREM ClosedOnce == Spec => []EndsOnce
<1>1. IInv => CompletesOnce
  <2> SUFFICES ASSUME IInv, NEW b \in Batches, NEW c \in Candidates, NEW d \in Candidates,
                      job[b][c].step \in {"unusing", "unlocking"},
                      job[b][d].step \in {"unusing", "unlocking"}
               PROVE  c = d
    BY DEF CompletesOnce
  <2>1. QED
    BY DEF IInv, BatchInv, JobsFit
<1>2. IInv => FinishedIsOver
  <2> SUFFICES ASSUME IInv, NEW b \in Batches, batch[b].status \in Final, ~Disturbed(b)
               PROVE  /\ \A c \in members[b] :
                           job[b][c].step \in {"unusing", "unlocking", "closing", "done"}
                      /\ Quiet(b) => Account!Held(reservation[b]) = 0 /\ ~HeldBy(lock, b)
    BY DEF FinishedIsOver
  <2>1. faults = 0
    BY GenerationAssumption DEF Disturbed, IInv, TypeOK
  <2>2. /\ members[b] \subseteq Passed(b)
        /\ (\A c \in Candidates : job[b][c].step # "unusing") => Account!Held(reservation[b]) = 0
        /\ Quiet(b) => ~HeldBy(lock, b)
    BY <2>1 DEF IInv, BatchInv, CalmEnd
  <2>3. QED
    BY <2>2 DEF Passed, Past, Quiet
<1>3. IInv => EndsOnce
  BY <1>1, <1>2 DEF EndsOnce
<1>4. QED
  BY Invariant, <1>3, PTL

\* A request that ends in an error, whatever threw and wherever, is undone: the lock
\* is not its own, its batch is deleted, and it holds no credits unless a job of it
\* has settled one; only a rollback that throws itself, or dies, is excepted.
THEOREM RefusedIsUndone == Spec => []RefusedLeavesNothing
<1>1. Init => AllUndone
  BY DEF Init, AllUndone, Undone
<1>2. IInv /\ AllUndone /\ [Next]_vars => AllUndone'
  BY UndoneKeeps
<1>3. IInv /\ AllUndone => RefusedLeavesNothing
  <2> SUFFICES ASSUME IInv, AllUndone, NEW b \in Batches, start[b] = "failed", b \notin spoiled
               PROVE  /\ ~HeldBy(lock, b) /\ batch[b].status = "DELETED"
                      /\ \/ Account!Held(reservation[b]) = 0
                         \/ reservation[b].status = "PARTIALLY_CONSUMED"
                      /\ faults = 0 => \A c \in Candidates : job[b][c].step = "absent"
    BY DEF RefusedLeavesNothing
  <2>1. /\ ~HeldBy(lock, b) /\ batch[b].status = "DELETED" /\ reservation[b].status # "ACTIVE"
    BY DEF AllUndone, Undone
  <2>2. reservation[b].status # "PARTIALLY_CONSUMED" => Account!Held(reservation[b]) = 0
    BY <2>1, NothingReserved DEF Account!Settleable
  <2>3. faults = 0 => \A c \in Candidates : job[b][c].step = "absent"
    BY DEF IInv, BatchInv, CalmStart, Absent
  <2>4. QED
    BY <2>1, <2>2, <2>3
<1>4. QED
  BY Invariant, <1>1, <1>2, <1>3, PTL DEF Spec

\* What an undisturbed batch generated is charged when its job is over.
THEOREM GeneratedCharged == Spec => []GeneratedIsCharged
<1>1. IInv => GeneratedIsCharged
  BY DEF IInv, BatchInv, Covered, GeneratedIsCharged
<1>2. QED
  BY Invariant, <1>1, PTL
=============================================================================
