---------------------------- MODULE CreditAccount ----------------------------
(***************************************************************************)
(* What the credit tables promise the rest of the system: a shop's credits *)
(* are available, held by the reservation of a batch, or consumed; a batch *)
(* reserves once and its reservation is settled credit by credit or closed *)
(* as a whole.  Buckets, lines, the ledger and the transactions that race  *)
(* on them are the business of CreditLedger, which implements this module; *)
(* Generation uses it as its account.                                      *)
(***************************************************************************)
EXTENDS Integers

CONSTANTS Batches,   \* generation batches of one shop
          Amounts    \* numbers (at least 1) granted or reserved at once

VARIABLES available,     \* credits a reservation can still take
          reservation    \* batch -> its row of credit_reservation

account == <<available, reservation>>

\* CreditReservationStatus, and "NONE" for a batch without a row.  CANCELED
\* and FAILED of the enum (and PENDING) are never assigned by the code.
ReservationStatuses ==
  {"NONE", "ACTIVE", "PARTIALLY_CONSUMED", "CONSUMED", "RELEASED", "EXPIRED"}

Settleable == {"ACTIVE", "PARTIALLY_CONSUMED"}

Reservations == [status : ReservationStatuses, reserved : Nat, consumed : Nat, released : Nat]

NoReservation == [status |-> "NONE", reserved |-> 0, consumed |-> 0, released |-> 0]

NewReservation(n) == [status |-> "ACTIVE", reserved |-> n, consumed |-> 0, released |-> 0]

\* resolveReservationStatus of generation-credit.service.ts
ResolvedStatus(reserved, consumed, released) ==
  CASE consumed + released <= 0 -> "ACTIVE"
    [] consumed + released > 0 /\ consumed = reserved -> "CONSUMED"
    [] consumed + released > 0 /\ consumed # reserved /\ released = reserved -> "RELEASED"
    [] OTHER -> "PARTIALLY_CONSUMED"

Held(r) == r.reserved - r.consumed - r.released

\* r after c more credits were consumed and d more released, one at a time or
\* as the unused rest
Settled(r, c, d) ==
  [r EXCEPT !.consumed = @ + c, !.released = @ + d,
            !.status = ResolvedStatus(r.reserved, r.consumed + c, r.released + d)]

-----------------------------------------------------------------------------
Init == /\ available = 0
        /\ reservation = [b \in Batches |-> NoReservation]

Grant(n) == /\ available' = available + n
            /\ UNCHANGED reservation

Reserve(b, n) ==
  /\ reservation[b].status = "NONE"
  /\ n <= available
  /\ available' = available - n
  /\ reservation' = [reservation EXCEPT ![b] = NewReservation(n)]

\* One candidate of the batch is charged ...
ConsumeOne(b) ==
  /\ reservation[b].status \in Settleable
  /\ Held(reservation[b]) > 0
  /\ reservation' = [reservation EXCEPT ![b] = Settled(@, 1, 0)]
  /\ UNCHANGED available

\* ... or its credit given back.
ReleaseOne(b) ==
  /\ reservation[b].status \in Settleable
  /\ Held(reservation[b]) > 0
  /\ reservation' = [reservation EXCEPT ![b] = Settled(@, 0, 1)]
  /\ available' = available + 1

\* The finished batch gives back what none of its candidates used.
ReleaseUnused(b) ==
  /\ reservation[b].status \in Settleable
  /\ Held(reservation[b]) > 0
  /\ reservation' = [reservation EXCEPT ![b] = Settled(@, 0, Held(@))]
  /\ available' = available + Held(reservation[b])

\* A reservation nothing was settled of is consumed, released or expired whole.
CloseConsumed(b) ==
  /\ reservation[b].status = "ACTIVE"
  /\ reservation' = [reservation EXCEPT ![b].status = "CONSUMED", ![b].consumed = reservation[b].reserved]
  /\ UNCHANGED available

CloseReleased(b, status) ==
  /\ reservation[b].status = "ACTIVE"
  /\ reservation' = [reservation EXCEPT ![b].status = status,
                                        ![b].released = @ + Held(reservation[b])]
  /\ available' = available + Held(reservation[b])

Next == \/ \E n \in Amounts : Grant(n)
        \/ \E b \in Batches :
             \/ \E n \in Amounts : Reserve(b, n)
             \/ ConsumeOne(b)
             \/ ReleaseOne(b)
             \/ ReleaseUnused(b)
             \/ CloseConsumed(b)
             \/ \E status \in {"RELEASED", "EXPIRED"} : CloseReleased(b, status)

Spec == Init /\ [][Next]_account
=============================================================================
