----------------------------- MODULE RenewalTime -----------------------------
(***************************************************************************)
(* The renewal timer armed by AcmeState::process_cert (src/src/state.rs   *)
(* 213-218): wait = max(0, not_after - (not_after - not_before)/3 - now), *)
(* computed on chrono durations, and sleep(wait).                          *)
(*                                                                         *)
(* Time is counted in nanoseconds.  A chrono duration is a pair of whole  *)
(* seconds and nanoseconds in 0..NanosPerSec-1; X.509 validity times are  *)
(* whole seconds, Utc::now() is not.  NanosPerSec stands for 10^9: any    *)
(* value that, like 10^9, is 1 modulo 3 divides the same way.             *)
(***************************************************************************)
EXTENDS Integers

CONSTANTS
  NanosPerSec,  \* chrono's NANOS_PER_SEC
  MaxSecs       \* validity times range over 0..MaxSecs seconds

ASSUME ClockAssumption ==
  /\ NanosPerSec \in Nat \ {0}
  /\ NanosPerSec % 3 = 1
  /\ MaxSecs \in Nat

VARIABLES
  now,       \* Utc::now() in nanoseconds
  validity,  \* [nb, na] of the deployed certificate, in seconds (<<>>: none)
  armed_at,  \* the instant the timer was armed
  timer      \* the instant the armed sleep ends (-1: no timer)

vars == <<now, validity, armed_at, timer>>

MaxNow == MaxSecs * NanosPerSec

-----------------------------------------------------------------------------
(* Rust's integer division truncates toward zero.                          *)
Quot(a, b) == IF a >= 0 THEN a \div b ELSE -((-a) \div b)

(* A chrono TimeDelta of a number of nanoseconds, normalized to seconds   *)
(* and non-negative nanoseconds.                                           *)
Delta(ns) == [secs |-> ns \div NanosPerSec, nanos |-> ns % NanosPerSec]
Nanos(d) == d.secs * NanosPerSec + d.nanos

(* Mutant: only the whole seconds are divided, the remainder is lost.      *)
DivDeltaSecs(d, k) ==
  Delta(Quot(d.secs, k) * NanosPerSec + Quot(d.nanos, k))

(* TimeDelta / i32 (checked_div): divide the seconds, carry their         *)
(* remainder into the nanoseconds, divide those, and normalize.            *)
DivDelta(d, k) ==
  LET secs == Quot(d.secs, k)
      carry == d.secs - secs * k
  IN  Delta(secs * NanosPerSec + Quot(d.nanos, k) + Quot(carry * NanosPerSec, k))

(* validity[1] - (validity[1] - validity[0]) / 3 - Utc::now(), then        *)
(* .max(zero).to_std().unwrap_or_default().                                 *)
WaitDuration(nb, na, t) ==
  LET span == Delta((na - nb) * NanosPerSec)
      wait == na * NanosPerSec - Nanos(DivDelta(span, 3)) - t
  IN  IF wait > 0 THEN wait ELSE 0

-----------------------------------------------------------------------------
Init ==
  /\ now \in 0..MaxNow
  /\ validity = <<>>
  /\ armed_at = 0
  /\ timer = -1

(* process_cert after a certificate parsed: set_cert, then arm the timer. *)
ProcessCert ==
  \E nb, na \in 0..MaxSecs :
    /\ validity' = <<nb, na>>
    /\ armed_at' = now
    /\ timer' = now + WaitDuration(nb, na, now)
    /\ UNCHANGED now

(* The clock advances.                                                      *)
Tick ==
  /\ now < MaxNow
  /\ now' = now + 1
  /\ UNCHANGED <<validity, armed_at, timer>>

Next == ProcessCert \/ Tick

Spec == Init /\ [][Next]_vars

-----------------------------------------------------------------------------
(* Spec 4.4 and 8.2: for a certificate valid over [nb, na], the timer ends *)
(* at the renewal instant na - (na - nb)/3 (to within one nanosecond, the  *)
(* code rounding it up), or at once when that instant has passed; so a    *)
(* certificate is renewed before it expires.                               *)
RenewalPoint ==
  timer # -1 /\ validity[1] <= validity[2] =>
    LET exact3 == (2 * validity[2] + validity[1]) * NanosPerSec
    IN  IF 3 * armed_at >= exact3
          THEN timer = armed_at
          ELSE /\ 0 <= 3 * timer - exact3
               /\ 3 * timer - exact3 < 3
               /\ timer <= validity[2] * NanosPerSec

=============================================================================
