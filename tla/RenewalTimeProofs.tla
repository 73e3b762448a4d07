-------------------------- MODULE RenewalTimeProofs --------------------------
(***************************************************************************)
(* The renewal timer of process_cert ends at the renewal instant, for     *)
(* every validity period and every clock reading.                         *)
(***************************************************************************)
EXTENDS RenewalTime, TLAPS

(* An armed timer is the one process_cert computed from the deployed      *)
(* certificate's validity at the instant it was armed.                     *)
Armed ==
  timer # -1 =>
    /\ validity \in (0..MaxSecs) \X (0..MaxSecs)
    /\ timer = armed_at + WaitDuration(validity[1], validity[2], armed_at)

IInv ==
  /\ now \in Int
  /\ armed_at \in Int
  /\ Armed

-----------------------------------------------------------------------------
(* Arithmetic of chrono durations.  NanosPerSec is 1 modulo 3, as 10^9 is. *)

(* Euclidean division by the positive NanosPerSec.                        *)
LEMMA DivModNanos ==
  ASSUME NEW x \in Int
  PROVE  /\ x \div NanosPerSec \in Int
         /\ x % NanosPerSec \in 0..NanosPerSec - 1
         /\ x = (x \div NanosPerSec) * NanosPerSec + (x % NanosPerSec)
BY ClockAssumption

(* Normalizing a count of nanoseconds into seconds and nanoseconds loses  *)
(* nothing.                                                                *)
LEMMA NanosOfDelta ==
  ASSUME NEW x \in Int PROVE Nanos(Delta(x)) = x
BY DivModNanos DEF Nanos, Delta

(* Multiplying by a positive count keeps the sign of a nonzero factor     *)
(* and at least its size.                                                  *)
LEMMA ScaleBound ==
  ASSUME NEW a \in Int, NEW n \in Nat \ {0}
  PROVE  /\ a >= 1 => a * n >= n
         /\ a <= -1 => a * n <= -n
BY SMT

(* A span of whole seconds has no nanoseconds.                             *)
LEMMA DeltaOfSecs ==
  ASSUME NEW s \in Int PROVE Delta(s * NanosPerSec) = [secs |-> s, nanos |-> 0]
<1> DEFINE q == (s * NanosPerSec) \div NanosPerSec
           r == (s * NanosPerSec) % NanosPerSec
<1> USE DEF q, r
<1>0. s * NanosPerSec \in Int
  BY ClockAssumption
<1>1. q \in Int /\ r \in 0..NanosPerSec - 1
      /\ s * NanosPerSec = q * NanosPerSec + r
  BY <1>0, DivModNanos
<1>2. (s - q) * NanosPerSec = r
  BY <1>1, ClockAssumption
<1>3. q = s
  BY <1>1, <1>2, ClockAssumption, ScaleBound
<1>4. r = 0
  BY <1>1, <1>3, ClockAssumption
<1>5. QED
  BY <1>3, <1>4 DEF Delta

(* A third of the carried remainder: 0, 1 or 2 seconds of nanoseconds,    *)
(* divided by 3, drop exactly the remainder's count of nanoseconds.       *)
LEMMA ThirdOfCarry ==
  ASSUME NEW c \in 0..2 PROVE 3 * Quot(c * NanosPerSec, 3) = c * NanosPerSec - c
<1>0. NanosPerSec \div 3 \in Nat /\ NanosPerSec = 3 * (NanosPerSec \div 3) + 1
  BY ClockAssumption
<1>1. PICK k \in Nat : NanosPerSec = 3 * k + 1
  BY <1>0
<1>2. CASE c = 0
  BY <1>2, ClockAssumption DEF Quot
<1>3. CASE c = 1
  BY <1>1, <1>3, ClockAssumption DEF Quot
<1>4. CASE c = 2
  BY <1>1, <1>4, ClockAssumption DEF Quot
<1>5. QED
  BY <1>2, <1>3, <1>4

(* A third of a span of s whole seconds, as checked_div computes it, is   *)
(* s * NanosPerSec / 3 rounded down to the nanosecond.                    *)
LEMMA ThirdOfSpan ==
  ASSUME NEW s \in Nat
  PROVE  /\ 3 * Nanos(DivDelta(Delta(s * NanosPerSec), 3)) = s * NanosPerSec - (s % 3)
         /\ Nanos(DivDelta(Delta(s * NanosPerSec), 3)) \in Nat
<1> DEFINE q == s \div 3
           c == s % 3
           r == q * NanosPerSec + Quot(c * NanosPerSec, 3)
<1> USE DEF q, c, r
<1>1. q \in Nat /\ c \in 0..2 /\ s = 3 * q + c
  OBVIOUS
<1>2. DivDelta(Delta(s * NanosPerSec), 3) = Delta(r)
  <2>1. Quot(s, 3) = q /\ s - q * 3 = c /\ Quot(0, 3) = 0
    BY <1>1 DEF Quot
  <2>2. Delta(s * NanosPerSec) = [secs |-> s, nanos |-> 0]
    BY DeltaOfSecs
  <2>3. DivDelta([secs |-> s, nanos |-> 0], 3)
          = Delta(q * NanosPerSec + 0 + Quot(c * NanosPerSec, 3))
    BY <2>1 DEF DivDelta
  <2>4. QED
    BY <2>2, <2>3, ClockAssumption DEF Quot
<1>3. 3 * Quot(c * NanosPerSec, 3) = c * NanosPerSec - c
  BY <1>1, ThirdOfCarry
<1>4. r \in Int /\ 3 * r = s * NanosPerSec - c
  BY <1>1, <1>3, ClockAssumption DEF Quot
<1>5. r \in Nat
  BY <1>1, <1>4, ClockAssumption
<1>6. QED
  BY <1>2, <1>4, <1>5, NanosOfDelta

(* process_cert at instant t, for a certificate valid over [nb, na]: the  *)
(* timer ends at t when the renewal instant na - (na - nb)/3 has passed,  *)
(* else at that instant rounded up to the nanosecond, and never after na. *)
LEMMA TimerAtRenewal ==
  ASSUME NEW nb \in Nat, NEW na \in Nat, nb <= na, NEW t \in Int
  PROVE  LET tm == t + WaitDuration(nb, na, t)
             exact3 == (2 * na + nb) * NanosPerSec
         IN  IF 3 * t >= exact3
               THEN tm = t
               ELSE /\ 0 <= 3 * tm - exact3
                    /\ 3 * tm - exact3 < 3
                    /\ tm <= na * NanosPerSec
<1> DEFINE S == na - nb
           M == Nanos(DivDelta(Delta(S * NanosPerSec), 3))
           w == na * NanosPerSec - M - t
           P == na * NanosPerSec
           Q == nb * NanosPerSec
<1>1. S \in Nat /\ P \in Nat /\ Q \in Nat /\ S * NanosPerSec = P - Q
  BY ClockAssumption
<1>2. M \in Nat /\ 3 * M = P - Q - (S % 3)
  BY <1>1, ThirdOfSpan
<1>3. (2 * na + nb) * NanosPerSec = 2 * P + Q
  BY ClockAssumption
<1>4. WaitDuration(nb, na, t) = IF w > 0 THEN w ELSE 0
  BY DEF WaitDuration
<1>5. 3 * w = 2 * P + Q + (S % 3) - 3 * t
  BY <1>1, <1>2
<1>6. QED
  BY <1>1, <1>2, <1>3, <1>4, <1>5

-----------------------------------------------------------------------------
LEMMA InitIInv == Init => IInv
BY ClockAssumption DEF Init, IInv, Armed, MaxNow

LEMMA NextIInv == IInv /\ [Next]_vars => IInv'
<1> SUFFICES ASSUME IInv, [Next]_vars PROVE IInv'
  OBVIOUS
<1>1. CASE ProcessCert
  BY <1>1 DEF ProcessCert, IInv, Armed
<1>2. CASE Tick
  BY <1>2 DEF Tick, IInv, Armed
<1>3. CASE UNCHANGED vars
  BY <1>3 DEF vars, IInv, Armed
<1>4. QED
  BY <1>1, <1>2, <1>3 DEF Next

(* For every tick length and every validity period, the timer armed by   *)
(* process_cert ends at na - (na - nb)/3, rounded up by less than a       *)
(* nanosecond and never past na, or at once when that instant has passed: *)
(* a deployed certificate is renewed before it expires (spec 8.2).        *)
THEOREM RenewalAtTwoThirds == Spec => []RenewalPoint
<1>1. IInv => RenewalPoint
  <2> SUFFICES ASSUME IInv, timer # -1, validity[1] <= validity[2]
               PROVE  RenewalPoint
    BY DEF RenewalPoint
  <2>1. validity[1] \in Nat /\ validity[2] \in Nat /\ armed_at \in Int
        /\ timer = armed_at + WaitDuration(validity[1], validity[2], armed_at)
    BY DEF IInv, Armed
  <2>2. QED
    BY <2>1, TimerAtRenewal DEF RenewalPoint
<1>2. QED
  BY <1>1, InitIInv, NextIInv, PTL DEF Spec

=============================================================================
