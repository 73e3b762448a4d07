\* Validity times of 0..4 s, ten "nanoseconds" per second.
CONSTANTS
  NanosPerSec = 10
  MaxSecs = 4
SPECIFICATION Spec
INVARIANTS RenewalPoint
