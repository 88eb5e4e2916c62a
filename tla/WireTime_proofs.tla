--------------------------- MODULE WireTime_proofs ---------------------------
(***************************************************************************)
(* The clock arithmetic of WireTime equals that of true, unbounded time,   *)
(* for every even modulus, across any number of turns of the clock.        *)
(***************************************************************************)
EXTENDS WireTime, TLAPS

(* Quotient and remainder, as the prover knows them.                        *)
LEMMA DivMod ==
    ASSUME NEW a \in Int
    PROVE  /\ a % TimeModulus \in 0..(TimeModulus - 1)
           /\ a \div TimeModulus \in Int
           /\ a = TimeModulus * (a \div TimeModulus) + (a % TimeModulus)
  BY TimeModulusAssumption

(* A remainder in range is the only one.                                   *)
LEMMA ModUnique ==
    ASSUME NEW q \in Int, NEW r \in Int, 0 <= r, r < TimeModulus
    PROVE  (TimeModulus * q + r) % TimeModulus = r
<1> DEFINE a == TimeModulus * q + r
           p == a \div TimeModulus
           s == a % TimeModulus
<1>1. a \in Int /\ TimeModulus \in Nat \ {0}
  BY TimeModulusAssumption
<1>2. p \in Int /\ s \in 0..(TimeModulus - 1) /\ a = TimeModulus * p + s
  BY <1>1, DivMod
<1> HIDE DEF p, s
<1>3. TimeModulus * (q - p) = s - r
  BY <1>1, <1>2
<1>4. q - p = 0
  <2>1. CASE q - p >= 1
    <3>1. TimeModulus * (q - p) >= TimeModulus
      BY <2>1, <1>1, <1>2
    <3> QED
      BY <3>1, <1>1, <1>2, <1>3
  <2>2. CASE q - p <= -1
    <3>1. TimeModulus * (q - p) <= -TimeModulus
      BY <2>2, <1>1, <1>2
    <3> QED
      BY <3>1, <1>1, <1>2, <1>3
  <2> QED
    BY <2>1, <2>2, <1>2
<1> QED
  BY <1>1, <1>2, <1>3, <1>4 DEF s

(* The cast of a difference of two readings to int32_t: the true           *)
(* difference, if it is less than half a turn.                             *)
LEMMA DifferenceIsTrue ==
    ASSUME NEW a \in Int, NEW b \in Int, a - b < Half, b - a <= Half
    PROVE  SignedDifference(a % TimeModulus, b % TimeModulus) = a - b
<1> DEFINE qa == a \div TimeModulus
           ra == a % TimeModulus
           qb == b \div TimeModulus
           rb == b % TimeModulus
           d == a - b
<1>1. TimeModulus \in Nat \ {0} /\ Half \in Nat /\ TimeModulus = 2 * Half
  BY TimeModulusAssumption DEF Half
<1>2. /\ qa \in Int /\ ra \in 0..(TimeModulus - 1) /\ a = TimeModulus * qa + ra
      /\ qb \in Int /\ rb \in 0..(TimeModulus - 1) /\ b = TimeModulus * qb + rb
  BY DivMod
<1> HIDE DEF qa, ra, qb, rb
<1>3. CASE d >= 0
  <2>1. ra - rb = TimeModulus * (qb - qa) + d
    BY <1>1, <1>2
  <2>2. (TimeModulus * (qb - qa) + d) % TimeModulus = d
    BY <1>1, <1>2, <1>3, ModUnique
  <2>3. (ra - rb) % TimeModulus = d
    BY <2>1, <2>2
  <2> QED
    BY <2>3, <1>1 DEF SignedDifference, ra, rb
<1>4. CASE d < 0
  <2>1. ra - rb = TimeModulus * (qb - qa - 1) + (d + TimeModulus)
    BY <1>1, <1>2
  <2>2. (TimeModulus * (qb - qa - 1) + (d + TimeModulus)) % TimeModulus = d + TimeModulus
    <3>1. /\ qb - qa - 1 \in Int /\ d + TimeModulus \in Int
          /\ 0 <= d + TimeModulus /\ d + TimeModulus < TimeModulus
      BY <1>1, <1>2, <1>4
    <3> HIDE DEF d
    <3> QED
      BY <3>1, ModUnique
  <2>3. (ra - rb) % TimeModulus = d + TimeModulus
    BY <2>1, <2>2
  <2> QED
    BY <2>3, <1>1 DEF SignedDifference, ra, rb
<1> QED
  BY <1>3, <1>4

(* What is left of a deadline is never negative.                           *)
LEMMA RemainingNatural ==
    ASSUME NEW a \in Nat, NEW b \in Nat, NEW t \in Nat
    PROVE  s_queueRemaining(a, b, t) \in Nat
<1>1. (a - b) % TimeModulus \in Int
  BY TimeModulusAssumption
<1>2. SignedDifference(a, b) \in Int
  BY <1>1, TimeModulusAssumption DEF SignedDifference, Half
<1>3. QED
  BY <1>2 DEF s_queueRemaining

(* What is left of a deadline, by true time: exact while the request is    *)
(* younger than half a turn of the clock.                                  *)
LEMMA RemainingOfAge ==
    ASSUME NEW t \in Nat, NEW b \in Nat, NEW timeout \in Nat, b <= t, t - b < Half
    PROVE  s_queueRemaining(t, b, timeout) = IF b + timeout > t THEN b + timeout - t ELSE 0
<1>1. SignedDifference(t, b) = t - b
  <2>0. TimeModulus \in Nat \ {0} /\ Half \in Nat /\ TimeModulus = 2 * Half
    BY TimeModulusAssumption DEF Half
  <2>1. t - b \in Int /\ 0 <= t - b /\ t - b < TimeModulus /\ TimeModulus * 0 + (t - b) = t - b
    BY <2>0
  <2>2. (TimeModulus * 0 + (t - b)) % TimeModulus = t - b
    BY <2>1, ModUnique
  <2> QED BY <2>1, <2>2 DEF SignedDifference
<1> QED BY <1>1 DEF s_queueRemaining

(* The same for a target in the future or reached less than half a turn    *)
(* ago.                                                                    *)
LEMMA UntilTarget ==
    ASSUME NEW t \in Nat, NEW target \in Nat, target - t < Half, t - target <= Half
    PROVE  s_until(t, target) = IF target > t THEN target - t ELSE 0
<1> DEFINE a == target - t
<1>0. TimeModulus \in Nat \ {0} /\ Half \in Nat /\ TimeModulus = 2 * Half /\ a \in Int
  BY TimeModulusAssumption DEF Half
<1>1. SignedDifference(target, t) = a
  <2>1. CASE a >= 0
    <3>1. a < TimeModulus /\ TimeModulus * 0 + a = a
      BY <1>0, <2>1
    <3>2. (TimeModulus * 0 + a) % TimeModulus = a
      BY <1>0, <2>1, <3>1, ModUnique
    <3> QED BY <3>1, <3>2 DEF SignedDifference
  <2>2. CASE a < 0
    <3>1. /\ a + TimeModulus \in Int /\ Half <= a + TimeModulus /\ a + TimeModulus < TimeModulus
          /\ 0 <= a + TimeModulus /\ TimeModulus * (-1) + (a + TimeModulus) = a
      BY <1>0, <2>2
    <3>2. (TimeModulus * (-1) + (a + TimeModulus)) % TimeModulus = a + TimeModulus
      BY <3>1, ModUnique
    <3> QED BY <1>0, <3>1, <3>2 DEF SignedDifference
  <2> QED BY <1>0, <2>1, <2>2
<1> QED BY <1>0, <1>1 DEF s_until

(* s_queueRemaining never takes away time the caller still has, on either  *)
(* side of a turn of the clock and also for a request younger than the     *)
(* reading.                                                                *)
LEMMA NoTimeLost ==
    ASSUME NEW c \in Nat, NEW n \in Nat, NEW b \in Nat, NEW t \in Nat,
           n <= c, b <= c, c - n <= Half
    PROVE  c + s_queueRemaining(n, b, t) >= b + t
<1> DEFINE a == n - b
           d == a % TimeModulus
           q == a \div TimeModulus
<1>0. TimeModulus \in Nat \ {0} /\ Half \in Nat /\ TimeModulus = 2 * Half
  BY TimeModulusAssumption DEF Half
<1>1. a \in Int /\ -Half <= a
  BY <1>0
<1>2. d \in 0..(TimeModulus - 1) /\ q \in Int /\ a = TimeModulus * q + d
  BY <1>1, DivMod
<1>3. SignedDifference(n, b) = IF d < Half THEN d ELSE d - TimeModulus
  BY DEF SignedDifference
<1> HIDE DEF d, q
<1>4. CASE a < 0
  <2>1. a = TimeModulus * (-1) + (a + TimeModulus) /\ a + TimeModulus \in Int
        /\ 0 <= a + TimeModulus /\ a + TimeModulus < TimeModulus
    BY <1>0, <1>1, <1>4
  <2>2. d = a + TimeModulus
    <3>1. (TimeModulus * (-1) + (a + TimeModulus)) % TimeModulus = a + TimeModulus
      BY <2>1, ModUnique
    <3> QED BY <2>1, <3>1 DEF d
  <2>3. SignedDifference(n, b) <= 0
    BY <1>0, <1>1, <1>3, <2>1, <2>2
  <2>4. s_queueRemaining(n, b, t) = t
    BY <2>3 DEF s_queueRemaining
  <2> QED BY <2>4
<1>5. CASE a >= 0
  <2>1. d <= a
    <3>1. q >= 0
      <4> SUFFICES ASSUME q <= -1 PROVE FALSE
        BY <1>2
      <4>1. TimeModulus * q <= TimeModulus * (-1)
        BY <1>0, <1>2
      <4> QED BY <1>0, <1>2, <1>5, <4>1
    <3>2. TimeModulus * q >= 0 /\ TimeModulus * q \in Int
      BY <1>0, <1>2, <3>1
    <3> QED BY <1>2, <3>2
  <2>2. SignedDifference(n, b) <= a /\ SignedDifference(n, b) \in Int
    BY <1>0, <1>1, <1>2, <1>3, <1>5, <2>1
  <2>3. s_queueRemaining(n, b, t) >= t \/ s_queueRemaining(n, b, t) >= t - SignedDifference(n, b)
    BY <2>2 DEF s_queueRemaining
  <2>4. s_queueRemaining(n, b, t) \in Int
    BY RemainingNatural
  <2> QED BY <2>2, <2>3, <2>4
<1> QED BY <1>1, <1>4, <1>5

(* FciWirelinkEndpoint.cpp:17-24: across every wrap of the clock, what is  *)
(* left of a deadline is the true remaining time, and a clock sampled      *)
(* before the submission leaves all of it rather than none.                *)
THEOREM RemainingIsTrue ==
    ASSUME NEW sample \in Nat, NEW submitted \in Nat, NEW timeout \in Nat,
           sample - submitted < Half, submitted - sample <= Half
    PROVE  LET left == submitted + timeout - sample
           IN  s_queueRemaining(sample % TimeModulus, submitted % TimeModulus, timeout)
                   = IF left > timeout THEN timeout ELSE IF left < 0 THEN 0 ELSE left
<1>1. SignedDifference(sample % TimeModulus, submitted % TimeModulus) = sample - submitted
  BY DifferenceIsTrue
<1> QED
  BY <1>1 DEF s_queueRemaining

(* FciWirelinkEndpoint.cpp:1298: a renewal or expiry target is due exactly *)
(* from the moment it is reached, as long as it is less than half a turn   *)
(* away.                                                                   *)
THEOREM UntilIsTrue ==
    ASSUME NEW now \in Nat, NEW target \in Nat, target - now < Half, now - target <= Half
    PROVE  s_until(now % TimeModulus, target % TimeModulus)
               = IF target > now THEN target - now ELSE 0
<1>1. SignedDifference(target % TimeModulus, now % TimeModulus) = target - now
  BY DifferenceIsTrue
<1> QED
  BY <1>1 DEF s_until

=============================================================================
