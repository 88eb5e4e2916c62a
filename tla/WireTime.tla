------------------------------ MODULE WireTime ------------------------------
(***************************************************************************)
(* The 32-bit millisecond clock arithmetic of FciWirelinkEndpoint.cpp      *)
(* (wl_time_ms_t), for a clock of any even modulus.  A difference of two   *)
(* clock readings is reduced modulo the clock and read as a signed number. *)
(***************************************************************************)
EXTENDS Integers

CONSTANT TimeModulus          \* 2^32 in the code

ASSUME TimeModulusAssumption ==
    TimeModulus \in Nat \ {0} /\ TimeModulus % 2 = 0

Half == TimeModulus \div 2

\* static_cast<std::int32_t>(a - b)
SignedDifference(a, b) ==
    LET d == (a - b) % TimeModulus IN IF d < Half THEN d ELSE d - TimeModulus

\* A bug: reading the age as unsigned.
UnsignedRemaining(now, submitted, timeout) ==
    LET age == (now - submitted) % TimeModulus
    IN  timeout - (IF age < timeout THEN age ELSE timeout)

\* What is left of a queued operation's deadline.
s_queueRemaining(now, submitted, timeout) ==
    LET age == SignedDifference(now, submitted)
    IN  IF age <= 0 THEN timeout ELSE timeout - (IF age < timeout THEN age ELSE timeout)

\* What is left until a target, 0 once it is reached.
s_until(now, target) ==
    LET remaining == SignedDifference(target, now)
    IN  IF remaining <= 0 THEN 0 ELSE remaining

=============================================================================
