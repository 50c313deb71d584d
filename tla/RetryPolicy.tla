---------------------------- MODULE RetryPolicy -----------------------------
(***************************************************************************)
(* retry::RetryConfig.  Time is in nanoseconds, the unit of a Duration,    *)
(* and the multiplier any finite f64: a fraction, which may be below one   *)
(* or negative.  Products are exact, where the code rounds them to an f64. *)
(***************************************************************************)
EXTENDS Integers

RetryConfig == [max_retries : Nat, initial_delay : Nat, max_delay : Nat,
                backoff_multiplier : [num : Int, den : Nat \ {0}], jitter : BOOLEAN]

Lesser(a, b) == IF a <= b THEN a ELSE b

\* powi: as many factors as the exponent says.
Power(base, exponent) ==
  LET power[n \in 0..exponent] == IF n = 0 THEN 1 ELSE base * power[n - 1]
  IN  power[exponent]

\* The delay of an attempt is a fraction with this denominator.
Scale(policy, attempt) == Power(policy.backoff_multiplier.den, attempt)

\* Mutated: the clamp is forgotten.
CappedUnbounded(policy, attempt) ==
  policy.initial_delay * Power(policy.backoff_multiplier.num, attempt)

\* The delay of an attempt, 0 the first, clamped to max_delay: the numerator.
Capped(policy, attempt) ==
  Lesser(policy.initial_delay * Power(policy.backoff_multiplier.num, attempt),
         policy.max_delay * Scale(policy, attempt))

\* Duration::from_secs_f64 takes the nearest d to x/s, the even one of two.
Rounds(d, x, s) ==
  /\ s * (2 * d - 1) <= 2 * x /\ 2 * x <= s * (2 * d + 1)
  /\ 2 * x = s * (2 * d - 1) \/ 2 * x = s * (2 * d + 1) => d % 2 = 0

\* delay_for_attempt: jitter draws from [capped, 1.5 capped), and what is drawn is
\* rounded.  A range that is empty is a panic, and so is a negative Duration.
DelaysForAttempt(policy, attempt) ==
  LET capped  == Capped(policy, attempt)
      scale   == Scale(policy, attempt)
      rounded == {d \in 0..(2 * policy.max_delay) : Rounds(d, capped, scale)}
  IN  IF policy.jitter
      THEN {d \in 0..(2 * policy.max_delay) :
              /\ capped > 0
              /\ \E least \in rounded : least <= d
              /\ scale * (2 * d - 1) < 3 * capped}
      ELSE {d \in rounded : capped >= 0}

=============================================================================
