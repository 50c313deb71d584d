------------------------------ MODULE Options -------------------------------
(***************************************************************************)
(* Rust's Option: a sequence of at most one element.                       *)
(***************************************************************************)
EXTENDS Naturals, Sequences

None == <<>>
Some(x) == <<x>>
IsSome(o) == o # None

\* Option<T>
Option(T) == {o \in Seq(T) : Len(o) <= 1}

\* Option::or
Or(first, second) == IF IsSome(first) THEN first ELSE second

\* Option::unwrap_or
OrDefault(o, default) == IF IsSome(o) THEN o[1] ELSE default

=============================================================================
