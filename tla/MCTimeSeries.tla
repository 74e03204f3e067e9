----------------------------- MODULE MCTimeSeries -----------------------------
(* Two values of one property in a call, of two properties, a nil, unsigned     *)
(* values that do not fit an int, a fraction, floats whose digits are rounded,   *)
(* one of which fits an int, and an event, whose details are text; deletes of a  *)
(* property, of a device and of everything.                                      *)
EXTENDS TimeSeries, TLC

CONSTANTS d1, s1, p1, p2, w1, w2

Val(type, n, part) == [type |-> type, n |-> n, part |-> part]
Entry(p, v) == [service |-> s1, name |-> p, value |-> v]
Twin(values) == [of |-> "report_twin", device |-> d1, values |-> values]
Event == [of |-> "report_event", device |-> d1, values |-> <<Entry(p1, Val("text", 5, FALSE))>>]

MCRequests == {
  Twin(<<Entry(p1, Val("float", 48, FALSE)), Entry(p1, Val("float", 2, TRUE))>>),
  Twin(<<Entry(p1, Nil), Entry(p2, Val("uint", 100, FALSE))>>),
  Twin(<<Entry(p1, Val("uint64", 100, FALSE)), Entry(p2, Val("float", 72, FALSE))>>),
  Event}
MCConditions == {
  [device |-> d1, service |-> s1, name |-> p1],
  [device |-> d1, service |-> Blank, name |-> Blank],
  [device |-> Blank, service |-> Blank, name |-> Blank]}
Symmetry == Permutations({w1, w2})

\* Floats of four bits, which keep every integer up to 16, as far as 120; those with
\* an even last bit; the texts that are read back as n (of two floats that are
\* equally near, the even one); of these the one with most zeros, and the nearest.
Floats == {m * 2^e : m \in -15 .. 15, e \in 0 .. 3}
EvenFloats == {m * 2^e : m \in -7 .. 7, e \in 0 .. 4}
Gap(n, m) == IF n > m THEN n - m ELSE m - n
Texts(n) ==
  {t \in -130 .. 130 : \A f \in Floats \ {n} :
     Gap(t, n) < Gap(t, f) \/ (Gap(t, n) = Gap(t, f) /\ n \in EvenFloats)}
Zeros(t) == Cardinality({k \in {10, 100} : t # 0 /\ t % k = 0})
Shortest(n) ==
  LET fewest == {t \in Texts(n) : \A u \in Texts(n) : Zeros(u) <= Zeros(t)}
  IN  CHOOSE t \in fewest : \A u \in fewest : Gap(t, n) <= Gap(u, n)
MCFloatDigits == 2 :> 2 @@ 48 :> 50 @@ 72 :> 70
ASSUME DigitsAssumption == \A n \in DOMAIN MCFloatDigits : MCFloatDigits[n] = Shortest(n)

\* The int that amd64 makes of what is out of range.
MCUnfit == 72 :> MinInt
=============================================================================
