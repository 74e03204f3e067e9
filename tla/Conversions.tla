----------------------------- MODULE Conversions -----------------------------
(***************************************************************************)
(* Reported values as text, and text as an int: ToString (Text, here) and   *)
(* ToInt of utils.  A number is [type, n, part]: the integer n and, where    *)
(* part is TRUE, a fraction of less than one beyond it, away from zero; the  *)
(* text of a number has its digits and the type "text".                      *)
(***************************************************************************)
EXTENDS Integers

CONSTANTS
  Width,       \* bits of an int, of a uint and of the 64-bit types
  Exact,       \* a float keeps every integer from -Exact to Exact (2^53)
  FloatDigits, \* whole part of a float -> the digits that strconv.FormatFloat
               \* (f, 'f', -1, 64) writes for it: the fewest that are read back as
               \* this float, with zeros for the rest
  Unfit        \* whole part of a float that fits no int -> what the processor makes
               \* of its conversion

MaxInt == 2^(Width - 1) - 1
MinInt == -(2^(Width - 1))

ASSUME NumberAssumption ==
  /\ Width \in Nat \ {0} /\ Exact \in Nat
  /\ \A n \in DOMAIN FloatDigits :
       /\ n \in Int /\ FloatDigits[n] \in Int
       /\ n \in -Exact .. Exact => FloatDigits[n] = n
       /\ n \notin MinInt .. MaxInt => Unfit[n] \in MinInt .. MaxInt

\* What there is of each type.  Beyond Exact a float has no fraction.
IsNumber(v) ==
  /\ v \in [type : {"int", "uint", "uint64", "float", "text"}, n : Int, part : BOOLEAN]
  /\ v.type = "int" => v.n \in MinInt .. MaxInt
  /\ v.type \in {"uint", "uint64"} => v.n \in 0 .. 2 * MaxInt + 1
  /\ v.type = "float" => v.n \in DOMAIN FloatDigits
  /\ v.part => v.type = "text" \/ (v.type = "float" /\ v.n \in -Exact .. Exact)

\* A conversion to int keeps the bits: what is too large loses 2^Width.
AsInt(n) == IF n > MaxInt THEN n - 2 * (MaxInt + 1) ELSE n

\* Deliberately wrong: a uint64 goes through int as well.
DigitsWrapped(v) ==
  CASE v.type \in {"uint", "uint64"} -> AsInt(v.n)
    [] v.type = "float" -> FloatDigits[v.n]
    [] OTHER -> v.n

\* A uint goes through int, a float keeps what tells it from its neighbours.
Digits(v) ==
  CASE v.type = "uint" -> AsInt(v.n)
    [] v.type = "float" -> FloatDigits[v.n]
    [] OTHER -> v.n

Text(v) == [type |-> "text", n |-> Digits(v), part |-> v.part]

Nearest(n) == CASE n > MaxInt -> MaxInt [] n < MinInt -> MinInt [] OTHER -> n

\* strconv.Atoi with its error dropped: 0 for what is no integer, the nearest
\* int for what is out of range.
Atoi(text) == IF text.part THEN 0 ELSE Nearest(text.n)

\* Deliberately wrong: text that Atoi refuses is 0, also where it is too large.
ToIntOrZero(v) ==
  IF v.type = "text" THEN IF Atoi(v) = v.n THEN v.n ELSE 0 ELSE AsInt(v.n)

\* Unsigned values wrap, floats lose their fraction, text is parsed.
ToInt(v) ==
  CASE v.type = "text" -> Atoi(v)
    [] v.type = "float" /\ v.n \notin MinInt .. MaxInt -> Unfit[v.n]
    [] OTHER -> AsInt(v.n)
=============================================================================
