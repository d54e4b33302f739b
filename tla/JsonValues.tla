------------------------------ MODULE JsonValues ------------------------------
(***************************************************************************)
(* The JSON values programs compute with, their canonical form and its     *)
(* size.  A value is a pair of a tag and a payload.  Text is a sequence of *)
(* characters of five kinds, names are characters, and a float is an       *)
(* integer number of halves.  Halves are exact up to MaxExact, whole       *)
(* numbers twice as far, and the spacing doubles whenever the magnitude    *)
(* does, as in a binary64 beyond 2^52: enough to tell floats from the      *)
(* integers they may equal, to make some of them round and to make some be *)
(* spelled in decimal as another integer.                                  *)
(***************************************************************************)
EXTENDS Integers, Sequences, FiniteSets, FiniteSetsExt, SequencesExt

CONSTANTS MaxExact,   \* halves are exact up to here: 2^52
          MaxFloat,   \* the largest float: about 2^1024
          MaxPlain    \* from here on floats are spelled with an exponent: 10^21

Null == <<"null", 0>>
BoolOf(b) == <<"bool", b>>
IntOf(n) == <<"int", n>>
FloatOf(h) == <<"float", h>>
TextOf(s) == <<"text", s>>
ArrayOf(s) == <<"array", s>>
ObjectOf(f) == <<"object", f>>

IsNumber(v) == v[1] \in {"int", "float"}
IsCollection(v) == v[1] \in {"array", "object"}

(* An error takes the place of a value. *)
Fail(code) == <<"fail", code>>
Failed(v) == v[1] = "fail"

(* A numeric value, in halves. *)
Halves(v) == IF v[1] = "int" THEN 2 * v[2] ELSE v[2]

Magnitude(n) == IF n < 0 THEN -n ELSE n

-----------------------------------------------------------------------------
(* Numbers. *)
FloorDiv(p, q) == IF q < 0 THEN (-p) \div (-q) ELSE p \div q
FloorMod(p, q) == p - q * FloorDiv(p, q)

(* The integer closest to p / q, the even one of two. *)
Nearest(p, q) ==
    LET Closer(low, twice) ==
          IF Magnitude(twice) < Magnitude(q) \/ (twice = q /\ low % 2 = 0) THEN low ELSE low + 1
    IN  Closer(FloorDiv(p, q), 2 * FloorMod(p, q))

BitLength(n) == CHOOSE k \in 0 .. 30 : Magnitude(n) < 2 ^ k /\ (k = 0 \/ Magnitude(n) >= 2 ^ (k - 1))

(* The float closest to p / q halves: a multiple of a unit that grows with *)
(* the magnitude.                                                          *)
Representable(p, q) ==
    LET unit == Max({1, 2 ^ BitLength(Magnitude(p) \div Magnitude(q)) \div (2 * MaxExact)})
    IN  unit * Nearest(p, unit * q)

-----------------------------------------------------------------------------
(* Characters, in their order: a space, a letter in its two cases, a       *)
(* character of two bytes, and one of two bytes whose upper case is two    *)
(* characters.                                                             *)
Characters == <<"s", "A", "a", "w", "q">>

Rank(c) == CHOOSE i \in DOMAIN Characters : Characters[i] = c

Bytes(c) == IF c \in {"q", "w"} THEN 2 ELSE 1

Content(s) == MapThenSumSet(LAMBDA i : Bytes(s[i]), DOMAIN s)

NameBefore(a, b) == Rank(a) < Rank(b)

(* The members of a collection in canonical order. *)
Names(v) == SetToSortSeq(DOMAIN v[2], NameBefore)
Members(v) == IF v[1] = "array" THEN v[2] ELSE [i \in DOMAIN Names(v) |-> v[2][Names(v)[i]]]

-----------------------------------------------------------------------------
(* The decimal spelling of numbers.                                        *)
Digits(n) == CHOOSE k \in 1 .. 9 : n < 10 ^ k /\ (k = 1 \/ n >= 10 ^ (k - 1))

(* Digits without the zeros at the end. *)
Significant(n) == Digits(n) - Max({k \in 0 .. Digits(n) - 1 : n % 10 ^ k = 0})

(* The whole numbers that are read as a whole float n, and the one of them *)
(* it is spelled as: of those with the fewest digits the closest.          *)
Readings(n) == {m \in n - n \div MaxExact .. n + n \div MaxExact : Representable(2 * m, 1) = 2 * n}
WholeFloats == {n \in 0 .. MaxFloat : n \in Readings(n)}
Shortest ==
    LET Fewest(readings) == {m \in readings : \A k \in readings : Significant(m) <= Significant(k)}
        Closest(n, readings) == CHOOSE m \in readings : \A k \in readings : Magnitude(m - n) <= Magnitude(k - n)
    IN  [n \in WholeFloats |-> Closest(n, Fewest(Readings(n)))]

IsWhole(v) == v[1] = "float" /\ v[2] % 2 = 0
Spelled(v) == (IF v[2] < 0 THEN -1 ELSE 1) * Shortest[Magnitude(v[2]) \div 2]
Plain(v) == Magnitude(v[2]) < 2 * MaxPlain

(* A float that is not spelled as the integer it equals. *)
Respelled(v) == IsWhole(v) /\ ~(Plain(v) /\ Spelled(v) = v[2] \div 2)

(* The canonical form: what is left of a value that was written and read   *)
(* back.  A whole float is spelled like an integer, which need not be the  *)
(* integer it equals, unless it is spelled with an exponent.               *)
RECURSIVE Stored(_)
Stored(v) ==
    CASE IsWhole(v) /\ Plain(v) -> IntOf(Spelled(v))
      [] IsCollection(v) -> <<v[1], [i \in DOMAIN v[2] |-> Stored(v[2][i])]>>
      [] OTHER -> v

(* Equality of JSON: numbers by value, and apart from booleans; all else   *)
(* by its canonical form.                                                  *)
SameJson(v, w) ==
    IF IsNumber(v) /\ IsNumber(w) THEN Halves(v) = Halves(w) ELSE Stored(v) = Stored(w)

(* The lengths of whole floats: the digits, or a digit, a dot if more      *)
(* follow, and an exponent.                                                *)
WholeSizes ==
    LET Scientific(digits, mantissa) ==
          mantissa + (IF mantissa > 1 THEN 1 ELSE 0) + 2 + Digits(digits - 1)
        Length(n, m) == IF n < MaxPlain THEN Digits(m) ELSE Scientific(Digits(m), Significant(m))
    IN  [n \in WholeFloats |-> Length(n, Shortest[n])]

Sign(v) == IF v[2] < 0 THEN 1 ELSE 0
TextSize(s) == Content(s) + 2

ScalarSize(v) ==
    CASE v[1] = "null" -> 4
      [] v[1] = "bool" -> IF v[2] THEN 4 ELSE 5
      [] v[1] = "int" -> Digits(Magnitude(v[2])) + Sign(v)
      [] IsWhole(v) -> WholeSizes[Magnitude(v[2]) \div 2] + Sign(v)
      [] v[1] = "float" /\ ~IsWhole(v) -> Digits(Magnitude(v[2]) \div 2) + 2 + Sign(v)
      [] v[1] = "text" -> TextSize(v[2])

(* The length of the canonical text: brackets, commas, quotes and colons.  *)
RECURSIVE CanonicalSize(_)
CanonicalSize(v) ==
    IF ~IsCollection(v) THEN ScalarSize(v)
    ELSE LET count == Cardinality(DOMAIN v[2])
             keys == IF v[1] = "array" THEN 0
                     ELSE MapThenSumSet(LAMBDA n : Bytes(n) + 3, DOMAIN v[2])
         IN  2 + keys + (IF count = 0 THEN 0 ELSE count - 1)
               + MapThenSumSet(LAMBDA i : CanonicalSize(v[2][i]), DOMAIN v[2])

RECURSIVE Depth(_)
Depth(v) ==
    1 + (IF IsCollection(v) THEN Max({0} \cup {Depth(v[2][i]) : i \in DOMAIN v[2]}) ELSE 0)

(* A value and everything in it. *)
RECURSIVE Within(_)
Within(v) ==
    {v} \cup (IF IsCollection(v) THEN UNION {Within(v[2][i]) : i \in DOMAIN v[2]} ELSE {})
=============================================================================
