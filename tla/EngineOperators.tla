--------------------------- MODULE EngineOperators ---------------------------
(***************************************************************************)
(* What the operations of the expression language return for evaluated     *)
(* arguments, and what they ask of the limits.                             *)
(***************************************************************************)
EXTENDS JsonValues

(* An outcome: a value or an error, and the most the operation asked of    *)
(* each resource.  Of the last two components, one is 1 if a float was     *)
(* rounded, the other if a float was met whose spelling is not that of the *)
(* integer it equals.                                                      *)
Nothing == [size |-> 0, depth |-> 0, items |-> 0, bits |-> 0, exponent |-> 0,
            digits |-> 0, rounded |-> 0, respelled |-> 0]
Needing(resource, n) == [Nothing EXCEPT ![resource] = n]
Both(need, other) == [r \in DOMAIN need |-> Max({need[r], other[r]})]

Gives(v) == [out |-> v, need |-> Nothing]
Limited(within, code, outcome) == IF within THEN outcome ELSE [outcome EXCEPT !.out = Fail(code)]
Demand(need, outcome) == [outcome EXCEPT !.need = Both(@, need)]

-----------------------------------------------------------------------------
(* Numbers. *)
(* _number_result of an integer. *)
Integer(n, limits) ==
    Limited(BitLength(n) <= limits.bits, "INTEGER_LIMIT",
            [out |-> IntOf(n), need |-> Needing("bits", BitLength(n))])

(* The float closest to p / q halves, as the result of an operation.       *)
Float(p, q, overflow) ==
    LET Of(h) == Limited(Magnitude(h) <= 2 * MaxFloat, overflow,
                         [out |-> FloatOf(h), need |-> Needing("rounded", IF h * q = p THEN 0 ELSE 1)])
    IN  Of(Representable(p, q))

Converted(v) == IF v[1] = "int" THEN Representable(2 * v[2], 1) ELSE v[2]

(* The power of a float, p halves, to an exponent of y halves: an integer  *)
(* or one half.                                                            *)
FloatPower(p, y) ==
    LET times == Magnitude(y) \div 2
        root == Max({0} \cup {r \in 1 .. 2 * p : r * r - r < 2 * p})
        Ratio == CASE y % 2 = 1 -> <<root, 1>>
                   [] y % 2 = 0 /\ y > 0 -> <<2 * p ^ times, 2 ^ times>>
                   [] OTHER -> <<2 * 2 ^ times, p ^ times>>
        exact == y % 2 = 0 \/ root * root = 2 * p
    IN  CASE p = 0 /\ y < 0 -> Gives(Fail("DIVISION_BY_ZERO"))
          [] y % 2 = 1 /\ p < 0 -> Gives(Fail("INVALID_NUMBER"))
          [] y = 0 -> Gives(FloatOf(2))
          [] OTHER -> Demand(Needing("rounded", IF exact THEN 0 ELSE 1),
                             Float(Ratio[1], Ratio[2], "NUMBER_OVERFLOW"))

(* Two numbers, of which one is a float or the operation makes one.        *)
FloatArithmetic(op, x, y) ==
    LET Ratio(a, b) ==
          CASE op = "add" -> <<a + b, 1>>
            [] op = "sub" -> <<a - b, 1>>
            [] op = "mul" -> <<a * b, 2>>
            [] op = "div" -> <<2 * a, b>>
            [] op = "mod" -> <<FloorMod(a, b), 1>>
        Result(a, b) ==
          IF op = "pow" THEN FloatPower(a, b)
          ELSE Float(Ratio(a, b)[1], Ratio(a, b)[2], "NON_FINITE_NUMBER")
        On(a, b) ==
          IF Max({Magnitude(a), Magnitude(b)}) > 2 * MaxFloat THEN Gives(Fail("NUMBER_OVERFLOW"))
          ELSE Demand(Needing("rounded", IF a = Halves(x) /\ b = Halves(y) THEN 0 ELSE 1), Result(a, b))
    IN  On(Converted(x), Converted(y))

Power(x, y, limits) ==
    LET wanted == (Magnitude(Halves(y)) + 1) \div 2
        growth == BitLength(x[2]) * y[2]
        result ==
          IF ~(x[1] = "int" /\ y[1] = "int" /\ y[2] >= 0) THEN FloatArithmetic("pow", x, y)
          ELSE IF y[2] = 0 THEN Integer(1, limits)
          ELSE IF x[2] = 0 THEN Integer(0, limits)
          ELSE IF growth > limits.bits
               THEN [out |-> Fail("INTEGER_LIMIT"), need |-> Needing("bits", growth)]
          ELSE Demand(Needing("bits", growth), Integer(x[2] ^ y[2], limits))
    IN  IF wanted > limits.exponent
        THEN [out |-> Fail("POWER_LIMIT"), need |-> Needing("exponent", wanted)]
        ELSE Demand(Needing("exponent", wanted), result)

Arithmetic(op, x, y, limits) ==
    LET integers == x[1] = "int" /\ y[1] = "int"
    IN  CASE op \in {"div", "mod"} /\ y[2] = 0 -> Gives(Fail("DIVISION_BY_ZERO"))
          [] op = "div" /\ integers /\ y[2] # 0 -> Float(2 * x[2], y[2], "NUMBER_OVERFLOW")
          [] op = "mod" /\ integers /\ y[2] # 0 -> Integer(FloorMod(x[2], y[2]), limits)
          [] op = "add" /\ integers -> Integer(x[2] + y[2], limits)
          [] op = "sub" /\ integers -> Integer(x[2] - y[2], limits)
          [] op = "mul" /\ integers -> Integer(x[2] * y[2], limits)
          [] op = "pow" -> Power(x, y, limits)
          [] OTHER -> FloatArithmetic(op, x, y)

(* From left to right, up to the first error. *)
Accumulate(op, start, items, limits) ==
    LET Step(acc, v) ==
          IF Failed(acc.out) THEN acc
          ELSE IF ~IsNumber(v) THEN [acc EXCEPT !.out = Fail("TYPE_MISMATCH")]
          ELSE Demand(acc.need, Arithmetic(op, acc.out, v, limits))
    IN  FoldLeft(Step, Gives(start), items)

(* sum is outside the guard that turns an overflow into an error. *)
Sum(items, limits) ==
    LET Unguarded(sum) ==
          [sum EXCEPT !.out = IF @ = Fail("NUMBER_OVERFLOW") THEN Fail("OverflowError") ELSE @]
    IN  Unguarded(Accumulate("add", IntOf(0), items, limits))

RoundTo(v, digits) ==
    LET unit == 10 ^ (-digits)
    IN  CASE v[1] = "int" /\ digits >= 0 -> Gives(v)
          [] v[1] = "float" /\ digits > 0 -> Gives(v)
          [] v[1] = "int" /\ digits < 0 -> Gives(IntOf(unit * Nearest(v[2], unit)))
          [] v[1] = "float" /\ digits <= 0 ->
               Float(2 * unit * Nearest(v[2], 2 * unit), 1, "NUMBER_OVERFLOW")

Checked(outcome, limits) ==
    IF outcome.out[1] = "int" THEN Demand(outcome.need, Integer(outcome.out[2], limits)) ELSE outcome

Round(vs, limits) ==
    IF Len(vs) = 1
    THEN Integer(IF vs[1][1] = "int" THEN vs[1][2] ELSE Nearest(vs[1][2], 2), limits)
    ELSE LET digits == Magnitude(vs[2][2])
         IN  IF vs[2][1] # "int" THEN Gives(Fail("TYPE_MISMATCH"))
             ELSE IF digits > limits.digits
                  THEN [out |-> Fail("ROUND_LIMIT"), need |-> Needing("digits", digits)]
             ELSE Demand(Needing("digits", digits), Checked(RoundTo(vs[1], vs[2][2]), limits))

(* The first of the numbers no other is better than. *)
Best(vs, Better(_, _)) ==
    vs[Min({i \in DOMAIN vs : \A j \in DOMAIN vs : ~Better(vs[j], vs[i])})]

NumericOps == {"add", "sub", "mul", "div", "mod", "pow", "round", "min", "max", "abs"}

Numeric(op, vs, limits) ==
    IF \E i \in DOMAIN vs : ~IsNumber(vs[i]) THEN Gives(Fail("TYPE_MISMATCH"))
    ELSE CASE op \in {"add", "sub", "mul", "div", "mod", "pow"} ->
                Accumulate(op, vs[1], Tail(vs), limits)
           [] op = "round" -> Round(vs, limits)
           [] op = "min" -> Checked(Gives(Best(vs, LAMBDA v, w : Halves(v) < Halves(w))), limits)
           [] op = "max" -> Checked(Gives(Best(vs, LAMBDA v, w : Halves(v) > Halves(w))), limits)
           [] op = "abs" -> Checked(Gives(<<vs[1][1], Magnitude(vs[1][2])>>), limits)

-----------------------------------------------------------------------------
(* Text. *)
Starts(s, i, part) == i + Len(part) - 1 <= Len(s) /\ SubSeq(s, i, i + Len(part) - 1) = part

RECURSIVE Pieces(_, _)
Pieces(s, separator) ==
    LET found == {i \in DOMAIN s : Starts(s, i, separator)}
    IN  IF found = {} THEN <<s>>
        ELSE <<SubSeq(s, 1, Min(found) - 1)>>
               \o Pieces(SubSeq(s, Min(found) + Len(separator), Len(s)), separator)

Glue(parts, separator) ==
    IF parts = <<>> THEN <<>>
    ELSE FoldLeft(LAMBDA s, part : s \o separator \o part, Head(parts), Tail(parts))

Replaced(s, old, new) ==
    IF old # <<>> THEN Glue(Pieces(s, old), new)
    ELSE Glue(<<<<>>>> \o [i \in DOMAIN s |-> <<s[i]>>] \o <<<<>>>>, new)

Lower(s) == [i \in DOMAIN s |-> IF s[i] = "A" THEN "a" ELSE s[i]]
Upper(s) ==
    FlattenSeq([i \in DOMAIN s |-> CASE s[i] = "a" -> <<"A">> [] s[i] = "w" -> <<"q", "A">>
                                     [] OTHER -> <<s[i]>>])
Stripped(s) ==
    LET kept == {i \in DOMAIN s : s[i] # "s"}
    IN  IF kept = {} THEN <<>> ELSE SubSeq(s, Min(kept), Max(kept))

(* What the code expects a text to take, before it builds it. *)
JoinedContent(parts, separator) ==
    MapThenSumSet(LAMBDA i : Content(parts[i]), DOMAIN parts)
      + (IF Len(parts) > 1 THEN Content(separator) * (Len(parts) - 1) ELSE 0)
ReplacedContent(s, old, new) ==
    IF old # <<>> THEN Content(s) + (Len(Pieces(s, old)) - 1) * (Content(new) - Content(old))
    ELSE Content(s) + (Len(s) + 1) * Content(new)
SplitSize(s, separator) ==
    LET count == Len(Pieces(s, separator))
    IN  Content(s) - (count - 1) * Content(separator) + 3 * count + 1

(* A text whose content is expected to take so many bytes. *)
Text(s, content, limits) ==
    Limited(content + 2 <= limits.output, "OUTPUT_LIMIT",
            [out |-> TextOf(s), need |-> Needing("size", TextSize(s))])

Split(s, separator, limits) ==
    LET parts == ArrayOf([i \in DOMAIN Pieces(s, separator) |-> TextOf(Pieces(s, separator)[i])])
        count == Len(parts[2])
    IN  IF separator = <<>> THEN Gives(Fail("INVALID_SEPARATOR"))
        ELSE IF count > limits.items
             THEN [out |-> Fail("COLLECTION_LIMIT"), need |-> Needing("items", count)]
        ELSE Demand(Needing("items", count),
                    Limited(SplitSize(s, separator) <= limits.output, "OUTPUT_LIMIT",
                            [out |-> parts, need |-> Needing("size", CanonicalSize(parts))]))

(* _array: an array of no more than the items allowed. *)
Collection(v, limits) ==
    IF v[1] # "array" THEN Gives(Fail("TYPE_MISMATCH"))
    ELSE Limited(Len(v[2]) <= limits.items, "COLLECTION_LIMIT",
                 [out |-> v, need |-> Needing("items", Len(v[2]))])

Payloads(vs) == [i \in DOMAIN vs |-> vs[i][2]]

Join(separator, v, limits) ==
    LET collection == Collection(v, limits)
        parts == Payloads(v[2])
    IN  IF separator[1] # "text" THEN Gives(Fail("TYPE_MISMATCH"))
        ELSE IF Failed(collection.out) THEN collection
        ELSE IF \E i \in DOMAIN v[2] : v[2][i][1] # "text"
             THEN [collection EXCEPT !.out = Fail("TYPE_MISMATCH")]
        ELSE Demand(collection.need, Text(Glue(parts, separator[2]),
                                          JoinedContent(parts, separator[2]), limits))

Length(v, limits) ==
    IF v[1] = "text" THEN Gives(IntOf(Len(v[2])))
    ELSE IF ~IsCollection(v) THEN Gives(Fail("TYPE_MISMATCH"))
    ELSE LET count == Cardinality(DOMAIN v[2])
         IN  Limited(count <= limits.items, "COLLECTION_LIMIT",
                     [out |-> IntOf(count), need |-> Needing("items", count)])

(* An index of the host language: from the end if negative, clamped. *)
Clamp(i, length) == Max({0, Min({length, IF i < 0 THEN i + length ELSE i})})

Slice(vs, limits) ==
    LET target == vs[1]
        length == Len(target[2])
        first == Clamp(vs[2][2], length)
        last == IF Len(vs) = 3 THEN Clamp(vs[3][2], length) ELSE length
        part == SubSeq(target[2], first + 1, last)
    IN  IF target[1] \notin {"text", "array"} \/ \E i \in 2 .. Len(vs) : vs[i][1] # "int"
        THEN Gives(Fail("TYPE_MISMATCH"))
        ELSE IF target[1] = "text" THEN Text(part, Content(part), limits)
        ELSE Collection(ArrayOf(part), limits)

Textual(op, vs, limits) ==
    LET s == Payloads(vs)
        texts == \A i \in DOMAIN vs : vs[i][1] = "text"
    IN  IF op = "join" THEN Join(vs[1], vs[2], limits)
        ELSE IF op = "length" THEN Length(vs[1], limits)
        ELSE IF op = "slice" THEN Slice(vs, limits)
        ELSE IF ~texts THEN Gives(Fail("TYPE_MISMATCH"))
        ELSE CASE op = "concat" -> IF vs = <<>> THEN Gives(TextOf(<<>>))
                                   ELSE Text(Glue(s, <<>>), JoinedContent(s, <<>>), limits)
               [] op = "lower" -> Text(Lower(s[1]), Content(Lower(s[1])), limits)
               [] op = "upper" -> Text(Upper(s[1]), Content(Upper(s[1])), limits)
               [] op = "strip" -> Text(Stripped(s[1]), Content(Stripped(s[1])), limits)
               [] op = "replace" -> Text(Replaced(s[1], s[2], s[3]),
                                         ReplacedContent(s[1], s[2], s[3]), limits)
               [] op = "split" -> Split(s[1], s[2], limits)

TextOps == {"join", "length", "slice", "concat", "lower", "upper", "strip", "replace", "split"}

-----------------------------------------------------------------------------
(* Order and equality. *)
TextBefore(s, t) ==
    IsStrictPrefix(s, t)
    \/ \E i \in DOMAIN s \cap DOMAIN t : SubSeq(s, 1, i - 1) = SubSeq(t, 1, i - 1) /\ Rank(s[i]) < Rank(t[i])

Before(v, w) == IF v[1] = "text" THEN TextBefore(v[2], w[2]) ELSE Halves(v) < Halves(w)

Compare(op, v, w) ==
    IF ~(IsNumber(v) /\ IsNumber(w)) /\ ~(v[1] = "text" /\ w[1] = "text")
    THEN Gives(Fail("TYPE_MISMATCH"))
    ELSE Gives(BoolOf(CASE op = "lt" -> Before(v, w) [] op = "lte" -> ~Before(w, v)
                        [] op = "gt" -> Before(w, v) [] op = "gte" -> ~Before(v, w)))

RECURSIVE Equal(_, _), EqualOfOneType(_, _)
EqualOfOneType(v, w) ==
    v[1] = w[1] /\ IF IsCollection(v)
                   THEN DOMAIN v[2] = DOMAIN w[2] /\ \A i \in DOMAIN v[2] : EqualOfOneType(v[2][i], w[2][i])
                   ELSE v[2] = w[2]
Equal(v, w) ==
    IF IsNumber(v) /\ IsNumber(w) THEN Halves(v) = Halves(w)
    ELSE IF v[1] # w[1] THEN FALSE
    ELSE IF IsCollection(v)
         THEN DOMAIN v[2] = DOMAIN w[2] /\ \A i \in DOMAIN v[2] : Equal(v[2][i], w[2][i])
    ELSE v[2] = w[2]

Logical(op, vs) ==
    CASE op = "eq" -> Gives(BoolOf(Equal(vs[1], vs[2])))
      [] op = "ne" -> Gives(BoolOf(~Equal(vs[1], vs[2])))
      [] op = "not" -> IF vs[1][1] = "bool" THEN Gives(BoolOf(~vs[1][2])) ELSE Gives(Fail("TYPE_MISMATCH"))
      [] OTHER -> Compare(op, vs[1], vs[2])

(* Sort keys: null, booleans, numbers and texts, in this order. *)
KeyKind(v) ==
    CASE v[1] = "null" -> 0 [] v[1] = "bool" -> 1 [] IsNumber(v) -> 2 [] v[1] = "text" -> 3 [] OTHER -> 4

KeyBefore(v, w) ==
    \/ KeyKind(v) < KeyKind(w)
    \/ v[1] = "bool" /\ w[1] = "bool" /\ ~v[2] /\ w[2]
    \/ KeyKind(v) = KeyKind(w) /\ KeyKind(v) \in {2, 3} /\ Before(v, w)

(* A stable sort in either direction. *)
Sorted(items, keys, descending) ==
    LET Ahead(i, j) == IF descending THEN KeyBefore(keys[j], keys[i]) ELSE KeyBefore(keys[i], keys[j])
        order == SetToSortSeq(DOMAIN items, LAMBDA i, j : Ahead(i, j) \/ (~Ahead(j, i) /\ i < j))
    IN  [p \in DOMAIN order |-> items[order[p]]]

(* An operation that evaluates its arguments first. *)
Operate(op, vs, limits) ==
    IF op \in NumericOps THEN Numeric(op, vs, limits)
    ELSE IF op \in TextOps THEN Textual(op, vs, limits)
    ELSE Logical(op, vs)
=============================================================================
