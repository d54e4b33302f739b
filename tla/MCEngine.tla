------------------------------ MODULE MCEngine ------------------------------
(* Small programs, inputs and limits for TLC. *)
EXTENDS Engine

Node(op, args, names, value) == [op |-> op, args |-> args, names |-> names, value |-> value]
Literal(v) == Node("literal", <<>>, <<>>, v)
Apply(op, args) == Node(op, args, <<>>, Null)
Var(n) == Node("var", <<>>, <<n>>, Null)
In(n) == Node("input", <<>>, <<n>>, Null)
Everything == Node("input", <<>>, <<>>, Null)
Object(n, x, m, y) == Node("object", <<x, y>>, <<n, m>>, Null)
Over(op, names, source, body) == Node(op, <<source, body>>, names, Null)
Descending(e) == [e EXCEPT !.value = BoolOf(TRUE)]

Whole(n) == Literal(IntOf(n))
Half(h) == Literal(FloatOf(h))
Words(s) == Literal(TextOf(s))
List(vs) == Literal(ArrayOf(vs))

Numbers == {Whole(n) : n \in {-1, 0, 2, 5}} \cup {Half(h) : h \in {-1, 1, 4, 12}}
Texts == {Words(s) : s \in {<<>>, <<"a">>, <<"w", "a">>, <<"s", "A", "s">>, <<"a", "q", "a">>}}
Lists == {List(<<>>), List(<<TextOf(<<"a">>), TextOf(<<"A">>)>>), In("a"),
          List(<<IntOf(2), FloatOf(4), IntOf(-1)>>), List(<<IntOf(10), FloatOf(1)>>)}
Others == {Literal(Null), Literal(BoolOf(TRUE)), Literal(ObjectOf([n \in {"q"} |-> IntOf(2)])),
           Everything, In("q"), Var("a")}
Atoms == Numbers \cup Texts \cup Lists \cup Others

Pairs(ops, left, right) == {Apply(op, <<x, y>>) : op \in ops, x \in left, y \in right}

Calls ==
    Pairs({"add", "sub", "mul", "div", "mod", "min", "max"}, Numbers, Numbers)
      \cup Pairs({"add", "max", "eq", "lt", "and", "or", "coalesce", "concat", "get"}, Atoms, {Whole(2), Half(4), In("a")})
      \cup Pairs({"pow"}, Numbers, {Half(1), Half(4), Half(-2), Whole(0), Whole(2), Whole(3), Whole(-1), Whole(6)})
      \cup Pairs({"round"}, Numbers, {Whole(0), Whole(-1), Whole(1), Half(4), Whole(-3)})
      \cup Pairs({"split", "concat", "lt", "gte", "eq", "ne"}, Texts, Texts)
      \cup Pairs({"join"}, Texts, Lists)
      \cup Pairs({"get"}, Lists \cup Texts \cup Others, {Whole(-1), Whole(0), Whole(2), Words(<<"q">>)})
      \cup Pairs({"slice"}, Lists \cup Texts, {Whole(-1), Whole(0), Half(4)})
      \cup {Apply(op, <<x>>) : op \in {"round", "abs", "lower", "upper", "strip", "length", "not", "sum", "add"},
                               x \in Atoms}
      \cup {Apply("replace", <<x, y, z>>) : x \in Texts, y \in Texts, z \in Texts}
      \cup {Apply("slice", <<x, Whole(i), Whole(j)>>) : x \in Texts \cup Lists, i \in {-2, 1}, j \in {-1, 2}}
      \cup {Apply("if", <<x, Whole(2), Everything>>) : x \in Atoms}
      \cup {Apply("get", <<x, Words(<<"w">>), Var("a")>>) : x \in Others}
      \cup Atoms

Bodies ==
    {Var("a"), Var("A"), Whole(2), Words(<<"a", "q">>), Apply("lt", <<Var("a"), Whole(2)>>), Apply("add", <<Var("a"), Var("A")>>),
     Apply("array", <<Var("a"), Var("A")>>), Apply("eq", <<Var("a"), In("q")>>),
     Object("w", Var("a"), "A", Var("a")),
     Over("map", <<"a", "A">>, In("a"), Apply("mul", <<Var("A"), Var("A")>>)),
     Over("filter", <<"A">>, In("a"), Apply("ne", <<Var("A"), Var("a")>>))}

Loops ==
    {Over(op, names, source, body) :
       op \in CollectionOps, names \in {<<"a">>, <<"a", "A">>, <<"a", "a">>},
       source \in {In("a"), Var("a"), List(<<IntOf(2), FloatOf(4), IntOf(-1)>>),
                   List(<<Null, BoolOf(TRUE), TextOf(<<"a">>)>>)}, body \in Bodies}

Nested ==
    {Descending(Over("sort", <<"a">>, In("a"), body)) : body \in Bodies}
      \cup {Apply("sum", <<loop>>) : loop \in Loops}
      \cup {Object("w", Apply("array", <<x, Everything>>), "A", y) : x \in Numbers \cup Lists, y \in Lists}
      \cup {Apply("array", <<Apply("array", <<x>>), Apply("concat", <<Words(<<"a">>), y>>), z>>) :
              x \in Lists, y \in Texts, z \in {Var("a"), Whole(2), In("w")}}

Schemas ==
    {[type |-> <<"object">>], [type |-> <<"object">>, required |-> <<"names", <<"a">>>>],
     [type |-> <<"integer", "string">>], [type |-> <<"integer">>, minLength |-> 1],
     [enum |-> <<IntOf(2), TextOf(<<"a">>)>>], [enum |-> <<IntOf(2), FloatOf(4)>>],
     [type |-> <<"array">>, items |-> [type |-> <<"number">>, minimum |-> FloatOf(-2)], maxItems |-> 3],
     [properties |-> <<"object", [n \in {"a"} |-> [type |-> <<"array">>, minItems |-> 1]]>>,
      additionalProperties |-> BoolOf(FALSE)],
     [additionalProperties |-> <<"schema", [minimum |-> IntOf(2), maximum |-> FloatOf(1)]>>],
     [additionalProperties |-> <<"schema", [type |-> <<"number", "array">>]>>, maxProperties |-> 2],
     [properties |-> Null, required |-> Null], [properties |-> Null]}

(* Whole floats that are spelled as the integer they equal, as another one  *)
(* and with an exponent, and integers next to them.                        *)
Large == {Half(h) : h \in {16, -64, 64, 96, 112, -128}}
Near == {Whole(n) : n \in {2, 7, 30, 32, 48, 56}}

Huge ==
    Pairs({"add", "mod"}, Large, Large \cup Near) \cup Pairs({"sub", "eq"}, Large, Near) \cup Pairs({"add"}, Near, Large)
      \cup Pairs({"min", "lt", "mul", "div"}, Large, {Half(64), Half(96), Whole(30), Whole(7)})
      \cup Pairs({"pow"}, Large, {Half(1), Whole(2), Whole(-1)})
      \cup Pairs({"round"}, Large, {Whole(0), Whole(-1)})
      \cup {Apply(op, <<Apply("add", <<x, Half(h)>>), y>>) :
              op \in {"mod", "eq"}, x \in {Half(48), Half(56)}, h \in {16, 48, 56}, y \in {Whole(4), Whole(32), Whole(56)}}
      \cup {Apply("eq", <<Apply("array", <<x>>), Apply("array", <<y>>)>>) : x \in Large, y \in {Whole(32), Half(64), Whole(56)}}
      \cup {Apply("sum", <<List(<<x.value, y.value>>)>>) : x \in Large, y \in {Whole(30), Half(64)}}
      \cup {Over("sort", <<"a">>, List(<<x.value, IntOf(31), y.value>>), Var("a")) : x \in Large, y \in {Whole(30), Half(64)}}
      \cup {Apply(op, <<In("w"), x>>) : op \in {"add", "mod", "eq"}, x \in {Half(64), Whole(7), Whole(30)}}

LargeSchemas ==
    {[enum |-> <<FloatOf(64), IntOf(30)>>], [enum |-> <<FloatOf(64), IntOf(32)>>], [enum |-> <<FloatOf(112), IntOf(56)>>],
     [enum |-> <<ArrayOf(<<FloatOf(64)>>), FloatOf(16)>>], [enum |-> <<ArrayOf(<<IntOf(56)>>), IntOf(56)>>],
     [type |-> <<"number">>, minimum |-> FloatOf(64)], [maximum |-> FloatOf(96)], [maximum |-> FloatOf(112)]}

Bounded ==
    Large \cup {In("w"), Whole(30), Whole(56), Apply("array", <<Half(64)>>), Apply("array", <<Whole(30)>>),
                Apply("array", <<Whole(56)>>), Apply("array", <<Apply("add", <<Half(56), Half(56)>>)>>)}

Guarded == {Everything, In("a"), Apply("sum", <<In("a")>>), In("q"), Apply("mod", <<In("q"), Whole(2)>>)}

MCPrograms ==
    {[expression |-> e, input_schema |-> <<>>, output_schema |-> <<>>] : e \in Calls \cup Loops \cup Nested \cup Huge}
      \cup {[expression |-> e, input_schema |-> <<s>>, output_schema |-> <<>>] : e \in Guarded, s \in Schemas}
      \cup {[expression |-> e, input_schema |-> <<>>, output_schema |-> <<s>>] : e \in Guarded, s \in Schemas}
      \cup {[expression |-> e, input_schema |-> <<>>, output_schema |-> <<s>>] : e \in Bounded, s \in LargeSchemas}

MCInputs ==
    {Null, IntOf(2),
     ObjectOf([n \in {"a", "q"} |-> IF n = "a" THEN ArrayOf(<<IntOf(2), FloatOf(1), FloatOf(4)>>) ELSE FloatOf(4)]),
     ObjectOf([n \in {"a", "w"} |-> IF n = "a" THEN ArrayOf(<<TextOf(<<"a">>), ArrayOf(<<IntOf(9)>>)>>)
                                ELSE FloatOf(64)])}

Roomy == [nodes |-> 40, depth |-> 8, items |-> 6, evaluations |-> 40, input |-> 60, output |-> 90,
          exponent |-> 6, bits |-> 20, digits |-> 2]

MCLimits ==
    {Roomy, [Roomy EXCEPT !.output = 9, !.items = 2], [Roomy EXCEPT !.depth = 2, !.bits = 3, !.exponent = 2],
     [Roomy EXCEPT !.evaluations = 4, !.nodes = 4, !.input = 20, !.digits = 1, !.output = 16],
     [Roomy EXCEPT !.output = 5], [Roomy EXCEPT !.output = 13, !.evaluations = 12]}
=============================================================================
