-------------------------------- MODULE Engine --------------------------------
(***************************************************************************)
(* The expression engine: static validation, evaluation under budgets, and *)
(* a run of a program from its validation to its checked output.  A run is *)
(* repeated with what a store keeps of the program and of the input.       *)
(*                                                                         *)
(* A node is a record of an operation, its operands in the order they are  *)
(* checked, its names (the fields of an object, the variables of a map,    *)
(* the name of an input) and its value (of a literal, or whether a sort    *)
(* is descending).                                                         *)
(***************************************************************************)
EXTENDS EngineOperators, Schema

CONSTANTS Programs,   \* [expression, input_schema, output_schema], schemas as <<>> or <<schema>>
          Inputs,     \* the inputs of a run
          Limits      \* the limits of an engine

VARIABLES program, inputs, limits, stage, result, first
vars == <<program, inputs, limits, stage, result, first>>

CollectionOps == {"map", "filter", "sort"}
LazyOps == {"and", "or", "coalesce"}

(* The numbers of arguments each operation takes. *)
Many == 9
Arity(op) ==
    CASE op \in {"lower", "upper", "strip", "length", "abs", "not"} -> 1 .. 1
      [] op = "round" -> 1 .. 2
      [] op \in {"sub", "div", "mod", "pow", "split", "join", "eq", "ne", "lt", "lte", "gt", "gte"} -> 2 .. 2
      [] op = "slice" -> 2 .. 3
      [] op \in {"replace", "if"} -> 3 .. 3
      [] op \in {"add", "mul"} -> 2 .. Many
      [] op = "concat" -> 0 .. Many
      [] op \in {"min", "max", "and", "or", "coalesce"} -> 1 .. Many
      [] OTHER -> 0 .. Many

-----------------------------------------------------------------------------
(* The size of a collection up to its next member, whose key takes so many *)
(* bytes: there is a comma before every member but the first.              *)
ReservedWithoutComma(total, count, key) == total + key
Reserved(total, count, key) == total + (IF count = 0 THEN 0 ELSE 1) + key

(* _bounded_json_size: the size of a value, or the first limit it breaks.  *)
RECURSIVE BoundedSize(_, _, _, _, _)
BoundedSize(v, maximum, depth, code, l) ==
    LET Fit(n) == IF n > maximum THEN Fail(code) ELSE IntOf(n)
        Key(i) == IF v[1] = "object" THEN Bytes(Names(v)[i]) + 3 ELSE 0
        Member(acc, i) ==
          LET start == Reserved(acc[2], i - 1, Key(i))
              size == BoundedSize(Members(v)[i], maximum - start, depth + 1, code, l)
          IN  IF Failed(acc) THEN acc
              ELSE IF start > maximum THEN Fail(code)
              ELSE IF Failed(size) THEN size
              ELSE Fit(start + size[2])
    IN  IF depth > l.depth THEN Fail("VALUE_DEPTH_LIMIT")
        ELSE IF v[1] = "int" /\ BitLength(v[2]) > l.bits THEN Fail("INTEGER_LIMIT")
        ELSE IF ~IsCollection(v) THEN Fit(ScalarSize(v))
        ELSE IF Cardinality(DOMAIN v[2]) > l.items THEN Fail("COLLECTION_LIMIT")
        ELSE IF Failed(Fit(2)) THEN Fit(2)
        ELSE FoldLeft(Member, IntOf(2), [i \in DOMAIN Members(v) |-> i])

(* What a value asks of the limits, of which size bytes for a text.        *)
Asks(v, size) ==
    [Nothing EXCEPT
       !.size = size, !.depth = Depth(v),
       !.items = Max({0} \cup {Cardinality(DOMAIN w[2]) : w \in {u \in Within(v) : IsCollection(u)}}),
       !.bits = Max({0} \cup {BitLength(w[2]) : w \in {u \in Within(v) : u[1] = "int"}}),
       !.respelled = IF \E w \in Within(v) : Respelled(w) THEN 1 ELSE 0]

-----------------------------------------------------------------------------
(* The variables in scope of an operand: those of a map, filter or sort    *)
(* exist in its body only.                                                 *)
ScopeEverywhere(e, i, scope) == IF e.op \in CollectionOps THEN scope \cup ToSet(e.names) ELSE scope
Scope(e, i, scope) == IF e.op \in CollectionOps /\ i = 2 THEN scope \cup ToSet(e.names) ELSE scope

(* Static validation, in the order of the code: the number of nodes met    *)
(* and the code of the first error.                                        *)
RECURSIVE Check(_, _, _, _, _)
Check(e, depth, scope, nodes, l) ==
    LET Stop(code) == [nodes |-> nodes + 1, code |-> code]
        Child(acc, i) ==
          IF acc.code # "" THEN acc ELSE Check(e.args[i], depth + 1, Scope(e, i, scope), acc.nodes, l)
        literal == BoundedSize(e.value, l.output, 1, "OUTPUT_LIMIT", l)
    IN  CASE depth > l.depth -> [nodes |-> nodes, code |-> "DEPTH_LIMIT"]
          [] depth <= l.depth /\ nodes + 1 > l.nodes -> Stop("NODE_LIMIT")
          [] OTHER ->
               IF e.op = "literal" /\ Failed(literal) THEN Stop(literal[2])
               ELSE IF e.op = "var" /\ e.names[1] \notin scope THEN Stop("UNBOUND_VARIABLE")
               ELSE IF e.op \in CollectionOps /\ ~Distinct(e.names) THEN Stop("DUPLICATE_VARIABLE")
               ELSE IF Len(e.args) \notin Arity(e.op) THEN Stop("INVALID_ARITY")
               ELSE IF e.op \notin CollectionOps \cup {"get", "sum"} /\ Len(e.args) > l.items
                    THEN Stop("COLLECTION_LIMIT")
               ELSE FoldLeft(Child, Stop(""), [i \in DOMAIN e.args |-> i])

(* validate_program *)
ProgramError(p, l) ==
    IF \E s \in ToSet(p.input_schema \o p.output_schema) : ~ValidSchema(s) THEN "SCHEMA"
    ELSE Check(p.expression, 1, {}, 0, l).code

-----------------------------------------------------------------------------
(* Evaluation.  An outcome carries the number of evaluations made so far   *)
(* and, next to what the code keeps, what was asked of the limits.         *)
Bind(environment, names, item, index) ==
    (IF Len(names) = 2 THEN names[2] :> IntOf(index - 1) ELSE <<>>) @@ (names[1] :> item) @@ environment

Lookup(target, key) ==
    CASE target[1] = "object" /\ key[1] # "text" -> Fail("TYPE_MISMATCH")
      [] target[1] = "object" /\ key[1] = "text" ->
           IF Len(key[2]) = 1 /\ key[2][1] \in DOMAIN target[2] THEN target[2][key[2][1]]
           ELSE Fail("MISSING_KEY")
      [] target[1] \in {"array", "text"} /\ key[1] = "int" ->
           LET length == Len(target[2])
               at == IF key[2] < 0 THEN key[2] + length + 1 ELSE key[2] + 1
           IN  IF at \notin 1 .. length THEN Fail("MISSING_KEY")
               ELSE IF target[1] = "text" THEN TextOf(<<target[2][at]>>) ELSE target[2][at]
      [] OTHER -> Fail("TYPE_MISMATCH")

RECURSIVE Eval(_, _, _, _)

(* Children in their order, into a collection whose size is kept within    *)
(* the output limit as it grows: arguments, fields, items, mapped values   *)
(* or sort keys.  The tests of a filter are not sized.                     *)
Gather(children, role, used, c) ==
    LET Tested(met, test) ==
          IF Failed(test) THEN [met EXCEPT !.out = test]
          ELSE IF test[1] # "bool" THEN [met EXCEPT !.out = Fail("TYPE_MISMATCH")]
          ELSE [met EXCEPT !.values = Append(@, test)]
        Kept(acc, v, start, size) ==
          IF Failed(size) THEN [acc EXCEPT !.out = size]
          ELSE IF role = "key" /\ KeyKind(v) = 4 THEN [acc EXCEPT !.out = Fail("INVALID_SORT_KEY")]
          ELSE [acc EXCEPT !.values = Append(@, v), !.total = start + size[2]]
        Sized(met, v, start) ==
          LET whole == CanonicalSize(ArrayOf(Append(met.values, v)))
                         + MapThenSumSet(LAMBDA i : children[i].key, 1 .. Len(met.values) + 1)
          IN  IF Failed(v) THEN [met EXCEPT !.out = v, !.need.size = Max({@, start})]
              ELSE Kept(Demand(Asks(v, whole), met), v, start,
                        BoundedSize(v, c.limits.output - start, 1, "OUTPUT_LIMIT", c.limits))
        Met(acc, start, r) ==
          LET met == [acc EXCEPT !.used = r.used, !.need = Both(@, r.need)]
          IN  IF role = "test" THEN Tested(met, r.out)
              ELSE IF start > c.limits.output THEN [acc EXCEPT !.out = Fail("OUTPUT_LIMIT")]
              ELSE Sized(met, r.out, start)
        Step(acc, child) ==
          IF Failed(acc.out) THEN acc
          ELSE Met(acc, Reserved(acc.total, Len(acc.values), child.key),
                   Eval(child.node, child.env, acc.used, c))
    IN  FoldLeft(Step, [values |-> <<>>, total |-> 2, out |-> Null, used |-> used, need |-> Nothing],
                 children)

(* An outcome after so many evaluations. *)
After(used, outcome) == [out |-> outcome.out, used |-> used, need |-> outcome.need]

(* and, or and coalesce: up to the first argument that decides. *)
RECURSIVE Decide(_, _, _, _, _)
Decide(e, i, env, used, c) ==
    LET From(r) ==
          IF Failed(r.out) THEN r
          ELSE IF e.op # "coalesce" /\ r.out[1] # "bool" THEN [r EXCEPT !.out = Fail("TYPE_MISMATCH")]
          ELSE IF i = Len(e.args) \/ (e.op = "coalesce" /\ r.out # Null)
                 \/ (e.op # "coalesce" /\ r.out[2] = (e.op = "or")) THEN r
          ELSE Demand(r.need, Decide(e, i + 1, env, r.used, c))
    IN  From(Eval(e.args[i], env, used, c))

(* map, filter and sort, from the evaluated source and bodies. *)
Collect(e, items, bodies) ==
    LET kept == SelectSeq([i \in DOMAIN items |-> i], LAMBDA i : bodies.values[i] = BoolOf(TRUE))
        over == CASE e.op = "map" -> bodies.values
                  [] e.op = "filter" -> [k \in DOMAIN kept |-> items[kept[k]]]
                  [] e.op = "sort" -> Sorted(items, bodies.values, e.value = BoolOf(TRUE))
    IN  After(bodies.used, [bodies EXCEPT !.out = IF Failed(@) THEN @ ELSE ArrayOf(over)])

EvalOver(e, env, used, c) ==
    LET Each(items) ==
          [i \in DOMAIN items |-> [node |-> e.args[2], key |-> 0, env |-> Bind(env, e.names, items[i], i)]]
        role == CASE e.op = "map" -> "item" [] e.op = "filter" -> "test" [] e.op = "sort" -> "key"
        Over(source) ==
          IF Failed(source.out) THEN source
          ELSE Demand(source.need,
                      IF e.op = "sum" THEN After(source.used, Sum(source.out[2], c.limits))
                      ELSE Collect(e, source.out[2], Gather(Each(source.out[2]), role, source.used, c)))
        From(r) == IF Failed(r.out) THEN r
                   ELSE Over(After(r.used, Demand(r.need, Collection(r.out, c.limits))))
    IN  From(Eval(e.args[1], env, used, c))

Get(e, env, used, c) ==
    LET Found(key, found) ==
          IF found = Fail("MISSING_KEY") /\ Len(e.args) = 3
          THEN Demand(key.need, Eval(e.args[3], env, key.used, c))
          ELSE [key EXCEPT !.out = found]
        At(target, key) == IF Failed(key.out) THEN key ELSE Found(key, Lookup(target.out, key.out))
        From(target) ==
          IF Failed(target.out) THEN target
          ELSE At(target, Demand(target.need, Eval(e.args[2], env, target.used, c)))
    IN  From(Eval(e.args[1], env, used, c))

Branch(e, env, used, c) ==
    LET From(test) ==
          IF Failed(test.out) THEN test
          ELSE IF test.out[1] # "bool" THEN [test EXCEPT !.out = Fail("TYPE_MISMATCH")]
          ELSE Demand(test.need, Eval(e.args[IF test.out[2] THEN 2 ELSE 3], env, test.used, c))
    IN  From(Eval(e.args[1], env, used, c))

Input(names, value) ==
    IF names = <<>> THEN value
    ELSE IF value[1] # "object" THEN Fail("TYPE_MISMATCH")
    ELSE IF names[1] \in DOMAIN value[2] THEN value[2][names[1]]
    ELSE Fail("MISSING_INPUT")

(* What an array, an object or an operation makes of its arguments. *)
Build(e, arguments, c) ==
    LET vs == arguments.values
        made == CASE e.op = "array" -> Gives(ArrayOf(vs))
                  [] e.op = "object" ->
                       Gives(ObjectOf([n \in ToSet(e.names) |-> vs[CHOOSE i \in DOMAIN e.names : e.names[i] = n]]))
                  [] OTHER -> Operate(e.op, vs, c.limits)
    IN  After(arguments.used,
              IF Failed(arguments.out) THEN arguments ELSE Demand(arguments.need, made))

Eval(e, env, before, c) ==
    LET used == before + 1
        Leaf(v) == After(used, Gives(v))
        Key(i) == IF e.op = "object" THEN Bytes(e.names[i]) + 3 ELSE 0
        children == [i \in DOMAIN e.args |-> [node |-> e.args[i], key |-> Key(i), env |-> env]]
    IN  IF used > c.limits.evaluations THEN Leaf(Fail("EVALUATION_LIMIT"))
        ELSE CASE e.op = "literal" -> Leaf(e.value)
               [] e.op = "input" -> Leaf(Input(e.names, c.inputs))
               [] e.op = "var" -> Leaf(IF e.names[1] \in DOMAIN env THEN env[e.names[1]]
                                       ELSE Fail("UNBOUND_VARIABLE"))
               [] e.op = "get" -> Get(e, env, used, c)
               [] e.op = "if" -> Branch(e, env, used, c)
               [] e.op \in LazyOps -> Decide(e, 1, env, used, c)
               [] e.op \in CollectionOps \cup {"sum"} -> EvalOver(e, env, used, c)
               [] OTHER -> Build(e, Gather(children, "item", used, c), c)
-----------------------------------------------------------------------------
(* A run. *)
Init ==
    /\ program \in Programs
    /\ inputs \in Inputs
    /\ limits \in Limits
    /\ stage = "submitted"
    /\ result = Null
    /\ first = <<>>

(* validate_program *)
Validate ==
    /\ stage = "submitted"
    /\ LET code == ProgramError(program, limits)
       IN  /\ stage' = IF code = "" THEN "validated" ELSE "rejected"
           /\ result' = IF code = "" THEN Null ELSE Fail(code)
    /\ UNCHANGED <<program, inputs, limits, first>>

(* No input is an empty object. *)
Given(v) == IF v = Null THEN ObjectOf(<<>>) ELSE v

(* What the two uses of a schema make of a value. *)
Validated(v, schema, code) ==
    IF schema = <<>> \/ Verdict(v, schema[1]) = "accepts" THEN v
    ELSE Fail(IF Verdict(v, schema[1]) = "crashes" THEN "TypeError" ELSE code)

(* _preflight_inputs and validate_instance *)
Admit ==
    /\ stage = "validated"
    /\ LET given == Given(inputs)
           size == BoundedSize(given, limits.input, 1, "INPUT_LIMIT", limits)
           checked == IF Failed(size) THEN size ELSE Validated(given, program.input_schema, "INPUT_SCHEMA")
       IN  /\ stage' = IF Failed(checked) THEN "refused" ELSE "admitted"
           /\ result' = IF Failed(checked) THEN checked ELSE Null
    /\ UNCHANGED <<program, inputs, limits, first>>

Evaluation(l) == Eval(program.expression, <<>>, 0, [inputs |-> Given(inputs), limits |-> l])

(* _Runtime.evaluate sizes the variables, of which a program has none,     *)
(* evaluates the expression and sizes its value.                           *)
Evaluated ==
    LET variables == BoundedSize(ObjectOf(<<>>), limits.input, 1, "INPUT_LIMIT", limits)
        Measured(v, size) == IF Failed(v) \/ ~Failed(size) THEN v ELSE size
        Sized(v) == Measured(v, BoundedSize(v, limits.output, 1, "OUTPUT_LIMIT", limits))
    IN  IF Failed(variables) THEN variables ELSE Sized(Evaluation(limits).out)

EvaluateRegardless ==
    /\ stage = "admitted"
    /\ result' = Evaluated
    /\ stage' = "evaluated"
    /\ UNCHANGED <<program, inputs, limits, first>>

Evaluate ==
    /\ stage = "admitted"
    /\ result' = Evaluated
    /\ stage' = IF Failed(result') THEN "failed" ELSE "evaluated"
    /\ UNCHANGED <<program, inputs, limits, first>>

(* validate_output *)
Release ==
    /\ stage = "evaluated"
    /\ result' = Validated(result, program.output_schema, "OUTPUT_SCHEMA")
    /\ stage' = IF Failed(result') THEN "withheld" ELSE "done"
    /\ UNCHANGED <<program, inputs, limits, first>>

(* What a program and an input are once they were written in canonical     *)
(* form and read back: floats without fraction are the integers they are   *)
(* spelled like, up to a magnitude, and the fields of an object are sorted.*)
RECURSIVE StoredExpression(_)
StoredExpression(e) ==
    LET order == IF e.op = "object" THEN SetToSortSeq(DOMAIN e.args, LAMBDA i, j : NameBefore(e.names[i], e.names[j]))
                 ELSE [i \in DOMAIN e.args |-> i]
    IN  [e EXCEPT !.value = Stored(@),
                  !.names = IF e.op = "object" THEN [i \in DOMAIN order |-> @[order[i]]] ELSE @,
                  !.args = [i \in DOMAIN order |-> StoredExpression(@[order[i]])]]

StoredSchemas(schemas) == [i \in DOMAIN schemas |-> StoredSchema(schemas[i])]

StoredProgram(p) ==
    [expression |-> StoredExpression(p.expression),
     input_schema |-> StoredSchemas(p.input_schema), output_schema |-> StoredSchemas(p.output_schema)]

(* The values a program, its input and its result consist of. *)
RECURSIVE Literals(_)
Literals(e) == {e.value} \cup UNION {Literals(e.args[i]) : i \in DOMAIN e.args}

Preserved ==
    LET schemas == ToSet(program.input_schema \o program.output_schema)
        values == {inputs, result} \cup Literals(program.expression) \cup UNION {SchemaValues(s) : s \in schemas}
    IN  UNION {Within(v) : v \in values}

(* The run is kept, with its program, and repeated later.  What is recorded *)
(* of it: its output, whether a float was rounded, and whether one was     *)
(* kept or met whose spelling is not that of the integer it equals.        *)
Store ==
    /\ stage = "done" /\ first = <<>>
    /\ LET need == Evaluation(limits).need
       IN  first' = <<[output |-> Stored(result), rounded |-> need.rounded = 1,
                       respelled |-> need.respelled = 1 \/ \E v \in Preserved : Respelled(v)]>>
    /\ program' = StoredProgram(program)
    /\ inputs' = Stored(inputs)
    /\ stage' = "submitted"
    /\ result' = Null
    /\ UNCHANGED limits

Next == Validate \/ Admit \/ Evaluate \/ Release \/ Store

Spec == Init /\ [][Next]_vars

-----------------------------------------------------------------------------
(* A run carries an error exactly in the stages where it was turned away,  *)
(* and what is kept of a run is the output of a success.                   *)
TypeOK ==
    /\ stage \in {"submitted", "validated", "rejected", "admitted", "refused", "evaluated", "failed",
                  "done", "withheld"}
    /\ Failed(result) <=> stage \in {"rejected", "refused", "failed", "withheld"}
    /\ stage \in {"submitted", "validated", "admitted"} => result = Null
    /\ limits \in Limits
    /\ first # <<>> => ~Failed(first[1].output) /\ {first[1].rounded, first[1].respelled} \subseteq BOOLEAN

(* An expression and its parts, its height and the variables it leaves     *)
(* free: what static validation decides, stated without its order.         *)
RECURSIVE Parts(_), Height(_), NodeCount(_), Free(_)
Parts(e) == {e} \cup UNION {Parts(e.args[i]) : i \in DOMAIN e.args}
Height(e) == 1 + Max({0} \cup {Height(e.args[i]) : i \in DOMAIN e.args})
NodeCount(e) == 1 + MapThenSumSet(LAMBDA i : NodeCount(e.args[i]), DOMAIN e.args)
Free(e) ==
    IF e.op = "var" THEN ToSet(e.names)
    ELSE IF e.op \in CollectionOps THEN Free(e.args[1]) \cup (Free(e.args[2]) \ ToSet(e.names))
    ELSE UNION {Free(e.args[i]) : i \in DOMAIN e.args}

WellFormed(e, l) ==
    /\ Height(e) <= l.depth /\ NodeCount(e) <= l.nodes /\ Free(e) = {}
    /\ \A p \in Parts(e) :
         /\ Len(p.args) \in Arity(p.op)
         /\ p.op \notin CollectionOps \cup {"get", "sum"} => Len(p.args) <= l.items
         /\ p.op \in CollectionOps => Distinct(p.names)
         /\ p.op = "literal" =>
              LET extent == Asks(p.value, CanonicalSize(p.value))
              IN  extent.size <= l.output /\ extent.depth <= l.depth /\ extent.items <= l.items
                    /\ extent.bits <= l.bits

(* Validation lets through the expressions that are within the limits and  *)
(* use no variable out of its scope, and only those: no evaluation meets   *)
(* an unbound variable.                                                    *)
ValidationIsExact ==
    /\ stage \in {"validated", "admitted"} => WellFormed(program.expression, limits)
    /\ stage = "rejected" =>
         \/ result = Fail("SCHEMA")
         \/ ~WellFormed(program.expression, limits)
    /\ result # Fail("UNBOUND_VARIABLE") \/ stage = "rejected"

LimitCodes == {"EVALUATION_LIMIT", "OUTPUT_LIMIT", "INPUT_LIMIT", "VALUE_DEPTH_LIMIT", "COLLECTION_LIMIT",
               "INTEGER_LIMIT", "POWER_LIMIT", "ROUND_LIMIT"}

(* Limits no program of the instance reaches: integers of TLC have less    *)
(* than 31 bits.                                                           *)
Ample ==
    [r \in {"nodes", "depth", "items", "evaluations", "input", "output", "exponent", "bits", "digits"} |->
       IF r = "bits" THEN 30 ELSE 1000]

Affords(l, need, used) ==
    /\ need.size <= l.output /\ need.depth <= l.depth /\ need.items <= l.items /\ need.bits <= l.bits
    /\ need.exponent <= l.exponent /\ need.digits <= l.digits /\ used <= l.evaluations

(* The budgets bound what they name and nothing else: an evaluation ends   *)
(* with a limit error exactly when the sizes of the values it builds, by   *)
(* their canonical texts, or its steps exceed a limit, and with the result *)
(* of an evaluation without limits otherwise.  The running totals of the   *)
(* code, the sizes it foresees and its nested reductions all add up.       *)
BudgetsAreExact ==
    /\ stage = "admitted" =>
         LET Exact(free, limited) ==
               IF Affords(limits, free.need, free.used) THEN limited = free.out
               ELSE Failed(limited) /\ limited[2] \in LimitCodes
         IN  Exact(Evaluation(Ample), Evaluation(limits).out)
    /\ stage \in {"admitted", "refused"} =>
         (result = Fail("INPUT_LIMIT") => CanonicalSize(Given(inputs)) > limits.input)
    /\ stage = "admitted" => CanonicalSize(Given(inputs)) <= limits.input

(* A run that succeeded, rounded no float and met none that is spelled     *)
(* otherwise than the integer it equals succeeds again from what was       *)
(* stored of its program and its input, with the same canonical output:    *)
(* receipts prove a replay.  Integers have room, as they have by default,  *)
(* for every float and for what a power foresees of one.                   *)
StoredProgramsAgree ==
    (/\ first # <<>> /\ ~first[1].rounded /\ ~first[1].respelled
     /\ limits.bits >= 2 * BitLength(MaxFloat) + limits.exponent) =>
      /\ ~Failed(result)
      /\ stage \in {"evaluated", "done"} => Stored(result) = first[1].output
=============================================================================
