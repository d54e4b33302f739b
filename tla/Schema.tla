-------------------------------- MODULE Schema --------------------------------
(***************************************************************************)
(* The JSON Schema subset of schema.py.  A schema is a record whose fields *)
(* are its keywords.  Keywords whose payload may be the JSON null carry a  *)
(* tag, since null is treated apart from an absent keyword.                *)
(***************************************************************************)
EXTENDS JsonValues

Has(s, keyword) == keyword \in DOMAIN s

TypeNames == {"null", "boolean", "integer", "number", "string", "array", "object"}

(* The types one of which a schema with this keyword must allow, if it     *)
(* declares any.                                                           *)
AppliesTo ==
    [properties |-> {"object"}, required |-> {"object"}, additionalProperties |-> {"object"},
     minProperties |-> {"object"}, maxProperties |-> {"object"},
     items |-> {"array"}, minItems |-> {"array"}, maxItems |-> {"array"},
     minLength |-> {"string"}, maxLength |-> {"string"},
     minimum |-> {"number", "integer"}, maximum |-> {"number", "integer"}]

Distinct(s) == \A i, j \in DOMAIN s : s[i] = s[j] => i = j

Ordered(s, lower, upper) == Has(s, lower) /\ Has(s, upper) => s[lower] <= s[upper]

(* validate_schema.  A null under properties, required or                  *)
(* additionalProperties is taken for an absent keyword.                    *)
RECURSIVE ValidSchema(_)
ValidSchema(s) ==
    /\ DOMAIN s \subseteq DOMAIN AppliesTo \cup {"type", "enum"}
    /\ Has(s, "type") =>
         /\ s.type # <<>> /\ ToSet(s.type) \subseteq TypeNames /\ Distinct(s.type)
         /\ \A k \in DOMAIN s \cap DOMAIN AppliesTo : ToSet(s.type) \cap AppliesTo[k] # {}
    /\ Has(s, "properties") /\ s.properties # Null =>
         \A n \in DOMAIN s.properties[2] : ValidSchema(s.properties[2][n])
    /\ Has(s, "required") /\ s.required # Null => Distinct(s.required[2])
    /\ Has(s, "additionalProperties") /\ s.additionalProperties[1] = "schema" =>
         ValidSchema(s.additionalProperties[2])
    /\ Has(s, "items") => ValidSchema(s.items)
    /\ Has(s, "enum") => s.enum # <<>> /\ Distinct([i \in DOMAIN s.enum |-> Stored(s.enum[i])])
    /\ Has(s, "minimum") /\ Has(s, "maximum") => Halves(s.minimum) <= Halves(s.maximum)
    /\ Ordered(s, "minLength", "maxLength")
    /\ Ordered(s, "minItems", "maxItems")
    /\ Ordered(s, "minProperties", "maxProperties")

-----------------------------------------------------------------------------
HasType(v, type) ==
    CASE type = "null" -> v[1] = "null"
      [] type = "boolean" -> v[1] = "bool"
      [] type = "integer" -> v[1] = "int"
      [] type = "number" -> IsNumber(v)
      [] type = "string" -> v[1] = "text"
      [] OTHER -> v[1] = type

InBounds(n, s, lower, upper) ==
    /\ Has(s, lower) => n >= s[lower]
    /\ Has(s, upper) => n <= s[upper]

(* The checks that look at a value and not into it. *)
Conforms(v, s) ==
    /\ Has(s, "type") => \E i \in DOMAIN s.type : HasType(v, s.type[i])
    /\ Has(s, "enum") => \E i \in DOMAIN s.enum : SameJson(v, s.enum[i])
    /\ IsNumber(v) => /\ Has(s, "minimum") => Halves(v) >= Halves(s.minimum)
                      /\ Has(s, "maximum") => Halves(v) <= Halves(s.maximum)
    /\ v[1] = "text" => InBounds(Len(v[2]), s, "minLength", "maxLength")
    /\ v[1] = "array" => InBounds(Len(v[2]), s, "minItems", "maxItems")
    /\ v[1] = "object" => InBounds(Cardinality(DOMAIN v[2]), s, "minProperties", "maxProperties")

(* Which of two members that fail is met first is left out: an exception   *)
(* of the validator itself comes before a rejection.                       *)
Worst(verdicts) ==
    IF "crashes" \in verdicts THEN "crashes" ELSE IF "rejects" \in verdicts THEN "rejects" ELSE "accepts"

(* _validate_value: it iterates over a null under required, and looks for  *)
(* names in a null under properties, which raises in the host language.    *)
RECURSIVE Verdict(_, _)
Verdict(v, s) ==
    LET Member(n) ==
          IF Has(s, "properties") /\ n \in DOMAIN s.properties[2]
          THEN Verdict(v[2][n], s.properties[2][n])
          ELSE IF ~Has(s, "additionalProperties") THEN "accepts"
          ELSE IF s.additionalProperties = BoolOf(FALSE) THEN "rejects"
          ELSE IF s.additionalProperties[1] = "schema"
               THEN Verdict(v[2][n], s.additionalProperties[2])
          ELSE "accepts"
    IN  IF ~Conforms(v, s) THEN "rejects"
        ELSE IF v[1] = "array"
             THEN IF Has(s, "items")
                  THEN Worst({Verdict(v[2][i], s.items) : i \in DOMAIN v[2]})
                  ELSE "accepts"
        ELSE IF v[1] # "object" THEN "accepts"
        ELSE IF Has(s, "required") /\ s.required = Null THEN "crashes"
        ELSE IF Has(s, "required") /\ ~(ToSet(s.required[2]) \subseteq DOMAIN v[2]) THEN "rejects"
        ELSE IF Has(s, "properties") /\ s.properties = Null /\ v[2] # <<>> THEN "crashes"
        ELSE Worst({Member(n) : n \in DOMAIN v[2]})

(* The values a schema compares with. *)
RECURSIVE SchemaValues(_)
SchemaValues(s) ==
    UNION {CASE k \in {"minimum", "maximum"} -> {s[k]}
             [] k = "enum" -> ToSet(s.enum)
             [] k = "items" -> SchemaValues(s.items)
             [] k = "properties" /\ s[k] # Null ->
                  UNION {SchemaValues(s[k][2][n]) : n \in DOMAIN s[k][2]}
             [] k = "additionalProperties" /\ s[k][1] = "schema" -> SchemaValues(s[k][2])
             [] OTHER -> {} : k \in DOMAIN s}

(* What is left of a schema that was written and read back. *)
RECURSIVE StoredSchema(_)
StoredSchema(s) ==
    [k \in DOMAIN s |->
       CASE k \in {"minimum", "maximum"} -> Stored(s[k])
         [] k = "enum" -> [i \in DOMAIN s.enum |-> Stored(s.enum[i])]
         [] k = "items" -> StoredSchema(s.items)
         [] k = "properties" /\ s[k] # Null ->
              <<"object", [n \in DOMAIN s[k][2] |-> StoredSchema(s[k][2][n])]>>
         [] k = "additionalProperties" /\ s[k][1] = "schema" -> <<"schema", StoredSchema(s[k][2])>>
         [] OTHER -> s[k]]
=============================================================================
