--------------------------- MODULE MCStreamedCalls ---------------------------
(* Small turns of one or two calls for TLC. *)
EXTENDS StreamedCalls

CONSTANTS i1, i2

Texts ==
    {<<>>, <<"open", "x", "close">>, <<"space", "open", "x", "close">>, <<"space", "space", "open", "close">>,
     <<"open", "quote", "open", "quote", "x", "close">>, <<"open", "x">>}

(* Objects in an object, one of them cut where the rest would be one, and  *)
(* text that is none as a whole and yet ends in one.                       *)
LongTexts == Texts \cup {<<"open", "open", "close", "close">>, <<"open", "x", "open", "x", "close", "close">>, <<"open", "open", "close">>}

MCCall(id, name, text) == [id |-> id, name |-> <<name>>, text |-> text]
OneCall(ids) == {<<MCCall(id, "f", text)>> : id \in ids, text \in LongTexts}
TwoCalls == {<<MCCall(i1, "f", t), MCCall(i2, "g", u)>> : t \in Texts, u \in Texts}

MCStreams ==
    [calls : OneCall({i1}) \cup TwoCalls, layout : {"result", "any"}, ids : {"every"}, whole : BOOLEAN]
      \cup [calls : OneCall({i1}) \cup TwoCalls, layout : {"turns", "aligned"}, ids : {"first"}, whole : BOOLEAN]
      \cup [calls : OneCall({i1}), layout : {"single"}, ids : {"first", "every"}, whole : BOOLEAN]
      \cup [calls : OneCall({NoId}), layout : {"single"}, ids : {"never"}, whole : BOOLEAN]
=============================================================================
