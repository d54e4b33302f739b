---------------------------- MODULE StreamedCalls ----------------------------
(***************************************************************************)
(* _invoke_model of the agent strategy: a model answers with tool calls,   *)
(* in one result or as a stream of chunks whose fragments are put together *)
(* by id, by position in their chunk, or because there is only one call.   *)
(* Arguments are sequences of JSON tokens: a brace, a quote, a space and   *)
(* anything else.                                                          *)
(*                                                                         *)
(* The ways a provider may cut its calls into chunks are assumptions about *)
(* code outside the repository:                                            *)
(*   "result"   no stream at all                                           *)
(*   "single"   one call, fragments with or without id, several per chunk  *)
(*   "turns"    one call after the other, the id on the first fragment     *)
(*   "aligned"  every chunk has a fragment of every call, in their order   *)
(*   "any"      fragments of any calls in any order, the id on each        *)
(* A fragment holds the next piece of the arguments, or all of them so far *)
(* ("whole").                                                              *)
(***************************************************************************)
EXTENDS Integers, Sequences, FiniteSets, FiniteSetsExt, SequencesExt

CONSTANTS
  Ids,          \* the ids of calls
  NoId,         \* the id of a fragment or call that has none
  Streams,      \* [calls: a sequence of [id, name, text], layout, ids, whole]
  MaxFragments  \* exploration bound on the fragments of a chunk

CallRecords == [id : Ids \cup {NoId}, name : Seq(STRING), text : Seq(STRING)]

(* A fragment has the id of its call always, only if it is the first, or   *)
(* never.  Where a stream cannot be told apart from a shorter one without  *)
(* ids, the provider has to send them.                                     *)
ASSUME StreamsAssumption ==
  /\ NoId \notin Ids
  /\ MaxFragments \in Nat
  /\ \A s \in Streams :
       /\ s \in [calls : Seq(CallRecords), layout : {"result", "single", "turns", "aligned", "any"},
                 ids : {"every", "first", "never"}, whole : BOOLEAN]
       /\ \A c \in DOMAIN s.calls :
            /\ s.calls[c].name # <<>>
            /\ s.calls[c].id = NoId <=> s.ids = "never"
            /\ \A d \in DOMAIN s.calls : s.calls[c].id = s.calls[d].id => c = d
       /\ s.layout = "single" => Len(s.calls) = 1
       /\ s.layout \in {"turns", "aligned"} => s.ids # "never"
       /\ s.layout \in {"result", "any"} => s.ids = "every"

VARIABLES
  stream,     \* what the provider wants to say, and how
  sent,       \* what it has sent of the arguments of each call, or Unsent
  chunk,      \* the calls that have a fragment in the chunk so far
  raw,        \* raw_calls
  positions,  \* position_slots
  slots,      \* id_slots
  stage,
  turn,       \* the calls of the ModelTurn
  order,      \* history: the calls in the order of their first fragments
  echoed      \* history: a piece began with all of the arguments before it

vars == <<stream, sent, chunk, raw, positions, slots, stage, turn, order, echoed>>

Unsent == -1
Blank(text) == \A i \in DOMAIN text : text[i] = "space"

-----------------------------------------------------------------------------
(* json.loads gives a dict, and _parse_arguments.  A brace counts if it is *)
(* not within quotes; after the opening one, all is within it up to the    *)
(* closing one.                                                            *)
Quotes(text, i) == Cardinality({j \in 1 .. i : text[j] = "quote"})
Braces(text, i, brace) == {j \in 1 .. i : text[j] = brace /\ Quotes(text, j) % 2 = 0}
Depth(text, i) == Cardinality(Braces(text, i, "open")) - Cardinality(Braces(text, i, "close"))

Spans(text, first, last) ==
    \A i \in DOMAIN text :
      /\ Depth(text, i) > 0 <=> first <= i /\ i < last
      /\ i < first \/ last < i => text[i] = "space"

IsObject(text) ==
    /\ Quotes(text, Len(text)) % 2 = 0 /\ Depth(text, Len(text)) = 0
    /\ \E first, last \in DOMAIN text : first < last /\ Spans(text, first, last)

Stripped(text) ==
    LET kept == {i \in DOMAIN text : text[i] # "space"} IN SubSeq(text, Min(kept), Max(kept))

Malformed == <<"malformed">>
Parsed(text) ==
    IF text = <<>> THEN <<"open", "close">>
    ELSE IF IsObject(text) THEN Stripped(text) ELSE Malformed

-----------------------------------------------------------------------------
(* _streamed_call_slot, for a fragment at a position of its chunk. *)
SlotByPosition(f, position) ==
    IF position \in DOMAIN positions THEN positions[position] ELSE Len(raw) + 1

Slot(f, position) ==
    IF f.id \in DOMAIN slots THEN slots[f.id]
    ELSE IF /\ position \in DOMAIN positions
            /\ f.id = NoId \/ raw[positions[position]].id \in {NoId, f.id}
         THEN positions[position]
    ELSE IF f.id = NoId /\ Len(raw) = 1 THEN 1
    ELSE Len(raw) + 1

(* A fragment that begins with what is there already replaces it. *)
Extended(old, new) == IF IsPrefix(old, new) THEN new ELSE old \o new

(* _merge_streamed_call *)
MergedByAppending(old, f) ==
    [id |-> IF f.id = NoId THEN old.id ELSE f.id, name |-> Extended(old.name, f.name), text |-> old.text \o f.text]
Merged(old, f) ==
    [id |-> IF f.id = NoId THEN old.id ELSE f.id,
     name |-> Extended(old.name, f.name), text |-> Extended(old.text, f.text)]

Updated(f, x, y) == [z \in DOMAIN f \cup {x} |-> IF z = x THEN y ELSE f[z]]

(* The call at a slot once it has taken in a fragment. *)
Taken(f, slot) == IF slot \in DOMAIN raw THEN Merged(raw[slot], f) ELSE f

(* One fragment of a chunk. *)
AssembleAtFirstPosition(f, position) ==
    LET slot == Slot(f, position)
        call == Taken(f, slot)
    IN  /\ raw' = Updated(raw, slot, call)
        /\ positions' = IF position \in DOMAIN positions THEN positions ELSE Updated(positions, position, slot)
        /\ slots' = IF call.id = NoId THEN slots ELSE Updated(slots, call.id, slot)
Assemble(f, position) ==
    LET slot == Slot(f, position)
        call == Taken(f, slot)
    IN  /\ raw' = Updated(raw, slot, call)
        /\ positions' = Updated(positions, position, slot)
        /\ slots' = IF call.id = NoId THEN slots ELSE Updated(slots, call.id, slot)

(* The calls of the turn: fragments with nothing in them are left out, and *)
(* a call that came without an id gets its place for one.                  *)
Finished(calls) ==
    LET kept == {i \in DOMAIN calls : calls[i].id # NoId \/ calls[i].name # <<>> \/ calls[i].text # <<>>}
        Place(k) == CHOOSE i \in kept : Cardinality({j \in kept : j <= i}) = k
        Answered(i) == [id |-> IF calls[i].id = NoId THEN i ELSE calls[i].id,
                        name |-> calls[i].name, arguments |-> Parsed(calls[i].text)]
    IN  [k \in 1 .. Cardinality(kept) |-> Answered(Place(k))]

-----------------------------------------------------------------------------
(* The provider goes on with a call c and takes it up to its piece n. *)
Call(c) == stream.calls[c]
SoFar(c) == IF sent[c] = Unsent THEN 0 ELSE sent[c]

Fragment(c, n) ==
    LET starts == sent[c] = Unsent
        done == IF stream.whole THEN 0 ELSE SoFar(c)
    IN  [id |-> IF stream.ids = "every" \/ (stream.ids = "first" /\ starts) THEN Call(c).id ELSE NoId,
         name |-> IF starts \/ stream.whole THEN Call(c).name ELSE <<>>,
         text |-> SubSeq(Call(c).text, done + 1, n)]

(* What is left to send of a call, and the pieces that may come next. *)
Open(c) == sent[c] < Len(Call(c).text)
Onward(c) == SoFar(c) .. Len(Call(c).text)

(* Whether a fragment of c may come after those of a chunk so far. *)
Joins(c, earlier) ==
    CASE stream.layout = "single" -> Len(earlier) < MaxFragments
      [] stream.layout = "turns" -> earlier = <<>> /\ Open(c) /\ \A d \in 1 .. c - 1 : ~Open(d)
      [] stream.layout = "aligned" -> c = Len(earlier) + 1
      [] stream.layout = "any" ->
           Len(earlier) < MaxFragments /\ Open(c) /\ \A k \in DOMAIN earlier : earlier[k] # c
      [] OTHER -> FALSE

(* Whether the chunk may end here. *)
ChunkEnds == stream.layout = "aligned" => Len(chunk) \in {0, Len(stream.calls)}

(* A piece that starts with all of the arguments there are, but for spaces *)
(* at their beginning.                                                     *)
Echoes(c, n) ==
    /\ ~stream.whole /\ sent[c] # Unsent
    /\ \E d \in 0 .. sent[c] :
         LET there == SubSeq(Call(c).text, d + 1, sent[c])
         IN  /\ Blank(SubSeq(Call(c).text, 1, d)) /\ ~Blank(there)
             /\ IsPrefix(there, SubSeq(Call(c).text, sent[c] + 1, n))

Init ==
    /\ stream \in Streams
    /\ sent = [c \in DOMAIN stream.calls |-> Unsent]
    /\ chunk = <<>>
    /\ raw = <<>> /\ positions = <<>> /\ slots = <<>>
    /\ stage = "streaming"
    /\ turn = <<>> /\ order = <<>> /\ echoed = FALSE

(* The next fragment of the chunk, or the first of the next one. *)
Take ==
    /\ stage = "streaming"
    /\ \E c \in DOMAIN sent, earlier \in {chunk, <<>>} :
         /\ earlier = <<>> => ChunkEnds /\ \E d \in DOMAIN sent : Open(d)
         /\ Joins(c, earlier)
         /\ \E n \in Onward(c) :
              /\ Assemble(Fragment(c, n), Len(earlier) + 1)
              /\ sent' = [sent EXCEPT ![c] = n]
              /\ echoed' = (echoed \/ Echoes(c, n))
         /\ chunk' = Append(earlier, c)
         /\ order' = IF sent[c] = Unsent THEN Append(order, c) ELSE order
    /\ UNCHANGED <<stream, stage, turn>>

(* The turn, or model_response_parse if the arguments of a call are no     *)
(* JSON object.                                                            *)
Answer(calls) ==
    /\ turn' = IF \E i \in DOMAIN calls : calls[i].arguments = Malformed THEN <<>> ELSE calls
    /\ stage' = IF \E i \in DOMAIN calls : calls[i].arguments = Malformed THEN "parse_error" ELSE "answered"

End ==
    /\ stage = "streaming" /\ stream.layout # "result"
    /\ ChunkEnds /\ \A c \in DOMAIN sent : ~Open(c)
    /\ Answer(Finished(raw))
    /\ UNCHANGED <<stream, sent, chunk, raw, positions, slots, order, echoed>>

(* The answer of a model that does not stream. *)
Result ==
    /\ stage = "streaming" /\ stream.layout = "result"
    /\ Answer([i \in DOMAIN stream.calls |->
                 [id |-> Call(i).id, name |-> Call(i).name, arguments |-> Parsed(Call(i).text)]])
    /\ order' = [i \in DOMAIN stream.calls |-> i]
    /\ UNCHANGED <<stream, sent, chunk, raw, positions, slots, echoed>>

(* The call or the iterator raises: model_invoke. *)
Break ==
    /\ stage = "streaming" /\ ChunkEnds
    /\ stage' = "invoke_error"
    /\ UNCHANGED <<stream, sent, chunk, raw, positions, slots, turn, order, echoed>>

Next == Take \/ End \/ Result \/ Break

Spec == Init /\ [][Next]_vars

-----------------------------------------------------------------------------
(* Every position and every id leads to a call there is, and an id to the  *)
(* call that bears it.                                                     *)
TypeOK ==
    /\ stage \in {"streaming", "answered", "parse_error", "invoke_error"}
    /\ \A p \in DOMAIN positions : positions[p] \in DOMAIN raw
    /\ \A id \in DOMAIN slots : slots[id] \in DOMAIN raw /\ raw[slots[id]].id = id
    /\ turn # <<>> => stage = "answered"

(* The calls of a turn are the calls the provider sent, in the order in    *)
(* which it began them: no fragment went to another call, none was lost    *)
(* and none counted twice.  Only what was no JSON object may have become   *)
(* another text, where a piece began with all before it.                   *)
CallsAreThoseSent ==
    stage = "answered" =>
      /\ Len(turn) = Len(order)
      /\ \A i \in DOMAIN turn :
           LET c == Call(order[i])
           IN  /\ turn[i].name = c.name
               /\ \/ turn[i].arguments = Parsed(c.text)
                  \/ echoed /\ Parsed(c.text) = Malformed
               /\ turn[i].id = IF stream.ids = "never" THEN i ELSE c.id

(* Reassembly makes no arguments malformed that were not sent malformed,   *)
(* unless a piece happened to begin with all of the pieces before it, as   *)
(* a provider that repeats itself would.                                   *)
ErrorsAreEarned ==
    stage = "parse_error" =>
      echoed \/ \E c \in DOMAIN stream.calls : Parsed(Call(c).text) = Malformed

(* A call that got its id keeps it, and its arguments only grow. *)
CallsKeepTheirIds ==
    [][\A i \in DOMAIN raw :
         /\ raw[i].id # NoId => raw'[i].id = raw[i].id
         /\ Len(raw'[i].text) >= Len(raw[i].text)]_vars
=============================================================================
