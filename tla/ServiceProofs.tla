---------------------------- MODULE ServiceProofs ----------------------------
(***************************************************************************)
(* Theorems about Service.tla, for any number of sessions, inputs, programs *)
(* and versions, and any limits.                                            *)
(***************************************************************************)
EXTENDS Service, CrystalAliasProofs, FiniteSetTheorems

-----------------------------------------------------------------------------
(* The invariants. *)

Records == [name : {"crystal"}, version : Nat, revision : Nat, program : Programs,
            tested : BOOLEAN]

AliasOK(a) == a \in AliasesOf(Records) /\ WellFormed(a) /\ Latest(a) <= MaxVersions

Operations == {"none", "draft", "publish", "activate", "retire", "execute"}

Stages == {"idle", "register", "confirm", "activate", "select", "withdraw", "get", "latest",
           "record", "answered"}

Answers == {"hit", "miss", "disabled", "retired", "active", "draft"}

Calls == [operation : Operations, stage : Stages, asked : 0..MaxVersions,
          program : Programs \cup {Absent}, suite : Suites \cup {Absent},
          input : Inputs \cup {Absent}, version : 0..MaxVersions,
          answer : Answers \cup {Absent}]

OperationsAt(stage) ==
  CASE stage = "idle" -> {"none"}
    [] stage = "register" -> {"draft", "publish"}
    [] stage = "confirm" -> {"activate"}
    [] stage = "activate" -> {"publish", "activate"}
    [] stage \in {"select", "withdraw"} -> {"retire"}
    [] stage \in {"get", "latest", "record"} -> {"execute"}
    [] OTHER -> {"draft", "publish", "activate", "retire", "execute"}

(* The version of call c has the program of the call. *)
Has(a, c) ==
  c.version \in DOMAIN a.versions /\ a.versions[c.version].content.program = c.program

Was(w, c, state) == <<c.version, state>> \in w

(* The version that is run was in use. *)
WasServed(w, c) ==
  IF c.asked = 0 THEN Was(w, c, "active")
  ELSE c.version = c.asked /\ (Was(w, c, "draft") \/ Was(w, c, "active"))

NothingServed(w, c) == c.asked = 0 => <<0, "served">> \in w

(* What the answer of a call claims of the versions. *)
Claims(a, w, c) ==
  /\ c.answer = "hit" => WasServed(w, c) /\ Has(a, c)
  /\ c.answer = "disabled" => Was(w, c, "retired") /\ NothingServed(w, c)
  /\ c.answer = "miss" => NothingServed(w, c)
  /\ c.answer = "retired" => Was(w, c, "retired") /\ (c.asked = 0 => Was(w, c, "active"))
  /\ c.answer \in {"active", "draft"} => Was(w, c, c.answer) /\ Has(a, c)

(* What a call knows at its next step. *)
Knows(a, w, c) ==
  /\ c.stage \notin {"idle", "answered"} => States(a) \subseteq w
  /\ c.stage # "answered" => c.answer = Absent
  /\ c.operation \in {"draft", "publish"} =>
       c.program \in Programs /\ c.suite \in Suites /\ Passes(c.program, c.suite)
  /\ c.stage = "confirm" => c.version = c.asked
  /\ c.stage = "activate" => Has(a, c)
  /\ c.stage = "withdraw" /\ c.asked = 0 => Was(w, c, "active")
  /\ c.stage = "latest" => NothingServed(w, c)
  /\ c.stage = "record" => WasServed(w, c) /\ Has(a, c)

CallOK(a, w, c) ==
  c \in Calls /\ c.operation \in OperationsAt(c.stage) /\ Knows(a, w, c) /\ Claims(a, w, c)

CallInv ==
  /\ call \in [Sessions -> Calls]
  /\ \A s \in Sessions : CallOK(alias, seen[s], call[s])

AliasInv ==
  /\ AliasOK(alias)
  /\ tests \in Seq(Suites) /\ Len(tests) = Latest(alias)
  /\ \A v \in DOMAIN alias.versions : Passes(alias.versions[v].content.program, tests[v])
  /\ DraftsAreDistinct

(* The runs of version v whose calls have yet to record them. *)
Recording(v) == {s \in Sessions : call[s].stage = "record" /\ call[s].version = v}

(* A run is counted at most once, and nothing else is counted. *)
BooksInv ==
  /\ counters \in [Versions -> Nat] /\ ran \in [Versions -> Nat] /\ told \in [Versions -> Nat]
  /\ \A v \in Versions :
       /\ v > Latest(alias) => counters[v] = 0
       /\ told[v] <= counters[v]
       /\ IsFiniteSet(Recording(v))
       /\ counters[v] + Cardinality(Recording(v)) <= ran[v]

IInv == AliasInv /\ CallInv /\ BooksInv
-----------------------------------------------------------------------------
(* Calls. *)

LEMMA StageOperations ==
  /\ OperationsAt("idle") = {"none"}
  /\ OperationsAt("register") = {"draft", "publish"}
  /\ OperationsAt("confirm") = {"activate"}
  /\ OperationsAt("activate") = {"publish", "activate"}
  /\ OperationsAt("select") = {"retire"}
  /\ OperationsAt("withdraw") = {"retire"}
  /\ OperationsAt("get") = {"execute"}
  /\ OperationsAt("latest") = {"execute"}
  /\ OperationsAt("record") = {"execute"}
  /\ OperationsAt("answered") = {"draft", "publish", "activate", "retire", "execute"}
BY DEF OperationsAt

LEMMA NoAnswer == Absent \notin Answers
BY ServiceAssumption DEF Answers

LEMMA SilentClaims ==
  ASSUME NEW a, NEW w, NEW c, c.answer = Absent
  PROVE  Claims(a, w, c)
BY NoAnswer DEF Claims, Answers

LEMMA CallType ==
  ASSUME NEW operation \in Operations, NEW stage \in Stages, NEW k \in 0..MaxVersions,
         NEW p \in Programs \cup {Absent}, NEW suite \in Suites \cup {Absent},
         NEW i \in Inputs \cup {Absent}
  PROVE  LET c == Call(operation, stage, k, p, suite, i)
         IN  /\ c \in Calls
             /\ c.operation = operation /\ c.stage = stage /\ c.asked = k
             /\ c.program = p /\ c.suite = suite /\ c.input = i
             /\ c.version = k /\ c.answer = Absent
BY DEF Call, Calls

LEMMA IdleType ==
  ASSUME NEW a, NEW w
  PROVE  Idle \in Calls /\ Idle.stage = "idle" /\ CallOK(a, w, Idle)
<1>1. /\ "none" \in Operations /\ "idle" \in Stages /\ 0 \in 0..MaxVersions
      /\ Absent \in Programs \cup {Absent} /\ Absent \in Suites \cup {Absent}
      /\ Absent \in Inputs \cup {Absent}
  BY ServiceAssumption DEF Operations, Stages
<1>2. /\ Idle \in Calls /\ Idle.stage = "idle" /\ Idle.operation = "none"
      /\ Idle.answer = Absent
  BY <1>1, CallType DEF Idle
<1>3. Knows(a, w, Idle)
  BY <1>2 DEF Knows
<1>4. QED
  BY <1>2, <1>3, StageOperations, SilentClaims DEF CallOK

(* A new call. *)
LEMMA BeginOK ==
  ASSUME NEW a, NEW w, States(a) \subseteq w, NEW c \in Calls, c.answer = Absent,
         c.version = c.asked,
         c.stage \in {"register", "confirm", "select", "withdraw", "get"},
         c.operation \in OperationsAt(c.stage),
         c.stage = "withdraw" => c.asked # 0,
         c.stage = "register" =>
           c.program \in Programs /\ c.suite \in Suites /\ Passes(c.program, c.suite)
  PROVE  CallOK(a, w, c)
<1>1. c.operation \in {"draft", "publish"} => c.stage = "register"
  BY StageOperations
<1>2. Knows(a, w, c)
  BY <1>1 DEF Knows
<1>3. QED
  BY <1>2, SilentClaims DEF CallOK

(* What a call knows stays so while versions keep their content and what    *)
(* was seen is not forgotten.                                               *)
LEMMA CallKept ==
  ASSUME NEW a, NEW b, NEW w, NEW x, NEW c, CallOK(a, w, c), Keeps(a, b), w \subseteq x,
         c.stage \notin {"idle", "answered"} => States(b) \subseteq x
  PROVE  CallOK(b, x, c)
<1>1. Has(a, c) => Has(b, c)
  BY DEF Has, Keeps
<1>2. /\ WasServed(w, c) => WasServed(x, c)
      /\ NothingServed(w, c) => NothingServed(x, c)
      /\ \A state : Was(w, c, state) => Was(x, c, state)
  BY DEF WasServed, NothingServed, Was
<1>3. Claims(b, x, c)
  BY <1>1, <1>2 DEF CallOK, Claims
<1>4. Knows(b, x, c)
  BY <1>1, <1>2 DEF CallOK, Knows
<1>5. QED
  BY <1>3, <1>4 DEF CallOK

(* What session s has seen when its step is done. *)
Sees(s) == seen[s] \cup States(alias')

LEMMA StepCalls ==
  ASSUME CallInv, NEW s \in Sessions, NEW c, Step(s, c, alias'), Keeps(alias, alias'),
         c = Idle \/ (call[s].stage # "answered" /\ CallOK(alias', Sees(s), c))
  PROVE  CallInv'
<1>1. c \in Calls
  BY IdleType DEF CallOK
<1>2. /\ call' = [call EXCEPT ![s] = c] /\ call'[s] = c
      /\ call' \in [Sessions -> Calls]
      /\ \A u \in Sessions \ {s} : call'[u] = call[u]
  BY <1>1 DEF Step, CallInv
<1>3. \A u \in Sessions : seen'[u] = IF call'[u] = Idle THEN {}
                                    ELSE IF call[u].stage = "answered" THEN seen[u]
                                    ELSE seen[u] \cup States(alias')
  BY DEF Step
<1>4. ASSUME NEW u \in Sessions
      PROVE  CallOK(alias', seen'[u], call'[u])
  <2>1. CASE call'[u] = Idle
    BY <2>1, IdleType
  <2>2. CASE u = s /\ c # Idle
    <3>1. seen'[s] = Sees(s)
      BY <1>2, <1>3, <2>2 DEF Sees
    <3>2. QED
      BY <1>2, <2>2, <3>1
  <2>3. CASE u # s /\ call[u] # Idle
    <3>1. call'[u] = call[u] /\ CallOK(alias, seen[u], call[u])
      BY <1>2, <2>3 DEF CallInv
    <3>2. seen[u] \subseteq seen'[u]
      BY <1>3, <2>3, <3>1
    <3>3. call[u].stage # "answered" => States(alias') \subseteq seen'[u]
      BY <1>3, <2>3, <3>1
    <3>4. QED
      BY <3>1, <3>2, <3>3, CallKept
  <2>4. QED
    BY <1>2, <2>1, <2>2, <2>3
<1>5. QED
  BY <1>2, <1>4 DEF CallInv

-----------------------------------------------------------------------------
(* What a step may do to the alias and its tests, *)

Appends(s) ==
  /\ call[s].stage = "register"
  /\ Reusable(alias, call[s].program) = {}
  /\ Latest(alias) < MaxVersions
  /\ alias' = Extended(call[s])
  /\ tests' = Append(tests, call[s].suite)

Edits(s) ==
  \/ UNCHANGED <<alias, tests>>
  \/ Appends(s)
  \/ /\ UNCHANGED tests
     /\ \E v \in DOMAIN alias.versions :
          \/ alias.active # v /\ alias' = Activated(alias, v)
          \/ ~Retired(alias, v) /\ alias' = Withdrawn(alias, v)

(* and to the books: a run is begun, or its record is written or fails. *)
Books(s, c) ==
  \/ call[s].stage # "record" /\ c.stage # "record" /\ UNCHANGED books
  \/ /\ call[s].stage # "record" /\ c.stage = "record"
     /\ ran' = [ran EXCEPT ![c.version] = @ + 1]
     /\ UNCHANGED <<counters, told>>
  \/ /\ call[s].stage = "record" /\ c.stage # "record"
     /\ UNCHANGED ran
     /\ \/ counters' = counters /\ told' = told
        \/ counters' = Counted(call[s]) /\ told' = told
        \/ /\ counters' = Counted(call[s])
           /\ told' = [told EXCEPT ![call[s].version] = @ + 1]

Moves(s, c) ==
  /\ Step(s, c, alias')
  /\ c = Idle \/ (call[s].stage # "answered" /\ CallOK(alias', Sees(s), c))
  /\ Edits(s)
  /\ Books(s, c)

LEMMA CallFacts ==
  ASSUME AliasInv, CallInv, NEW s \in Sessions
  PROVE  /\ AliasOK(alias) /\ alias \in AliasesOf(Records) /\ WellFormed(alias)
         /\ Latest(alias) \in Nat /\ Latest(alias) <= MaxVersions /\ MaxVersions \in Nat
         /\ DOMAIN alias.versions = 1..Latest(alias)
         /\ DOMAIN alias.versions \subseteq 0..MaxVersions
         /\ alias.active \in 0..MaxVersions
         /\ CallOK(alias, seen[s], call[s]) /\ call[s] \in Calls
<1>1. alias \in AliasesOf(Records) /\ WellFormed(alias) /\ Latest(alias) <= MaxVersions
  BY DEF AliasInv, AliasOK
<1>2. /\ Latest(alias) \in Nat /\ DOMAIN alias.versions = 1..Latest(alias)
      /\ alias.active \in Nat /\ alias.active <= Latest(alias) /\ MaxVersions \in Nat
  BY <1>1, AliasFacts, WellFormedFacts, ServiceAssumption
<1>3. DOMAIN alias.versions \subseteq 0..MaxVersions /\ alias.active \in 0..MaxVersions
  BY <1>1, <1>2
<1>4. QED
  BY <1>1, <1>2, <1>3 DEF AliasInv, CallInv

(* The alias a registration writes. *)
LEMMA ExtendedFacts ==
  ASSUME AliasInv, NEW c, c.program \in Programs, Latest(alias) < MaxVersions
  PROVE  /\ AliasOK(Extended(c)) /\ Keeps(alias, Extended(c))
         /\ Latest(Extended(c)) = Latest(alias) + 1
         /\ Latest(alias) + 1 \in DOMAIN Extended(c).versions
         /\ Extended(c).versions[Latest(alias) + 1].content.program = c.program
         /\ Extended(c).versions[Latest(alias) + 1].state = "draft"
         /\ \A v \in DOMAIN alias.versions : Extended(c).versions[v] = alias.versions[v]
<1> DEFINE r == NextContent(alias, "crystal", c.program, TRUE)
           b == Extended(c)
<1>1. alias \in AliasesOf(Records) /\ WellFormed(alias) /\ Latest(alias) <= MaxVersions
  BY DEF AliasInv, AliasOK
<1>2. Latest(alias) \in Nat /\ alias.revision \in Nat
  BY <1>1, AliasFacts
<1>3. /\ r \in Records /\ r.version = Latest(alias) + 1 /\ r.revision = alias.revision + 1
      /\ r.program = c.program
  BY <1>2 DEF NextContent, Records
<1>4. b = WithVersion(alias, r)
  BY DEF Extended
<1> HIDE DEF r, b
<1>5. /\ b \in AliasesOf(Records) /\ WellFormed(b)
      /\ Latest(b) = Latest(alias) + 1
      /\ b.versions[Latest(b)] = [content |-> r, state |-> "draft"]
      /\ \A v \in DOMAIN alias.versions : b.versions[v] = alias.versions[v]
      /\ Keeps(alias, b)
  BY <1>1, <1>3, <1>4, WithVersionFacts
<1>6. Latest(alias) + 1 <= MaxVersions /\ Latest(alias) + 1 \in 1..Latest(b)
  BY <1>2, <1>5, ServiceAssumption
<1>7. DOMAIN b.versions = 1..Latest(b)
  BY <1>5, AliasFacts
<1>8. QED
  BY <1>3, <1>5, <1>6, <1>7 DEF AliasOK, b
-----------------------------------------------------------------------------
(* The stored versions. *)

LEMMA EditFacts ==
  ASSUME AliasInv, CallInv, NEW s \in Sessions, Edits(s)
  PROVE  AliasOK(alias') /\ Keeps(alias, alias') /\ Latest(alias) <= Latest(alias')
<1>1. alias \in AliasesOf(Records) /\ WellFormed(alias) /\ Latest(alias) <= MaxVersions
      /\ Latest(alias) \in Nat
  BY CallFacts
<1>2. CASE UNCHANGED <<alias, tests>>
  BY <1>1, <1>2 DEF AliasOK, Keeps
<1>3. CASE Appends(s)
  <2>1. call[s].program \in Programs
    BY <1>3, CallFacts, StageOperations DEF Appends, CallOK, Knows
  <2>2. QED
    BY <1>1, <1>3, <2>1, ExtendedFacts DEF Appends
<1>4. ASSUME NEW v \in DOMAIN alias.versions,
             alias' = Activated(alias, v) \/ alias' = Withdrawn(alias, v)
      PROVE  AliasOK(alias') /\ Keeps(alias, alias') /\ Latest(alias') = Latest(alias)
  <2>1. CASE alias' = Activated(alias, v)
    BY <1>1, <2>1, ActivatedFacts DEF AliasOK
  <2>2. CASE alias' = Withdrawn(alias, v)
    BY <1>1, <2>2, WithdrawnFacts DEF AliasOK
  <2>3. QED
    BY <1>4, <2>1, <2>2
<1>5. QED
  BY <1>1, <1>2, <1>3, <1>4 DEF Edits

(* Versions that keep their content and become no drafts stay as they are   *)
(* to be.                                                                   *)
LEMMA SameVersions ==
  ASSUME AliasInv, AliasOK(alias'), Keeps(alias, alias'), UNCHANGED tests,
         Latest(alias') = Latest(alias), DOMAIN alias'.versions = DOMAIN alias.versions,
         \A v \in DOMAIN alias.versions :
           alias'.versions[v].state = "draft" => alias.versions[v].state = "draft"
  PROVE  AliasInv'
<1>1. \A v \in DOMAIN alias.versions :
        alias'.versions[v].content = alias.versions[v].content
  BY DEF Keeps
<1>2. \A v \in DOMAIN alias'.versions : Passes(alias'.versions[v].content.program, tests'[v])
  BY <1>1 DEF AliasInv
<1>3. DraftsAreDistinct'
  BY <1>1 DEF AliasInv, DraftsAreDistinct
<1>4. QED
  BY <1>2, <1>3 DEF AliasInv

LEMMA AliasStep ==
  ASSUME AliasInv, CallInv, NEW s \in Sessions, Edits(s)
  PROVE  AliasInv'
<1>1. alias \in AliasesOf(Records) /\ WellFormed(alias)
  BY CallFacts
<1>2. AliasOK(alias') /\ Keeps(alias, alias')
  BY EditFacts
<1>3. CASE UNCHANGED <<alias, tests>>
  BY <1>2, <1>3, SameVersions
<1>4. CASE Appends(s)
  <2> DEFINE p == call[s].program
             n == Latest(alias) + 1
  <2>1. p \in Programs /\ call[s].suite \in Suites /\ Passes(p, call[s].suite)
    BY <1>4, CallFacts, StageOperations DEF Appends, CallOK, Knows
  <2>2. /\ Latest(alias') = n /\ n \in DOMAIN alias'.versions
        /\ alias'.versions[n].content.program = p
        /\ \A v \in DOMAIN alias.versions : alias'.versions[v] = alias.versions[v]
    BY <1>4, <2>1, ExtendedFacts DEF Appends
  <2>3. /\ DOMAIN alias.versions = 1..Latest(alias) /\ Latest(alias) \in Nat
        /\ DOMAIN alias'.versions = 1..n
    BY <1>2, <2>2, CallFacts, AliasFacts DEF AliasOK
  <2>4. /\ tests' \in Seq(Suites) /\ Len(tests') = n /\ tests'[n] = call[s].suite
        /\ \A v \in 1..Latest(alias) : tests'[v] = tests[v]
    <3>1. tests \in Seq(Suites) /\ Len(tests) = Latest(alias)
      BY DEF AliasInv
    <3>2. QED
      BY <1>4, <2>1, <3>1 DEF Appends
  <2> HIDE DEF n
  <2>5. \A v \in DOMAIN alias'.versions : v = n \/ v \in DOMAIN alias.versions
    BY <2>3 DEF n
  <2>6. ASSUME NEW v \in DOMAIN alias'.versions
        PROVE  Passes(alias'.versions[v].content.program, tests'[v])
    <3>1. CASE v = n
      BY <2>1, <2>2, <2>4, <3>1
    <3>2. CASE v \in DOMAIN alias.versions
      <4>1. Passes(alias.versions[v].content.program, tests[v])
        BY <3>2 DEF AliasInv
      <4>2. alias'.versions[v] = alias.versions[v] /\ tests'[v] = tests[v]
        BY <2>2, <2>3, <2>4, <3>2
      <4>3. QED
        BY <4>1, <4>2
    <3>3. QED
      BY <2>5, <3>1, <3>2
  <2>7. ASSUME NEW v \in DOMAIN alias.versions, alias.versions[v].state = "draft"
        PROVE  alias.versions[v].content.program # p
    BY <1>4, <2>7 DEF Appends, Reusable, Retired
  <2>8. DraftsAreDistinct'
    <3>1. DraftsAreDistinct
      BY DEF AliasInv
    <3>2. ASSUME NEW v \in DOMAIN alias'.versions, NEW w \in DOMAIN alias'.versions,
                 alias'.versions[v].state = "draft", alias'.versions[w].state = "draft",
                 alias'.versions[v].content.program = alias'.versions[w].content.program
          PROVE  v = w
      <4>1. CASE v \in DOMAIN alias.versions /\ w \in DOMAIN alias.versions
        BY <2>2, <3>1, <3>2, <4>1 DEF DraftsAreDistinct
      <4>2. CASE v \in DOMAIN alias.versions /\ w = n
        BY <2>2, <2>7, <3>2, <4>2
      <4>3. CASE v = n /\ w \in DOMAIN alias.versions
        BY <2>2, <2>7, <3>2, <4>3
      <4>4. QED
        BY <2>5, <4>1, <4>2, <4>3
    <3>3. QED
      BY <3>2 DEF DraftsAreDistinct
  <2>9. QED
    BY <1>2, <2>2, <2>4, <2>6, <2>8 DEF AliasInv
<1>5. ASSUME NEW v \in DOMAIN alias.versions, UNCHANGED tests,
             alias' = Activated(alias, v) \/ alias' = Withdrawn(alias, v)
      PROVE  AliasInv'
  <2>1. CASE alias' = Activated(alias, v)
    BY <1>1, <1>2, <1>5, <2>1, ActivatedFacts, SameVersions
  <2>2. CASE alias' = Withdrawn(alias, v)
    BY <1>1, <1>2, <1>5, <2>2, WithdrawnFacts, SameVersions
  <2>3. QED
    BY <1>5, <2>1, <2>2
<1>6. QED
  BY <1>3, <1>4, <1>5 DEF Edits
-----------------------------------------------------------------------------
(* How a call goes on. *)

(* Call d is call c further on. *)
Continues(c, d) ==
  /\ d \in Calls
  /\ d.operation = c.operation /\ d.asked = c.asked /\ d.suite = c.suite
  /\ d.input = c.input

LEMMA ContinueType ==
  ASSUME NEW c \in Calls, NEW stage \in Stages, NEW v \in 0..MaxVersions, NEW p \in Programs
  PROVE  /\ LET d == [c EXCEPT !.stage = stage]
            IN  /\ Continues(c, d) /\ d.stage = stage /\ d.version = c.version
                /\ d.program = c.program /\ d.answer = c.answer
         /\ LET d == [c EXCEPT !.stage = stage, !.version = v]
            IN  /\ Continues(c, d) /\ d.stage = stage /\ d.version = v
                /\ d.program = c.program /\ d.answer = c.answer
         /\ LET d == [c EXCEPT !.stage = stage, !.version = v, !.program = p]
            IN  /\ Continues(c, d) /\ d.stage = stage /\ d.version = v
                /\ d.program = p /\ d.answer = c.answer
BY DEF Continues, Calls

LEMMA AnsweredType ==
  ASSUME NEW c \in Calls, NEW v \in 0..MaxVersions, NEW answer \in Answers
  PROVE  /\ LET d == Answered(c, answer)
            IN  /\ Continues(c, d) /\ d.stage = "answered" /\ d.version = c.version
                /\ d.program = c.program /\ d.answer = answer
         /\ LET d == Answered([c EXCEPT !.version = v], answer)
            IN  /\ Continues(c, d) /\ d.stage = "answered" /\ d.version = v
                /\ d.program = c.program /\ d.answer = answer
BY DEF Answered, Continues, Calls, Stages

(* An answer needs to be true, and nothing else. *)
LEMMA AnswerOK ==
  ASSUME NEW a, NEW w, NEW x, NEW b, NEW c, NEW d, CallOK(a, w, c), Continues(c, d),
         c.stage \notin {"idle", "answered"}, d.stage = "answered",
         d.program = c.program, Claims(b, x, d)
  PROVE  CallOK(b, x, d)
<1>1. c.operation \in {"draft", "publish", "activate", "retire", "execute"}
  BY StageOperations DEF CallOK, Calls, Stages
<1>2. d.operation \in OperationsAt(d.stage)
  BY <1>1, StageOperations DEF Continues
<1>3. Knows(b, x, d)
  BY DEF CallOK, Knows, Continues
<1>4. QED
  BY <1>2, <1>3 DEF CallOK, Continues

LEMMA IdleMoves ==
  ASSUME NEW s \in Sessions, Step(s, Idle, alias'), Edits(s), Books(s, Idle)
  PROVE  \E c : Moves(s, c)
BY DEF Moves

(* A call that leaves the alias as it is. *)
LEMMA ReadMoves ==
  ASSUME NEW s \in Sessions, NEW c, Move(s, c), UNCHANGED <<tests, books>>,
         call[s].stage \notin {"record", "answered"}, c.stage # "record",
         c = Idle \/ CallOK(alias', Sees(s), c)
  PROVE  \E d : Moves(s, d)
<1>1. Step(s, c, alias') /\ UNCHANGED alias
  BY DEF Move, Step
<1>2. QED
  BY <1>1 DEF Moves, Edits, Books

LEMMA BeginMoves ==
  ASSUME AliasInv, CallInv, NEW s \in Sessions, NEW c \in Calls, Begin(s, c),
         c.answer = Absent, c.version = c.asked,
         c.stage \in {"register", "confirm", "select", "withdraw", "get"},
         c.operation \in OperationsAt(c.stage),
         c.stage = "withdraw" => c.asked # 0,
         c.stage = "register" =>
           c.program \in Programs /\ c.suite \in Suites /\ Passes(c.program, c.suite)
  PROVE  \E d : Moves(s, d)
<1>1. /\ call[s].stage = "idle" /\ Step(s, c, alias') /\ UNCHANGED <<alias, tests, books>>
  BY IdleType DEF Begin, Step
<1>2. CallOK(alias', Sees(s), c)
  BY BeginOK DEF Sees
<1>3. QED
  BY <1>1, <1>2 DEF Moves, Edits, Books

LEMMA CallsMove ==
  ASSUME AliasInv, CallInv, NEW s \in Sessions,
         Crystallize(s) \/ Activate(s) \/ Retire(s) \/ Execute(s)
  PROVE  \E d : Moves(s, d)
<1>1. /\ \A v \in 0..MaxVersions : v = 0 \/ v \in Versions
      /\ Versions \subseteq 0..MaxVersions /\ 0 \in 0..MaxVersions
  BY ServiceAssumption DEF Versions
<1>2. CASE Crystallize(s)
  <2>1. PICK p \in Programs, suite \in Suites, policy \in {"draft", "publish"} :
             /\ Passes(p, suite)
             /\ Begin(s, Call(policy, "register", 0, p, suite, Absent))
    BY <1>2 DEF Crystallize
  <2> DEFINE c == Call(policy, "register", 0, p, suite, Absent)
  <2>2. policy \in Operations /\ "register" \in Stages
    BY DEF Operations, Stages
  <2>3. /\ c \in Calls /\ c.operation = policy /\ c.stage = "register" /\ c.asked = 0
        /\ c.program = p /\ c.suite = suite /\ c.version = 0 /\ c.answer = Absent
    BY <1>1, <2>2, CallType
  <2> HIDE DEF c
  <2>4. c.operation \in OperationsAt(c.stage)
    BY <2>3, StageOperations
  <2>5. Begin(s, c)
    BY <2>1 DEF c
  <2>6. QED
    BY <2>1, <2>3, <2>4, <2>5, BeginMoves
<1>3. CASE Activate(s)
  <2>1. PICK v \in Versions, p \in Programs :
             Begin(s, Call("activate", "confirm", v, p, Absent, Absent))
    BY <1>3 DEF Activate
  <2> DEFINE c == Call("activate", "confirm", v, p, Absent, Absent)
  <2>2. "activate" \in Operations /\ "confirm" \in Stages
    BY DEF Operations, Stages
  <2>3. /\ c \in Calls /\ c.operation = "activate" /\ c.stage = "confirm" /\ c.asked = v
        /\ c.version = v /\ c.answer = Absent
    BY <1>1, <2>2, CallType
  <2> HIDE DEF c
  <2>4. c.operation \in OperationsAt(c.stage)
    BY <2>3, StageOperations
  <2>5. Begin(s, c)
    BY <2>1 DEF c
  <2>6. QED
    BY <2>3, <2>4, <2>5, BeginMoves
<1>4. CASE Retire(s)
  <2>1. PICK v \in 0..MaxVersions :
             Begin(s, Call("retire", IF v = 0 THEN "select" ELSE "withdraw", v,
                           Absent, Absent, Absent))
    BY <1>4 DEF Retire
  <2> DEFINE stage == IF v = 0 THEN "select" ELSE "withdraw"
             c == Call("retire", stage, v, Absent, Absent, Absent)
  <2>2. "retire" \in Operations /\ stage \in Stages
    BY DEF Operations, Stages
  <2>3. Begin(s, c)
    BY <2>1
  <2>4. stage \in {"select", "withdraw"} /\ (stage = "withdraw" => v # 0)
    OBVIOUS
  <2> HIDE DEF stage
  <2>5. /\ c \in Calls /\ c.operation = "retire" /\ c.stage = stage /\ c.asked = v
        /\ c.version = v /\ c.answer = Absent
    BY <2>2, CallType
  <2> HIDE DEF c
  <2>6. c.operation \in OperationsAt(c.stage)
    BY <2>4, <2>5, StageOperations
  <2>7. QED
    BY <2>3, <2>4, <2>5, <2>6, BeginMoves
<1>5. CASE Execute(s)
  <2>1. PICK v \in 0..MaxVersions, i \in Inputs :
             Begin(s, Call("execute", "get", v, Absent, Absent, i))
    BY <1>5 DEF Execute
  <2> DEFINE c == Call("execute", "get", v, Absent, Absent, i)
  <2>2. "execute" \in Operations /\ "get" \in Stages
    BY DEF Operations, Stages
  <2>3. /\ c \in Calls /\ c.operation = "execute" /\ c.stage = "get" /\ c.asked = v
        /\ c.version = v /\ c.answer = Absent
    BY <2>2, CallType
  <2> HIDE DEF c
  <2>4. c.operation \in OperationsAt(c.stage)
    BY <2>3, StageOperations
  <2>5. Begin(s, c)
    BY <2>1 DEF c
  <2>6. QED
    BY <2>3, <2>4, <2>5, BeginMoves
<1>6. QED
  BY <1>2, <1>3, <1>4, <1>5
(* A registration goes on with a version that has the program of the call.  *)
LEMMA RegisteredOK ==
  ASSUME AliasInv, CallInv, NEW s \in Sessions, call[s].stage = "register",
         NEW v \in DOMAIN alias'.versions, v \in 0..MaxVersions,
         NEW state \in {"draft", "active"},
         alias'.versions[v].content.program = call[s].program,
         alias'.versions[v].state = state
  PROVE  /\ CallOK(alias', Sees(s), Registered(call[s], v, state))
         /\ Registered(call[s], v, state).stage # "record"
<1> DEFINE c == call[s]
           d == Registered(c, v, state)
<1>1. /\ c \in Calls /\ CallOK(alias, seen[s], c) /\ c.operation \in {"draft", "publish"}
      /\ c.program \in Programs /\ c.suite \in Suites /\ Passes(c.program, c.suite)
  BY CallFacts, StageOperations DEF CallOK, Knows
<1>2. <<v, state>> \in Sees(s) /\ States(alias') \subseteq Sees(s)
  BY DEF Sees, States
<1>3. c.answer = Absent
  BY <1>1 DEF CallOK, Knows
<1>4. CASE c.operation = "publish"
  <2>1. d = [c EXCEPT !.stage = "activate", !.version = v] /\ "activate" \in Stages
    BY <1>4 DEF Registered, Stages
  <2>2. /\ Continues(c, d) /\ d.stage = "activate" /\ d.version = v
        /\ d.program = c.program /\ d.answer = Absent
    BY <1>1, <1>3, <2>1 DEF Continues, Calls
  <2> HIDE DEF d
  <2>3. d.operation \in OperationsAt(d.stage)
    BY <1>4, <2>2, StageOperations DEF Continues
  <2>4. Has(alias', d)
    BY <2>2 DEF Has
  <2>5. Knows(alias', Sees(s), d)
    BY <1>1, <1>2, <2>2, <2>4 DEF Knows, Continues
  <2>6. CallOK(alias', Sees(s), d)
    BY <2>2, <2>3, <2>5, SilentClaims DEF CallOK, Continues
  <2>7. QED
    BY <2>2, <2>6 DEF d
<1>5. CASE c.operation = "draft"
  <2>1. d = Answered([c EXCEPT !.version = v], state) /\ state \in Answers
    BY <1>5 DEF Registered, Answers
  <2>2. /\ Continues(c, d) /\ d.stage = "answered" /\ d.version = v
        /\ d.program = c.program /\ d.answer = state
    BY <1>1, <2>1, AnsweredType
  <2> HIDE DEF d
  <2>3. Claims(alias', Sees(s), d)
    BY <1>2, <2>2 DEF Claims, Has, Was
  <2>4. CallOK(alias', Sees(s), d)
    BY <1>1, <2>2, <2>3, AnswerOK
  <2>5. QED
    BY <2>2, <2>4 DEF d
<1>6. QED
  BY <1>1, <1>4, <1>5

LEMMA RegisterMoves ==
  ASSUME AliasInv, CallInv, NEW s \in Sessions,
         RegisterReuse(s) \/ RegisterNew(s) \/ RegisterFull(s)
  PROVE  \E d : Moves(s, d)
<1>1. CASE RegisterReuse(s)
  <2>1. PICK v \in DOMAIN alias.versions :
             /\ call[s].stage = "register"
             /\ IsFirstReusable(alias, call[s].program, v)
             /\ Move(s, Registered(call[s], v, alias.versions[v].state))
             /\ UNCHANGED <<tests, books>>
    BY <1>1 DEF RegisterReuse
  <2> DEFINE state == alias.versions[v].state
  <2>2. /\ alias.versions[v].content.program = call[s].program
        /\ alias.versions[v].state # "retired"
    BY <2>1 DEF IsFirstReusable, Reusable, Retired
  <2>3. state \in {"draft", "active"} /\ v \in 0..MaxVersions
    BY <2>2, CallFacts, AliasFacts DEF Lifecycle
  <2>4. UNCHANGED alias
    BY <2>1 DEF Move, Step
  <2> DEFINE c == Registered(call[s], v, state)
  <2> HIDE DEF state
  <2>5. alias'.versions[v].state = state
    BY <2>4 DEF state
  <2>6. CallOK(alias', Sees(s), c) /\ c.stage # "record"
    BY <2>1, <2>2, <2>3, <2>4, <2>5, RegisteredOK
  <2>7. Move(s, c)
    BY <2>1 DEF state
  <2> HIDE DEF c
  <2>8. QED
    BY <2>1, <2>6, <2>7, ReadMoves
<1>2. CASE RegisterNew(s)
  <2> DEFINE n == Latest(alias) + 1
             c == Registered(call[s], n, "draft")
  <2>1. /\ call[s].stage = "register" /\ Reusable(alias, call[s].program) = {}
        /\ Latest(alias) < MaxVersions /\ Step(s, c, Extended(call[s]))
        /\ tests' = Append(tests, call[s].suite) /\ UNCHANGED books
    BY <1>2 DEF RegisterNew, RegisterNext
  <2>2. alias' = Extended(call[s]) /\ Step(s, c, alias')
    BY <2>1 DEF Step
  <2>3. call[s].program \in Programs
    BY <2>1, CallFacts, StageOperations DEF CallOK, Knows
  <2>4. /\ n \in DOMAIN alias'.versions
        /\ alias'.versions[n].content.program = call[s].program
        /\ alias'.versions[n].state = "draft"
    BY <2>1, <2>2, <2>3, ExtendedFacts
  <2>5. n \in 0..MaxVersions
    BY <2>1, CallFacts
  <2>6. CallOK(alias', Sees(s), c) /\ c.stage # "record"
    BY <2>1, <2>4, <2>5, RegisteredOK
  <2>7. Appends(s)
    BY <2>1, <2>2 DEF Appends
  <2> HIDE DEF c
  <2>8. QED
    BY <2>1, <2>2, <2>6, <2>7 DEF Moves, Edits, Books
<1>3. CASE RegisterFull(s)
  BY <1>3, IdleType, ReadMoves DEF RegisterFull
<1>4. QED
  BY <1>1, <1>2, <1>3

(* Registry.activate and Registry.retire leave the alias alone or edit it.  *)
LEMMA PromotedFacts ==
  ASSUME AliasInv, CallInv, NEW s \in Sessions, NEW v \in DOMAIN alias.versions,
         alias' = Promoted(v), UNCHANGED tests
  PROVE  Edits(s) /\ alias'.versions[v].state = "active" /\ v \in DOMAIN alias'.versions
         /\ Keeps(alias, alias')
<1>1. Edits(s)
  BY DEF Edits, Promoted
<1>2. AliasOK(alias') /\ Keeps(alias, alias')
  BY <1>1, EditFacts
<1>3. alias'.active = v /\ v \in DOMAIN alias'.versions
  BY <1>2, CallFacts, ActivatedFacts DEF Promoted, Keeps
<1>4. QED
  BY <1>1, <1>2, <1>3 DEF AliasOK, WellFormed

LEMMA DemotedFacts ==
  ASSUME AliasInv, CallInv, NEW s \in Sessions, NEW v \in DOMAIN alias.versions,
         alias' = Demoted(v), UNCHANGED tests
  PROVE  Edits(s) /\ alias'.versions[v].state = "retired" /\ v \in DOMAIN alias'.versions
<1>1. Edits(s)
  BY DEF Edits, Demoted
<1>2. Keeps(alias, alias')
  BY <1>1, EditFacts
<1>3. alias'.versions[v].state = "retired"
  BY CallFacts, WithdrawnFacts DEF Demoted, Retired
<1>4. QED
  BY <1>1, <1>2, <1>3 DEF Keeps

LEMMA ActivateMoves ==
  ASSUME AliasInv, CallInv, NEW s \in Sessions, Confirm(s) \/ Promote(s)
  PROVE  \E d : Moves(s, d)
<1> DEFINE c == call[s]
<1>1. c \in Calls /\ CallOK(alias, seen[s], c)
  BY CallFacts
<1>2. CASE Confirm(s) /\ Has(alias, [c EXCEPT !.version = c.asked])
  <2> DEFINE d == [c EXCEPT !.stage = "activate"]
  <2>1. c.stage = "confirm" /\ c.version = c.asked /\ c.operation = "activate"
        /\ c.answer = Absent
    BY <1>1, <1>2, StageOperations DEF CallOK, Knows, Confirm
  <2>2. /\ c.asked \in DOMAIN alias.versions
        /\ alias.versions[c.asked].content.program = c.program
    BY <1>1, <1>2 DEF Has, Calls
  <2>3. Move(s, d) /\ UNCHANGED <<tests, books>>
    BY <1>2, <2>2 DEF Confirm
  <2>4. UNCHANGED alias /\ "activate" \in Stages
    BY <2>3 DEF Move, Step, Stages
  <2>5. /\ Continues(c, d) /\ d.stage = "activate" /\ d.version = c.version
        /\ d.program = c.program /\ d.answer = Absent
    <3>1. c.version \in 0..MaxVersions
      BY <1>1 DEF Calls
    <3>2. QED
      BY <1>1, <2>1, <2>4 DEF Continues, Calls
  <2> HIDE DEF d
  <2>6. d.operation \in OperationsAt(d.stage)
    BY <2>1, <2>5, StageOperations DEF Continues
  <2>7. Has(alias', d) /\ States(alias') \subseteq Sees(s)
    BY <2>1, <2>2, <2>4, <2>5 DEF Has, Sees
  <2>8. Knows(alias', Sees(s), d)
    BY <2>1, <2>5, <2>7 DEF Knows, Continues
  <2>9. CallOK(alias', Sees(s), d)
    BY <2>5, <2>6, <2>8, SilentClaims DEF CallOK, Continues
  <2>10. QED
    BY <2>1, <2>3, <2>5, <2>9, ReadMoves
<1>3. CASE Confirm(s) /\ Move(s, Idle)
  BY <1>3, IdleType, ReadMoves DEF Confirm
<1>4. CASE Promote(s)
  <2> DEFINE d == Answered(c, "active")
  <2>1. /\ c.stage = "activate" /\ Step(s, d, Promoted(c.version)) /\ UNCHANGED <<tests, books>>
    BY <1>4 DEF Promote
  <2>2. alias' = Promoted(c.version) /\ Step(s, d, alias')
    BY <2>1 DEF Step
  <2>3. Has(alias, c)
    BY <1>1, <2>1 DEF CallOK, Knows
  <2>4. /\ Edits(s) /\ alias'.versions[c.version].state = "active"
        /\ c.version \in DOMAIN alias'.versions /\ Keeps(alias, alias')
    BY <2>1, <2>2, <2>3, PromotedFacts DEF Has
  <2>5. "active" \in Answers /\ c.version \in 0..MaxVersions
    BY <1>1 DEF Answers, Calls
  <2>6. /\ Continues(c, d) /\ d.stage = "answered" /\ d.version = c.version
        /\ d.program = c.program /\ d.answer = "active"
    BY <1>1, <2>5 DEF Answered, Continues, Calls, Stages
  <2> HIDE DEF d
  <2>7. Has(alias', d)
    BY <2>3, <2>4, <2>6 DEF Has, Keeps
  <2>8. <<c.version, "active">> \in Sees(s)
    BY <2>4 DEF Sees, States
  <2>9. Claims(alias', Sees(s), d)
    BY <2>6, <2>7, <2>8 DEF Claims, Was
  <2>10. CallOK(alias', Sees(s), d)
    BY <1>1, <2>1, <2>6, <2>9, AnswerOK
  <2>11. QED
    BY <2>1, <2>2, <2>4, <2>6, <2>10 DEF Moves, Books
<1>5. QED
  <2>1. CASE Confirm(s)
    <3>1. [c EXCEPT !.version = c.asked].version = c.asked
          /\ [c EXCEPT !.version = c.asked].program = c.program
      BY <1>1 DEF Calls
    <3>2. QED
      BY <1>2, <1>3, <2>1, <3>1 DEF Confirm, Has
  <2>2. QED
    BY <1>4, <2>1
LEMMA RetireMoves ==
  ASSUME AliasInv, CallInv, NEW s \in Sessions, Select(s) \/ Withdraw(s)
  PROVE  \E d : Moves(s, d)
<1> DEFINE c == call[s]
<1>1. c \in Calls /\ CallOK(alias, seen[s], c)
  BY CallFacts
<1>2. CASE Select(s) /\ alias.active # 0
  <2> DEFINE d == [c EXCEPT !.stage = "withdraw", !.version = alias.active]
  <2>1. /\ c.stage = "select" /\ Move(s, d) /\ UNCHANGED <<tests, books>>
    BY <1>2 DEF Select
  <2>2. /\ c.operation = "retire" /\ c.answer = Absent /\ States(alias) \subseteq seen[s]
    BY <1>1, <2>1, StageOperations DEF CallOK, Knows
  <2>3. UNCHANGED alias /\ "withdraw" \in Stages /\ alias.active \in 0..MaxVersions
    BY <2>1, CallFacts DEF Move, Step, Stages
  <2>4. /\ Continues(c, d) /\ d.stage = "withdraw" /\ d.version = alias.active
        /\ d.program = c.program /\ d.answer = Absent
    BY <1>1, <2>2, <2>3 DEF Continues, Calls
  <2> HIDE DEF d
  <2>5. d.operation \in OperationsAt(d.stage)
    BY <2>2, <2>4, StageOperations DEF Continues
  <2>6. /\ alias.active \in DOMAIN alias.versions
        /\ alias.versions[alias.active].state = "active"
    BY <1>2, CallFacts, WellFormedFacts
  <2>7. Was(Sees(s), d, "active")
    BY <2>2, <2>4, <2>6 DEF Was, Sees, States
  <2>8. States(alias') \subseteq Sees(s)
    BY DEF Sees
  <2>9. Knows(alias', Sees(s), d)
    BY <2>2, <2>4, <2>7, <2>8 DEF Knows, Continues
  <2>10. CallOK(alias', Sees(s), d)
    BY <2>4, <2>5, <2>9, SilentClaims DEF CallOK, Continues
  <2>11. QED
    BY <2>1, <2>4, <2>10, ReadMoves
<1>3. CASE Select(s) /\ alias.active = 0
  BY <1>3, IdleType, ReadMoves DEF Select
<1>4. CASE Withdraw(s) /\ c.version \in DOMAIN alias.versions
  <2> DEFINE d == Answered(c, "retired")
  <2>1. /\ c.stage = "withdraw" /\ Step(s, d, Demoted(c.version)) /\ UNCHANGED <<tests, books>>
    BY <1>4 DEF Withdraw
  <2>2. alias' = Demoted(c.version) /\ Step(s, d, alias')
    BY <2>1 DEF Step
  <2>3. /\ Edits(s) /\ alias'.versions[c.version].state = "retired"
        /\ c.version \in DOMAIN alias'.versions
    BY <1>4, <2>1, <2>2, DemotedFacts
  <2>4. c.asked = 0 => Was(seen[s], c, "active")
    BY <1>1, <2>1 DEF CallOK, Knows
  <2>5. /\ Continues(c, d) /\ d.stage = "answered" /\ d.version = c.version
        /\ d.program = c.program /\ d.answer = "retired"
    BY <1>1 DEF Answered, Continues, Calls, Stages, Answers
  <2> HIDE DEF d
  <2>6. <<d.version, "retired">> \in Sees(s)
    BY <2>3, <2>5 DEF Sees, States
  <2>7. Claims(alias', Sees(s), d)
    BY <2>4, <2>5, <2>6 DEF Claims, Was, Sees, Continues
  <2>8. CallOK(alias', Sees(s), d)
    BY <1>1, <2>1, <2>5, <2>7, AnswerOK
  <2>9. QED
    BY <2>1, <2>2, <2>3, <2>5, <2>8 DEF Moves, Books
<1>5. CASE Withdraw(s) /\ c.version \notin DOMAIN alias.versions
  BY <1>5, IdleType, ReadMoves DEF Withdraw
<1>6. QED
  BY <1>2, <1>3, <1>4, <1>5

(* An answer that leaves alias and books alone. *)
LEMMA AnswerMoves ==
  ASSUME AliasInv, CallInv, NEW s \in Sessions, NEW v \in 0..MaxVersions,
         NEW answer \in {"disabled", "miss"}, call[s].stage \in {"get", "latest"},
         Move(s, Answered([call[s] EXCEPT !.version = v], answer)),
         UNCHANGED <<tests, books>>,
         answer = "disabled" => <<v, "retired">> \in seen[s],
         NothingServed(seen[s], call[s])
  PROVE  \E d : Moves(s, d)
<1> DEFINE c == call[s]
           d == Answered([c EXCEPT !.version = v], answer)
<1>1. c \in Calls /\ CallOK(alias, seen[s], c)
  BY CallFacts
<1>2. /\ Continues(c, d) /\ d.stage = "answered" /\ d.version = v
      /\ d.program = c.program /\ d.answer = answer
  BY <1>1 DEF Answered, Continues, Calls, Stages, Answers
<1>3. Move(s, d)
  OBVIOUS
<1> HIDE DEF d
<1>4. NothingServed(Sees(s), d)
  BY <1>2 DEF NothingServed, Sees, Continues
<1>5. Claims(alias', Sees(s), d)
  BY <1>2, <1>4 DEF Claims, Was, Sees
<1>6. CallOK(alias', Sees(s), d)
  BY <1>1, <1>2, <1>5, AnswerOK
<1>7. QED
  BY <1>2, <1>3, <1>6, ReadMoves

(* What a call sees of the active version at its next step. *)
LEMMA SeesStates ==
  ASSUME AliasInv, CallInv, NEW s \in Sessions, call[s].stage \notin {"idle", "answered"}
  PROVE  /\ \A v \in DOMAIN alias.versions : <<v, alias.versions[v].state>> \in seen[s]
         /\ alias.active = 0 => <<0, "served">> \in seen[s]
         /\ alias.active \notin DOMAIN alias.versions => alias.active = 0
         /\ alias.active \in DOMAIN alias.versions =>
              alias.versions[alias.active].state = "active"
<1>1. States(alias) \subseteq seen[s]
  BY CallFacts DEF CallOK, Knows
<1>2. QED
  BY <1>1, CallFacts, WellFormedFacts DEF States

LEMMA MissMoves ==
  ASSUME AliasInv, CallInv, NEW s \in Sessions, GetNothing(s) \/ Miss(s) \/ Disable(s)
  PROVE  \E d : Moves(s, d)
<1> DEFINE c == call[s]
<1>1. c \in Calls /\ CallOK(alias, seen[s], c)
  BY CallFacts
<1>2. CASE GetNothing(s)
  <2> DEFINE d == [c EXCEPT !.stage = "latest"]
  <2>1. /\ c.stage = "get" /\ Selected(c) \notin DOMAIN alias.versions /\ Move(s, d)
        /\ UNCHANGED <<tests, books>>
    BY <1>2 DEF GetNothing
  <2>2. c.operation = "execute" /\ c.answer = Absent
    BY <1>1, <2>1, StageOperations DEF CallOK, Knows
  <2>3. UNCHANGED alias /\ "latest" \in Stages
    BY <2>1 DEF Move, Step, Stages
  <2>4. /\ Continues(c, d) /\ d.stage = "latest" /\ d.program = c.program /\ d.answer = Absent
    BY <1>1, <2>2, <2>3 DEF Continues, Calls
  <2> HIDE DEF d
  <2>5. d.operation \in OperationsAt(d.stage)
    BY <2>2, <2>4, StageOperations DEF Continues
  <2>6. NothingServed(Sees(s), d)
    BY <2>1, <2>4, SeesStates DEF NothingServed, Selected, Sees, Continues
  <2>7. States(alias') \subseteq Sees(s)
    BY DEF Sees
  <2>8. Knows(alias', Sees(s), d)
    BY <2>2, <2>4, <2>6, <2>7 DEF Knows, Continues
  <2>9. CallOK(alias', Sees(s), d)
    BY <2>4, <2>5, <2>8, SilentClaims DEF CallOK, Continues
  <2>10. QED
    BY <2>1, <2>4, <2>9, ReadMoves
<1>3. CASE Miss(s)
  <2> DEFINE v == Latest(alias)
             answer == IF v # 0 /\ Retired(alias, v) THEN "disabled" ELSE "miss"
  <2>1. /\ c.stage = "latest" /\ Move(s, Answered([c EXCEPT !.version = v], answer))
        /\ UNCHANGED <<tests, books>>
    BY <1>3 DEF Miss
  <2>2. v \in 0..MaxVersions /\ answer \in {"disabled", "miss"}
    BY CallFacts
  <2>3. answer = "disabled" => <<v, "retired">> \in seen[s]
    BY <2>1, SeesStates, CallFacts DEF Retired
  <2>4. NothingServed(seen[s], c)
    BY <1>1, <2>1 DEF CallOK, Knows
  <2> HIDE DEF v, answer
  <2>5. QED
    BY <2>1, <2>2, <2>3, <2>4, AnswerMoves
<1>4. CASE Disable(s)
  <2> DEFINE v == Selected(c)
  <2>1. /\ c.stage = "get" /\ v \in DOMAIN alias.versions /\ Retired(alias, v)
        /\ Move(s, Answered([c EXCEPT !.version = v], "disabled"))
        /\ UNCHANGED <<tests, books>>
    BY <1>4 DEF Disable
  <2>2. v \in 0..MaxVersions
    BY <2>1, CallFacts
  <2>3. <<v, "retired">> \in seen[s]
    BY <2>1, SeesStates DEF Retired
  <2>4. NothingServed(seen[s], c)
    BY <2>1, SeesStates DEF NothingServed, Selected, Retired
  <2> HIDE DEF v
  <2>5. QED
    BY <2>1, <2>2, <2>3, <2>4, AnswerMoves
<1>5. QED
  BY <1>2, <1>3, <1>4

LEMMA RunMoves ==
  ASSUME AliasInv, CallInv, NEW s \in Sessions, Run(s)
  PROVE  \E d : Moves(s, d)
<1> DEFINE c == call[s]
           v == Selected(c)
           p == alias.versions[v].content.program
           d == [c EXCEPT !.stage = "record", !.version = v, !.program = p]
<1>1. c \in Calls /\ CallOK(alias, seen[s], c)
  BY CallFacts
<1>2. /\ c.stage = "get" /\ v \in DOMAIN alias.versions /\ ~Retired(alias, v)
      /\ UNCHANGED <<tests, counters, told>>
      /\ \/ Move(s, Idle) /\ UNCHANGED ran
         \/ Move(s, d) /\ ran' = [ran EXCEPT ![v] = @ + 1]
  BY DEF Run, RunSelected
<1>3. CASE Move(s, Idle) /\ UNCHANGED ran
  BY <1>2, <1>3, IdleType, ReadMoves DEF books
<1>4. CASE Move(s, d) /\ ran' = [ran EXCEPT ![v] = @ + 1]
  <2>1. c.operation = "execute" /\ c.answer = Absent
    BY <1>1, <1>2, StageOperations DEF CallOK, Knows
  <2>2. UNCHANGED alias /\ Step(s, d, alias')
    BY <1>4 DEF Move, Step
  <2>3. p \in Programs /\ v \in 0..MaxVersions /\ "record" \in Stages
    <3>1. alias.versions[v].content \in Records
      BY <1>2, CallFacts, AliasFacts
    <3>2. QED
      BY <1>2, <3>1, CallFacts DEF Records, Stages
  <2>4. <<v, "draft">> \in seen[s] \/ <<v, "active">> \in seen[s]
    <3>1. alias.versions[v].state \in {"draft", "active"}
      BY <1>2, CallFacts, AliasFacts DEF Lifecycle, Retired
    <3>2. QED
      BY <1>2, <3>1, SeesStates
  <2>5. c.asked = 0 => <<v, "active">> \in seen[s]
    BY <1>2, SeesStates DEF Selected
  <2>6. c.asked # 0 => v = c.asked
    BY DEF Selected
  <2>7. alias'.versions[v].content.program = p /\ v \in DOMAIN alias'.versions
    BY <1>2, <2>2
  <2>8. ran' = [ran EXCEPT ![v] = @ + 1]
    BY <1>4
  <2> HIDE DEF p, v
  <2>9. /\ Continues(c, d) /\ d.stage = "record" /\ d.version = v
        /\ d.program = p /\ d.answer = Absent
    BY <1>1, <2>1, <2>3 DEF Continues, Calls
  <2> HIDE DEF d
  <2>10. d.operation \in OperationsAt(d.stage)
    BY <2>1, <2>9, StageOperations DEF Continues
  <2>11. WasServed(Sees(s), d)
    BY <2>4, <2>5, <2>6, <2>9 DEF WasServed, Was, Sees, Continues
  <2>12. Has(alias', d) /\ States(alias') \subseteq Sees(s)
    BY <2>7, <2>9 DEF Has, Sees
  <2>13. Knows(alias', Sees(s), d)
    BY <2>1, <2>9, <2>11, <2>12 DEF Knows, Continues
  <2>14. CallOK(alias', Sees(s), d)
    BY <2>9, <2>10, <2>13, SilentClaims DEF CallOK, Continues
  <2>15. Books(s, d)
    BY <1>2, <2>8, <2>9 DEF Books
  <2>16. QED
    BY <1>2, <2>2, <2>14, <2>15 DEF Moves, Edits
<1>5. QED
  BY <1>2, <1>3, <1>4

LEMMA RecordMoves ==
  ASSUME AliasInv, CallInv, NEW s \in Sessions, Record(s) \/ RecordFails(s)
  PROVE  \E d : Moves(s, d)
<1> DEFINE c == call[s]
           d == Answered(c, "hit")
<1>1. c \in Calls /\ CallOK(alias, seen[s], c)
  BY CallFacts
<1>2. /\ c.stage = "record" /\ Move(s, d) /\ UNCHANGED <<tests, ran>>
      /\ \/ counters' = counters /\ told' = told
         \/ counters' = Counted(c) /\ told' = told
         \/ counters' = Counted(c) /\ told' = [told EXCEPT ![c.version] = @ + 1]
  BY DEF Record, RecordFails
<1>3. UNCHANGED alias /\ Step(s, d, alias')
  BY <1>2 DEF Move, Step
<1>4. /\ Continues(c, d) /\ d.stage = "answered" /\ d.version = c.version
      /\ d.program = c.program /\ d.answer = "hit"
  BY <1>1 DEF Answered, Continues, Calls, Stages, Answers
<1> HIDE DEF d
<1>5. WasServed(seen[s], c) /\ Has(alias, c)
  BY <1>1, <1>2 DEF CallOK, Knows
<1>6. WasServed(Sees(s), d) /\ Has(alias', d)
  BY <1>3, <1>4, <1>5 DEF WasServed, Has, Was, Sees, Continues
<1>7. Claims(alias', Sees(s), d)
  BY <1>4, <1>6 DEF Claims
<1>8. CallOK(alias', Sees(s), d)
  BY <1>1, <1>2, <1>4, <1>7, AnswerOK
<1>9. Books(s, d)
  BY <1>2, <1>4 DEF Books
<1>10. QED
  BY <1>2, <1>3, <1>8, <1>9 DEF Moves, Edits

LEMMA FailureMoves ==
  ASSUME AliasInv, CallInv, NEW s \in Sessions,
         StorageFails(s) \/ WriteFailsLate(s) \/ Return(s)
  PROVE  \E d : Moves(s, d)
<1> DEFINE c == call[s]
<1>1. c \in Calls /\ CallOK(alias, seen[s], c) /\ Idle.stage = "idle"
  BY CallFacts, IdleType
<1>2. CASE StorageFails(s)
  BY <1>1, <1>2, ReadMoves DEF StorageFails
<1>3. CASE Return(s)
  <2>1. Step(s, Idle, alias') /\ UNCHANGED alias /\ c.stage = "answered"
        /\ UNCHANGED <<tests, books>>
    BY <1>3 DEF Return, Move, Step
  <2>2. QED
    BY <1>1, <2>1, IdleMoves DEF Edits, Books
<1>4. CASE WriteFailsLate(s)
  <2>1. UNCHANGED books
    BY <1>4 DEF WriteFailsLate
  <2>2. CASE /\ c.stage = "register"
             /\ Reusable(alias, c.program) = {} /\ Latest(alias) < MaxVersions
             /\ Step(s, Idle, Extended(c)) /\ tests' = Append(tests, c.suite)
    <3>1. Step(s, Idle, alias') /\ Appends(s)
      BY <2>2 DEF Step, Appends
    <3>2. QED
      BY <1>1, <2>1, <2>2, <3>1, IdleMoves DEF Edits, Books
  <2>3. CASE c.stage = "activate" /\ Step(s, Idle, Promoted(c.version)) /\ UNCHANGED tests
    <3>1. Step(s, Idle, alias') /\ alias' = Promoted(c.version)
      BY <2>3 DEF Step
    <3>2. c.version \in DOMAIN alias.versions
      BY <1>1, <2>3 DEF CallOK, Knows, Has
    <3>3. Edits(s)
      BY <2>3, <3>1, <3>2, PromotedFacts
    <3>4. QED
      BY <1>1, <2>1, <2>3, <3>1, <3>3, IdleMoves DEF Books
  <2>4. CASE /\ c.stage = "withdraw" /\ c.version \in DOMAIN alias.versions
             /\ Step(s, Idle, Demoted(c.version)) /\ UNCHANGED tests
    <3>1. Step(s, Idle, alias') /\ alias' = Demoted(c.version)
      BY <2>4 DEF Step
    <3>2. Edits(s)
      BY <2>4, <3>1, DemotedFacts
    <3>3. QED
      BY <1>1, <2>1, <2>4, <3>1, <3>2, IdleMoves DEF Books
  <2>5. QED
    BY <1>4, <2>2, <2>3, <2>4 DEF WriteFailsLate
<1>5. QED
  BY <1>2, <1>3, <1>4

LEMMA NextSteps ==
  ASSUME AliasInv, CallInv, [Next]_vars
  PROVE  \/ \E s \in Sessions : \E d : Moves(s, d)
         \/ Crash
         \/ UNCHANGED vars
<1> DEFINE Acts(s) ==
      \/ Crystallize(s) \/ RegisterReuse(s) \/ RegisterNew(s) \/ RegisterFull(s)
      \/ Activate(s) \/ Confirm(s) \/ Promote(s)
      \/ Retire(s) \/ Select(s) \/ Withdraw(s)
      \/ Execute(s) \/ GetNothing(s) \/ Miss(s) \/ Disable(s) \/ Run(s) \/ Record(s) \/ RecordFails(s)
      \/ StorageFails(s) \/ WriteFailsLate(s) \/ Return(s)
<1>1. CASE \E s \in Sessions : Acts(s)
  <2>1. PICK s \in Sessions : Acts(s)
    BY <1>1
  <2>2. \E d : Moves(s, d)
    BY <2>1, CallsMove, RegisterMoves, ActivateMoves, RetireMoves, MissMoves, RunMoves,
       RecordMoves, FailureMoves
  <2>3. QED
    BY <2>2
<1>2. QED
  BY <1>1 DEF Next
-----------------------------------------------------------------------------
(* The books. *)

LEMMA BooksStep ==
  ASSUME AliasInv, CallInv, BooksInv, NEW s \in Sessions, NEW c, Moves(s, c)
  PROVE  BooksInv'
<1>1. /\ call' = [call EXCEPT ![s] = c] /\ call'[s] = c
      /\ \A u \in Sessions \ {s} : call'[u] = call[u]
  BY DEF Moves, Step, CallInv
<1>2. /\ counters \in [Versions -> Nat] /\ ran \in [Versions -> Nat]
      /\ told \in [Versions -> Nat]
      /\ \A v \in Versions :
           /\ v > Latest(alias) => counters[v] = 0
           /\ told[v] <= counters[v]
           /\ IsFiniteSet(Recording(v))
           /\ counters[v] + Cardinality(Recording(v)) <= ran[v]
  BY DEF BooksInv
<1>3. \A v \in Versions : Cardinality(Recording(v)) \in Nat
  BY <1>2, FS_CardinalityType
<1>4. Latest(alias) <= Latest(alias') /\ Latest(alias) \in Nat /\ Latest(alias') \in Nat
      /\ DOMAIN alias.versions = 1..Latest(alias) /\ Latest(alias') <= MaxVersions
      /\ DOMAIN alias'.versions = 1..Latest(alias')
      /\ DOMAIN alias.versions \subseteq Versions /\ DOMAIN alias'.versions \subseteq Versions
  <2>1. AliasOK(alias') /\ Latest(alias) <= Latest(alias')
    BY EditFacts DEF Moves
  <2>2. /\ Latest(alias') \in Nat /\ Latest(alias') <= MaxVersions
        /\ DOMAIN alias'.versions = 1..Latest(alias')
    BY <2>1, AliasFacts DEF AliasOK
  <2>3. QED
    BY <2>1, <2>2, CallFacts DEF Versions
<1>5. CASE call[s].stage # "record" /\ c.stage # "record" /\ UNCHANGED books
  <2>1. \A v \in Versions : Recording(v)' = Recording(v)
    BY <1>1, <1>5 DEF Recording
  <2>2. counters' = counters /\ ran' = ran /\ told' = told
    BY <1>5 DEF books
  <2>3. ASSUME NEW v \in Versions
        PROVE  /\ v > Latest(alias') => counters'[v] = 0
               /\ told'[v] <= counters'[v]
               /\ IsFiniteSet(Recording(v)')
               /\ counters'[v] + Cardinality(Recording(v)') <= ran'[v]
    BY <1>2, <1>4, <2>1, <2>2 DEF Versions
  <2>4. QED
    BY <1>2, <2>2, <2>3 DEF BooksInv
<1>6. CASE /\ call[s].stage # "record" /\ c.stage = "record"
           /\ ran' = [ran EXCEPT ![c.version] = @ + 1]
           /\ UNCHANGED <<counters, told>>
  <2>1. CallOK(alias', Sees(s), c)
    BY <1>6, IdleType DEF Moves
  <2>2. c.version \in Versions
    BY <1>4, <1>6, <2>1 DEF CallOK, Knows, Has
  <2>3. \A v \in Versions \ {c.version} : Recording(v)' = Recording(v) /\ ran'[v] = ran[v]
    BY <1>1, <1>2, <1>6 DEF Recording
  <2>4. /\ Recording(c.version)' = Recording(c.version) \cup {s}
        /\ s \notin Recording(c.version)
    BY <1>1, <1>6 DEF Recording
  <2>5. /\ IsFiniteSet(Recording(c.version)')
        /\ Cardinality(Recording(c.version)') = Cardinality(Recording(c.version)) + 1
    BY <1>2, <2>2, <2>4, FS_AddElement
  <2>6. ran'[c.version] = ran[c.version] + 1 /\ ran' \in [Versions -> Nat]
    BY <1>2, <1>6, <2>2
  <2>7. counters' = counters /\ told' = told
    BY <1>6
  <2>8. ASSUME NEW v \in Versions
        PROVE  /\ v > Latest(alias') => counters'[v] = 0
               /\ told'[v] <= counters'[v]
               /\ IsFiniteSet(Recording(v)')
               /\ counters'[v] + Cardinality(Recording(v)') <= ran'[v]
    <3>1. v > Latest(alias') => v > Latest(alias)
      BY <1>4 DEF Versions
    <3>2. CASE v # c.version
      BY <1>2, <2>3, <2>7, <3>1, <3>2
    <3>3. CASE v = c.version
      <4>1. counters[v] + Cardinality(Recording(v)) <= ran[v] /\ counters[v] \in Nat
            /\ ran[v] \in Nat /\ Cardinality(Recording(v)) \in Nat
        BY <1>2, <1>3
      <4>2. counters[v] + (Cardinality(Recording(v)) + 1) <= ran[v] + 1
        BY <4>1
      <4>3. counters'[v] + Cardinality(Recording(v)') <= ran'[v]
        BY <2>5, <2>6, <2>7, <3>3, <4>2
      <4>4. QED
        BY <1>2, <2>5, <2>7, <3>1, <3>3, <4>3
    <3>4. QED
      BY <3>2, <3>3
  <2>9. QED
    BY <1>2, <2>6, <2>7, <2>8 DEF BooksInv
<1>7. CASE /\ call[s].stage = "record" /\ c.stage # "record"
           /\ UNCHANGED ran
           /\ \/ counters' = counters /\ told' = told
              \/ counters' = Counted(call[s]) /\ told' = told
              \/ /\ counters' = Counted(call[s])
                 /\ told' = [told EXCEPT ![call[s].version] = @ + 1]
  <2>0. PICK k : k = call[s].version
    OBVIOUS
  <2>1. k \in DOMAIN alias.versions /\ k \in Versions
    BY <1>4, <1>7, <2>0 DEF CallInv, CallOK, Knows, Has
  <2>2. \A v \in Versions \ {k} : Recording(v)' = Recording(v)
    BY <1>1, <1>7, <2>0 DEF Recording
  <2>3. Recording(k)' = Recording(k) \ {s} /\ s \in Recording(k)
    BY <1>1, <1>7, <2>0 DEF Recording
  <2>4. /\ IsFiniteSet(Recording(k) \ {s})
        /\ Cardinality(Recording(k) \ {s}) = Cardinality(Recording(k)) - 1
    BY <1>2, <2>1, <2>3, FS_RemoveElement
  <2>5. /\ counters' \in [Versions -> Nat] /\ told' \in [Versions -> Nat]
        /\ \A v \in Versions \ {k} : counters'[v] = counters[v] /\ told'[v] = told[v]
    BY <1>2, <1>7, <2>0, <2>1 DEF Counted
  <2>6. /\ counters'[k] \in {counters[k], counters[k] + 1}
        /\ told'[k] = told[k] \/ (told'[k] = told[k] + 1 /\ counters'[k] = counters[k] + 1)
    BY <1>2, <1>7, <2>0, <2>1 DEF Counted
  <2>7. Recording(k)' = Recording(k) \ {s} /\ ran' = ran
    BY <1>7, <2>3
  <2>8. ASSUME NEW v \in Versions
        PROVE  /\ v > Latest(alias') => counters'[v] = 0
               /\ told'[v] <= counters'[v]
               /\ IsFiniteSet(Recording(v)')
               /\ counters'[v] + Cardinality(Recording(v)') <= ran'[v]
    <3>1. v > Latest(alias') => v > Latest(alias)
      BY <1>4 DEF Versions
    <3>2. CASE v # k
      BY <1>2, <2>2, <2>5, <2>7, <3>1, <3>2
    <3>3. CASE v = k
      <4>1. /\ counters[k] + Cardinality(Recording(k)) <= ran[k] /\ told[k] <= counters[k]
            /\ counters[k] \in Nat /\ told[k] \in Nat /\ ran[k] \in Nat
            /\ Cardinality(Recording(k)) \in Nat
        BY <1>2, <1>3, <2>1
      <4>2. told'[k] <= counters'[k]
        BY <2>6, <4>1
      <4>3. Cardinality(Recording(k)') = Cardinality(Recording(k)) - 1
        BY <2>4, <2>7
      <4>4. counters'[k] + Cardinality(Recording(k)') <= ran'[k]
        BY <2>6, <2>7, <4>1, <4>3
      <4>5. ~ (k > Latest(alias'))
        BY <1>4, <2>1
      <4>6. QED
        BY <2>4, <2>7, <3>3, <4>2, <4>4, <4>5
    <3>4. QED
      BY <3>2, <3>3
  <2>9. QED
    BY <1>2, <2>5, <2>7, <2>8 DEF BooksInv
<1>8. QED
  BY <1>5, <1>6, <1>7 DEF Moves, Books

LEMMA InitInv == Init => IInv
<1> SUFFICES ASSUME Init PROVE IInv
  OBVIOUS
<1>1. AliasOK(alias) /\ Latest(alias) = 0 /\ DOMAIN alias.versions = {}
  BY EmptyAliasFacts, ServiceAssumption DEF Init, AliasOK
<1>2. tests \in Seq(Suites) /\ Len(tests) = 0
  BY DEF Init
<1>3. AliasInv
  BY <1>1, <1>2 DEF AliasInv, DraftsAreDistinct
<1>4. \A s \in Sessions : call[s] = Idle /\ call[s].stage = "idle" /\ CallOK(alias, seen[s], call[s])
  BY IdleType DEF Init
<1>5. CallInv
  BY <1>4, IdleType DEF CallInv, Init
<1>6. ASSUME NEW v \in Versions
      PROVE  IsFiniteSet(Recording(v)) /\ Cardinality(Recording(v)) = 0
  <2>1. Recording(v) = {}
    BY <1>4 DEF Recording
  <2>2. QED
    BY <2>1, FS_EmptySet
<1>7. BooksInv
  BY <1>6 DEF Init, BooksInv
<1>8. QED
  BY <1>3, <1>5, <1>7 DEF IInv

LEMMA InvStep == IInv /\ [Next]_vars => IInv'
<1> SUFFICES ASSUME IInv, [Next]_vars PROVE IInv'
  OBVIOUS
<1>0. AliasInv /\ CallInv /\ BooksInv
  BY DEF IInv
<1>1. CASE \E s \in Sessions : \E d : Moves(s, d)
  <2>1. PICK s \in Sessions : \E d : Moves(s, d)
    BY <1>1
  <2>2. PICK d : Moves(s, d)
    BY <2>1
  <2>3. AliasInv' /\ Keeps(alias, alias')
    BY <1>0, <2>2, AliasStep, EditFacts DEF Moves
  <2>4. CallInv'
    BY <1>0, <2>2, <2>3, StepCalls DEF Moves
  <2>5. BooksInv'
    BY <1>0, <2>2, BooksStep
  <2>6. QED
    BY <2>3, <2>4, <2>5 DEF IInv
<1>2. CASE Crash
  <2>1. /\ call' = [s \in Sessions |-> Idle] /\ UNCHANGED <<alias, tests, counters, ran, told>>
    BY <1>2 DEF Crash, books
  <2>2. AliasInv'
    BY <1>0, <2>1 DEF AliasInv, DraftsAreDistinct
  <2>3. \A s \in Sessions : call'[s] = Idle /\ call'[s].stage = "idle"
                              /\ CallOK(alias', seen'[s], call'[s])
    BY <2>1, IdleType
  <2>4. CallInv'
    BY <2>1, <2>3, IdleType DEF CallInv
  <2>5. ASSUME NEW v \in Versions
        PROVE  /\ IsFiniteSet(Recording(v)') /\ Cardinality(Recording(v)') = 0
               /\ Cardinality(Recording(v)) \in Nat
    <3>1. Recording(v)' = {}
      BY <2>3 DEF Recording
    <3>2. Cardinality(Recording(v)) \in Nat
      BY <1>0, FS_CardinalityType DEF BooksInv
    <3>3. QED
      BY <3>1, <3>2, FS_EmptySet
  <2>6. ASSUME NEW v \in Versions
        PROVE  /\ v > Latest(alias') => counters'[v] = 0
               /\ told'[v] <= counters'[v]
               /\ IsFiniteSet(Recording(v)')
               /\ counters'[v] + Cardinality(Recording(v)') <= ran'[v]
    <3>1. /\ counters[v] + Cardinality(Recording(v)) <= ran[v]
          /\ counters[v] \in Nat /\ ran[v] \in Nat /\ told[v] <= counters[v]
          /\ v > Latest(alias) => counters[v] = 0
      BY <1>0 DEF BooksInv
    <3>2. QED
      BY <2>1, <2>5, <3>1
  <2>7. BooksInv'
    BY <1>0, <2>1, <2>6 DEF BooksInv
  <2>8. QED
    BY <2>2, <2>4, <2>7 DEF IInv
<1>3. CASE UNCHANGED vars
  BY <1>0, <1>3 DEF vars, books, IInv, AliasInv, DraftsAreDistinct, CallInv, BooksInv, Recording
<1>4. QED
  BY <1>0, <1>1, <1>2, <1>3, NextSteps

(* The inductive invariant of the service, for any number of sessions. *)
THEOREM ServiceInvariant == Spec => []IInv
<1>1. QED
  BY InitInv, InvStep, PTL DEF Spec

-----------------------------------------------------------------------------
(* However calls of several sessions interleave, fail or are cut off, the   *)
(* stored alias is one that _validate_alias accepts and every version keeps *)
(* the tests of its record.                                                 *)
THEOREM TypeCorrect == Spec => []TypeOK
<1>1. ASSUME IInv PROVE TypeOK
  <2>1. /\ WellFormed(alias) /\ Len(tests) = Latest(alias) /\ Latest(alias) <= MaxVersions
    BY <1>1 DEF IInv, AliasInv, AliasOK
  <2>2. \A v \in Versions : v > Latest(alias) => counters[v] = 0
    BY <1>1 DEF IInv, BooksInv
  <2>3. \A s \in Sessions : call[s].operation \in OperationsAt(call[s].stage)
    BY <1>1 DEF IInv, CallInv, CallOK
  <2>4. QED
    BY <2>1, <2>2, <2>3 DEF TypeOK, OperationsAt
<1>2. QED
  BY <1>1, ServiceInvariant, PTL

(* Every answer of a call was true at some moment of the call, although it  *)
(* is put together from several reads with nothing held in between.         *)
THEOREM AnswersTrue == Spec => []AnswersWereTrue
<1>1. ASSUME IInv PROVE AnswersWereTrue
  <2>1. ASSUME NEW s \in Sessions
        PROVE  Claims(alias, seen[s], call[s]) /\ call[s].answer \in Answers \cup {Absent}
    BY <1>1 DEF IInv, CallInv, CallOK, Calls
  <2>2. QED
    BY <2>1, NoAnswer DEF AnswersWereTrue, Claims, WasServed, NothingServed, Was, Has, Answers
<1>2. QED
  BY <1>1, ServiceInvariant, PTL

(* A run that was answered as recorded is counted, and no run is counted    *)
(* twice, whatever writes of the counters fail before or after their effect. *)
THEOREM CountersTrue == Spec => []CountersMatchAnswers
<1>1. ASSUME IInv PROVE CountersMatchAnswers
  <2>1. ASSUME NEW v \in Versions
        PROVE  told[v] <= counters[v] /\ counters[v] <= ran[v]
    <3>1. /\ told[v] <= counters[v] /\ counters[v] \in Nat /\ ran[v] \in Nat
          /\ IsFiniteSet(Recording(v))
          /\ counters[v] + Cardinality(Recording(v)) <= ran[v]
      BY <1>1 DEF IInv, BooksInv
    <3>2. Cardinality(Recording(v)) \in Nat
      BY <3>1, FS_CardinalityType
    <3>3. QED
      BY <3>1, <3>2
  <2>2. QED
    BY <2>1 DEF CountersMatchAnswers
<1>2. QED
  BY <1>1, ServiceInvariant, PTL

(* No stored version, and no version a crystallization answers with, fails  *)
(* the tests it came with, or was found to pass.                            *)
THEOREM TestsPassed == Spec => []VersionsPassTheirTests
<1>1. ASSUME IInv PROVE VersionsPassTheirTests
  <2>1. ASSUME NEW v \in DOMAIN alias.versions, NEW i \in DOMAIN tests[v]
        PROVE  alias.versions[v].content.program[i] = tests[v][i]
    BY <1>1 DEF IInv, AliasInv, Passes
  <2>2. ASSUME NEW s \in Sessions, call[s].operation \in {"draft", "publish"},
               call[s].answer \in {"draft", "active"}, NEW i \in DOMAIN call[s].suite
        PROVE  alias.versions[call[s].version].content.program[i] = call[s].suite[i]
    <3>1. CallOK(alias, seen[s], call[s])
      BY <1>1 DEF IInv, CallInv
    <3>2. Has(alias, call[s]) /\ Passes(call[s].program, call[s].suite)
      BY <2>2, <3>1 DEF CallOK, Claims, Knows
    <3>3. QED
      BY <2>2, <3>2 DEF Has, Passes
  <2>3. QED
    BY <2>1, <2>2 DEF VersionsPassTheirTests
<1>2. QED
  BY <1>1, ServiceInvariant, PTL

(* Repeated or concurrent crystallizations of a program leave one draft.    *)
THEOREM OneDraft == Spec => []DraftsAreDistinct
<1>1. IInv => DraftsAreDistinct
  BY DEF IInv, AliasInv
<1>2. QED
  BY <1>1, ServiceInvariant, PTL
-----------------------------------------------------------------------------
(* The refinement.  What Catalog.tla sees of an alias and its tests. *)

Publications == [program : Programs, tested : BOOLEAN]

Past(a, ts) ==
  [v \in DOMAIN a.versions |->
     [program |-> a.versions[v].content.program,
      tested |-> Passes(a.versions[v].content.program, ts[v])]]

LEMMA PastType ==
  ASSUME NEW a, AliasOK(a), NEW ts
  PROVE  /\ Past(a, ts) \in Seq(Publications) /\ Len(Past(a, ts)) = Latest(a)
         /\ DOMAIN Past(a, ts) = 1..Latest(a) /\ DOMAIN a.versions = 1..Latest(a)
         /\ \A v \in DOMAIN a.versions :
              Past(a, ts)[v] = [program |-> a.versions[v].content.program,
                                tested |-> Passes(a.versions[v].content.program, ts[v])]
<1>1. /\ DOMAIN a.versions = 1..Latest(a) /\ Latest(a) \in Nat
      /\ \A v \in DOMAIN a.versions : a.versions[v].content \in Records
  BY AliasFacts DEF AliasOK
<1>2. \A v \in DOMAIN a.versions :
        [program |-> a.versions[v].content.program,
         tested |-> Passes(a.versions[v].content.program, ts[v])] \in Publications
  BY <1>1 DEF Records, Publications, Passes
<1>3. Past(a, ts) \in [1..Latest(a) -> Publications]
  BY <1>1, <1>2 DEF Past
<1>4. Past(a, ts) \in Seq(Publications) /\ Len(Past(a, ts)) = Latest(a)
  BY <1>1, <1>3
<1>5. QED
  BY <1>1, <1>3, <1>4 DEF Past

(* The variables of Catalog.tla under the refinement mapping. *)
SeenHistory == [n \in {"crystal"} |-> History]
SeenRetired == [n \in {"crystal"} |-> {v \in DOMAIN alias.versions : Retired(alias, v)}]
SeenServing == [n \in {"crystal"} |-> alias.active]

LEMMA SeenAlias ==
  /\ /\ SeenHistory["crystal"] = Past(alias, tests)
     /\ SeenRetired["crystal"] = Gone(alias)
     /\ SeenServing["crystal"] = alias.active
  /\ /\ SeenHistory'["crystal"] = Past(alias', tests')
     /\ SeenRetired'["crystal"] = Gone(alias')
     /\ SeenServing'["crystal"] = alias'.active
BY DEF SeenHistory, SeenRetired, SeenServing, History, Past, Gone, Passes

(* All that is seen is seen of the one crystal. *)
LEMMA SeenCrystal ==
  ASSUME NEW h, NEW r, NEW k
  PROVE  /\ SeenHistory'["crystal"] = h => SeenHistory' = [SeenHistory EXCEPT !["crystal"] = h]
         /\ SeenRetired'["crystal"] = r => SeenRetired' = [SeenRetired EXCEPT !["crystal"] = r]
         /\ SeenServing'["crystal"] = k => SeenServing' = [SeenServing EXCEPT !["crystal"] = k]
         /\ SeenHistory'["crystal"] = SeenHistory["crystal"] => SeenHistory' = SeenHistory
         /\ SeenRetired'["crystal"] = SeenRetired["crystal"] => SeenRetired' = SeenRetired
         /\ SeenServing'["crystal"] = SeenServing["crystal"] => SeenServing' = SeenServing
BY DEF SeenHistory, SeenRetired, SeenServing

(* A registration publishes a program no version in use has. *)
LEMMA AppendsPublishes ==
  ASSUME AliasInv, CallInv, NEW s \in Sessions, Appends(s)
  PROVE  Promise!Publish("crystal")
<1> DEFINE p == call[s].program
           n == Latest(alias) + 1
           suite == call[s].suite
           r == NextContent(alias, "crystal", p, TRUE)
<1>1. p \in Programs /\ suite \in Suites /\ Passes(p, suite)
  BY CallFacts, StageOperations DEF Appends, CallOK, Knows
<1>2. /\ AliasOK(alias) /\ AliasOK(alias') /\ Latest(alias') = n
      /\ alias'.versions[n].content.program = p
      /\ \A v \in DOMAIN alias.versions : alias'.versions[v] = alias.versions[v]
  BY <1>1, CallFacts, ExtendedFacts DEF Appends
<1>3. tests' = Append(tests, suite) /\ tests \in Seq(Suites) /\ Len(tests) = Latest(alias)
      /\ Latest(alias) \in Nat
  BY CallFacts DEF Appends, AliasInv
<1>4. tests'[n] = suite /\ \A v \in 1..Latest(alias) : tests'[v] = tests[v]
  BY <1>1, <1>3
<1>5. Gone(alias') = Gone(alias) /\ alias'.active = alias.active
  <2>1. r \in Records /\ r.version = n /\ r.revision = alias.revision + 1
    BY <1>1, CallFacts, AliasFacts DEF NextContent, Records
  <2>2. alias' = WithVersion(alias, r)
    BY DEF Appends, Extended
  <2> HIDE DEF r
  <2>3. QED
    BY <2>1, <2>2, CallFacts, WithVersionFacts, WithVersionGone
<1> DEFINE e == [program |-> p, tested |-> TRUE]
           h == Past(alias, tests)
           g == Past(alias', tests')
<1>6. e \in Publications
  BY <1>1 DEF Publications
<1>7. /\ h \in Seq(Publications) /\ Len(h) = Latest(alias) /\ DOMAIN h = 1..Latest(alias)
      /\ DOMAIN alias.versions = 1..Latest(alias)
      /\ g \in Seq(Publications) /\ Len(g) = n /\ DOMAIN alias'.versions = 1..n
  BY <1>2, PastType
<1>8. g[n] = e
  <2>1. n \in DOMAIN alias'.versions
    BY <1>3, <1>7
  <2>2. g[n] = [program |-> p, tested |-> Passes(p, suite)]
    BY <1>2, <1>4, <2>1 DEF Past
  <2>3. Passes(p, suite) = TRUE
    BY <1>1 DEF Passes
  <2>4. QED
    BY <2>2, <2>3
<1>9. ASSUME NEW v \in 1..Latest(alias)
      PROVE  g[v] = h[v]
  <2>1. v \in DOMAIN alias.versions /\ v \in DOMAIN alias'.versions
    BY <1>3, <1>7
  <2>2. alias'.versions[v] = alias.versions[v] /\ tests'[v] = tests[v]
    BY <1>2, <1>4, <2>1
  <2>3. QED
    BY <2>1, <2>2 DEF Past
<1>10. ASSUME NEW v \in DOMAIN h, h[v].program = p
       PROVE  v \in Gone(alias)
  <2>1. v \in DOMAIN alias.versions /\ alias.versions[v].content.program = p
    BY <1>7, <1>10 DEF Past
  <2>2. Retired(alias, v)
    BY <2>1 DEF Appends, Reusable
  <2>3. QED
    BY <2>1, <2>2 DEF Gone
<1>11. g = Append(h, e)
  BY <1>6, <1>7, <1>8, <1>9, AppendedBy
<1> HIDE DEF e, h, g
<1>12. SeenHistory["crystal"] = h /\ SeenRetired["crystal"] = Gone(alias)
  BY SeenAlias DEF h
<1>13. \A v \in DOMAIN SeenHistory["crystal"] :
         SeenHistory["crystal"][v].program = p => v \in SeenRetired["crystal"]
  BY <1>10, <1>12
<1>14. /\ SeenHistory' = [SeenHistory EXCEPT !["crystal"] = Append(h, e)]
       /\ SeenRetired' = SeenRetired /\ SeenServing' = SeenServing
  BY <1>5, <1>11, SeenAlias, SeenCrystal DEF g
<1>15. SeenHistory' = [SeenHistory EXCEPT !["crystal"] =
                        Append(SeenHistory["crystal"], [program |-> p, tested |-> TRUE])]
  BY <1>12, <1>14 DEF e
<1> HIDE DEF p
<1>16. QED
  BY <1>1, <1>13, <1>14, <1>15 DEF Promise!Publish, SeenHistory, SeenRetired, SeenServing, p

(* Versions that keep their content keep their tests. *)
LEMMA SamePast ==
  ASSUME AliasInv, Keeps(alias, alias'), DOMAIN alias'.versions = DOMAIN alias.versions,
         UNCHANGED tests
  PROVE  Past(alias', tests') = Past(alias, tests)
BY DEF Past, Keeps

(* What is served passes its tests. *)
LEMMA ActivatesServes ==
  ASSUME AliasInv, CallInv, NEW s \in Sessions, UNCHANGED tests,
         NEW v \in DOMAIN alias.versions, alias.active # v, alias' = Activated(alias, v)
  PROVE  Promise!Serve("crystal")
<1>1. alias \in AliasesOf(Records) /\ WellFormed(alias) /\ AliasOK(alias)
  BY CallFacts
<1>2. /\ Keeps(alias, alias') /\ DOMAIN alias'.versions = DOMAIN alias.versions
      /\ alias'.active = v
  BY <1>1, ActivatedFacts
<1>3. Gone(alias') = (Gone(alias) \cup ({alias.active} \ {0})) \ {v}
  BY <1>1, ActivatedGone
<1>4. Past(alias', tests') = Past(alias, tests)
  BY <1>2, SamePast
<1>5. v \in DOMAIN Past(alias, tests) /\ Past(alias, tests)[v].tested
  <2>1. Passes(alias.versions[v].content.program, tests[v])
    BY DEF AliasInv
  <2>2. QED
    BY <2>1 DEF Past
<1>6. /\ v \in DOMAIN SeenHistory["crystal"] /\ SeenHistory["crystal"][v].tested
      /\ SeenServing["crystal"] # v
  BY <1>5, SeenAlias
<1>7. /\ SeenServing' = [SeenServing EXCEPT !["crystal"] = v]
      /\ SeenRetired' = [SeenRetired EXCEPT !["crystal"] =
                           (SeenRetired["crystal"] \cup ({SeenServing["crystal"]} \ {0})) \ {v}]
      /\ SeenHistory' = SeenHistory
  BY <1>2, <1>3, <1>4, SeenAlias, SeenCrystal
<1>8. QED
  BY <1>6, <1>7 DEF Promise!Serve, SeenHistory, SeenRetired, SeenServing

LEMMA WithdrawsWithdraws ==
  ASSUME AliasInv, CallInv, NEW s \in Sessions, UNCHANGED tests,
         NEW v \in DOMAIN alias.versions, ~Retired(alias, v), alias' = Withdrawn(alias, v)
  PROVE  Promise!Withdraw("crystal")
<1>1. alias \in AliasesOf(Records) /\ WellFormed(alias) /\ AliasOK(alias)
  BY CallFacts
<1>2. Keeps(alias, alias') /\ DOMAIN alias'.versions = DOMAIN alias.versions
  BY <1>1, WithdrawnFacts
<1>3. /\ Gone(alias') = Gone(alias) \cup {v}
      /\ alias'.active = IF alias.active = v THEN 0 ELSE alias.active
  BY <1>1, WithdrawnGone
<1>4. Past(alias', tests') = Past(alias, tests)
  BY <1>2, SamePast
<1>5. v \in DOMAIN Past(alias, tests) \ Gone(alias)
  BY DEF Past, Gone
<1>6. v \in DOMAIN SeenHistory["crystal"] \ SeenRetired["crystal"]
  BY <1>5, SeenAlias
<1>7. /\ SeenRetired' = [SeenRetired EXCEPT !["crystal"] = SeenRetired["crystal"] \cup {v}]
      /\ SeenServing' = [SeenServing EXCEPT !["crystal"] =
                           IF SeenServing["crystal"] = v THEN 0 ELSE SeenServing["crystal"]]
      /\ SeenHistory' = SeenHistory
  BY <1>3, <1>4, SeenAlias, SeenCrystal
<1>8. QED
  BY <1>6, <1>7 DEF Promise!Withdraw, SeenHistory, SeenRetired, SeenServing

LEMMA CatalogInit == Init => Promise!Init
<1> SUFFICES ASSUME Init PROVE Promise!Init
  OBVIOUS
<1>1. /\ AliasOK(EmptyAlias) /\ DOMAIN EmptyAlias.versions = {} /\ EmptyAlias.active = 0
      /\ Latest(EmptyAlias) = 0 /\ alias = EmptyAlias
  BY EmptyAliasFacts, ServiceAssumption DEF Init, AliasOK, EmptyAlias
<1>2. Past(alias, tests) = << >>
  <2>1. Past(EmptyAlias, tests) \in Seq(Publications) /\ Len(Past(EmptyAlias, tests)) = 0
    BY <1>1, PastType
  <2>2. QED
    BY <1>1, <2>1, EmptySeq, SeqEqual
<1>3. Gone(alias) = {}
  BY <1>1 DEF Gone
<1>4. /\ SeenHistory = [n \in {"crystal"} |-> << >>]
      /\ SeenRetired = [n \in {"crystal"} |-> {}]
      /\ SeenServing = [n \in {"crystal"} |-> 0]
  BY <1>1, <1>2, <1>3, SeenAlias DEF SeenHistory, SeenRetired, SeenServing
<1>5. QED
  BY <1>4 DEF Promise!Init, SeenHistory, SeenRetired, SeenServing

LEMMA CatalogStep ==
  ASSUME AliasInv, CallInv, [Next]_vars
  PROVE  [Promise!Next]_Promise!vars
<1>1. CASE UNCHANGED <<alias, tests>>
  BY <1>1 DEF Promise!vars, History
<1>2. ASSUME NEW s \in Sessions, Edits(s)
      PROVE  [Promise!Next]_Promise!vars
  <2>1. CASE Appends(s)
    BY <2>1, AppendsPublishes DEF Promise!Next
  <2>2. ASSUME NEW v \in DOMAIN alias.versions, UNCHANGED tests,
               \/ alias.active # v /\ alias' = Activated(alias, v)
               \/ ~Retired(alias, v) /\ alias' = Withdrawn(alias, v)
        PROVE  Promise!Next
    BY <2>2, ActivatesServes, WithdrawsWithdraws DEF Promise!Next
  <2>3. QED
    BY <1>1, <1>2, <2>1, <2>2 DEF Edits
<1>3. CASE \E s \in Sessions : \E d : Moves(s, d)
  BY <1>2, <1>3 DEF Moves
<1>4. CASE Crash \/ UNCHANGED vars
  BY <1>1, <1>4 DEF Crash, vars
<1>5. QED
  BY <1>3, <1>4, NextSteps

(* For any number of sessions, calls that interleave, fail after their      *)
(* write or are cut off move the catalog of the crystal by one step each    *)
(* time: nothing is published beside a version in use, and nothing served   *)
(* that fails its tests.                                                    *)
THEOREM ServiceImplementsCatalog == Spec => ImplementsCatalog
<1>1. IInv /\ [Next]_vars => [Promise!Next]_Promise!vars
  BY CatalogStep DEF IInv
<1>2. QED
  BY <1>1, CatalogInit, ServiceInvariant, PTL DEF Spec, ImplementsCatalog, Promise!Spec
=============================================================================
