------------------------- MODULE CrystalAliasProofs -------------------------
(***************************************************************************)
(* What the operators of CrystalAlias return, for any number of versions    *)
(* and any set C of contents.  The proofs about the modules that keep the   *)
(* alias of one crystal rest on these lemmas.                               *)
(***************************************************************************)
EXTENDS CrystalAlias, SequenceTheorems, TLAPS

EntriesOf(C) == [content : C, state : Lifecycle]

AliasesOf(C) == [revision : Nat, active : Nat, versions : Seq(EntriesOf(C))]

-----------------------------------------------------------------------------
LEMMA AliasFacts ==
  ASSUME NEW C, NEW a \in AliasesOf(C)
  PROVE  /\ a.revision \in Nat /\ a.active \in Nat
         /\ Latest(a) \in Nat
         /\ DOMAIN a.versions = 1..Latest(a)
         /\ a.versions \in [1..Latest(a) -> EntriesOf(C)]
         /\ \A v \in DOMAIN a.versions :
              a.versions[v].content \in C /\ a.versions[v].state \in Lifecycle
<1>1. a.versions \in Seq(EntriesOf(C)) /\ a.revision \in Nat /\ a.active \in Nat
  BY DEF AliasesOf
<1>2. /\ Latest(a) \in Nat /\ DOMAIN a.versions = 1..Latest(a)
      /\ a.versions \in [1..Latest(a) -> EntriesOf(C)]
  BY <1>1 DEF Latest
<1>3. QED
  BY <1>1, <1>2 DEF EntriesOf

LEMMA AliasIntro ==
  ASSUME NEW C, NEW r \in Nat, NEW k \in Nat, NEW n \in Nat,
         NEW s \in [1..n -> EntriesOf(C)]
  PROVE  /\ [revision |-> r, active |-> k, versions |-> s] \in AliasesOf(C)
         /\ Latest([revision |-> r, active |-> k, versions |-> s]) = n
<1>1. s \in Seq(EntriesOf(C)) /\ Len(s) = n
  OBVIOUS
<1>2. QED
  BY <1>1 DEF AliasesOf, Latest

(* A well-formed alias: the state of a version, and where the pointer is.   *)
LEMMA WellFormedFacts ==
  ASSUME NEW C, NEW a \in AliasesOf(C), WellFormed(a)
  PROVE  /\ a.active # 0 => a.active \in DOMAIN a.versions
         /\ a.active \in DOMAIN a.versions =>
              a.active # 0 /\ a.versions[a.active].state = "active"
         /\ a.active <= Latest(a)
BY AliasFacts DEF WellFormed

LEMMA EmptyAliasFacts ==
  ASSUME NEW C
  PROVE  /\ EmptyAlias \in AliasesOf(C) /\ WellFormed(EmptyAlias)
         /\ Latest(EmptyAlias) = 0 /\ DOMAIN EmptyAlias.versions = {}
<1>1. << >> \in Seq(EntriesOf(C)) /\ Len(<< >>) = 0 /\ DOMAIN << >> = {}
  OBVIOUS
<1>2. QED
  BY <1>1 DEF EmptyAlias, AliasesOf, WellFormed, Latest

-----------------------------------------------------------------------------
(* The next alias of a keeps the versions of a, as content. *)
Keeps(a, b) ==
  /\ DOMAIN a.versions \subseteq DOMAIN b.versions
  /\ \A v \in DOMAIN a.versions : b.versions[v].content = a.versions[v].content

(* register appends a draft and leaves the other versions alone. *)
LEMMA WithVersionFacts ==
  ASSUME NEW C, NEW a \in AliasesOf(C), WellFormed(a), NEW c \in C,
         c.version = Latest(a) + 1, c.revision = a.revision + 1
  PROVE  LET b == WithVersion(a, c)
         IN  /\ b \in AliasesOf(C) /\ WellFormed(b)
             /\ Latest(b) = Latest(a) + 1
             /\ b.active = a.active /\ b.revision = a.revision + 1
             /\ b.versions[Latest(b)] = [content |-> c, state |-> "draft"]
             /\ \A v \in DOMAIN a.versions : b.versions[v] = a.versions[v]
             /\ Keeps(a, b)
<1> DEFINE e == [content |-> c, state |-> "draft"]
           s == Append(a.versions, e)
           b == WithVersion(a, c)
           n == Latest(a) + 1
<1>1. e \in EntriesOf(C)
  BY DEF EntriesOf, Lifecycle
<1>2. a.versions \in Seq(EntriesOf(C))
  BY DEF AliasesOf
<1> HIDE DEF e
<1>3. /\ s \in [1..n -> EntriesOf(C)]
      /\ s[n] = e
      /\ \A v \in DOMAIN a.versions : s[v] = a.versions[v]
  <2>1. /\ s \in Seq(EntriesOf(C)) /\ Len(s) = n
        /\ \A v \in 1..Len(a.versions) : s[v] = a.versions[v]
        /\ s[Len(a.versions) + 1] = e
    BY <1>1, <1>2 DEF Latest
  <2> HIDE DEF s, n
  <2>2. s \in [1..n -> EntriesOf(C)]
    BY <2>1
  <2>3. DOMAIN a.versions = 1..Len(a.versions)
    BY <1>2
  <2>4. QED
    BY <2>1, <2>2, <2>3 DEF Latest, n
<1>4. b = [revision |-> a.revision + 1, active |-> a.active, versions |-> s]
  BY DEF WithVersion, e
<1>5. a.revision + 1 \in Nat /\ a.active \in Nat /\ n \in Nat
  BY AliasFacts
<1> HIDE DEF s, b
<1>6. b \in AliasesOf(C) /\ Latest(b) = n
  BY <1>3, <1>4, <1>5, AliasIntro
<1>7. DOMAIN a.versions = 1..Latest(a) /\ DOMAIN b.versions = 1..n /\ Latest(a) \in Nat
  BY <1>6, AliasFacts
<1>8. b.versions[n].state = "draft" /\ b.versions[n].content = c /\ b.active # n
  BY <1>3, <1>4, <1>7, AliasFacts DEF WellFormed, e
<1>9. \A v \in DOMAIN a.versions : b.versions[v] = a.versions[v]
  BY <1>3, <1>4
<1>10. ASSUME NEW v \in DOMAIN b.versions
       PROVE  /\ b.versions[v].content.version = v
              /\ b.versions[v].content.revision \in 1..b.revision
              /\ b.versions[v].state = "active" <=> b.active = v
  <2>1. CASE v = n
    BY <2>1, <1>4, <1>8, <1>5, AliasFacts
  <2>2. CASE v # n
    <3>1. v \in DOMAIN a.versions /\ b.versions[v] = a.versions[v]
      BY <2>2, <1>7, <1>9
    <3>2. /\ a.versions[v].content.version = v
          /\ a.versions[v].content.revision \in 1..a.revision
          /\ a.versions[v].state = "active" <=> a.active = v
      BY <3>1 DEF WellFormed
    <3>3. b.active = a.active /\ b.revision = a.revision + 1 /\ a.revision \in Nat
      BY <1>4, AliasFacts
    <3>4. QED
      BY <3>1, <3>2, <3>3
  <2>3. QED
    BY <2>1, <2>2
<1>11. b.active \in {0} \cup DOMAIN b.versions
  BY <1>4, <1>7 DEF WellFormed
<1>12. WellFormed(b)
  BY <1>10, <1>11 DEF WellFormed
<1>13. Keeps(a, b)
  BY <1>7, <1>9 DEF Keeps
<1>14. QED
  BY <1>3, <1>4, <1>6, <1>9, <1>12, <1>13 DEF b, e

(* activate serves the version and retires the one that was served. *)
LEMMA ActivatedFacts ==
  ASSUME NEW C, NEW a \in AliasesOf(C), WellFormed(a), NEW v \in DOMAIN a.versions
  PROVE  LET b == Activated(a, v)
         IN  /\ b \in AliasesOf(C) /\ WellFormed(b)
             /\ Latest(b) = Latest(a) /\ DOMAIN b.versions = DOMAIN a.versions
             /\ b.active = v /\ b.revision = a.revision + 1
             /\ \A i \in DOMAIN a.versions :
                  b.versions[i].state = "draft" => a.versions[i].state = "draft"
             /\ Keeps(a, b)
<1> DEFINE s == [i \in DOMAIN a.versions |->
                  [a.versions[i] EXCEPT !.state = IF i = v THEN "active"
                                                  ELSE IF @ = "active" THEN "retired" ELSE @]]
           b == Activated(a, v)
<1>1. ASSUME NEW i \in DOMAIN a.versions
      PROVE  /\ s[i] \in EntriesOf(C)
             /\ s[i].content = a.versions[i].content
             /\ s[i].state = "active" <=> i = v
             /\ s[i].state = "draft" => a.versions[i].state = "draft"
  <2>1. a.versions[i] \in EntriesOf(C)
    BY AliasFacts
  <2>2. QED
    BY <2>1 DEF EntriesOf, Lifecycle
<1>2. DOMAIN a.versions = 1..Latest(a) /\ Latest(a) \in Nat
  BY AliasFacts
<1>3. s \in [1..Latest(a) -> EntriesOf(C)]
  BY <1>1, <1>2
<1>4. b = [revision |-> a.revision + 1, active |-> v, versions |-> s]
  BY DEF Activated
<1>5. a.revision + 1 \in Nat /\ v \in Nat
  BY <1>2, AliasFacts
<1> HIDE DEF s, b
<1>6. b \in AliasesOf(C) /\ Latest(b) = Latest(a)
  BY <1>2, <1>3, <1>4, <1>5, AliasIntro
<1>7. DOMAIN b.versions = DOMAIN a.versions
  BY <1>2, <1>6, AliasFacts
<1>8. Keeps(a, b)
  BY <1>1, <1>4, <1>7 DEF Keeps
<1>9. ASSUME NEW i \in DOMAIN b.versions
      PROVE  /\ b.versions[i].content.version = i
             /\ b.versions[i].content.revision \in 1..b.revision
             /\ b.versions[i].state = "active" <=> b.active = i
  <2>1. /\ b.versions[i].content = a.versions[i].content
        /\ b.versions[i].state = "active" <=> b.active = i
    BY <1>1, <1>4, <1>7
  <2>2. /\ a.versions[i].content.version = i
        /\ a.versions[i].content.revision \in 1..a.revision
    BY <1>7 DEF WellFormed
  <2>3. b.revision = a.revision + 1 /\ a.revision \in Nat
    BY <1>4, AliasFacts
  <2>4. QED
    BY <2>1, <2>2, <2>3
<1>10. WellFormed(b)
  BY <1>4, <1>7, <1>9 DEF WellFormed
<1>11. QED
  BY <1>1, <1>4, <1>6, <1>7, <1>8, <1>10 DEF b

(* retire takes the version out of service, and the pointer from it. *)
LEMMA WithdrawnFacts ==
  ASSUME NEW C, NEW a \in AliasesOf(C), WellFormed(a), NEW v \in DOMAIN a.versions
  PROVE  LET b == Withdrawn(a, v)
         IN  /\ b \in AliasesOf(C) /\ WellFormed(b)
             /\ Latest(b) = Latest(a) /\ DOMAIN b.versions = DOMAIN a.versions
             /\ b.revision = a.revision + 1
             /\ b.versions[v].state = "retired"
             /\ \A i \in DOMAIN a.versions :
                  b.versions[i].state = "draft" => a.versions[i].state = "draft"
             /\ Keeps(a, b)
<1> DEFINE s == [a.versions EXCEPT ![v].state = "retired"]
           k == IF a.active = v THEN 0 ELSE a.active
           b == Withdrawn(a, v)
<1>1. ASSUME NEW i \in DOMAIN a.versions
      PROVE  /\ s[i] \in EntriesOf(C)
             /\ s[i].content = a.versions[i].content
             /\ s[i].state = IF i = v THEN "retired" ELSE a.versions[i].state
  <2>1. a.versions[i] \in EntriesOf(C)
    BY AliasFacts
  <2>2. QED
    BY <2>1 DEF EntriesOf, Lifecycle
<1>2. DOMAIN a.versions = 1..Latest(a) /\ Latest(a) \in Nat
  BY AliasFacts
<1>3. s \in [1..Latest(a) -> EntriesOf(C)]
  BY <1>1, <1>2, AliasFacts
<1>4. b = [revision |-> a.revision + 1, active |-> k, versions |-> s]
  BY DEF Withdrawn
<1>5. a.revision + 1 \in Nat /\ k \in Nat
  BY AliasFacts
<1> HIDE DEF s, b
<1>6. b \in AliasesOf(C) /\ Latest(b) = Latest(a)
  BY <1>2, <1>3, <1>4, <1>5, AliasIntro
<1>7. DOMAIN b.versions = DOMAIN a.versions
  BY <1>2, <1>6, AliasFacts
<1>8. Keeps(a, b)
  BY <1>1, <1>4, <1>7 DEF Keeps
<1>9. ASSUME NEW i \in DOMAIN b.versions
      PROVE  /\ b.versions[i].content.version = i
             /\ b.versions[i].content.revision \in 1..b.revision
             /\ b.versions[i].state = "active" <=> b.active = i
  <2>1. /\ a.versions[i].content.version = i
        /\ a.versions[i].content.revision \in 1..a.revision
        /\ a.versions[i].state = "active" <=> a.active = i
    BY <1>7 DEF WellFormed
  <2>2. /\ b.versions[i].content = a.versions[i].content
        /\ b.versions[i].state = IF i = v THEN "retired" ELSE a.versions[i].state
    BY <1>1, <1>4, <1>7
  <2>3. i # 0
    BY <1>2, <1>7
  <2>4. b.versions[i].state = "active" <=> b.active = i
    BY <1>4, <2>1, <2>2, <2>3
  <2>5. b.revision = a.revision + 1 /\ a.revision \in Nat
    BY <1>4, AliasFacts
  <2>6. QED
    BY <2>1, <2>2, <2>4, <2>5
<1>10. b.active \in {0} \cup DOMAIN b.versions
  BY <1>4, <1>7 DEF WellFormed
<1>11. WellFormed(b)
  BY <1>9, <1>10 DEF WellFormed
<1>12. QED
  BY <1>1, <1>4, <1>6, <1>7, <1>8, <1>11 DEF b
-----------------------------------------------------------------------------
(* The versions that are out of service. *)
Gone(a) == {v \in DOMAIN a.versions : Retired(a, v)}

(* A draft is in service, and register retires none. *)
LEMMA WithVersionGone ==
  ASSUME NEW C, NEW a \in AliasesOf(C), WellFormed(a), NEW c \in C,
         c.version = Latest(a) + 1, c.revision = a.revision + 1
  PROVE  Gone(WithVersion(a, c)) = Gone(a)
<1>1. PICK b : b = WithVersion(a, c)
  OBVIOUS
<1>2. /\ b \in AliasesOf(C) /\ Latest(b) = Latest(a) + 1
      /\ b.versions[Latest(b)] = [content |-> c, state |-> "draft"]
      /\ \A v \in DOMAIN a.versions : b.versions[v] = a.versions[v]
  BY <1>1, WithVersionFacts
<1>3. /\ DOMAIN a.versions = 1..Latest(a) /\ Latest(a) \in Nat
      /\ DOMAIN b.versions = 1..Latest(b)
  BY <1>2, AliasFacts
<1>4. \A v \in DOMAIN b.versions : v = Latest(b) \/ v \in DOMAIN a.versions
  BY <1>2, <1>3
<1>5. DOMAIN a.versions \subseteq DOMAIN b.versions
  BY <1>2, <1>3
<1>6. b.versions[Latest(b)].state # "retired"
  BY <1>2
<1>7. QED
  BY <1>1, <1>2, <1>4, <1>5, <1>6 DEF Gone, Retired

(* activate retires the version that was served, and revives its own. *)
LEMMA ActivatedGone ==
  ASSUME NEW C, NEW a \in AliasesOf(C), WellFormed(a), NEW v \in DOMAIN a.versions
  PROVE  Gone(Activated(a, v)) = (Gone(a) \cup ({a.active} \ {0})) \ {v}
<1>1. PICK b : b = Activated(a, v)
  OBVIOUS
<1>2. DOMAIN b.versions = DOMAIN a.versions
  BY <1>1, ActivatedFacts
<1>3. \A i \in DOMAIN a.versions :
        b.versions[i].state = IF i = v THEN "active"
                              ELSE IF a.versions[i].state = "active" THEN "retired"
                              ELSE a.versions[i].state
  <2>1. \A i \in DOMAIN a.versions : a.versions[i] \in EntriesOf(C)
    BY AliasFacts
  <2>2. QED
    BY <1>1, <2>1 DEF Activated, EntriesOf
<1>4. /\ a.active \in {0} \cup DOMAIN a.versions
      /\ \A i \in DOMAIN a.versions : a.versions[i].state = "active" <=> a.active = i
      /\ 0 \notin DOMAIN a.versions
  BY AliasFacts DEF WellFormed
<1>5. QED
  BY <1>1, <1>2, <1>3, <1>4 DEF Gone, Retired

LEMMA WithdrawnGone ==
  ASSUME NEW C, NEW a \in AliasesOf(C), WellFormed(a), NEW v \in DOMAIN a.versions
  PROVE  /\ Gone(Withdrawn(a, v)) = Gone(a) \cup {v}
         /\ Withdrawn(a, v).active = IF a.active = v THEN 0 ELSE a.active
<1>1. PICK b : b = Withdrawn(a, v)
  OBVIOUS
<1>2. DOMAIN b.versions = DOMAIN a.versions
  BY <1>1, WithdrawnFacts
<1>3. b.active = IF a.active = v THEN 0 ELSE a.active
  BY <1>1 DEF Withdrawn
<1>4. \A i \in DOMAIN a.versions :
        b.versions[i].state = IF i = v THEN "retired" ELSE a.versions[i].state
  <2>1. \A i \in DOMAIN a.versions : a.versions[i] \in EntriesOf(C)
    BY AliasFacts
  <2>2. QED
    BY <1>1, <2>1, AliasFacts DEF Withdrawn, EntriesOf
<1>5. QED
  BY <1>1, <1>2, <1>3, <1>4 DEF Gone, Retired

(* A sequence with one more element than another, and the same before it. *)
LEMMA AppendedBy ==
  ASSUME NEW S, NEW h \in Seq(S), NEW e \in S, NEW g \in Seq(S),
         Len(g) = Len(h) + 1, \A i \in 1..Len(h) : g[i] = h[i], g[Len(h) + 1] = e
  PROVE  g = Append(h, e)
<1>1. /\ Append(h, e) \in Seq(S) /\ Len(Append(h, e)) = Len(h) + 1
      /\ \A i \in 1..Len(h) : Append(h, e)[i] = h[i]
      /\ Append(h, e)[Len(h) + 1] = e
  BY AppendProperties
<1>2. Len(h) \in Nat
  OBVIOUS
<1>3. \A i \in 1..(Len(h) + 1) : g[i] = Append(h, e)[i]
  BY <1>1, <1>2
<1>4. QED
  BY <1>1, <1>3, SeqEqual
=============================================================================
