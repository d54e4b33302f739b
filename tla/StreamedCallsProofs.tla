------------------------- MODULE StreamedCallsProofs -------------------------
(***************************************************************************)
(* Theorems about StreamedCalls.tla, for calls of any number, names, ids    *)
(* and arguments, and any way of cutting them that it allows.               *)
(***************************************************************************)
EXTENDS StreamedCalls, SequenceTheorems, FiniteSetTheorems, TLAPS

-----------------------------------------------------------------------------
(* Counting in a text. *)

Text == Seq(STRING)

(* The positions of S up to d, and those in the i positions after d. *)
Below(S, d) == {j \in 1..d : j \in S}
Beyond(S, d, i) == {j \in 1..i : d + j \in S}

LEMMA CountShift ==
  ASSUME NEW d \in Nat, NEW i \in Nat, NEW S, S \subseteq 1..(d + i)
  PROVE  /\ Cardinality(S) = Cardinality(Below(S, d))
                            + Cardinality(Beyond(S, d, i))
         /\ Cardinality(Below(S, d)) \in Nat
         /\ Cardinality(Beyond(S, d, i)) \in Nat
<1> DEFINE low == {j \in 1..d : j \in S}
           high == {j \in 1..i : d + j \in S}
           moved == {j \in (d + 1)..(d + i) : j \in S}
<1>1. IsFiniteSet(S) /\ IsFiniteSet(low) /\ IsFiniteSet(high) /\ IsFiniteSet(moved)
  <2>1. IsFiniteSet(1..(d + i)) /\ IsFiniteSet(1..i) /\ IsFiniteSet(1..d)
        /\ IsFiniteSet((d + 1)..(d + i))
    BY FS_Interval
  <2>2. low \subseteq 1..d /\ high \subseteq 1..i /\ moved \subseteq (d + 1)..(d + i)
    OBVIOUS
  <2>3. QED
    BY <2>1, <2>2, FS_Subset
<1>2. Cardinality(low) \in Nat /\ Cardinality(high) \in Nat
  BY <1>1, FS_CardinalityType
<1>3. Cardinality(moved) = Cardinality(high)
  <2> DEFINE f == [j \in high |-> d + j]
  <2>1. f \in Bijection(high, moved)
    <3>1. f \in [high -> moved]
      OBVIOUS
    <3>2. \A j, k \in high : f[j] = f[k] => j = k
      OBVIOUS
    <3>3. ASSUME NEW y \in moved PROVE \E j \in high : f[j] = y
      <4>1. y - d \in high
        OBVIOUS
      <4>2. f[y - d] = y
        BY <4>1
      <4>3. QED
        BY <4>1, <4>2
    <3>4. f \in Injection(high, moved)
      BY <3>1, <3>2 DEF Injection, IsInjective
    <3>5. f \in Surjection(high, moved)
      BY <3>1, <3>3 DEF Surjection
    <3>6. QED
      BY <3>4, <3>5 DEF Bijection
  <2>2. QED
    BY <2>1, <1>1, FS_Bijection DEF ExistsBijection
<1>4. S = low \cup moved /\ low \cap moved = {}
  <2>1. \A j : j \in S => j \in low \/ j \in moved
    <3>1. \A j \in 1..(d + i) : j \in 1..d \/ j \in (d + 1)..(d + i)
      OBVIOUS
    <3>2. QED
      BY <3>1
  <2>2. \A j : j \in low \/ j \in moved => j \in S
    OBVIOUS
  <2>3. \A j : ~(j \in low /\ j \in moved)
    <3>1. \A j : ~(j \in 1..d /\ j \in (d + 1)..(d + i))
      OBVIOUS
    <3>2. QED
      BY <3>1
  <2> HIDE DEF low, moved
  <2>4. QED
    BY <2>1, <2>2, <2>3
<1>5. Cardinality(S) = Cardinality(low) + Cardinality(moved) - Cardinality({})
  BY <1>1, <1>4, FS_Union
<1>6. QED
  BY <1>1, <1>2, <1>3, <1>5, FS_EmptySet DEF Below, Beyond

(* The text after position d. *)
Rest(t, d) == SubSeq(t, d + 1, Len(t))

LEMMA RestFacts ==
  ASSUME NEW t \in Text, NEW d \in 0..Len(t)
  PROVE  /\ Rest(t, d) \in Text /\ Len(Rest(t, d)) = Len(t) - d
         /\ \A i \in 1..(Len(t) - d) : Rest(t, d)[i] = t[d + i]
<1>1. Len(t) \in Nat
  BY DEF Text
<1>2. \A i \in (d + 1)..Len(t) : t[i] \in STRING
  BY DEF Text
<1>3. /\ Rest(t, d) \in Text
      /\ Len(Rest(t, d)) = IF d + 1 <= Len(t) THEN Len(t) - (d + 1) + 1 ELSE 0
      /\ \A i \in 1..(Len(t) - (d + 1) + 1) : Rest(t, d)[i] = t[d + 1 + i - 1]
  BY <1>1, <1>2, SubSeqProperties DEF Rest, Text
<1>4. \A i \in Nat : d + 1 + i - 1 = d + i
  OBVIOUS
<1>5. QED
  BY <1>1, <1>3, <1>4

LEMMA QuotesShift ==
  ASSUME NEW t \in Text, NEW d \in 0..Len(t), NEW i \in 0..(Len(t) - d)
  PROVE  /\ Quotes(t, d + i) = Quotes(t, d) + Quotes(Rest(t, d), i)
         /\ Quotes(t, d) \in Nat /\ Quotes(Rest(t, d), i) \in Nat
<1> DEFINE S == {j \in 1..(d + i) : t[j] = "quote"}
<1>0. Len(t) \in Nat /\ d \in Nat /\ i \in Nat /\ d + i \in Nat
  BY DEF Text
<1>1. Below(S, d) = {j \in 1..d : t[j] = "quote"}
  BY <1>0 DEF Below
<1>2. Beyond(S, d, i) = {j \in 1..i : Rest(t, d)[j] = "quote"}
  <2>1. \A j \in 1..i : d + j \in 1..(d + i) /\ Rest(t, d)[j] = t[d + j]
    BY <1>0, RestFacts
  <2>2. QED
    BY <2>1 DEF Beyond
<1>3. S \subseteq 1..(d + i)
  OBVIOUS
<1> HIDE DEF S
<1>4. /\ Cardinality(S) = Cardinality(Below(S, d))
                         + Cardinality(Beyond(S, d, i))
      /\ Cardinality(Below(S, d)) \in Nat
      /\ Cardinality(Beyond(S, d, i)) \in Nat
  BY <1>0, <1>3, CountShift
<1>5. /\ Quotes(t, d + i) = Cardinality(S)
      /\ Quotes(t, d) = Cardinality(Below(S, d))
      /\ Quotes(Rest(t, d), i) = Cardinality(Beyond(S, d, i))
  BY <1>1, <1>2 DEF Quotes, S
<1>6. QED
  BY <1>4, <1>5

LEMMA BracesShift ==
  ASSUME NEW t \in Text, NEW d \in 0..Len(t), NEW i \in 0..(Len(t) - d), NEW brace,
         Quotes(t, d) % 2 = 0
  PROVE  /\ Cardinality(Braces(t, d + i, brace))
              = Cardinality(Braces(t, d, brace)) + Cardinality(Braces(Rest(t, d), i, brace))
         /\ Cardinality(Braces(t, d, brace)) \in Nat
         /\ Cardinality(Braces(Rest(t, d), i, brace)) \in Nat
<1> DEFINE S == Braces(t, d + i, brace)
<1>0. Len(t) \in Nat /\ d \in Nat /\ i \in Nat /\ d + i \in Nat
  BY DEF Text
<1>1. Below(S, d) = Braces(t, d, brace)
  BY <1>0 DEF Braces, Below
<1>2. Beyond(S, d, i) = Braces(Rest(t, d), i, brace)
  <2>1. ASSUME NEW j \in 1..i
        PROVE  /\ d + j \in 1..(d + i) /\ Rest(t, d)[j] = t[d + j]
               /\ Quotes(t, d + j) % 2 = 0 <=> Quotes(Rest(t, d), j) % 2 = 0
    <3>1. d + j \in 1..(d + i) /\ Rest(t, d)[j] = t[d + j] /\ j \in 0..(Len(t) - d)
      BY <1>0, RestFacts
    <3>2. /\ Quotes(t, d + j) = Quotes(t, d) + Quotes(Rest(t, d), j)
          /\ Quotes(t, d) \in Nat /\ Quotes(Rest(t, d), j) \in Nat
      BY <3>1, QuotesShift
    <3>3. \A a, b \in Nat : a % 2 = 0 => ((a + b) % 2 = 0 <=> b % 2 = 0)
      OBVIOUS
    <3>4. QED
      BY <3>1, <3>2, <3>3
  <2>2. QED
    BY <2>1 DEF Braces, Beyond
<1>3. S \subseteq 1..(d + i)
  BY DEF Braces
<1> HIDE DEF S
<1>4. /\ Cardinality(S) = Cardinality(Below(S, d))
                         + Cardinality(Beyond(S, d, i))
      /\ Cardinality(Below(S, d)) \in Nat
      /\ Cardinality(Beyond(S, d, i)) \in Nat
  BY <1>0, <1>3, CountShift
<1>5. QED
  BY <1>1, <1>2, <1>4 DEF S

LEMMA DepthShift ==
  ASSUME NEW t \in Text, NEW d \in 0..Len(t), NEW i \in 0..(Len(t) - d),
         Quotes(t, d) % 2 = 0
  PROVE  /\ Depth(t, d + i) = Depth(t, d) + Depth(Rest(t, d), i)
         /\ Depth(t, d) \in Int /\ Depth(Rest(t, d), i) \in Int
<1>1. ASSUME NEW brace
      PROVE  /\ Cardinality(Braces(t, d + i, brace))
                  = Cardinality(Braces(t, d, brace)) + Cardinality(Braces(Rest(t, d), i, brace))
             /\ Cardinality(Braces(t, d, brace)) \in Nat
             /\ Cardinality(Braces(Rest(t, d), i, brace)) \in Nat
  BY BracesShift
<1>2. QED
  BY <1>1 DEF Depth

(* Spaces count for nothing. *)
LEMMA BlankCounts ==
  ASSUME NEW t \in Text, NEW d \in 0..Len(t), \A j \in 1..d : t[j] = "space"
  PROVE  Quotes(t, d) = 0 /\ Depth(t, d) = 0
<1>1. {j \in 1..d : t[j] = "quote"} = {}
  OBVIOUS
<1>2. Braces(t, d, "open") = {} /\ Braces(t, d, "close") = {}
  BY DEF Braces
<1>3. Cardinality({}) = 0
  BY FS_EmptySet
<1>4. Quotes(t, d) = Cardinality({})
  BY <1>1 DEF Quotes
<1>5. Depth(t, d) = Cardinality({}) - Cardinality({})
  BY <1>2 DEF Depth
<1>6. QED
  BY <1>3, <1>4, <1>5

(* The depth changes at braces only. *)
LEMMA DepthStep ==
  ASSUME NEW t \in Text, NEW i \in 1..Len(t), t[i] = "space"
  PROVE  Depth(t, i) = Depth(t, i - 1)
<1>1. Len(t) \in Nat /\ i \in Nat
  BY LenProperties DEF Text
<1>2. Braces(t, i, "open") = Braces(t, i - 1, "open") /\ Braces(t, i, "close") = Braces(t, i - 1, "close")
  <2>1. \A j \in 1..i : j = i \/ j \in 1..(i - 1)
    BY <1>1
  <2>2. \A j \in 1..(i - 1) : j \in 1..i
    BY <1>1
  <2>3. t[i] # "open" /\ t[i] # "close"
    OBVIOUS
  <2>4. QED
    BY <2>1, <2>2, <2>3 DEF Braces
<1>3. QED
  BY <1>2 DEF Depth

-----------------------------------------------------------------------------
(* What a text parses to. *)

(* The ends of an object are no spaces, so they are its first and last      *)
(* tokens that count.                                                       *)
LEMMA SpanEnds ==
  ASSUME NEW t \in Text, NEW first \in DOMAIN t, NEW last \in DOMAIN t,
         first < last, Spans(t, first, last)
  PROVE  /\ first \in 1..Len(t) /\ last \in 1..Len(t)
         /\ t[first] # "space" /\ t[last] # "space"
<1>1. Len(t) \in Nat /\ DOMAIN t = 1..Len(t)
  BY DEF Text
<1>2. \A i \in 1..Len(t) : Depth(t, i) > 0 <=> first <= i /\ i < last
  BY <1>1 DEF Spans
<1>3. ~(Depth(t, 0) > 0)
  <2>1. Depth(t, 0) = 0
    BY <1>1, BlankCounts
  <2>2. QED
    BY <2>1
<1>4. t[first] # "space"
  <2>1. Depth(t, first) > 0
    BY <1>1, <1>2
  <2>2. ~(Depth(t, first - 1) > 0)
    <3>1. CASE first = 1
      BY <1>3, <3>1
    <3>2. CASE first # 1
      BY <1>1, <1>2, <3>2
    <3>3. QED
      BY <3>1, <3>2
  <2>3. t[first] = "space" => Depth(t, first) = Depth(t, first - 1)
    BY <1>1, DepthStep
  <2>4. QED
    BY <2>1, <2>2, <2>3
<1>5. t[last] # "space"
  <2>1. Depth(t, last - 1) > 0 /\ ~(Depth(t, last) > 0)
    BY <1>1, <1>2
  <2>2. t[last] = "space" => Depth(t, last) = Depth(t, last - 1)
    BY <1>1, DepthStep
  <2>3. QED
    BY <2>1, <2>2
<1>6. QED
  BY <1>1, <1>4, <1>5

LEMMA StrippedObject ==
  ASSUME NEW t \in Text, NEW first \in DOMAIN t, NEW last \in DOMAIN t,
         first < last, Spans(t, first, last)
  PROVE  Stripped(t) = SubSeq(t, first, last)
<1> DEFINE kept == {i \in DOMAIN t : t[i] # "space"}
<1>1. /\ first \in 1..Len(t) /\ last \in 1..Len(t) /\ Len(t) \in Nat /\ DOMAIN t = 1..Len(t)
      /\ t[first] # "space" /\ t[last] # "space"
  BY SpanEnds DEF Text
<1>2. \A i \in kept : first <= i /\ i <= last /\ i \in Int
  BY <1>1 DEF Spans
<1>3. first \in kept /\ last \in kept
  BY <1>1
<1> HIDE DEF kept
<1>4. Min(kept) = first
  <2>1. \A x \in kept : (\A y \in kept : x <= y) <=> x = first
    BY <1>1, <1>2, <1>3
  <2>2. QED
    BY <1>3, <2>1 DEF Min
<1>5. Max(kept) = last
  <2>1. \A x \in kept : (\A y \in kept : x >= y) <=> x = last
    BY <1>1, <1>2, <1>3
  <2>2. QED
    BY <1>3, <2>1 DEF Max
<1>6. QED
  BY <1>4, <1>5 DEF Stripped, kept

(* Spaces at the beginning make no difference to an object. *)
LEMMA SpansShift ==
  ASSUME NEW t \in Text, NEW d \in 0..Len(t), \A j \in 1..d : t[j] = "space",
         NEW first \in 1..(Len(t) - d), NEW last \in 1..(Len(t) - d)
  PROVE  Spans(t, d + first, d + last) <=> Spans(Rest(t, d), first, last)
<1>0. Len(t) \in Nat /\ DOMAIN t = 1..Len(t)
  BY DEF Text
<1>1. /\ Rest(t, d) \in Text /\ Len(Rest(t, d)) = Len(t) - d
      /\ DOMAIN Rest(t, d) = 1..(Len(t) - d)
      /\ \A i \in 1..(Len(t) - d) : Rest(t, d)[i] = t[d + i]
  BY RestFacts, LenProperties DEF Text
<1>2. Quotes(t, d) % 2 = 0 /\ Depth(t, d) = 0
  BY BlankCounts
<1>3. ASSUME NEW i \in 1..(Len(t) - d)
      PROVE  /\ Depth(t, d + i) = Depth(Rest(t, d), i)
             /\ Depth(Rest(t, d), i) \in Int
  <2>1. /\ Depth(t, d + i) = Depth(t, d) + Depth(Rest(t, d), i)
        /\ Depth(t, d) \in Int /\ Depth(Rest(t, d), i) \in Int
    BY <1>0, <1>2, DepthShift
  <2>2. QED
    BY <1>2, <2>1
<1>4. ASSUME NEW i \in 1..d PROVE Depth(t, i) = 0
  BY <1>0, BlankCounts
<1>5. ASSUME Spans(t, d + first, d + last) PROVE Spans(Rest(t, d), first, last)
  <2>1. ASSUME NEW i \in 1..(Len(t) - d)
        PROVE  /\ Depth(Rest(t, d), i) > 0 <=> first <= i /\ i < last
               /\ i < first \/ last < i => Rest(t, d)[i] = "space"
    <3>1. d + i \in DOMAIN t
      BY <1>0
    <3>2. /\ Depth(t, d + i) > 0 <=> d + first <= d + i /\ d + i < d + last
          /\ d + i < d + first \/ d + last < d + i => t[d + i] = "space"
      BY <1>5, <3>1 DEF Spans
    <3>3. QED
      BY <1>0, <1>1, <1>3, <3>2
  <2>2. QED
    BY <1>1, <2>1 DEF Spans
<1>6. ASSUME Spans(Rest(t, d), first, last) PROVE Spans(t, d + first, d + last)
  <2>1. ASSUME NEW i \in 1..Len(t)
        PROVE  /\ Depth(t, i) > 0 <=> d + first <= i /\ i < d + last
               /\ i < d + first \/ d + last < i => t[i] = "space"
    <3>1. CASE i <= d
      <4>1. Depth(t, i) = 0 /\ t[i] = "space"
        BY <1>0, <1>4, <3>1
      <4>2. QED
        BY <1>0, <3>1, <4>1
    <3>2. CASE i > d
      <4>1. i - d \in DOMAIN Rest(t, d) /\ i - d \in 1..(Len(t) - d) /\ d + (i - d) = i
        BY <1>0, <1>1, <3>2
      <4>2. /\ Depth(Rest(t, d), i - d) > 0 <=> first <= i - d /\ i - d < last
            /\ i - d < first \/ last < i - d => Rest(t, d)[i - d] = "space"
        BY <1>6, <4>1 DEF Spans
      <4>3. Depth(t, i) = Depth(Rest(t, d), i - d) /\ Rest(t, d)[i - d] = t[i]
        BY <1>1, <1>3, <4>1
      <4>4. QED
        BY <1>0, <4>2, <4>3
    <3>3. QED
      BY <1>0, <3>1, <3>2
  <2>2. QED
    BY <1>0, <2>1 DEF Spans
<1>7. QED
  BY <1>5, <1>6

LEMMA ParsedRest ==
  ASSUME NEW t \in Text, NEW d \in 0..Len(t), \A j \in 1..d : t[j] = "space",
         d = 0 \/ d < Len(t)
  PROVE  Parsed(Rest(t, d)) = Parsed(t)
<1> DEFINE s == Rest(t, d)
<1>0. Len(t) \in Nat /\ DOMAIN t = 1..Len(t)
  BY DEF Text
<1>1. /\ s \in Text /\ Len(s) = Len(t) - d
      /\ DOMAIN s = 1..(Len(t) - d)
      /\ \A i \in 1..(Len(t) - d) : s[i] = t[d + i]
  BY RestFacts, LenProperties DEF Text
<1>2. s = <<>> <=> t = <<>>
  BY <1>0, <1>1, EmptySeq DEF Text
<1>3. Quotes(s, Len(s)) = Quotes(t, Len(t)) /\ Depth(s, Len(s)) = Depth(t, Len(t))
  <2>1. Quotes(t, d) = 0 /\ Depth(t, d) = 0 /\ Quotes(t, d) % 2 = 0
    BY BlankCounts
  <2>2. Len(t) - d \in 0..(Len(t) - d) /\ d + (Len(t) - d) = Len(t)
    BY <1>0
  <2>3. /\ Quotes(t, Len(t)) = Quotes(t, d) + Quotes(s, Len(t) - d)
        /\ Quotes(s, Len(t) - d) \in Nat
    BY <2>2, QuotesShift
  <2>4. /\ Depth(t, Len(t)) = Depth(t, d) + Depth(s, Len(t) - d)
        /\ Depth(s, Len(t) - d) \in Int
    BY <2>1, <2>2, DepthShift
  <2> HIDE DEF s
  <2>5. QED
    BY <1>1, <2>1, <2>3, <2>4
<1>4. ASSUME NEW first \in DOMAIN s, NEW last \in DOMAIN s, first < last, Spans(s, first, last)
      PROVE  /\ d + first \in DOMAIN t /\ d + last \in DOMAIN t /\ d + first < d + last
             /\ Spans(t, d + first, d + last)
             /\ Stripped(s) = Stripped(t)
  <2>1. first \in 1..(Len(t) - d) /\ last \in 1..(Len(t) - d)
    BY <1>1
  <2>2. d + first \in DOMAIN t /\ d + last \in DOMAIN t /\ d + first < d + last
    BY <1>0, <1>4, <2>1
  <2>3. Spans(t, d + first, d + last)
    BY <1>4, <2>1, SpansShift
  <2>4. Stripped(s) = SubSeq(s, first, last) /\ Stripped(t) = SubSeq(t, d + first, d + last)
    BY <1>1, <1>4, <2>2, <2>3, StrippedObject
  <2>5. SubSeq(s, first, last) = SubSeq(t, d + first, d + last)
    <3>1. t \in Seq(STRING) /\ s \in Seq(STRING) /\ s = SubSeq(t, d + 1, Len(t))
      BY <1>1 DEF Text, Rest
    <3>2. /\ d + 1 \in 1..Len(t) /\ Len(t) \in 1..Len(t)
          /\ first \in 1..(Len(t) - (d + 1) + 1) /\ last \in 1..(Len(t) - (d + 1) + 1)
      BY <1>0, <2>1
    <3> HIDE DEF s
    <3>3. SubSeq(SubSeq(t, d + 1, Len(t)), first, last)
            = SubSeq(t, (d + 1) + first - 1, (d + 1) + last - 1)
      <4>1. \A i, j \in 1..Len(t) : \A m, n \in 1..(j - i + 1) :
              SubSeq(SubSeq(t, i, j), m, n) = SubSeq(t, i + m - 1, i + n - 1)
        BY <3>1, SubSeqOfSubSeq
      <4>2. QED
        BY <3>2, <4>1
    <3>4. (d + 1) + first - 1 = d + first /\ (d + 1) + last - 1 = d + last
      BY <1>0, <2>1
    <3>5. QED
      BY <3>1, <3>3, <3>4
  <2>6. QED
    BY <2>2, <2>3, <2>4, <2>5
<1>5. ASSUME NEW first \in DOMAIN t, NEW last \in DOMAIN t, first < last, Spans(t, first, last)
      PROVE  /\ first - d \in DOMAIN s /\ last - d \in DOMAIN s /\ first - d < last - d
             /\ Spans(s, first - d, last - d)
  <2>1. first \in 1..Len(t) /\ last \in 1..Len(t) /\ t[first] # "space"
    BY <1>5, SpanEnds
  <2>2. first > d
    BY <1>0, <2>1
  <2>3. /\ first - d \in 1..(Len(t) - d) /\ last - d \in 1..(Len(t) - d) /\ first - d < last - d
        /\ d + (first - d) = first /\ d + (last - d) = last
    BY <1>0, <1>5, <2>1, <2>2
  <2>4. Spans(s, first - d, last - d)
    BY <1>5, <2>3, SpansShift
  <2>5. QED
    BY <1>1, <2>3, <2>4
<1>6. IsObject(s) <=> IsObject(t)
  <2> HIDE DEF s
  <2>1. (\E first, last \in DOMAIN s : first < last /\ Spans(s, first, last))
          <=> (\E first, last \in DOMAIN t : first < last /\ Spans(t, first, last))
    BY <1>4, <1>5
  <2>2. QED
    BY <1>3, <2>1 DEF IsObject
<1>7. IsObject(s) => Stripped(s) = Stripped(t)
  <2> HIDE DEF s
  <2>1. QED
    BY <1>4 DEF IsObject
<1>8. QED
  <2> HIDE DEF s
  <2>1. Parsed(s) = Parsed(t)
    BY <1>2, <1>6, <1>7 DEF Parsed
  <2>2. QED
    BY <2>1 DEF s

(* Part of an object that begins at a later opening brace is none. *)
LEMMA TailIsNoObject ==
  ASSUME NEW t \in Text, IsObject(t), NEW m \in 0..Len(t), NEW q \in (m + 1)..Len(t),
         t[q] = "open", \A j \in (m + 1)..(q - 1) : t[j] = "space",
         NEW first \in DOMAIN t, NEW last \in DOMAIN t, first < last, Spans(t, first, last),
         first < q
  PROVE  ~IsObject(Rest(t, m))
<1> DEFINE s == Rest(t, m)
<1>0. Len(t) \in Nat /\ DOMAIN t = 1..Len(t) /\ first \in 1..Len(t) /\ last \in 1..Len(t)
  BY SpanEnds DEF Text
<1>1. /\ s \in Text /\ Len(s) = Len(t) - m
      /\ \A i \in 1..(Len(t) - m) : s[i] = t[m + i]
  BY RestFacts
<1> SUFFICES ASSUME IsObject(s) PROVE FALSE
  OBVIOUS
<1>2. Quotes(t, m) % 2 = 0
  <2>1. Len(t) - m \in 0..(Len(t) - m) /\ m + (Len(t) - m) = Len(t)
    BY <1>0
  <2>2. /\ Quotes(t, Len(t)) = Quotes(t, m) + Quotes(s, Len(t) - m)
        /\ Quotes(t, m) \in Nat /\ Quotes(s, Len(t) - m) \in Nat
    BY <2>1, QuotesShift
  <2>3. Quotes(t, Len(t)) % 2 = 0 /\ Quotes(s, Len(t) - m) % 2 = 0
    BY <1>1 DEF IsObject
  <2>4. \A a, b \in Nat : (a + b) % 2 = 0 /\ b % 2 = 0 => a % 2 = 0
    OBVIOUS
  <2>5. QED
    BY <2>2, <2>3, <2>4
<1>3. Depth(t, m) = 0
  <2>1. Len(t) - m \in 0..(Len(t) - m) /\ m + (Len(t) - m) = Len(t)
    BY <1>0
  <2>2. /\ Depth(t, Len(t)) = Depth(t, m) + Depth(s, Len(t) - m)
        /\ Depth(t, m) \in Int /\ Depth(s, Len(t) - m) \in Int
    BY <1>2, <2>1, DepthShift
  <2>3. Depth(t, Len(t)) = 0 /\ Depth(s, Len(t) - m) = 0
    BY <1>1 DEF IsObject
  <2>4. QED
    BY <2>2, <2>3
<1>4. Depth(t, q - 1) = 0
  <2>1. q - 1 - m \in 0..(Len(t) - m) /\ m + (q - 1 - m) = q - 1
    BY <1>0
  <2>2. /\ Depth(t, q - 1) = Depth(t, m) + Depth(s, q - 1 - m)
        /\ Depth(s, q - 1 - m) \in Int
    BY <1>2, <2>1, DepthShift
  <2>3. \A j \in 1..(q - 1 - m) : s[j] = "space"
    BY <1>0, <1>1
  <2>4. Depth(s, q - 1 - m) = 0
    <3>1. q - 1 - m \in 0..Len(s)
      BY <1>1, <2>1
    <3> HIDE DEF s
    <3>2. QED
      BY <1>1, <2>3, <3>1, BlankCounts
  <2>5. QED
    BY <1>3, <2>2, <2>4
<1>5. ~(q - 1 < last)
  BY <1>0, <1>4 DEF Spans
<1>6. t[q] = "space"
  BY <1>0, <1>5 DEF Spans
<1>7. QED
  BY <1>6
-----------------------------------------------------------------------------
(* What a merge makes of the pieces of a text.                              *)

LEMMA PieceFacts ==
  ASSUME NEW t \in Text, NEW m \in 0..Len(t), NEW n \in m..Len(t)
  PROVE  /\ SubSeq(t, m + 1, n) \in Text /\ Len(SubSeq(t, m + 1, n)) = n - m
         /\ DOMAIN SubSeq(t, m + 1, n) = 1..(n - m)
         /\ \A i \in 1..(n - m) : SubSeq(t, m + 1, n)[i] = t[m + i]
<1>1. Len(t) \in Nat /\ m \in Nat /\ n \in Nat
  BY DEF Text
<1>2. \A i \in (m + 1)..n : t[i] \in STRING
  BY <1>1 DEF Text
<1>3. /\ SubSeq(t, m + 1, n) \in Seq(STRING)
      /\ Len(SubSeq(t, m + 1, n)) = IF m + 1 <= n THEN n - (m + 1) + 1 ELSE 0
      /\ \A i \in 1..(n - (m + 1) + 1) : SubSeq(t, m + 1, n)[i] = t[m + 1 + i - 1]
  BY <1>1, <1>2, SubSeqProperties
<1>4. /\ n - (m + 1) + 1 = n - m /\ \A i \in 1..(n - m) : m + 1 + i - 1 = m + i
      /\ (IF m + 1 <= n THEN n - (m + 1) + 1 ELSE 0) = n - m
  BY <1>1
<1>5. Len(SubSeq(t, m + 1, n)) = n - m
  BY <1>3, <1>4
<1>6. DOMAIN SubSeq(t, m + 1, n) = 1..(n - m)
  BY <1>3, <1>5, LenProperties
<1>7. QED
  BY <1>3, <1>4, <1>5, <1>6 DEF Text

LEMMA PrefixFacts ==
  ASSUME NEW s \in Text, NEW t \in Text, IsPrefix(s, t)
  PROVE  Len(s) <= Len(t) /\ \A i \in 1..Len(s) : s[i] = t[i]
<1>1. Len(s) \in Nat /\ Len(t) \in Nat /\ Len(s) <= Len(t)
      /\ SubSeq(s, 1, Len(s)) = SubSeq(t, 1, Len(s))
  BY DEF IsPrefix, Text
<1>2. \A i \in 1..Len(s) : SubSeq(s, 0 + 1, Len(s))[i] = s[0 + i]
  BY <1>1, PieceFacts
<1>3. \A i \in 1..Len(s) : SubSeq(t, 0 + 1, Len(s))[i] = t[0 + i]
  BY <1>1, PieceFacts
<1>4. QED
  BY <1>1, <1>2, <1>3

(* Arguments only grow. *)
LEMMA ExtendedGrows ==
  ASSUME NEW old \in Text, NEW new \in Text
  PROVE  Extended(old, new) \in Text /\ Len(Extended(old, new)) >= Len(old)
<1>1. CASE IsPrefix(old, new)
  BY <1>1, PrefixFacts DEF Extended
<1>2. CASE ~IsPrefix(old, new)
  <2>1. old \o new \in Text /\ Len(old \o new) = Len(old) + Len(new)
        /\ Len(old) \in Nat /\ Len(new) \in Nat
    BY ConcatProperties DEF Text
  <2>2. QED
    BY <1>2, <2>1 DEF Extended
<1>3. QED
  BY <1>1, <1>2

(* The first n tokens of text t have come in, and those after m are kept:   *)
(* the others are spaces, unless an echo (e) replaced them, and what is     *)
(* kept of an object then begins with a brace that is not its first.        *)
Later(t, m, n) ==
  \A first, last \in DOMAIN t : first < last /\ Spans(t, first, last) =>
    \E q \in (m + 1)..n :
      first < q /\ t[q] = "open" /\ \A j \in (m + 1)..(q - 1) : t[j] = "space"

Holds(t, m, n, e) ==
  /\ m \in 0..n /\ (m = 0 \/ m < n)
  /\ (\A j \in 1..m : t[j] = "space") \/ (e /\ Later(t, m, n))

Echo(t, d, k, n) ==
  /\ Blank(SubSeq(t, 1, d)) /\ ~Blank(SubSeq(t, d + 1, k))
  /\ IsPrefix(SubSeq(t, d + 1, k), SubSeq(t, k + 1, n))

Repeats(t, k, n) == \E d \in 0..k : Echo(t, d, k, n)

LEMMA SpanOpens ==
  ASSUME NEW t \in Text, NEW first \in DOMAIN t, NEW last \in DOMAIN t,
         first < last, Spans(t, first, last)
  PROVE  t[first] = "open"
<1>1. /\ Len(t) \in Nat /\ DOMAIN t = 1..Len(t) /\ first \in 1..Len(t) /\ last \in 1..Len(t)
  BY DEF Text
<1>2. \A j \in 1..(first - 1) : t[j] = "space"
  BY <1>1 DEF Spans
<1>3. Braces(t, first, "open") # {}
  <2>1. Depth(t, first) > 0
    BY <1>1 DEF Spans
  <2>2. Braces(t, first, "close") \subseteq 1..first
    BY DEF Braces
  <2>3. Cardinality(Braces(t, first, "close")) \in Nat
    <3>1. IsFiniteSet(1..first)
      BY <1>1, FS_Interval
    <3>2. IsFiniteSet(Braces(t, first, "close"))
      BY <2>2, <3>1, FS_Subset
    <3>3. QED
      BY <3>2, FS_CardinalityType
  <2>4. Cardinality({}) = 0
    BY FS_EmptySet
  <2>5. ASSUME Braces(t, first, "open") = {} PROVE FALSE
    <3>1. Depth(t, first) = 0 - Cardinality(Braces(t, first, "close"))
      BY <2>4, <2>5 DEF Depth
    <3>2. QED
      BY <2>1, <2>3, <3>1
  <2>6. QED
    BY <2>5
<1>4. PICK j \in 1..first : t[j] = "open"
  BY <1>3 DEF Braces
<1>5. j = first
  BY <1>1, <1>2, <1>4
<1>6. QED
  BY <1>4, <1>5
(* The next piece of a text, k+1 to n, comes to what is kept of the first k. *)
LEMMA PieceJoins ==
  ASSUME NEW t \in Text, NEW k \in 0..Len(t), NEW n \in k..Len(t), NEW m, NEW e \in BOOLEAN,
         Holds(t, m, k, e)
  PROVE  \E l \in {m, k} :
           /\ Extended(SubSeq(t, m + 1, k), SubSeq(t, k + 1, n)) = SubSeq(t, l + 1, n)
           /\ Holds(t, l, n, e \/ Repeats(t, k, n))
<1> DEFINE old == SubSeq(t, m + 1, k)
           new == SubSeq(t, k + 1, n)
           echoes == Repeats(t, k, n)
<1>0. /\ Len(t) \in Nat /\ DOMAIN t = 1..Len(t) /\ k \in Nat /\ n \in Nat /\ m \in Nat /\ m <= k
      /\ m \in 0..Len(t) /\ k \in m..Len(t)
  BY DEF Text, Holds
<1>1. /\ old \in Text /\ Len(old) = k - m /\ DOMAIN old = 1..(k - m)
      /\ \A i \in 1..(k - m) : old[i] = t[m + i]
  BY <1>0, PieceFacts
<1>2. /\ new \in Text /\ Len(new) = n - k /\ DOMAIN new = 1..(n - k)
      /\ \A i \in 1..(n - k) : new[i] = t[k + i]
  BY <1>0, PieceFacts
<1>3. m = 0 \/ m < k
  BY DEF Holds
<1>4. (\A j \in 1..m : t[j] = "space") \/ (e /\ Later(t, m, k))
  BY DEF Holds
<1>5. CASE ~IsPrefix(old, new)
  <2>1. old \o new = SubSeq(t, m + 1, n)
    <3>1. t \in Seq(STRING) /\ m + 1 \in 1..Len(t) + 1 /\ k \in (m + 1) - 1..Len(t)
      BY <1>0 DEF Text
    <3>2. QED
      BY <3>1, ConcatAdjacentSubSeq
  <2>2. Later(t, m, k) => Later(t, m, n)
    BY <1>0 DEF Later
  <2>3. Holds(t, m, n, e \/ echoes)
    <3> HIDE DEF echoes
    <3>1. QED
      BY <1>0, <1>3, <1>4, <2>2 DEF Holds
  <2>4. Extended(old, new) = SubSeq(t, m + 1, n)
    BY <1>5, <2>1 DEF Extended
  <2>5. QED
    BY <2>3, <2>4
<1>6. CASE IsPrefix(old, new) /\ n = k
  <2>1. m = k
    <3>1. Len(old) <= Len(new)
      BY <1>1, <1>2, <1>6, PrefixFacts
    <3> HIDE DEF old, new
    <3>2. QED
      BY <1>0, <1>1, <1>2, <1>6, <3>1
  <2>2. Holds(t, k, n, e \/ echoes)
    <3> HIDE DEF echoes
    <3>1. QED
      BY <1>0, <1>3, <1>4, <1>6, <2>1 DEF Holds
  <2>3. Extended(old, new) = SubSeq(t, k + 1, n)
    BY <1>6 DEF Extended
  <2>4. QED
    BY <2>2, <2>3
<1>7. CASE IsPrefix(old, new) /\ k < n
  <2>1. k - m <= n - k /\ \A i \in 1..(k - m) : t[m + i] = t[k + i]
    <3>1. Len(old) <= Len(new) /\ \A i \in 1..Len(old) : old[i] = new[i]
      BY <1>1, <1>2, <1>7, PrefixFacts
    <3> HIDE DEF old, new
    <3>2. QED
      BY <1>0, <1>1, <1>2, <3>1
  <2>2. (\A j \in 1..k : t[j] = "space") \/ ((e \/ echoes) /\ Later(t, k, n))
    <3>1. CASE e /\ Later(t, m, k)
      <4>1. ASSUME NEW first \in DOMAIN t, NEW last \in DOMAIN t, first < last,
                   Spans(t, first, last)
            PROVE  \E q \in (k + 1)..n : first < q /\ t[q] = "open"
                     /\ \A j \in (k + 1)..(q - 1) : t[j] = "space"
        <5>1. PICK q \in (m + 1)..k :
                first < q /\ t[q] = "open" /\ \A j \in (m + 1)..(q - 1) : t[j] = "space"
          BY <3>1, <4>1 DEF Later
        <5>2. first \in Nat /\ first < q /\ q \in Nat /\ m < q /\ q <= k
          BY <1>0, <5>1
        <5>3. PICK p \in Nat : p = k + (q - m)
          BY <1>0, <5>2
        <5>4. p \in (k + 1)..n /\ first < p
          BY <1>0, <2>1, <5>2, <5>3
        <5>5. t[p] = "open"
          <6>1. q - m \in 1..(k - m) /\ m + (q - m) = q
            BY <1>0, <5>2
          <6>2. QED
            BY <2>1, <5>1, <5>3, <6>1
        <5>6. ASSUME NEW j \in (k + 1)..(p - 1) PROVE t[j] = "space"
          <6>1. /\ j - k \in 1..(k - m) /\ k + (j - k) = j
                /\ m + (j - k) \in (m + 1)..(q - 1)
            BY <1>0, <5>2, <5>3
          <6>2. QED
            BY <2>1, <5>1, <6>1
        <5>7. QED
          BY <5>4, <5>5, <5>6
      <4>2. QED
        BY <3>1, <4>1 DEF Later
    <3>2. CASE (\A j \in 1..m : t[j] = "space") /\ ~Blank(old)
      <4>1. echoes
        <5>1. Blank(SubSeq(t, 1, m))
          <6>1. /\ DOMAIN SubSeq(t, 0 + 1, m) = 1..(m - 0)
                /\ \A i \in 1..(m - 0) : SubSeq(t, 0 + 1, m)[i] = t[0 + i]
            BY <1>0, PieceFacts
          <6>2. QED
            BY <1>0, <3>2, <6>1 DEF Blank
        <5>2. m \in 0..k
          BY <1>0
        <5>3. QED
          BY <1>7, <3>2, <5>1, <5>2 DEF Echo, Repeats
      <4>2. PICK i \in 1..(k - m) : old[i] # "space"
        BY <1>1, <3>2 DEF Blank
      <4>3. ASSUME NEW first \in DOMAIN t, NEW last \in DOMAIN t, first < last,
                   Spans(t, first, last)
            PROVE  \E q \in (k + 1)..n : first < q /\ t[q] = "open"
                     /\ \A j \in (k + 1)..(q - 1) : t[j] = "space"
        <5>1. t[first] = "open" /\ first \in 1..Len(t)
          BY <1>0, <4>3, SpanOpens
        <5>2. m < first
          BY <1>0, <3>2, <5>1
        <5>3. first <= m + i
          <6>1. m + i \in DOMAIN t /\ t[m + i] # "space"
            BY <1>0, <1>1, <4>2
          <6>2. QED
            BY <1>0, <4>3, <5>1, <6>1 DEF Spans
        <5>4. /\ k + (first - m) \in (k + 1)..n /\ first < k + (first - m)
              /\ first - m \in 1..(k - m) /\ m + (first - m) = first
          BY <1>0, <2>1, <4>2, <5>1, <5>2, <5>3
        <5>5. t[k + (first - m)] = "open"
          BY <2>1, <5>1, <5>4
        <5>6. ASSUME NEW j \in (k + 1)..(k + (first - m) - 1) PROVE t[j] = "space"
          <6>1. /\ j - k \in 1..(k - m) /\ k + (j - k) = j
                /\ m + (j - k) \in DOMAIN t /\ m + (j - k) < first
            <7>1. first \in Nat /\ first - m <= k - m /\ first <= Len(t)
              BY <1>0, <5>1, <5>2, <5>4
            <7>2. j \in Int /\ k < j /\ j < k + (first - m)
              BY <1>0, <7>1
            <7>3. PICK l \in Nat : j = k + l /\ 1 <= l /\ l < first - m
              BY <1>0, <7>1, <7>2
            <7>4. j - k = l /\ l \in 1..(k - m) /\ m + l < first /\ m + l \in 1..Len(t)
              BY <1>0, <7>1, <7>3
            <7>5. QED
              BY <1>0, <7>3, <7>4
          <6>2. t[m + (j - k)] = "space"
            BY <4>3, <6>1 DEF Spans
          <6>3. QED
            BY <2>1, <6>1, <6>2
        <5>7. QED
          BY <5>4, <5>5, <5>6
      <4>4. Later(t, k, n)
        BY <4>3 DEF Later
      <4> HIDE DEF echoes
      <4>5. QED
        BY <4>1, <4>4
    <3>3. CASE (\A j \in 1..m : t[j] = "space") /\ Blank(old)
      <4>1. ASSUME NEW j \in 1..k PROVE t[j] = "space"
        <5>1. CASE j <= m
          BY <1>0, <3>3, <5>1
        <5>2. CASE m < j
          <6>1. j - m \in 1..(k - m) /\ m + (j - m) = j
            BY <1>0, <5>2
          <6>2. old[j - m] = "space"
            BY <1>1, <3>3, <6>1 DEF Blank
          <6>3. QED
            BY <1>1, <6>1, <6>2
        <5>3. QED
          BY <1>0, <5>1, <5>2
      <4>2. QED
        BY <4>1
    <3>4. QED
      BY <1>4, <3>1, <3>2, <3>3
  <2>3. Holds(t, k, n, e \/ echoes)
    <3> HIDE DEF echoes
    <3>1. QED
      BY <1>0, <1>7, <2>2 DEF Holds
  <2>4. Extended(old, new) = SubSeq(t, k + 1, n)
    BY <1>7 DEF Extended
  <2>5. QED
    BY <2>3, <2>4
<1>8. QED
  BY <1>0, <1>5, <1>6, <1>7

(* The text so far takes the place of a shorter one. *)
LEMMA WholeJoins ==
  ASSUME NEW t \in Text, NEW k \in 0..Len(t), NEW n \in k..Len(t)
  PROVE  Extended(SubSeq(t, 1, k), SubSeq(t, 1, n)) = SubSeq(t, 1, n)
<1>0. /\ Len(t) \in Nat /\ k \in Nat /\ n \in Nat /\ k <= n /\ n \in 0..Len(t)
  BY DEF Text
<1>1. /\ SubSeq(t, 0 + 1, k) \in Text /\ Len(SubSeq(t, 0 + 1, k)) = k - 0
      /\ \A i \in 1..(k - 0) : SubSeq(t, 0 + 1, k)[i] = t[0 + i]
  BY <1>0, PieceFacts
<1>2. /\ SubSeq(t, 0 + 1, n) \in Text /\ Len(SubSeq(t, 0 + 1, n)) = n - 0
      /\ \A i \in 1..(n - 0) : SubSeq(t, 0 + 1, n)[i] = t[0 + i]
  BY <1>0, PieceFacts
<1>3. IsPrefix(SubSeq(t, 1, k), SubSeq(t, 1, n))
  <2> DEFINE a == SubSeq(t, 1, k)
             b == SubSeq(t, 1, n)
  <2>1. /\ a \in Text /\ Len(a) = k /\ \A i \in 1..k : a[i] = t[i]
        /\ b \in Text /\ Len(b) = n /\ \A i \in 1..n : b[i] = t[i]
    BY <1>0, <1>1, <1>2
  <2> HIDE DEF a, b
  <2>2. /\ SubSeq(a, 0 + 1, k) \in Seq(STRING) /\ Len(SubSeq(a, 0 + 1, k)) = k - 0
        /\ \A i \in 1..(k - 0) : SubSeq(a, 0 + 1, k)[i] = a[0 + i]
    BY <1>0, <2>1, PieceFacts DEF Text
  <2>3. /\ SubSeq(b, 0 + 1, k) \in Seq(STRING) /\ Len(SubSeq(b, 0 + 1, k)) = k - 0
        /\ \A i \in 1..(k - 0) : SubSeq(b, 0 + 1, k)[i] = b[0 + i]
    BY <1>0, <2>1, PieceFacts DEF Text
  <2>4. SubSeq(a, 1, k) = SubSeq(b, 1, k)
    <3>1. \A i \in 1..Len(SubSeq(a, 0 + 1, k)) : SubSeq(a, 0 + 1, k)[i] = SubSeq(b, 0 + 1, k)[i]
      BY <1>0, <2>1, <2>2, <2>3
    <3>2. SubSeq(a, 0 + 1, k) = SubSeq(b, 0 + 1, k)
      BY <2>2, <2>3, <3>1, SeqEqual
    <3>3. QED
      BY <3>2
  <2>5. QED
    BY <1>0, <2>1, <2>4 DEF IsPrefix, a, b
<1>4. QED
  BY <1>3 DEF Extended

(* What the code has of a text in the end. *)
LEMMA HeldText ==
  ASSUME NEW t \in Text, NEW m, NEW e \in BOOLEAN, Holds(t, m, Len(t), e)
  PROVE  \/ Parsed(Rest(t, m)) = Parsed(t)
         \/ e /\ Parsed(Rest(t, m)) = Malformed
         \/ e /\ Parsed(t) = Malformed
<1>0. Len(t) \in Nat /\ m \in 0..Len(t) /\ DOMAIN t = 1..Len(t)
  BY DEF Text, Holds
<1>1. CASE \A j \in 1..m : t[j] = "space"
  <2>1. m = 0 \/ m < Len(t)
    BY DEF Holds
  <2>2. QED
    BY <1>0, <1>1, <2>1, ParsedRest
<1>2. CASE e /\ Later(t, m, Len(t)) /\ ~(\A j \in 1..m : t[j] = "space")
  <2>1. m \in Nat /\ m # 0 /\ m < Len(t)
    BY <1>0, <1>2 DEF Holds
  <2>2. t # <<>>
    BY <2>1, EmptySeq
  <2>3. CASE ~IsObject(t)
    BY <1>2, <2>2, <2>3 DEF Parsed
  <2>4. CASE IsObject(t)
    <3>1. PICK first, last \in DOMAIN t : first < last /\ Spans(t, first, last)
      BY <2>4 DEF IsObject
    <3>2. PICK q \in (m + 1)..Len(t) :
            first < q /\ t[q] = "open" /\ \A j \in (m + 1)..(q - 1) : t[j] = "space"
      BY <1>2, <3>1 DEF Later
    <3>3. ~IsObject(Rest(t, m))
      BY <1>0, <2>4, <3>1, <3>2, TailIsNoObject
    <3>4. Rest(t, m) # <<>>
      <4>1. Len(Rest(t, m)) = Len(t) - m
        BY <1>0, RestFacts
      <4>2. QED
        BY <1>0, <2>1, <4>1, EmptySeq
    <3>5. QED
      BY <1>2, <3>3, <3>4 DEF Parsed
  <2>5. QED
    BY <2>3, <2>4
<1>3. QED
  BY <1>1, <1>2 DEF Holds
-----------------------------------------------------------------------------
(* The invariants.  A slot is a call that has begun, with its id and name,  *)
(* and the lookups lead from what a fragment bears to the slot of its call. *)

TypeInv ==
  /\ stream \in Streams
  /\ sent \in [DOMAIN stream.calls -> Int]
  /\ \A c \in DOMAIN sent : sent[c] = Unsent \/ sent[c] \in 0..Len(Call(c).text)
  /\ chunk \in Seq(DOMAIN stream.calls)
  /\ raw \in Seq(CallRecords)
  /\ order \in Seq(DOMAIN stream.calls)
  /\ echoed \in BOOLEAN

SlotInv ==
  /\ Len(raw) = Len(order)
  /\ \A c \in DOMAIN sent : sent[c] # Unsent <=> \E k \in DOMAIN order : order[k] = c
  /\ \A k, l \in DOMAIN order : order[k] = order[l] => k = l
  /\ \A k \in DOMAIN raw : raw[k].id = Call(order[k]).id /\ raw[k].name = Call(order[k]).name

LookupInv ==
  /\ \A p \in DOMAIN positions : positions[p] \in DOMAIN raw
  /\ \A i \in DOMAIN slots : slots[i] \in DOMAIN raw /\ raw[slots[i]].id = i
  /\ \A k \in DOMAIN raw :
       raw[k].id # NoId => raw[k].id \in DOMAIN slots /\ slots[raw[k].id] = k

(* With one call after the other, only the last one that began is open, and *)
(* the first position is its.                                               *)
TurnsInv ==
  stream.layout = "turns" =>
    /\ \A d \in DOMAIN sent : sent[d] # Unsent => \A c \in 1..(d - 1) : ~Open(c)
    /\ \A k \in DOMAIN order : k < Len(order) => ~Open(order[k])
    /\ raw # <<>> => 1 \in DOMAIN positions /\ positions[1] = Len(raw)

(* With all calls in every chunk, slots and positions are theirs. *)
AlignedInv ==
  stream.layout = "aligned" =>
    /\ \A k \in DOMAIN order : order[k] = k /\ k \in DOMAIN positions /\ positions[k] = k
    /\ Len(order) = Len(stream.calls) \/ Len(chunk) = Len(order)

RouteInv == SlotInv /\ LookupInv /\ TurnsInv /\ AlignedInv

LEMMA StreamFacts ==
  ASSUME stream \in Streams
  PROVE  /\ NoId \notin Ids
         /\ stream.calls \in Seq(CallRecords)
         /\ Len(stream.calls) \in Nat /\ DOMAIN stream.calls = 1..Len(stream.calls)
         /\ stream.layout \in {"result", "single", "turns", "aligned", "any"}
         /\ stream.ids \in {"every", "first", "never"} /\ stream.whole \in BOOLEAN
         /\ stream.layout = "single" => Len(stream.calls) = 1
         /\ stream.layout \in {"turns", "aligned"} => stream.ids # "never"
         /\ stream.layout \in {"result", "any"} => stream.ids = "every"
         /\ \A c \in DOMAIN stream.calls :
              /\ Call(c) \in CallRecords
              /\ Call(c).id \in Ids \cup {NoId} /\ Call(c).name \in Text /\ Call(c).text \in Text
              /\ Call(c).name # <<>>
              /\ Call(c).id = NoId <=> stream.ids = "never"
              /\ \A d \in DOMAIN stream.calls : Call(c).id = Call(d).id => c = d
<1>1. /\ NoId \notin Ids
      /\ stream \in [calls : Seq(CallRecords),
                     layout : {"result", "single", "turns", "aligned", "any"},
                     ids : {"every", "first", "never"}, whole : BOOLEAN]
  BY StreamsAssumption
<1>2. stream.layout = "single" => Len(stream.calls) = 1
  BY StreamsAssumption
<1>3. stream.layout \in {"turns", "aligned"} => stream.ids # "never"
  BY StreamsAssumption
<1>4. stream.layout \in {"result", "any"} => stream.ids = "every"
  BY StreamsAssumption
<1>5. \A c \in DOMAIN stream.calls :
        /\ Call(c).name # <<>>
        /\ Call(c).id = NoId <=> stream.ids = "never"
        /\ \A d \in DOMAIN stream.calls : Call(c).id = Call(d).id => c = d
  BY StreamsAssumption DEF Call
<1>6. /\ stream.calls \in Seq(CallRecords) /\ Len(stream.calls) \in Nat
      /\ DOMAIN stream.calls = 1..Len(stream.calls)
  BY <1>1, LenProperties
<1>7. \A c \in DOMAIN stream.calls : Call(c) \in CallRecords
  BY <1>6, ElementOfSeq DEF Call
<1>8. \A c \in DOMAIN stream.calls :
        Call(c).id \in Ids \cup {NoId} /\ Call(c).name \in Text /\ Call(c).text \in Text
  BY <1>7 DEF CallRecords, Text
<1>9. QED
  BY <1>1, <1>2, <1>3, <1>4, <1>5, <1>6, <1>7, <1>8

(* u is s with e at the place i, or after the end. *)
Replaces(s, i, e, u) ==
  /\ u \in Seq(CallRecords)
  /\ Len(u) = IF i = Len(s) + 1 THEN Len(s) + 1 ELSE Len(s)
  /\ DOMAIN u = 1..Len(u)
  /\ \A j \in DOMAIN u : u[j] = IF j = i THEN e ELSE s[j]

LEMMA UpdatedSeq ==
  ASSUME NEW s \in Seq(CallRecords), NEW i \in 1..(Len(s) + 1), NEW e \in CallRecords
  PROVE  Replaces(s, i, e, Updated(s, i, e))
<1> DEFINE n == IF i = Len(s) + 1 THEN Len(s) + 1 ELSE Len(s)
<1>1. Len(s) \in Nat /\ DOMAIN s = 1..Len(s) /\ \A j \in 1..Len(s) : s[j] \in CallRecords
  BY LenProperties, ElementOfSeq
<1>2. n \in Nat /\ DOMAIN s \cup {i} = 1..n
  <2>1. \A j : j \in 1..n <=> j \in 1..Len(s) \/ j = i
    BY <1>1
  <2>2. n \in Nat
    BY <1>1
  <2> HIDE DEF n
  <2>3. QED
    BY <1>1, <2>1, <2>2
<1>3. Updated(s, i, e) \in [1..n -> CallRecords]
  <2> HIDE DEF n
  <2>1. QED
    BY <1>1, <1>2 DEF Updated
<1>4. Updated(s, i, e) \in Seq(CallRecords)
  <2> HIDE DEF n
  <2>1. QED
    BY <1>2, <1>3, SeqDef
<1>5. DOMAIN Updated(s, i, e) = 1..n
  BY <1>3
<1>6. Len(Updated(s, i, e)) = n
  <2> HIDE DEF n
  <2>1. /\ Len(Updated(s, i, e)) \in Nat
        /\ DOMAIN Updated(s, i, e) = 1..Len(Updated(s, i, e))
    BY <1>4, LenProperties
  <2>2. QED
    BY <1>2, <1>5, <2>1
<1>7. \A j \in 1..n : Updated(s, i, e)[j] = IF j = i THEN e ELSE s[j]
  BY <1>2 DEF Updated
<1>8. QED
  <2> HIDE DEF n
  <2>1. n = IF i = Len(s) + 1 THEN Len(s) + 1 ELSE Len(s)
    BY DEF n
  <2>2. QED
    BY <1>4, <1>5, <1>6, <1>7, <2>1 DEF Replaces

LEMMA NameKept ==
  ASSUME NEW s \in Text, s # <<>>
  PROVE  Extended(s, s) = s /\ Extended(s, <<>>) = s
<1>1. Len(s) \in Nat \ {0}
  BY EmptySeq DEF Text
<1>2. IsPrefix(s, s)
  BY <1>1 DEF IsPrefix
<1>3. ~IsPrefix(s, <<>>)
  BY <1>1, EmptySeq DEF IsPrefix
<1>4. s \o <<>> = s
  BY ConcatEmptySeq DEF Text
<1>5. QED
  BY <1>2, <1>3, <1>4 DEF Extended

LEMMA RecordFacts ==
  ASSUME NEW i \in Ids \cup {NoId}, NEW n \in Text, NEW t \in Text
  PROVE  /\ [id |-> i, name |-> n, text |-> t] \in CallRecords
         /\ [id |-> i, name |-> n, text |-> t].id = i
         /\ [id |-> i, name |-> n, text |-> t].name = n
         /\ [id |-> i, name |-> n, text |-> t].text = t
BY DEF CallRecords, Text

(* What a fragment bears. *)
LEMMA FragmentFacts ==
  ASSUME TypeInv, NEW c \in DOMAIN sent, NEW n \in Onward(c)
  PROVE  /\ SoFar(c) \in 0..Len(Call(c).text) /\ n \in SoFar(c)..Len(Call(c).text)
         /\ Fragment(c, n) \in CallRecords
         /\ Fragment(c, n).id \in {NoId, Call(c).id}
         /\ sent[c] = Unsent => Fragment(c, n).id = Call(c).id /\ Fragment(c, n).name = Call(c).name
         /\ Fragment(c, n).id = NoId =>
              stream.ids = "never" \/ (stream.ids = "first" /\ sent[c] # Unsent)
         /\ Fragment(c, n).name \in {<<>>, Call(c).name}
         /\ Fragment(c, n).text
              = SubSeq(Call(c).text, (IF stream.whole THEN 0 ELSE SoFar(c)) + 1, n)
<1>0. /\ stream \in Streams /\ c \in DOMAIN stream.calls
      /\ sent[c] = Unsent \/ sent[c] \in 0..Len(Call(c).text)
  BY DEF TypeInv
<1>1. /\ Call(c).id \in Ids \cup {NoId} /\ Call(c).name \in Text
      /\ Call(c).text \in Text /\ (Call(c).id = NoId <=> stream.ids = "never")
      /\ stream.ids \in {"every", "first", "never"} /\ stream.whole \in BOOLEAN
  BY <1>0, StreamFacts
<1>2. PICK w \in Text : w = Call(c).text
  BY <1>1
<1>3. Len(w) \in Nat
  BY DEF Text
<1>4. SoFar(c) \in 0..Len(w) /\ n \in SoFar(c)..Len(w)
  BY <1>0, <1>2, <1>3 DEF Onward, SoFar
<1>5. PICK done : done = IF stream.whole THEN 0 ELSE SoFar(c)
  OBVIOUS
<1>6. done \in 0..Len(w) /\ n \in done..Len(w)
  BY <1>1, <1>3, <1>4, <1>5
<1>7. PICK i : i = IF stream.ids = "every" \/ (stream.ids = "first" /\ sent[c] = Unsent)
                   THEN Call(c).id ELSE NoId
  OBVIOUS
<1>8. PICK nm : nm = IF sent[c] = Unsent \/ stream.whole THEN Call(c).name ELSE <<>>
  OBVIOUS
<1>9. SubSeq(w, done + 1, n) \in Text
  BY <1>6, PieceFacts
<1>10. i \in Ids \cup {NoId} /\ nm \in Text
  <2>1. <<>> \in Text
    BY EmptySeq DEF Text
  <2>2. i \in Ids \cup {NoId}
    BY <1>1, <1>7
  <2>3. QED
    BY <1>1, <1>8, <2>1, <2>2
<1>11. Fragment(c, n) = [id |-> i, name |-> nm, text |-> SubSeq(w, done + 1, n)]
  BY <1>2, <1>5, <1>7, <1>8 DEF Fragment
<1>12. /\ Fragment(c, n) \in CallRecords /\ Fragment(c, n).id = i
       /\ Fragment(c, n).name = nm /\ Fragment(c, n).text = SubSeq(w, done + 1, n)
  <2>1. PICK x \in Text : x = SubSeq(w, done + 1, n)
    BY <1>9
  <2>2. PICK f : f = [id |-> i, name |-> nm, text |-> x]
    OBVIOUS
  <2>3. f \in CallRecords /\ f.id = i /\ f.name = nm /\ f.text = x
    BY <1>10, <2>1, <2>2, RecordFacts
  <2>4. Fragment(c, n) = f
    BY <1>11, <2>1, <2>2
  <2>5. QED
    BY <2>1, <2>3, <2>4
<1>13. Fragment(c, n).text = SubSeq(Call(c).text, (IF stream.whole THEN 0 ELSE SoFar(c)) + 1, n)
  BY <1>2, <1>5, <1>12
<1>14. /\ i \in {NoId, Call(c).id} /\ (sent[c] = Unsent => i = Call(c).id)
       /\ i = NoId => stream.ids = "never" \/ (stream.ids = "first" /\ sent[c] # Unsent)
  BY <1>1, <1>7
<1>15. nm \in {<<>>, Call(c).name} /\ (sent[c] = Unsent => nm = Call(c).name)
  BY <1>8
<1>16. QED
  BY <1>2, <1>4, <1>12, <1>13, <1>14, <1>15
-----------------------------------------------------------------------------
(* A fragment goes to the slot of its call, or to a new one if it is the    *)
(* first of its call.                                                       *)
SlotOf(c, k) ==
  IF sent[c] = Unsent THEN k = Len(raw) + 1 ELSE k \in DOMAIN raw /\ order[k] = c

LEMMA SlotFacts ==
  ASSUME TypeInv, SlotInv
  PROVE  /\ Len(raw) \in Nat /\ DOMAIN raw = 1..Len(raw) /\ DOMAIN order = 1..Len(raw)
         /\ DOMAIN sent = DOMAIN stream.calls
         /\ \A k \in DOMAIN raw :
              order[k] \in DOMAIN stream.calls /\ raw[k].id = Call(order[k]).id /\ sent[order[k]] # Unsent
<1>1. /\ Len(raw) \in Nat /\ DOMAIN raw = 1..Len(raw) /\ DOMAIN order = 1..Len(order)
      /\ Len(raw) = Len(order) /\ DOMAIN sent = DOMAIN stream.calls
  BY LenProperties DEF TypeInv, SlotInv
<1>2. \A k \in DOMAIN order : order[k] \in DOMAIN stream.calls
  BY <1>1, ElementOfSeq DEF TypeInv
<1>3. \A k \in DOMAIN raw : raw[k].id = Call(order[k]).id
  BY DEF SlotInv
<1>4. \A k \in DOMAIN order : sent[order[k]] # Unsent
  BY <1>1, <1>2 DEF SlotInv
<1>5. QED
  BY <1>1, <1>2, <1>3, <1>4

LEMMA RoutedById ==
  ASSUME TypeInv, RouteInv, NEW c \in DOMAIN sent, NEW f, NEW p,
         f.id = Call(c).id, f.id # NoId
  PROVE  SlotOf(c, Slot(f, p))
<1>0. /\ Len(raw) \in Nat /\ DOMAIN raw = 1..Len(raw) /\ DOMAIN order = 1..Len(raw)
      /\ DOMAIN sent = DOMAIN stream.calls
      /\ \A k \in DOMAIN raw :
           order[k] \in DOMAIN stream.calls /\ raw[k].id = Call(order[k]).id /\ sent[order[k]] # Unsent
  BY SlotFacts DEF RouteInv
<1>1. /\ \A q \in DOMAIN positions : positions[q] \in DOMAIN raw
      /\ \A i \in DOMAIN slots : slots[i] \in DOMAIN raw /\ raw[slots[i]].id = i
      /\ \A k \in DOMAIN raw :
           raw[k].id # NoId => raw[k].id \in DOMAIN slots /\ slots[raw[k].id] = k
  BY DEF RouteInv, LookupInv
<1>2. \A d, e \in DOMAIN stream.calls : Call(d).id = Call(e).id => d = e
  BY StreamFacts DEF TypeInv
<1>3. \A k \in DOMAIN raw : raw[k].id = f.id <=> order[k] = c
  BY <1>0, <1>2
<1>4. CASE f.id \in DOMAIN slots
  <2>1. Slot(f, p) = slots[f.id]
    BY <1>4 DEF Slot
  <2>2. slots[f.id] \in DOMAIN raw /\ order[slots[f.id]] = c
    BY <1>1, <1>3, <1>4
  <2>3. sent[c] # Unsent
    BY <1>0, <2>2
  <2>4. QED
    BY <2>1, <2>2, <2>3 DEF SlotOf
<1>5. CASE f.id \notin DOMAIN slots
  <2>1. \A k \in DOMAIN raw : raw[k].id # f.id
    BY <1>1, <1>5
  <2>2. sent[c] = Unsent
    BY <1>0, <1>3, <2>1 DEF RouteInv, SlotInv
  <2>3. \A k \in DOMAIN raw : raw[k].id # NoId
    <3>1. stream.ids # "never"
      BY <1>0, StreamFacts DEF TypeInv
    <3>2. \A d \in DOMAIN stream.calls : Call(d).id # NoId
      BY <3>1, StreamFacts DEF TypeInv
    <3>3. QED
      BY <1>0, <3>2
  <2>4. Slot(f, p) = Len(raw) + 1
    BY <1>1, <1>5, <2>1, <2>3 DEF Slot
  <2>5. QED
    BY <2>2, <2>4 DEF SlotOf
<1>6. QED
  BY <1>4, <1>5

LEMMA Routed ==
  ASSUME TypeInv, RouteInv, NEW c \in DOMAIN sent, NEW earlier \in {chunk, <<>>},
         Joins(c, earlier), NEW n \in Onward(c)
  PROVE  SlotOf(c, Slot(Fragment(c, n), Len(earlier) + 1))
<1>1. PICK f : f = Fragment(c, n)
  OBVIOUS
<1>2. /\ f.id \in {NoId, Call(c).id} /\ (sent[c] = Unsent => f.id = Call(c).id)
      /\ f.id = NoId => stream.ids = "never" \/ (stream.ids = "first" /\ sent[c] # Unsent)
  BY <1>1, FragmentFacts
<1>3. PICK p : p = Len(earlier) + 1
  OBVIOUS
<1>4. /\ Len(raw) \in Nat /\ DOMAIN raw = 1..Len(raw) /\ DOMAIN order = 1..Len(raw)
      /\ DOMAIN sent = DOMAIN stream.calls
      /\ \A k \in DOMAIN raw :
           order[k] \in DOMAIN stream.calls /\ raw[k].id = Call(order[k]).id /\ sent[order[k]] # Unsent
  BY SlotFacts DEF RouteInv
<1>5. /\ \A q \in DOMAIN positions : positions[q] \in DOMAIN raw
      /\ \A i \in DOMAIN slots : slots[i] \in DOMAIN raw /\ raw[slots[i]].id = i
  BY DEF RouteInv, LookupInv
<1>6. sent[c] # Unsent => \E k \in DOMAIN raw : order[k] = c
  BY <1>4 DEF RouteInv, SlotInv
<1>7. SUFFICES SlotOf(c, Slot(f, p))
  BY <1>1, <1>3
<1>8. CASE f.id # NoId
  BY <1>2, <1>8, RoutedById
<1>9. CASE f.id = NoId /\ stream.layout = "single"
  <2>1. DOMAIN stream.calls = {1} /\ c = 1
    <3>1. Len(stream.calls) = 1 /\ DOMAIN stream.calls = 1..Len(stream.calls)
      BY <1>9, StreamFacts DEF TypeInv
    <3>2. DOMAIN stream.calls = {1}
      BY <3>1
    <3>3. QED
      BY <1>4, <3>2
  <2>2. \A k \in DOMAIN raw : order[k] = c /\ k = 1
    <3>1. \A k \in DOMAIN raw : order[k] = c
      BY <1>4, <2>1
    <3>2. \A k, l \in DOMAIN order : order[k] = order[l] => k = l
      BY DEF RouteInv, SlotInv
    <3>3. \A k \in DOMAIN raw : 1 \in DOMAIN raw
      BY <1>4
    <3>4. QED
      BY <1>4, <3>1, <3>2, <3>3
  <2>3. CASE sent[c] = Unsent
    <3>1. DOMAIN raw = {}
      BY <1>4, <2>2, <2>3
    <3>2. Slot(f, p) = Len(raw) + 1
      <4>1. f.id \notin DOMAIN slots /\ p \notin DOMAIN positions
        BY <1>5, <3>1
      <4>2. Len(raw) # 1
        BY <1>4, <3>1
      <4>3. QED
        BY <4>1, <4>2 DEF Slot
    <3>3. QED
      BY <2>3, <3>2 DEF SlotOf
  <2>4. CASE sent[c] # Unsent
    <3>1. 1 \in DOMAIN raw /\ order[1] = c
      BY <1>6, <2>2, <2>4
    <3>2. Len(raw) = 1
      <4>1. Len(raw) \in DOMAIN raw
        BY <1>4, <3>1
      <4>2. QED
        BY <2>2, <4>1
    <3>3. /\ f.id \in DOMAIN slots => slots[f.id] = 1
          /\ p \in DOMAIN positions => positions[p] = 1
      BY <1>5, <2>2
    <3>4. Slot(f, p) = 1
      BY <1>9, <3>2, <3>3 DEF Slot
    <3>5. QED
      BY <2>4, <3>1, <3>4 DEF SlotOf
  <2>5. QED
    BY <2>3, <2>4
<1>10. CASE f.id = NoId /\ stream.layout \in {"turns", "aligned"}
  <2>1. stream.ids = "first" /\ sent[c] # Unsent
    BY <1>2, <1>10, StreamFacts DEF TypeInv
  <2>2. PICK k \in DOMAIN raw : order[k] = c
    BY <1>6, <2>1
  <2>3. f.id \notin DOMAIN slots
    <3>1. \A d \in DOMAIN stream.calls : Call(d).id # NoId
      BY <2>1, StreamFacts DEF TypeInv
    <3>2. QED
      BY <1>4, <1>5, <1>10, <3>1
  <2>4. p \in DOMAIN positions /\ positions[p] = k
    <3>1. CASE stream.layout = "turns"
      <4>1. earlier = <<>> /\ Open(c)
        BY <3>1 DEF Joins
      <4>2. p = 1
        BY <1>3, <4>1, EmptySeq
      <4>3. raw # <<>>
        BY <1>4, <2>2, EmptySeq
      <4>4. /\ 1 \in DOMAIN positions /\ positions[1] = Len(raw)
            /\ \A l \in DOMAIN order : l < Len(order) => ~Open(order[l])
        BY <3>1, <4>3 DEF RouteInv, TurnsInv
      <4>5. Len(order) = Len(raw)
        BY DEF RouteInv, SlotInv
      <4>6. ~(k < Len(raw))
        BY <1>4, <2>2, <4>1, <4>4, <4>5
      <4>7. k = Len(raw)
        BY <1>4, <2>2, <4>6
      <4>8. QED
        BY <4>2, <4>4, <4>7
    <3>2. CASE stream.layout = "aligned"
      <4>1. c = p
        BY <1>3, <3>2 DEF Joins
      <4>2. order[k] = k /\ k \in DOMAIN positions /\ positions[k] = k
        BY <1>4, <2>2, <3>2 DEF RouteInv, AlignedInv
      <4>3. QED
        BY <2>2, <4>1, <4>2
    <3>3. QED
      BY <1>10, <3>1, <3>2
  <2>5. Slot(f, p) = k
    BY <1>10, <2>3, <2>4 DEF Slot
  <2>6. QED
    BY <2>1, <2>2, <2>5 DEF SlotOf
<1>11. QED
  <2>1. f.id = NoId => stream.layout \in {"single", "turns", "aligned"}
    BY <1>2, StreamFacts DEF TypeInv
  <2>2. QED
    BY <1>8, <1>9, <1>10, <2>1
-----------------------------------------------------------------------------
(* What a call has taken in of its arguments, n tokens of them sent: all    *)
(* but the first m, which Holds says of.                                    *)
Kept(c, text, n, e) ==
  \E m : /\ text = SubSeq(Call(c).text, m + 1, n)
         /\ stream.whole => m = 0
         /\ Holds(Call(c).text, m, n, e)

TextInv == \A k \in DOMAIN raw : Kept(order[k], raw[k].text, sent[order[k]], echoed)

LEMMA KeptFromStart ==
  ASSUME NEW c \in DOMAIN stream.calls, stream \in Streams, NEW n \in 0..Len(Call(c).text), NEW e
  PROVE  Kept(c, SubSeq(Call(c).text, 1, n), n, e)
<1>1. Call(c).text \in Text
  BY StreamFacts
<1>2. Len(Call(c).text) \in Nat
  BY <1>1 DEF Text
<1>3. Holds(Call(c).text, 0, n, e)
  BY <1>2 DEF Holds
<1>4. SubSeq(Call(c).text, 1, n) = SubSeq(Call(c).text, 0 + 1, n)
  OBVIOUS
<1>5. QED
  BY <1>3, <1>4 DEF Kept

LEMMA TextTaken ==
  ASSUME TypeInv, SlotInv, TextInv, NEW c \in DOMAIN sent, NEW n \in Onward(c),
         NEW k \in DOMAIN raw, order[k] = c
  PROVE  Kept(c, Extended(raw[k].text, Fragment(c, n).text), n, echoed \/ Echoes(c, n))
<1>1. /\ c \in DOMAIN stream.calls /\ sent[c] # Unsent /\ stream \in Streams
      /\ sent[c] \in 0..Len(Call(c).text) /\ SoFar(c) = sent[c]
  BY SlotFacts DEF TypeInv, SoFar
<1>2. PICK t \in Text : t = Call(c).text
  BY <1>1, StreamFacts
<1>3. PICK q : q = sent[c]
  OBVIOUS
<1>4. q \in 0..Len(t) /\ n \in q..Len(t) /\ Len(t) \in Nat
  BY <1>1, <1>2, <1>3, FragmentFacts DEF Text
<1>5. PICK e : e = echoed
  OBVIOUS
<1>6. e \in BOOLEAN
  BY <1>5 DEF TypeInv
<1>7. PICK m : /\ raw[k].text = SubSeq(t, m + 1, q)
               /\ stream.whole => m = 0
               /\ Holds(t, m, q, e)
  BY <1>2, <1>3, <1>5 DEF TextInv, Kept
<1>8. CASE stream.whole
  <2>1. Fragment(c, n).text = SubSeq(t, 1, n)
    BY <1>2, <1>8, FragmentFacts
  <2>2. raw[k].text = SubSeq(t, 1, q)
    <3>1. m + 1 = 1
      BY <1>7, <1>8
    <3>2. raw[k].text = SubSeq(t, m + 1, q)
      BY <1>7
    <3>3. QED
      BY <3>1, <3>2
  <2>3. Extended(raw[k].text, Fragment(c, n).text) = SubSeq(t, 1, n)
    BY <1>4, <2>1, <2>2, WholeJoins
  <2>4. n \in 0..Len(Call(c).text)
    BY <1>2, <1>4
  <2>5. QED
    BY <1>1, <1>2, <2>3, <2>4, KeptFromStart
<1>9. CASE ~stream.whole
  <2>1. Fragment(c, n).text = SubSeq(t, q + 1, n)
    BY <1>1, <1>2, <1>3, <1>9, FragmentFacts
  <2>2. Repeats(t, q, n) <=> Echoes(c, n)
    BY <1>1, <1>2, <1>3, <1>9 DEF Repeats, Echo, Echoes
  <2>3. PICK l : /\ Extended(SubSeq(t, m + 1, q), SubSeq(t, q + 1, n)) = SubSeq(t, l + 1, n)
                 /\ Holds(t, l, n, e \/ Repeats(t, q, n))
    <3>1. Holds(t, m, q, e)
      BY <1>7
    <3>2. \E l \in {m, q} :
            /\ Extended(SubSeq(t, m + 1, q), SubSeq(t, q + 1, n)) = SubSeq(t, l + 1, n)
            /\ Holds(t, l, n, e \/ Repeats(t, q, n))
      BY <1>4, <1>6, <3>1, PieceJoins
    <3>3. QED
      BY <3>2
  <2>4. Extended(raw[k].text, Fragment(c, n).text) = SubSeq(t, l + 1, n)
    BY <1>7, <2>1, <2>3
  <2>5. Holds(t, l, n, e \/ Echoes(c, n))
    <3>1. PICK b \in BOOLEAN : b = Repeats(t, q, n)
      BY DEF Repeats
    <3>2. Holds(t, l, n, e \/ b)
      BY <2>3, <3>1
    <3>3. b = Echoes(c, n)
      <4>1. Echoes(c, n) \in BOOLEAN
        BY DEF Echoes
      <4>2. QED
        BY <2>2, <3>1, <4>1
    <3>4. QED
      BY <3>2, <3>3
  <2>6. QED
    BY <1>2, <1>5, <1>9, <2>4, <2>5 DEF Kept
<1>10. QED
  BY <1>8, <1>9

LEMMA MergedFacts ==
  ASSUME NEW old \in CallRecords, NEW f \in CallRecords
  PROVE  /\ Merged(old, f) \in CallRecords
         /\ Merged(old, f).id = IF f.id = NoId THEN old.id ELSE f.id
         /\ Merged(old, f).name = Extended(old.name, f.name)
         /\ Merged(old, f).text = Extended(old.text, f.text)
<1>1. /\ old.id \in Ids \cup {NoId} /\ old.name \in Text /\ old.text \in Text
      /\ f.id \in Ids \cup {NoId} /\ f.name \in Text /\ f.text \in Text
  BY DEF CallRecords, Text
<1>2. PICK i : i = IF f.id = NoId THEN old.id ELSE f.id
  OBVIOUS
<1>3. PICK nm : nm = Extended(old.name, f.name)
  OBVIOUS
<1>4. PICK x : x = Extended(old.text, f.text)
  OBVIOUS
<1>5. i \in Ids \cup {NoId} /\ nm \in Text /\ x \in Text
  BY <1>1, <1>2, <1>3, <1>4, ExtendedGrows
<1>6. Merged(old, f) = [id |-> i, name |-> nm, text |-> x]
  BY <1>2, <1>3, <1>4 DEF Merged
<1>7. /\ [id |-> i, name |-> nm, text |-> x] \in CallRecords
      /\ [id |-> i, name |-> nm, text |-> x].id = i
      /\ [id |-> i, name |-> nm, text |-> x].name = nm
      /\ [id |-> i, name |-> nm, text |-> x].text = x
  BY <1>5, RecordFacts
<1>8. QED
  BY <1>2, <1>3, <1>4, <1>6, <1>7

LEMMA TakenFacts ==
  ASSUME TypeInv, SlotInv, TextInv, NEW c \in DOMAIN sent, NEW n \in Onward(c), NEW k,
         SlotOf(c, k)
  PROVE  /\ Taken(Fragment(c, n), k) \in CallRecords
         /\ Taken(Fragment(c, n), k).id = Call(c).id
         /\ Taken(Fragment(c, n), k).name = Call(c).name
         /\ Kept(c, Taken(Fragment(c, n), k).text, n, echoed \/ Echoes(c, n))
         /\ k \in DOMAIN raw =>
              /\ Taken(Fragment(c, n), k).id = raw[k].id
              /\ Len(Taken(Fragment(c, n), k).text) >= Len(raw[k].text)
<1>1. PICK f \in CallRecords : f = Fragment(c, n)
  BY FragmentFacts
<1>2. /\ f.id \in {NoId, Call(c).id} /\ f.name \in {<<>>, Call(c).name}
      /\ sent[c] = Unsent => f.id = Call(c).id /\ f.name = Call(c).name
  BY <1>1, FragmentFacts
<1>3. /\ Len(raw) \in Nat /\ DOMAIN raw = 1..Len(raw) /\ DOMAIN order = 1..Len(raw)
      /\ c \in DOMAIN stream.calls
  BY SlotFacts
<1>4. CASE sent[c] = Unsent
  <2>1. k \notin DOMAIN raw
    BY <1>3, <1>4 DEF SlotOf
  <2>2. Taken(f, k) = f
    BY <2>1 DEF Taken
  <2>3. f.text = SubSeq(Call(c).text, 1, n) /\ n \in 0..Len(Call(c).text)
    <3>1. SoFar(c) = 0
      BY <1>4 DEF SoFar
    <3>2. (IF stream.whole THEN 0 ELSE SoFar(c)) + 1 = 1
      BY <3>1
    <3>3. QED
      BY <1>1, <3>1, <3>2, FragmentFacts
  <2>4. Kept(c, f.text, n, echoed \/ Echoes(c, n))
    BY <1>3, <2>3, KeptFromStart DEF TypeInv
  <2>5. QED
    BY <1>1, <1>2, <1>4, <2>1, <2>2, <2>4
<1>5. CASE sent[c] # Unsent
  <2>1. k \in DOMAIN raw /\ order[k] = c
    BY <1>5 DEF SlotOf
  <2>2. raw[k] \in CallRecords /\ raw[k].id = Call(c).id /\ raw[k].name = Call(c).name
    BY <2>1, ElementOfSeq, <1>3 DEF TypeInv, SlotInv
  <2>3. Taken(f, k) = Merged(raw[k], f)
    BY <2>1 DEF Taken
  <2>4. PICK old \in CallRecords : old = raw[k]
    BY <2>2
  <2>5. /\ Merged(old, f) \in CallRecords
        /\ Merged(old, f).id = IF f.id = NoId THEN old.id ELSE f.id
        /\ Merged(old, f).name = Extended(old.name, f.name)
        /\ Merged(old, f).text = Extended(old.text, f.text)
    BY MergedFacts
  <2>6. Merged(old, f).id = Call(c).id
    BY <1>2, <2>2, <2>4, <2>5
  <2>7. Extended(old.name, f.name) = Call(c).name
    <3>1. PICK s \in Text : s = Call(c).name /\ s # <<>>
      BY <1>3, StreamFacts DEF TypeInv
    <3>2. Extended(s, s) = s /\ Extended(s, <<>>) = s
      BY <3>1, NameKept
    <3>3. QED
      BY <1>2, <2>2, <2>4, <3>1, <3>2
  <2>8. Kept(c, Extended(old.text, f.text), n, echoed \/ Echoes(c, n))
    BY <1>1, <2>1, <2>4, TextTaken
  <2>9. Len(Extended(old.text, f.text)) >= Len(old.text)
    <3>1. old.text \in Text /\ f.text \in Text
      BY DEF CallRecords, Text
    <3>2. QED
      BY <3>1, ExtendedGrows
  <2>10. Taken(f, k) = Merged(old, f)
    BY <2>3, <2>4
  <2>11. /\ Taken(f, k) \in CallRecords /\ Taken(f, k).id = Call(c).id
         /\ Taken(f, k).name = Call(c).name
         /\ Taken(f, k).text = Extended(old.text, f.text)
    BY <2>5, <2>6, <2>7, <2>10
  <2>12. QED
    BY <1>1, <2>2, <2>4, <2>8, <2>9, <2>11
<1>6. QED
  BY <1>4, <1>5
-----------------------------------------------------------------------------
(* Take once more: the fragment up to n of a call c goes to the slot k,     *)
(* which then holds x.                                                      *)
Taking(c, earlier, n, k, x) ==
  /\ stage = "streaming" /\ stage' = stage /\ stream' = stream /\ turn' = turn
  /\ earlier = <<>> => ChunkEnds
  /\ Joins(c, earlier) /\ SlotOf(c, k)
  /\ x.id = Call(c).id /\ x.name = Call(c).name
  /\ Kept(c, x.text, n, echoed')
  /\ k \in DOMAIN raw => x.id = raw[k].id /\ Len(x.text) >= Len(raw[k].text)
  /\ raw' = Updated(raw, k, x)
  /\ positions' = Updated(positions, Len(earlier) + 1, k)
  /\ slots' = IF Call(c).id = NoId THEN slots ELSE Updated(slots, Call(c).id, k)
  /\ sent' = [sent EXCEPT ![c] = n]
  /\ chunk' = Append(earlier, c)
  /\ order' = IF sent[c] = Unsent THEN Append(order, c) ELSE order
  /\ echoed' \in BOOLEAN /\ (echoed => echoed')

LEMMA TakeFacts ==
  ASSUME TypeInv, RouteInv, TextInv, Take
  PROVE  \E c \in DOMAIN sent, earlier \in {chunk, <<>>} :
           \E n \in Onward(c), x \in CallRecords : \E k : Taking(c, earlier, n, k, x)
<1>1. PICK c \in DOMAIN sent, earlier \in {chunk, <<>>} :
        /\ earlier = <<>> => ChunkEnds
        /\ Joins(c, earlier)
        /\ \E n \in Onward(c) :
             /\ Assemble(Fragment(c, n), Len(earlier) + 1)
             /\ sent' = [sent EXCEPT ![c] = n]
             /\ echoed' = (echoed \/ Echoes(c, n))
        /\ chunk' = Append(earlier, c)
        /\ order' = IF sent[c] = Unsent THEN Append(order, c) ELSE order
  BY DEF Take
<1>2. PICK n \in Onward(c) :
        /\ Assemble(Fragment(c, n), Len(earlier) + 1)
        /\ sent' = [sent EXCEPT ![c] = n]
        /\ echoed' = (echoed \/ Echoes(c, n))
  BY <1>1
<1>3. PICK k : k = Slot(Fragment(c, n), Len(earlier) + 1)
  OBVIOUS
<1>4. SlotOf(c, k)
  BY <1>1, <1>3, Routed
<1>5. PICK x : x = Taken(Fragment(c, n), k)
  OBVIOUS
<1>6. /\ x \in CallRecords /\ x.id = Call(c).id /\ x.name = Call(c).name
      /\ Kept(c, x.text, n, echoed \/ Echoes(c, n))
      /\ k \in DOMAIN raw => x.id = raw[k].id /\ Len(x.text) >= Len(raw[k].text)
  BY <1>4, <1>5, TakenFacts DEF RouteInv
<1>7. /\ raw' = Updated(raw, k, x)
      /\ positions' = Updated(positions, Len(earlier) + 1, k)
      /\ slots' = IF x.id = NoId THEN slots ELSE Updated(slots, x.id, k)
  BY <1>2, <1>3, <1>5 DEF Assemble
<1>8. /\ stage = "streaming" /\ stage' = stage /\ stream' = stream /\ turn' = turn
  BY DEF Take
<1>9. Kept(c, x.text, n, echoed') /\ echoed' \in BOOLEAN /\ (echoed => echoed')
  <2>1. Kept(c, x.text, n, echoed')
    BY <1>2, <1>6
  <2>2. Echoes(c, n) \in BOOLEAN /\ echoed \in BOOLEAN
    BY DEF Echoes, TypeInv
  <2>3. QED
    BY <1>2, <2>1, <2>2
<1>10. slots' = IF Call(c).id = NoId THEN slots ELSE Updated(slots, Call(c).id, k)
  BY <1>6, <1>7
<1>11. Taking(c, earlier, n, k, x)
  BY <1>1, <1>2, <1>4, <1>6, <1>7, <1>8, <1>9, <1>10 DEF Taking
<1>12. QED
  BY <1>6, <1>11

(* The slots after it. *)
LEMMA TakingFacts ==
  ASSUME TypeInv, RouteInv, NEW c \in DOMAIN sent, NEW earlier \in {chunk, <<>>},
         NEW n \in Onward(c), NEW k, NEW x \in CallRecords, Taking(c, earlier, n, k, x)
  PROVE  /\ raw' \in Seq(CallRecords) /\ order' \in Seq(DOMAIN stream.calls)
         /\ Len(raw') = Len(order') /\ DOMAIN raw' = 1..Len(raw') /\ Len(raw') \in Nat
         /\ DOMAIN order' = DOMAIN raw' /\ DOMAIN raw \subseteq DOMAIN raw'
         /\ k \in DOMAIN raw' /\ order'[k] = c /\ raw'[k] = x
         /\ Len(raw') = IF sent[c] = Unsent THEN Len(raw) + 1 ELSE Len(raw)
         /\ sent[c] = Unsent => k = Len(raw')
         /\ \A j \in DOMAIN raw' \ {k} : j \in DOMAIN raw /\ raw'[j] = raw[j] /\ order'[j] = order[j]
         /\ DOMAIN sent' = DOMAIN sent /\ sent'[c] = n
         /\ \A d \in DOMAIN sent \ {c} : sent'[d] = sent[d]
         /\ n \in SoFar(c)..Len(Call(c).text)
         /\ \A d \in DOMAIN sent : Call(d)' = Call(d)
<1>1. /\ Len(raw) \in Nat /\ DOMAIN raw = 1..Len(raw) /\ DOMAIN order = 1..Len(raw)
      /\ DOMAIN sent = DOMAIN stream.calls /\ Len(order) = Len(raw)
      /\ raw \in Seq(CallRecords) /\ order \in Seq(DOMAIN stream.calls)
  BY SlotFacts DEF RouteInv, SlotInv, TypeInv
<1>2. /\ SlotOf(c, k) /\ raw' = Updated(raw, k, x) /\ sent' = [sent EXCEPT ![c] = n]
      /\ order' = IF sent[c] = Unsent THEN Append(order, c) ELSE order
      /\ stream' = stream
  BY DEF Taking
<1>3. k \in 1..(Len(raw) + 1)
  BY <1>1, <1>2 DEF SlotOf
<1>4. sent[c] = Unsent <=> k = Len(raw) + 1
  BY <1>1, <1>2 DEF SlotOf
<1>5. /\ raw' \in Seq(CallRecords)
      /\ Len(raw') = IF k = Len(raw) + 1 THEN Len(raw) + 1 ELSE Len(raw)
      /\ DOMAIN raw' = 1..Len(raw')
      /\ \A j \in DOMAIN raw' : raw'[j] = IF j = k THEN x ELSE raw[j]
  <2>1. PICK s \in Seq(CallRecords) : s = raw
    BY <1>1
  <2>2. k \in 1..(Len(s) + 1)
    BY <1>3, <2>1
  <2>3. Replaces(s, k, x, Updated(s, k, x))
    BY <2>2, UpdatedSeq
  <2>4. raw' = Updated(s, k, x)
    BY <1>2, <2>1
  <2>5. QED
    BY <2>1, <2>3, <2>4 DEF Replaces
<1>6. /\ order' \in Seq(DOMAIN stream.calls) /\ Len(order') = Len(raw')
      /\ DOMAIN order' = 1..Len(raw')
      /\ \A j \in 1..Len(raw') : order'[j] = IF j = k THEN c ELSE order[j]
  <2>1. CASE sent[c] = Unsent
    <3>1. order' = Append(order, c) /\ k = Len(raw) + 1
      BY <1>2, <1>4, <2>1
    <3>2. /\ order' \in Seq(DOMAIN stream.calls) /\ Len(order') = Len(order) + 1
          /\ \A j \in 1..Len(order) : order'[j] = order[j]
          /\ order'[Len(order) + 1] = c
      BY <1>1, <3>1, AppendProperties
    <3>3. DOMAIN order' = 1..Len(order')
      BY <3>2, LenProperties
    <3>4. QED
      BY <1>1, <1>5, <3>1, <3>2, <3>3
  <2>2. CASE sent[c] # Unsent
    <3>1. order' = order /\ k \in DOMAIN raw /\ order[k] = c
      BY <1>2, <2>2 DEF SlotOf
    <3>2. QED
      BY <1>1, <1>4, <1>5, <2>2, <3>1
  <2>3. QED
    BY <2>1, <2>2
<1>7. /\ DOMAIN raw \subseteq DOMAIN raw' /\ k \in DOMAIN raw'
      /\ \A j \in DOMAIN raw' \ {k} : j \in DOMAIN raw
  BY <1>1, <1>3, <1>5
<1>8. DOMAIN sent' = DOMAIN sent /\ sent'[c] = n /\ \A d \in DOMAIN sent \ {c} : sent'[d] = sent[d]
  <2>1. sent \in [DOMAIN stream.calls -> Int]
    BY DEF TypeInv
  <2>2. QED
    BY <1>2, <2>1
<1>9. \A d \in DOMAIN sent : Call(d)' = Call(d)
  BY <1>2 DEF Call
<1>10. n \in SoFar(c)..Len(Call(c).text)
  BY FragmentFacts
<1>11. QED
  BY <1>1, <1>4, <1>5, <1>6, <1>7, <1>8, <1>9, <1>10

LEMMA TakeType ==
  ASSUME TypeInv, RouteInv, NEW c \in DOMAIN sent, NEW earlier \in {chunk, <<>>},
         NEW n \in Onward(c), NEW k, NEW x \in CallRecords, Taking(c, earlier, n, k, x)
  PROVE  TypeInv'
<1>1. /\ raw' \in Seq(CallRecords) /\ order' \in Seq(DOMAIN stream.calls)
      /\ sent'[c] = n /\ DOMAIN sent' = DOMAIN sent
      /\ \A d \in DOMAIN sent \ {c} : sent'[d] = sent[d]
      /\ n \in SoFar(c)..Len(Call(c).text)
      /\ \A d \in DOMAIN sent : Call(d)' = Call(d)
  BY TakingFacts
<1>2. /\ stream \in Streams /\ stream' = stream /\ echoed' \in BOOLEAN
      /\ sent' = [sent EXCEPT ![c] = n] /\ chunk' = Append(earlier, c)
      /\ sent \in [DOMAIN stream.calls -> Int] /\ chunk \in Seq(DOMAIN stream.calls)
      /\ \A d \in DOMAIN sent : sent[d] = Unsent \/ sent[d] \in 0..Len(Call(d).text)
  BY DEF Taking, TypeInv
<1>3. PICK w : w = Len(Call(c).text)
  OBVIOUS
<1>4. w \in Nat /\ SoFar(c) \in 0..w /\ n \in SoFar(c)..w
  <2>1. Call(c).text \in Text
    BY <1>2, StreamFacts
  <2>2. Len(Call(c).text) \in Nat
    BY <2>1 DEF Text
  <2>3. QED
    BY <1>3, <2>2, FragmentFacts
<1>5. n \in Int /\ n \in 0..w
  BY <1>4
<1>6. sent' \in [DOMAIN stream.calls -> Int]
  BY <1>2, <1>5
<1>7. \A d \in DOMAIN sent' : sent'[d] = Unsent \/ sent'[d] \in 0..Len(Call(d)'.text)
  BY <1>1, <1>2, <1>3, <1>5
<1>8. chunk' \in Seq(DOMAIN stream.calls)
  <2>1. earlier \in Seq(DOMAIN stream.calls) /\ c \in DOMAIN stream.calls
    BY <1>2, EmptySeq
  <2>2. QED
    BY <1>2, <2>1, AppendProperties
<1>9. QED
  BY <1>1, <1>2, <1>6, <1>7, <1>8 DEF TypeInv

LEMMA TakeSlots ==
  ASSUME TypeInv, RouteInv, NEW c \in DOMAIN sent, NEW earlier \in {chunk, <<>>},
         NEW n \in Onward(c), NEW k, NEW x \in CallRecords, Taking(c, earlier, n, k, x)
  PROVE  SlotInv'
<1>1. /\ Len(raw') = Len(order') /\ DOMAIN order' = DOMAIN raw' /\ DOMAIN raw \subseteq DOMAIN raw'
      /\ k \in DOMAIN raw' /\ order'[k] = c /\ raw'[k] = x
      /\ \A j \in DOMAIN raw' \ {k} : j \in DOMAIN raw /\ raw'[j] = raw[j] /\ order'[j] = order[j]
      /\ DOMAIN sent' = DOMAIN sent /\ sent'[c] = n
      /\ \A d \in DOMAIN sent \ {c} : sent'[d] = sent[d]
      /\ \A d \in DOMAIN sent : Call(d)' = Call(d)
  BY TakingFacts
<1>2. /\ DOMAIN sent = DOMAIN stream.calls /\ DOMAIN order = DOMAIN raw
      /\ \A j \in DOMAIN raw : order[j] \in DOMAIN stream.calls /\ sent[order[j]] # Unsent
  BY SlotFacts DEF RouteInv
<1>3. /\ \A d \in DOMAIN sent : sent[d] # Unsent <=> \E j \in DOMAIN order : order[j] = d
      /\ \A j, l \in DOMAIN order : order[j] = order[l] => j = l
      /\ \A j \in DOMAIN raw : raw[j].id = Call(order[j]).id /\ raw[j].name = Call(order[j]).name
  BY DEF RouteInv, SlotInv
<1>4. /\ SlotOf(c, k) /\ x.id = Call(c).id /\ x.name = Call(c).name
  BY DEF Taking
<1>5. \A j \in DOMAIN raw \ {k} : order[j] # c
  BY <1>2, <1>3, <1>4 DEF SlotOf
<1>6. sent'[c] # Unsent
  <2>1. PICK w : w = Len(Call(c).text)
    OBVIOUS
  <2>2. w \in Nat
    BY <2>1, StreamFacts DEF TypeInv, Text
  <2>3. SoFar(c) \in 0..w /\ n \in SoFar(c)..w
    BY <2>1, FragmentFacts
  <2>4. n \in Nat
    BY <2>2, <2>3
  <2>5. QED
    BY <1>1, <2>4 DEF Unsent
<1>7. ASSUME NEW d \in DOMAIN sent'
      PROVE  sent'[d] # Unsent <=> \E j \in DOMAIN order' : order'[j] = d
  <2>1. CASE d = c
    BY <1>1, <1>6, <2>1
  <2>2. CASE d # c
    <3>1. sent'[d] # Unsent <=> \E j \in DOMAIN order : order[j] = d
      BY <1>1, <1>3, <1>7, <2>2
    <3>2. \A j \in DOMAIN order : order[j] = d => j # k
      BY <1>2, <1>4, <2>2, SlotFacts DEF SlotOf, RouteInv
    <3>3. QED
      BY <1>1, <1>2, <2>2, <3>1, <3>2
  <2>3. QED
    BY <2>1, <2>2
<1>8. \A j, l \in DOMAIN order' : order'[j] = order'[l] => j = l
  BY <1>1, <1>2, <1>3, <1>5
<1>9. ASSUME NEW j \in DOMAIN raw'
      PROVE  raw'[j].id = Call(order'[j]).id /\ raw'[j].name = Call(order'[j]).name
  <2>1. CASE j = k
    BY <1>1, <1>4, <2>1
  <2>2. CASE j # k
    <3>1. /\ j \in DOMAIN raw /\ raw'[j] = raw[j] /\ order'[j] = order[j] /\ order[j] \in DOMAIN sent
      BY <1>1, <1>2, <2>2
    <3>2. QED
      BY <1>1, <1>3, <3>1
  <2>3. QED
    BY <2>1, <2>2
<1>10. \A j \in DOMAIN raw' :
         raw'[j].id = stream'.calls[order'[j]].id /\ raw'[j].name = stream'.calls[order'[j]].name
  BY <1>9 DEF Call, Taking
<1>11. QED
  BY <1>1, <1>7, <1>8, <1>10 DEF SlotInv, Call
LEMMA TakeLookup ==
  ASSUME TypeInv, RouteInv, NEW c \in DOMAIN sent, NEW earlier \in {chunk, <<>>},
         NEW n \in Onward(c), NEW k, NEW x \in CallRecords, Taking(c, earlier, n, k, x)
  PROVE  LookupInv'
<1>1. /\ k \in DOMAIN raw' /\ raw'[k] = x /\ DOMAIN raw \subseteq DOMAIN raw'
      /\ \A j \in DOMAIN raw' \ {k} : j \in DOMAIN raw /\ raw'[j] = raw[j] /\ order'[j] = order[j]
  BY TakingFacts
<1>2. /\ DOMAIN order = DOMAIN raw
      /\ \A j \in DOMAIN raw :
           /\ order[j] \in DOMAIN stream.calls /\ raw[j].id = Call(order[j]).id
           /\ sent[order[j]] # Unsent
      /\ c \in DOMAIN stream.calls
  BY SlotFacts DEF RouteInv
<1>3. /\ \A p \in DOMAIN positions : positions[p] \in DOMAIN raw
      /\ \A i \in DOMAIN slots : slots[i] \in DOMAIN raw /\ raw[slots[i]].id = i
      /\ \A j \in DOMAIN raw :
           raw[j].id # NoId => raw[j].id \in DOMAIN slots /\ slots[raw[j].id] = j
  BY DEF RouteInv, LookupInv
<1>4. PICK p : p = Len(earlier) + 1
  OBVIOUS
<1>5. /\ SlotOf(c, k) /\ x.id = Call(c).id /\ (k \in DOMAIN raw => x.id = raw[k].id)
      /\ positions' = Updated(positions, p, k)
      /\ slots' = IF Call(c).id = NoId THEN slots ELSE Updated(slots, Call(c).id, k)
  BY <1>4 DEF Taking
<1>6. \A q \in DOMAIN positions' : positions'[q] \in DOMAIN raw'
  <2>1. /\ DOMAIN positions' = DOMAIN positions \cup {p} /\ positions'[p] = k
        /\ \A q \in DOMAIN positions : q # p => positions'[q] = positions[q]
    BY <1>5 DEF Updated
  <2>2. QED
    BY <1>1, <1>3, <2>1
<1>7. \A j \in DOMAIN raw : raw'[j].id = raw[j].id
  BY <1>1, <1>5
<1>8. CASE Call(c).id = NoId
  <2>1. slots' = slots
    BY <1>5, <1>8
  <2>2. \A i \in DOMAIN slots' : slots'[i] \in DOMAIN raw' /\ raw'[slots'[i]].id = i
    BY <1>1, <1>3, <1>7, <2>1
  <2>3. \A j \in DOMAIN raw' :
          raw'[j].id # NoId => raw'[j].id \in DOMAIN slots' /\ slots'[raw'[j].id] = j
    BY <1>1, <1>3, <1>5, <1>8, <2>1
  <2>4. QED
    BY <1>6, <2>2, <2>3 DEF LookupInv
<1>9. CASE Call(c).id # NoId
  <2>1. PICK i : i = Call(c).id
    OBVIOUS
  <2>2. /\ DOMAIN slots' = DOMAIN slots \cup {i} /\ slots'[i] = k
        /\ \A z \in DOMAIN slots : z # i => slots'[z] = slots[z]
    BY <1>5, <1>9, <2>1 DEF Updated
  <2>3. x.id = i
    BY <1>5, <2>1
  <2>4. ASSUME NEW z \in DOMAIN slots' PROVE slots'[z] \in DOMAIN raw' /\ raw'[slots'[z]].id = z
    <3>1. CASE z = i
      BY <1>1, <2>2, <2>3, <3>1
    <3>2. CASE z # i
      <4>1. slots'[z] = slots[z] /\ slots[z] \in DOMAIN raw /\ raw[slots[z]].id = z
        BY <1>3, <2>2, <2>4, <3>2
      <4>2. QED
        BY <1>1, <1>7, <4>1
    <3>3. QED
      BY <3>1, <3>2
  <2>5. ASSUME NEW j \in DOMAIN raw', raw'[j].id # NoId
        PROVE  raw'[j].id \in DOMAIN slots' /\ slots'[raw'[j].id] = j
    <3>1. CASE j = k
      BY <1>1, <2>2, <2>3, <3>1
    <3>2. CASE j # k
      <4>1. j \in DOMAIN raw /\ raw'[j].id = raw[j].id
        BY <1>1, <3>2
      <4>2. raw[j].id \in DOMAIN slots /\ slots[raw[j].id] = j
        BY <1>3, <2>5, <4>1
      <4>3. raw[j].id # i
        <5>1. raw[j].id = i => order[j] = c
          BY <1>2, <2>1, <4>1, StreamFacts DEF TypeInv
        <5>2. order[j] = c => sent[c] # Unsent
          BY <1>2, <4>1
        <5>3. order[j] = c => order[k] = c /\ k \in DOMAIN raw
          BY <1>5, <5>2 DEF SlotOf
        <5>4. \A l, m \in DOMAIN order : order[l] = order[m] => l = m
          BY DEF RouteInv, SlotInv
        <5>5. QED
          BY <1>2, <3>2, <4>1, <5>1, <5>3, <5>4
      <4>4. QED
        BY <2>2, <4>1, <4>2, <4>3
    <3>3. QED
      BY <3>1, <3>2
  <2>6. QED
    BY <1>6, <2>4, <2>5 DEF LookupInv
<1>10. QED
  BY <1>8, <1>9

LEMMA TakeTurns ==
  ASSUME TypeInv, RouteInv, NEW c \in DOMAIN sent, NEW earlier \in {chunk, <<>>},
         NEW n \in Onward(c), NEW k, NEW x \in CallRecords, Taking(c, earlier, n, k, x)
  PROVE  TurnsInv'
<1> SUFFICES ASSUME stream.layout = "turns" PROVE TurnsInv'
  BY DEF Taking, TurnsInv
<1>1. /\ Len(raw') = Len(order') /\ DOMAIN raw' = 1..Len(raw') /\ DOMAIN order' = DOMAIN raw'
      /\ Len(raw') \in Nat /\ k \in DOMAIN raw' /\ order'[k] = c
      /\ Len(raw') = IF sent[c] = Unsent THEN Len(raw) + 1 ELSE Len(raw)
      /\ sent[c] = Unsent => k = Len(raw')
      /\ \A j \in DOMAIN raw' \ {k} : j \in DOMAIN raw /\ order'[j] = order[j]
      /\ DOMAIN sent' = DOMAIN sent /\ sent'[c] = n
      /\ \A d \in DOMAIN sent \ {c} : sent'[d] = sent[d]
      /\ n \in SoFar(c)..Len(Call(c).text)
  BY TakingFacts
<1>2. /\ DOMAIN order = 1..Len(raw) /\ DOMAIN raw = 1..Len(raw) /\ Len(raw) \in Nat
      /\ DOMAIN sent = DOMAIN stream.calls
      /\ \A j \in DOMAIN raw : order[j] \in DOMAIN stream.calls /\ sent[order[j]] # Unsent
  BY SlotFacts DEF RouteInv
<1>3. /\ earlier = <<>> /\ Open(c) /\ \A d \in 1..(c - 1) : ~Open(d)
      /\ SlotOf(c, k) /\ positions' = Updated(positions, Len(earlier) + 1, k)
      /\ stream' = stream
  BY DEF Taking, Joins
<1>4. /\ \A d \in DOMAIN sent : sent[d] # Unsent => \A b \in 1..(d - 1) : ~Open(b)
      /\ \A j \in DOMAIN order : j < Len(order) => ~Open(order[j])
      /\ Len(order) = Len(raw) /\ \A j, l \in DOMAIN order : order[j] = order[l] => j = l
  BY DEF RouteInv, TurnsInv, SlotInv
<1>5. DOMAIN sent = 1..Len(stream.calls) /\ Len(stream.calls) \in Nat
  BY <1>2, StreamFacts DEF TypeInv
<1>6. ASSUME NEW d \in DOMAIN sent, ~Open(d) PROVE ~(sent'[d] < Len(Call(d).text))
  <2>1. d # c
    BY <1>3, <1>6
  <2>2. sent'[d] = sent[d]
    BY <1>1, <2>1
  <2>3. QED
    BY <1>6, <2>2 DEF Open
<1>7. k = Len(raw')
  <2>1. CASE sent[c] = Unsent
    BY <1>1, <2>1
  <2>2. CASE sent[c] # Unsent
    <3>1. k \in DOMAIN order /\ order[k] = c
      BY <1>2, <1>3, <2>2 DEF SlotOf
    <3>2. ~(k < Len(raw))
      BY <1>3, <1>4, <3>1
    <3>3. QED
      BY <1>1, <1>2, <2>2, <3>1, <3>2
  <2>3. QED
    BY <2>1, <2>2
<1>8. ASSUME NEW d \in DOMAIN sent, sent'[d] # Unsent, NEW b \in 1..(d - 1)
      PROVE  ~(sent'[b] < Len(Call(b).text))
  <2>1. ~Open(b)
    <3>1. CASE d = c
      BY <1>3, <1>8, <3>1
    <3>2. CASE d # c
      BY <1>1, <1>4, <1>8, <3>2
    <3>3. QED
      BY <3>1, <3>2
  <2>2. b \in DOMAIN sent
    BY <1>5
  <2>3. QED
    BY <1>6, <2>1, <2>2
<1>9. ASSUME NEW j \in DOMAIN order', j < Len(order')
      PROVE  ~(sent'[order'[j]] < Len(Call(order'[j]).text))
  <2>1. j # k
    BY <1>1, <1>7, <1>9
  <2>2. /\ j \in DOMAIN raw /\ order'[j] = order[j] /\ order[j] \in DOMAIN sent
        /\ sent[order[j]] # Unsent
    BY <1>1, <1>2, <2>1
  <2>3. PICK d \in DOMAIN sent : d = order[j]
    BY <2>2
  <2>4. d # c
    <3>1. d = c => k \in DOMAIN order /\ order[k] = c
      BY <1>2, <1>3, <2>2, <2>3 DEF SlotOf
    <3>2. QED
      BY <1>2, <1>4, <2>1, <2>2, <2>3, <3>1
  <2>5. d < c
    <3>1. ~(c \in 1..(d - 1))
      BY <1>3, <1>4, <2>2, <2>3
    <3>2. QED
      BY <1>5, <2>4, <3>1
  <2>6. ~Open(d)
    <3>1. d \in 1..(c - 1)
      BY <1>5, <2>5
    <3>2. QED
      BY <1>3, <3>1
  <2>7. QED
    BY <1>6, <2>2, <2>3, <2>6
<1>10. 1 \in DOMAIN positions' /\ positions'[1] = Len(raw')
  <2>1. positions' = Updated(positions, 1, k)
    <3>1. Len(earlier) + 1 = 1
      BY <1>3, EmptySeq
    <3>2. QED
      BY <1>3, <3>1
  <2>2. DOMAIN Updated(positions, 1, k) = DOMAIN positions \cup {1} /\ Updated(positions, 1, k)[1] = k
    BY DEF Updated
  <2>3. QED
    BY <1>7, <2>1, <2>2
<1>11. \A d \in DOMAIN sent' : sent'[d] # Unsent =>
         \A b \in 1..(d - 1) : ~(sent'[b] < Len(stream'.calls[b].text))
  BY <1>1, <1>3, <1>8 DEF Call
<1>12. \A j \in DOMAIN order' : j < Len(order') =>
         ~(sent'[order'[j]] < Len(stream'.calls[order'[j]].text))
  BY <1>3, <1>9 DEF Call
<1>13. QED
  BY <1>10, <1>11, <1>12 DEF TurnsInv, Open, Call
LEMMA TakeAligned ==
  ASSUME TypeInv, RouteInv, NEW c \in DOMAIN sent, NEW earlier \in {chunk, <<>>},
         NEW n \in Onward(c), NEW k, NEW x \in CallRecords, Taking(c, earlier, n, k, x)
  PROVE  AlignedInv'
<1> SUFFICES ASSUME stream.layout = "aligned" PROVE AlignedInv'
  BY DEF Taking, AlignedInv
<1>1. /\ Len(raw') = Len(order') /\ DOMAIN order' = DOMAIN raw' /\ order'[k] = c
      /\ Len(raw') = IF sent[c] = Unsent THEN Len(raw) + 1 ELSE Len(raw)
      /\ \A j \in DOMAIN raw' \ {k} : j \in DOMAIN raw /\ order'[j] = order[j]
  BY TakingFacts
<1>2. /\ DOMAIN order = 1..Len(raw) /\ DOMAIN raw = 1..Len(raw) /\ Len(raw) \in Nat
      /\ DOMAIN sent = DOMAIN stream.calls
      /\ \A j \in DOMAIN raw : sent[order[j]] # Unsent
  BY SlotFacts DEF RouteInv
<1>3. DOMAIN sent = 1..Len(stream.calls) /\ Len(stream.calls) \in Nat
  BY <1>2, StreamFacts DEF TypeInv
<1>4. /\ c = Len(earlier) + 1 /\ SlotOf(c, k)
      /\ positions' = Updated(positions, c, k)
      /\ stream' = stream /\ chunk' = Append(earlier, c)
      /\ earlier = <<>> => Len(chunk) \in {0, Len(stream.calls)}
  BY DEF Taking, Joins, ChunkEnds
<1>5. /\ \A j \in DOMAIN order : order[j] = j /\ j \in DOMAIN positions /\ positions[j] = j
      /\ Len(raw) = Len(stream.calls) \/ Len(chunk) = Len(raw)
  BY DEF RouteInv, AlignedInv, SlotInv
<1>6. Len(earlier) \in Nat /\ Len(chunk) \in Nat /\ Len(chunk') = c
  <2>1. /\ chunk \in Seq(DOMAIN stream.calls) /\ earlier \in Seq(DOMAIN stream.calls)
        /\ c \in DOMAIN stream.calls
    BY <1>2, EmptySeq DEF TypeInv
  <2>2. Len(chunk') = Len(earlier) + 1
    BY <1>4, <2>1, AppendProperties
  <2>3. QED
    BY <1>4, <2>1, <2>2, LenProperties
<1>7. Len(raw) # Len(stream.calls) => Len(earlier) = Len(raw)
  <2>1. earlier = <<>> => Len(earlier) = 0
    BY EmptySeq
  <2>2. QED
    BY <1>4, <1>5, <2>1
<1>8. k = c
  <2>1. CASE sent[c] = Unsent
    <3>1. c \notin DOMAIN order
      BY <1>2, <1>5, <2>1
    <3>2. Len(raw) # Len(stream.calls)
      BY <1>2, <1>3, <3>1
    <3>3. k = Len(raw) + 1
      BY <2>1, <1>4 DEF SlotOf
    <3>4. QED
      BY <1>4, <1>7, <3>2, <3>3
  <2>2. CASE sent[c] # Unsent
    BY <1>2, <1>4, <1>5, <2>2 DEF SlotOf
  <2>3. QED
    BY <2>1, <2>2
<1>9. DOMAIN positions' = DOMAIN positions \cup {c} /\ positions'[c] = c
      /\ \A j \in DOMAIN positions : j # c => positions'[j] = positions[j]
  BY <1>4, <1>8 DEF Updated
<1>10. \A j \in DOMAIN order' : order'[j] = j /\ j \in DOMAIN positions' /\ positions'[j] = j
  BY <1>1, <1>2, <1>5, <1>8, <1>9
<1>11. Len(order') = Len(stream'.calls) \/ Len(chunk') = Len(order')
  <2>1. CASE sent[c] = Unsent
    <3>1. k = Len(raw) + 1
      BY <2>1, <1>4 DEF SlotOf
    <3>2. QED
      BY <1>1, <1>6, <1>8, <2>1, <3>1
  <2>2. CASE sent[c] # Unsent
    <3>1. c \in DOMAIN raw
      BY <1>4, <1>8, <2>2 DEF SlotOf
    <3>2. Len(raw) = Len(stream.calls)
      BY <1>2, <1>4, <1>6, <1>7, <3>1
    <3>3. QED
      BY <1>1, <1>4, <2>2, <3>2
  <2>3. QED
    BY <2>1, <2>2
<1>12. QED
  BY <1>10, <1>11 DEF AlignedInv

LEMMA KeptGrows ==
  ASSUME NEW c, NEW text, NEW n, NEW e \in BOOLEAN, NEW f \in BOOLEAN, e => f,
         Kept(c, text, n, e)
  PROVE  Kept(c, text, n, f)
BY DEF Kept, Holds

LEMMA TakeText ==
  ASSUME TypeInv, RouteInv, TextInv, NEW c \in DOMAIN sent, NEW earlier \in {chunk, <<>>},
         NEW n \in Onward(c), NEW k, NEW x \in CallRecords, Taking(c, earlier, n, k, x)
  PROVE  TextInv'
<1>1. /\ order'[k] = c /\ raw'[k] = x
      /\ \A j \in DOMAIN raw' \ {k} : j \in DOMAIN raw /\ raw'[j] = raw[j] /\ order'[j] = order[j]
      /\ sent'[c] = n /\ \A d \in DOMAIN sent \ {c} : sent'[d] = sent[d]
  BY TakingFacts
<1>2. /\ DOMAIN order = DOMAIN raw /\ DOMAIN sent = DOMAIN stream.calls
      /\ \A j \in DOMAIN raw : order[j] \in DOMAIN stream.calls /\ sent[order[j]] # Unsent
  BY SlotFacts DEF RouteInv
<1>3. /\ Kept(c, x.text, n, echoed') /\ SlotOf(c, k) /\ stream' = stream
      /\ echoed \in BOOLEAN /\ echoed' \in BOOLEAN /\ (echoed => echoed')
  BY DEF Taking, TypeInv
<1>4. ASSUME NEW j \in DOMAIN raw'
      PROVE  Kept(order'[j], raw'[j].text, sent'[order'[j]], echoed')
  <2>1. CASE j = k
    BY <1>1, <1>3, <2>1
  <2>2. CASE j # k
    <3>1. /\ j \in DOMAIN raw /\ raw'[j] = raw[j] /\ order'[j] = order[j]
          /\ order[j] \in DOMAIN sent /\ sent[order[j]] # Unsent
      BY <1>1, <1>2, <2>2
    <3>2. order[j] # c
      <4>1. order[j] = c => k \in DOMAIN raw /\ order[k] = c
        BY <1>3, <3>1 DEF SlotOf
      <4>2. \A l, m \in DOMAIN order : order[l] = order[m] => l = m
        BY DEF RouteInv, SlotInv
      <4>3. QED
        BY <1>2, <2>2, <3>1, <4>1, <4>2
    <3>3. sent'[order'[j]] = sent[order[j]]
      BY <1>1, <3>1, <3>2
    <3>4. Kept(order[j], raw[j].text, sent[order[j]], echoed)
      BY <3>1 DEF TextInv
    <3>5. Kept(order[j], raw[j].text, sent[order[j]], echoed')
      BY <1>3, <3>4, KeptGrows
    <3>6. QED
      BY <3>1, <3>3, <3>5
  <2>3. QED
    BY <2>1, <2>2
<1>5. QED
  BY <1>3, <1>4 DEF TextInv, Kept, Call
-----------------------------------------------------------------------------
(* The turn. *)
LEMMA FinishedFacts ==
  ASSUME NEW calls \in Seq(CallRecords), \A i \in DOMAIN calls : calls[i].name # <<>>
  PROVE  /\ DOMAIN Finished(calls) = 1..Len(calls)
         /\ Len(Finished(calls)) = Len(calls)
         /\ \A i \in 1..Len(calls) :
              /\ Finished(calls)[i].id = IF calls[i].id = NoId THEN i ELSE calls[i].id
              /\ Finished(calls)[i].name = calls[i].name
              /\ Finished(calls)[i].arguments = Parsed(calls[i].text)
<1> DEFINE kept == {i \in DOMAIN calls : calls[i].id # NoId \/ calls[i].name # <<>> \/ calls[i].text # <<>>}
           Place(k) == CHOOSE i \in kept : Cardinality({j \in kept : j <= i}) = k
           Answered(i) == [id |-> IF calls[i].id = NoId THEN i ELSE calls[i].id,
                           name |-> calls[i].name, arguments |-> Parsed(calls[i].text)]
<1>1. Len(calls) \in Nat /\ DOMAIN calls = 1..Len(calls)
  BY LenProperties
<1>2. kept = 1..Len(calls)
  BY <1>1
<1>3. Finished(calls) = [k \in 1..Cardinality(kept) |-> Answered(Place(k))]
  BY DEF Finished
<1> HIDE DEF kept
<1>4. Cardinality(kept) = Len(calls)
  <2>1. PICK n \in Nat : n = Len(calls)
    BY <1>1
  <2>2. Cardinality(1..n) = n
    BY FS_Interval
  <2>3. QED
    BY <1>2, <2>1, <2>2
<1>5. ASSUME NEW i \in 1..Len(calls) PROVE Cardinality({j \in kept : j <= i}) = i
  <2>1. {j \in kept : j <= i} = 1..i
    BY <1>1, <1>2
  <2>2. Cardinality(1..i) = i
    BY FS_Interval
  <2>3. QED
    BY <2>1, <2>2
<1>6. ASSUME NEW k \in 1..Len(calls) PROVE Place(k) = k
  <2>1. k \in kept /\ Cardinality({j \in kept : j <= k}) = k
    BY <1>2, <1>5
  <2>2. \A i \in kept : Cardinality({j \in kept : j <= i}) = k => i = k
    BY <1>2, <1>5
  <2>3. QED
    BY <2>1, <2>2
<1> HIDE DEF Place
<1>7. /\ DOMAIN Finished(calls) = 1..Len(calls)
      /\ \A k \in 1..Len(calls) : Finished(calls)[k] = Answered(k)
  BY <1>3, <1>4, <1>6
<1>8. Len(Finished(calls)) = Len(calls)
  <2>1. PICK S : S = {Answered(k) : k \in 1..Len(calls)}
    OBVIOUS
  <2> HIDE DEF Answered
  <2>2. Finished(calls) \in [1..Len(calls) -> S]
    BY <1>3, <1>4, <1>6, <2>1
  <2>3. Finished(calls) \in Seq(S)
    BY <1>1, <2>2, SeqDef
  <2>4. /\ Len(Finished(calls)) \in Nat
        /\ DOMAIN Finished(calls) = 1..Len(Finished(calls))
    BY <2>3, LenProperties
  <2>5. QED
    BY <1>1, <1>7, <2>4
<1>9. QED
  BY <1>7, <1>8

(* A call whose arguments have all been sent. *)
LEMMA TextSent ==
  ASSUME TypeInv, SlotInv, TextInv, NEW k \in DOMAIN raw, ~Open(order[k])
  PROVE  \/ Parsed(raw[k].text) = Parsed(Call(order[k]).text)
         \/ echoed /\ Parsed(raw[k].text) = Malformed
         \/ echoed /\ Parsed(Call(order[k]).text) = Malformed
<1>1. order[k] \in DOMAIN stream.calls /\ sent[order[k]] # Unsent /\ DOMAIN sent = DOMAIN stream.calls
  BY SlotFacts
<1>2. PICK t \in Text : t = Call(order[k]).text
  BY <1>1, StreamFacts DEF TypeInv
<1>3. sent[order[k]] = Len(t)
  <2>1. Len(t) \in Nat
    BY DEF Text
  <2>2. sent[order[k]] \in 0..Len(t)
    BY <1>1, <1>2 DEF TypeInv
  <2>3. ~(sent[order[k]] < Len(t))
    BY <1>2 DEF Open
  <2>4. QED
    BY <2>1, <2>2, <2>3
<1>4. PICK e \in BOOLEAN : e = echoed
  BY DEF TypeInv
<1>5. PICK m : raw[k].text = SubSeq(t, m + 1, Len(t)) /\ Holds(t, m, Len(t), e)
  BY <1>2, <1>3, <1>4 DEF TextInv, Kept
<1>6. raw[k].text = Rest(t, m)
  BY <1>5 DEF Rest
<1>7. \/ Parsed(Rest(t, m)) = Parsed(t)
      \/ e /\ Parsed(Rest(t, m)) = Malformed
      \/ e /\ Parsed(t) = Malformed
  BY <1>5, HeldText
<1>8. QED
  BY <1>2, <1>4, <1>6, <1>7

AnswerInv ==
  /\ stage \in {"streaming", "answered", "parse_error", "invoke_error"}
  /\ turn # <<>> => stage = "answered"
  /\ CallsAreThoseSent /\ ErrorsAreEarned

LEMMA EndAnswers ==
  ASSUME TypeInv, RouteInv, TextInv, AnswerInv, End
  PROVE  AnswerInv'
<1>1. /\ Len(raw) \in Nat /\ DOMAIN raw = 1..Len(raw) /\ DOMAIN order = 1..Len(raw)
      /\ DOMAIN sent = DOMAIN stream.calls /\ Len(order) = Len(raw)
      /\ \A k \in DOMAIN raw :
           order[k] \in DOMAIN stream.calls /\ raw[k].id = Call(order[k]).id /\ sent[order[k]] # Unsent
  BY SlotFacts DEF RouteInv, SlotInv
<1>2. \A k \in DOMAIN raw : raw[k].name = Call(order[k]).name /\ Call(order[k]).name # <<>>
  BY <1>1, StreamFacts DEF TypeInv, RouteInv, SlotInv
<1>3. PICK calls : calls = Finished(raw)
  OBVIOUS
<1>4. /\ DOMAIN calls = DOMAIN raw /\ Len(calls) = Len(raw)
      /\ \A i \in DOMAIN raw :
           /\ calls[i].id = IF raw[i].id = NoId THEN i ELSE raw[i].id
           /\ calls[i].name = raw[i].name
           /\ calls[i].arguments = Parsed(raw[i].text)
  <2>1. PICK s \in Seq(CallRecords) : s = raw
    BY DEF TypeInv
  <2>2. \A i \in DOMAIN s : s[i].name # <<>>
    BY <1>2, <2>1
  <2>3. /\ DOMAIN Finished(s) = 1..Len(s) /\ Len(Finished(s)) = Len(s)
        /\ \A i \in 1..Len(s) :
             /\ Finished(s)[i].id = IF s[i].id = NoId THEN i ELSE s[i].id
             /\ Finished(s)[i].name = s[i].name
             /\ Finished(s)[i].arguments = Parsed(s[i].text)
    BY <2>2, FinishedFacts
  <2>4. QED
    BY <1>1, <1>3, <2>1, <2>3
<1>5. \A k \in DOMAIN raw :
        \/ calls[k].arguments = Parsed(Call(order[k]).text)
        \/ echoed /\ calls[k].arguments = Malformed
        \/ echoed /\ Parsed(Call(order[k]).text) = Malformed
  <2>1. \A k \in DOMAIN raw : ~Open(order[k])
    BY <1>1 DEF End
  <2>2. \A k \in DOMAIN raw :
          \/ Parsed(raw[k].text) = Parsed(Call(order[k]).text)
          \/ echoed /\ Parsed(raw[k].text) = Malformed
          \/ echoed /\ Parsed(Call(order[k]).text) = Malformed
    BY <2>1, TextSent DEF RouteInv
  <2>3. QED
    BY <1>4, <2>2
<1>6. /\ turn' = IF \E i \in DOMAIN calls : calls[i].arguments = Malformed THEN <<>> ELSE calls
      /\ stage' = IF \E i \in DOMAIN calls : calls[i].arguments = Malformed THEN "parse_error" ELSE "answered"
      /\ stream' = stream /\ order' = order /\ echoed' = echoed
  BY <1>3 DEF End, Answer
<1>7. CASE \E i \in DOMAIN calls : calls[i].arguments = Malformed
  <2>1. stage' = "parse_error" /\ turn' = <<>>
    BY <1>6, <1>7
  <2>2. echoed \/ \E c \in DOMAIN stream.calls : Parsed(Call(c).text) = Malformed
    BY <1>1, <1>4, <1>5, <1>7
  <2>3. echoed' \/ \E c \in DOMAIN stream'.calls : Parsed(stream'.calls[c].text) = Malformed
    BY <1>6, <2>2 DEF Call
  <2>4. CallsAreThoseSent'
    BY <2>1 DEF CallsAreThoseSent
  <2>5. ErrorsAreEarned'
    BY <2>3 DEF ErrorsAreEarned, Call
  <2>6. QED
    BY <2>1, <2>4, <2>5 DEF AnswerInv
<1>8. CASE ~\E i \in DOMAIN calls : calls[i].arguments = Malformed
  <2>1. stage' = "answered" /\ turn' = calls
    BY <1>6, <1>8
  <2>2. ASSUME NEW i \in DOMAIN calls
        PROVE  /\ calls[i].name = Call(order[i]).name
               /\ \/ calls[i].arguments = Parsed(Call(order[i]).text)
                  \/ echoed /\ Parsed(Call(order[i]).text) = Malformed
               /\ calls[i].id = IF stream.ids = "never" THEN i ELSE Call(order[i]).id
    <3>1. Call(order[i]).id = NoId <=> stream.ids = "never"
      BY <1>1, <1>4, StreamFacts DEF TypeInv
    <3>2. QED
      BY <1>1, <1>2, <1>4, <1>5, <1>8, <3>1
  <2>3. CallsAreThoseSent'
    <3>1. Len(turn') = Len(order') /\ DOMAIN turn' = DOMAIN calls
      BY <1>1, <1>4, <1>6, <2>1
    <3>2. \A i \in DOMAIN turn' :
            /\ turn'[i].name = stream'.calls[order'[i]].name
            /\ \/ turn'[i].arguments = Parsed(stream'.calls[order'[i]].text)
               \/ echoed' /\ Parsed(stream'.calls[order'[i]].text) = Malformed
            /\ turn'[i].id = IF stream'.ids = "never" THEN i ELSE stream'.calls[order'[i]].id
      BY <1>6, <2>1, <2>2 DEF Call
    <3>3. QED
      BY <3>1, <3>2 DEF CallsAreThoseSent, Call
  <2>4. ErrorsAreEarned'
    BY <2>1 DEF ErrorsAreEarned
  <2>5. QED
    BY <2>1, <2>3, <2>4 DEF AnswerInv
<1>9. QED
  BY <1>7, <1>8

LEMMA ResultAnswers ==
  ASSUME TypeInv, AnswerInv, Result
  PROVE  AnswerInv'
<1>1. PICK calls : calls = [i \in DOMAIN stream.calls |->
                              [id |-> Call(i).id, name |-> Call(i).name, arguments |-> Parsed(Call(i).text)]]
  OBVIOUS
<1>2. /\ turn' = IF \E i \in DOMAIN calls : calls[i].arguments = Malformed THEN <<>> ELSE calls
      /\ stage' = IF \E i \in DOMAIN calls : calls[i].arguments = Malformed THEN "parse_error" ELSE "answered"
      /\ stream' = stream /\ order' = [i \in DOMAIN stream.calls |-> i] /\ echoed' = echoed
      /\ stream.layout = "result"
  BY <1>1 DEF Result, Answer
<1>3. /\ DOMAIN calls = DOMAIN stream.calls
      /\ \A i \in DOMAIN stream.calls :
           /\ calls[i].id = Call(i).id /\ calls[i].name = Call(i).name
           /\ calls[i].arguments = Parsed(Call(i).text)
  BY <1>1
<1>4. DOMAIN stream.calls = 1..Len(stream.calls) /\ Len(stream.calls) \in Nat /\ stream.ids = "every"
  BY <1>2, StreamFacts DEF TypeInv
<1>5. CASE \E i \in DOMAIN calls : calls[i].arguments = Malformed
  <2>1. stage' = "parse_error" /\ turn' = <<>>
    BY <1>2, <1>5
  <2>2. \E c \in DOMAIN stream'.calls : Parsed(stream'.calls[c].text) = Malformed
    BY <1>2, <1>3, <1>5 DEF Call
  <2>3. CallsAreThoseSent'
    BY <2>1 DEF CallsAreThoseSent
  <2>4. ErrorsAreEarned'
    BY <2>2 DEF ErrorsAreEarned, Call
  <2>5. QED
    BY <2>1, <2>3, <2>4 DEF AnswerInv
<1>6. CASE ~\E i \in DOMAIN calls : calls[i].arguments = Malformed
  <2>1. stage' = "answered" /\ turn' = calls
    BY <1>2, <1>6
  <2>2. Len(turn') = Len(order')
    <3>1. PICK n \in Nat : n = Len(stream.calls)
      BY <1>4
    <3>2. order' \in [1..n -> Int]
      BY <1>2, <1>4, <3>1
    <3>3. PICK S : S = {calls[i] : i \in DOMAIN calls}
      OBVIOUS
    <3>4. turn' \in [1..n -> S]
      <4>1. calls = [i \in DOMAIN calls |-> calls[i]]
        BY <1>1
      <4>2. QED
        BY <1>3, <1>4, <2>1, <3>1, <3>3, <4>1
    <3>5. order' \in Seq(Int) /\ turn' \in Seq(S)
      BY <3>2, <3>4, SeqDef
    <3>6. /\ DOMAIN order' = 1..Len(order') /\ Len(order') \in Nat /\ DOMAIN order' = 1..n
          /\ DOMAIN turn' = 1..Len(turn') /\ Len(turn') \in Nat /\ DOMAIN turn' = 1..n
      BY <3>2, <3>4, <3>5, LenProperties
    <3>7. PICK a \in Nat, b \in Nat : a = Len(order') /\ b = Len(turn')
      BY <3>6
    <3>8. 1..a = 1..n /\ 1..b = 1..n
      BY <3>6, <3>7
    <3>9. a = n /\ b = n
      BY <3>8
    <3>10. QED
      BY <3>7, <3>9
  <2>3. CallsAreThoseSent'
    <3>1. \A i \in DOMAIN turn' :
            /\ turn'[i].name = stream'.calls[order'[i]].name
            /\ turn'[i].arguments = Parsed(stream'.calls[order'[i]].text)
            /\ turn'[i].id = IF stream'.ids = "never" THEN i ELSE stream'.calls[order'[i]].id
      BY <1>2, <1>3, <1>4, <2>1 DEF Call
    <3>2. QED
      BY <2>2, <3>1 DEF CallsAreThoseSent, Call
  <2>4. ErrorsAreEarned'
    BY <2>1 DEF ErrorsAreEarned
  <2>5. QED
    BY <2>1, <2>3, <2>4 DEF AnswerInv
<1>7. QED
  BY <1>5, <1>6
-----------------------------------------------------------------------------
(* The inductive invariant: lookups and types always hold; the routing and  *)
(* the texts matter as long as fragments come.                              *)
IInv ==
  /\ TypeInv /\ LookupInv /\ AnswerInv
  /\ stage = "streaming" => RouteInv /\ TextInv

LEMMA InitIInv == Init => IInv
<1> SUFFICES ASSUME Init PROVE IInv
  OBVIOUS
<1>1. /\ stream \in Streams /\ sent = [c \in DOMAIN stream.calls |-> Unsent] /\ chunk = <<>>
      /\ raw = <<>> /\ positions = <<>> /\ slots = <<>>
      /\ stage = "streaming" /\ turn = <<>> /\ order = <<>> /\ echoed = FALSE
  BY DEF Init
<1>2. /\ <<>> \in Seq(CallRecords) /\ <<>> \in Seq(DOMAIN stream.calls) /\ Len(<<>>) = 0
      /\ DOMAIN <<>> = {}
  <2>1. \A S : <<>> \in Seq(S)
    BY EmptySeq
  <2>2. Len(<<>>) = 0
    BY EmptySeq
  <2>3. DOMAIN <<>> = {}
    OBVIOUS
  <2>4. QED
    BY <2>1, <2>2, <2>3
<1>3. TypeInv
  <2>1. sent \in [DOMAIN stream.calls -> Int] /\ \A c \in DOMAIN sent : sent[c] = Unsent
    BY <1>1 DEF Unsent
  <2>2. QED
    BY <1>1, <1>2, <2>1 DEF TypeInv
<1>4. LookupInv
  BY <1>1, <1>2 DEF LookupInv
<1>5. AnswerInv
  BY <1>1 DEF AnswerInv, CallsAreThoseSent, ErrorsAreEarned
<1>6. SlotInv
  BY <1>1, <1>2 DEF SlotInv
<1>7. TurnsInv
  BY <1>1, <1>2 DEF TurnsInv
<1>8. AlignedInv
  BY <1>1, <1>2 DEF AlignedInv
<1>9. TextInv
  BY <1>1, <1>2 DEF TextInv
<1>10. QED
  BY <1>3, <1>4, <1>5, <1>6, <1>7, <1>8, <1>9 DEF IInv, RouteInv

LEMMA TakeIInv == IInv /\ Take => IInv'
<1> SUFFICES ASSUME IInv, Take PROVE IInv'
  OBVIOUS
<1>1. TypeInv /\ RouteInv /\ TextInv /\ AnswerInv
  BY DEF IInv, Take
<1>2. PICK c \in DOMAIN sent, earlier \in {chunk, <<>>} :
        \E n \in Onward(c), x \in CallRecords : \E k : Taking(c, earlier, n, k, x)
  BY <1>1, TakeFacts
<1>3. PICK n \in Onward(c), x \in CallRecords : \E k : Taking(c, earlier, n, k, x)
  BY <1>2
<1>4. PICK k : Taking(c, earlier, n, k, x)
  BY <1>3
<1>5. TypeInv'
  BY <1>1, <1>4, TakeType
<1>6. SlotInv'
  BY <1>1, <1>4, TakeSlots
<1>7. LookupInv'
  BY <1>1, <1>4, TakeLookup
<1>8. TurnsInv'
  BY <1>1, <1>4, TakeTurns
<1>9. AlignedInv'
  BY <1>1, <1>4, TakeAligned
<1>10. TextInv'
  BY <1>1, <1>4, TakeText
<1>11. AnswerInv'
  BY <1>1, <1>4 DEF Taking, AnswerInv, CallsAreThoseSent, ErrorsAreEarned
<1>12. QED
  BY <1>5, <1>6, <1>7, <1>8, <1>9, <1>10, <1>11 DEF IInv, RouteInv

(* Nothing but the answer changes at the end. *)
LEMMA EndIInv ==
  ASSUME IInv, End \/ Result \/ Break
  PROVE  IInv'
<1>1. /\ stream' = stream /\ sent' = sent /\ chunk' = chunk /\ raw' = raw
      /\ positions' = positions /\ slots' = slots /\ echoed' = echoed
      /\ stage = "streaming" /\ stage' # "streaming"
  BY DEF End, Result, Break, Answer
<1>2. TypeInv /\ LookupInv /\ AnswerInv /\ RouteInv /\ TextInv
  BY <1>1 DEF IInv
<1>3. order' \in Seq(DOMAIN stream.calls)
  <2>1. CASE End \/ Break
    BY <1>2, <2>1 DEF End, Break, TypeInv
  <2>2. CASE Result
    <3>1. PICK n \in Nat : DOMAIN stream.calls = 1..n
      BY <1>2, StreamFacts DEF TypeInv
    <3>2. order' = [i \in 1..n |-> i]
      BY <2>2, <3>1 DEF Result
    <3>3. order' \in [1..n -> 1..n]
      BY <3>2
    <3>4. order' \in Seq(1..n)
      BY <3>3, SeqDef
    <3>5. QED
      BY <3>1, <3>4
  <2>3. QED
    BY <2>1, <2>2
<1>4. TypeInv'
  BY <1>1, <1>2, <1>3 DEF TypeInv, Call
<1>5. LookupInv'
  BY <1>1, <1>2 DEF LookupInv
<1>6. AnswerInv'
  <2>1. CASE End
    BY <1>2, <2>1, EndAnswers
  <2>2. CASE Result
    BY <1>2, <2>2, ResultAnswers
  <2>3. CASE Break
    BY <1>2, <2>3, <1>1 DEF Break, AnswerInv, CallsAreThoseSent, ErrorsAreEarned
  <2>4. QED
    BY <2>1, <2>2, <2>3
<1>7. QED
  BY <1>1, <1>4, <1>5, <1>6 DEF IInv

LEMMA NextIInv == IInv /\ [Next]_vars => IInv'
<1> SUFFICES ASSUME IInv, [Next]_vars PROVE IInv'
  OBVIOUS
<1>1. CASE Take
  BY <1>1, TakeIInv
<1>2. CASE End \/ Result \/ Break
  BY <1>2, EndIInv
<1>3. CASE UNCHANGED vars
  <2>1. /\ stream' = stream /\ sent' = sent /\ chunk' = chunk /\ raw' = raw
        /\ positions' = positions /\ slots' = slots /\ stage' = stage
        /\ turn' = turn /\ order' = order /\ echoed' = echoed
    BY <1>3 DEF vars
  <2>2. TypeInv => TypeInv'
    BY <2>1 DEF TypeInv, Call
  <2>3. LookupInv => LookupInv'
    BY <2>1 DEF LookupInv
  <2>4. AnswerInv => AnswerInv'
    BY <2>1 DEF AnswerInv, CallsAreThoseSent, ErrorsAreEarned, Call
  <2>5. SlotInv => SlotInv'
    BY <2>1 DEF SlotInv, Call
  <2>6. TurnsInv => TurnsInv'
    BY <2>1 DEF TurnsInv, Open, Call
  <2>7. AlignedInv => AlignedInv'
    BY <2>1 DEF AlignedInv
  <2>8. TextInv => TextInv'
    BY <2>1 DEF TextInv, Kept, Call
  <2>9. QED
    BY <2>1, <2>2, <2>3, <2>4, <2>5, <2>6, <2>7, <2>8 DEF IInv, RouteInv
<1>4. QED
  BY <1>1, <1>2, <1>3 DEF Next

THEOREM Invariant == Spec => []IInv
BY InitIInv, NextIInv, PTL DEF Spec

(* Every position and id that a fragment may come with leads to a call that *)
(* is there, for any number of calls.                                       *)
THEOREM TypeCorrect == Spec => []TypeOK
<1>1. IInv => TypeOK
  BY DEF IInv, LookupInv, AnswerInv, TypeOK
<1>2. QED
  BY Invariant, <1>1, PTL

(* A turn has the calls that were sent, whatever their number, names and    *)
(* texts and however the provider cut them: fragments reach their calls     *)
(* without ids, and a piece that repeats what came before never makes       *)
(* another object of a well-formed text.                                    *)
THEOREM CallsSent == Spec => []CallsAreThoseSent
<1>1. IInv => CallsAreThoseSent
  BY DEF IInv, AnswerInv
<1>2. QED
  BY Invariant, <1>1, PTL

(* Reassembly alone makes no turn fail, unless a piece repeats all that     *)
(* came before it of a call.                                                *)
THEOREM ErrorsEarned == Spec => []ErrorsAreEarned
<1>1. IInv => ErrorsAreEarned
  BY DEF IInv, AnswerInv
<1>2. QED
  BY Invariant, <1>1, PTL

(* No fragment takes an id or a token from a call. *)
THEOREM IdsKept == Spec => CallsKeepTheirIds
<1> DEFINE Kind == \A i \in DOMAIN raw :
                     /\ raw[i].id # NoId => raw'[i].id = raw[i].id
                     /\ Len(raw'[i].text) >= Len(raw[i].text)
<1>1. ASSUME IInv, Next PROVE Kind
  <2>1. CASE Take
    <3>1. TypeInv /\ RouteInv /\ TextInv
      BY <1>1, <2>1 DEF IInv, Take
    <3>2. PICK c \in DOMAIN sent, earlier \in {chunk, <<>>} :
            \E n \in Onward(c), x \in CallRecords : \E k : Taking(c, earlier, n, k, x)
      BY <2>1, <3>1, TakeFacts
    <3>3. PICK n \in Onward(c), x \in CallRecords : \E k : Taking(c, earlier, n, k, x)
      BY <3>2
    <3>4. PICK k : Taking(c, earlier, n, k, x)
      BY <3>3
    <3>5. /\ raw'[k] = x /\ DOMAIN raw \subseteq DOMAIN raw'
          /\ \A j \in DOMAIN raw' \ {k} : raw'[j] = raw[j]
      BY <3>1, <3>4, TakingFacts
    <3>6. k \in DOMAIN raw => x.id = raw[k].id /\ Len(x.text) >= Len(raw[k].text)
      BY <3>4 DEF Taking
    <3>7. \A i \in DOMAIN raw : Len(raw[i].text) \in Nat
      <4>1. \A i \in DOMAIN raw : raw[i] \in CallRecords
        BY <3>1, SlotFacts, ElementOfSeq DEF RouteInv, TypeInv
      <4>2. \A i \in DOMAIN raw : raw[i].text \in Seq(STRING)
        BY <4>1 DEF CallRecords
      <4>3. QED
        BY <4>2, LenProperties
    <3>8. QED
      BY <3>5, <3>6, <3>7
  <2>2. CASE End \/ Result \/ Break
    <3>1. raw' = raw
      BY <2>2 DEF End, Result, Break
    <3>2. \A i \in DOMAIN raw : raw[i].text \in Seq(STRING)
      <4>1. raw \in Seq(CallRecords)
        BY <1>1 DEF IInv, TypeInv
      <4>2. \A i \in DOMAIN raw : raw[i] \in CallRecords
        BY <4>1, ElementOfSeq, LenProperties
      <4>3. QED
        BY <4>2 DEF CallRecords
    <3>3. \A i \in DOMAIN raw : Len(raw[i].text) \in Nat
      BY <3>2, LenProperties
    <3>4. QED
      BY <3>1, <3>3
  <2>3. QED
    BY <1>1, <2>1, <2>2 DEF Next
<1>2. IInv /\ [Next]_vars => [Kind]_vars
  BY <1>1
<1>3. QED
  BY Invariant, <1>2, PTL DEF Spec, CallsKeepTheirIds
=============================================================================
